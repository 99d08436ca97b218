----------------------------- MODULE MCSearches -----------------------------
(***************************************************************************)
(* The searches that find what is bad or what is best, each on its own:    *)
(* the bisection of items and passes, the compiler wrapper that builds     *)
(* what such a bisection asks for, the analysis of AFDO profiles, and the  *)
(* plan of the machine image manager.  Each behaviour is of one of them.   *)
(***************************************************************************)
EXTENDS MCBinarySearch, MCMachineImageManager, AfdoSearch, BisectDriver, TLC

CONSTANTS c1, c2, c3, o1, o2

VARIABLE tool

ThreeCompilations == {c1, c2, c3}

\* An object that two compilations write, and one of its own.
TwoObjects == (c1 :> o1) @@ (c2 :> o2) @@ (c3 :> o1)

DriverOption(build, redundancy, missing, safe, android) ==
    [build |-> build, redundancy |-> redundancy, missing |-> missing, safe |-> safe, android |-> android]

PlainOption == DriverOption({c1, c2}, FALSE, FALSE, TRUE, FALSE)
MCDriverOptions ==
    {PlainOption, DriverOption({c1, c2, c3}, TRUE, TRUE, FALSE, FALSE),
     DriverOption({c1, c2}, FALSE, TRUE, FALSE, TRUE)}

\* One initial state of a tool that stands still.
ItemsIdle == bad = {1} /\ world = [i \in Items |-> Good] /\ Init /\ passArg
DriverIdle == driverOption = PlainOption /\ DriverInit
ProfilesIdle == culprits = {{1}} /\ SearchInit
PlanIdle ==
    /\ remote = [l \in Labels |-> {}]
    /\ matrix = BlankMatrix(remote)
    /\ imaged = [l \in Labels |-> 1]
    /\ pending = [l \in Labels |-> 0]

SearchesInit ==
    \/ tool = "items" /\ Init /\ DriverIdle /\ ProfilesIdle /\ PlanIdle
    \/ tool = "driver" /\ ItemsIdle /\ DriverInit /\ ProfilesIdle /\ PlanIdle
    \/ tool = "profiles" /\ ItemsIdle /\ DriverIdle /\ SearchInit /\ PlanIdle
    \/ tool = "plan" /\ ItemsIdle /\ DriverIdle /\ ProfilesIdle /\ PlanInit

SearchesNext ==
    \/ tool = "items" /\ Next /\ UNCHANGED <<tool, planVars, searchVars, driverVars>>
    \/ tool = "driver" /\ DriverNext /\ UNCHANGED <<tool, vars, planVars, searchVars>>
    \/ tool = "profiles" /\ SearchNext /\ UNCHANGED <<tool, vars, planVars, driverVars>>
    \/ tool = "plan" /\ PlanNext /\ UNCHANGED <<tool, vars, searchVars, driverVars>>

SearchesSpec ==
    SearchesInit /\ [][SearchesNext]_<<tool, vars, planVars, searchVars, driverVars>>
=============================================================================
