----------------------------- MODULE RustUprev ------------------------------
(***************************************************************************)
(* rust_uprev.py: a list of steps, each recorded in a state file when it   *)
(* is complete, and skipped when the tool is started with --continue.  The *)
(* tool may be killed between any two steps, and between the effect of a   *)
(* step and its record.                                                    *)
(*                                                                         *)
(* tree is what the steps change in the overlay: which versions have       *)
(* ebuilds, how often package.provided lists each, the virtual package,    *)
(* the bootstrap version, the profile data flag of the eclass, and whether  *)
(* something is not committed.  The versions are ordinals, 0 is none.      *)
(***************************************************************************)
EXTENDS Naturals, Sequences

CONSTANTS
    NVersions,      \* versions in the overlay at first; the last is current
    Uprevs,         \* what --uprev or --rust_version may be
    MaxRuns         \* bound on the invocations

ASSUME UprevAssumption ==
    /\ NVersions \in Nat \ {0} /\ Uprevs \subseteq 1 .. (NVersions + 1) /\ MaxRuns \in Nat

Versions == 1 .. (NVersions + 1)
RustPackages == {"rust-host", "rust"}

VARIABLES
    command,    \* create, remove or roll
    uprev,      \* the version asked for
    tree,
    completed,  \* the state file: what each completed step returned
    uprevRun,   \* the running process: pc, its completed_steps, template, result
    runs,       \* invocations so far
    restarted   \* --restart has been used

uprevVars == <<command, uprev, tree, completed, uprevRun, runs, restarted>>

Off == [pc |-> "off", steps |-> <<>>, template |-> 0, result |-> 0]

UprevInit ==
    /\ command \in {"create", "remove", "roll"} /\ uprev \in Uprevs
    /\ tree = [ebuilds |-> [p \in RustPackages |-> 1 .. NVersions],
               provided |-> [p \in RustPackages |-> [v \in Versions |-> IF v <= NVersions THEN 1 ELSE 0]],
               virtual |-> 1 .. NVersions, bootstrap |-> 0, profdata |-> TRUE, dirty |-> FALSE]
    /\ completed = <<>> /\ uprevRun = Off /\ runs = 0 /\ restarted = FALSE

-----------------------------------------------------------------------------
(* The steps.  Consecutive ones without an effect on the tree are one. *)

\* The order of all the steps: roll creates, then removes.
Order ==
    <<"create new repo", "build cross compiler", "prepare uprev",
      "mirror and fetch sources", "update bootstrap version", "turn off profile data",
      "create rust-host ebuild", "create rust ebuild", "make profile data",
      "turn on profile data", "build packages", "insert host version",
      "insert target version", "upgrade virtual/rust",
      "find version to delete", "remove rust-host ebuild", "remove rust ebuild",
      "remove target version", "remove host version", "remove virtual/rust",
      "create CL">>

CreateSteps == {Order[i] : i \in 4 .. 14}
RemoveSteps == {Order[i] : i \in 15 .. 20}

\* What is to be done; after prepare_uprev has returned None, create_rust_uprev
\* returns and its caller goes on.
Steps(steps) ==
    LET create == {"prepare uprev"} \union
                     (IF "prepare uprev" \in DOMAIN steps /\ steps["prepare uprev"] = 0
                      THEN {} ELSE CreateSteps)
    IN  CASE command = "create" -> create
          [] command = "remove" -> RemoveSteps
          [] command = "roll" -> create \union RemoveSteps \union
                                    {"create new repo", "build cross compiler", "create CL"}

Remaining(steps) == {i \in DOMAIN Order : Order[i] \in Steps(steps) \ DOMAIN steps}

\* perform_step skips the completed steps.
NextStep(steps) ==
    Order[CHOOSE i \in Remaining(steps) : \A j \in Remaining(steps) : i <= j]

Template == uprevRun.steps["prepare uprev"]
DeleteVersion == uprevRun.steps["find version to delete"]

Newest(S) == CHOOSE v \in S : \A w \in S : w <= v
Oldest(S) == CHOOSE v \in S : \A w \in S : v <= w

\* create_ebuild: the template's ebuild is copied.
Created(p) ==
    IF Template \notin tree.ebuilds[p] THEN {}
    ELSE {[tree EXCEPT !.ebuilds[p] = @ \union {uprev}, !.dirty = TRUE]}

\* update_rust_packages, add: every copy of the last version's line is followed
\* by a line for the new version.
Inserted(p) ==
    LET last == Newest({v \in Versions : tree.provided[p][v] > 0})
    IN  {[tree EXCEPT !.provided[p][uprev] = @ + tree.provided[p][last], !.dirty = TRUE]}

\* update_rust_packages without add: every line of the version goes.
Removed(p) ==
    IF tree.provided[p][DeleteVersion] = 0 THEN {}
    ELSE {[tree EXCEPT !.provided[p][DeleteVersion] = 0, !.dirty = TRUE]}

\* The tree that a step leaves; none when it raises.
Effect(step) ==
    CASE step = "create new repo" -> IF tree.dirty THEN {} ELSE {tree}
      [] step = "prepare uprev" ->
            IF uprevRun.template \in tree.ebuilds["rust"] THEN {tree} ELSE {}
      [] step = "update bootstrap version" ->
            {[tree EXCEPT !.bootstrap = Template, !.dirty = TRUE]}
      [] step = "turn off profile data" ->
            IF tree.profdata THEN {[tree EXCEPT !.profdata = FALSE, !.dirty = TRUE]} ELSE {}
      [] step = "turn on profile data" ->
            IF tree.profdata THEN {} ELSE {[tree EXCEPT !.profdata = TRUE, !.dirty = TRUE]}
      [] step = "create rust-host ebuild" -> Created("rust-host")
      [] step = "create rust ebuild" -> Created("rust")
      [] step = "insert host version" -> Inserted("rust-host")
      [] step = "insert target version" -> Inserted("rust")
      [] step = "upgrade virtual/rust" ->
            IF Template \notin tree.virtual THEN {}
            ELSE {[tree EXCEPT !.virtual = @ \union {uprev}, !.dirty = TRUE]}
      [] step = "find version to delete" ->
            IF \E v, w \in tree.ebuilds["rust"] : v # w THEN {tree} ELSE {}
      [] step = "remove rust-host ebuild" ->
            {[tree EXCEPT !.ebuilds["rust-host"] = @ \ {DeleteVersion}, !.dirty = TRUE]}
      [] step = "remove rust ebuild" ->
            {[tree EXCEPT !.ebuilds["rust"] = @ \ {DeleteVersion}, !.dirty = TRUE]}
      [] step = "remove host version" -> Removed("rust-host")
      [] step = "remove target version" -> Removed("rust")
      [] step = "remove virtual/rust" ->
            {[tree EXCEPT !.virtual = @ \ {DeleteVersion}, !.dirty = TRUE]}
      [] step = "create CL" -> IF tree.dirty THEN {[tree EXCEPT !.dirty = FALSE]} ELSE {}
      [] OTHER -> {tree}

\* What the step returns, and is recorded.
Result(step) ==
    CASE step = "prepare uprev" -> IF uprev <= uprevRun.template THEN 0 ELSE uprevRun.template
      [] step = "find version to delete" -> Oldest(tree.ebuilds["rust"])
      [] OTHER -> 0

-----------------------------------------------------------------------------
(* perform_step, and the process around it *)

\* Mutant: the step that only finds something out is not taken from the file.
LoadStepsButFind ==
    [s \in DOMAIN completed \ {"find version to delete"} |-> completed[s]]

\* The completed steps of the state file.
LoadSteps == completed

\* With --restart the state file is removed.  The template that roll is not
\* given is the current version in the chroot, which its own steps change.
StartUprev(restart) ==
    /\ uprevRun.pc = "off" /\ runs < MaxRuns
    /\ restart => completed # <<>>
    /\ completed' = IF restart THEN <<>> ELSE completed
    /\ \E template \in {NVersions} \union {v \in tree.ebuilds["rust"] :
                        command = "roll" /\ v = Newest(tree.ebuilds["rust"])} :
          uprevRun' = [Off EXCEPT !.pc = "run", !.template = template,
                                  !.steps = IF restart THEN <<>> ELSE LoadSteps]
    /\ runs' = runs + 1 /\ restarted' = (restarted \/ restart)
    /\ UNCHANGED <<command, uprev, tree>>

RunStep ==
    LET step == NextStep(uprevRun.steps)
    IN  /\ uprevRun.pc = "run" /\ Remaining(uprevRun.steps) # {}
        \* "assert prepared is not None"
        /\ ~ (step = "create CL" /\ Template = 0)
        /\ \E t \in Effect(step) :
              /\ tree' = t
              /\ uprevRun' = [uprevRun EXCEPT !.pc = "record", !.result = Result(step)]
        /\ UNCHANGED <<command, uprev, completed, runs, restarted>>

\* The state file is written under another name and renamed.
RecordStep ==
    LET step == NextStep(uprevRun.steps)
        steps == [s \in DOMAIN uprevRun.steps \union {step} |->
                     IF s = step THEN uprevRun.result ELSE uprevRun.steps[s]]
    IN  /\ uprevRun.pc = "record"
        /\ completed' = steps
        /\ uprevRun' = [uprevRun EXCEPT !.pc = "run", !.steps = steps, !.result = 0]
        /\ UNCHANGED <<command, uprev, tree, runs, restarted>>

Finish ==
    /\ uprevRun.pc = "run" /\ Remaining(uprevRun.steps) = {}
    /\ uprevRun' = [uprevRun EXCEPT !.pc = "done"]
    /\ UNCHANGED <<command, uprev, tree, completed, runs, restarted>>

\* A step raises, before or after its effect, or the tool is killed.
Abort ==
    /\ uprevRun.pc \in {"run", "record"}
    /\ uprevRun' = Off
    /\ UNCHANGED <<command, uprev, tree, completed, runs, restarted>>

UprevEnded ==
    /\ uprevRun.pc = "done" \/ (uprevRun.pc = "off" /\ runs = MaxRuns)
    /\ UNCHANGED uprevVars

UprevNext ==
    \/ \E restart \in BOOLEAN : StartUprev(restart)
    \/ RunStep \/ RecordStep \/ Finish \/ Abort \/ UprevEnded

UprevSpec == UprevInit /\ [][UprevNext]_uprevVars

-----------------------------------------------------------------------------
\* However often the tool is killed and continued, when it is done the overlay
\* has the new version and all the old ones but the oldest, in its ebuilds, in
\* package.provided and in virtual/rust, is bootstrapped from the template and
\* uses profile data; and no line is there twice unless it was killed.
UprevResult ==
    uprevRun.pc = "done" /\ ~ restarted =>
        LET created == IF command # "remove" /\ Template # 0 THEN {uprev} ELSE {}
            deleted == IF command # "create" THEN {1} ELSE {}
            expected == (1 .. NVersions \union created) \ deleted
        IN  /\ \A p \in RustPackages :
                  /\ tree.ebuilds[p] = expected
                  /\ {v \in Versions : tree.provided[p][v] > 0} = expected
                  /\ runs = 1 => \A v \in Versions : tree.provided[p][v] <= 1
            /\ tree.virtual = expected
            /\ tree.profdata
            /\ created # {} => tree.bootstrap = NVersions
=============================================================================
