----------------------------- MODULE MCRestarts -----------------------------
(***************************************************************************)
(* Three tools that keep what they have done in a file and are started     *)
(* again until they are done: auto_llvm_bisection, afdo_prof_analysis and  *)
(* rust_uprev.  They share nothing; each behaviour is one of them.         *)
(***************************************************************************)
EXTENDS LlvmBisection, AfdoDecider, RustUprev

VARIABLE tool   \* the tool that is run: llvm, afdo or uprev

vars == <<tool, llvmVars, afdoVars, uprevVars>>

Init ==
    /\ tool \in {"llvm", "afdo", "uprev"}
    /\ LlvmInit /\ AfdoInit /\ UprevInit
    \* one initial state of the tools that are not run
    /\ tool # "llvm" => firstBad = 1
    /\ tool # "uprev" => command = "create" /\ uprev = NVersions

LlvmTool(A) == tool = "llvm" /\ A /\ UNCHANGED <<tool, afdoVars, uprevVars>>
AfdoTool(A) == tool = "afdo" /\ A /\ UNCHANGED <<tool, llvmVars, uprevVars>>
UprevTool(A) == tool = "uprev" /\ A /\ UNCHANGED <<tool, llvmVars, afdoVars>>

Next == LlvmTool(LlvmNext) \/ AfdoTool(AfdoNext) \/ UprevTool(UprevNext)

Spec == Init /\ [][Next]_vars /\ WF_vars(LlvmTool(AutoCycle))
=============================================================================
