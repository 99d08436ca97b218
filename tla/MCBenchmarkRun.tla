--------------------------- MODULE MCBenchmarkRun ---------------------------
(* Small instances of BenchmarkRun for TLC. *)
EXTENDS BenchmarkRun, TLC

CONSTANTS m1, r1, r2, r3, la, lb, lc

OneMachine == {m1}
TwoRuns == {r1, r2}
ThreeRuns == {r1, r2, r3}
TwoLabels == {la, lb}
ThreeLabels == {la, lb, lc}
OnlyA == {la}
OnlyB == {lb}
OnlyC == {lc}

\* Every label may use every machine.
AllRemote == [l \in Labels |-> Machines]

\* Runs of different labels.
LabelsAB == (r1 :> la) @@ (r2 :> lb)
LabelsABC == (r1 :> la) @@ (r2 :> lb) @@ (r3 :> lc)
=============================================================================
