----------------------------- MODULE MCSteering ------------------------------
(***************************************************************************)
(* Two flags, -a=[1-3] and the boolean -a=1, which look alike.             *)
(***************************************************************************)
EXTENDS Steering, TLC

CONSTANTS a, b, x1, x2, x3

MCStart == a :> 1 @@ b :> 0
MCEnd == a :> 3 @@ b :> 1
MCText == a :> (1 :> x1 @@ 2 :> x2 @@ 3 :> x3) @@ b :> (0 :> x1)
MCSeeds == {<<>>}
MCNumProcesses == [s \in {"build", "test"} |-> IF s = "build" THEN 2 ELSE 1]
=============================================================================
