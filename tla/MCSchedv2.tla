------------------------------ MODULE MCSchedv2 -----------------------------
(* Small instances of Schedv2 for TLC. *)
EXTENDS Schedv2, TLC

CONSTANTS b1, b2, b3

ThreeBrs == {b1, b2, b3}

\* One br of label 1 and two of label 2; one of each of three labels.
Labels122 == (b1 :> 1) @@ (b2 :> 2) @@ (b3 :> 2)
Labels123 == (b1 :> 1) @@ (b2 :> 2) @@ (b3 :> 3)

\* Every label names no DUT, or label 1 is restricted to DUT 1.
AnyRemote == [l \in Labels |-> {}]
SplitRemote == [l \in Labels |-> IF l = 1 THEN {1} ELSE {}]

LocalOne == {1}
NoLabels == {}
TrybotThree == {3}

\* The two brs of label 2 may be exchanged.
Interchangeable == Permutations({b2, b3})

\* ForceSameImageToAllMachines has imaged at most the first DUT.
FirstForced == Init /\ \A d \in Duts \ {1} : label[d] = NoLabel

SafetySpec == FirstForced /\ [][Next]_vars

\* No action depends on the image of a DUT, only on what is known of it, nor
\* on the checksum file of a worker that has stopped: for the properties that
\* are not about the image, one image per file and one outcome of a failed
\* flash do.
OneImage == Init /\ \A d \in Duts : image[d] = ckfile[d]

OneOutcome ==
    \A d \in Duts : stopped[d] = "imaging" /\ label[d] # choice[d] =>
        image[d] = NoLabel /\ ckfile[d] = NoLabel

LiveSpec == OneImage /\ [][Next /\ OneOutcome']_vars /\ Fairness
=============================================================================
