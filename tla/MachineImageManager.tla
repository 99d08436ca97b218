------------------------- MODULE MachineImageManager ------------------------
(***************************************************************************)
(* crosperf/machine_image_manager.py: which label to image onto which DUT. *)
(*                                                                         *)
(* Labels and DUTs are their ordinals.  A matrix gives every label and DUT *)
(* one cell: "X" (not compatible), "free" (the blank of the code), "Y"     *)
(* (planned) or "taken" (the underscore of the code).                      *)
(***************************************************************************)
EXTENDS Integers, Sequences, FiniteSets

CONSTANTS NLabels, NDuts

ASSUME SizeAssumption == NLabels \in Nat \ {0} /\ NDuts \in Nat \ {0}

Labels == 1 .. NLabels
Duts == 1 .. NDuts
Cells == {"X", "free", "Y", "taken"}
Matrix == [Labels -> [Duts -> Cells]]

\* Python's None, for a label.
NoLabel == 0

\* Mutant: a label that names no DUT is compatible with none.
CompatibleWhenNamed(remote, l, d) == d \in remote[l]

\* __init__: remote[l] is the set of DUTs that label l names; a label that
\* names none is compatible with all of them.
Compatible(remote, l, d) == remote[l] = {} \/ d \in remote[l]

BlankMatrix(remote) ==
    [l \in Labels |-> [d \in Duts |->
        IF Compatible(remote, l, d) THEN "free" ELSE "X"]]

-----------------------------------------------------------------------------
(* compute_initial_allocation *)

\* A partial solution gives the DUT of each of the first labels.
Partial == UNION {[1 .. k -> Duts] : k \in 0 .. NLabels}

\* The number of planned cells of column d.
Planned(a, d) == Cardinality({l \in DOMAIN a : a[l] = d})

\* May the next label be planned for DUT d when a DUT takes at most n labels?
MayPlan(m, a, d, n) ==
    m[Len(a) + 1][d] = "free" /\ Planned(a, d) < n

\* The backtracking search: the first DUT, in order, from which the rest of
\* the labels can be planned.
Search(m, n) ==
    LET extend[a \in Partial] ==
            IF Len(a) = NLabels THEN a
            ELSE LET found == {d \in Duts : /\ MayPlan(m, a, d, n)
                                            /\ extend[Append(a, d)] # <<>>}
                 IN  IF found = {} THEN <<>>
                     ELSE extend[Append(a, CHOOSE d \in found :
                                               \A e \in found : d <= e)]
    IN  extend[<<>>]

\* Mutant: the search starts from one label per DUT more than needed.
StartLimitTooHigh == IF NDuts >= NLabels THEN 2 ELSE NLabels - NDuts + 2

\* The limit on the labels of a DUT from which the search starts.
StartLimit == IF NDuts >= NLabels THEN 1 ELSE NLabels - NDuts + 1

\* The limits, from the first one on, under which there is a solution.
Limits(m) == {n \in StartLimit .. NLabels : Search(m, n) # <<>>}

FirstLimit(m) == CHOOSE n \in Limits(m) : \A k \in Limits(m) : n <= k

\* The plan: everything compatible in the two special cases, the solution of
\* the search, or nothing when some label fits no DUT.
InitialAllocation(m) ==
    LET solution == IF Limits(m) = {} THEN [l \in Labels |-> 0]
                                      ELSE Search(m, FirstLimit(m))
        planned(l, d) == IF NDuts = 1 \/ NLabels = 1 THEN m[l][d] = "free"
                                                     ELSE solution[l] = d
    IN  [l \in Labels |-> [d \in Duts |-> IF planned(l, d) THEN "Y" ELSE m[l][d]]]

-----------------------------------------------------------------------------
(* allocate *)

\* Mutant: one pending run is not worth a label.
WantedTwice(m, d, c, pending) == {l \in Labels : m[l][d] = c /\ pending[l] > 1}

\* The labels of column d with a cell c and benchmark runs left to do.
Wanted(m, d, c, pending) == {l \in Labels : m[l][d] = c /\ pending[l] > 0}

\* The free label imaged least often, then with the most pending runs, then
\* the last one.
LeastImaged(m, d, imaged, pending) ==
    LET free == Wanted(m, d, "free", pending)
    IN  {l \in free : \A k \in free :
            \/ imaged[k] > imaged[l]
            \/ imaged[k] = imaged[l] /\ pending[k] < pending[l]
            \/ imaged[k] = imaged[l] /\ pending[k] = pending[l] /\ k <= l}

\* The label allocate returns for DUT d, or nothing: the first planned one,
\* else the one imaged least often; labels without pending runs are skipped.
LabelFor(m, d, imaged, pending) ==
    LET plan == Wanted(m, d, "Y", pending)
    IN  IF plan # {} THEN {l \in plan : \A k \in plan : l <= k}
                     ELSE LeastImaged(m, d, imaged, pending)
=============================================================================
