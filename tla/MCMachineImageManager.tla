------------------------ MODULE MCMachineImageManager -----------------------
(***************************************************************************)
(* MachineImageManager on its own: every compatibility of small matrices,  *)
(* then allocate called for the DUTs in every order while the numbers of   *)
(* pending runs decrease in every way.                                     *)
(***************************************************************************)
EXTENDS MachineImageManager

CONSTANT MaxPending     \* bound on the pending runs of a label

ASSUME MaxPendingAssumption == MaxPending \in Nat

VARIABLES
    remote,     \* label.remote of every label
    matrix,     \* matrix_
    imaged,     \* the length of label_duts_ of every label
    pending     \* the benchmark runs left of every label

planVars == <<remote, matrix, imaged, pending>>

PlanInit ==
    /\ remote \in [Labels -> SUBSET Duts]
    /\ matrix = InitialAllocation(BlankMatrix(remote))
    /\ imaged = [l \in Labels |-> 0]
    /\ pending \in [Labels -> 0 .. MaxPending]

NextLabel(d) == LabelFor(matrix, d, imaged, pending)

\* allocate returns a label; when it returns None it changes nothing.
Allocate(d) ==
    \E l \in NextLabel(d) :
        /\ matrix' = [matrix EXCEPT ![l][d] = "taken"]
        /\ imaged' = [imaged EXCEPT ![l] = @ + 1]
        /\ UNCHANGED <<remote, pending>>

\* Some worker takes a run of a label that has been imaged somewhere.
TakeRun(l) ==
    /\ pending[l] > 0 /\ imaged[l] > 0
    /\ pending' = [pending EXCEPT ![l] = @ - 1]
    /\ UNCHANGED <<remote, matrix, imaged>>

\* Every DUT is told that there is no label for it.
AllQuit == (\A d \in Duts : NextLabel(d) = {}) /\ UNCHANGED planVars

PlanNext == (\E d \in Duts : Allocate(d)) \/ (\E l \in Labels : TakeRun(l)) \/ AllQuit

PlanSpec == PlanInit /\ [][PlanNext]_planVars

-----------------------------------------------------------------------------
\* The reference for the search: the assignments of labels to compatible DUTs
\* that give no DUT more than n labels.
Solutions(n) ==
    {f \in [Labels -> Duts] :
        /\ \A l \in Labels : Compatible(remote, l, f[l])
        /\ \A d \in Duts : Cardinality({l \in Labels : f[l] = d}) <= n}

\* "Each row at least get a Y ... each column get at most N Ys", for the least
\* N from nl - nd + 1 (or 1) on: with several labels and DUTs the plan that
\* the backtracking search makes is one of the assignments with the least
\* limit for which there is any.
PlanIsBest ==
    LET plan == [l \in Labels |-> CHOOSE d \in Duts : matrix[l][d] = "Y"]
        start == IF NDuts >= NLabels THEN 1 ELSE NLabels - NDuts + 1
        best == CHOOSE n \in start .. NLabels :
                   /\ Solutions(n) # {}
                   /\ \A k \in start .. (n - 1) : Solutions(k) = {}
    IN  (\A l \in Labels : imaged[l] = 0) /\ NLabels > 1 /\ NDuts > 1 =>
            /\ \A l \in Labels : Cardinality({d \in Duts : matrix[l][d] = "Y"}) = 1
            /\ plan \in Solutions(best)

\* No label is left behind: when allocate has no label left for any DUT, every
\* label with runs left to do has been imaged on some DUT.
NobodyLeftBehind ==
    (\A d \in Duts : NextLabel(d) = {}) =>
        \A l \in Labels : pending[l] > 0 => imaged[l] > 0
=============================================================================
