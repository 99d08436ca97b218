--------------------------- MODULE MCBinarySearch ---------------------------
(* Small instances of BinarySearchState for TLC. *)
EXTENDS BinarySearchState

Option(prune, pass, incremental, verify) ==
    [prune |-> prune, pass |-> pass, incremental |-> incremental, verify |-> verify]

\* Pruning with and without incremental switching, and pass bisection.
AllOptions ==
    {Option(TRUE, FALSE, TRUE, TRUE), Option(TRUE, FALSE, FALSE, FALSE),
     Option(FALSE, TRUE, TRUE, FALSE)}
=============================================================================
