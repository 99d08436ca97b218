--------------------------- MODULE BinarySearcher ---------------------------
(***************************************************************************)
(* binary_search_tool/binary_search_perforce.py: the two searchers that    *)
(* the bisection tools share.                                              *)
(*                                                                         *)
(* A searcher is a record of the fields that decide what is tested next.   *)
(* Indices count from 0, as in the code: lo and hi bound the index of the  *)
(* first bad element, current is the one under test, skipped is the set of *)
(* skipped_indices.  Operators only: BinarySearchState has the steps.      *)
(***************************************************************************)
EXTENDS Integers, Sequences, FiniteSets

Good == 0
Bad == 1
Skip == 125

Searcher == [lo : Nat, hi : Nat, current : Nat, skipped : SUBSET Nat]

\* SetSortedList of a new BinarySearcher with n elements.
NewSearcher(n) == [lo |-> 0, hi |-> n - 1, current |-> 0, skipped |-> {}]

\* BinarySearcherForPass: hi stays 0 until the first GetNext.
NewPassSearcher == [lo |-> 0, hi |-> 0, current |-> 0, skipped |-> {}]

Middle(a, b) == (a + b) \div 2

-----------------------------------------------------------------------------
(* BinarySearcher *)

\* The indices that can be tested and have not been skipped.
Untested(s) == (s.lo .. (s.hi - 1)) \ s.skipped

\* The queue of GetNextFlakyBinary, one generation after the other: every
\* element is an interval with its index, split at the index when that has
\* been skipped.
Generation(s) ==
    LET gen[k \in 0 .. s.hi] ==
            IF k = 0 THEN << <<s.lo, s.current, s.hi>> >>
            ELSE [i \in 1 .. 2 * Len(gen[k - 1]) |->
                    LET e == gen[k - 1][(i + 1) \div 2] IN
                    IF i % 2 = 1 THEN <<e[1], Middle(e[1], e[2]), e[2]>>
                                 ELSE <<e[2], Middle(e[2], e[3]), e[3]>>]
    IN  gen

\* GetNextFlakyBinary: the first index of the queue that is not skipped.  The
\* elements before it have all been split, so its generation is complete.
NextFlakyBinary(s) ==
    LET gen == Generation(s)
        Hit(k, i) == gen[k][i][2] \notin s.skipped
        k == CHOOSE k \in 0 .. s.hi :
                /\ \E i \in 1 .. Len(gen[k]) : Hit(k, i)
                /\ \A j \in 0 .. (k - 1) : \A i \in 1 .. Len(gen[j]) : ~Hit(j, i)
        i == CHOOSE i \in 1 .. Len(gen[k]) :
                Hit(k, i) /\ \A j \in 1 .. (i - 1) : ~Hit(k, j)
    IN  gen[k][i][2]

\* GetNext: the middle, or the nearest split of it that has not been skipped.
GetNext(s) ==
    LET t == [s EXCEPT !.current = Middle(s.hi, s.lo)] IN
    IF t.current \in s.skipped THEN [t EXCEPT !.current = NextFlakyBinary(t)] ELSE t

\* SetStatus: the new searcher.
SetStatus(s, status) ==
    IF status = Skip THEN [s EXCEPT !.skipped = @ \cup {s.current}]
    ELSE LET lo == IF status = Good THEN s.current + 1 ELSE s.lo
             hi == IF status = Bad THEN s.current ELSE s.hi
         IN  [s EXCEPT !.lo = lo, !.hi = hi, !.current = Middle(lo, hi)]

\* Mutant: the search goes on when every index left has been skipped.
TerminatedWhenEqual(s) == s.lo = s.hi

\* The value SetStatus returns.
Terminated(s) == s.lo = s.hi \/ Untested(s) = {}

-----------------------------------------------------------------------------
(* BinarySearcherForPass *)

GetNextPass(s, total) ==
    LET hi == IF s.hi = 0 THEN total ELSE s.hi
    IN  [s EXCEPT !.hi = hi, !.current = Middle(hi, s.lo)]

\* A limit of 0 ends the search whatever the test says.
SetStatusPass(s, status) ==
    IF s.current = 0 \/ status = Skip THEN s
    ELSE IF status = Good THEN [s EXCEPT !.lo = s.current + 1]
    ELSE [s EXCEPT !.hi = s.current]

\* Mutant: the search ends one step early.
TerminatedPassEarly(s) == s.current = 0 \/ s.lo + 1 >= s.hi

TerminatedPass(s) == s.current = 0 \/ s.lo >= s.hi
=============================================================================
