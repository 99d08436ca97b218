----------------------------- MODULE AfdoSearch -----------------------------
(***************************************************************************)
(* bisect_profiles and range_search of afdo_prof_analysis.py: which of the *)
(* functions that two profiles share make the good one bad when they are   *)
(* taken from the bad one.                                                 *)
(*                                                                         *)
(* The functions are numbered in their shuffled order, and a profile is    *)
(* the set of those taken from the bad profile.  The decider finds it bad  *)
(* when it contains one of some problematic combinations; but it may also  *)
(* skip any profile.                                                       *)
(***************************************************************************)
EXTENDS Naturals, Sequences, FiniteSets, SequencesExt

CONSTANTS
    NumFuncs,       \* len(common_funcs)
    MaxCulprits,    \* bound on the number of problematic combinations
    MaxCombination, \* bound on the functions of one
    MaxUndecided,   \* bound on the halves of all calls that are skipped, and on the
                    \* profiles of one run of range_search that are
    NumRuns         \* _NUM_RUNS_RANGE_SEARCH

ASSUME SearchAssumption ==
    /\ NumFuncs \in Nat \ {0} /\ NumRuns \in Nat \ {0}
    /\ MaxCulprits \in Nat /\ MaxCombination \in Nat /\ MaxUndecided \in Nat

Funcs == 1 .. NumFuncs

VARIABLES
    culprits,       \* the least problematic combinations
    calls,          \* the calls of bisect_profiles to come, as <<lo, hi>>
    individuals, ranges,    \* the results so far, sets
    undecided,      \* the halves that have been skipped, as <<lo, hi>>: a history
    rangeSearch     \* the locals of range_search, or NoSearch

searchVars == <<culprits, calls, individuals, ranges, undecided, rangeSearch>>

NoSearch == [runs |-> 0, lo_mid |-> <<>>, mid_hi |-> <<>>, min_range |-> <<>>]

Problematic(profile) == \E c \in culprits : c \subseteq profile

SearchInit ==
    /\ culprits \in {Range(c) : c \in [1 .. MaxCulprits ->
                        {s \in SUBSET Funcs : Cardinality(s) \in 1 .. MaxCombination}]}
    /\ \A a, b \in culprits : a \subseteq b => a = b
    /\ calls = <<<<0, NumFuncs>>>>
    /\ individuals = {} /\ ranges = {} /\ undecided = {} /\ rangeSearch = NoSearch

-----------------------------------------------------------------------------
(* bisect_profiles *)

Section(half) == (half[1] + 1) .. half[2]

\* The call for a half whose verdict is BAD.
Half(half, skipped) ==
    IF half \notin skipped /\ Problematic(Section(half)) THEN <<half>> ELSE <<>>

\* Mutant: the second half is looked at only when the first one is good.
FirstBadHalf(lo, mid, hi, skipped) ==
    IF Half(<<lo, mid>>, skipped) # <<>> THEN Half(<<lo, mid>>, skipped)
    ELSE Half(<<mid, hi>>, skipped)

\* The recursive calls, depth first.
BadHalves(lo, mid, hi, skipped) == Half(<<lo, mid>>, skipped) \o Half(<<mid, hi>>, skipped)

FoundIndividual(lo, hi) ==
    /\ hi - lo <= 1
    /\ calls' = Tail(calls)
    /\ individuals' = individuals \union {lo + 1}
    /\ UNCHANGED <<undecided, rangeSearch>>

\* A half that is skipped is neither looked into nor good.
BisectHalves(lo, mid, hi) ==
    /\ hi - lo > 1
    /\ \E skipped \in SUBSET {<<lo, mid>>, <<mid, hi>>} :
          /\ undecided' = undecided \union skipped
          /\ Cardinality(undecided') <= MaxUndecided
          /\ calls' = BadHalves(lo, mid, hi, skipped) \o Tail(calls)
          /\ rangeSearch' =
                IF skipped # {} \/ BadHalves(lo, mid, hi, skipped) # <<>> THEN NoSearch
                ELSE [runs |-> NumRuns, min_range |-> <<>>,
                      lo_mid |-> [k \in 1 .. (mid - lo) |-> lo + k],
                      mid_hi |-> [k \in 1 .. (hi - mid) |-> mid + k]]
    /\ UNCHANGED individuals

BisectProfiles ==
    /\ calls # <<>> /\ rangeSearch = NoSearch
    /\ LET lo == Head(calls)[1]
           hi == Head(calls)[2]
       IN  FoundIndividual(lo, hi) \/ BisectHalves(lo, (lo + hi) \div 2, hi)
    /\ UNCHANGED <<culprits, ranges>>

-----------------------------------------------------------------------------
(* range_search.  A last_bad_val of 0 is none, in the code as well; and a   *)
(* profile that is skipped, at one of the middles in skipped, is like a good *)
(* one.                                                                      *)

\* The upper end is halved down as long as the profile is bad.  The functions
\* below the middle are bad in the first profile only: the reset makes all good.
FindUpperBorder(funcs, mid, skipped) ==
    LET n == Len(funcs)
        below == Range(SubSeq(funcs, 1, mid))
        find[s \in [lo : 0 .. n, hi : 0 .. n, last_bad_val : 0 .. n, rest : {below, {}}]] ==
            LET m == (s.lo + s.hi) \div 2
            IN  IF m \in {s.lo, s.hi} THEN IF s.last_bad_val # 0 THEN s.last_bad_val ELSE s.hi
                ELSE IF m \notin skipped /\ Problematic(s.rest \union Range(SubSeq(funcs, s.lo + 1, m)))
                THEN find[[s EXCEPT !.hi = m, !.last_bad_val = m, !.rest = {}]]
                ELSE find[[s EXCEPT !.lo = m, !.rest = {}]]
    IN  find[[lo |-> mid, hi |-> n, last_bad_val |-> 0, rest |-> below]]

\* The lower end is halved up as long as the profile stays bad without the
\* functions of the half.  The functions above the upper border are good in
\* the first profile only: the reset makes all of them bad.
FindLowerBorder(funcs, mid, upper, skipped) ==
    LET n == Len(funcs)
        upTo == Range(SubSeq(funcs, 1, upper))
        find[s \in [lo : 0 .. n, hi : 0 .. n, last_bad_val : 0 .. n, all : {upTo, Range(funcs)}]] ==
            LET m == (s.lo + s.hi) \div 2
            IN  IF m \in {s.lo, s.hi} THEN IF s.last_bad_val # 0 THEN s.last_bad_val ELSE s.lo
                ELSE IF m \notin skipped /\ Problematic(s.all \ Range(SubSeq(funcs, s.lo + 1, m)))
                THEN find[[s EXCEPT !.lo = m, !.last_bad_val = s.lo, !.all = Range(funcs)]]
                ELSE find[[s EXCEPT !.hi = m, !.all = Range(funcs)]]
    IN  find[[lo |-> 0, hi |-> mid, last_bad_val |-> 0, all |-> upTo]]

\* The orders that random.shuffle may leave a list in.
Shuffles(list) == SetToSeqs(Range(list))

\* One run with its lists in some order, and the return.
NarrowRange(lo_mid, mid_hi, skipped) ==
    LET funcs == lo_mid \o mid_hi
        mid == Len(lo_mid)
        upper == FindUpperBorder(funcs, mid, skipped)
        lower == FindLowerBorder(funcs, mid, upper, skipped)
        last == rangeSearch.min_range
        smaller == last = <<>> \/ upper - lower < Len(last)
        min_range == IF smaller THEN SubSeq(funcs, lower + 1, upper) ELSE last
        returns == Len(min_range) = 2 \/ rangeSearch.runs = 1
    IN  /\ ranges' = IF returns THEN ranges \union {Range(min_range)} ELSE ranges
        /\ rangeSearch' =
              IF returns THEN NoSearch
              ELSE [runs |-> rangeSearch.runs - 1, min_range |-> min_range,
                    lo_mid |-> IF smaller THEN SubSeq(lo_mid, lower + 1, mid) ELSE lo_mid,
                    mid_hi |-> IF smaller THEN SubSeq(mid_hi, 1, upper - mid) ELSE mid_hi]

\* The first run takes the lists as they are.
RangeSearch ==
    LET s == rangeSearch
        Orders(list) == IF s.min_range = <<>> THEN {list} ELSE Shuffles(list)
    IN  /\ s # NoSearch
        /\ \E lo_mid \in Orders(s.lo_mid), mid_hi \in Orders(s.mid_hi) :
              \E skipped \in SUBSET (1 .. Len(lo_mid \o mid_hi) - 1) :
                  /\ Cardinality(skipped) <= MaxUndecided
                  /\ NarrowRange(lo_mid, mid_hi, skipped)
        /\ UNCHANGED <<culprits, calls, individuals, undecided>>

SearchDone == calls = <<>> /\ rangeSearch = NoSearch

SearchNext == BisectProfiles \/ RangeSearch \/ (SearchDone /\ UNCHANGED searchVars)

SearchSpec == SearchInit /\ [][SearchNext]_searchVars

-----------------------------------------------------------------------------
\* "including all of those from the bad profile makes the good profile BAD",
\* and each range "definitely contains a problematic combination of profiles":
\* whatever is reported as a range is bad (docstring of bisect_profiles).
RangesAreProblematic == \A r \in ranges : Problematic(r)

\* Every function that the analysis names is bad alone, and a range is reported
\* only where none is.  A function that is bad alone is missed, and nothing at
\* all is reported, only when the decider has skipped a half: one that has the
\* function.
SearchIsExact ==
    /\ \A f \in individuals : {f} \in culprits
    /\ \A r \in ranges : \A f \in r : {f} \notin culprits
    /\ SearchDone =>
          /\ \A f \in Funcs : {f} \in culprits =>
                f \in individuals \/ \E half \in undecided : f \in Section(half)
          /\ individuals # {} \/ ranges # {} \/ undecided # {}
=============================================================================
