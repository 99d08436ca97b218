----------------------------- MODULE FoundProofs ------------------------------
(***************************************************************************)
(* Proofs about what the bisection of binary_search_state.py finds when no *)
(* test is skipped: what it reports is bad, with --prune it reports all    *)
(* that is bad, and it reports the bad pass to within one.                 *)
(***************************************************************************)
EXTENDS SearchesProofs

-----------------------------------------------------------------------------
(* What a search without skipped tests knows *)

\* What is below lo passes, and what is up to hi fails, the tests.
Knows(b, bads) ==
    /\ b.found \subseteq bads /\ b.known \cap bads = {}
    /\ b.mode = "items" =>
          /\ b.bs.skipped = {}
          /\ \A j \in 1 .. b.bs.lo : b.all[j] \notin bads
          /\ \E j \in 1 .. b.bs.hi + 1 : b.all[j] \in bads

Knowledge ==
    /\ bad # {} /\ skips <= MaxSkips
    /\ NoSkip => /\ Knows(bss, bad) /\ (state # NoState => Knows(state, bad))
                 /\ pc = "prune" => bss.bs.current = bss.bs.lo /\ bss.bs.lo = bss.bs.hi

\* The fields that matter here.
LEMMA KnowsSame ==
    ASSUME NEW b, NEW c, NEW bads, Knows(b, bads), c.found = b.found, c.known = b.known,
           c.mode = b.mode, c.all = b.all, c.bs = b.bs
    PROVE  Knows(c, bads)
  BY DEF Knows

\* A skipped test is never taken back.
LEMMA SkipsFall ==
    ASSUME Base, skips <= MaxSkips, Next
    PROVE  /\ skips' <= MaxSkips
           /\ NoSkip' => NoSkip /\ skips' = skips
           /\ skips' = skips \/ VerifyGood \/ VerifyBad \/ TestItems \/ TestPass
  <1>1. skips \in Nat /\ MaxSkips \in Nat
    BY BaseFacts, ItemAssumption DEF SmallTypes
  <1>2. skips' = skips \/ (skips > 0 /\ skips' = skips - 1
                           /\ (VerifyGood \/ VerifyBad \/ TestItems \/ TestPass))
    BY DEF Next, VerifyGood, VerifyBad, Verified, Outer, Iterate, Save, Rename, NextItem,
         SwitchGoodItems, SwitchBadItems, TestItems, Answers, Prune, Command, StartPasses,
         NextPass, TestPass, PassDone, RemoveState, Killed, Resume, StartAgain, Ended, vars
  <1> QED
    BY <1>1, <1>2 DEF NoSkip

LEMMA TestTells ==
    ASSUME SetsInv, TestItems
    PROVE  ItemStatus = IF \E j \in 1 .. bss.bs.current + 1 : bss.all[j] \in bad THEN Bad ELSE Good
  <1>1. \A i \in Items : world[i] = IF i \in BadItems THEN Bad ELSE Good
    <2>1. pc = "test" /\ phase = "items"
      BY DEF TestItems
    <2>2. BadItems = Items \ GoodItems
      BY <2>1, BaseFacts, AtWorkFits, SetsAreItems DEF SetsInv, Progress, AtWork
    <2> QED
      BY <2>1, <2>2 DEF SetsInv, Sets
  <1>2. bad \subseteq Items /\ Good # Bad
    BY BaseFacts DEF SetsInv, SmallTypes, Good, Bad
  <1>3. BadItems = {bss.all[j] : j \in 1 .. (bss.bs.current + 1)}
    BY DEF BadItems, UpTo
  <1>4. (\E i \in bad : world[i] = Bad) <=> \E i \in bad : i \in BadItems
    BY <1>1, <1>2
  <1>5. (\E i \in bad : i \in BadItems) <=> \E j \in 1 .. bss.bs.current + 1 : bss.all[j] \in bad
    BY <1>3
  <1> QED
    BY <1>4, <1>5 DEF ItemStatus

LEMMA PruneKnows ==
    ASSUME Base, Prune, NEW x \in bss'.known
    PROVE  x \in bss.known \/ \E j \in 1 .. bss.bs.current : x = bss.all[j]
  <1>1. PICK i : i = bss.bs.current
    OBVIOUS
  <1>2. bss'.known = bss.known \/ bss'.known = bss.known \cup {bss.all[j] : j \in 1 .. i}
    BY <1>1, PruneEffect
  <1> QED
    BY <1>1, <1>2

LEMMA KnowledgeStep ==
    ASSUME SetsInv, Knowledge, Next
    PROVE  Knowledge'
  <1> USE DEF SetsInv
  <1>1. /\ Sound(bss) /\ skips \in Nat /\ MaxSkips \in Nat /\ bss \in Object
        /\ bss.bs.lo \in Nat /\ bss.bs.hi \in Nat /\ bss.bs.current \in Nat /\ Len(bss.all) \in Nat
    BY BaseFacts, SoundFields, ItemAssumption DEF SmallTypes
  <1>2. bad' = bad /\ bad # {} /\ skips' <= MaxSkips
    BY StateFile, SkipsFall DEF Knowledge
  <1>3. SUFFICES ASSUME NoSkip'
                 PROVE  /\ Knows(bss', bad) /\ (state' # NoState => Knows(state', bad))
                        /\ pc' = "prune" => bss'.bs.current = bss'.bs.lo /\ bss'.bs.lo = bss'.bs.hi
    BY <1>2 DEF Knowledge
  <1>4. NoSkip /\ skips' = skips
    BY <1>3, SkipsFall DEF Knowledge
  <1>5. Knows(bss, bad) /\ (state # NoState => Knows(state, bad))
    BY <1>4 DEF Knowledge
  <1>6. state' # NoState => Knows(state', bad)
    BY <1>5, StateFile
  <1>7. ASSUME bss'.found = bss.found, bss'.known = bss.known,
               bss'.mode = bss.mode, bss'.all = bss.all, bss'.bs = bss.bs
        PROVE  Knows(bss', bad)
    BY <1>5, <1>7, KnowsSame
  <1>8. CASE SwitchActions
    <2>1. pc' # "prune"
      BY <1>8 DEF SwitchActions, VerifyGood, VerifyBad, SwitchGoodItems, SwitchBadItems,
            Verified, Goto
    <2> QED
      BY <1>6, <1>7, <1>8, <2>1, SwitchEffect DEF SameSearch
  <1>9. CASE Outer \/ Iterate
    <2>1. pc' # "prune"
      BY <1>9 DEF Outer, Iterate, Goto
    <2> QED
      BY <1>1, <1>6, <1>7, <1>9, <2>1, OuterEffect, IterateEffect, EnterFits
  <1>10. CASE NextItem
    <2>1. /\ KeepsRest(bss, bss') /\ pc' # "prune"
          /\ bss.mode = "items" => /\ bss'.bs.lo = bss.bs.lo /\ bss'.bs.hi = bss.bs.hi
                                   /\ bss'.bs.skipped = bss.bs.skipped
      BY <1>10, NextItemEffect
    <2> QED
      BY <1>5, <1>6, <2>1 DEF Knows, KeepsRest
  <1>11. CASE TestItems
    <2> DEFINE s == bss.bs
               t == bss'.bs
    <2>1. PICK status \in {Good, Bad, Skip} :
              /\ Answers(status, ItemStatus)
              /\ bss.mode = "items" /\ Sound(bss') /\ KeepsRest(bss, bss')
              /\ pc' = IF Terminated(t) THEN "prune" ELSE "iterate"
              /\ t.lo <= t.hi /\ t.hi <= s.hi /\ s.lo <= t.lo /\ t.current <= t.hi
              /\ status # Skip => t.skipped = s.skipped /\ t.current = Middle(t.lo, t.hi)
              /\ status = Good => t.lo = s.current + 1 /\ t.hi = s.hi
              /\ status = Bad => t.lo = s.lo /\ t.hi = s.current
      BY <1>11, TestItemsEffect
    <2>2. status = ItemStatus /\ Good # Bad /\ Good # Skip /\ Bad # Skip
      BY <1>1, <1>4, <2>1 DEF Answers, Good, Bad, Skip
    <2>3. ItemStatus = IF \E j \in 1 .. s.current + 1 : bss.all[j] \in bad THEN Bad ELSE Good
      BY <1>11, TestTells
    <2>4. /\ s.skipped = {} /\ \A j \in 1 .. s.lo : bss.all[j] \notin bad
          /\ \E j \in 1 .. s.hi + 1 : bss.all[j] \in bad
      BY <1>5, <2>1 DEF Knows
    <2>5. /\ t.skipped = {} /\ t.current = Middle(t.lo, t.hi)
          /\ \A j \in 1 .. t.lo : bss.all[j] \notin bad
          /\ \E j \in 1 .. t.hi + 1 : bss.all[j] \in bad
      <3>1. CASE \E j \in 1 .. s.current + 1 : bss.all[j] \in bad
        BY <2>1, <2>2, <2>3, <2>4, <3>1
      <3>2. CASE ~ \E j \in 1 .. s.current + 1 : bss.all[j] \in bad
        BY <2>1, <2>2, <2>3, <2>4, <3>2
      <3> QED
        BY <3>1, <3>2
    <2>6. t.lo \in Nat /\ t.hi \in Nat
      BY <2>1, SoundFields
    <2> HIDE DEF s, t
    <2>7. pc' = "prune" => t.current = t.lo /\ t.lo = t.hi
      <3>1. ASSUME Terminated(t) PROVE t.lo = t.hi
        BY <2>1, <2>5, <2>6, <3>1 DEF Terminated, Untested
      <3>2. ASSUME t.lo = t.hi PROVE t.current = t.lo
        BY <2>5, <2>6, <3>2 DEF Middle
      <3> QED
        BY <2>1, <3>1, <3>2
    <2>8. Knows(bss', bad)
      BY <1>5, <2>1, <2>5 DEF Knows, KeepsRest, t
    <2> QED
      BY <1>6, <2>7, <2>8 DEF t
  <1>12. CASE Prune
    <2> DEFINE i == bss.bs.current
               below == {bss.all[j] : j \in 1 .. i}
    <2>1. i = bss.bs.lo /\ i = bss.bs.hi /\ bss.mode = "items" /\ i \in Nat /\ i < Len(bss.all)
      BY <1>1, <1>4, <1>12, PruneEffect DEF Knowledge, Prune
    <2>2. /\ \A j \in 1 .. i : bss.all[j] \notin bad
          /\ \E j \in 1 .. i + 1 : bss.all[j] \in bad
          /\ bss.bs.skipped = {}
      BY <1>5, <2>1 DEF Knows
    <2>3. bss.all[i + 1] \in bad /\ below \cap bad = {}
      BY <2>1, <2>2
    <2>4. /\ bss'.found \subseteq bad /\ bss'.known \cap bad = {} /\ bss'.mode = "items"
          /\ pc' # "prune"
      <3>1. bss'.found = bss.found \cup {bss.all[i + 1]} /\ bss'.mode = "items" /\ pc' # "prune"
        BY <1>12, <2>1, PruneEffect
      <3>2. bss'.known \cap bad = {}
        BY <1>5, <1>12, <2>2, PruneKnows DEF Knows
      <3> QED
        BY <1>5, <2>3, <3>1, <3>2 DEF Knows
    <2>5. CASE bss'.all = bss.all /\ bss'.bs = bss.bs
      <3>1. Knows(bss', bad)
        BY <1>5, <2>1, <2>4, <2>5 DEF Knows
      <3> QED
        BY <1>6, <2>4, <3>1
    <2>6. CASE /\ bss'.bs = NewSearcher(Len(bss'.all)) /\ i # Len(bss.all) - 1
               /\ bss'.all = SubSeq(bss.all, i + 2, Len(bss.all)) \o <<bss.all[i + 1]>>
      <3>1. /\ bss.all \in Seq(Items) /\ Permutes(bss.all) /\ i \in Nat /\ i < Len(bss.all) - 1
        BY <1>1, <2>1, <2>6, SoundFields
      <3>2. Len(bss'.all) = Len(bss.all) - i /\ bss'.all[Len(bss.all) - i] = bss.all[i + 1]
        <4>1. PICK all, new, k : all = bss.all /\ new = bss'.all /\ k = i
          OBVIOUS
        <4>2. /\ all \in Seq(Items) /\ Permutes(all) /\ k \in Nat /\ k < Len(all) - 1
              /\ new = SubSeq(all, k + 2, Len(all)) \o <<all[k + 1]>>
          BY ONLY <2>6, <3>1, <4>1
        <4> HIDE DEF i
        <4>3. Len(new) = Len(all) - k /\ new[Len(all) - k] = all[k + 1]
          BY ONLY <4>2, PrunedList, Zenon
        <4> QED
          BY ONLY <4>1, <4>3
      <3>3. /\ bss'.bs.skipped = {} /\ bss'.bs.lo = 0
            /\ bss'.bs.hi + 1 = Len(bss.all) - i /\ Len(bss.all) - i \in 1 .. Len(bss.all) - i
        <4>1. PICK n : n = Len(bss'.all)
          OBVIOUS
        <4>2. n = Len(bss.all) - i /\ bss'.bs = NewSearcher(n) /\ i \in Nat /\ n \in Nat \ {0}
          <5>1. bss'.bs = NewSearcher(n)
            BY ONLY <2>6, <4>1
          <5>2. Len(bss.all) \in Nat
            BY <1>1
          <5>3. PICK len : len = Len(bss.all)
            OBVIOUS
          <5>4. n = len - i /\ i \in Nat /\ i < len - 1
            BY ONLY <3>1, <3>2, <4>1, <5>3
          <5> HIDE DEF i
          <5> QED
            BY ONLY <5>1, <5>2, <5>3, <5>4
        <4>3. bss'.bs.skipped = {} /\ bss'.bs.lo = 0 /\ bss'.bs.hi = n - 1
          BY <4>2 DEF NewSearcher
        <4> QED
          BY <1>1, <4>2, <4>3
      <3>4. \E j \in 1 .. bss'.bs.hi + 1 : bss'.all[j] \in bad
        BY <2>3, <3>2, <3>3
      <3>5. \A j \in 1 .. bss'.bs.lo : bss'.all[j] \notin bad
        BY <3>3
      <3> QED
        BY <1>6, <2>4, <3>3, <3>4, <3>5 DEF Knows
    <2> QED
      BY <1>12, <2>5, <2>6, PruneEffect
  <1>13. ASSUME NEW p \in {"pass", "transform"}, StartPhase(p), bss.opts.pass
         PROVE  Knows(bss', bad) /\ pc' # "prune"
    <2>1. bss'.found = bss.found /\ bss'.known = bss.known /\ bss'.mode # "items" /\ pc' = "iterate"
      BY <1>13, StartEffect
    <2> QED
      BY <1>5, <2>1 DEF Knows
  <1>14. CASE StartPasses \/ PassDone
    <2>1. bss.opts.pass
      BY <1>1, <1>14, BaseFacts DEF StartPasses, PassDone, Phases, Sound
    <2>2. \/ \E p \in {"pass", "transform"} : StartPhase(p)
          \/ bss' = bss /\ pc' # "prune"
      BY <1>14 DEF StartPasses, PassDone, Goto
    <2> QED
      BY <1>5, <1>6, <1>13, <2>1, <2>2
  <1>15. CASE NextPass \/ TestPass
    <2>1. KeepsRest(bss, bss') /\ bss.mode # "items" /\ pc' # "prune"
      BY <1>15, NextPassEffect, TestPassEffect
    <2> QED
      BY <1>5, <1>6, <2>1 DEF Knows, KeepsRest
  <1>16. CASE Resume
    <2>1. CASE state = NoState
      BY <1>5, <1>6, <1>16, <2>1, ResumeEffect
    <2>2. CASE state # NoState
      BY <1>5, <1>6, <1>16, <2>2, ResumeEffect, KnowsSame
    <2> QED
      BY <2>1, <2>2
  <1>17. CASE StartAgain
    <2>1. PICK o \in Options : bss' = NewState(o) /\ pc' = "verifygood"
      BY <1>17, StartAgainEffect
    <2>2. PICK i \in Items : i \in bad
      BY <1>2, BaseFacts DEF SmallTypes
    <2>3. /\ bss'.found = {} /\ bss'.known = {} /\ bss'.bs.skipped = {} /\ bss'.bs.lo = 0
          /\ bss'.bs.hi = N - 1 /\ bss'.all = [j \in 1 .. N |-> j]
      BY <2>1 DEF NewState, NewSearcher
    <2>4. i \in 1 .. bss'.bs.hi + 1 /\ bss'.all[i] \in bad
      BY <2>2, <2>3, ItemAssumption DEF Items
    <2>5. /\ \A j \in 1 .. bss'.bs.lo : bss'.all[j] \notin bad
          /\ \E j \in 1 .. bss'.bs.hi + 1 : bss'.all[j] \in bad
      <3>1. bss'.bs.lo = 0
        BY <2>3
      <3>2. 1 .. bss'.bs.lo = {}
        BY ONLY <3>1
      <3> QED
        BY ONLY <2>4, <3>2, Zenon
    <2>6. Knows(bss', bad)
      BY <2>3, <2>5 DEF Knows
    <2> QED
      BY <1>6, <2>1, <2>6
  <1>18. CASE Save \/ Rename \/ Command \/ RemoveState \/ Killed
    <2>1. bss' = bss /\ pc' # "prune"
      BY <1>18 DEF Save, Rename, Command, RemoveState, Killed, Goto
    <2> QED
      BY <1>5, <1>6, <2>1
  <1>19. CASE Ended
    BY <1>4, <1>5, <1>6, <1>19 DEF Ended, vars, Knowledge
  <1> QED
    BY <1>8, <1>9, <1>10, <1>11, <1>12, <1>14, <1>15, <1>16, <1>17, <1>18, <1>19, Actions

LEMMA KnowledgeHolds == Spec => [](SetsInv /\ Knowledge)
  <1>1. Init => Knowledge
    <2> SUFFICES ASSUME Init PROVE Knowledge
      OBVIOUS
    <2>1. PICK o \in Options : bss = NewState(o)
      BY DEF Init
    <2>2. PICK i \in Items : i \in bad
      BY DEF Init
    <2>3. /\ bss.found = {} /\ bss.known = {} /\ bss.bs.skipped = {} /\ bss.bs.lo = 0
          /\ bss.bs.hi = N - 1 /\ bss.all = [j \in 1 .. N |-> j]
      BY <2>1 DEF NewState, NewSearcher
    <2>4. i \in 1 .. bss.bs.hi + 1 /\ bss.all[i] \in bad
      BY <2>2, <2>3, ItemAssumption DEF Items
    <2>6. /\ \A j \in 1 .. bss.bs.lo : bss.all[j] \notin bad
          /\ \E j \in 1 .. bss.bs.hi + 1 : bss.all[j] \in bad
      <3>1. bss.bs.lo = 0
        BY <2>3
      <3>2. 1 .. bss.bs.lo = {}
        BY ONLY <3>1
      <3> QED
        BY ONLY <2>4, <3>2, Zenon
    <2>5. Knows(bss, bad)
      BY <2>3, <2>6 DEF Knows
    <2> QED
      BY <2>2, <2>5, ItemAssumption DEF Init, Knowledge, NoSkip
  <1>2. SetsInv /\ Knowledge /\ [Next]_vars => Knowledge'
    <2>1. CASE Next
      BY <2>1, KnowledgeStep
    <2>2. CASE UNCHANGED vars
      BY <2>2 DEF Knowledge, NoSkip, vars, envVars, fileVars
    <2> QED
      BY <2>1, <2>2
  <1> QED
    BY <1>1, <1>2, SetsInvHolds, PTL DEF Spec

\* The first half of FindsTheBad.
NothingElse == NoSkip => bss.found \subseteq bad /\ bss.known \cap bad = {}

\* DoSearchBadItems: without skipped tests, what is reported is bad and what is
\* taken to be good is good, killed and resumed or not.
THEOREM ReportsOnlyBad == Spec => []NothingElse
  <1>1. Knowledge => NothingElse
    BY DEF Knowledge, Knows, NothingElse
  <1> QED
    BY <1>1, KnowledgeHolds, PTL

-----------------------------------------------------------------------------
(* With --prune all the bad items are found *)

\* k halvings of n leave nothing.
Halving(n, k, h) ==
    /\ h \in [0 .. k -> 0 .. n] /\ h[0] = n /\ h[k] = 0
    /\ \A i \in 0 .. k - 1 : h[i + 1] = h[i] \div 2

HalvedAway(n, k) == \E h \in [0 .. k -> 0 .. n] : Halving(n, k, h)

LEMMA HalvingStep ==
    ASSUME NEW n \in Nat, NEW k \in Nat, NEW h, Halving(n, k, h), NEW i \in 0 .. k
    PROVE  /\ h[i] \in Nat /\ (h[i] > 0 => i < k)
           /\ i < k => h[i + 1] = h[i] \div 2
  BY DEF Halving

LEMMA HalfIsLeft ==
    ASSUME NEW a \in Nat, NEW b \in Nat, a <= b, NEW m \in Nat, b - a <= m
    PROVE  /\ b - (Middle(a, b) + 1) <= m \div 2
           /\ Middle(a, b) - a <= m \div 2
  BY DEF Middle

\* The width of a search is what so many halvings have left.
InTime(b, w) ==
    b.mode = "items" =>
        b.search \in 0 .. Iterations /\ b.bs.hi - b.bs.lo <= w[b.search]

\* ... and while an index is tested, one fewer.
UnderTest(b, w) ==
    b.search \in 1 .. Iterations /\ b.bs.hi - b.bs.lo <= w[b.search - 1]
        /\ b.bs.current = Middle(b.bs.lo, b.bs.hi)

\* The items that have been found are at the end of the list; every round of
\* pruning has found one.
Pruning(b) ==
    b.opts.prune =>
        /\ b.pruned = Cardinality(b.found)
        /\ \A j, k \in 1 .. Len(b.all) : b.all[j] \in b.found /\ j <= k => b.all[k] \in b.found

LEMMA PruningSame ==
    ASSUME NEW b, NEW c, Pruning(b), c.opts = b.opts, c.pruned = b.pruned,
           c.found = b.found, c.all = b.all
    PROVE  Pruning(c)
  BY DEF Pruning

LEMMA InTimeSame ==
    ASSUME NEW b, NEW c, NEW w, InTime(b, w), c.mode = b.mode, c.search = b.search, c.bs = b.bs
    PROVE  InTime(c, w)
  BY DEF InTime

LEMMA NewIsPruning ==
    ASSUME NEW o \in Options
    PROVE  /\ Pruning(NewState(o)) /\ NewState(o).resumed = FALSE
           /\ NewState(o).mode = "items" /\ Len(NewState(o).all) = N
  <1>1. /\ NewState(o).pruned = 0 /\ NewState(o).found = {} /\ NewState(o).resumed = FALSE
        /\ NewState(o).mode = "items" /\ NewState(o).all = [i \in 1 .. N |-> i]
    BY DEF NewState
  <1>2. Len(NewState(o).all) = N
    BY <1>1, ItemAssumption, LenProperties, SeqDef DEF Items
  <1> QED
    BY <1>1, <1>2, FS_EmptySet DEF Pruning

LEMMA ItemsAreFinite == ASSUME NEW S, S \subseteq Items PROVE IsFiniteSet(S) /\ Cardinality(S) \in Nat
  <1>1. IsFiniteSet(Items)
    BY ItemAssumption, FS_Interval DEF Items
  <1> QED
    BY <1>1, FS_Subset, FS_CardinalityType

\* Enough rounds, or no index left: all the bad items have been found.
LEMMA AllFound ==
    ASSUME NEW bads, bads \subseteq Items, NEW found, found \subseteq bads,
           NEW pruned, pruned = Cardinality(found), pruned >= Cardinality(bads)
    PROVE  found = bads
  <1>1. IsFiniteSet(bads) /\ Cardinality(bads) \in Nat /\ Cardinality(found) \in Nat
    BY ItemsAreFinite
  <1>2. Cardinality(found) <= Cardinality(bads) /\ (Cardinality(bads) = Cardinality(found) => found = bads)
    BY <1>1, FS_Subset
  <1> QED
    BY <1>1, <1>2

LEMMA PrunedOrder ==
    ASSUME NEW all \in Seq(Items), Permutes(all), NEW i \in Nat, i < Len(all) - 1,
           NEW new, new = SubSeq(all, i + 2, Len(all)) \o <<all[i + 1]>>,
           NEW found,
           \A j, k \in 1 .. Len(all) : all[j] \in found /\ j <= k => all[k] \in found
    PROVE  LET now == found \cup {all[i + 1]} IN
           \A j, k \in 1 .. Len(new) : new[j] \in now /\ j <= k => new[k] \in now
  <1> DEFINE now == found \cup {all[i + 1]}
  <1>1. /\ Len(all) \in Nat /\ Len(new) = Len(all) - i /\ new[Len(all) - i] = all[i + 1]
        /\ \A j \in 1 .. Len(all) - i - 1 : new[j] = all[i + 1 + j]
    <2>1. Len(all) \in Nat
      BY LenProperties
    <2>3. /\ Len(new) = Len(all) - i /\ new[Len(all) - i] = all[i + 1]
          /\ \A j \in 1 .. Len(all) - i - 1 : new[j] = all[i + 1 + j]
      <3>1. new = Shifted(all, i)
        BY Zenon DEF Shifted
      <3> QED
        BY ONLY <3>1, PrunedItems, all \in Seq(Items), i \in Nat, i < Len(all) - 1
    <2> QED
      BY <2>1, <2>3
  <1>2. SUFFICES ASSUME NEW j \in 1 .. Len(new), NEW k \in 1 .. Len(new), new[j] \in now, j <= k
                 PROVE  new[k] \in now
    OBVIOUS
  <1>3. CASE k = Len(all) - i
    BY <1>1, <1>3
  <1>4. CASE k # Len(all) - i
    <2>1. /\ j \in 1 .. Len(all) - i - 1 /\ k \in 1 .. Len(all) - i - 1
          /\ i + 1 + j \in 1 .. Len(all) /\ i + 1 + k \in 1 .. Len(all) /\ i + 1 \in 1 .. Len(all)
          /\ i + 1 + j <= i + 1 + k /\ i + 1 + j # i + 1
      BY <1>1, <1>2, <1>4
    <2>2. new[j] = all[i + 1 + j] /\ new[k] = all[i + 1 + k]
      BY <1>1, <2>1
    <2>3. all[i + 1 + j] # all[i + 1]
      BY <2>1 DEF Permutes
    <2>4. all[i + 1 + j] \in found
      BY <1>2, <2>2, <2>3
    <2>5. all[i + 1 + k] \in found
      BY <2>1, <2>4
    <2> QED
      BY <2>2, <2>5
  <1> QED
    BY <1>3, <1>4

LEMMA RestIsFound ==
    ASSUME NEW all \in Seq(Items), NEW bads, bads \subseteq Items, NEW found, found \subseteq bads,
           NEW i \in Nat, i < Len(all), all[i + 1] \in bads,
           \A x \in bads : x \in ListOf(all), \A j \in 1 .. i : all[j] \notin bads,
           \A j, k \in 1 .. Len(all) : all[j] \in found /\ j <= k => all[k] \in found,
           i = Len(all) - 1 \/ all[i + 1] \in found
    PROVE  found \cup {all[i + 1]} = bads
  <1>1. Len(all) \in Nat
    BY LenProperties
  <1>2. ASSUME NEW x \in bads PROVE x \in found \cup {all[i + 1]}
    <2>1. PICK k \in 1 .. Len(all) : x = all[k]
      BY DEF ListOf
    <2>2. k \in i + 1 .. Len(all) /\ i + 1 \in 1 .. Len(all) /\ i + 1 <= k
      BY <1>1, <2>1
    <2>3. CASE i = Len(all) - 1
      BY <1>1, <2>1, <2>2, <2>3
    <2>4. CASE all[i + 1] \in found
      BY <2>1, <2>2, <2>4
    <2> QED
      BY <2>3, <2>4
  <1> QED
    BY <1>2

Unresumed == Inside \cup AtWork \cup {"verifygood", "verifybad"}

Few == Cardinality(bad) <= PruneIterations

\* The tool that runs, and what it has saved.
RunIsThorough(w) ==
    /\ Len(bss.all) > 1
    /\ pc \in Unresumed => bss.resumed = FALSE
    /\ pc \in Inside /\ phase = "items" => InTime(bss, w)
    /\ pc = "outer" /\ bss.resumed = TRUE => InTime(bss, w)
    /\ pc \in {"good", "bad", "test"} /\ phase = "items" => UnderTest(bss, w)
    /\ pc \in Unresumed \cup {"outer"} /\ phase = "items" => Pruning(bss)
    /\ pc \in {"command", "remove", "done"} /\ Few => (bss.opts.prune => bss.found = bad)

SavedIsThorough(w) ==
    state # NoState => Len(state.all) > 1 /\ InTime(state, w) /\ Pruning(state)

Thorough(w) == NoSkip /\ N > 1 => RunIsThorough(w) /\ SavedIsThorough(w)

Halves(w) == Halving(N - 1, Iterations, w)

\* Neither is asked of an object that bisects passes.
LEMMA PassMode ==
    ASSUME NEW b, Sound(b), b.mode # "items", NEW w
    PROVE  ~b.opts.prune /\ InTime(b, w) /\ Pruning(b)
  <1>1. b.opts.pass
    BY DEF Sound
  <1> QED
    BY <1>1, SoundFields DEF InTime, Pruning

\* The assumptions of the steps below.
StepFrom(w) ==
    /\ SetsInv /\ Knowledge /\ Halves(w) /\ Next
    /\ NoSkip /\ skips' = skips /\ N > 1 /\ RunIsThorough(w) /\ SavedIsThorough(w)

LEMMA StepFacts ==
    ASSUME NEW w, StepFrom(w)
    PROVE  /\ Base /\ Sound(bss) /\ Knows(bss, bad) /\ Phases /\ bad' = bad
           /\ N - 1 \in Nat /\ Iterations \in Nat /\ PruneIterations \in Nat /\ bad \subseteq Items
           /\ bss.search \in Nat /\ bss.bs.lo \in Nat /\ bss.bs.hi \in Nat
           /\ bss.bs.current \in Nat /\ Len(bss.all) \in 1 .. N /\ N \in Nat
           /\ w[0] = N - 1
           /\ \A i \in 0 .. Iterations : w[i] \in Nat /\ (w[i] > 0 => i < Iterations)
                                          /\ (i < Iterations => w[i + 1] = w[i] \div 2)
  <1>1. /\ Base /\ Sound(bss) /\ Phases /\ bad \subseteq Items
    BY BaseFacts DEF StepFrom, SetsInv, SmallTypes
  <1>2. Knows(bss, bad) /\ bad' = bad
    BY StateFile DEF StepFrom, Knowledge
  <1>3. N - 1 \in Nat /\ Iterations \in Nat /\ PruneIterations \in Nat /\ N \in Nat
    BY ItemAssumption
  <1>4. /\ bss.search \in Nat /\ bss.bs.lo \in Nat /\ bss.bs.hi \in Nat
        /\ bss.bs.current \in Nat /\ Len(bss.all) \in 1 .. N
    BY <1>1, SoundFields
  <1>5. w[0] = N - 1
    BY DEF StepFrom, Halves, Halving
  <1>6. \A i \in 0 .. Iterations : /\ w[i] \in Nat /\ (w[i] > 0 => i < Iterations)
                                   /\ i < Iterations => w[i + 1] = w[i] \div 2
    BY <1>3, HalvingStep DEF StepFrom, Halves
  <1> QED
    BY <1>1, <1>2, <1>3, <1>4, <1>5, <1>6

\* The sets are switched.
LEMMA SwitchThorough ==
    ASSUME NEW w, StepFrom(w), SwitchActions
    PROVE  RunIsThorough(w)'
  <1>1. SameSearch(bss, bss') /\ phase = "items"
    BY StepFacts, SwitchEffect DEF SwitchActions, VerifyGood, VerifyBad, SwitchGoodItems,
       SwitchBadItems, Phases
  <1>2. /\ pc \in {"verifygood", "verifybad", "good", "bad"} /\ phase' = phase
        /\ \/ pc' \in {"verifybad", "outer", "raised"}
           \/ pc \in {"good", "bad"} /\ pc' \in {"bad", "test"}
    BY DEF SwitchActions, VerifyGood, VerifyBad, Verified, SwitchGoodItems, SwitchBadItems,
       Goto, passVars
  <1>3. /\ Len(bss.all) > 1 /\ bss.resumed = FALSE /\ Pruning(bss)
        /\ pc \in {"good", "bad"} => UnderTest(bss, w)
    BY <1>1, <1>2 DEF StepFrom, RunIsThorough, Unresumed, AtWork
  <1>4. /\ Len(bss'.all) > 1 /\ bss'.resumed = FALSE /\ Pruning(bss')
        /\ pc \in {"good", "bad"} => UnderTest(bss', w)
    BY <1>1, <1>3 DEF SameSearch, Pruning, UnderTest
  <1> QED
    BY <1>2, <1>4 DEF RunIsThorough, Inside

LEMMA OuterThorough ==
    ASSUME NEW w, StepFrom(w), Outer
    PROVE  RunIsThorough(w)'
  <1>1. /\ phase = "items" /\ phase' = "items" /\ pc = "outer" /\ bad' = bad
        /\ Len(bss.all) > 1 /\ Pruning(bss) /\ (bss.resumed = TRUE => InTime(bss, w))
    BY StepFacts DEF StepFrom, RunIsThorough, Outer, passVars, Phases
  <1>2. CASE pc' = "iterate" /\ bss' = EnterSearch(bss)
    <2>1. /\ bss'.search = (IF bss.resumed THEN bss.search ELSE 0) /\ bss'.resumed = FALSE
          /\ bss'.opts = bss.opts /\ bss'.mode = bss.mode /\ bss'.all = bss.all /\ bss'.bs = bss.bs
          /\ bss'.pruned = bss.pruned /\ bss'.found = bss.found
      BY <1>2, StepFacts, EnterFits
    <2>2. InTime(bss', w)
      <3>1. CASE bss.resumed = TRUE
        BY <1>1, <2>1, <3>1 DEF InTime
      <3>2. CASE bss.resumed = FALSE
        <4>1. bss.mode = "items" => bss.bs.hi < Len(bss.all)
          BY StepFacts DEF Sound
        <4> QED
          BY <2>1, <3>2, <4>1, StepFacts DEF InTime
      <3> QED
        BY <3>1, <3>2, StepFacts, SoundFields
    <2>3. Pruning(bss')
      BY <1>1, <2>1, PruningSame
    <2> QED
      BY <1>1, <1>2, <2>1, <2>2, <2>3 DEF RunIsThorough, Unresumed, Inside
  <1>3. CASE pc' = "command" /\ bss' = bss /\ bss.pruned >= PruneIterations
    <2>1. ASSUME Few', bss.opts.prune PROVE bss.found = bad
      <3>1. bss.pruned = Cardinality(bss.found)
        BY <1>1, <2>1 DEF Pruning
      <3>2. Cardinality(bad) <= PruneIterations
        BY <1>1, <2>1 DEF Few
      <3>3. bss.found \subseteq bad
        BY StepFacts DEF Knows
      <3>4. bss.pruned \in Nat /\ Cardinality(bad) \in Nat
        BY StepFacts, SoundFields, ItemsAreFinite
      <3>5. bss.pruned >= Cardinality(bad)
        BY <1>3, <3>2, <3>4, StepFacts
      <3> QED
        BY <3>1, <3>3, <3>5, AllFound, StepFacts
    <2> QED
      BY <1>1, <1>3, <2>1 DEF RunIsThorough, Unresumed, Inside, AtWork
  <1> QED
    BY <1>1, <1>2, <1>3, StepFacts, OuterEffect

\* Iterations are never used up while items are bisected.
LEMMA IterateThorough ==
    ASSUME NEW w, StepFrom(w), Iterate
    PROVE  RunIsThorough(w)'
  <1>1. /\ phase' = phase /\ pc = "iterate" /\ bad' = bad
        /\ Len(bss.all) > 1 /\ bss.resumed = FALSE
        /\ phase = "items" => InTime(bss, w) /\ Pruning(bss)
    BY StepFacts DEF StepFrom, RunIsThorough, Iterate, passVars, Inside, Unresumed
  <1>2. CASE pc' = "save" /\ bss' = bss
    BY <1>1, <1>2 DEF RunIsThorough, Inside
  <1>3. CASE pc' = "command" /\ bss.search >= Iterations /\ phase = "items" /\ bss'.all = bss.all
             /\ bss'.opts = bss.opts
    <2>1. bss.mode # "items"
      <3> SUFFICES ASSUME bss.mode = "items" PROVE FALSE
        OBVIOUS
      <3>1. bss.bs.lo < bss.bs.hi
        BY <1>1, <1>3, BaseFacts, StepFacts DEF Progress, Inside, GoesOn
      <3>2. bss.search \in 0 .. Iterations /\ bss.bs.hi - bss.bs.lo <= w[bss.search]
        BY <1>1, <1>3 DEF InTime
      <3>3. w[bss.search] > 0
        BY <3>1, <3>2, StepFacts
      <3> QED
        BY <1>3, <3>2, <3>3, StepFacts
    <2>2. ~bss.opts.prune
      BY <2>1, PassMode, StepFacts
    <2> QED
      BY <1>1, <1>3, <2>2 DEF RunIsThorough, Unresumed, Inside, AtWork
  <1>4. CASE pc' = "passdone" /\ bss' = bss
    BY <1>1, <1>4 DEF RunIsThorough, Unresumed, Inside, AtWork
  <1> QED
    BY <1>2, <1>3, <1>4, StepFacts, IterateEffect

LEMMA NextItemThorough ==
    ASSUME NEW w, StepFrom(w), NextItem
    PROVE  RunIsThorough(w)'
  <1>1. /\ phase' = "items" /\ phase = "items" /\ pc = "next"
        /\ Len(bss.all) > 1 /\ bss.resumed = FALSE /\ InTime(bss, w) /\ Pruning(bss)
    BY DEF StepFrom, RunIsThorough, NextItem, passVars, Inside, Unresumed
  <1>2. KeepsRest(bss, bss') /\ bss'.search = bss.search + 1
    BY StepFacts, NextItemEffect
  <1>3. Pruning(bss') /\ Len(bss'.all) > 1 /\ bss'.resumed = FALSE
    BY <1>1, <1>2 DEF KeepsRest, Pruning
  <1>4. CASE bss.mode # "items" /\ pc' = "raised"
    BY <1>3, <1>4 DEF RunIsThorough, Unresumed, Inside, AtWork
  <1>5. CASE bss.mode = "items" /\ pc' = "good"
    <2>1. /\ bss'.bs.lo = bss.bs.lo /\ bss'.bs.hi = bss.bs.hi /\ bss.bs.lo < bss.bs.hi
          /\ bss'.bs.current = Middle(bss'.bs.lo, bss'.bs.hi)
      BY <1>5, StepFacts, NextItemEffect DEF Knows, GoesOn
    <2>2. bss.search \in 0 .. Iterations /\ bss.bs.hi - bss.bs.lo <= w[bss.search]
      BY <1>1, <1>5 DEF InTime
    <2>3. bss.search < Iterations
      BY <2>1, <2>2, StepFacts
    <2>4. UnderTest(bss', w)
      <3>1. bss'.search \in 1 .. Iterations /\ bss'.search - 1 = bss.search
        <4>1. bss.search \in Nat /\ Iterations \in Nat
          BY StepFacts
        <4> QED
          BY <1>2, <2>3, <4>1
      <3> QED
        BY <2>1, <2>2, <3>1 DEF UnderTest
    <2> QED
      BY <1>1, <1>3, <1>5, <2>4 DEF RunIsThorough, Inside
  <1> QED
    BY <1>4, <1>5, StepFacts, NextItemEffect

\* A test halves what is left.
LEMMA TestThorough ==
    ASSUME NEW w, StepFrom(w), TestItems
    PROVE  RunIsThorough(w)'
  <1>1. /\ phase' = "items" /\ phase = "items" /\ pc = "test"
        /\ Len(bss.all) > 1 /\ bss.resumed = FALSE /\ UnderTest(bss, w) /\ Pruning(bss)
    BY DEF StepFrom, RunIsThorough, TestItems, passVars, AtWork, Unresumed
  <1> DEFINE s == bss.bs
             t == bss'.bs
  <1>2. PICK status \in {Good, Bad, Skip} :
            /\ Answers(status, ItemStatus)
            /\ Sound(bss') /\ KeepsRest(bss, bss') /\ bss'.search = bss.search
            /\ pc' = (IF Terminated(t) THEN "prune" ELSE "iterate")
            /\ status = Good => t.lo = s.current + 1 /\ t.hi = s.hi
            /\ status = Bad => t.lo = s.lo /\ t.hi = s.current
    BY StepFacts, TestItemsEffect
  <1>3. status \in {Good, Bad}
    <2>1. ItemStatus \in {Good, Bad} /\ skips' = skips
      BY DEF ItemStatus, StepFrom
    <2>2. skips \in Nat
      BY BaseFacts, StepFacts DEF SmallTypes
    <2> QED
      BY <1>2, <2>1, <2>2 DEF Answers
  <1>4. Pruning(bss') /\ Len(bss'.all) > 1 /\ bss'.resumed = FALSE
    BY <1>1, <1>2 DEF KeepsRest, Pruning
  <1>5. InTime(bss', w)
    <2>1. /\ s.hi - s.lo <= w[bss.search - 1] /\ s.current = Middle(s.lo, s.hi)
          /\ bss.search \in 1 .. Iterations
      BY <1>1 DEF UnderTest
    <2>2. bss.search - 1 \in 0 .. Iterations /\ bss.search - 1 < Iterations
          /\ (bss.search - 1) + 1 = bss.search
      BY <2>1, StepFacts
    <2>3. w[bss.search - 1] \in Nat /\ w[bss.search] = w[bss.search - 1] \div 2
      BY <2>2, StepFacts
    <2>4. s.lo \in Nat /\ s.hi \in Nat /\ s.lo <= s.hi
      BY StepFacts, TestItemsEffect DEF Sound
    <2>5. /\ s.hi - (s.current + 1) <= w[bss.search] /\ s.current - s.lo <= w[bss.search]
      BY <2>1, <2>3, <2>4, HalfIsLeft
    <2>6. t.hi - t.lo <= w[bss.search]
      BY <1>2, <1>3, <2>5
    <2>7. bss'.search \in 0 .. Iterations
      BY <1>2, <2>1, StepFacts
    <2> QED
      BY <1>2, <2>6, <2>7 DEF InTime
  <1> QED
    BY <1>1, <1>2, <1>4, <1>5 DEF RunIsThorough, Inside, AtWork

\* A round that has found an item moves it to the end, or is the last one.
LEMMA PruneThorough ==
    ASSUME NEW w, StepFrom(w), Prune
    PROVE  RunIsThorough(w)'
  <1>1. /\ phase' = "items" /\ phase = "items" /\ pc = "prune" /\ bad' = bad
        /\ Len(bss.all) > 1 /\ bss.resumed = FALSE /\ Pruning(bss)
    BY StepFacts DEF StepFrom, RunIsThorough, Prune, Phases, passVars, AtWork, Unresumed
  <1>2. PICK i : i = bss.bs.current
    OBVIOUS
  <1>3. /\ Sound(bss') /\ bss.mode = "items" /\ i \in Nat /\ i < Len(bss.all)
        /\ bss'.opts = bss.opts /\ bss'.resumed = bss.resumed
        /\ bss'.pruned = bss.pruned + 1 /\ bss'.found = bss.found \cup {bss.all[i + 1]}
    BY <1>2, StepFacts, PruneEffect
  <1>4. /\ i = bss.bs.lo /\ i = bss.bs.hi /\ bss.found \subseteq bad /\ bss.known \cap bad = {}
        /\ \A j \in 1 .. i : bss.all[j] \notin bad
        /\ \E j \in 1 .. i + 1 : bss.all[j] \in bad
    BY <1>1, <1>2, <1>3, StepFacts DEF Knows, StepFrom, Knowledge
  <1>5. bss.all[i + 1] \in bad
    BY <1>3, <1>4
  <1>6. bss.all \in Seq(Items) /\ Permutes(bss.all) /\ Len(bss.all) \in Nat
    BY StepFacts, SoundFields
  <1>7. CASE /\ i = Len(bss.all) - 1 \/ bss.all[i + 1] \in bss.found \/ ~bss.opts.prune
             /\ pc' = "command" /\ bss'.all = bss.all
    <2>1. ASSUME bss.opts.prune PROVE bss'.found = bad
      <3>1. \A x \in bad : x \in ListOf(bss.all)
        BY <1>4, <2>1, StepFacts DEF Sound
      <3>2. \A j, k \in 1 .. Len(bss.all) : bss.all[j] \in bss.found /\ j <= k => bss.all[k] \in bss.found
        BY <1>1, <2>1 DEF Pruning
      <3>3. i = Len(bss.all) - 1 \/ bss.all[i + 1] \in bss.found
        BY <1>7, <2>1
      <3>4. bss.found \cup {bss.all[i + 1]} = bad
        <4>1. PICK all, found : all = bss.all /\ found = bss.found
          OBVIOUS
        <4>2. /\ all \in Seq(Items) /\ bad \subseteq Items /\ found \subseteq bad
              /\ i \in Nat /\ i < Len(all) /\ all[i + 1] \in bad
              /\ \A x \in bad : x \in ListOf(all)
              /\ \A j \in 1 .. i : all[j] \notin bad
              /\ i = Len(all) - 1 \/ all[i + 1] \in found
          BY <1>3, <1>4, <1>5, <1>6, <3>1, <3>3, <4>1, StepFacts
        <4>3. \A j, k \in 1 .. Len(all) : all[j] \in found /\ j <= k => all[k] \in found
          BY ONLY <3>2, <4>1, Zenon
        <4>4. found \cup {all[i + 1]} = bad
          BY ONLY <4>2, <4>3, RestIsFound, Zenon
        <4> QED
          BY ONLY <4>1, <4>4, Zenon
      <3> QED
        BY <1>3, <3>4
    <2> QED
      BY <1>1, <1>3, <1>7, <2>1 DEF RunIsThorough, Unresumed, Inside, AtWork
  <1>8. CASE /\ i # Len(bss.all) - 1 /\ bss.all[i + 1] \notin bss.found /\ bss.opts.prune
             /\ pc' = "outer" /\ Len(bss'.all) > 1
             /\ bss'.all = SubSeq(bss.all, i + 2, Len(bss.all)) \o <<bss.all[i + 1]>>
    <2>1. /\ bss.pruned = Cardinality(bss.found)
          /\ \A j, k \in 1 .. Len(bss.all) : bss.all[j] \in bss.found /\ j <= k => bss.all[k] \in bss.found
      BY <1>1, <1>8 DEF Pruning
    <2>2. bss'.pruned = Cardinality(bss'.found)
      <3>1. bss.found \subseteq Items
        BY StepFacts, SoundFields
      <3>2. IsFiniteSet(bss.found)
        BY <3>1, ItemsAreFinite
      <3>3. Cardinality(bss.found \cup {bss.all[i + 1]}) = Cardinality(bss.found) + 1
        BY <1>8, <3>2, FS_AddElement
      <3> QED
        BY <1>3, <2>1, <3>3
    <2>3. \A j, k \in 1 .. Len(bss'.all) : bss'.all[j] \in bss'.found /\ j <= k => bss'.all[k] \in bss'.found
      <3>1. PICK all, new, found : all = bss.all /\ new = bss'.all /\ found = bss.found
        OBVIOUS
      <3>2. /\ all \in Seq(Items) /\ Permutes(all) /\ i \in Nat /\ i < Len(all) - 1
            /\ new = SubSeq(all, i + 2, Len(all)) \o <<all[i + 1]>>
            /\ \A j, k \in 1 .. Len(all) : all[j] \in found /\ j <= k => all[k] \in found
        <4>1. i < Len(bss.all) - 1
          BY <1>3, <1>6, <1>8
        <4>2. \A j, k \in 1 .. Len(all) : all[j] \in found /\ j <= k => all[k] \in found
          BY <2>1, <3>1, Zenon
        <4>3. new = SubSeq(all, i + 2, Len(all)) \o <<all[i + 1]>>
          BY ONLY <1>8, <3>1
        <4> QED
          BY <1>3, <1>6, <3>1, <4>1, <4>2, <4>3, Zenon
      <3>3. \A j, k \in 1 .. Len(new) : new[j] \in found \cup {all[i + 1]} /\ j <= k
                                            => new[k] \in found \cup {all[i + 1]}
        BY ONLY <3>2, PrunedOrder, Zenon
      <3> QED
        BY <1>3, <3>1, <3>3, Zenon
    <2>4. Pruning(bss')
      BY <2>2, <2>3 DEF Pruning
    <2> QED
      BY <1>1, <1>3, <1>8, <2>4 DEF RunIsThorough, Unresumed, Inside, AtWork
  <1> QED
    BY <1>2, <1>7, <1>8, StepFacts, PruneEffect

LEMMA PassesThorough ==
    ASSUME NEW w, StepFrom(w), NextPass \/ TestPass
    PROVE  RunIsThorough(w)'
  <1>1. /\ phase' = phase /\ phase # "items" /\ pc \in {"next", "test"}
        /\ pc' \in {"test", "passdone", "iterate"}
    BY DEF NextPass, TestPass, passVars, Goto
  <1>2. /\ Len(bss.all) > 1 /\ bss.resumed = FALSE
    BY <1>1 DEF StepFrom, RunIsThorough, Inside, AtWork, Unresumed
  <1>3. KeepsRest(bss, bss')
    BY StepFacts, NextPassEffect, TestPassEffect
  <1>4. /\ Len(bss'.all) > 1 /\ bss'.resumed = FALSE
    BY <1>2, <1>3 DEF KeepsRest
  <1> QED
    BY <1>1, <1>4 DEF RunIsThorough

LEMMA StartThorough ==
    ASSUME NEW w, StepFrom(w), NEW p \in {"pass", "transform"}, bss.opts.pass, StartPhase(p)
    PROVE  RunIsThorough(w)'
  <1>1. phase' = p /\ pc' = "iterate" /\ bss'.resumed = FALSE /\ bss'.all = bss.all
    BY StepFacts, StartEffect
  <1>2. Len(bss'.all) > 1
    BY <1>1 DEF StepFrom, RunIsThorough
  <1> QED
    BY <1>1, <1>2 DEF RunIsThorough

LEMMA PassDoneThorough ==
    ASSUME NEW w, StepFrom(w), StartPasses \/ PassDone
    PROVE  RunIsThorough(w)'
  <1>1. bss.opts.pass
    BY StepFacts DEF StartPasses, PassDone, Phases, Sound, StepFrom
  <1>2. Len(bss.all) > 1 /\ ~bss.opts.prune
    BY <1>1, StepFacts, SoundFields DEF StepFrom, RunIsThorough
  <1>3. CASE StartPasses
    BY <1>1, <1>3, StartThorough DEF StartPasses
  <1>4. CASE PassDone
    <2>1. CASE StartPhase("transform")
      BY <1>1, <2>1, StartThorough
    <2>2. CASE bss' = bss /\ pc' \in {"raised", "remove"}
      BY <1>2, <2>2 DEF RunIsThorough, Unresumed, Inside, AtWork
    <2> QED
      BY <1>4, <2>1, <2>2 DEF PassDone, Goto
  <1> QED
    BY <1>3, <1>4

LEMMA ResumeThorough ==
    ASSUME NEW w, StepFrom(w), Resume
    PROVE  RunIsThorough(w)'
  <1>1. CASE pc' = "refused" /\ bss' = bss
    <2>1. Len(bss.all) > 1
      BY DEF StepFrom, RunIsThorough
    <2> QED
      BY <1>1, <2>1 DEF RunIsThorough, Unresumed, Inside, AtWork
  <1>2. CASE /\ state # NoState /\ pc' = "outer"
             /\ bss'.opts = state.opts /\ bss'.mode = state.mode /\ bss'.all = state.all
             /\ bss'.bs = state.bs /\ bss'.search = state.search /\ bss'.found = state.found
             /\ bss'.pruned = state.pruned
    <2>1. Len(state.all) > 1 /\ InTime(state, w) /\ Pruning(state)
      BY <1>2 DEF StepFrom, SavedIsThorough
    <2>2. Len(bss'.all) > 1 /\ InTime(bss', w) /\ Pruning(bss')
      BY <1>2, <2>1 DEF InTime, Pruning
    <2> QED
      BY <1>2, <2>2 DEF RunIsThorough, Unresumed, Inside, AtWork
  <1> QED
    BY <1>1, <1>2, StepFacts, ResumeEffect

LEMMA StartAgainThorough ==
    ASSUME NEW w, StepFrom(w), StartAgain
    PROVE  RunIsThorough(w)'
  <1>1. PICK o \in Options : bss' = NewState(o) /\ pc' = "verifygood"
    BY StepFacts, StartAgainEffect
  <1>2. Pruning(bss') /\ bss'.resumed = FALSE /\ Len(bss'.all) > 1
    BY <1>1, NewIsPruning DEF StepFrom
  <1> QED
    BY <1>1, <1>2 DEF RunIsThorough, Inside

\* The statements that leave the object alone.
LEMMA OthersThorough ==
    ASSUME NEW w, StepFrom(w), Save \/ Rename \/ Command \/ RemoveState \/ Killed \/ Ended
    PROVE  RunIsThorough(w)'
  <1>1. /\ bss' = bss /\ phase' = phase /\ bad' = bad
        /\ \/ pc = "save" /\ pc' \in {"rename", "raised"}
           \/ pc = "rename" /\ pc' = "next"
           \/ pc = "command" /\ pc' \in {"raised", "remove", "passes"}
           \/ pc = "remove" /\ pc' = "done"
           \/ pc' = "killed"
           \/ pc' = pc
    BY StepFacts DEF Save, Rename, Command, RemoveState, Killed, Ended, Goto, passVars, vars
  <1>2. RunIsThorough(w)
    BY DEF StepFrom
  <1> QED
    BY <1>1, <1>2 DEF RunIsThorough, Unresumed, Inside, AtWork, Few

LEMMA ThoroughStep ==
    ASSUME NEW w, Halves(w), SetsInv, Knowledge, Thorough(w), Next
    PROVE  Thorough(w)'
  <1>1. SUFFICES ASSUME NoSkip', N > 1 PROVE RunIsThorough(w)' /\ SavedIsThorough(w)'
    BY DEF Thorough
  <1>2. StepFrom(w)
    BY <1>1, SkipsFall DEF SetsInv, Knowledge, Thorough, StepFrom
  <1>3. RunIsThorough(w)'
    BY <1>2, SwitchThorough, OuterThorough, IterateThorough, NextItemThorough, TestThorough,
       PruneThorough, PassDoneThorough, PassesThorough, ResumeThorough, StartAgainThorough,
       OthersThorough, Actions
  <1>4. SavedIsThorough(w)'
    <2>1. CASE state' = state
      BY <1>2, <2>1 DEF StepFrom, SavedIsThorough
    <2>2. CASE Rename /\ state' = bss
      <3>1. Len(bss.all) > 1 /\ Sound(bss)
        BY <1>2, StepFacts DEF StepFrom, RunIsThorough
      <3>2. CASE bss.mode # "items"
        BY <2>2, <3>1, <3>2, PassMode DEF SavedIsThorough
      <3>3. CASE bss.mode = "items"
        <4>1. phase = "items" /\ pc = "rename"
          BY <1>2, <2>2, <3>3, StepFacts DEF Phases, Rename
        <4>2. InTime(bss, w) /\ Pruning(bss)
          BY <1>2, <4>1 DEF StepFrom, RunIsThorough, Unresumed, Inside
        <4> QED
          BY <2>2, <3>1, <4>2 DEF SavedIsThorough
      <3> QED
        BY <3>2, <3>3
    <2>3. CASE state' = NoState
      BY <2>3 DEF SavedIsThorough
    <2> QED
      BY <2>1, <2>2, <2>3, StateFile
  <1> QED
    BY <1>3, <1>4

\* DoSearchBadItems: without skipped tests, what is reported is bad, what is
\* taken to be good is good, and with --prune all the bad items are reported,
\* killed and resumed or not; provided that --iterations is enough to halve
\* the list away and --prune_iterations for the items that are bad.
THEOREM FindsAllTheBad ==
    ASSUME HalvedAway(N - 1, Iterations)
    PROVE  Spec /\ Few => []FindsTheBad
  <1>1. PICK w : Halves(w)
    BY DEF HalvedAway, Halves
  <1>2. Init => Thorough(w)
    <2> SUFFICES ASSUME Init, N > 1 PROVE RunIsThorough(w) /\ SavedIsThorough(w)
      BY DEF Thorough
    <2>1. PICK o \in Options : bss = NewState(o)
      BY DEF Init
    <2>2. pc = "verifygood" /\ state = NoState
      BY DEF Init
    <2>3. Pruning(bss) /\ bss.resumed = FALSE /\ Len(bss.all) > 1
      BY <2>1, NewIsPruning
    <2> QED
      BY <2>2, <2>3 DEF RunIsThorough, SavedIsThorough, Inside
  <1>3. SetsInv /\ Knowledge /\ Thorough(w) /\ [Next]_vars => Thorough(w)'
    <2>1. CASE Next
      BY <1>1, <2>1, ThoroughStep
    <2>2. CASE UNCHANGED vars
      BY <2>2 DEF Thorough, RunIsThorough, SavedIsThorough, NoSkip, Few, vars, envVars,
         fileVars, passVars
    <2> QED
      BY <2>1, <2>2
  <1>4. Few /\ [Next]_vars => Few'
    BY StateFile DEF Few, vars, envVars
  <1>5. Knowledge /\ Thorough(w) /\ Few => FindsTheBad
    BY DEF Knowledge, Knows, Thorough, RunIsThorough, FindsTheBad
  <1> QED
    BY <1>2, <1>3, <1>4, <1>5, KnowledgeHolds, PTL DEF Spec

-----------------------------------------------------------------------------
(* The bad pass *)

\* One item cannot be bisected, and no round of pruning looks for nothing: the
\* tool ends without a search.
Searchless == N = 1 \/ PruneIterations = 0

Idle ==
    Searchless =>
        /\ bss.found = {} /\ state = NoState /\ report = <<>>
        /\ pc \in Ends \cup {"verifygood", "verifybad", "outer", "command", "remove"}

LEMMA IdleStep ==
    ASSUME Base, Idle, Next
    PROVE  Idle'
  <1> SUFFICES ASSUME Searchless
               PROVE  /\ bss'.found = {} /\ state' = NoState /\ report' = <<>>
                      /\ pc' \in Ends \cup {"verifygood", "verifybad", "outer", "command", "remove"}
    BY DEF Idle, Searchless
  <1>1. /\ bss.found = {} /\ state = NoState /\ report = <<>>
        /\ pc \in Ends \cup {"verifygood", "verifybad", "outer", "command", "remove"}
    BY DEF Idle
  <1>2. state' = NoState
    BY <1>1, StateFile DEF Rename, Ends
  <1>3. CASE SwitchActions
    <2>1. bss'.found = {}
      BY <1>1, <1>3, SwitchEffect DEF SameSearch
    <2> QED
      BY <1>1, <1>2, <1>3, <2>1 DEF SwitchActions, VerifyGood, VerifyBad, SwitchGoodItems,
         SwitchBadItems, Verified, Goto, passVars, Ends
  <1>4. CASE Outer
    <2>1. Len(bss.all) \in 1 .. N /\ bss.pruned \in Nat /\ N \in Nat
      BY BaseFacts, SoundFields, ItemAssumption
    <2>2. ~(Len(bss.all) > 1 /\ bss.pruned < PruneIterations)
      BY <2>1 DEF Searchless
    <2> QED
      BY <1>1, <1>2, <1>4, <2>2 DEF Outer, Goto, passVars
  <1>5. CASE Command
    BY <1>1, <1>2, <1>5, FS_EmptySet DEF Command, Goto, passVars, Ends
  <1>6. CASE RemoveState \/ Killed \/ Ended
    BY <1>1, <1>2, <1>6 DEF RemoveState, Killed, Ended, Goto, passVars, vars, Ends
  <1>7. CASE Resume
    BY <1>1, <1>2, <1>7 DEF Resume, Goto, Ends
  <1>8. CASE StartAgain
    BY <1>2, <1>8 DEF StartAgain, NewState, Goto
  <1>9. ~(\/ Iterate \/ NextItem \/ TestItems \/ Prune \/ StartPasses \/ NextPass
          \/ TestPass \/ PassDone \/ Save \/ Rename)
    BY <1>1 DEF Iterate, NextItem, TestItems, Prune, StartPasses, NextPass, TestPass, PassDone,
       Save, Rename, Ends
  <1> QED
    BY <1>3, <1>4, <1>5, <1>6, <1>7, <1>8, <1>9, Actions

\* A bisection of passes prunes once, and what it saves is never at the last
\* iteration.
OnceObject(b) == b.opts.pass => Len(b.all) = N /\ b.pruned <= 1

RunOnce ==
    /\ OnceObject(bss)
    /\ pc \in Unresumed => bss.resumed = FALSE
    /\ pc \in Unresumed \cup {"outer"} /\ phase = "items" /\ bss.mode = "items" =>
            (bss.opts.pass => bss.pruned = 0)
    /\ pc \in {"save", "rename", "next"} => bss.search < Iterations
    /\ pc = "outer" => (bss.resumed => bss.search < Iterations)
    /\ pc = "iterate" /\ phase = "items" /\ bss.mode # "items" => bss.search < Iterations
    /\ pc \in {"command", "passes", "passdone"} => (bss.opts.pass => bss.resumed = FALSE)
    /\ pc = "outer" /\ bss.mode # "items" => bss.resumed = TRUE

SavedOnce ==
    state # NoState =>
        /\ OnceObject(state) /\ state.search < Iterations
        /\ state.mode = "items" => (state.opts.pass => state.pruned = 0)

Once == N > 1 /\ PruneIterations > 1 => RunOnce /\ SavedOnce

\* The assumptions of the steps below.
OnceFrom == Base /\ Next /\ N > 1 /\ PruneIterations > 1 /\ RunOnce /\ SavedOnce

LEMMA OnceFacts ==
    ASSUME OnceFrom
    PROVE  /\ Base /\ Sound(bss) /\ Phases /\ OnceObject(bss)
           /\ bss.opts.pass \in BOOLEAN /\ (bss.opts.pass => ~bss.opts.prune)
           /\ bss.resumed \in BOOLEAN /\ bss.pruned \in Nat /\ bss.search \in Nat
           /\ Len(bss.all) \in Nat /\ N \in Nat /\ PruneIterations \in Nat /\ Iterations \in Nat
           /\ bss.mode # "items" => bss.opts.pass
           /\ phase # "items" => bss.mode = phase
  <1>1. Base /\ Sound(bss) /\ Phases
    BY BaseFacts DEF OnceFrom
  <1> QED
    BY <1>1, SoundFields, ItemAssumption DEF OnceFrom, RunOnce, Sound, Phases

LEMMA SwitchOnce ==
    ASSUME OnceFrom, SwitchActions
    PROVE  RunOnce'
  <1>1. SameSearch(bss, bss') /\ phase = "items" /\ bss.mode = "items"
    BY OnceFacts, SwitchEffect DEF SwitchActions, VerifyGood, VerifyBad, SwitchGoodItems,
       SwitchBadItems, Phases
  <1>2. /\ pc \in {"verifygood", "verifybad", "good", "bad"} /\ phase' = phase
        /\ pc' \in {"verifybad", "outer", "raised", "bad", "test"}
    BY DEF SwitchActions, VerifyGood, VerifyBad, Verified, SwitchGoodItems, SwitchBadItems,
       Goto, passVars
  <1>3. /\ OnceObject(bss) /\ bss.resumed = FALSE /\ (bss.opts.pass => bss.pruned = 0)
    BY <1>1, <1>2 DEF OnceFrom, RunOnce, Unresumed, AtWork
  <1>4. /\ OnceObject(bss') /\ bss'.resumed = FALSE /\ (bss'.opts.pass => bss'.pruned = 0)
        /\ bss'.mode = "items"
    BY <1>1, <1>3 DEF SameSearch, OnceObject
  <1> QED
    BY <1>2, <1>4 DEF RunOnce

LEMMA OuterOnce ==
    ASSUME OnceFrom, Outer
    PROVE  RunOnce'
  <1>1. /\ phase = "items" /\ phase' = "items" /\ pc = "outer" /\ OnceObject(bss)
        /\ bss.resumed => bss.search < Iterations
        /\ bss.mode # "items" => bss.resumed = TRUE
        /\ bss.mode = "items" => (bss.opts.pass => bss.pruned = 0)
    BY OnceFacts DEF OnceFrom, RunOnce, Outer, passVars, Phases
  <1>2. CASE pc' = "iterate" /\ bss' = EnterSearch(bss)
    <2>1. /\ bss'.search = (IF bss.resumed THEN bss.search ELSE 0) /\ bss'.resumed = FALSE
          /\ bss'.opts = bss.opts /\ bss'.mode = bss.mode /\ bss'.all = bss.all
          /\ bss'.pruned = bss.pruned
      BY <1>2, OnceFacts, EnterFits
    <2>2. OnceObject(bss')
      BY <1>1, <2>1 DEF OnceObject
    <2>3. bss'.mode # "items" => bss'.search < Iterations
      BY <1>1, <2>1
    <2> QED
      BY <1>1, <1>2, <2>1, <2>2, <2>3 DEF RunOnce
  <1>3. CASE pc' = "command" /\ bss' = bss /\ (Len(bss.all) <= 1 \/ bss.pruned >= PruneIterations)
    <2>1. ~bss.opts.pass
      BY <1>1, <1>3, OnceFacts DEF OnceObject, OnceFrom
    <2> QED
      BY <1>1, <1>3, <2>1 DEF RunOnce, Unresumed, Inside, AtWork
  <1> QED
    BY <1>1, <1>2, <1>3, OnceFacts, OuterEffect

LEMMA IterateOnce ==
    ASSUME OnceFrom, Iterate
    PROVE  RunOnce'
  <1>1. /\ phase' = phase /\ pc = "iterate" /\ OnceObject(bss) /\ bss.resumed = FALSE
        /\ phase = "items" /\ bss.mode = "items" => (bss.opts.pass => bss.pruned = 0)
        /\ phase = "items" /\ bss.mode # "items" => bss.search < Iterations
    BY DEF OnceFrom, RunOnce, Iterate, passVars, Inside, Unresumed
  <1>2. CASE pc' = "save" /\ bss' = bss /\ bss.search < Iterations
    BY <1>1, <1>2 DEF RunOnce
  <1>3. CASE /\ pc' = "command" /\ bss.search >= Iterations /\ phase = "items"
             /\ bss'.pruned = bss.pruned + 1
             /\ bss'.all = bss.all /\ bss'.opts = bss.opts /\ bss'.resumed = bss.resumed
    <2>1. bss.mode = "items"
      BY <1>1, <1>3, OnceFacts
    <2>2. OnceObject(bss')
      BY <1>1, <1>3, <2>1 DEF OnceObject
    <2> QED
      BY <1>1, <1>3, <2>2 DEF RunOnce, Unresumed, Inside, AtWork
  <1>4. CASE pc' = "passdone" /\ bss' = bss
    BY <1>1, <1>4 DEF RunOnce, Unresumed, Inside, AtWork
  <1> QED
    BY <1>2, <1>3, <1>4, OnceFacts, IterateEffect

LEMMA TestOnce ==
    ASSUME OnceFrom, NextItem \/ TestItems \/ NextPass \/ TestPass
    PROVE  RunOnce'
  <1>1. /\ phase' = phase /\ pc \in {"next", "test"}
        /\ pc' \in {"good", "raised", "test", "prune", "iterate", "passdone"}
        /\ pc' = "test" => phase # "items"
        /\ TestItems => bss.mode = "items"
        /\ TestPass => phase # "items"
        /\ pc' \in {"iterate", "passdone"} => TestItems \/ TestPass
    BY OnceFacts DEF NextItem, TestItems, NextPass, TestPass, passVars, Goto, Phases
  <1>2. KeepsRest(bss, bss')
    BY OnceFacts, NextItemEffect, TestItemsEffect, NextPassEffect, TestPassEffect
  <1>3. /\ OnceObject(bss) /\ bss.resumed = FALSE
        /\ phase = "items" /\ bss.mode = "items" => (bss.opts.pass => bss.pruned = 0)
    BY <1>1 DEF OnceFrom, RunOnce, Unresumed, Inside, AtWork
  <1>4. /\ OnceObject(bss') /\ bss'.resumed = FALSE /\ bss'.mode = bss.mode
        /\ phase = "items" /\ bss'.mode = "items" => (bss'.opts.pass => bss'.pruned = 0)
    BY <1>2, <1>3 DEF KeepsRest, OnceObject
  <1> QED
    BY <1>1, <1>4 DEF RunOnce, Unresumed, Inside, AtWork

LEMMA PruneOnce ==
    ASSUME OnceFrom, Prune
    PROVE  RunOnce'
  <1>1. /\ phase' = "items" /\ phase = "items" /\ pc = "prune" /\ bss.mode = "items"
        /\ OnceObject(bss) /\ bss.resumed = FALSE /\ (bss.opts.pass => bss.pruned = 0)
    BY OnceFacts DEF OnceFrom, RunOnce, Prune, Phases, passVars, AtWork, Unresumed
  <1>2. PICK i : i = bss.bs.current
    OBVIOUS
  <1>3. /\ bss'.opts = bss.opts /\ bss'.resumed = bss.resumed /\ bss'.pruned = bss.pruned + 1
        /\ bss'.mode = bss.mode
        /\ \/ pc' = "command" /\ bss'.all = bss.all
           \/ pc' = "outer" /\ bss.opts.prune
    BY <1>2, OnceFacts, PruneEffect
  <1>4. OnceObject(bss')
    BY <1>1, <1>3, OnceFacts DEF OnceObject
  <1> QED
    BY <1>1, <1>3, <1>4, OnceFacts DEF RunOnce, Unresumed, Inside, AtWork

LEMMA StartOnce ==
    ASSUME OnceFrom, NEW p \in {"pass", "transform"}, bss.opts.pass, StartPhase(p)
    PROVE  RunOnce'
  <1>1. /\ phase' = p /\ pc' = "iterate" /\ bss'.resumed = FALSE /\ bss'.all = bss.all
        /\ bss'.opts = bss.opts /\ bss'.pruned = bss.pruned /\ bss'.mode = p
    BY OnceFacts, StartEffect
  <1>2. OnceObject(bss')
    BY <1>1, OnceFacts DEF OnceObject
  <1> QED
    BY <1>1, <1>2 DEF RunOnce

LEMMA PassDoneOnce ==
    ASSUME OnceFrom, StartPasses \/ PassDone
    PROVE  RunOnce'
  <1>1. bss.opts.pass
    BY OnceFacts DEF StartPasses, PassDone, Phases, Sound, OnceFrom
  <1>2. CASE StartPasses
    BY <1>1, <1>2, StartOnce DEF StartPasses
  <1>3. CASE PassDone
    <2>1. CASE StartPhase("transform")
      BY <1>1, <2>1, StartOnce
    <2>2. CASE bss' = bss /\ pc' \in {"raised", "remove"}
      BY <2>2, OnceFacts DEF RunOnce, Unresumed, Inside, AtWork
    <2> QED
      BY <1>3, <2>1, <2>2 DEF PassDone, Goto
  <1> QED
    BY <1>2, <1>3

LEMMA ResumeOnce ==
    ASSUME OnceFrom, Resume \/ StartAgain
    PROVE  RunOnce'
  <1>1. phase' = "items"
    BY DEF Resume, StartAgain
  <1>2. CASE pc' = "refused" /\ bss' = bss
    BY <1>1, <1>2, OnceFacts DEF RunOnce, Unresumed, Inside, AtWork
  <1>3. CASE /\ state # NoState /\ pc' = "outer" /\ bss'.resumed = TRUE
             /\ bss'.opts = state.opts /\ bss'.mode = state.mode /\ bss'.all = state.all
             /\ bss'.search = state.search /\ bss'.pruned = state.pruned
    <2>1. /\ OnceObject(state) /\ state.search < Iterations
          /\ state.mode = "items" => (state.opts.pass => state.pruned = 0)
      BY <1>3 DEF OnceFrom, SavedOnce
    <2>2. OnceObject(bss')
      BY <1>3, <2>1 DEF OnceObject
    <2> QED
      BY <1>1, <1>3, <2>1, <2>2 DEF RunOnce, Unresumed, Inside, AtWork
  <1>4. CASE StartAgain
    <2>1. PICK o \in Options : bss' = NewState(o) /\ pc' = "verifygood"
      BY <1>4, OnceFacts, StartAgainEffect
    <2>2. bss'.resumed = FALSE /\ Len(bss'.all) = N /\ bss'.mode = "items" /\ bss'.pruned = 0
      BY <2>1, NewIsPruning DEF NewState
    <2> QED
      BY <1>1, <2>1, <2>2 DEF RunOnce, OnceObject
  <1> QED
    BY <1>2, <1>3, <1>4, OnceFacts, ResumeEffect

LEMMA OthersOnce ==
    ASSUME OnceFrom, Save \/ Rename \/ Command \/ RemoveState \/ Killed \/ Ended
    PROVE  RunOnce'
  <1>1. /\ bss' = bss /\ phase' = phase
        /\ \/ pc = "save" /\ pc' \in {"rename", "raised"}
           \/ pc = "rename" /\ pc' = "next"
           \/ pc = "command" /\ pc' \in {"raised", "remove", "passes"}
           \/ pc' \in {"done", "killed"}
           \/ pc' = pc
    BY DEF Save, Rename, Command, RemoveState, Killed, Ended, Goto, passVars, vars
  <1>2. RunOnce
    BY DEF OnceFrom
  <1> QED
    BY <1>1, <1>2 DEF RunOnce, Unresumed, Inside, AtWork

LEMMA OnceStep ==
    ASSUME Base, Once, Next
    PROVE  Once'
  <1>1. SUFFICES ASSUME N > 1, PruneIterations > 1 PROVE RunOnce' /\ SavedOnce'
    BY DEF Once
  <1>2. OnceFrom
    BY <1>1 DEF Once, OnceFrom
  <1>3. RunOnce'
    BY <1>2, SwitchOnce, OuterOnce, IterateOnce, TestOnce, PruneOnce, PassDoneOnce, ResumeOnce,
       OthersOnce, Actions
  <1>4. SavedOnce'
    <2>1. CASE state' = state
      BY <1>2, <2>1 DEF OnceFrom, SavedOnce
    <2>2. CASE Rename /\ state' = bss
      <3>1. /\ OnceObject(bss) /\ bss.search < Iterations
            /\ bss.mode = "items" => (bss.opts.pass => bss.pruned = 0)
        BY <1>2, <2>2, OnceFacts DEF OnceFrom, RunOnce, Rename, Unresumed, Inside
      <3> QED
        BY <2>2, <3>1 DEF SavedOnce
    <2>3. CASE state' = NoState
      BY <2>3 DEF SavedOnce
    <2> QED
      BY <2>1, <2>2, <2>3, StateFile
  <1> QED
    BY <1>3, <1>4

LEMMA OnceHolds == Spec => [](SetsInv /\ Idle /\ Once)
  <1>1. Init => Idle /\ Once
    <2> SUFFICES ASSUME Init PROVE Idle /\ Once
      OBVIOUS
    <2>1. PICK o \in Options : bss = NewState(o)
      BY DEF Init
    <2>2. pc = "verifygood" /\ state = NoState /\ report = <<>>
      BY DEF Init
    <2>3. /\ bss.resumed = FALSE /\ Len(bss.all) = N /\ bss.mode = "items" /\ bss.pruned = 0
          /\ bss.found = {}
      BY <2>1, NewIsPruning DEF NewState
    <2> QED
      BY <2>2, <2>3 DEF Idle, Once, RunOnce, SavedOnce, OnceObject
  <1>2. SetsInv /\ Idle /\ Once /\ [Next]_vars => Idle' /\ Once'
    <2>1. CASE Next
      BY <2>1, IdleStep, OnceStep DEF SetsInv
    <2>2. CASE UNCHANGED vars
      BY <2>2 DEF Idle, Once, RunOnce, SavedOnce, vars, fileVars, passVars
    <2> QED
      BY <2>1, <2>2
  <1> QED
    BY <1>1, <1>2, SetsInvHolds, PTL DEF Spec

\* The limit above which a build of the present phase fails; none of the second
\* phase does when the limit that has been reported keeps the bad pass off, and
\* no limit that is tested is above that of all transformations but the last.
Limit ==
    IF phase = "pass" THEN badPass
    ELSE IF report[1] > badPass THEN badTrans ELSE Transforms - 1

\* What has been reported in each phase.
Reports ==
    /\ badPass \in 0 .. Passes - 1 /\ badTrans \in 0 .. Transforms - 1
    /\ phase = "items" => report = <<>>
    /\ phase # "items" /\ pc \in Inside \cup {"test", "passdone"} =>
            Len(report) = IF phase = "pass" THEN 0 ELSE 1

LEMMA ReportsStep ==
    ASSUME Base, Reports, Next
    PROVE  Reports'
  <1>1. /\ report \in Seq(Nat) /\ phase \in {"items", "pass", "transform"}
        /\ Phases /\ Passes \in Nat /\ Transforms \in Nat
    BY BaseFacts, PassAssumption DEF SmallTypes
  <1>2. badPass' \in 0 .. Passes - 1 /\ badTrans' \in 0 .. Transforms - 1
    BY DEF Reports, Next, VerifyGood, VerifyBad, Outer, Iterate, Save, Rename, NextItem,
         SwitchGoodItems, SwitchBadItems, TestItems, Prune, Command, StartPasses,
         NextPass, TestPass, PassDone, RemoveState, Killed, Resume, StartAgain, Ended,
         fileVars, envVars, limitVars, vars
  <1>3. CASE StartPasses
    <2>1. phase = "items" /\ phase' = "pass" /\ report' = report /\ pc' = "iterate"
      BY <1>1, <1>3 DEF StartPasses, StartPhase, Goto, Phases
    <2> QED
      BY <1>2, <2>1 DEF Reports
  <1>4. CASE PassDone
    <2>1. phase # "items" /\ pc = "passdone"
      BY <1>1, <1>4 DEF PassDone, Phases
    <2>2. CASE index = 0 /\ phase' = phase /\ report' = report /\ pc' = "raised"
      BY <1>2, <2>1, <2>2 DEF Reports, Inside
    <2>3. CASE report' = Append(report, index) /\ phase = "pass" /\ StartPhase("transform")
      <3>1. Len(report) = 0
        BY <2>1, <2>3 DEF Reports
      <3>2. Len(report') = 1
        BY <1>1, <2>3, <3>1
      <3> QED
        BY <1>2, <2>3, <3>2 DEF Reports, StartPhase
    <2>4. CASE phase' = phase /\ pc' \in {"raised", "remove"}
      BY <1>2, <2>1, <2>4 DEF Reports, Inside
    <2> QED
      BY <1>4, <2>2, <2>3, <2>4 DEF PassDone, Goto
  <1>5. CASE Resume \/ StartAgain
    BY <1>2, <1>5 DEF Resume, StartAgain, Reports
  <1>6. CASE ~(StartPasses \/ PassDone \/ Resume \/ StartAgain)
    <2>1. /\ phase' = phase /\ report' = report
          /\ \/ pc' \notin Inside \cup {"test", "passdone"}
             \/ phase = "items"
             \/ pc \in Inside \cup {"test", "passdone"}
      BY <1>1, <1>6 DEF Next, VerifyGood, VerifyBad, Verified, Outer, Iterate, Save, Rename, NextItem,
         SwitchGoodItems, SwitchBadItems, TestItems, Prune, Command,
         NextPass, TestPass, RemoveState, Killed, Ended, Goto, passVars, vars, Phases, Inside
    <2> QED
      BY <1>2, <2>1 DEF Reports
  <1> QED
    BY <1>3, <1>4, <1>5, <1>6

\* The limit is still between lo and hi, and so many halvings are left.
Ahead(lo, hi, limit, total, width) ==
    /\ lo <= limit + 1 /\ limit < hi /\ lo < hi /\ hi <= total
    /\ hi - lo <= width

Upper(hi, total) == IF hi = 0 THEN total ELSE hi

Within(i) ==
    i = 1 \/ report[1] > badPass =>
        report[i] - (IF i = 1 THEN badPass ELSE badTrans) \in {0, 1}

\* v and w are the halvings of the passes and of the transformations.
PassSearch(v, w) ==
    LET left == IF phase = "pass" THEN v ELSE w IN
    /\ phase # "items" /\ pc \in Inside =>
          /\ bss.search \in 0 .. Iterations
          /\ Ahead(bss.bs.lo, Upper(bss.bs.hi, Total), Limit, Total, left[bss.search])
    /\ phase # "items" /\ pc = "test" =>
          /\ bss.search \in 1 .. Iterations
          /\ Ahead(bss.bs.lo, bss.bs.hi, Limit, Total, left[bss.search - 1])
          /\ bss.bs.current = Middle(bss.bs.hi, bss.bs.lo) /\ index = bss.bs.current
    /\ pc = "passdone" => index = 0 \/ index - Limit \in {0, 1}
    /\ \A i \in 1 .. Len(report) : Within(i)

PassInv(v, w) == NoSkip /\ ~Searchless => PassSearch(v, w)

PassHalves(v, w) == Halving(Passes, Iterations, v) /\ Halving(Transforms, Iterations, w)

\* One test of a pass bisection.
LEMMA PassTested ==
    ASSUME NEW s \in Searcher, NEW limit \in Int, NEW total \in Nat, NEW m \in Nat,
           Ahead(s.lo, s.hi, limit, total, m), s.current = Middle(s.hi, s.lo),
           NEW status, status = (IF s.current > limit THEN Bad ELSE Good),
           NEW t, t = SetStatusPass(s, status)
    PROVE  /\ TerminatedPass(t) => s.current = 0 \/ s.current - limit \in {0, 1}
           /\ ~TerminatedPass(t) => Ahead(t.lo, Upper(t.hi, total), limit, total, m \div 2)
  <1>1. /\ s.lo \in Nat /\ s.hi \in Nat /\ s.current \in Nat
        /\ s.lo <= limit + 1 /\ limit < s.hi /\ s.lo < s.hi /\ s.hi <= total /\ s.hi - s.lo <= m
    BY DEF Searcher, Ahead
  <1>2. s.current = Middle(s.lo, s.hi)
    BY <1>1 DEF Middle
  <1>3. /\ s.lo <= s.current /\ s.current < s.hi
        /\ s.hi - (s.current + 1) <= m \div 2 /\ s.current - s.lo <= m \div 2
    BY <1>1, <1>2 DEF Middle
  <1>4. CASE s.current = 0
    <2>1. t = s
      BY <1>4 DEF SetStatusPass
    <2> QED
      BY <1>4, <2>1 DEF TerminatedPass
  <1>5. CASE s.current # 0 /\ s.current <= limit
    <2>1. status = Good /\ Good # Skip
      BY <1>1, <1>5 DEF Good, Skip
    <2>2. t = [s EXCEPT !.lo = s.current + 1]
      BY <1>5, <2>1 DEF SetStatusPass
    <2>3. t.lo = s.current + 1 /\ t.hi = s.hi /\ t.current = s.current
      BY <2>2 DEF Searcher
    <2> QED
      BY <1>1, <1>3, <1>5, <2>3 DEF TerminatedPass, Ahead, Upper
  <1>6. CASE s.current # 0 /\ s.current > limit
    <2>1. status = Bad /\ Bad # Skip /\ Bad # Good
      BY <1>6 DEF Good, Bad, Skip
    <2>2. t = [s EXCEPT !.hi = s.current]
      BY <1>6, <2>1 DEF SetStatusPass
    <2>3. t.lo = s.lo /\ t.hi = s.current /\ t.current = s.current
      BY <2>2 DEF Searcher
    <2> QED
      BY <1>1, <1>3, <1>6, <2>3 DEF TerminatedPass, Ahead, Upper
  <1> QED
    BY <1>1, <1>4, <1>5, <1>6

\* The assumptions of the steps below.
PassFrom(v, w) ==
    /\ SetsInv /\ Knowledge /\ Once /\ Reports /\ PassHalves(v, w) /\ Next
    /\ PruneIterations # 1
    /\ NoSkip /\ skips' = skips /\ ~Searchless /\ PassSearch(v, w)

LEMMA PassFacts ==
    ASSUME NEW v, NEW w, PassFrom(v, w), NEW left, left = (IF phase = "pass" THEN v ELSE w)
    PROVE  /\ Base /\ Sound(bss) /\ Phases /\ bss.bs \in Searcher
           /\ phase \in {"items", "pass", "transform"} /\ index \in Nat /\ report \in Seq(Nat)
           /\ Iterations \in Nat /\ Passes \in Nat /\ Transforms \in Nat
           /\ bss.search \in Nat /\ Total \in Nat
           /\ badPass \in 0 .. Passes - 1 /\ badTrans \in 0 .. Transforms - 1
           /\ phase # "items" /\ pc \in Inside \cup {"test", "passdone"} => Limit \in Int
           /\ phase # "items" => left[0] = Total
           /\ \A i \in 0 .. Iterations : /\ left[i] \in Nat /\ (left[i] > 0 => i < Iterations)
                                         /\ i < Iterations => left[i + 1] = left[i] \div 2
           /\ RunOnce
  <1>1. /\ Base /\ Sound(bss) /\ Phases /\ index \in Nat /\ report \in Seq(Nat)
        /\ phase \in {"items", "pass", "transform"}
    BY BaseFacts DEF PassFrom, SetsInv, SmallTypes
  <1>2. /\ Iterations \in Nat /\ Passes \in Nat /\ Transforms \in Nat /\ N \in Nat \ {0}
        /\ PruneIterations \in Nat
    BY ItemAssumption, PassAssumption
  <1>3. badPass \in 0 .. Passes - 1 /\ badTrans \in 0 .. Transforms - 1
    BY DEF PassFrom, Reports
  <1>4. phase # "items" /\ pc \in Inside \cup {"test", "passdone"} => Limit \in Int
    <2>1. CASE phase = "pass"
      BY <1>2, <1>3, <2>1 DEF Limit
    <2>2. CASE phase # "pass"
      BY <1>2, <1>3, <2>2 DEF Limit
    <2> QED
      BY <2>1, <2>2
  <1>5. \A i \in 0 .. Iterations : /\ left[i] \in Nat /\ (left[i] > 0 => i < Iterations)
                                   /\ i < Iterations => left[i + 1] = left[i] \div 2
    BY <1>2, HalvingStep DEF PassFrom, PassHalves
  <1>6. phase # "items" => left[0] = Total
    BY <1>1 DEF PassFrom, PassHalves, Halving, Total
  <1>7. RunOnce
    BY <1>2 DEF PassFrom, Once, Searchless
  <1> QED
    BY <1>1, <1>2, <1>3, <1>4, <1>5, <1>6, <1>7, SoundFields DEF Total

\* The limit that is looked for stays, and so does what has been reported.
SameLimit == UNCHANGED <<phase, report, badPass, badTrans>>

LEMMA LimitStays ==
    ASSUME SameLimit
    PROVE  /\ Limit' = Limit /\ Total' = Total /\ phase' = phase /\ report' = report
           /\ \A i : Within(i)' <=> Within(i)
  BY DEF SameLimit, Limit, Total, Within

\* Where no pass is bisected.
LEMMA ItemsPass ==
    ASSUME NEW v, NEW w, PassFrom(v, w),
           phase' = "items", pc' # "passdone", SameLimit \/ report' = <<>>
    PROVE  PassSearch(v, w)'
  <1>1. \A i \in 1 .. Len(report') : Within(i)'
    <2>1. CASE SameLimit
      BY <2>1, LimitStays DEF PassFrom, PassSearch
    <2>2. CASE report' = <<>>
      BY <2>2
    <2> QED
      BY <2>1, <2>2
  <1> QED
    BY <1>1 DEF PassSearch

\* The statements that leave the searcher alone.
LEMMA OthersPass ==
    ASSUME NEW v, NEW w, PassFrom(v, w),
           Save \/ Rename \/ Command \/ RemoveState \/ Killed \/ Ended
    PROVE  PassSearch(v, w)'
  <1>1. /\ bss' = bss /\ SameLimit /\ index' = index
        /\ \/ pc = "save" /\ pc' \in {"rename", "raised"}
           \/ pc = "rename" /\ pc' = "next"
           \/ pc' \in {"raised", "remove", "passes", "done", "killed"}
           \/ pc' = pc
    BY DEF Save, Rename, Command, RemoveState, Killed, Ended, Goto, passVars, vars, envVars,
       limitVars, SameLimit
  <1>2. PassSearch(v, w)
    BY DEF PassFrom
  <1>3. \A i \in 1 .. Len(report') : Within(i)'
    BY <1>1, <1>2, LimitStays DEF PassSearch
  <1>4. Limit' = Limit /\ Total' = Total /\ phase' = phase
    BY <1>1, LimitStays
  <1> QED
    BY <1>1, <1>2, <1>3, <1>4 DEF PassSearch, Inside

\* Iterations are never used up while passes are bisected.
LEMMA IteratePass ==
    ASSUME NEW v, NEW w, PassFrom(v, w), Iterate, phase # "items"
    PROVE  PassSearch(v, w)'
  <1>1. PICK left : left = (IF phase = "pass" THEN v ELSE w)
    OBVIOUS
  <1>2. SameLimit /\ index' = index /\ pc = "iterate"
    BY DEF Iterate, passVars, envVars, limitVars, SameLimit
  <1>3. /\ bss.search \in 0 .. Iterations
        /\ Ahead(bss.bs.lo, Upper(bss.bs.hi, Total), Limit, Total, left[bss.search])
    BY <1>1, <1>2 DEF PassFrom, PassSearch, Inside
  <1>4. bss.bs \in Searcher /\ Total \in Nat /\ Iterations \in Nat
    BY <1>1, PassFacts
  <1>5. left[bss.search] > 0
    <2>1. left[bss.search] \in Nat
      BY <1>1, <1>3, PassFacts
    <2> QED
      BY <1>3, <1>4, <2>1 DEF Ahead, Upper, Searcher
  <1>6. bss.search < Iterations
    BY <1>1, <1>3, <1>5, PassFacts
  <1>7. pc' = "save" /\ bss' = bss
    BY <1>6 DEF Iterate, Goto
  <1>8. \A i \in 1 .. Len(report') : Within(i)'
    BY <1>2, LimitStays DEF PassFrom, PassSearch
  <1>9. Limit' = Limit /\ Total' = Total /\ phase' = phase
    BY <1>2, LimitStays
  <1> QED
    BY <1>1, <1>2, <1>3, <1>7, <1>8, <1>9 DEF PassSearch, Inside

LEMMA NextPassStep ==
    ASSUME NEW v, NEW w, PassFrom(v, w), NextPass
    PROVE  PassSearch(v, w)'
  <1>1. PICK left : left = (IF phase = "pass" THEN v ELSE w)
    OBVIOUS
  <1>2. SameLimit /\ pc = "next" /\ pc' = "test" /\ phase # "items"
    BY DEF NextPass, Goto, passVars, envVars, limitVars, SameLimit
  <1>3. /\ bss.search \in 0 .. Iterations
        /\ Ahead(bss.bs.lo, Upper(bss.bs.hi, Total), Limit, Total, left[bss.search])
    BY <1>1, <1>2 DEF PassFrom, PassSearch, Inside
  <1>4. bss.bs \in Searcher /\ Total \in Nat /\ Iterations \in Nat /\ Limit \in Int
    BY <1>1, <1>2, PassFacts DEF Inside
  <1>5. /\ bss'.search = bss.search + 1 /\ index' = bss'.bs.current
        /\ bss'.bs = GetNextPass(bss.bs, Total)
    BY <1>1, PassFacts, NextPassEffect
  <1>6. /\ bss'.bs.lo = bss.bs.lo /\ bss'.bs.hi = Upper(bss.bs.hi, Total)
        /\ bss'.bs.current = Middle(bss'.bs.hi, bss'.bs.lo)
    BY <1>4, <1>5 DEF GetNextPass, Searcher, Upper
  <1>7. bss.search < Iterations
    <2>1. left[bss.search] \in Nat
      BY <1>1, <1>3, PassFacts
    <2>2. left[bss.search] > 0
      BY <1>3, <1>4, <2>1 DEF Ahead, Upper, Searcher
    <2> QED
      BY <1>1, <1>3, <2>2, PassFacts
  <1>8. bss'.search \in 1 .. Iterations /\ bss'.search - 1 = bss.search
    BY <1>3, <1>4, <1>5, <1>7
  <1>9. \A i \in 1 .. Len(report') : Within(i)'
    BY <1>2, LimitStays DEF PassFrom, PassSearch
  <1>10. Limit' = Limit /\ Total' = Total /\ phase' = phase
    BY <1>2, LimitStays
  <1>11. Ahead(bss'.bs.lo, bss'.bs.hi, Limit', Total', left[bss'.search - 1])
    BY <1>3, <1>6, <1>8, <1>10
  <1> QED
    BY <1>1, <1>2, <1>5, <1>6, <1>8, <1>9, <1>10, <1>11 DEF PassSearch, Inside

LEMMA PassTells ==
    ASSUME NEW v, NEW w, PassFrom(v, w), TestPass
    PROVE  PassStatus = IF index > Limit THEN Bad ELSE Good
  <1>1. /\ phase \in {"items", "pass", "transform"} /\ phase # "items" /\ pc = "test"
        /\ index \in Nat /\ report \in Seq(Nat) /\ badPass \in Nat /\ badTrans \in Nat
    BY PassFacts, BaseFacts DEF TestPass, SmallTypes
  <1>2. CASE phase = "pass"
    BY <1>2 DEF PassStatus, Limit
  <1>3. CASE phase = "transform"
    <2>1. Len(report) = 1
      BY <1>1, <1>3 DEF PassFrom, Reports
    <2>2. report[1] \in Nat
      BY <1>1, <2>1
    <2>3. index < Transforms
      <3>1. PICK left : left = (IF phase = "pass" THEN v ELSE w)
        OBVIOUS
      <3>2. /\ Ahead(bss.bs.lo, bss.bs.hi, Limit, Total, left[bss.search - 1])
            /\ index = bss.bs.current /\ bss.bs.current = Middle(bss.bs.hi, bss.bs.lo)
        BY <1>1, <3>1 DEF PassFrom, PassSearch
      <3>3. bss.bs \in Searcher /\ Total \in Nat /\ Total = Transforms
        BY <1>3, PassFacts DEF Total
      <3> QED
        BY <3>2, <3>3 DEF Ahead, Middle, Searcher
    <2>4. index \in Nat /\ Transforms \in Nat /\ badTrans \in Nat /\ badPass \in Nat
      BY <1>1, PassFacts
    <2>5. PassStatus = IF report[1] > badPass /\ index > badTrans THEN Bad ELSE Good
      BY <1>3 DEF PassStatus
    <2>6. Limit = IF report[1] > badPass THEN badTrans ELSE Transforms - 1
      BY <1>3 DEF Limit
    <2> QED
      BY <2>2, <2>3, <2>4, <2>5, <2>6
  <1> QED
    BY <1>1, <1>2, <1>3

LEMMA TestPassStep ==
    ASSUME NEW v, NEW w, PassFrom(v, w), TestPass
    PROVE  PassSearch(v, w)'
  <1>1. PICK left : left = (IF phase = "pass" THEN v ELSE w)
    OBVIOUS
  <1>2. SameLimit /\ pc = "test" /\ phase # "items" /\ index' = index
    BY DEF TestPass, passVars, envVars, limitVars, SameLimit
  <1>3. /\ bss.search \in 1 .. Iterations
        /\ Ahead(bss.bs.lo, bss.bs.hi, Limit, Total, left[bss.search - 1])
        /\ bss.bs.current = Middle(bss.bs.hi, bss.bs.lo) /\ index = bss.bs.current
    BY <1>1, <1>2 DEF PassFrom, PassSearch
  <1>4. bss.bs \in Searcher /\ Total \in Nat /\ Iterations \in Nat /\ Limit \in Int
    BY <1>1, <1>2, PassFacts
  <1>5. /\ bss.search - 1 \in 0 .. Iterations /\ bss.search - 1 < Iterations
        /\ (bss.search - 1) + 1 = bss.search /\ bss.search \in 0 .. Iterations
    BY <1>3, <1>4
  <1>6. left[bss.search - 1] \in Nat /\ left[bss.search] = left[bss.search - 1] \div 2
    BY <1>1, <1>5, PassFacts
  <1>7. PICK status \in {Good, Bad, Skip} :
            /\ Answers(status, PassStatus)
            /\ bss'.bs = SetStatusPass(bss.bs, status)
            /\ pc' = (IF TerminatedPass(bss'.bs) THEN "passdone" ELSE "iterate")
    BY <1>1, PassFacts, TestPassEffect
  <1>8. status = IF bss.bs.current > Limit THEN Bad ELSE Good
    <2>1. skips' = skips /\ skips \in Nat
      BY <1>1, PassFacts, BaseFacts DEF PassFrom, SmallTypes
    <2> QED
      BY <1>3, <1>7, <2>1, PassTells DEF Answers
  <1>9. bss'.search = bss.search
    BY <1>1, PassFacts, TestPassEffect
  <1>10. PICK t : t = bss'.bs
    OBVIOUS
  <1>11. /\ TerminatedPass(t) => index = 0 \/ index - Limit \in {0, 1}
         /\ ~TerminatedPass(t) => Ahead(t.lo, Upper(t.hi, Total), Limit, Total, left[bss.search])
    <2>1. PICK s, m : s = bss.bs /\ m = left[bss.search - 1]
      OBVIOUS
    <2>2. /\ TerminatedPass(t) => s.current = 0 \/ s.current - Limit \in {0, 1}
          /\ ~TerminatedPass(t) => Ahead(t.lo, Upper(t.hi, Total), Limit, Total, m \div 2)
      <3>1. /\ s \in Searcher /\ Limit \in Int /\ Total \in Nat /\ m \in Nat
            /\ Ahead(s.lo, s.hi, Limit, Total, m) /\ s.current = Middle(s.hi, s.lo)
            /\ status = (IF s.current > Limit THEN Bad ELSE Good)
            /\ t = SetStatusPass(s, status)
        BY <1>3, <1>4, <1>6, <1>7, <1>8, <1>10, <2>1
      <3>2. PICK limit, total : limit = Limit /\ total = Total
        OBVIOUS
      <3> QED
        BY ONLY <3>1, <3>2, PassTested
    <2> QED
      BY <1>3, <1>6, <2>1, <2>2
  <1>12. \A i \in 1 .. Len(report') : Within(i)'
    BY <1>2, LimitStays DEF PassFrom, PassSearch
  <1>13. Limit' = Limit /\ Total' = Total /\ phase' = phase
    BY <1>2, LimitStays
  <1>14. CASE TerminatedPass(t)
    BY <1>2, <1>7, <1>10, <1>11, <1>12, <1>13, <1>14 DEF PassSearch, Inside
  <1>15. CASE ~TerminatedPass(t)
    <2>1. Ahead(bss'.bs.lo, Upper(bss'.bs.hi, Total'), Limit', Total', left[bss'.search])
      BY <1>9, <1>10, <1>11, <1>13, <1>15
    <2> QED
      BY <1>1, <1>5, <1>7, <1>9, <1>10, <1>12, <1>13, <1>15, <2>1 DEF PassSearch, Inside
  <1> QED
    BY <1>14, <1>15

\* A phase starts with everything ahead.
LEMMA StartPass ==
    ASSUME NEW v, NEW w, PassFrom(v, w), NEW p \in {"pass", "transform"}, bss.opts.pass,
           bss.resumed = FALSE, StartPhase(p), Limit' \in -1 .. Total' - 1,
           \A i \in 1 .. Len(report') : Within(i)'
    PROVE  PassSearch(v, w)'
  <1>1. PICK left : left = (IF p = "pass" THEN v ELSE w)
    OBVIOUS
  <1>2. /\ phase' = p /\ pc' = "iterate" /\ bss'.search = 0 /\ bss'.bs = NewPassSearcher
    <2>1. Base
      BY DEF PassFrom, SetsInv
    <2> QED
      BY <2>1, StartEffect
  <1>3. Iterations \in Nat /\ Passes \in Nat \ {0} /\ Transforms \in Nat \ {0}
    BY ItemAssumption, PassAssumption
  <1>4. Total' \in Nat \ {0} /\ left[0] = Total'
    BY <1>1, <1>2, <1>3 DEF PassFrom, PassHalves, Halving, Total
  <1>5. bss'.bs.lo = 0 /\ bss'.bs.hi = 0
    BY <1>2 DEF NewPassSearcher
  <1>6. Ahead(bss'.bs.lo, Upper(bss'.bs.hi, Total'), Limit', Total', left[bss'.search])
    BY <1>2, <1>4, <1>5 DEF Ahead, Upper
  <1> QED
    BY <1>1, <1>2, <1>3, <1>6 DEF PassSearch

LEMMA PassDoneStep ==
    ASSUME NEW v, NEW w, PassFrom(v, w), StartPasses \/ PassDone
    PROVE  PassSearch(v, w)'
  <1>1. /\ bss.opts.pass /\ RunOnce /\ Phases /\ pc \in {"passes", "passdone"}
        /\ index \in Nat /\ report \in Seq(Nat) /\ phase \in {"items", "pass", "transform"}
        /\ badPass \in 0 .. Passes - 1 /\ badTrans \in 0 .. Transforms - 1
        /\ Passes \in Nat /\ Transforms \in Nat
    <2>1. /\ RunOnce /\ Phases /\ Base /\ Sound(bss)
      BY PassFacts
    <2>2. pc \in {"passes", "passdone"} /\ bss.opts.pass
      BY <2>1 DEF StartPasses, PassDone, Phases, Sound
    <2> QED
      BY <2>1, <2>2, PassFacts
  <1>2. bss.resumed = FALSE
    BY <1>1 DEF RunOnce
  <1>3. \A i \in 1 .. Len(report) : Within(i)
    BY DEF PassFrom, PassSearch
  <1>4. Reports'
    BY ReportsStep DEF PassFrom, SetsInv
  <1>5. CASE StartPasses
    <2>1. /\ StartPhase("pass") /\ phase = "items" /\ report' = report /\ phase' = "pass"
      BY <1>1, <1>5 DEF StartPasses, StartPhase, Phases
    <2>2. report' = <<>>
      BY <2>1 DEF PassFrom, Reports
    <2>3. Limit' \in -1 .. Total' - 1
      BY <1>1, <1>4, <2>1 DEF Reports, Limit, Total
    <2>4. Len(report') = 0
      BY <2>2
    <2>5. \A i \in 1 .. Len(report') : Within(i)'
      BY ONLY <2>4
    <2> QED
      BY <1>1, <1>2, <2>1, <2>3, <2>5, StartPass
  <1>6. CASE PassDone /\ index = 0
    <2>1. SameLimit /\ pc' = "raised"
      BY <1>6 DEF PassDone, Goto, envVars, limitVars, SameLimit
    <2> QED
      BY <1>3, <2>1, LimitStays DEF PassSearch, Inside
  <1>7. CASE PassDone /\ index # 0
    <2>1. /\ phase \in {"pass", "transform"} /\ pc = "passdone" /\ index - Limit \in {0, 1}
          /\ report' = Append(report, index) /\ badPass' = badPass /\ badTrans' = badTrans
          /\ Len(report) = IF phase = "pass" THEN 0 ELSE 1
      BY <1>1, <1>7 DEF PassDone, PassFrom, PassSearch, Reports, Phases, envVars, limitVars
    <2>2. /\ Len(report') = Len(report) + 1 /\ report'[Len(report) + 1] = index
          /\ \A i \in 1 .. Len(report) : report'[i] = report[i]
      BY <1>1, <2>1
    <2>3. /\ phase = "pass" => Limit = badPass
          /\ phase = "transform" /\ report[1] > badPass => Limit = badTrans
      BY DEF Limit
    <2>4. ASSUME NEW i \in 1 .. Len(report') PROVE Within(i)'
      <3>1. CASE i = Len(report) + 1
        <4>1. CASE phase = "pass"
          <5>1. i = 1 /\ report'[i] - badPass \in {0, 1}
            BY <2>1, <2>2, <2>3, <3>1, <4>1
          <5> QED
            BY <2>1, <5>1 DEF Within
        <4>2. CASE phase = "transform"
          <5>1. /\ i = 2 /\ report'[1] = report[1] /\ report'[i] = index
            BY <2>1, <2>2, <3>1, <4>2
          <5>2. report'[1] > badPass => report'[i] - badTrans \in {0, 1}
            BY <2>1, <2>3, <4>2, <5>1
          <5> QED
            BY <2>1, <5>1, <5>2 DEF Within
        <4> QED
          BY <2>1, <4>1, <4>2
      <3>2. CASE i # Len(report) + 1
        <4>1. i \in 1 .. Len(report) /\ report'[i] = report[i]
          BY <2>1, <2>2, <3>2
        <4>2. Within(i)
          BY <1>3, <4>1
        <4>3. report'[1] = report[1]
          BY <1>1, <2>2, <4>1
        <4> QED
          BY <2>1, <4>1, <4>2, <4>3 DEF Within
      <3> QED
        BY <3>1, <3>2
    <2>5. CASE StartPhase("transform")
      <3>1. phase' = "transform"
        BY <2>5 DEF StartPhase
      <3>2. Limit' \in -1 .. Total' - 1
        BY <1>1, <2>1, <3>1 DEF Limit, Total
      <3> QED
        BY <1>1, <1>2, <2>4, <2>5, <3>2, StartPass
    <2>6. CASE pc' \in {"raised", "remove"}
      BY <2>4, <2>6 DEF PassSearch, Inside
    <2> QED
      BY <1>7, <2>5, <2>6 DEF PassDone, Goto
  <1> QED
    BY <1>5, <1>6, <1>7

LEMMA PassInvStep ==
    ASSUME NEW v, NEW w, PassHalves(v, w), PruneIterations # 1,
           SetsInv, Knowledge, Once, Reports, PassInv(v, w), Next
    PROVE  PassInv(v, w)'
  <1>1. SUFFICES ASSUME NoSkip', ~Searchless PROVE PassSearch(v, w)'
    BY DEF PassInv, Searchless
  <1>2. PassFrom(v, w)
    BY <1>1, SkipsFall DEF SetsInv, Knowledge, PassInv, PassFrom
  <1>3. Phases
    BY <1>2, PassFacts
  <1>4. CASE Save \/ Rename \/ Command \/ RemoveState \/ Killed \/ Ended
    BY <1>2, <1>4, OthersPass
  <1>5. CASE Iterate /\ phase # "items"
    BY <1>2, <1>5, IteratePass
  <1>6. CASE NextPass
    BY <1>2, <1>6, NextPassStep
  <1>7. CASE TestPass
    BY <1>2, <1>7, TestPassStep
  <1>8. CASE StartPasses \/ PassDone
    BY <1>2, <1>8, PassDoneStep
  <1>9. CASE SwitchActions \/ Outer \/ (Iterate /\ phase = "items") \/ NextItem \/ TestItems \/ Prune
    <2>1. phase' = "items" /\ pc' # "passdone" /\ SameLimit
      BY <1>3, <1>9 DEF SwitchActions, VerifyGood, VerifyBad, Verified, SwitchGoodItems,
         SwitchBadItems, Outer, Iterate, NextItem, TestItems, Prune, Goto, Phases, passVars,
         envVars, limitVars, SameLimit
    <2> QED
      BY <1>2, <2>1, ItemsPass
  <1>10. CASE Resume \/ StartAgain
    <2>1. phase' = "items" /\ pc' # "passdone" /\ report' = <<>>
      BY <1>10 DEF Resume, StartAgain, Goto
    <2> QED
      BY <1>2, <2>1, ItemsPass
  <1> QED
    BY <1>4, <1>5, <1>6, <1>7, <1>8, <1>9, <1>10, Actions

\* DoSearchBadPass, DoBinarySearchBadPass: without skipped tests, the number of
\* the bad pass is right to within one, and so is, when the bad pass runs under
\* that limit, the number of its bad transformation, whatever bisections were
\* killed and resumed before; provided that
\* --iterations is enough to halve the passes and the transformations away,
\* and that --prune_iterations is not 1: the bisection of a pass that is
\* resumed would then start with the iterations it has already used.
THEOREM FindsThePass ==
    ASSUME HalvedAway(Passes, Iterations), HalvedAway(Transforms, Iterations),
           PruneIterations # 1
    PROVE  Spec => []PassWithinOne
  <1>1. PICK v, w : PassHalves(v, w)
    BY DEF HalvedAway, PassHalves
  <1>2. Init => Reports /\ PassInv(v, w)
    BY PassAssumption DEF Init, Reports, PassInv, PassSearch, Inside
  <1>3. SetsInv /\ Knowledge /\ Once /\ Reports /\ PassInv(v, w) /\ [Next]_vars
            => Reports' /\ PassInv(v, w)'
    <2>1. CASE Next
      BY <1>1, <2>1, PassInvStep, ReportsStep DEF SetsInv
    <2>2. CASE UNCHANGED vars
      BY <2>2 DEF Reports, PassInv, PassSearch, NoSkip, Limit, Total, Within, vars, envVars,
         limitVars, passVars
    <2> QED
      BY <2>1, <2>2
  <1>4. Idle /\ PassInv(v, w) => PassWithinOne
    <2> SUFFICES ASSUME Idle, PassInv(v, w), NoSkip, NEW i \in 1 .. Len(report)
                 PROVE  Within(i)
      BY DEF PassWithinOne, Within
    <2>1. CASE Searchless
      BY <2>1 DEF Idle
    <2>2. CASE ~Searchless
      BY <2>2 DEF PassInv, PassSearch
    <2> QED
      BY <2>1, <2>2
  <1> QED
    BY <1>2, <1>3, <1>4, KnowledgeHolds, OnceHolds, PTL DEF Spec
=============================================================================
