---------------------------- MODULE SearchesProofs ----------------------------
(***************************************************************************)
(* Proofs about the bisection of binary_search_state.py, for any number of *)
(* items, options, iterations, kills and skipped tests: the search always  *)
(* has an index to go on with, the test sees the sets that were asked for, *)
(* and the state file has the iteration that is under way.  And about the  *)
(* compiler wrapper of bisect_driver.py, for any compilations of any       *)
(* objects: a build that ends well is what the tool asked for.  And about  *)
(* the plan of machine_image_manager.py, and the search of                 *)
(* afdo_prof_analysis.py, for any of their arguments.                      *)
(***************************************************************************)
EXTENDS BinarySearchState, BisectDriver, MCMachineImageManager, AfdoSearch,
        FiniteSetTheorems, SequenceTheorems,
        NaturalsInduction, WellFoundedInduction, TLAPS

-----------------------------------------------------------------------------
(* Least numbers and inductive sets *)

LEMMA LeastNat ==
    ASSUME NEW T, T \subseteq Nat, T # {}
    PROVE  \E x \in T : \A y \in T : x <= y
  <1> DEFINE Less == {ss \in Nat \X Nat : ss[1] < ss[2]}
  <1>1. IsWellFoundedOn(Less, Nat)
    BY NatLessThanWellFounded DEF OpToRel
  <1>2. PICK x \in T : \A y \in T : ~ (<<y, x>> \in Less)
    BY <1>1, WFMin
  <1>3. \A y \in T : ~ (y < x)
    BY <1>2
  <1> QED
    BY <1>3

LEMMA InductiveSet ==
    ASSUME NEW T, T \subseteq Nat, 0 \in T, \A n \in T : n + 1 \in T
    PROVE  T = Nat
  <1> SUFFICES ASSUME Nat \ T # {} PROVE FALSE
    OBVIOUS
  <1>1. PICK x \in Nat \ T : \A y \in Nat \ T : x <= y
    BY LeastNat
  <1>2. x # 0 /\ x - 1 \in Nat /\ ~(x <= x - 1)
    BY <1>1
  <1>3. x - 1 \in T
    BY <1>1, <1>2
  <1>4. (x - 1) + 1 = x
    BY <1>1
  <1> QED
    BY <1>1, <1>3, <1>4

-----------------------------------------------------------------------------
(* GetNextFlakyBinary finds an index that has not been skipped *)

\* One generation of the queue of GetNextFlakyBinary from the one before it.
Split(g) ==
    [i \in 1 .. 2 * Len(g) |->
        LET e == g[(i + 1) \div 2] IN
        IF i % 2 = 1 THEN <<e[1], Middle(e[1], e[2]), e[2]>>
                     ELSE <<e[2], Middle(e[2], e[3]), e[3]>>]

First(s) == << <<s.lo, s.current, s.hi>> >>

Generations(s, n, g) == g = [k \in 0 .. n |-> IF k = 0 THEN First(s) ELSE Split(g[k - 1])]

LEMMA GenDef == ASSUME NEW s PROVE Generation(s) = CHOOSE g : Generations(s, s.hi, g)
  BY DEF Generation, Generations, First, Split

\* The intervals of the queue, and a searcher about to test the middle.
Part(s) ==
    {e \in Nat \X Nat \X Nat :
        /\ s.lo <= e[1] /\ e[1] <= e[2] /\ e[2] <= e[3] /\ e[3] <= s.hi
        /\ e[2] < s.hi /\ e[2] = Middle(e[1], e[3])}

AtMiddle(s) ==
    s \in Searcher /\ s.lo < s.hi /\ s.current = Middle(s.lo, s.hi) /\ Untested(s) # {}

LEMMA MiddleFits ==
    ASSUME NEW a \in Nat, NEW b \in Nat, a <= b
    PROVE  /\ Middle(a, b) \in Nat /\ a <= Middle(a, b) /\ Middle(a, b) <= b
           /\ a < b => Middle(a, b) < b
           /\ b - a >= 2 => a < Middle(a, b)
           /\ b = a + 1 => Middle(a, b) = a
  BY DEF Middle

LEMMA SplitFits ==
    ASSUME NEW s, AtMiddle(s), NEW g \in Seq(Part(s))
    PROVE  /\ Split(g) \in Seq(Part(s))
           /\ \A i \in 1 .. Len(g) :
                 /\ 2 * i - 1 \in 1 .. Len(Split(g)) /\ 2 * i \in 1 .. Len(Split(g))
                 /\ Split(g)[2 * i - 1] = <<g[i][1], Middle(g[i][1], g[i][2]), g[i][2]>>
                 /\ Split(g)[2 * i] = <<g[i][2], Middle(g[i][2], g[i][3]), g[i][3]>>
  <1>1. Len(g) \in Nat /\ \A i \in 1 .. Len(g) : g[i] \in Part(s)
    BY LenProperties
  <1>2. ASSUME NEW i \in 1 .. 2 * Len(g) PROVE (i + 1) \div 2 \in 1 .. Len(g)
    BY <1>1
  <1>3. s.lo \in Nat /\ s.hi \in Nat
    BY DEF AtMiddle, Searcher
  <1>4. ASSUME NEW e \in Part(s)
        PROVE  /\ <<e[1], Middle(e[1], e[2]), e[2]>> \in Part(s)
               /\ <<e[2], Middle(e[2], e[3]), e[3]>> \in Part(s)
    <2>1. /\ e[1] \in Nat /\ e[2] \in Nat /\ e[3] \in Nat
          /\ s.lo <= e[1] /\ e[1] <= e[2] /\ e[2] <= e[3] /\ e[3] <= s.hi
          /\ e[2] < s.hi
      BY DEF Part
    <2>2. /\ Middle(e[1], e[2]) \in Nat /\ e[1] <= Middle(e[1], e[2]) /\ Middle(e[1], e[2]) <= e[2]
      BY <2>1, MiddleFits
    <2>3. /\ Middle(e[2], e[3]) \in Nat /\ e[2] <= Middle(e[2], e[3]) /\ Middle(e[2], e[3]) <= e[3]
          /\ e[2] < e[3] => Middle(e[2], e[3]) < e[3]
      BY <2>1, MiddleFits
    <2>4. Middle(e[2], e[3]) < s.hi
      BY <1>3, <2>1, <2>3
    <2>5. <<e[1], Middle(e[1], e[2]), e[2]>> \in Part(s)
      BY <1>3, <2>1, <2>2 DEF Part
    <2>6. <<e[2], Middle(e[2], e[3]), e[3]>> \in Part(s)
      BY <1>3, <2>1, <2>3, <2>4 DEF Part
    <2> QED
      BY <2>5, <2>6
  <1>5. \A i \in 1 .. 2 * Len(g) : Split(g)[i] \in Part(s)
    <2> TAKE i \in 1 .. 2 * Len(g)
    <2>1. g[(i + 1) \div 2] \in Part(s)
      BY <1>1, <1>2
    <2> QED
      BY <1>4, <2>1 DEF Split
  <1>6. Split(g) \in [1 .. 2 * Len(g) -> Part(s)]
    BY <1>5 DEF Split
  <1>7. Split(g) \in Seq(Part(s)) /\ Len(Split(g)) = 2 * Len(g)
    BY <1>1, <1>6, SeqDef, LenProperties
  <1>8. ASSUME NEW i \in 1 .. Len(g)
        PROVE  /\ 2 * i - 1 \in 1 .. 2 * Len(g) /\ 2 * i \in 1 .. 2 * Len(g)
               /\ Split(g)[2 * i - 1] = <<g[i][1], Middle(g[i][1], g[i][2]), g[i][2]>>
               /\ Split(g)[2 * i] = <<g[i][2], Middle(g[i][2], g[i][3]), g[i][3]>>
    <2>1. /\ 2 * i - 1 \in 1 .. 2 * Len(g) /\ 2 * i \in 1 .. 2 * Len(g)
          /\ ((2 * i - 1) + 1) \div 2 = i /\ (2 * i + 1) \div 2 = i
          /\ (2 * i - 1) % 2 = 1 /\ (2 * i) % 2 = 0
      BY <1>1
    <2> QED
      BY <2>1 DEF Split
  <1> QED
    BY <1>7, <1>8

\* The queue exists: all its generations are sequences of intervals.
LEMMA QueueExists ==
    ASSUME NEW s, AtMiddle(s)
    PROVE  \A n \in Nat : \E g \in [0 .. n -> Seq(Part(s))] : Generations(s, n, g)
  <1> DEFINE T == {n \in Nat : \E g \in [0 .. n -> Seq(Part(s))] : Generations(s, n, g)}
  <1>1. First(s) \in Seq(Part(s))
    <2>1. /\ s.lo \in Nat /\ s.hi \in Nat /\ s.current \in Nat
          /\ s.lo < s.hi /\ s.current = Middle(s.lo, s.hi)
      BY DEF AtMiddle, Searcher
    <2>2. s.lo <= s.current /\ s.current < s.hi
      BY <2>1, MiddleFits
    <2>3. <<s.lo, s.current, s.hi>> \in Part(s)
      BY <2>1, <2>2 DEF Part
    <2> QED
      BY <2>3 DEF First
  <1>2. 0 \in T
    <2> DEFINE g == [k \in 0 .. 0 |-> First(s)]
    <2>1. g \in [0 .. 0 -> Seq(Part(s))]
      BY <1>1
    <2>2. Generations(s, 0, g)
      BY DEF Generations
    <2> QED
      BY <2>1, <2>2
  <1>3. ASSUME NEW n \in T PROVE n + 1 \in T
    <2>1. PICK f \in [0 .. n -> Seq(Part(s))] : Generations(s, n, f)
      OBVIOUS
    <2> DEFINE g == [k \in 0 .. n + 1 |-> IF k = 0 THEN First(s) ELSE Split(f[k - 1])]
    <2>2. \A k \in 0 .. n : f[k] = IF k = 0 THEN First(s) ELSE Split(f[k - 1])
      BY <2>1 DEF Generations
    <2>3. \A k \in 0 .. n : g[k] = f[k]
      BY <2>2
    <2>4. \A k \in 0 .. n + 1 : g[k] \in Seq(Part(s))
      <3> TAKE k \in 0 .. n + 1
      <3>1. CASE k = 0
        BY <3>1, <1>1
      <3>2. CASE k # 0
        <4>1. k - 1 \in 0 .. n
          BY <3>2
        <4>2. f[k - 1] \in Seq(Part(s))
          BY <4>1, <2>1
        <4>3. g[k] = Split(f[k - 1])
          BY <3>2
        <4> HIDE DEF g
        <4> QED
          BY <4>2, <4>3, SplitFits
      <3> QED
        BY <3>1, <3>2
    <2>5. g \in [0 .. n + 1 -> Seq(Part(s))]
      BY <2>4
    <2>6. Generations(s, n + 1, g)
      <3>1. ASSUME NEW k \in 0 .. n + 1, k # 0 PROVE f[k - 1] = g[k - 1]
        <4>1. n \in Nat
          OBVIOUS
        <4>2. k - 1 \in 0 .. n
          BY <3>1, <4>1
        <4> HIDE DEF g
        <4> QED
          BY <2>3, <4>2
      <3>2. \A k \in 0 .. n + 1 : g[k] = IF k = 0 THEN First(s) ELSE Split(g[k - 1])
        BY <3>1
      <3> HIDE DEF g
      <3> QED
        BY <2>5, <3>2 DEF Generations
    <2> QED
      BY <2>5, <2>6
  <1> HIDE DEF T
  <1>4. T \subseteq Nat
    BY DEF T
  <1>5. T = Nat
    BY <1>2, <1>3, <1>4, InductiveSet
  <1> QED
    BY <1>5 DEF T

\* Interval i of generation g holds index j and is no wider than w.
Covers(g, i, j, w) ==
    i \in 1 .. Len(g) /\ g[i][1] <= j /\ j < g[i][3] /\ g[i][3] - g[i][1] <= w

\* The width that is left after k splits of n indices.
Left(n, k) == IF n - k >= 1 THEN n - k ELSE 1

LEMMA SplitCovers ==
    ASSUME NEW s, AtMiddle(s), NEW g \in Seq(Part(s)), NEW j \in Nat, NEW n \in Nat,
           NEW k \in Nat, \E i \in 1 .. Len(g) : Covers(g, i, j, Left(n, k))
    PROVE  \E i \in 1 .. Len(Split(g)) : Covers(Split(g), i, j, Left(n, k + 1))
  <1>1. PICK i \in 1 .. Len(g) : Covers(g, i, j, Left(n, k))
    OBVIOUS
  <1>2. g[i] \in Part(s) /\ Len(g) \in Nat
    BY LenProperties
  <1> DEFINE a == g[i][1]
             m == g[i][2]
             b == g[i][3]
  <1>3. /\ a \in Nat /\ m \in Nat /\ b \in Nat /\ a <= m /\ m <= b
        /\ m = Middle(a, b) /\ a <= j /\ j < b /\ b - a <= Left(n, k)
    BY <1>1, <1>2 DEF Part, Covers
  <1>4. /\ 2 * i - 1 \in 1 .. Len(Split(g)) /\ 2 * i \in 1 .. Len(Split(g))
        /\ Split(g)[2 * i - 1] = <<a, Middle(a, m), m>>
        /\ Split(g)[2 * i] = <<m, Middle(m, b), b>>
    BY SplitFits
  <1> HIDE DEF a, m, b
  <1>5. CASE j < m
    <2>1. m - a <= Left(n, k + 1)
      BY <1>3, <1>5 DEF Left, Middle
    <2>2. Covers(Split(g), 2 * i - 1, j, Left(n, k + 1))
      BY <1>3, <1>4, <1>5, <2>1 DEF Covers
    <2> QED
      BY <1>4, <2>2
  <1>6. CASE j >= m
    <2>1. b - m <= Left(n, k + 1)
      BY <1>3, <1>6 DEF Left, Middle
    <2>2. Covers(Split(g), 2 * i, j, Left(n, k + 1))
      BY <1>3, <1>4, <1>6, <2>1 DEF Covers
    <2> QED
      BY <1>4, <2>2
  <1> QED
    BY <1>3, <1>5, <1>6

\* The queue of Generation, with an interval for every index in every
\* generation.
LEMMA QueueCovers ==
    ASSUME NEW s, AtMiddle(s)
    PROVE  /\ \A k \in 0 .. s.hi : Generation(s)[k] \in Seq(Part(s))
           /\ \A j \in s.lo .. s.hi - 1 : \A k \in 0 .. s.hi :
                 \E i \in 1 .. Len(Generation(s)[k]) :
                    Covers(Generation(s)[k], i, j, Left(s.hi - s.lo, k))
  <1> DEFINE g == Generation(s)
             n == s.hi
  <1>1. s.lo \in Nat /\ n \in Nat /\ s.lo < n
    BY DEF AtMiddle, Searcher
  <1>2. Generations(s, n, g)
    BY <1>1, QueueExists, GenDef
  <1> HIDE DEF g
  <1>3. \A k \in 0 .. n : g[k] = IF k = 0 THEN First(s) ELSE Split(g[k - 1])
    BY <1>2 DEF Generations
  <1>4. \A k \in 0 .. n : g[k] \in Seq(Part(s))
    <2>1. PICK f \in [0 .. n -> Seq(Part(s))] : Generations(s, n, f)
      BY <1>1, QueueExists
    <2> DEFINE T == {k \in Nat : k <= n => g[k] = f[k]}
    <2>2. \A k \in 0 .. n : f[k] = IF k = 0 THEN First(s) ELSE Split(f[k - 1])
      BY <2>1 DEF Generations
    <2>3. 0 \in T
      BY <1>1, <1>3, <2>2
    <2>4. ASSUME NEW k \in T PROVE k + 1 \in T
      <3>1. SUFFICES ASSUME k + 1 <= n PROVE g[k + 1] = f[k + 1]
        OBVIOUS
      <3>2. k \in Nat /\ k + 1 \in 0 .. n /\ (k + 1) - 1 = k /\ k + 1 # 0
        BY <1>1, <3>1
      <3>3. g[k] = f[k]
        BY <1>1, <3>1
      <3> QED
        BY <1>3, <2>2, <3>2, <3>3
    <2>5. T = Nat
      <3> HIDE DEF T
      <3>1. T \subseteq Nat
        BY DEF T
      <3> QED
        BY <2>3, <2>4, <3>1, InductiveSet
    <2>6. \A k \in 0 .. n : g[k] = f[k]
      BY <1>1, <2>5
    <2> QED
      BY <2>6
  <1>5. ASSUME NEW j \in s.lo .. n - 1
        PROVE  \A k \in 0 .. n : \E i \in 1 .. Len(g[k]) : Covers(g[k], i, j, Left(n - s.lo, k))
    <2> DEFINE T == {k \in Nat : k <= n => \E i \in 1 .. Len(g[k]) :
                                                Covers(g[k], i, j, Left(n - s.lo, k))}
    <2>1. 0 \in T
      <3>1. g[0] = << <<s.lo, s.current, n>> >>
        BY <1>1, <1>3 DEF First
      <3>2. Covers(g[0], 1, j, Left(n - s.lo, 0)) /\ Len(g[0]) = 1
        BY <1>1, <3>1 DEF Covers, Left
      <3> QED
        BY <3>2
    <2>2. ASSUME NEW k \in T PROVE k + 1 \in T
      <3>1. SUFFICES ASSUME k + 1 <= n
                     PROVE  \E i \in 1 .. Len(g[k + 1]) :
                                Covers(g[k + 1], i, j, Left(n - s.lo, k + 1))
        OBVIOUS
      <3>2. k \in 0 .. n /\ k \in Nat /\ k + 1 \in 0 .. n /\ (k + 1) - 1 = k /\ k + 1 # 0
        BY <1>1, <3>1
      <3>3. g[k + 1] = Split(g[k])
        BY <1>3, <3>2
      <3>4. \E i \in 1 .. Len(g[k]) : Covers(g[k], i, j, Left(n - s.lo, k))
        BY <3>2
      <3>5. n - s.lo \in Nat /\ j \in Nat
        BY <1>1
      <3> QED
        BY <1>4, <3>2, <3>3, <3>4, <3>5, SplitCovers
    <2>3. T = Nat
      <3> HIDE DEF T
      <3>1. T \subseteq Nat
        BY DEF T
      <3> QED
        BY <2>1, <2>2, <3>1, InductiveSet
    <2> QED
      BY <1>1, <2>3
  <1> QED
    BY <1>4, <1>5 DEF g

\* The first hit of the queue is an index of the search that has not been
\* skipped.
LEMMA FlakyFits ==
    ASSUME NEW s, AtMiddle(s)
    PROVE  NextFlakyBinary(s) \in Untested(s)
  <1> DEFINE gen == Generation(s)
             n == s.hi
             Hit(k, i) == gen[k][i][2] \notin s.skipped
             K(k) == /\ \E i \in 1 .. Len(gen[k]) : Hit(k, i)
                     /\ \A j \in 0 .. (k - 1) : \A i \in 1 .. Len(gen[j]) : ~Hit(j, i)
             kk == CHOOSE k \in 0 .. n : K(k)
             I(i) == Hit(kk, i) /\ \A j \in 1 .. (i - 1) : ~Hit(kk, j)
             ii == CHOOSE i \in 1 .. Len(gen[kk]) : I(i)
  <1>1. s.lo \in Nat /\ n \in Nat /\ s.lo < n
    BY DEF AtMiddle, Searcher
  <1>2. /\ \A k \in 0 .. n : gen[k] \in Seq(Part(s))
        /\ \A j \in s.lo .. n - 1 : \A k \in 0 .. n :
              \E i \in 1 .. Len(gen[k]) : Covers(gen[k], i, j, Left(n - s.lo, k))
    BY QueueCovers
  <1>3. NextFlakyBinary(s) = gen[kk][ii][2]
    BY DEF NextFlakyBinary
  <1> HIDE DEF gen
  <1>4. PICK j \in s.lo .. n - 1 : j \notin s.skipped
    BY DEF AtMiddle, Untested
  <1>5. PICK i \in 1 .. Len(gen[n]) : Covers(gen[n], i, j, Left(n - s.lo, n))
    BY <1>1, <1>2
  <1>6. gen[n][i][2] = j
    <2>1. gen[n][i] \in Part(s)
      <3>1. n \in 0 .. n
        BY <1>1
      <3>2. gen[n] \in Seq(Part(s))
        BY <1>2, <3>1
      <3> QED
        BY <3>2
    <2>2. Left(n - s.lo, n) = 1
      BY <1>1 DEF Left
    <2>3. /\ gen[n][i][1] \in Nat /\ gen[n][i][3] \in Nat
          /\ gen[n][i][2] = Middle(gen[n][i][1], gen[n][i][3])
          /\ gen[n][i][1] <= j /\ j < gen[n][i][3] /\ gen[n][i][3] - gen[n][i][1] <= 1
      BY <1>5, <2>1, <2>2 DEF Part, Covers
    <2>4. gen[n][i][1] = j /\ gen[n][i][3] = gen[n][i][1] + 1
      <3>1. PICK a, c : a = gen[n][i][1] /\ c = gen[n][i][3]
        OBVIOUS
      <3>2. a \in Nat /\ c \in Nat /\ a <= j /\ j < c /\ c - a <= 1 /\ j \in Nat
        BY <1>1, <2>3, <3>1
      <3>3. a = j /\ c = a + 1
        BY ONLY <3>2
      <3> QED
        BY ONLY <3>1, <3>3
    <2> QED
      BY <2>3, <2>4, MiddleFits
  <1>7. \E k \in 0 .. n : K(k)
    <2> DEFINE T == {k \in 0 .. n : \E x \in 1 .. Len(gen[k]) : Hit(k, x)}
    <2>1. n \in T /\ T \subseteq Nat
      BY <1>1, <1>4, <1>6
    <2>2. PICK k \in T : \A y \in T : k <= y
      <3> HIDE DEF T
      <3> QED
        BY <2>1, LeastNat
    <2>3. K(k)
      <3> SUFFICES ASSUME NEW y \in 0 .. (k - 1), NEW x \in 1 .. Len(gen[y]), Hit(y, x)
                   PROVE  FALSE
        OBVIOUS
      <3>1. k \in 0 .. n
        OBVIOUS
      <3>2. y \in 0 .. n /\ \E z \in 1 .. Len(gen[y]) : Hit(y, z)
        BY <1>1, <3>1
      <3>3. y \in T
        BY <3>2
      <3>4. ~(k <= y)
        BY <1>1, <3>1
      <3> QED
        BY <2>2, <3>3, <3>4
    <2> QED
      BY <2>3
  <1>8. kk \in 0 .. n /\ K(kk)
    BY <1>7
  <1>9. gen[kk] \in Seq(Part(s))
    BY <1>2, <1>8
  <1>10. \E x \in 1 .. Len(gen[kk]) : Hit(kk, x)
    BY <1>8
  <1> HIDE DEF kk, K
  <1>11. \E x \in 1 .. Len(gen[kk]) : I(x)
    <2> DEFINE T == {x \in 1 .. Len(gen[kk]) : Hit(kk, x)}
    <2>1. T # {} /\ T \subseteq Nat /\ Len(gen[kk]) \in Nat
      BY <1>9, <1>10, LenProperties
    <2>2. PICK x \in T : \A y \in T : x <= y
      BY <2>1, LeastNat
    <2>3. I(x)
      <3> SUFFICES ASSUME NEW y \in 1 .. (x - 1), Hit(kk, y) PROVE FALSE
        OBVIOUS
      <3>1. y \in T
        BY <2>1
      <3> QED
        BY <2>2, <3>1
    <2> QED
      BY <2>3
  <1>12. ii \in 1 .. Len(gen[kk]) /\ Hit(kk, ii)
    BY <1>11
  <1> HIDE DEF ii, I
  <1>13. gen[kk][ii] \in Part(s)
    BY <1>9, <1>12, LenProperties
  <1>14. gen[kk][ii][2] \in s.lo .. n - 1
    <2>1. PICK e : e = gen[kk][ii]
      OBVIOUS
    <2>2. e[2] \in s.lo .. n - 1
      BY <1>1, <1>13, <2>1 DEF Part
    <2> QED
      BY <2>1, <2>2
  <1> QED
    BY <1>3, <1>12, <1>14 DEF Untested

\* GetNext of a search that can go on.
LEMMA GetNextFits ==
    ASSUME NEW s \in Searcher, s.lo < s.hi, Untested(s) # {}
    PROVE  /\ GetNext(s) \in Searcher
           /\ GetNext(s).lo = s.lo /\ GetNext(s).hi = s.hi
           /\ GetNext(s).skipped = s.skipped
           /\ GetNext(s).current \in s.lo .. s.hi - 1
           /\ s.skipped = {} => GetNext(s).current = Middle(s.lo, s.hi)
  <1> DEFINE t == [s EXCEPT !.current = Middle(s.hi, s.lo)]
  <1>1. /\ s.lo \in Nat /\ s.hi \in Nat
        /\ Middle(s.hi, s.lo) \in s.lo .. s.hi - 1 /\ Middle(s.hi, s.lo) = Middle(s.lo, s.hi)
    BY DEF Searcher, Middle
  <1>2. /\ t \in Searcher /\ t.lo = s.lo /\ t.hi = s.hi /\ t.skipped = s.skipped
        /\ t.current = Middle(s.hi, s.lo)
    BY <1>1 DEF Searcher
  <1>3. GetNext(s) = IF t.current \in s.skipped THEN [t EXCEPT !.current = NextFlakyBinary(t)]
                     ELSE t
    BY DEF GetNext
  <1> HIDE DEF t
  <1>4. CASE t.current \in s.skipped
    <2>1. AtMiddle(t)
      BY <1>1, <1>2 DEF AtMiddle, Untested
    <2>2. NextFlakyBinary(t) \in s.lo .. s.hi - 1
      BY <1>2, <2>1, FlakyFits DEF Untested
    <2>3. NextFlakyBinary(t) \in Nat
      BY <1>1, <2>2
    <2> QED
      BY <1>2, <1>3, <1>4, <2>2, <2>3 DEF Searcher
  <1>5. CASE t.current \notin s.skipped
    BY <1>1, <1>2, <1>3, <1>5
  <1> QED
    BY <1>4, <1>5
-----------------------------------------------------------------------------
(* The inductive invariant *)

ListOf(seq) == {seq[j] : j \in 1 .. Len(seq)}

\* An object of the tool, running or saved.
Sound(b) ==
    /\ b \in Object /\ Permutes(b.all) /\ Len(b.all) \in 1 .. N
    /\ b.mode = "items" =>
          b.bs.lo <= b.bs.hi /\ b.bs.hi < Len(b.all) /\ b.bs.current <= b.bs.hi
    /\ b.opts.prune => b.known = Items \ ListOf(b.all)
    /\ b.mode # "items" => b.opts.pass

SearchTypes == TypeOK /\ Sound(bss) /\ (state # NoState => Sound(state))

\* What is bisected at which statement.
Phases ==
    /\ pc \in {"verifygood", "verifybad", "outer", "good", "bad", "prune",
               "command", "passes"} => phase = "items"
    /\ pc \in {"verifygood", "verifybad", "good", "bad", "prune"} => bss.mode = "items"
    /\ pc = "test" /\ phase = "items" => bss.mode = "items"
    /\ pc = "passdone" => phase # "items"
    /\ phase # "items" => bss.mode = phase
    /\ pc = "passes" => bss.opts.pass

\* A search that can go on.
GoesOn(b) ==
    b.mode = "items" =>
        b.bs.lo < b.bs.hi /\ Untested(b.bs) # {} /\ b.known = Items \ ListOf(b.all)

Inside == {"iterate", "save", "rename", "next"}
AtWork == {"good", "bad", "test", "prune"}

Progress ==
    /\ state # NoState => GoesOn(state)
    /\ pc \in Inside /\ phase = "items" => GoesOn(bss)
    /\ pc \in {"verifygood", "verifybad", "outer"} /\ Len(bss.all) > 1 => GoesOn(bss)
    /\ pc \in AtWork /\ phase = "items" => bss.known = Items \ ListOf(bss.all)
    /\ pc \in {"good", "bad", "test"} /\ phase = "items" => bss.bs.current \in bss.bs.lo .. bss.bs.hi - 1
    /\ pc = "prune" => Terminated(bss.bs)


Base == SearchTypes /\ Phases /\ Progress

-----------------------------------------------------------------------------
(* What the operations do to a sound object *)

LEMMA SetStatusFits ==
    ASSUME NEW s \in Searcher, s.current \in s.lo .. s.hi - 1,
           NEW status \in {Good, Bad, Skip}, NEW t, t = SetStatus(s, status)
    PROVE  /\ t \in Searcher
           /\ t.lo <= t.hi /\ t.hi <= s.hi /\ s.lo <= t.lo /\ t.current <= t.hi
           /\ status = Skip => t = [s EXCEPT !.skipped = @ \cup {s.current}]
           /\ status # Skip => t.skipped = s.skipped /\ t.current = Middle(t.lo, t.hi)
           /\ status = Good => t.lo = s.current + 1 /\ t.hi = s.hi
           /\ status = Bad => t.lo = s.lo /\ t.hi = s.current
  <1>1. /\ s.lo \in Nat /\ s.hi \in Nat /\ s.current \in Nat
        /\ s.lo <= s.current /\ s.current + 1 <= s.hi /\ s.current + 1 \in Nat
        /\ s.skipped \in SUBSET Nat /\ Good # Bad /\ Good # Skip /\ Bad # Skip
    BY DEF Searcher, Good, Bad, Skip
  <1>2. CASE status = Skip
    <2>1. t = [s EXCEPT !.skipped = @ \cup {s.current}]
      BY <1>1, <1>2 DEF SetStatus
    <2>2. t \in Searcher /\ t.lo = s.lo /\ t.hi = s.hi /\ t.current = s.current
      BY <1>1, <2>1 DEF Searcher
    <2> QED
      BY <1>1, <1>2, <2>1, <2>2
  <1>3. CASE status = Good
    <2>1. t = [s EXCEPT !.lo = s.current + 1, !.hi = s.hi, !.current = Middle(s.current + 1, s.hi)]
      BY <1>1, <1>3 DEF SetStatus
    <2>2. /\ Middle(s.current + 1, s.hi) \in Nat /\ Middle(s.current + 1, s.hi) <= s.hi
      BY <1>1, MiddleFits
    <2>3. /\ t \in Searcher /\ t.lo = s.current + 1 /\ t.hi = s.hi /\ t.skipped = s.skipped
          /\ t.current = Middle(s.current + 1, s.hi)
      BY <1>1, <2>1, <2>2 DEF Searcher
    <2> QED
      BY <1>1, <1>3, <2>2, <2>3
  <1>4. CASE status = Bad
    <2>1. t = [s EXCEPT !.lo = s.lo, !.hi = s.current, !.current = Middle(s.lo, s.current)]
      BY <1>1, <1>4 DEF SetStatus
    <2>2. /\ Middle(s.lo, s.current) \in Nat /\ Middle(s.lo, s.current) <= s.current
      BY <1>1, MiddleFits
    <2>3. /\ t \in Searcher /\ t.lo = s.lo /\ t.hi = s.current /\ t.skipped = s.skipped
          /\ t.current = Middle(s.lo, s.current)
      BY <1>1, <2>1, <2>2 DEF Searcher
    <2> QED
      BY <1>1, <1>4, <2>2, <2>3
  <1> QED
    BY <1>2, <1>3, <1>4

LEMMA SoundFields ==
    ASSUME NEW b, Sound(b)
    PROVE  /\ b.opts \in Options /\ b.opts.prune \in BOOLEAN /\ b.opts.pass \in BOOLEAN
           /\ b.opts.incremental \in BOOLEAN /\ b.opts.verify \in BOOLEAN
           /\ ~(b.opts.prune /\ b.opts.pass)
           /\ b.mode \in {"items", "pass", "transform"}
           /\ b.all \in Seq(Items) /\ b.all \in [1 .. Len(b.all) -> Items] /\ Len(b.all) \in 1 .. N
           /\ b.bs \in Searcher /\ b.search \in Nat /\ b.pruned \in Nat
           /\ b.bs.lo \in Nat /\ b.bs.hi \in Nat /\ b.bs.current \in Nat
           /\ b.found \subseteq Items /\ b.known \subseteq Items
           /\ b.good \subseteq Items /\ b.bad \subseteq Items /\ b.resumed \in BOOLEAN
           /\ b # NoState /\ Permutes(b.all)
  <1>1. b \in Object
    BY DEF Sound
  <1>2. b.opts \in Options /\ b.mode \in {"items", "pass", "transform"} /\ b.bs \in Searcher
        /\ b.all \in Seq(Items)
    BY <1>1 DEF Object
  <1>3. b # NoState
    BY <1>2 DEF NoState
  <1>4. b.all \in [1 .. Len(b.all) -> Items]
    BY <1>2, LenProperties
  <1>5. /\ b.opts.prune \in BOOLEAN /\ b.opts.pass \in BOOLEAN
        /\ b.opts.incremental \in BOOLEAN /\ b.opts.verify \in BOOLEAN
        /\ ~(b.opts.prune /\ b.opts.pass)
    BY <1>2, OptionAssumption
  <1> QED
    BY <1>1, <1>2, <1>3, <1>4, <1>5 DEF Sound, Object, Searcher

\* The fields that Sound and GoesOn do not look at.
LEMMA SoundElsewhere ==
    ASSUME NEW b, Sound(b), NEW search \in Nat, NEW good \in SUBSET Items,
           NEW gone \in SUBSET Items, NEW resumed \in BOOLEAN, NEW pruned \in Nat
    PROVE  LET c == [b EXCEPT !.search = search, !.pruned = pruned, !.good = good,
                              !.bad = gone, !.resumed = resumed]
           IN  Sound(c) /\ (GoesOn(b) => GoesOn(c))
  BY DEF Sound, Object, GoesOn

\* Another searcher.
LEMMA SoundSearcher ==
    ASSUME NEW b, Sound(b), NEW bs \in Searcher, NEW search \in Nat,
           b.mode = "items" =>
               bs.lo <= bs.hi /\ bs.hi < Len(b.all) /\ bs.current <= bs.hi
    PROVE  Sound([b EXCEPT !.search = search, !.bs = bs])
  BY DEF Sound, Object

LEMMA SoundNew == ASSUME NEW o \in Options PROVE Sound(NewState(o)) /\ (N > 1 => GoesOn(NewState(o)))
  <1> DEFINE b == NewState(o)
             all == [i \in 1 .. N |-> i]
  <1>1. N \in Nat \ {0}
    BY ItemAssumption
  <1>2. all \in Seq(Items) /\ Len(all) = N
    <2>1. all \in [1 .. N -> Items]
      BY DEF Items
    <2> QED
      BY <1>1, <2>1, SeqDef, LenProperties
  <1>3. NewSearcher(N) \in Searcher
    BY <1>1 DEF NewSearcher, Searcher
  <1>4. b \in Object
    BY <1>2, <1>3 DEF NewState, Object
  <1>5. b.all = all /\ b.bs = NewSearcher(N) /\ b.mode = "items" /\ b.known = {}
    BY DEF NewState
  <1>6. Permutes(all) /\ ListOf(all) = Items
    BY <1>1, <1>2 DEF Permutes, ListOf, Items
  <1>7. Sound(b)
    BY <1>1, <1>2, <1>4, <1>5, <1>6 DEF Sound, NewSearcher
  <1>8. N > 1 => GoesOn(b)
    <2>1. b.bs.lo = 0 /\ b.bs.hi = N - 1 /\ b.bs.skipped = {}
      BY <1>5 DEF NewSearcher
    <2>2. N > 1 => 0 \in Untested(b.bs)
      BY <1>1, <2>1 DEF Untested
    <2> QED
      BY <1>1, <1>5, <1>6, <2>1, <2>2 DEF GoesOn
  <1> QED
    BY <1>7, <1>8

LEMMA SoundLoaded ==
    ASSUME NEW b, Sound(b)
    PROVE  Sound(Loaded(b)) /\ (GoesOn(b) => GoesOn(Loaded(b)))
  BY DEF Sound, Object, GoesOn, Loaded

\* The list that Pruned makes: what follows the item, and the item.
Shifted(all, i) == SubSeq(all, i + 2, Len(all)) \o <<all[i + 1]>>

LEMMA PrunedItems ==
    ASSUME NEW all \in Seq(Items), NEW i \in Nat, i < Len(all) - 1
    PROVE  /\ Shifted(all, i) \in Seq(Items) /\ Len(Shifted(all, i)) = Len(all) - i
           /\ \A j \in 1 .. Len(all) - i - 1 : Shifted(all, i)[j] = all[i + 1 + j]
           /\ Shifted(all, i)[Len(all) - i] = all[i + 1]
  <1> DEFINE new == Shifted(all, i)
  <1>1. Len(all) \in Nat /\ \A j \in 1 .. Len(all) : all[j] \in Items
    BY LenProperties
  <1> DEFINE tail == SubSeq(all, i + 2, Len(all))
  <1>2. /\ tail \in Seq(Items) /\ Len(tail) = Len(all) - i - 1
        /\ \A j \in 1 .. Len(tail) : tail[j] = all[i + 1 + j]
    <2>1. \A j \in i + 2 .. Len(all) : all[j] \in Items
      BY <1>1
    <2>2. i + 2 \in 1 .. Len(all) + 1 /\ Len(all) \in 0 .. Len(all)
      BY <1>1
    <2>3. tail = [j \in 1 .. Len(all) - i - 1 |-> all[i + 1 + j]]
      BY <1>1
    <2>4. \A j \in 1 .. Len(all) - i - 1 : all[i + 1 + j] \in Items
      BY <1>1
    <2> HIDE DEF tail
    <2>5. tail \in [1 .. Len(all) - i - 1 -> Items]
      BY <2>3, <2>4
    <2>6. \A j \in 1 .. Len(all) - i - 1 : tail[j] = all[i + 1 + j]
      BY <2>3
    <2>7. Len(all) - i - 1 \in Nat
      BY <1>1
    <2>8. tail \in Seq(Items) /\ Len(tail) = Len(all) - i - 1
      BY <2>5, <2>7
    <2> QED
      BY <2>6, <2>8
  <1>3. all[i + 1] \in Items
    BY <1>1
  <1> HIDE DEF tail, new
  <1>4. /\ new \in Seq(Items) /\ Len(new) = Len(all) - i
        /\ \A j \in 1 .. Len(all) - i - 1 : new[j] = all[i + 1 + j]
        /\ new[Len(all) - i] = all[i + 1]
    <2>1. new = tail \o <<all[i + 1]>>
      BY DEF tail, new, Shifted
    <2>2. <<all[i + 1]>> \in Seq(Items) /\ Len(<<all[i + 1]>>) = 1
      BY <1>3
    <2>3. new \in Seq(Items) /\ Len(new) = Len(tail) + 1
      BY ONLY <1>2, <2>1, <2>2, ConcatProperties
    <2>4. \A j \in 1 .. Len(tail) : new[j] = tail[j]
      BY ONLY <1>2, <2>1, <2>2, ConcatProperties
    <2>5. new[Len(tail) + 1] = all[i + 1]
      BY ONLY <1>2, <2>1, <2>2, ConcatProperties
    <2>6. Len(tail) + 1 = Len(all) - i
      BY <1>1, <1>2
    <2> QED
      BY <1>2, <2>3, <2>4, <2>5, <2>6
  <1> QED
    BY <1>4 DEF new

LEMMA PrunedList ==
    ASSUME NEW all \in Seq(Items), Permutes(all), NEW i \in Nat, i < Len(all) - 1,
           NEW new, new = SubSeq(all, i + 2, Len(all)) \o <<all[i + 1]>>
    PROVE  /\ new \in Seq(Items) /\ Len(new) = Len(all) - i
           /\ \A j \in 1 .. Len(all) - i - 1 : new[j] = all[i + 1 + j]
           /\ new[Len(all) - i] = all[i + 1]
           /\ Permutes(new)
           /\ ListOf(new) = ListOf(all) \ {all[j] : j \in 1 .. i}
  <1>1. Len(all) \in Nat /\ \A j \in 1 .. Len(all) : all[j] \in Items
    BY LenProperties
  <1>4. /\ new \in Seq(Items) /\ Len(new) = Len(all) - i
        /\ \A j \in 1 .. Len(all) - i - 1 : new[j] = all[i + 1 + j]
        /\ new[Len(all) - i] = all[i + 1]
    <2>1. new = Shifted(all, i)
      BY Zenon DEF Shifted
    <2> QED
      BY ONLY <2>1, PrunedItems, all \in Seq(Items), i \in Nat, i < Len(all) - 1
  <1>5. Permutes(new)
    <2> SUFFICES ASSUME NEW j \in 1 .. Len(all) - i, NEW k \in 1 .. Len(all) - i, new[j] = new[k]
                 PROVE  j = k
      BY <1>4 DEF Permutes
    <2> DEFINE place(x) == IF x = Len(all) - i THEN i + 1 ELSE i + 1 + x
    <2>1. new[j] = all[place(j)] /\ new[k] = all[place(k)]
      <3> SUFFICES ASSUME NEW x \in 1 .. Len(all) - i PROVE new[x] = all[place(x)]
        OBVIOUS
      <3>1. CASE x = Len(all) - i
        BY <1>4, <3>1
      <3>2. CASE x # Len(all) - i
        <4>1. x \in 1 .. Len(all) - i - 1
          BY <1>1, <3>2
        <4> QED
          BY <1>4, <3>2, <4>1
      <3> QED
        BY <3>1, <3>2
    <2>2. place(j) \in 1 .. Len(all) /\ place(k) \in 1 .. Len(all)
      BY <1>1
    <2>3. place(j) = place(k)
      BY <2>1, <2>2 DEF Permutes
    <2> QED
      BY <1>1, <2>3
  <1>6. ListOf(new) = ListOf(all) \ {all[j] : j \in 1 .. i}
    <2>1. ASSUME NEW j \in 1 .. Len(all) - i
          PROVE  \E k \in i + 1 .. Len(all) : new[j] = all[k]
      <3>1. CASE j = Len(all) - i
        <4>1. i + 1 \in i + 1 .. Len(all)
          BY <1>1
        <4> QED
          BY <1>4, <3>1, <4>1
      <3>2. CASE j # Len(all) - i
        <4>1. i + 1 + j \in i + 1 .. Len(all) /\ j \in 1 .. Len(all) - i - 1
          BY <1>1, <3>2
        <4> QED
          BY <1>4, <4>1
      <3> QED
        BY <3>1, <3>2
    <2>2. ASSUME NEW k \in i + 1 .. Len(all)
          PROVE  \E j \in 1 .. Len(all) - i : new[j] = all[k]
      <3>1. CASE k = i + 1
        BY <1>1, <1>4, <3>1
      <3>2. CASE k # i + 1
        <4>1. k - (i + 1) \in 1 .. Len(all) - i - 1 /\ i + 1 + (k - (i + 1)) = k
          BY <1>1, <3>2
        <4>2. k - (i + 1) \in 1 .. Len(all) - i
          BY <1>1, <4>1
        <4> QED
          BY <1>4, <4>1, <4>2
      <3> QED
        BY <3>1, <3>2
    <2>3. ASSUME NEW k \in i + 1 .. Len(all), NEW j \in 1 .. i, all[k] = all[j]
          PROVE  FALSE
      <3>1. k \in 1 .. Len(all) /\ j \in 1 .. Len(all) /\ j # k
        BY <1>1
      <3> QED
        BY <2>3, <3>1 DEF Permutes
    <2>4. ListOf(new) = {all[k] : k \in i + 1 .. Len(all)}
      <3>1. ListOf(new) = {new[j] : j \in 1 .. Len(all) - i}
        BY <1>4 DEF ListOf
      <3> QED
        <4>1. ASSUME NEW x \in ListOf(new) PROVE x \in {all[k] : k \in i + 1 .. Len(all)}
          <5>1. PICK j \in 1 .. Len(all) - i : x = new[j]
            BY <3>1
          <5> QED
            BY <2>1, <5>1
        <4>2. ASSUME NEW k \in i + 1 .. Len(all) PROVE all[k] \in ListOf(new)
          <5>1. PICK j \in 1 .. Len(all) - i : new[j] = all[k]
            BY <2>2
          <5> QED
            BY <3>1, <5>1
        <4> QED
          BY <4>1, <4>2
    <2>5. ListOf(all) = {all[k] : k \in i + 1 .. Len(all)} \cup {all[j] : j \in 1 .. i}
      BY <1>1 DEF ListOf
    <2> QED
      BY <2>3, <2>4, <2>5
  <1> QED
    BY <1>4, <1>5, <1>6

\* Two objects that differ in what they say has been switched.
SameSearch(b, c) ==
    /\ c.opts = b.opts /\ c.mode = b.mode /\ c.all = b.all /\ c.bs = b.bs
    /\ c.search = b.search /\ c.pruned = b.pruned /\ c.found = b.found
    /\ c.known = b.known /\ c.resumed = b.resumed

LEMMA SwitchFits ==
    ASSUME Sound(bss), world \in [Items -> {Good, Bad}], NEW items \in SUBSET Items,
           SwitchToGood(items) \/ SwitchToBad(items)
    PROVE  /\ Sound(bss') /\ (GoesOn(bss) => GoesOn(bss'))
           /\ SameSearch(bss, bss')
           /\ world' \in [Items -> {Good, Bad}]
  <1>1. /\ bss \in Object /\ bss.search \in Nat /\ bss.pruned \in Nat /\ bss.resumed \in BOOLEAN
        /\ bss.good \subseteq Items /\ bss.bad \subseteq Items
    BY SoundFields DEF Sound
  <1>2. PICK good \in SUBSET Items, gone \in SUBSET Items :
            bss' = [bss EXCEPT !.good = good, !.bad = gone]
    <2>1. ASSUME NEW s \in SUBSET items
          PROVE  /\ bss.good \cup s \in SUBSET Items /\ bss.good \ s \in SUBSET Items
                 /\ bss.bad \cup s \in SUBSET Items /\ bss.bad \ s \in SUBSET Items
      BY <1>1
    <2>2. ToSwitch(items, bss.good) \in SUBSET items /\ ToSwitch(items, bss.bad) \in SUBSET items
      BY DEF ToSwitch
    <2>3. CASE SwitchToGood(items)
      <3> DEFINE s == ToSwitch(items, bss.good)
      <3>1. bss' = [bss EXCEPT !.good = bss.good \cup s, !.bad = bss.bad \ s]
        BY <2>3 DEF SwitchToGood
      <3>2. bss.good \cup s \in SUBSET Items /\ bss.bad \ s \in SUBSET Items
        BY <2>1, <2>2
      <3> HIDE DEF s
      <3> QED
        BY <3>1, <3>2
    <2>4. CASE SwitchToBad(items)
      <3> DEFINE s == ToSwitch(items, bss.bad)
      <3>1. bss' = [bss EXCEPT !.bad = bss.bad \cup s, !.good = bss.good \ s]
        BY <2>4 DEF SwitchToBad
      <3>2. bss.bad \cup s \in SUBSET Items /\ bss.good \ s \in SUBSET Items
        BY <2>1, <2>2
      <3> HIDE DEF s
      <3>3. bss' = [bss EXCEPT !.good = bss.good \ s, !.bad = bss.bad \cup s]
        BY <1>1, <3>1 DEF Object
      <3> QED
        BY <3>2, <3>3
    <2> QED
      BY <2>3, <2>4
  <1>3. bss' = [bss EXCEPT !.search = bss.search, !.pruned = bss.pruned, !.good = good,
                           !.bad = gone, !.resumed = bss.resumed]
    BY <1>1, <1>2 DEF Object
  <1>4. SameSearch(bss, bss')
    BY <1>1, <1>2 DEF SameSearch, Object
  <1>5. Sound(bss') /\ (GoesOn(bss) => GoesOn(bss'))
    BY <1>1, <1>3, SoundElsewhere
  <1>6. world' \in [Items -> {Good, Bad}]
    BY DEF SwitchToGood, SwitchToBad, Switched
  <1> QED
    BY <1>4, <1>5, <1>6

\* The sets under test are sets of items.
LEMMA SetsAreItems ==
    ASSUME Sound(bss), bss.bs.current < Len(bss.all)
    PROVE  /\ BadItems \subseteq Items /\ GoodItems \subseteq Items
           /\ BadItems \cap GoodItems = BadItems \cap bss.known
           /\ bss.known = Items \ ListOf(bss.all) => BadItems = Items \ GoodItems
  <1>1. /\ bss.all \in [1 .. Len(bss.all) -> Items] /\ Len(bss.all) \in Nat
        /\ bss.bs.current \in Nat /\ bss.known \subseteq Items /\ Permutes(bss.all)
    BY SoundFields
  <1> DEFINE cur == bss.bs.current
  <1>2. BadItems = {bss.all[j] : j \in 1 .. cur + 1}
    BY DEF BadItems, UpTo
  <1>3. After(cur) = {bss.all[j] : j \in cur + 2 .. Len(bss.all)}
    BY DEF After
  <1>4. BadItems \cap After(cur) = {}
    <2> SUFFICES ASSUME NEW j \in 1 .. cur + 1, NEW k \in cur + 2 .. Len(bss.all),
                        bss.all[j] = bss.all[k]
                 PROVE  FALSE
      BY <1>2, <1>3
    <2>1. j \in 1 .. Len(bss.all) /\ k \in 1 .. Len(bss.all) /\ j # k
      BY <1>1
    <2> QED
      BY <1>1, <2>1 DEF Permutes
  <1>5. BadItems \cup After(cur) = ListOf(bss.all)
    <2>1. 1 .. Len(bss.all) = (1 .. cur + 1) \cup (cur + 2 .. Len(bss.all))
      BY <1>1
    <2> QED
      BY <1>2, <1>3, <2>1 DEF ListOf
  <1>6. ListOf(bss.all) \subseteq Items
    BY <1>1 DEF ListOf
  <1>7. GoodItems = After(cur) \cup bss.known
    BY DEF GoodItems
  <1> QED
    BY <1>1, <1>4, <1>5, <1>6, <1>7

\* The whole type invariant, from the objects and the rest.
Steps == Ends \cup {"verifygood", "verifybad", "outer", "iterate", "save",
                    "rename", "next", "good", "bad", "test", "prune",
                    "command", "passes", "passdone", "remove"}

SmallTypes ==
    /\ bad \in SUBSET Items /\ world \in [Items -> {Good, Bad}]
    /\ badPass \in Nat /\ badTrans \in Nat /\ skips \in Nat /\ starts \in Nat
    /\ tempLink \in BOOLEAN /\ passArg \in BOOLEAN
    /\ pc \in Steps /\ phase \in {"items", "pass", "transform"}
    /\ index \in Nat /\ report \in Seq(Nat)

SearchersSound == Sound(bss) /\ (state # NoState => Sound(state))

LEMMA TypesAre ==
    /\ SearchTypes <=> SmallTypes /\ SearchersSound
    /\ SearchTypes' <=> SmallTypes' /\ SearchersSound'
  BY DEF SearchTypes, TypeOK, SmallTypes, SearchersSound, Steps, Sound, ListOf

LEMMA AtWorkFits ==
    ASSUME Base
    PROVE  /\ pc \in {"good", "bad", "test"} /\ phase = "items" => bss.bs.current < Len(bss.all)
           /\ pc = "prune" => bss.bs.current < Len(bss.all)
  <1>1. Sound(bss) /\ Phases /\ Progress
    BY DEF Base, SearchTypes
  <1>2. bss.bs.lo \in Nat /\ bss.bs.hi \in Nat /\ bss.bs.current \in Nat /\ Len(bss.all) \in Nat
    BY <1>1, SoundFields
  <1>3. /\ pc \in {"good", "bad"} => bss.mode = "items" /\ phase = "items"
        /\ pc = "test" /\ phase = "items" => bss.mode = "items"
        /\ pc = "prune" => bss.mode = "items"
    BY <1>1 DEF Phases
  <1>4. bss.mode = "items" => bss.bs.hi < Len(bss.all) /\ bss.bs.current <= bss.bs.hi
    BY <1>1 DEF Sound
  <1> QED
    BY <1>2, <1>3, <1>4

LEMMA EnterFits ==
    ASSUME NEW b, Sound(b), NEW c, c = EnterSearch(b)
    PROVE  /\ Sound(c) /\ (GoesOn(b) => GoesOn(c))
           /\ c.search = (IF b.resumed THEN b.search ELSE 0) /\ c.resumed = FALSE
           /\ c.opts = b.opts /\ c.mode = b.mode /\ c.all = b.all /\ c.bs = b.bs
           /\ c.pruned = b.pruned /\ c.found = b.found /\ c.known = b.known
           /\ c.good = b.good /\ c.bad = b.bad
  <1>1. b \in Object /\ b.search \in Nat
    BY SoundFields DEF Sound
  <1>2. c = [b EXCEPT !.search = IF b.resumed THEN b.search ELSE 0, !.resumed = FALSE]
    BY DEF EnterSearch
  <1>3. /\ c.search = (IF b.resumed THEN b.search ELSE 0) /\ c.resumed = FALSE
        /\ c.opts = b.opts /\ c.mode = b.mode /\ c.all = b.all /\ c.bs = b.bs
        /\ c.pruned = b.pruned /\ c.found = b.found /\ c.known = b.known
        /\ c.good = b.good /\ c.bad = b.bad
    BY <1>1, <1>2 DEF Object
  <1>4. c \in Object
    <2> DEFINE n == IF b.resumed THEN b.search ELSE 0
    <2>1. n \in Nat
      BY <1>1
    <2>2. c = [b EXCEPT !.search = n, !.resumed = FALSE]
      BY <1>2
    <2> HIDE DEF n
    <2> QED
      BY <1>1, <2>1, <2>2 DEF Object
  <1> QED
    BY <1>3, <1>4 DEF Sound, GoesOn

\* The object with another searcher and another count.
With(b, search, bs) == [b EXCEPT !.search = search, !.bs = bs]

LEMMA SearcherFits ==
    ASSUME NEW b, Sound(b), NEW bs \in Searcher, NEW search \in Nat,
           b.mode = "items" =>
               bs.lo <= bs.hi /\ bs.hi < Len(b.all) /\ bs.current <= bs.hi,
           NEW c, c = With(b, search, bs)
    PROVE  /\ Sound(c) /\ c.bs = bs /\ c.search = search
           /\ c.opts = b.opts /\ c.mode = b.mode /\ c.all = b.all
           /\ c.pruned = b.pruned /\ c.found = b.found /\ c.known = b.known
           /\ c.good = b.good /\ c.bad = b.bad /\ c.resumed = b.resumed
  <1>1. b \in Object
    BY DEF Sound
  <1>2. /\ c.bs = bs /\ c.search = search
        /\ c.opts = b.opts /\ c.mode = b.mode /\ c.all = b.all
        /\ c.pruned = b.pruned /\ c.found = b.found /\ c.known = b.known
        /\ c.good = b.good /\ c.bad = b.bad /\ c.resumed = b.resumed
    BY <1>1 DEF Object, With
  <1> QED
    BY <1>2, SoundSearcher DEF With

LEMMA NextItemFits ==
    ASSUME NEW b, Sound(b), b.mode = "items", GoesOn(b),
           NEW c, c = With(b, b.search + 1, GetNext(b.bs))
    PROVE  /\ Sound(c) /\ c.search = b.search + 1 /\ c.bs = GetNext(b.bs)
           /\ c.bs.lo = b.bs.lo /\ c.bs.hi = b.bs.hi /\ c.bs.skipped = b.bs.skipped
           /\ c.bs.current \in c.bs.lo .. c.bs.hi - 1
           /\ b.bs.skipped = {} => c.bs.current = Middle(c.bs.lo, c.bs.hi)
           /\ c.opts = b.opts /\ c.mode = b.mode /\ c.all = b.all
           /\ c.pruned = b.pruned /\ c.found = b.found /\ c.known = b.known
           /\ c.good = b.good /\ c.bad = b.bad /\ c.resumed = b.resumed
  <1>1. b \in Object /\ b.search \in Nat /\ b.bs \in Searcher
        /\ b.bs.lo \in Nat /\ b.bs.hi \in Nat
    BY SoundFields DEF Sound
  <1>2. b.bs.lo < b.bs.hi /\ Untested(b.bs) # {} /\ b.bs.hi < Len(b.all) /\ Len(b.all) \in Nat
    BY SoundFields DEF GoesOn, Sound
  <1> DEFINE bs == GetNext(b.bs)
             n == b.search + 1
  <1>3. /\ bs \in Searcher /\ bs.lo = b.bs.lo /\ bs.hi = b.bs.hi
        /\ bs.skipped = b.bs.skipped /\ bs.current \in bs.lo .. bs.hi - 1
        /\ b.bs.skipped = {} => bs.current = Middle(bs.lo, bs.hi)
    BY <1>1, <1>2, GetNextFits
  <1>4. c = With(b, n, bs)
    OBVIOUS
  <1>5. bs.lo <= bs.hi /\ bs.hi < Len(b.all) /\ bs.current <= bs.hi
    BY <1>1, <1>2, <1>3
  <1>6. n \in Nat
    BY <1>1
  <1> HIDE DEF bs, n
  <1>7. /\ Sound(c) /\ c.bs = bs /\ c.search = n
        /\ c.opts = b.opts /\ c.mode = b.mode /\ c.all = b.all
        /\ c.pruned = b.pruned /\ c.found = b.found /\ c.known = b.known
        /\ c.good = b.good /\ c.bad = b.bad /\ c.resumed = b.resumed
    BY <1>3, <1>4, <1>5, <1>6, SearcherFits
  <1> QED
    BY <1>3, <1>7 DEF bs, n

LEMMA PassSearcherFits ==
    ASSUME NEW s \in Searcher
    PROVE  /\ \A total \in Nat : GetNextPass(s, total) \in Searcher
           /\ \A status \in {Good, Bad, Skip} : SetStatusPass(s, status) \in Searcher
  <1>1. s.lo \in Nat /\ s.hi \in Nat /\ s.current \in Nat
    BY DEF Searcher
  <1>2. ASSUME NEW total \in Nat PROVE GetNextPass(s, total) \in Searcher
    <2> DEFINE hi == IF s.hi = 0 THEN total ELSE s.hi
    <2>1. hi \in Nat /\ Middle(hi, s.lo) \in Nat
      BY <1>1 DEF Middle
    <2> QED
      BY <2>1 DEF GetNextPass, Searcher
  <1>3. ASSUME NEW status \in {Good, Bad, Skip} PROVE SetStatusPass(s, status) \in Searcher
    BY <1>1 DEF SetStatusPass, Searcher
  <1> QED
    BY <1>2, <1>3

LEMMA PrunedFits ==
    ASSUME Sound(bss), bss.mode = "items", bss.opts.prune,
           NEW i, i = bss.bs.current, i # Len(bss.all) - 1,
           NEW c, c = Pruned(i)
    PROVE  /\ Sound(c) /\ GoesOn(c) /\ Len(c.all) > 1
           /\ i \in Nat /\ i < Len(bss.all) - 1
           /\ c.opts = bss.opts /\ c.mode = bss.mode /\ c.search = bss.search
           /\ c.resumed = bss.resumed /\ c.good = bss.good /\ c.bad = bss.bad
           /\ c.pruned = bss.pruned + 1 /\ c.found = bss.found \cup {bss.all[i + 1]}
           /\ c.known = bss.known \cup {bss.all[j] : j \in 1 .. i}
           /\ c.all = SubSeq(bss.all, i + 2, Len(bss.all)) \o <<bss.all[i + 1]>>
           /\ c.bs = NewSearcher(Len(c.all))
  <1>1. /\ bss \in Object /\ bss.all \in Seq(Items) /\ bss.all \in [1 .. Len(bss.all) -> Items]
        /\ Len(bss.all) \in 1 .. N /\ bss.pruned \in Nat /\ i \in Nat /\ bss.bs.hi \in Nat
        /\ bss.found \subseteq Items /\ bss.known \subseteq Items /\ Permutes(bss.all) /\ N \in Nat
    BY SoundFields, ItemAssumption DEF Sound
  <1>2. i <= bss.bs.hi /\ bss.bs.hi < Len(bss.all) /\ bss.known = Items \ ListOf(bss.all)
    BY DEF Sound
  <1>3. i < Len(bss.all) - 1
    BY <1>1, <1>2
  <1> DEFINE new == SubSeq(bss.all, i + 2, Len(bss.all)) \o <<bss.all[i + 1]>>
             good == {bss.all[j] : j \in 1 .. i}
  <1>4. /\ new \in Seq(Items) /\ Len(new) = Len(bss.all) - i /\ Permutes(new)
        /\ ListOf(new) = ListOf(bss.all) \ good
    <2>1. /\ new = SubSeq(bss.all, i + 2, Len(bss.all)) \o <<bss.all[i + 1]>>
          /\ good = {bss.all[j] : j \in 1 .. i}
      OBVIOUS
    <2> HIDE DEF new
    <2>2. /\ new \in Seq(Items) /\ Len(new) = Len(bss.all) - i /\ Permutes(new)
          /\ ListOf(new) = ListOf(bss.all) \ good
      <3>1. bss.all \in Seq(Items) /\ Permutes(bss.all) /\ i \in Nat /\ i < Len(bss.all) - 1
        BY <1>1, <1>3
      <3> QED
        BY ONLY <3>1, <2>1, PrunedList, Zenon
    <2> QED
      BY <2>2
  <1>5. good \subseteq Items /\ bss.all[i + 1] \in Items
    BY <1>1, <1>3
  <1>6. c = [bss EXCEPT !.pruned = bss.pruned + 1, !.found = bss.found \cup {bss.all[i + 1]},
                        !.known = bss.known \cup good, !.all = new, !.bs = NewSearcher(Len(new))]
    BY <1>1 DEF Pruned, Object
  <1>7. good \subseteq ListOf(bss.all)
    <2>1. 1 .. i \subseteq 1 .. Len(bss.all)
      BY <1>1, <1>3
    <2> QED
      BY <2>1 DEF ListOf
  <1>8. bss.known \cup good = Items \ ListOf(new)
    BY <1>2, <1>4, <1>5, <1>7
  <1> HIDE DEF new, good
  <1>9. /\ NewSearcher(Len(new)) \in Searcher /\ NewSearcher(Len(new)).lo = 0
        /\ NewSearcher(Len(new)).hi = Len(new) - 1 /\ NewSearcher(Len(new)).current = 0
        /\ NewSearcher(Len(new)).skipped = {} /\ Len(new) \in 2 .. N
    BY <1>1, <1>3, <1>4 DEF NewSearcher, Searcher
  <1>10. /\ c.opts = bss.opts /\ c.mode = bss.mode /\ c.search = bss.search
         /\ c.resumed = bss.resumed /\ c.good = bss.good /\ c.bad = bss.bad
         /\ c.pruned = bss.pruned + 1 /\ c.found = bss.found \cup {bss.all[i + 1]}
         /\ c.known = bss.known \cup good /\ c.all = new /\ c.bs = NewSearcher(Len(new))
    BY <1>1, <1>6 DEF Object
  <1>11. /\ bss.pruned + 1 \in Nat /\ bss.found \cup {bss.all[i + 1]} \in SUBSET Items
         /\ bss.known \cup good \in SUBSET Items
    BY <1>1, <1>5
  <1>12. c \in Object
    <2> DEFINE n == bss.pruned + 1
               found == bss.found \cup {bss.all[i + 1]}
               known == bss.known \cup good
               bs == NewSearcher(Len(new))
    <2>1. /\ n \in Nat /\ found \in SUBSET Items /\ known \in SUBSET Items /\ bs \in Searcher
          /\ new \in Seq(Items) /\ bss \in Object
      BY <1>1, <1>4, <1>9, <1>11
    <2>2. c = [bss EXCEPT !.pruned = n, !.found = found, !.known = known, !.all = new, !.bs = bs]
      BY <1>6
    <2> HIDE DEF n, found, known, bs
    <2> QED
      BY ONLY <2>1, <2>2 DEF Object
  <1>13. Sound(c)
    <2>1. c.bs.lo <= c.bs.hi /\ c.bs.hi < Len(c.all) /\ c.bs.current <= c.bs.hi
      BY <1>9, <1>10
    <2> QED
      BY <1>4, <1>8, <1>9, <1>10, <1>12, <2>1 DEF Sound
  <1>14. GoesOn(c)
    <2>1. 0 \in Untested(c.bs)
      BY <1>9, <1>10 DEF Untested
    <2> QED
      BY <1>8, <1>9, <1>10, <2>1 DEF GoesOn
  <1> QED
    <2>1. Len(c.all) > 1
      BY <1>1, <1>9, <1>10
    <2> QED
      BY <1>1, <1>3, <1>10, <1>13, <1>14, <2>1, Zenon DEF new, good

-----------------------------------------------------------------------------
(* What the actions do to the object *)

\* All but the searcher and the count is kept.
KeepsRest(b, c) ==
    /\ c.opts = b.opts /\ c.mode = b.mode /\ c.all = b.all /\ c.pruned = b.pruned
    /\ c.found = b.found /\ c.known = b.known
    /\ c.good = b.good /\ c.bad = b.bad /\ c.resumed = b.resumed

SwitchActions == VerifyGood \/ VerifyBad \/ SwitchGoodItems \/ SwitchBadItems

LEMMA BaseFacts ==
    ASSUME Base
    PROVE  /\ Sound(bss) /\ (state # NoState => Sound(state))
           /\ SmallTypes /\ Phases /\ Progress
           /\ bss \in Object
  BY TypesAre DEF Base, SearchersSound, Sound

LEMMA SwitchEffect ==
    ASSUME Base, SwitchActions
    PROVE  /\ Sound(bss') /\ (GoesOn(bss) => GoesOn(bss'))
           /\ SameSearch(bss, bss') /\ world' \in [Items -> {Good, Bad}]
  <1>1. Sound(bss) /\ world \in [Items -> {Good, Bad}] /\ Items \in SUBSET Items
    BY BaseFacts DEF SmallTypes
  <1>2. pc \in {"good", "bad"} => BadItems \in SUBSET Items /\ GoodItems \in SUBSET Items
    <2>1. pc \in {"good", "bad"} => bss.bs.current < Len(bss.all)
      BY BaseFacts, AtWorkFits DEF Phases
    <2> QED
      BY <1>1, <2>1, SetsAreItems
  <1>3. ASSUME UNCHANGED <<world, bss>>
        PROVE  /\ Sound(bss') /\ (GoesOn(bss) => GoesOn(bss'))
               /\ SameSearch(bss, bss') /\ world' \in [Items -> {Good, Bad}]
    BY <1>1, <1>3 DEF SameSearch
  <1>4. CASE VerifyGood
    BY <1>1, <1>3, <1>4, SwitchFits DEF VerifyGood
  <1>5. CASE VerifyBad
    BY <1>1, <1>5, SwitchFits DEF VerifyBad
  <1>6. CASE SwitchGoodItems
    BY <1>1, <1>2, <1>6, SwitchFits DEF SwitchGoodItems
  <1>7. CASE SwitchBadItems
    BY <1>1, <1>2, <1>7, SwitchFits DEF SwitchBadItems
  <1> QED
    BY <1>4, <1>5, <1>6, <1>7 DEF SwitchActions

LEMMA OuterEffect ==
    ASSUME Base, Outer
    PROVE  \/ pc' = "iterate" /\ Len(bss.all) > 1 /\ bss.pruned < PruneIterations
              /\ bss' = EnterSearch(bss) /\ Sound(bss') /\ GoesOn(bss')
           \/ pc' = "command" /\ (Len(bss.all) <= 1 \/ bss.pruned >= PruneIterations) /\ bss' = bss
  <1>1. Sound(bss) /\ (Len(bss.all) > 1 => GoesOn(bss))
    BY BaseFacts DEF Outer, Progress
  <1>2. Len(bss.all) \in Nat /\ bss.pruned \in Nat /\ PruneIterations \in Nat
    BY <1>1, SoundFields, ItemAssumption
  <1>3. CASE Len(bss.all) > 1 /\ bss.pruned < PruneIterations
    <2>1. bss' = EnterSearch(bss) /\ pc' = "iterate"
      BY <1>3 DEF Outer, Goto
    <2>2. Sound(bss') /\ (GoesOn(bss) => GoesOn(bss'))
      BY <1>1, <2>1, EnterFits
    <2> QED
      BY <1>1, <1>3, <2>1, <2>2
  <1>4. CASE ~(Len(bss.all) > 1 /\ bss.pruned < PruneIterations)
    BY <1>2, <1>4 DEF Outer, Goto
  <1> QED
    BY <1>3, <1>4

\* The round that ends without a result counts.
LEMMA IterateEffect ==
    ASSUME Base, Iterate
    PROVE  /\ Sound(bss') /\ (GoesOn(bss) => GoesOn(bss'))
           /\ \/ pc' = "save" /\ bss.search < Iterations /\ bss' = bss
              \/ pc' = "command" /\ bss.search >= Iterations /\ phase = "items"
                 /\ bss'.pruned = bss.pruned + 1
                 /\ bss'.opts = bss.opts /\ bss'.mode = bss.mode /\ bss'.all = bss.all
                 /\ bss'.bs = bss.bs /\ bss'.search = bss.search /\ bss'.found = bss.found
                 /\ bss'.known = bss.known /\ bss'.good = bss.good /\ bss'.bad = bss.bad
                 /\ bss'.resumed = bss.resumed
              \/ pc' = "passdone" /\ bss.search >= Iterations /\ phase # "items" /\ bss' = bss
  <1>1. Sound(bss) /\ bss \in Object /\ bss.pruned \in Nat /\ bss.search \in Nat /\ Iterations \in Nat
    BY BaseFacts, SoundFields, ItemAssumption
  <1>2. CASE bss.search < Iterations \/ phase # "items"
    <2>1. bss' = bss /\ pc' = IF bss.search < Iterations THEN "save" ELSE "passdone"
      BY <1>2 DEF Iterate, Goto
    <2>2. ~(bss.search < Iterations) => bss.search >= Iterations /\ phase # "items"
      BY <1>1, <1>2
    <2> QED
      BY <1>1, <2>1, <2>2
  <1>3. CASE ~(bss.search < Iterations) /\ phase = "items"
    <2>1. bss' = [bss EXCEPT !.pruned = bss.pruned + 1] /\ pc' = "command"
      BY <1>1, <1>3 DEF Iterate, Goto, Object
    <2> DEFINE n == bss.pruned + 1
    <2>2. n \in Nat /\ bss' = [bss EXCEPT !.pruned = n]
      BY <1>1, <2>1
    <2> HIDE DEF n
    <2>3. /\ bss'.pruned = n
          /\ bss'.opts = bss.opts /\ bss'.mode = bss.mode /\ bss'.all = bss.all
          /\ bss'.bs = bss.bs /\ bss'.search = bss.search /\ bss'.found = bss.found
          /\ bss'.known = bss.known /\ bss'.good = bss.good /\ bss'.bad = bss.bad
          /\ bss'.resumed = bss.resumed /\ bss' \in Object
      BY <1>1, <2>2 DEF Object
    <2>4. Sound(bss') /\ (GoesOn(bss) => GoesOn(bss'))
      BY <1>1, <2>3 DEF Sound, GoesOn
    <2> QED
      BY <1>1, <1>3, <2>1, <2>3, <2>4 DEF n
  <1> QED
    BY <1>2, <1>3

LEMMA NextItemEffect ==
    ASSUME Base, NextItem
    PROVE  /\ Sound(bss') /\ KeepsRest(bss, bss') /\ bss'.search = bss.search + 1
           /\ \/ /\ bss.mode = "items" /\ pc' = "good" /\ GoesOn(bss)
                 /\ bss'.bs = GetNext(bss.bs)
                 /\ bss'.bs.lo = bss.bs.lo /\ bss'.bs.hi = bss.bs.hi
                 /\ bss'.bs.skipped = bss.bs.skipped
                 /\ bss'.bs.current \in bss'.bs.lo .. bss'.bs.hi - 1
                 /\ bss.bs.skipped = {} => bss'.bs.current = Middle(bss'.bs.lo, bss'.bs.hi)
              \/ bss.mode # "items" /\ pc' = "raised"
  <1>1. /\ Sound(bss) /\ bss \in Object /\ GoesOn(bss) /\ bss.search + 1 \in Nat
        /\ bss.bs \in Searcher
    BY BaseFacts, SoundFields DEF NextItem, Progress, Inside
  <1>2. CASE bss.mode = "items"
    <2>1. bss' = With(bss, bss.search + 1, GetNext(bss.bs)) /\ pc' = "good"
      BY <1>1, <1>2 DEF NextItem, With, Goto, Object
    <2> QED
      BY <1>1, <1>2, <2>1, NextItemFits DEF KeepsRest
  <1>3. CASE bss.mode # "items"
    <2>1. bss' = With(bss, bss.search + 1, bss.bs) /\ pc' = "raised"
      BY <1>1, <1>3 DEF NextItem, With, Goto, Object
    <2> QED
      BY <1>1, <1>3, <2>1, SearcherFits DEF KeepsRest
  <1> QED
    BY <1>2, <1>3

LEMMA TestItemsEffect ==
    ASSUME Base, TestItems
    PROVE  \E status \in {Good, Bad, Skip} :
              LET s == bss.bs
                  t == bss'.bs
              IN  /\ Answers(status, ItemStatus)
                  /\ bss.mode = "items" /\ Sound(bss') /\ KeepsRest(bss, bss')
                  /\ bss'.search = bss.search
                  /\ pc' = IF Terminated(t) THEN "prune" ELSE "iterate"
                  /\ pc' = "iterate" => GoesOn(bss')
                  /\ t.lo <= t.hi /\ t.hi <= s.hi /\ s.lo <= t.lo /\ t.current <= t.hi
                  /\ status # Skip => t.skipped = s.skipped /\ t.current = Middle(t.lo, t.hi)
                  /\ status = Good => t.lo = s.current + 1 /\ t.hi = s.hi
                  /\ status = Bad => t.lo = s.lo /\ t.hi = s.current
  <1>1. /\ Sound(bss) /\ bss \in Object /\ bss.mode = "items" /\ bss.search \in Nat
        /\ bss.bs \in Searcher /\ bss.bs.current \in bss.bs.lo .. bss.bs.hi - 1
        /\ bss.known = Items \ ListOf(bss.all) /\ bss.bs.hi \in Nat /\ Len(bss.all) \in Nat
    BY BaseFacts, SoundFields DEF TestItems, Phases, Progress, AtWork
  <1>2. PICK status \in {Good, Bad, Skip} :
            /\ Answers(status, ItemStatus)
            /\ bss' = [bss EXCEPT !.bs = SetStatus(bss.bs, status)]
            /\ pc' = IF Terminated(SetStatus(bss.bs, status)) THEN "prune" ELSE "iterate"
    BY DEF TestItems, Goto
  <1> DEFINE t == SetStatus(bss.bs, status)
  <1>3. /\ t \in Searcher
        /\ t.lo <= t.hi /\ t.hi <= bss.bs.hi /\ bss.bs.lo <= t.lo /\ t.current <= t.hi
        /\ status # Skip => t.skipped = bss.bs.skipped /\ t.current = Middle(t.lo, t.hi)
        /\ status = Good => t.lo = bss.bs.current + 1 /\ t.hi = bss.bs.hi
        /\ status = Bad => t.lo = bss.bs.lo /\ t.hi = bss.bs.current
    BY <1>1, SetStatusFits
  <1>4. bss' = With(bss, bss.search, t)
    BY <1>1, <1>2 DEF With, Object
  <1>5. pc' = IF Terminated(t) THEN "prune" ELSE "iterate"
    BY <1>2
  <1> HIDE DEF t
  <1>6. bss.bs.hi < Len(bss.all)
    BY <1>1 DEF Sound
  <1>7. t.lo \in Nat /\ t.hi \in Nat /\ t.hi < Len(bss.all)
    BY <1>1, <1>3, <1>6 DEF Searcher
  <1>8. Sound(bss') /\ bss'.bs = t /\ bss'.search = bss.search /\ KeepsRest(bss, bss')
    BY <1>1, <1>3, <1>4, <1>7, SearcherFits DEF KeepsRest
  <1>9. pc' = "iterate" => GoesOn(bss')
    BY <1>1, <1>3, <1>5, <1>7, <1>8 DEF GoesOn, KeepsRest, Terminated
  <1> QED
    BY <1>1, <1>2, <1>3, <1>5, <1>8, <1>9

LEMMA PruneEffect ==
    ASSUME Base, Prune, NEW i, i = bss.bs.current
    PROVE  /\ Sound(bss') /\ bss.mode = "items" /\ phase = "items"
           /\ i \in Nat /\ i < Len(bss.all)
           /\ bss'.opts = bss.opts /\ bss'.mode = bss.mode /\ bss'.search = bss.search
           /\ bss'.resumed = bss.resumed /\ bss'.good = bss.good /\ bss'.bad = bss.bad
           /\ bss'.pruned = bss.pruned + 1 /\ bss'.found = bss.found \cup {bss.all[i + 1]}
           /\ \/ /\ i = Len(bss.all) - 1 \/ bss.all[i + 1] \in bss.found \/ ~bss.opts.prune
                 /\ pc' = "command" /\ bss'.all = bss.all /\ bss'.bs = bss.bs
                 /\ bss'.known = IF i = Len(bss.all) - 1 \/ bss.all[i + 1] \in bss.found THEN bss.known
                                 ELSE bss.known \cup {bss.all[j] : j \in 1 .. i}
              \/ /\ i # Len(bss.all) - 1 /\ bss.all[i + 1] \notin bss.found /\ bss.opts.prune
                 /\ pc' = "outer" /\ GoesOn(bss') /\ Len(bss'.all) > 1
                 /\ bss'.known = bss.known \cup {bss.all[j] : j \in 1 .. i}
                 /\ bss'.all = SubSeq(bss.all, i + 2, Len(bss.all)) \o <<bss.all[i + 1]>>
                 /\ bss'.bs = NewSearcher(Len(bss'.all))
  <1>1. /\ Sound(bss) /\ bss \in Object /\ bss.mode = "items" /\ phase = "items"
        /\ bss.opts.prune \in BOOLEAN /\ i \in Nat /\ i < Len(bss.all) /\ bss.pruned \in Nat
        /\ bss.all \in [1 .. Len(bss.all) -> Items] /\ Len(bss.all) \in Nat
        /\ bss.found \subseteq Items /\ bss.known \subseteq Items
    BY BaseFacts, SoundFields, AtWorkFits DEF Prune, Phases
  <1> DEFINE below == {bss.all[j] : j \in 1 .. i}
             last == i = Len(bss.all) - 1
             seen == bss.all[i + 1] \in bss.found
  <1>2. bss.all[i + 1] \in Items /\ below \subseteq Items
    BY <1>1
  <1>3. CASE last \/ seen \/ ~bss.opts.prune
    <2>1. /\ bss' = [bss EXCEPT !.pruned = @ + 1, !.found = @ \cup {bss.all[i + 1]},
                                !.known = IF last \/ seen THEN @ ELSE @ \cup below]
          /\ pc' = "command"
      BY <1>3, Zenon DEF Prune, Goto
    <2> DEFINE n == bss.pruned + 1
               known == IF last \/ seen THEN bss.known ELSE bss.known \cup below
               found == bss.found \cup {bss.all[i + 1]}
    <2>2. bss' = [bss EXCEPT !.pruned = n, !.found = found, !.known = known]
      BY <1>1, <2>1 DEF Object
    <2>3. n \in Nat /\ known \in SUBSET Items /\ found \in SUBSET Items
      BY <1>1, <1>2
    <2>4. bss.opts.prune => known = bss.known
      BY <1>3
    <2> HIDE DEF n, known, found
    <2>5. /\ bss'.opts = bss.opts /\ bss'.mode = bss.mode /\ bss'.search = bss.search
          /\ bss'.resumed = bss.resumed /\ bss'.good = bss.good /\ bss'.bad = bss.bad
          /\ bss'.pruned = n /\ bss'.found = found /\ bss'.known = known
          /\ bss'.all = bss.all /\ bss'.bs = bss.bs /\ bss' \in Object
      BY <1>1, <2>2, <2>3 DEF Object
    <2>6. Sound(bss')
      BY <1>1, <2>4, <2>5 DEF Sound
    <2> QED
      BY <1>1, <1>3, <2>1, <2>5, <2>6 DEF n, known, found
  <1>4. CASE ~(last \/ seen) /\ bss.opts.prune
    <2>1. bss' = Pruned(i) /\ pc' = "outer"
      BY <1>1, <1>4, Zenon DEF Prune, Goto
    <2>2. PICK c : c = bss'
      OBVIOUS
    <2>3. /\ Sound(bss) /\ bss.mode = "items" /\ bss.opts.prune /\ i = bss.bs.current
          /\ i # Len(bss.all) - 1 /\ c = Pruned(i)
      BY <1>1, <1>4, <2>1, <2>2
    <2>4. /\ Sound(c) /\ GoesOn(c) /\ Len(c.all) > 1
          /\ c.opts = bss.opts /\ c.mode = bss.mode /\ c.search = bss.search
          /\ c.resumed = bss.resumed /\ c.good = bss.good /\ c.bad = bss.bad
          /\ c.pruned = bss.pruned + 1 /\ c.found = bss.found \cup {bss.all[i + 1]}
          /\ c.known = bss.known \cup {bss.all[j] : j \in 1 .. i}
          /\ c.all = SubSeq(bss.all, i + 2, Len(bss.all)) \o <<bss.all[i + 1]>>
          /\ c.bs = NewSearcher(Len(c.all))
      BY ONLY <2>3, PrunedFits, ZenonT(60)
    <2> QED
      BY <1>1, <1>4, <2>1, <2>2, <2>4, Zenon
  <1> QED
    BY <1>1, <1>3, <1>4

LEMMA StartEffect ==
    ASSUME Base, NEW p \in {"pass", "transform"}, bss.opts.pass, StartPhase(p)
    PROVE  /\ Sound(bss') /\ phase' = p /\ index' = 0 /\ pc' = "iterate"
           /\ bss'.search = (IF bss.resumed THEN bss.search ELSE 0) /\ bss'.resumed = FALSE
           /\ bss'.opts = bss.opts /\ bss'.mode = p /\ bss'.all = bss.all
           /\ bss'.bs = NewPassSearcher
           /\ bss'.pruned = bss.pruned /\ bss'.found = bss.found /\ bss'.known = bss.known
           /\ bss'.good = bss.good /\ bss'.bad = bss.bad
  <1> DEFINE e == EnterSearch(bss)
  <1>1. Sound(bss)
    BY BaseFacts
  <1>2. /\ Sound(e) /\ e.opts = bss.opts /\ e.all = bss.all
        /\ e.search = (IF bss.resumed THEN bss.search ELSE 0) /\ e.resumed = FALSE
        /\ e.pruned = bss.pruned /\ e.found = bss.found /\ e.known = bss.known
        /\ e.good = bss.good /\ e.bad = bss.bad
    BY <1>1, EnterFits
  <1>3. /\ bss' = [e EXCEPT !.mode = p, !.bs = NewPassSearcher]
        /\ phase' = p /\ index' = 0 /\ pc' = "iterate"
    BY DEF StartPhase, Goto
  <1> HIDE DEF e
  <1>4. NewPassSearcher \in Searcher
    BY DEF NewPassSearcher, Searcher
  <1>5. e \in Object
    BY <1>2 DEF Sound
  <1>6. /\ bss' \in Object /\ bss'.mode = p /\ bss'.bs = NewPassSearcher /\ bss'.opts = e.opts
        /\ bss'.all = e.all /\ bss'.search = e.search /\ bss'.resumed = e.resumed
        /\ bss'.pruned = e.pruned /\ bss'.found = e.found /\ bss'.known = e.known
        /\ bss'.good = e.good /\ bss'.bad = e.bad
    BY <1>3, <1>4, <1>5 DEF Object
  <1>7. p # "items"
    OBVIOUS
  <1>8. Sound(bss')
    BY <1>2, <1>6, <1>7 DEF Sound
  <1> QED
    BY <1>2, <1>3, <1>6, <1>8

LEMMA NextPassEffect ==
    ASSUME Base, NextPass
    PROVE  /\ Sound(bss') /\ KeepsRest(bss, bss') /\ bss'.search = bss.search + 1
           /\ bss'.bs = GetNextPass(bss.bs, Total) /\ index' = bss'.bs.current
           /\ index' \in Nat /\ pc' = "test" /\ bss.mode # "items"
  <1>1. /\ Sound(bss) /\ bss \in Object /\ bss.mode # "items" /\ bss.search + 1 \in Nat
        /\ bss.bs \in Searcher
    BY BaseFacts, SoundFields DEF NextPass, Phases
  <1>2. Total \in Nat
    BY PassAssumption DEF Total
  <1>3. GetNextPass(bss.bs, Total) \in Searcher
    BY <1>1, <1>2, PassSearcherFits
  <1>4. bss' = With(bss, bss.search + 1, GetNextPass(bss.bs, Total)) /\ pc' = "test"
        /\ index' = bss'.bs.current
    BY <1>1 DEF NextPass, With, Goto, Object
  <1>5. /\ Sound(bss') /\ KeepsRest(bss, bss') /\ bss'.search = bss.search + 1
        /\ bss'.bs = GetNextPass(bss.bs, Total)
    BY <1>1, <1>3, <1>4, SearcherFits DEF KeepsRest
  <1> QED
    BY <1>1, <1>3, <1>4, <1>5 DEF Searcher

LEMMA TestPassEffect ==
    ASSUME Base, TestPass
    PROVE  /\ Sound(bss') /\ KeepsRest(bss, bss') /\ bss'.search = bss.search
           /\ bss.mode # "items"
           /\ \E status \in {Good, Bad, Skip} :
                 /\ Answers(status, PassStatus)
                 /\ bss'.bs = SetStatusPass(bss.bs, status)
                 /\ pc' = IF TerminatedPass(bss'.bs) THEN "passdone" ELSE "iterate"
  <1>1. /\ Sound(bss) /\ bss \in Object /\ bss.mode # "items" /\ bss.search \in Nat
        /\ bss.bs \in Searcher
    BY BaseFacts, SoundFields DEF TestPass, Phases
  <1>2. PICK status \in {Good, Bad, Skip} :
            /\ Answers(status, PassStatus)
            /\ bss' = [bss EXCEPT !.bs = SetStatusPass(bss.bs, status)]
            /\ pc' = IF TerminatedPass(SetStatusPass(bss.bs, status)) THEN "passdone" ELSE "iterate"
    BY DEF TestPass, Goto
  <1>3. SetStatusPass(bss.bs, status) \in Searcher
    BY <1>1, PassSearcherFits
  <1>4. bss' = With(bss, bss.search, SetStatusPass(bss.bs, status))
    BY <1>1, <1>2 DEF With, Object
  <1>5. /\ Sound(bss') /\ KeepsRest(bss, bss') /\ bss'.search = bss.search
        /\ bss'.bs = SetStatusPass(bss.bs, status)
    BY <1>1, <1>3, <1>4, SearcherFits DEF KeepsRest
  <1> QED
    BY <1>1, <1>2, <1>5

LEMMA ResumeEffect ==
    ASSUME Base, Resume
    PROVE  \/ state = NoState /\ pc' = "refused" /\ bss' = bss
           \/ /\ state # NoState /\ pc' = "outer" /\ bss' = Loaded(state)
              /\ Sound(bss') /\ GoesOn(bss') /\ bss'.resumed = TRUE
              /\ bss'.good = {} /\ bss'.bad = {}
              /\ bss'.opts = state.opts /\ bss'.mode = state.mode /\ bss'.all = state.all
              /\ bss'.bs = state.bs /\ bss'.search = state.search /\ bss'.found = state.found
              /\ bss'.known = state.known /\ bss'.pruned = state.pruned
  <1>1. CASE state = NoState
    BY <1>1 DEF Resume, Goto
  <1>2. CASE state # NoState
    <2>1. Sound(state) /\ GoesOn(state) /\ state \in Object
      BY <1>2, BaseFacts DEF Progress, Sound
    <2>2. bss' = Loaded(state) /\ pc' = "outer"
      BY <1>2 DEF Resume, Goto
    <2>3. Sound(bss') /\ GoesOn(bss')
      BY <2>1, <2>2, SoundLoaded
    <2>4. /\ bss'.resumed = TRUE
          /\ bss'.good = {} /\ bss'.bad = {}
          /\ bss'.opts = state.opts /\ bss'.mode = state.mode /\ bss'.all = state.all
          /\ bss'.bs = state.bs /\ bss'.search = state.search /\ bss'.found = state.found
          /\ bss'.known = state.known /\ bss'.pruned = state.pruned
      BY <2>1, <2>2 DEF Loaded, Object
    <2> QED
      BY <1>2, <2>2, <2>3, <2>4
  <1> QED
    BY <1>1, <1>2

LEMMA StartAgainEffect ==
    ASSUME Base, StartAgain
    PROVE  \E o \in Options : /\ bss' = NewState(o) /\ Sound(bss') /\ passArg' = o.pass
                              /\ N > 1 => GoesOn(bss')
                              /\ pc' = "verifygood"
  BY SoundNew DEF StartAgain, Goto

-----------------------------------------------------------------------------
(* Types, phases and progress *)

\* The actions by what they do to the object; the state file is only written
\* by two of them.
LEMMA Actions ==
    ASSUME Next
    PROVE  \/ SwitchActions \/ Outer \/ Iterate \/ NextItem \/ TestItems \/ Prune
           \/ StartPasses \/ NextPass \/ TestPass \/ PassDone \/ Resume \/ StartAgain
           \/ Save \/ Rename \/ Command \/ RemoveState \/ Killed \/ Ended
  BY DEF Next, SwitchActions

LEMMA StateFile ==
    ASSUME Next
    PROVE  /\ state' = state \/ (Rename /\ state' = bss) \/ (RemoveState /\ state' = NoState)
           /\ bad' = bad
  BY DEF Next, VerifyGood, VerifyBad, Outer, Iterate, Save, Rename, NextItem,
         SwitchGoodItems, SwitchBadItems, TestItems, Prune, Command, StartPasses,
         NextPass, TestPass, PassDone, RemoveState, Killed, Resume, StartAgain, Ended,
         fileVars, envVars, vars

LEMMA ObjectsStep ==
    ASSUME Base, Next
    PROVE  SearchersSound'
  <1>1. Sound(bss) /\ (state # NoState => Sound(state)) /\ Phases
    BY BaseFacts
  <1>2. ASSUME bss' = bss PROVE Sound(bss')
    BY <1>1, <1>2
  <1>3. Sound(bss')
    <2>1. CASE SwitchActions
      BY <2>1, SwitchEffect
    <2>2. CASE Outer
      BY <1>2, <2>2, OuterEffect
    <2>3. CASE Iterate
      BY <2>3, IterateEffect
    <2>4. CASE NextItem
      BY <2>4, NextItemEffect
    <2>5. CASE TestItems
      BY <2>5, TestItemsEffect
    <2>6. CASE Prune
      BY <2>6, PruneEffect
    <2>7. CASE StartPasses
      <3>1. bss.opts.pass /\ StartPhase("pass")
        BY <1>1, <2>7 DEF StartPasses, Phases
      <3> QED
        BY <3>1, StartEffect
    <2>8. CASE NextPass
      BY <2>8, NextPassEffect
    <2>9. CASE TestPass
      BY <2>9, TestPassEffect
    <2>10. CASE PassDone
      <3>1. CASE StartPhase("transform")
        <4>1. bss.opts.pass
          BY <1>1, <2>10 DEF PassDone, Phases, Sound
        <4> QED
          BY <3>1, <4>1, StartEffect
      <3>2. CASE bss' = bss
        BY <1>2, <3>2
      <3> QED
        BY <2>10, <3>1, <3>2 DEF PassDone
    <2>11. CASE Resume
      BY <1>2, <2>11, ResumeEffect
    <2>12. CASE StartAgain
      BY <2>12, StartAgainEffect
    <2>13. CASE Save \/ Rename \/ Command \/ RemoveState \/ Killed \/ Ended
      BY <1>2, <2>13 DEF Save, Rename, Command, RemoveState, Killed, Ended, vars
    <2> QED
      BY <2>1, <2>2, <2>3, <2>4, <2>5, <2>6, <2>7, <2>8, <2>9, <2>10, <2>11, <2>12,
         <2>13, Actions
  <1>4. state' # NoState => Sound(state')
    BY <1>1, StateFile
  <1> QED
    BY <1>3, <1>4 DEF SearchersSound

LEMMA SwitchedFits ==
    ASSUME world \in [Items -> {Good, Bad}], NEW items, NEW status \in {Good, Bad}
    PROVE  Switched(items, status) \in [Items -> {Good, Bad}]
  BY DEF Switched

LEMMA SmallTypesStep ==
    ASSUME Base, Next
    PROVE  SmallTypes'
  <1>1. SmallTypes /\ Sound(bss)
    BY BaseFacts
  <1>2. CASE SwitchActions
    <2>1. world' \in [Items -> {Good, Bad}]
      BY <1>2, SwitchEffect
    <2>2. /\ UNCHANGED <<bad, badPass, badTrans, tempLink, starts, passArg, phase, index, report>>
          /\ pc' \in Steps /\ skips' \in Nat
      BY <1>1, <1>2 DEF SwitchActions, VerifyGood, VerifyBad, SwitchGoodItems, SwitchBadItems,
            Verified, Goto, Steps, Ends, SmallTypes, envVars, limitVars, fileVars, passVars
    <2> QED
      BY <1>1, <2>1, <2>2 DEF SmallTypes
  <1>3. CASE Outer \/ Iterate \/ Save \/ Rename \/ NextItem \/ Prune \/ Command \/ RemoveState
    <2>1. /\ UNCHANGED <<bad, world, badPass, badTrans, skips, starts, passArg, phase, index, report>>
          /\ tempLink' \in BOOLEAN /\ pc' \in Steps
      BY <1>1, <1>3 DEF Outer, Iterate, Save, Rename, NextItem, Prune, Command, RemoveState,
            Goto, Steps, Ends, SmallTypes, envVars, limitVars, fileVars, passVars
    <2> QED
      BY <1>1, <2>1 DEF SmallTypes
  <1>4. CASE TestItems \/ TestPass
    <2>1. /\ UNCHANGED <<bad, world, badPass, badTrans, tempLink, starts, passArg, phase, index, report>>
          /\ pc' \in Steps /\ skips' \in Nat
      BY <1>1, <1>4 DEF TestItems, TestPass, Answers,
            Goto, Steps, Ends, SmallTypes, envVars, limitVars, fileVars, passVars
    <2> QED
      BY <1>1, <2>1 DEF SmallTypes
  <1>5. CASE StartPasses
    <2>1. /\ UNCHANGED <<bad, world, skips, tempLink, starts, passArg, report>>
          /\ pc' \in Steps /\ phase' = "pass" /\ index' = 0
          /\ badPass' \in Nat /\ badTrans' \in Nat
      BY <1>1, <1>5, PassAssumption DEF StartPasses, StartPhase,
            Goto, Steps, Ends, SmallTypes, fileVars
    <2> QED
      BY <1>1, <2>1 DEF SmallTypes
  <1>6. CASE NextPass
    <2>1. /\ UNCHANGED <<bad, world, badPass, badTrans, skips, tempLink, starts, passArg, phase, report>>
          /\ pc' \in Steps
      BY <1>1, <1>6 DEF NextPass, Goto, Steps, Ends, SmallTypes, envVars, limitVars, fileVars
    <2>2. index' \in Nat
      BY <1>6, NextPassEffect
    <2> QED
      BY <1>1, <2>1, <2>2 DEF SmallTypes
  <1>7. CASE PassDone
    <2>1. /\ UNCHANGED <<bad, world, badPass, badTrans, skips, tempLink, starts, passArg>>
          /\ pc' \in Steps /\ phase' \in {"items", "pass", "transform"} /\ index' \in Nat
      BY <1>1, <1>7 DEF PassDone, StartPhase,
            Goto, Steps, Ends, SmallTypes, envVars, limitVars, fileVars
    <2>2. report' \in Seq(Nat)
      BY <1>1, <1>7 DEF PassDone, SmallTypes
    <2> QED
      BY <1>1, <2>1, <2>2 DEF SmallTypes
  <1>8. CASE Killed
    <2>1. /\ UNCHANGED <<bad, badPass, badTrans, skips, tempLink, starts, passArg, phase, index, report>>
          /\ pc' \in Steps
      BY <1>8 DEF Killed, Goto, Steps, Ends, envVars, limitVars, fileVars, passVars
    <2>2. world' \in [Items -> {Good, Bad}]
      BY <1>1, <1>8, SwitchedFits DEF Killed, SmallTypes
    <2> QED
      BY <1>1, <2>1, <2>2 DEF SmallTypes
  <1>9. CASE Resume \/ StartAgain
    <2>1. /\ UNCHANGED <<bad, badPass, badTrans, skips, tempLink>>
          /\ pc' \in Steps /\ phase' = "items" /\ index' = 0 /\ report' = <<>>
          /\ starts' = starts - 1 /\ starts > 0 /\ Disturbed
      BY <1>9 DEF Resume, StartAgain, Goto, Steps, Ends, envVars, limitVars, fileVars
    <2>2. passArg' \in BOOLEAN
      <3>1. CASE Resume
        BY <3>1 DEF Resume
      <3>2. CASE StartAgain
        <4>1. PICK o \in Options : passArg' = o.pass
          BY <3>2 DEF StartAgain
        <4> QED
          BY <4>1, OptionAssumption
      <3> QED
        BY <1>9, <3>1, <3>2
    <2>3. world' \in [Items -> {Good, Bad}]
      BY <1>1, <2>1 DEF Disturbed, SmallTypes
    <2> QED
      BY <1>1, <2>1, <2>2, <2>3 DEF SmallTypes
  <1>10. CASE Ended
    BY <1>1, <1>10 DEF Ended, vars, envVars, limitVars, fileVars, passVars, SmallTypes
  <1> QED
    BY <1>2, <1>3, <1>4, <1>5, <1>6, <1>7, <1>8, <1>9, <1>10, Actions

LEMMA PhasesStep ==
    ASSUME Base, Next
    PROVE  Phases'
  <1>1. Phases /\ Sound(bss) /\ phase \in {"items", "pass", "transform"}
    BY BaseFacts DEF SmallTypes
  <1>2. CASE SwitchActions
    <2>1. bss'.mode = bss.mode
      BY <1>2, SwitchEffect DEF SameSearch
    <2>2. /\ phase' = phase /\ pc' \in {"verifybad", "outer", "raised", "bad", "test"}
          /\ pc \in {"verifygood", "verifybad", "good", "bad"}
      BY <1>2 DEF SwitchActions, VerifyGood, VerifyBad, SwitchGoodItems, SwitchBadItems,
            Verified, Goto, passVars
    <2> QED
      BY <1>1, <2>1, <2>2 DEF Phases
  <1>3. CASE Outer
    <2>1. bss'.mode = bss.mode
      BY <1>1, <1>3, OuterEffect, EnterFits
    <2>2. phase' = phase /\ pc = "outer" /\ pc' \in {"iterate", "command"}
      BY <1>3 DEF Outer, Goto, passVars
    <2> QED
      BY <1>1, <2>1, <2>2 DEF Phases
  <1>4. CASE Iterate
    <2>1. bss'.mode = bss.mode
      BY <1>4, IterateEffect
    <2>2. /\ phase' = phase /\ pc' \in {"save", "command", "passdone"}
          /\ pc' = "command" => phase = "items"
          /\ pc' = "passdone" => phase # "items"
      BY <1>4 DEF Iterate, Goto, passVars
    <2> QED
      BY <1>1, <2>1, <2>2 DEF Phases
  <1>5. CASE NextItem
    <2>1. bss'.mode = bss.mode /\ (pc' = "good" => bss.mode = "items")
      BY <1>5, NextItemEffect DEF KeepsRest
    <2>2. phase' = phase /\ phase = "items" /\ pc' \in {"good", "raised"}
      BY <1>5 DEF NextItem, Goto, passVars
    <2> QED
      BY <1>1, <2>1, <2>2 DEF Phases
  <1>6. CASE TestItems
    <2>1. bss'.mode = bss.mode /\ bss.mode = "items"
      BY <1>6, TestItemsEffect DEF KeepsRest
    <2>2. phase' = phase /\ phase = "items" /\ pc' \in {"prune", "iterate"}
      BY <1>6 DEF TestItems, Goto, passVars
    <2> QED
      BY <1>1, <2>1, <2>2 DEF Phases
  <1>7. CASE Prune
    <2>1. bss'.mode = bss.mode /\ phase = "items"
      BY <1>7, PruneEffect
    <2>2. phase' = phase /\ pc' \in {"command", "outer"}
      BY <1>7 DEF Prune, Goto, passVars
    <2> QED
      BY <1>1, <2>1, <2>2 DEF Phases
  <1>8. CASE Command
    <2>1. /\ phase' = phase /\ bss' = bss /\ pc' \in {"raised", "remove", "passes"}
          /\ pc = "command" /\ (pc' = "passes" => bss.opts.pass)
      BY <1>8 DEF Command, Goto, passVars
    <2> QED
      BY <1>1, <2>1 DEF Phases
  <1>9. ASSUME NEW p \in {"pass", "transform"}, StartPhase(p), bss.opts.pass
        PROVE  Phases'
    BY <1>9, StartEffect DEF Phases
  <1>10. CASE StartPasses
    BY <1>1, <1>9, <1>10 DEF StartPasses, Phases
  <1>11. CASE PassDone
    <2>1. CASE StartPhase("transform")
      <3>1. bss.opts.pass
        BY <1>1, <1>11 DEF PassDone, Phases, Sound
      <3> QED
        BY <1>9, <2>1, <3>1
    <2>2. CASE UNCHANGED <<bss, phase>> /\ pc' \in {"raised", "remove"}
      BY <1>1, <2>2 DEF Phases
    <2> QED
      BY <1>11, <2>1, <2>2 DEF PassDone, Goto
  <1>12. CASE NextPass
    <2>1. bss'.mode = bss.mode
      BY <1>12, NextPassEffect DEF KeepsRest
    <2>2. phase' = phase /\ phase # "items" /\ pc' = "test"
      BY <1>12 DEF NextPass, Goto
    <2> QED
      BY <1>1, <2>1, <2>2 DEF Phases
  <1>13. CASE TestPass
    <2>1. bss'.mode = bss.mode
      BY <1>13, TestPassEffect DEF KeepsRest
    <2>2. phase' = phase /\ phase # "items" /\ pc' \in {"passdone", "iterate"}
      BY <1>13 DEF TestPass, Goto, passVars
    <2> QED
      BY <1>1, <2>1, <2>2 DEF Phases
  <1>14. CASE Resume
    <2>1. phase' = "items" /\ pc' \in {"refused", "outer"}
      BY <1>14 DEF Resume, Goto
    <2> QED
      BY <2>1 DEF Phases
  <1>15. CASE StartAgain
    <2>1. phase' = "items" /\ pc' = "verifygood"
      BY <1>15 DEF StartAgain, Goto
    <2>2. bss'.mode = "items"
      BY <1>15, StartAgainEffect DEF NewState
    <2> QED
      BY <2>1, <2>2 DEF Phases
  <1>16. CASE Save \/ Rename \/ RemoveState \/ Killed
    <2>1. /\ phase' = phase /\ bss' = bss
          /\ pc' \in {"rename", "raised", "next", "done", "killed"}
      BY <1>16 DEF Save, Rename, RemoveState, Killed, Goto, passVars
    <2> QED
      BY <1>1, <2>1 DEF Phases
  <1>17. CASE Ended
    BY <1>1, <1>17 DEF Ended, vars, passVars, Phases
  <1> QED
    BY <1>2, <1>3, <1>4, <1>5, <1>6, <1>7, <1>8, <1>10, <1>11, <1>12, <1>13, <1>14, <1>15,
       <1>16, <1>17, Actions

LEMMA ProgressStep ==
    ASSUME Base, Next
    PROVE  Progress'
  <1>1. Progress /\ Phases /\ Sound(bss) /\ phase \in {"items", "pass", "transform"}
    BY BaseFacts DEF SmallTypes
  <1>2. state' # NoState => GoesOn(state')
    <2>1. CASE state' = state \/ (RemoveState /\ state' = NoState)
      BY <1>1, <2>1 DEF Progress
    <2>2. CASE Rename /\ state' = bss
      <3>1. CASE phase = "items"
        BY <1>1, <2>2, <3>1 DEF Progress, Rename, Inside
      <3>2. CASE phase # "items"
        BY <1>1, <2>2, <3>2 DEF Phases, GoesOn
      <3> QED
        BY <3>1, <3>2
    <2> QED
      BY <2>1, <2>2, StateFile
  <1> DEFINE AtTest == pc' \in {"good", "bad", "test"} /\ phase' = "items" =>
                           bss'.bs.current \in bss'.bs.lo .. bss'.bs.hi - 1
             Known == pc' \in AtWork /\ phase' = "items" => bss'.known = Items \ ListOf(bss'.all)
             In == /\ pc' \in Inside /\ phase' = "items" => GoesOn(bss')
                   /\ pc' \in {"verifygood", "verifybad", "outer"} /\ Len(bss'.all) > 1 => GoesOn(bss')
             PruneLast == pc' = "prune" => Terminated(bss'.bs)
  <1>3. CASE SwitchActions
    <2>1. SameSearch(bss, bss') /\ (GoesOn(bss) => GoesOn(bss'))
      BY <1>3, SwitchEffect
    <2>2. /\ phase' = phase
          /\ \/ pc' \in {"verifybad", "outer"} /\ pc \in {"verifygood", "verifybad"}
             \/ pc' = "raised"
             \/ pc' \in {"bad", "test"} /\ pc \in {"good", "bad"}
      BY <1>3 DEF SwitchActions, VerifyGood, VerifyBad, SwitchGoodItems, SwitchBadItems,
            Verified, Goto, passVars
    <2>3. AtTest /\ Known
      BY <1>1, <2>1, <2>2 DEF SameSearch, Progress, AtWork
    <2>4. In
      BY <1>1, <2>1, <2>2 DEF SameSearch, Progress, Inside
    <2>5. PruneLast
      BY <2>2
    <2> QED
      BY <1>2, <2>3, <2>4, <2>5 DEF Progress
  <1>4. CASE Outer
    <2>1. pc' \in {"iterate", "command"} /\ (pc' = "iterate" => GoesOn(bss'))
      BY <1>4, OuterEffect
    <2> QED
      BY <1>2, <2>1 DEF Progress, AtWork, Inside
  <1>5. CASE Iterate
    <2>1. /\ pc' \in {"save", "command", "passdone"} /\ (GoesOn(bss) => GoesOn(bss'))
      BY <1>5, IterateEffect
    <2>2. pc = "iterate" /\ phase' = phase
      BY <1>5 DEF Iterate, passVars
    <2>3. In
      BY <1>1, <2>1, <2>2 DEF Progress, Inside
    <2>4. AtTest /\ Known /\ PruneLast
      BY <2>1 DEF AtWork
    <2> QED
      BY <1>2, <2>3, <2>4 DEF Progress
  <1>6. CASE NextItem
    <2>1. /\ pc' \in {"good", "raised"} /\ KeepsRest(bss, bss')
          /\ pc' = "good" => /\ bss'.bs.current \in bss'.bs.lo .. bss'.bs.hi - 1
                             /\ GoesOn(bss) /\ bss.mode = "items"
      BY <1>6, NextItemEffect
    <2> QED
      BY <1>2, <2>1 DEF Progress, AtWork, Inside, GoesOn, KeepsRest
  <1>7. CASE TestItems
    <2>1. /\ pc' = IF Terminated(bss'.bs) THEN "prune" ELSE "iterate"
          /\ pc' = "iterate" => GoesOn(bss')
          /\ KeepsRest(bss, bss')
      BY <1>7, TestItemsEffect
    <2>2. bss.known = Items \ ListOf(bss.all)
      BY <1>1, <1>7 DEF TestItems, Progress, AtWork
    <2>3. Known
      BY <2>1, <2>2 DEF KeepsRest
    <2>4. In
      BY <2>1 DEF Inside
    <2>5. AtTest /\ PruneLast
      BY <2>1
    <2> QED
      BY <1>2, <2>3, <2>4, <2>5 DEF Progress
  <1>8. CASE Prune
    <2>1. pc' \in {"command", "outer"} /\ (pc' = "outer" => GoesOn(bss'))
      BY <1>8, PruneEffect
    <2> QED
      BY <1>2, <2>1 DEF Progress, Inside, AtWork
  <1>9. ASSUME phase' # "items" PROVE Progress'
    <2>1. pc' \notin {"verifygood", "verifybad", "outer", "prune"}
      BY <1>9, PhasesStep DEF Phases
    <2> QED
      BY <1>2, <1>9, <2>1 DEF Progress
  <1>10. CASE StartPasses \/ NextPass \/ TestPass
    <2>1. phase' # "items"
      BY <1>10 DEF StartPasses, StartPhase, NextPass, TestPass, passVars
    <2> QED
      BY <1>9, <2>1
  <1>11. CASE PassDone
    <2>1. phase' # "items"
      BY <1>1, <1>11 DEF PassDone, StartPhase, Phases
    <2> QED
      BY <1>9, <2>1
  <1>12. CASE Resume
    <2>1. pc' \in {"refused", "outer"} /\ (pc' = "outer" => GoesOn(bss'))
      BY <1>12, ResumeEffect
    <2> QED
      BY <1>2, <2>1 DEF Progress, Inside, AtWork
  <1>13. CASE StartAgain
    <2>1. pc' = "verifygood"
      BY <1>13, StartAgainEffect
    <2>2. Len(bss'.all) > 1 => GoesOn(bss')
      <3>1. Len(bss'.all) > 1 => N > 1
        <4>1. Sound(bss')
          BY <1>13, StartAgainEffect
        <4>2. Len(bss'.all) \in 1 .. N
          BY <4>1 DEF Sound
        <4> QED
          BY <4>2, ItemAssumption
      <3> QED
        BY <1>13, <3>1, StartAgainEffect
    <2> QED
      BY <1>2, <2>1, <2>2 DEF Progress, Inside, AtWork
  <1>14. CASE Save \/ Rename
    <2>1. /\ phase' = phase /\ bss' = bss /\ pc \in Inside
          /\ pc' \in {"rename", "raised", "next"}
      BY <1>14 DEF Save, Rename, Goto, passVars, Inside
    <2> QED
      BY <1>1, <1>2, <2>1 DEF Progress, Inside, AtWork
  <1>15. CASE Command \/ RemoveState \/ Killed \/ Ended
    <2>1. pc' \in Ends \cup {"remove", "passes"}
      BY <1>15 DEF Command, RemoveState, Killed, Ended, Goto, Ends, vars
    <2> QED
      BY <1>2, <2>1 DEF Progress, Inside, AtWork, Ends
  <1> QED
    BY <1>3, <1>4, <1>5, <1>6, <1>7, <1>8, <1>10, <1>11, <1>12, <1>13, <1>14, <1>15, Actions

LEMMA BaseInit == ASSUME Init PROVE Base
  <1>1. PICK o \in Options : bss = NewState(o) /\ passArg = o.pass
    BY DEF Init
  <1>2. Sound(bss) /\ (N > 1 => GoesOn(bss)) /\ bss.mode = "items"
    BY <1>1, SoundNew DEF NewState
  <1>3. SmallTypes
    <2>1. passArg \in BOOLEAN
      BY <1>1, OptionAssumption
    <2>2. starts \in Nat /\ skips \in Nat
      BY ItemAssumption DEF Init
    <2>3. bad \in SUBSET Items /\ world \in [Items -> {Good, Bad}]
      BY DEF Init
    <2>4. /\ badPass \in Nat /\ badTrans \in Nat /\ tempLink \in BOOLEAN
          /\ pc \in Steps /\ phase \in {"items", "pass", "transform"}
          /\ index \in Nat
      BY DEF Init, Steps, Ends
    <2>5. report \in Seq(Nat)
      <3>1. report = <<>>
        BY DEF Init
      <3>2. << >> \in Seq(Nat)
        OBVIOUS
      <3> QED
        BY ONLY <3>1, <3>2
    <2> QED
      BY <2>1, <2>2, <2>3, <2>4, <2>5 DEF SmallTypes
  <1>4. SearchersSound
    BY <1>2 DEF Init, SearchersSound
  <1>5. Phases
    BY <1>2 DEF Init, Phases
  <1>6. Progress
    <2>1. Len(bss.all) \in 1 .. N
      BY <1>2 DEF Sound
    <2> QED
      BY <1>2, <2>1, ItemAssumption DEF Init, Progress, Inside, AtWork
  <1> QED
    BY <1>3, <1>4, <1>5, <1>6, TypesAre DEF Base

LEMMA BaseStep ==
    ASSUME Base, [Next]_vars
    PROVE  Base'
  <1>1. CASE Next
    BY <1>1, ObjectsStep, SmallTypesStep, PhasesStep, ProgressStep, TypesAre DEF Base
  <1>2. CASE UNCHANGED vars
    <2>1. Ended \/ UNCHANGED <<bad, badPass, badTrans, world, skips, state, tempLink, starts,
                               pc, bss, passArg, phase, index, report>>
      BY <1>2 DEF vars, envVars, limitVars, fileVars, passVars
    <2> QED
      BY <1>2 DEF Base, SearchTypes, TypeOK, Phases, Progress, vars, envVars, limitVars,
                  fileVars, passVars
  <1> QED
    BY <1>1, <1>2

-----------------------------------------------------------------------------
(* The sets under test, and the saved search *)

\* What the object says about how the items are set is true.
AsSwitched(b, w) == (\A i \in b.good : w[i] = Good) /\ (\A i \in b.bad : w[i] = Bad)

\* While items are switched and tested: those that have been switched are set
\* as they should be, and so is what the object says has been switched.
Sets ==
    /\ pc \notin Ends => AsSwitched(bss, world)
    /\ pc \in {"bad", "test"} /\ phase = "items" => \A i \in GoodItems : world[i] = Good
    /\ pc = "test" /\ phase = "items" => \A i \in BadItems : world[i] = Bad

\* While the next items are looked for, the state file has this very search.
SavedSearch ==
    /\ pc = "next" /\ phase = "items" => state = bss
    /\ ResumePoint

SetsInv == Base /\ Sets /\ SavedSearch

LEMMA SwitchSets ==
    ASSUME Sound(bss), world \in [Items -> {Good, Bad}], AsSwitched(bss, world),
           NEW items \in SUBSET Items
    PROVE  /\ SwitchToGood(items) => /\ AsSwitched(bss', world')
                                     /\ \A i \in items : world'[i] = Good
                                     /\ \A i \in Items \ items : world'[i] = world[i]
           /\ SwitchToBad(items) => /\ AsSwitched(bss', world')
                                    /\ \A i \in items : world'[i] = Bad
                                    /\ \A i \in Items \ items : world'[i] = world[i]
  <1>1. bss \in Object /\ bss.good \subseteq Items /\ bss.bad \subseteq Items
    BY SoundFields DEF Sound
  <1>2. ASSUME SwitchToGood(items)
        PROVE  /\ AsSwitched(bss', world')
               /\ \A i \in items : world'[i] = Good
               /\ \A i \in Items \ items : world'[i] = world[i]
    <2> DEFINE s == ToSwitch(items, bss.good)
    <2>1. /\ s \subseteq items /\ items \ s \subseteq bss.good
      BY DEF ToSwitch
    <2>2. /\ bss' = [bss EXCEPT !.good = bss.good \cup s, !.bad = bss.bad \ s]
          /\ world' = [i \in Items |-> IF i \in s THEN Good ELSE world[i]]
      BY <1>2 DEF SwitchToGood, Switched
    <2> HIDE DEF s
    <2>3. bss'.good = bss.good \cup s /\ bss'.bad = bss.bad \ s
      BY <1>1, <2>2 DEF Object
    <2> QED
      BY <1>1, <2>1, <2>2, <2>3 DEF AsSwitched
  <1>3. ASSUME SwitchToBad(items)
        PROVE  /\ AsSwitched(bss', world')
               /\ \A i \in items : world'[i] = Bad
               /\ \A i \in Items \ items : world'[i] = world[i]
    <2> DEFINE s == ToSwitch(items, bss.bad)
    <2>1. /\ s \subseteq items /\ items \ s \subseteq bss.bad
      BY DEF ToSwitch
    <2>2. /\ bss' = [bss EXCEPT !.bad = bss.bad \cup s, !.good = bss.good \ s]
          /\ world' = [i \in Items |-> IF i \in s THEN Bad ELSE world[i]]
      BY <1>3 DEF SwitchToBad, Switched
    <2> HIDE DEF s
    <2>3. bss'.bad = bss.bad \cup s /\ bss'.good = bss.good \ s
      BY <1>1, <2>2 DEF Object
    <2> QED
      BY <1>1, <2>1, <2>2, <2>3 DEF AsSwitched
  <1> QED
    BY <1>2, <1>3

LEMMA SameSets ==
    ASSUME SameSearch(bss, bss')
    PROVE  /\ GoodItems' = GoodItems /\ BadItems' = BadItems
  BY DEF SameSearch, GoodItems, BadItems, UpTo, After

LEMMA SetsStep ==
    ASSUME Base, Sets, Next
    PROVE  Sets'
  <1>1. Sound(bss) /\ world \in [Items -> {Good, Bad}] /\ Items \in SUBSET Items
    BY BaseFacts DEF SmallTypes
  <1>2. ASSUME AsSwitched(bss', world') \/ pc' \in Ends,
               pc' \notin {"bad", "test"} \/ phase' # "items"
        PROVE  Sets'
    BY <1>2 DEF Sets
  <1>3. ASSUME bss'.good = bss.good, bss'.bad = bss.bad, world' = world, pc \notin Ends
        PROVE  AsSwitched(bss', world')
    BY <1>3 DEF Sets, AsSwitched
  <1>4. CASE VerifyGood \/ VerifyBad
    <2>1. AsSwitched(bss, world)
      BY <1>4 DEF VerifyGood, VerifyBad, Sets, Ends
    <2>2. AsSwitched(bss', world')
      <3>1. CASE SwitchToGood(Items) \/ SwitchToBad(Items)
        BY <1>1, <2>1, <3>1, SwitchSets
      <3>2. CASE UNCHANGED <<world, bss>>
        BY <2>1, <3>2
      <3> QED
        BY <1>4, <3>1, <3>2 DEF VerifyGood, VerifyBad
    <2>3. pc' \in {"verifybad", "outer", "raised"}
      BY <1>4 DEF VerifyGood, VerifyBad, Verified, Goto
    <2> QED
      BY <1>2, <2>2, <2>3
  <1>5. CASE SwitchGoodItems
    <2>1. pc = "good" /\ pc' = "bad" /\ SwitchToGood(GoodItems) /\ AsSwitched(bss, world)
      BY <1>5 DEF SwitchGoodItems, Goto, Sets, Ends
    <2>2. GoodItems \in SUBSET Items
      BY <1>1, <2>1, BaseFacts, AtWorkFits, SetsAreItems DEF Phases
    <2>3. AsSwitched(bss', world') /\ \A i \in GoodItems : world'[i] = Good
      BY <1>1, <2>1, <2>2, SwitchSets
    <2>4. GoodItems' = GoodItems
      BY <1>5, SwitchEffect, SameSets DEF SwitchActions
    <2> QED
      BY <2>1, <2>3, <2>4 DEF Sets
  <1>6. CASE SwitchBadItems
    <2>1. /\ pc = "bad" /\ pc' = "test" /\ SwitchToBad(BadItems) /\ AsSwitched(bss, world)
          /\ phase = "items" /\ \A i \in GoodItems : world[i] = Good
      BY <1>6, BaseFacts DEF SwitchBadItems, Goto, Sets, Ends, Phases
    <2>2. BadItems \in SUBSET Items /\ GoodItems \in SUBSET Items /\ BadItems = Items \ GoodItems
      BY <1>1, <2>1, BaseFacts, AtWorkFits, SetsAreItems DEF Progress, AtWork
    <2>3. /\ AsSwitched(bss', world') /\ \A i \in BadItems : world'[i] = Bad
          /\ \A i \in Items \ BadItems : world'[i] = world[i]
      BY <1>1, <2>1, <2>2, SwitchSets
    <2>4. \A i \in GoodItems : world'[i] = Good
      BY <2>1, <2>2, <2>3
    <2>5. GoodItems' = GoodItems /\ BadItems' = BadItems
      BY <1>6, SwitchEffect, SameSets DEF SwitchActions
    <2> QED
      BY <2>3, <2>4, <2>5 DEF Sets
  <1>7. CASE Outer \/ Iterate
    <2>1. bss'.good = bss.good /\ bss'.bad = bss.bad
      BY <1>1, <1>7, OuterEffect, IterateEffect, EnterFits
    <2>2. /\ world' = world /\ pc \notin Ends /\ pc' \notin {"bad", "test"}
      BY <1>7 DEF Outer, Iterate, Goto, Ends
    <2> QED
      BY <1>2, <1>3, <2>1, <2>2
  <1>8. CASE NextItem \/ TestItems \/ NextPass \/ TestPass
    <2>1. bss'.good = bss.good /\ bss'.bad = bss.bad
      BY <1>8, NextItemEffect, TestItemsEffect, NextPassEffect, TestPassEffect DEF KeepsRest
    <2>2. /\ world' = world /\ pc \notin Ends /\ (pc' \notin {"bad", "test"} \/ phase' # "items")
      BY <1>8 DEF NextItem, TestItems, NextPass, TestPass, Goto, Ends, passVars
    <2> QED
      BY <1>2, <1>3, <2>1, <2>2
  <1>9. CASE Prune
    <2>1. bss'.good = bss.good /\ bss'.bad = bss.bad /\ pc' \in {"command", "outer"}
      BY <1>9, PruneEffect
    <2>2. world' = world /\ pc \notin Ends
      BY <1>9 DEF Prune, Ends
    <2> QED
      BY <1>2, <1>3, <2>1, <2>2
  <1>10. CASE StartPasses \/ PassDone
    <2>1. bss'.good = bss.good /\ bss'.bad = bss.bad
      <3>1. ASSUME NEW p \in {"pass", "transform"}, StartPhase(p), bss.opts.pass
            PROVE  bss'.good = bss.good /\ bss'.bad = bss.bad
        BY <3>1, StartEffect
      <3>2. bss.opts.pass
        BY <1>1, <1>10, BaseFacts DEF StartPasses, PassDone, Phases, Sound
      <3> QED
        BY <1>10, <3>1, <3>2 DEF StartPasses, PassDone
    <2>2. world' = world /\ pc \notin Ends /\ pc' \notin {"bad", "test"}
      BY <1>10 DEF StartPasses, PassDone, StartPhase, Goto, Ends
    <2> QED
      BY <1>2, <1>3, <2>1, <2>2
  <1>11. CASE Resume
    <2>1. pc' = "refused" \/ (pc' = "outer" /\ bss'.good = {} /\ bss'.bad = {})
      BY <1>11, ResumeEffect
    <2> QED
      BY <1>2, <2>1 DEF Ends, AsSwitched
  <1>12. CASE StartAgain
    <2>1. pc' = "verifygood" /\ bss'.good = {} /\ bss'.bad = {}
      BY <1>12, StartAgainEffect DEF NewState
    <2> QED
      BY <1>2, <2>1 DEF AsSwitched
  <1>13. CASE Save \/ Rename \/ Command \/ RemoveState
    <2>1. bss' = bss /\ world' = world /\ pc \notin Ends /\ pc' \notin {"bad", "test"}
      BY <1>13 DEF Save, Rename, Command, RemoveState, Goto, Ends
    <2> QED
      BY <1>2, <1>3, <2>1
  <1>14. CASE Killed \/ Ended
    <2>1. pc' \in Ends
      BY <1>14 DEF Killed, Ended, Goto, Ends, vars
    <2> QED
      BY <1>2, <2>1 DEF Ends
  <1> QED
    BY <1>4, <1>5, <1>6, <1>7, <1>8, <1>9, <1>10, <1>11, <1>12, <1>13, <1>14, Actions
       DEF SwitchActions

\* GetNext of the saved search is the search under test, all along.
LEMMA SavedSearchStep ==
    ASSUME Base, SavedSearch, Next
    PROVE  SavedSearch'
  <1>1. Sound(bss) /\ bss \in Object /\ bss # NoState
    BY BaseFacts, SoundFields
  <1>2. CASE Rename
    BY <1>2 DEF Rename, Goto, SavedSearch, ResumePoint
  <1>3. CASE NextItem
    <2>1. CASE pc' = "good"
      <3>1. state' = bss
        BY <1>3 DEF NextItem, SavedSearch, fileVars
      <3>2. KeepsRest(bss, bss') /\ bss'.bs = GetNext(bss.bs)
        BY <1>3, <2>1, NextItemEffect
      <3>3. \A f \in {"all", "found", "known", "pruned"} : state'[f] = bss'[f]
        BY <3>1, <3>2 DEF KeepsRest
      <3> QED
        BY <1>1, <2>1, <3>1, <3>2, <3>3 DEF SavedSearch, ResumePoint
    <2>2. CASE pc' = "raised"
      BY <2>2 DEF SavedSearch, ResumePoint
    <2> QED
      BY <1>3, <2>1, <2>2, NextItemEffect
  <1>4. CASE SwitchGoodItems \/ SwitchBadItems
    <2>1. pc \in {"good", "bad"} /\ pc' \in {"bad", "test"} /\ UNCHANGED <<phase, state>>
      BY <1>4 DEF SwitchGoodItems, SwitchBadItems, Goto, passVars, fileVars
    <2>2. SameSearch(bss, bss')
      BY <1>4, SwitchEffect DEF SwitchActions
    <2>3. \A f \in {"all", "found", "known", "pruned"} : bss'[f] = bss[f]
      BY <2>2 DEF SameSearch
    <2> QED
      BY <2>1, <2>2, <2>3 DEF SavedSearch, ResumePoint, SameSearch
  <1>5. ASSUME pc' \notin {"next", "good", "bad", "test"} \/ phase' # "items" PROVE SavedSearch'
    BY <1>5 DEF SavedSearch, ResumePoint
  <1>6. CASE VerifyGood \/ VerifyBad \/ Outer \/ Iterate \/ Save \/ TestItems \/ Prune \/ Command
             \/ StartPasses \/ NextPass \/ TestPass \/ PassDone \/ RemoveState \/ Killed
             \/ Resume \/ StartAgain \/ Ended
    <2>1. pc' \notin {"next", "good", "bad", "test"} \/ phase' # "items"
      BY <1>6 DEF VerifyGood, VerifyBad, Verified, Outer, Iterate, Save, TestItems, Prune, Command,
             StartPasses, StartPhase, NextPass, TestPass, PassDone, RemoveState, Killed,
             Resume, StartAgain, Ended, Ends, Goto, vars, passVars
    <2> QED
      BY <1>5, <2>1
  <1> QED
    BY <1>2, <1>3, <1>4, <1>6, Actions DEF SwitchActions

LEMMA SetsInvHolds == Spec => []SetsInv
  <1>1. Init => SetsInv
    <2> SUFFICES ASSUME Init PROVE SetsInv
      OBVIOUS
    <2>1. pc = "verifygood" /\ bss.good = {} /\ bss.bad = {}
      BY DEF Init, NewState
    <2> QED
      BY <2>1, BaseInit DEF SetsInv, Sets, SavedSearch, ResumePoint, AsSwitched
  <1>2. SetsInv /\ [Next]_vars => SetsInv'
    <2>1. CASE Next
      BY <2>1, BaseStep, SetsStep, SavedSearchStep DEF SetsInv
    <2>2. CASE UNCHANGED vars
      BY <2>2, BaseStep DEF SetsInv, Sets, SavedSearch, ResumePoint, AsSwitched, GoodItems,
         BadItems, UpTo, After, vars, passVars, fileVars
    <2> QED
      BY <2>1, <2>2
  <1> QED
    BY <1>1, <1>2, PTL DEF Spec

\* binary_search_state.py: every variable of the tool and of its state file
\* has its type, the list of items has no item twice, and with --prune an item
\* is either in it or known to be good.
THEOREM SearchTypesHold == Spec => []TypeOK
  BY SetsInvHolds, PTL DEF SetsInv, Base, SearchTypes

\* SwitchToGood, SwitchToBad: whatever has been switched, killed, resumed or
\* changed by the user before, the test sees exactly the sets asked for.
THEOREM RightSets == Spec => []SetsApplied
  <1>1. SetsInv => SetsApplied
    <2> SUFFICES ASSUME SetsInv, pc = "test", phase = "items", NEW i \in Items
                 PROVE  world[i] = IF i \in BadItems THEN Bad ELSE Good
      BY DEF SetsApplied
    <2>1. BadItems = Items \ GoodItems
      BY BaseFacts, AtWorkFits, SetsAreItems DEF SetsInv, Progress, AtWork
    <2> QED
      BY <2>1 DEF SetsInv, Sets
  <1> QED
    BY <1>1, SetsInvHolds, PTL

\* GetNextItems: the search goes on only while an index can be tested, so that
\* GetNext neither takes the logarithm of 0 nor splits intervals for ever.
THEOREM CanGoOn == Spec => []SearchCanGoOn
  <1>1. SetsInv => SearchCanGoOn
    BY BaseFacts DEF SetsInv, SearchCanGoOn, Progress, Inside, GoesOn
  <1> QED
    BY <1>1, SetsInvHolds, PTL

\* SaveState, LoadState: while items are switched and tested, the state file
\* has the search of this very iteration, and resuming it tests the same index.
THEOREM ResumesHere == Spec => []ResumePoint
  <1>1. SetsInv => ResumePoint
    BY DEF SetsInv, SavedSearch
  <1> QED
    BY <1>1, SetsInvHolds, PTL

-----------------------------------------------------------------------------
(* The compiler wrapper builds what the tool asks for *)

\* The invariant of the wrapper.
CompileSteps == {"start", "cache", "opencopy", "copy", "list", "end", "fail"}
TriageSteps == {"start", "restore", "copyback", "end", "fail"}
Contents == Caches \union {"none", "part", "new"}

DriverTypes ==
    /\ driverOption \in DriverOptions
    /\ stage \in Caches \union {"triage", "built", "ready", "over"}
    /\ DOMAIN at = Compilations
    /\ \A c \in Compilations : at[c] \in (IF Populating THEN CompileSteps ELSE TriageSteps)
    /\ \A c \in Compilations : at[c] # "end" => c \in driverOption.build
    /\ DOMAIN file = Compilations
    /\ \A c \in Compilations : file[c] \in {Obj(c), Dep(c)}
    /\ tree \in [Files -> Contents]
    /\ cache \in [Caches -> [Files -> Contents]]
    /\ list \in [Caches -> SUBSET Objects]
    /\ torn \in BOOLEAN

\* The caches: a file is of their build, unless it is being copied or the
\* copying was killed; what is listed is there, and is compiled.
CachesHold ==
    /\ \A k \in Caches, f \in Files : cache[k][f] \in {"none", "part", k}
    /\ \A k \in Caches : \A o \in list[k] :
          /\ cache[k][<<o, "o">>] # "none"
          /\ ~driverOption.redundancy => cache[k][<<o, "o">>] = k
          /\ \E c \in driverOption.build : ObjectOf[c] = o
    /\ ~torn => \A k \in Caches, f \in Files : cache[k][f] = "part" =>
          stage = k /\ \E c \in Compilations : at[c] = "copy" /\ file[c] = f

\* A build that fills a cache: what it has is of that build.
PopulateHolds ==
    Populating =>
        /\ switched = {}
        /\ \A f \in Files : tree[f] \in {"none", stage}
        /\ \A c \in Compilations :
              /\ at[c] \in {"opencopy", "copy"} => tree[file[c]] = stage
              /\ at[c] = "list" =>
                    /\ file[c] = Obj(c) /\ cache[stage][Obj(c)] # "none"
                    /\ ~driverOption.redundancy => cache[stage][Obj(c)] = stage

Asked(o) == IF o \in badSet THEN "bad" ELSE "good"

\* When the objects, and the dependency files, are what is asked for.
ObjectsSure == ~torn \/ (driverOption.android /\ ~driverOption.redundancy)
DepsSure == ~torn /\ ~driverOption.android /\ ~driverOption.safe

Copying(f) == \E c \in Compilations : at[c] = "copyback" /\ file[c] = f

\* The object, or its dependency file, is what was asked for or is being restored.
ObjectComes(o) ==
    /\ tree[<<o, "o">>] \in {"none", "part", Asked(o)}
    /\ tree[<<o, "o">>] = "none" => \E c \in Compilations : ObjectOf[c] = o /\ at[c] # "end"
    /\ tree[<<o, "o">>] = "part" => Copying(<<o, "o">>)
    /\ driverOption.android => tree[<<o, "o">>] = Asked(o)

DepComes(o) ==
    \/ tree[<<o, "d">>] = Asked(o)
    \/ tree[<<o, "d">>] = "part" /\ Copying(<<o, "d">>)

\* A build that takes the objects from both caches.
TriageHolds ==
    stage = "triage" =>
        /\ switched = list["good"]
        /\ \A c \in Compilations :
              /\ at[c] \in {"restore", "copyback"} => ObjectOf[c] \in list["good"]
              /\ at[c] = "copyback" => cache[WhichCache(ObjectOf[c])][file[c]] # "none"
              /\ at[c] \in {"restore", "copyback"} /\ file[c] = Obj(c) =>
                    /\ ObjectsSure => ~driverOption.android
                    /\ DepsSure => DepComes(ObjectOf[c])
        /\ ObjectsSure => \A o \in list["good"] : ObjectComes(o)
        /\ DepsSure => \A o \in list["good"] : tree[<<o, "o">>] # "none" => DepComes(o)

\* What a build leaves for the next one: objects that are not switched again.
BetweenBuilds ==
    stage \in {"built", "ready"} =>
        /\ ObjectsSure => \A o \in switched :
              /\ tree[<<o, "o">>] \in {"none", Asked(o)}
              /\ driverOption.android \/ stage = "built" => tree[<<o, "o">>] = Asked(o)
        /\ DepsSure => \A o \in switched : tree[<<o, "o">>] # "none" => tree[<<o, "d">>] = Asked(o)
        /\ stage = "built" => switched = list["good"]

\* The setup.sh of android has compared the lists.
ListsCompared ==
    stage \in {"triage", "built", "ready"} /\ driverOption.android => list["good"] = list["bad"]

DriverInv == /\ DriverTypes /\ CachesHold /\ PopulateHolds /\ ListsCompared
             /\ TriageHolds /\ BetweenBuilds

LEMMA FilesOf ==
    /\ \A c \in Compilations :
          /\ ObjectOf[c] \in Objects /\ Obj(c) \in Files /\ Dep(c) \in Files
          /\ Obj(c) = <<ObjectOf[c], "o">> /\ Dep(c) = <<ObjectOf[c], "d">> /\ Obj(c) # Dep(c)
    /\ \A o \in Objects : <<o, "o">> \in Files /\ <<o, "d">> \in Files
    /\ \A o, p : <<o, "o">> # <<p, "d">>
  BY DEF Obj, Dep, Files, Objects

LEMMA DriverInit1 ==
    ASSUME DriverInit
    PROVE  DriverInv
  <1>1. /\ stage = "good" /\ torn = FALSE /\ driverOption \in DriverOptions
        /\ at = [c \in Compilations |-> IF c \in driverOption.build THEN "start" ELSE "end"]
        /\ file = [c \in Compilations |-> Obj(c)]
        /\ tree = Clean /\ cache = [k \in Caches |-> Clean] /\ list = [k \in Caches |-> {}]
    BY DEF DriverInit
  <1>2. Clean \in [Files -> Contents] /\ \A f \in Files : Clean[f] = "none"
    BY DEF Clean, Contents
  <1>3. DriverTypes
    BY <1>1, <1>2 DEF DriverTypes, Populating, Caches, CompileSteps
  <1>4. CachesHold
    BY <1>1, <1>2 DEF CachesHold
  <1>5. PopulateHolds
    BY <1>1, <1>2 DEF PopulateHolds, DriverInit
  <1> QED
    BY <1>1, <1>3, <1>4, <1>5 DEF DriverInv, ListsCompared, TriageHolds, BetweenBuilds

\* The steps of a build that fills a cache.
LEMMA CompileToCacheStep ==
    ASSUME DriverInv, NEW c \in Compilations, CompileToCache(c)
    PROVE  DriverTypes' /\ CachesHold' /\ PopulateHolds'
  <1>1. /\ Populating /\ stage \in Caches /\ at[c] = "start" /\ UNCHANGED <<settings, stage, file, cache, list>>
        /\ DriverTypes /\ CachesHold /\ PopulateHolds
    BY DEF CompileToCache, Populating, DriverInv
  <1>2. PICK step \in {"fail", "cache"} : at' = [at EXCEPT ![c] = step]
    BY DEF CompileToCache, Go
  <1>3. tree' = tree \/ tree' = [tree EXCEPT ![Obj(c)] = stage, ![Dep(c)] = stage]
    BY DEF CompileToCache
  <1>4. tree' \in [Files -> Contents] /\ \A f \in Files : tree'[f] \in {tree[f], stage}
    <2>1. tree \in [Files -> Contents] /\ stage \in Contents /\ Obj(c) \in Files /\ Dep(c) \in Files
      BY <1>1, FilesOf DEF DriverTypes, Contents
    <2> QED
      BY <1>3, <2>1
  <1>5. /\ at[c] = "start" /\ at[c] # "end" /\ DOMAIN at = Compilations
        /\ DOMAIN at' = Compilations /\ at'[c] = step
        /\ \A d \in Compilations : d # c => at'[d] = at[d]
    BY <1>1, <1>2 DEF DriverTypes
  <1>6. DriverTypes'
    BY <1>1, <1>4, <1>5 DEF DriverTypes, settings, Populating, CompileSteps, Obj, Dep
  <1>7. CachesHold'
    <2>1. ASSUME ~torn, NEW k \in Caches, NEW f \in Files, cache[k][f] = "part"
          PROVE  stage = k /\ \E d \in Compilations : at'[d] = "copy" /\ file[d] = f
      <3>1. PICK d \in Compilations : at[d] = "copy" /\ file[d] = f /\ stage = k
        BY <1>1, <2>1 DEF CachesHold
      <3> QED
        BY <1>5, <3>1
    <2> QED
      BY <1>1, <2>1 DEF CachesHold, settings
  <1>8. PopulateHolds'
    BY <1>1, <1>4, <1>5 DEF PopulateHolds, DriverTypes, settings, Obj, Dep, Populating, Files, Objects
  <1> QED
    BY <1>6, <1>7, <1>8

LEMMA AtPopulating ==
    ASSUME DriverInv, NEW c \in Compilations, at[c] \in {"cache", "opencopy", "copy", "list"}
    PROVE  /\ Populating /\ stage \in Caches /\ file[c] \in Files /\ at[c] # "end"
           /\ DriverTypes /\ CachesHold /\ PopulateHolds
           /\ DOMAIN at = Compilations /\ DOMAIN file = Compilations
  BY FilesOf DEF DriverInv, DriverTypes, TriageSteps, Populating

LEMMA CacheFileStep ==
    ASSUME DriverInv, NEW c \in Compilations, CacheFile(c)
    PROVE  DriverTypes' /\ CachesHold' /\ PopulateHolds'
  <1>1. /\ Populating /\ stage \in Caches /\ at[c] = "cache" /\ file[c] \in Files /\ at[c] # "end"
        /\ UNCHANGED <<settings, stage, file, tree, cache, list>>
        /\ DriverTypes /\ CachesHold /\ PopulateHolds /\ DOMAIN at = Compilations
    BY AtPopulating DEF CacheFile
  <1>2. PICK step \in {"end", "fail", "opencopy", "list"} :
            /\ at' = [at EXCEPT ![c] = step]
            /\ step = "opencopy" => Exists(file[c])
            /\ step = "list" => /\ file[c] = Obj(c) /\ cache[stage][file[c]] # "none"
                                /\ driverOption.redundancy
    BY DEF CacheFile, Go, AfterCaching
  <1>3. /\ DOMAIN at' = Compilations /\ at'[c] = step
        /\ \A d \in Compilations : d # c => at'[d] = at[d]
    BY <1>1, <1>2
  <1>4. DriverTypes'
    BY <1>1, <1>3 DEF DriverTypes, settings, Populating, CompileSteps, Obj, Dep
  <1>5. CachesHold'
    <2>1. ASSUME ~torn, NEW k \in Caches, NEW f \in Files, cache[k][f] = "part"
          PROVE  stage = k /\ \E d \in Compilations : at'[d] = "copy" /\ file[d] = f
      <3>1. PICK d \in Compilations : at[d] = "copy" /\ file[d] = f /\ stage = k
        BY <1>1, <2>1 DEF CachesHold
      <3> QED
        BY <1>1, <1>3, <3>1
    <2> QED
      BY <1>1, <2>1 DEF CachesHold, settings
  <1>6. step = "opencopy" => tree[file[c]] = stage
    BY <1>1, <1>2 DEF PopulateHolds, Exists
  <1>7. PopulateHolds'
    BY <1>1, <1>2, <1>3, <1>6 DEF PopulateHolds, settings, Obj, Dep, Populating
  <1> QED
    BY <1>4, <1>5, <1>7

LEMMA OpenCopyStep ==
    ASSUME DriverInv, NEW c \in Compilations, OpenCopy(c)
    PROVE  DriverTypes' /\ CachesHold' /\ PopulateHolds'
  <1>1. /\ Populating /\ stage \in Caches /\ at[c] = "opencopy" /\ file[c] \in Files /\ at[c] # "end"
        /\ UNCHANGED <<settings, stage, file, tree, list>>
        /\ DriverTypes /\ CachesHold /\ PopulateHolds /\ DOMAIN at = Compilations
    BY AtPopulating DEF OpenCopy
  <1>2. PICK step \in {"fail", "copy"} :
            /\ at' = [at EXCEPT ![c] = step]
            /\ step = "fail" => cache' = cache
            /\ step = "copy" => /\ cache[stage][file[c]] \notin Caches
                                /\ cache' = [cache EXCEPT ![stage][file[c]] = "part"]
    BY DEF OpenCopy, Go
  <1>3. /\ DOMAIN at' = Compilations /\ at'[c] = step
        /\ \A d \in Compilations : d # c => at'[d] = at[d]
    BY <1>1, <1>2
  <1>4. /\ cache' \in [Caches -> [Files -> Contents]]
        /\ \A k \in Caches, f \in Files :
              \/ cache'[k][f] = cache[k][f]
              \/ /\ step = "copy" /\ k = stage /\ f = file[c] /\ cache'[k][f] = "part"
                 /\ cache[k][f] \notin Caches
    <2>1. cache \in [Caches -> [Files -> Contents]] /\ "part" \in Contents
      BY <1>1 DEF DriverTypes, Contents
    <2> QED
      BY <1>1, <1>2, <2>1
  <1>5. DriverTypes'
    BY <1>1, <1>3, <1>4 DEF DriverTypes, settings, Populating, CompileSteps, Obj, Dep
  <1>6. CachesHold'
    <2>1. ASSUME ~torn, NEW k \in Caches, NEW f \in Files, cache'[k][f] = "part"
          PROVE  stage = k /\ \E d \in Compilations : at'[d] = "copy" /\ file[d] = f
      <3>1. CASE cache[k][f] = "part"
        <4>1. PICK d \in Compilations : at[d] = "copy" /\ file[d] = f /\ stage = k
          BY <1>1, <2>1, <3>1 DEF CachesHold
        <4> QED
          BY <1>1, <1>3, <4>1
      <3>2. CASE cache[k][f] # "part"
        BY <1>3, <1>4, <2>1, <3>2
      <3> QED
        BY <3>1, <3>2
    <2>2. ASSUME NEW k \in Caches, NEW f \in Files
          PROVE  cache'[k][f] \in {"none", "part", k}
      BY <1>1, <1>4 DEF CachesHold
    <2>3. ASSUME NEW k \in Caches, NEW o \in list[k]
          PROVE  /\ cache'[k][<<o, "o">>] # "none"
                 /\ ~driverOption.redundancy => cache'[k][<<o, "o">>] = k
                 /\ \E d \in driverOption.build : ObjectOf[d] = o
      <3>1. o \in Objects /\ <<o, "o">> \in Files
        BY <1>1, <2>3, FilesOf DEF DriverTypes
      <3> QED
        BY <1>1, <1>4, <3>1 DEF CachesHold
    <2> QED
      BY <1>1, <2>1, <2>2, <2>3 DEF CachesHold, settings
  <1>7. PopulateHolds'
    <2>1. ASSUME NEW d \in Compilations, at'[d] = "list"
          PROVE  /\ file[d] = Obj(d) /\ cache'[stage][Obj(d)] # "none"
                 /\ ~driverOption.redundancy => cache'[stage][Obj(d)] = stage
      <3>1. Obj(d) \in Files /\ at[d] = "list"
        BY <1>3, <2>1, FilesOf
      <3> QED
        BY <1>1, <1>4, <3>1 DEF PopulateHolds
    <2> QED
      BY <1>1, <1>3, <2>1 DEF PopulateHolds, settings, Obj, Dep, Populating
  <1> QED
    BY <1>5, <1>6, <1>7

LEMMA EndCopyStep ==
    ASSUME DriverInv, NEW c \in Compilations, EndCopy(c)
    PROVE  DriverTypes' /\ CachesHold' /\ PopulateHolds'
  <1>1. /\ Populating /\ stage \in Caches /\ at[c] = "copy" /\ file[c] \in Files /\ at[c] # "end"
        /\ UNCHANGED <<settings, stage, file, tree, list>>
        /\ DriverTypes /\ CachesHold /\ PopulateHolds /\ DOMAIN at = Compilations
    BY AtPopulating DEF EndCopy
  <1>2. PICK step \in {"list", "end"} :
            at' = [at EXCEPT ![c] = step] /\ (step = "list" => file[c] = Obj(c))
    BY DEF EndCopy, Go, AfterCaching
  <1>3. /\ DOMAIN at' = Compilations /\ at'[c] = step
        /\ \A d \in Compilations : d # c => at'[d] = at[d]
    BY <1>1, <1>2
  <1>4. tree[file[c]] = stage
    BY <1>1 DEF PopulateHolds
  <1>5. /\ cache' \in [Caches -> [Files -> Contents]]
        /\ \A k \in Caches, f \in Files :
              cache'[k][f] = IF k = stage /\ f = file[c] THEN k ELSE cache[k][f]
    <2>1. cache \in [Caches -> [Files -> Contents]] /\ stage \in Contents
      BY <1>1 DEF DriverTypes, Contents
    <2> QED
      BY <1>1, <1>4, <2>1 DEF EndCopy
  <1>6. DriverTypes'
    BY <1>1, <1>3, <1>5 DEF DriverTypes, settings, Populating, CompileSteps, Obj, Dep
  <1>7. CachesHold'
    <2>1. ASSUME ~torn, NEW k \in Caches, NEW f \in Files, cache'[k][f] = "part"
          PROVE  stage = k /\ \E d \in Compilations : at'[d] = "copy" /\ file[d] = f
      <3>1. cache[k][f] = "part" /\ ~(k = stage /\ f = file[c])
        BY <1>5, <2>1 DEF Caches
      <3>2. PICK d \in Compilations : at[d] = "copy" /\ file[d] = f /\ stage = k
        BY <1>1, <2>1, <3>1 DEF CachesHold
      <3> QED
        BY <1>3, <3>1, <3>2
    <2>2. ASSUME NEW k \in Caches, NEW f \in Files
          PROVE  cache'[k][f] \in {"none", "part", k}
      BY <1>1, <1>5 DEF CachesHold
    <2>3. ASSUME NEW k \in Caches, NEW o \in list[k]
          PROVE  /\ cache'[k][<<o, "o">>] # "none"
                 /\ ~driverOption.redundancy => cache'[k][<<o, "o">>] = k
                 /\ \E d \in driverOption.build : ObjectOf[d] = o
      <3>1. o \in Objects /\ <<o, "o">> \in Files /\ k # "none"
        BY <1>1, <2>3, FilesOf DEF DriverTypes, Caches
      <3> QED
        BY <1>1, <1>5, <3>1 DEF CachesHold
    <2> QED
      BY <1>1, <2>1, <2>2, <2>3 DEF CachesHold, settings
  <1>8. PopulateHolds'
    <2>1. ASSUME NEW d \in Compilations, at'[d] = "list"
          PROVE  /\ file[d] = Obj(d) /\ cache'[stage][Obj(d)] # "none"
                 /\ ~driverOption.redundancy => cache'[stage][Obj(d)] = stage
      <3>1. Obj(d) \in Files /\ stage # "none" /\ \/ d = c
                                                  \/ at[d] = "list"
        BY <1>1, <1>3, <2>1, FilesOf DEF Caches
      <3>2. CASE d = c
        BY <1>1, <1>2, <1>3, <1>5, <2>1, <3>1, <3>2
      <3>3. CASE at[d] = "list"
        BY <1>1, <1>5, <3>1, <3>3 DEF PopulateHolds
      <3> QED
        BY <3>1, <3>2, <3>3
    <2> QED
      BY <1>1, <1>3, <2>1 DEF PopulateHolds, settings, Obj, Dep, Populating
  <1> QED
    BY <1>6, <1>7, <1>8

LEMMA AppendToListStep ==
    ASSUME DriverInv, NEW c \in Compilations, AppendToList(c)
    PROVE  DriverTypes' /\ CachesHold' /\ PopulateHolds'
  <1>1. /\ Populating /\ stage \in Caches /\ at[c] = "list" /\ at[c] # "end"
        /\ UNCHANGED <<settings, stage, tree, cache>>
        /\ DriverTypes /\ CachesHold /\ PopulateHolds
        /\ DOMAIN at = Compilations /\ DOMAIN file = Compilations
    BY AtPopulating DEF AppendToList
  <1>2. /\ DOMAIN at' = Compilations /\ at'[c] = "cache"
        /\ DOMAIN file' = Compilations /\ file'[c] = Dep(c)
        /\ \A d \in Compilations : d # c => at'[d] = at[d] /\ file'[d] = file[d]
    BY <1>1 DEF AppendToList, Go
  <1>3. /\ list' \in [Caches -> SUBSET Objects]
        /\ \A k \in Caches : \A o \in list'[k] : o \in list[k] \/ (k = stage /\ o = ObjectOf[c])
    <2>1. list \in [Caches -> SUBSET Objects] /\ ObjectOf[c] \in Objects
      BY <1>1, FilesOf DEF DriverTypes
    <2>2. list' = [list EXCEPT ![stage] = list[stage] \union {ObjectOf[c]}]
      BY DEF AppendToList
    <2> QED
      BY <1>1, <2>1, <2>2
  <1>4. DriverTypes'
    BY <1>1, <1>2, <1>3 DEF DriverTypes, settings, Populating, CompileSteps, Obj, Dep
  <1>5. CachesHold'
    <2>1. ASSUME ~torn, NEW k \in Caches, NEW f \in Files, cache[k][f] = "part"
          PROVE  stage = k /\ \E d \in Compilations : at'[d] = "copy" /\ file'[d] = f
      <3>1. PICK d \in Compilations : at[d] = "copy" /\ file[d] = f /\ stage = k
        BY <1>1, <2>1 DEF CachesHold
      <3> QED
        BY <1>1, <1>2, <3>1
    <2>2. ASSUME NEW k \in Caches, NEW o \in list'[k]
          PROVE  /\ cache[k][<<o, "o">>] # "none"
                 /\ ~driverOption.redundancy => cache[k][<<o, "o">>] = k
                 /\ \E d \in driverOption.build : ObjectOf[d] = o
      <3>1. CASE o \in list[k]
        BY <1>1, <3>1 DEF CachesHold
      <3>2. CASE k = stage /\ o = ObjectOf[c]
        <4>1. c \in driverOption.build
          BY <1>1 DEF DriverTypes
        <4> QED
          BY <1>1, <3>2, <4>1 DEF PopulateHolds, Obj
      <3> QED
        BY <1>3, <2>2, <3>1, <3>2
    <2> QED
      BY <1>1, <2>1, <2>2 DEF CachesHold, settings
  <1>6. PopulateHolds'
    BY <1>1, <1>2 DEF PopulateHolds, settings, Obj, Dep, Populating
  <1> QED
    BY <1>4, <1>5, <1>6

\* The steps of a build that the tool tests.
LEMMA InTriage ==
    ASSUME DriverInv, stage = "triage"
    PROVE  /\ ~Populating /\ DriverTypes /\ CachesHold /\ ListsCompared /\ TriageHolds
           /\ stage \notin Caches /\ stage \notin {"built", "ready"}
           /\ DOMAIN at = Compilations /\ DOMAIN file = Compilations
           /\ tree \in [Files -> Contents]
           /\ \A c \in Compilations : at[c] \in TriageSteps /\ file[c] \in Files
           /\ ~torn => \A k \in Caches, f \in Files : cache[k][f] \in {"none", k}
  <1>1. DriverTypes /\ CachesHold /\ ListsCompared /\ TriageHolds /\ ~Populating /\ stage \notin Caches
    BY DEF DriverInv, Populating, Caches
  <1>2. ~torn => \A k \in Caches, f \in Files : cache[k][f] \in {"none", k}
    BY <1>1 DEF CachesHold
  <1> QED
    BY <1>1, <1>2, FilesOf DEF DriverTypes

LEMMA AskedOfCache ==
    ASSUME DriverInv, stage = "triage", ~torn, ~driverOption.android, NEW o, NEW f \in Files,
           cache[WhichCache(o)][f] # "none"
    PROVE  cache[WhichCache(o)][f] = Asked(o)
  <1>1. WhichCache(o) = Asked(o) /\ Asked(o) \in Caches
    BY DEF WhichCache, Asked, Caches
  <1> QED
    BY <1>1, InTriage

\* What a step of one compilation of the build leaves to show.
LEMMA TriageStepTypes ==
    ASSUME DriverInv, stage = "triage", UNCHANGED <<settings, stage, cache, list>>,
           NEW c \in Compilations, at[c] # "end", NEW step, step \in TriageSteps,
           at' = [at EXCEPT ![c] = step],
           NEW f, f \in {Obj(c), Dep(c)}, file' = [file EXCEPT ![c] = f] \/ (file' = file /\ f = file[c]),
           tree' \in [Files -> Contents]
    PROVE  /\ DriverTypes' /\ CachesHold' /\ PopulateHolds' /\ ListsCompared' /\ BetweenBuilds'
           /\ at'[c] = step /\ file'[c] = f
           /\ \A d \in Compilations : d # c => at'[d] = at[d] /\ file'[d] = file[d]
           /\ ObjectsSure' <=> ObjectsSure
           /\ DepsSure' <=> DepsSure
           /\ driverOption' = driverOption
           /\ \A o : Asked(o)' = Asked(o) /\ WhichCache(o)' = WhichCache(o)
  <1>1. /\ ~Populating /\ DriverTypes /\ CachesHold /\ ListsCompared
        /\ stage \notin Caches /\ stage \notin {"built", "ready"}
        /\ DOMAIN at = Compilations /\ DOMAIN file = Compilations
        /\ ~torn => \A k \in Caches, g \in Files : cache[k][g] \in {"none", k}
    BY InTriage
  <1>2. /\ at'[c] = step /\ DOMAIN at' = Compilations
        /\ file'[c] = f /\ DOMAIN file' = Compilations
        /\ \A d \in Compilations : d # c => at'[d] = at[d] /\ file'[d] = file[d]
    BY <1>1
  <1>3. DriverTypes'
    BY <1>1, <1>2 DEF DriverTypes, settings, Populating, Obj, Dep
  <1>4. CachesHold'
    <2>1. ~torn => \A k \in Caches, g \in Files : cache[k][g] # "part"
      BY <1>1 DEF Caches
    <2> QED
      BY <1>1, <2>1 DEF CachesHold, settings
  <1>5. PopulateHolds' /\ ListsCompared' /\ BetweenBuilds'
    BY <1>1 DEF PopulateHolds, ListsCompared, BetweenBuilds, settings, Populating, Caches
  <1>6. (ObjectsSure' <=> ObjectsSure) /\ (DepsSure' <=> DepsSure)
    BY DEF ObjectsSure, DepsSure, settings
  <1>7. \A o : Asked(o)' = Asked(o) /\ WhichCache(o)' = WhichCache(o)
    BY DEF Asked, WhichCache, settings
  <1> QED
    BY <1>2, <1>3, <1>4, <1>5, <1>6, <1>7 DEF settings

LEMMA TriageStep ==
    ASSUME DriverInv, ~(driverOption.android /\ driverOption.safe),
           NEW c \in Compilations, Triage(c)
    PROVE  DriverInv'
  <1>1. /\ stage = "triage" /\ at[c] = "start" /\ UNCHANGED <<settings, stage, cache, list>>
        /\ at[c] # "end"
    BY DEF Triage
  <1>2. /\ TriageHolds /\ tree \in [Files -> Contents] /\ DOMAIN file = Compilations
        /\ list["good"] \subseteq Objects /\ switched = list["good"]
        /\ file[c] \in {Obj(c), Dep(c)} /\ Obj(c) \in Files /\ Dep(c) \in Files
        /\ ObjectOf[c] \in Objects
    BY <1>1, InTriage, FilesOf DEF DriverTypes, TriageHolds, Caches
  <1>3. PICK step \in {"fail", "end", "restore"}, f \in {Obj(c), Dep(c)} :
            /\ at' = [at EXCEPT ![c] = step]
            /\ file' = [file EXCEPT ![c] = f] \/ (file' = file /\ f = file[c])
            /\ tree' \in [Files -> Contents]
            /\ \/ step = "fail" /\ tree' = tree
               \/ /\ step = "end" /\ ObjectOf[c] \notin list["good"]
                  /\ \A g \in Files : g # Obj(c) /\ g # Dep(c) => tree'[g] = tree[g]
               \/ /\ step = "restore" /\ driverOption.safe /\ ObjectOf[c] \in list["good"]
                  /\ tree'[Obj(c)] = "none"
                  /\ \A g \in Files : g # Obj(c) /\ g # Dep(c) => tree'[g] = tree[g]
               \/ /\ step = "restore" /\ f = Dep(c) /\ ObjectOf[c] \in list["good"]
                  /\ tree' = tree
    <2>2. CASE Go(c, "fail") /\ UNCHANGED <<file, tree>>
      BY <1>2, <2>2 DEF Go
    <2>3. CASE /\ ObjectOf[c] \notin list["good"]
               /\ tree' = [tree EXCEPT ![Obj(c)] = "new", ![Dep(c)] = "new"]
               /\ Go(c, "end") /\ UNCHANGED file
      <3>1. tree' \in [Files -> Contents] /\ \A g \in Files : g # Obj(c) /\ g # Dep(c) => tree'[g] = tree[g]
        BY <1>2, <2>3 DEF Contents
      <3>2. at' = [at EXCEPT ![c] = "end"] /\ file' = file
        BY <2>3 DEF Go
      <3> QED
        BY <1>2, <2>3, <3>1, <3>2
    <2>4. CASE /\ ObjectOf[c] \in list["good"] /\ driverOption.safe
               /\ tree' = [tree EXCEPT ![Obj(c)] = "none", ![Dep(c)] = "new"]
               /\ Go(c, "restore") /\ UNCHANGED file
      <3>1. /\ tree' \in [Files -> Contents] /\ tree'[Obj(c)] = "none"
            /\ \A g \in Files : g # Obj(c) /\ g # Dep(c) => tree'[g] = tree[g]
        BY <1>2, <2>4, FilesOf DEF Contents
      <3>2. at' = [at EXCEPT ![c] = "restore"] /\ file' = file
        BY <2>4 DEF Go
      <3> QED
        BY <1>2, <2>4, <3>1, <3>2
    <2>5. CASE /\ ObjectOf[c] \in list["good"] /\ file' = [file EXCEPT ![c] = Dep(c)]
               /\ Go(c, "restore") /\ UNCHANGED tree
      BY <1>2, <2>5 DEF Go
    <2> QED
      BY <2>2, <2>3, <2>4, <2>5 DEF Triage
  <1>4. /\ DriverTypes' /\ CachesHold' /\ PopulateHolds' /\ ListsCompared' /\ BetweenBuilds'
        /\ at'[c] = step /\ file'[c] = f
        /\ \A d \in Compilations : d # c => at'[d] = at[d] /\ file'[d] = file[d]
        /\ ObjectsSure' <=> ObjectsSure
        /\ DepsSure' <=> DepsSure
        /\ driverOption' = driverOption
        /\ \A o : Asked(o)' = Asked(o) /\ WhichCache(o)' = WhichCache(o)
    <2>1. step \in TriageSteps
      BY DEF TriageSteps
    <2> QED
      BY <1>1, <1>3, <2>1, TriageStepTypes
  <1>5. \A g \in Files : Copying(g) => Copying(g)'
    BY <1>1, <1>4 DEF Copying
  <1>6. ASSUME NEW o \in list["good"], <<o, "d">> \in Files, DepsSure, DepComes(o)
        PROVE  DepComes(o)'
    <2>1. tree'[<<o, "d">>] = tree[<<o, "d">>]
      <3>1. ~driverOption.safe
        BY <1>6 DEF DepsSure
      <3>2. ObjectOf[c] # o => <<o, "d">> # Obj(c) /\ <<o, "d">> # Dep(c)
        BY DEF Obj, Dep
      <3> QED
        BY <1>3, <1>6, <3>1, <3>2
    <2> QED
      BY <1>4, <1>5, <1>6, <2>1 DEF DepComes
  <1>7. ASSUME NEW o \in list["good"], <<o, "o">> \in Files, ObjectsSure, ObjectComes(o)
        PROVE  ObjectComes(o)'
    <2>1. CASE tree'[<<o, "o">>] = tree[<<o, "o">>]
      <3>1. tree[<<o, "o">>] = "none" => \E d \in Compilations : ObjectOf[d] = o /\ at'[d] # "end"
        <4>1. ASSUME NEW d \in Compilations, ObjectOf[d] = o, at[d] # "end"
              PROVE  at'[d] # "end"
          BY <1>3, <1>4, <1>7, <4>1
        <4> QED
          BY <1>7, <4>1 DEF ObjectComes
      <3> QED
        BY <1>4, <1>5, <1>7, <2>1, <3>1 DEF ObjectComes
    <2>2. CASE tree'[<<o, "o">>] # tree[<<o, "o">>]
      <3>1. /\ <<o, "o">> = Obj(c) \/ <<o, "o">> = Dep(c)
            /\ driverOption.safe /\ tree'[Obj(c)] = "none" /\ step = "restore"
        <4>1. ObjectOf[c] # o => <<o, "o">> # Obj(c) /\ <<o, "o">> # Dep(c)
          BY DEF Obj, Dep
        <4> QED
          BY <1>3, <1>7, <2>2, <4>1
      <3>2. ObjectOf[c] = o /\ <<o, "o">> = Obj(c) /\ ~driverOption.android
        BY <3>1 DEF Obj, Dep
      <3>3. tree'[<<o, "o">>] = "none" /\ \E d \in Compilations : ObjectOf[d] = o /\ at'[d] # "end"
        BY <1>4, <3>1, <3>2
      <3> QED
        BY <1>4, <3>2, <3>3 DEF ObjectComes
    <2> QED
      BY <2>1, <2>2
  <1>8. ASSUME NEW d \in Compilations, at'[d] \in {"restore", "copyback"}
        PROVE  /\ ObjectOf[d] \in list["good"]
               /\ at'[d] = "copyback" => cache[WhichCache(ObjectOf[d])][file'[d]] # "none"
               /\ file'[d] = Obj(d) => /\ ObjectsSure => ~driverOption.android
                                       /\ DepsSure => DepComes(ObjectOf[d])'
    <2>1. CASE d = c
      <3>1. step = "restore" /\ ObjectOf[c] \in list["good"]
        BY <1>3, <1>4, <1>8, <2>1
      <3>2. driverOption.safe \/ f = Dep(c)
        BY <1>3, <3>1
      <3>3. CASE driverOption.safe
        BY <1>4, <2>1, <3>1, <3>3 DEF DepsSure
      <3>4. CASE f = Dep(c)
        BY <1>4, <2>1, <3>1, <3>4, FilesOf
      <3> QED
        BY <3>2, <3>3, <3>4
    <2>2. CASE d # c
      <3>1. /\ at[d] \in {"restore", "copyback"} /\ at'[d] = at[d] /\ file'[d] = file[d]
        BY <1>4, <1>8, <2>2
      <3>2. /\ ObjectOf[d] \in list["good"]
            /\ at[d] = "copyback" => cache[WhichCache(ObjectOf[d])][file[d]] # "none"
            /\ file[d] = Obj(d) => /\ ObjectsSure => ~driverOption.android
                                   /\ DepsSure => DepComes(ObjectOf[d])
        BY <1>1, <1>2, <3>1 DEF TriageHolds
      <3>3. <<ObjectOf[d], "d">> \in Files
        BY FilesOf
      <3> QED
        BY <1>6, <3>1, <3>2, <3>3
    <2> QED
      BY <2>1, <2>2
  <1>9. ASSUME NEW o \in list["good"]
        PROVE  /\ ObjectsSure => ObjectComes(o)'
               /\ DepsSure => (tree'[<<o, "o">>] # "none" => DepComes(o)')
    <2>1. <<o, "o">> \in Files /\ <<o, "d">> \in Files
      BY <1>2, FilesOf
    <2>2. /\ ObjectsSure => ObjectComes(o)
          /\ DepsSure => (tree[<<o, "o">>] # "none" => DepComes(o))
      BY <1>1, <1>2 DEF TriageHolds
    <2>3. DepsSure => tree'[<<o, "o">>] = tree[<<o, "o">>]
      <3>1. ObjectOf[c] # o => <<o, "o">> # Obj(c) /\ <<o, "o">> # Dep(c)
        BY DEF Obj, Dep
      <3> QED
        BY <1>3, <2>1, <3>1 DEF DepsSure
    <2> QED
      BY <1>6, <1>7, <2>1, <2>2, <2>3
  <1>10. TriageHolds'
    <2>1. list' = list /\ switched' = switched /\ cache' = cache
      BY <1>1 DEF settings
    <2> QED
      BY <1>2, <1>4, <1>8, <1>9, <2>1 DEF TriageHolds
  <1> QED
    BY <1>4, <1>10 DEF DriverInv

LEMMA RestoreFileStep ==
    ASSUME DriverInv, NEW c \in Compilations, RestoreFile(c)
    PROVE  DriverInv'
  <1>1. /\ stage = "triage" /\ at[c] = "restore" /\ UNCHANGED <<settings, stage, file, cache, list>>
        /\ at[c] # "end"
    BY DEF RestoreFile
  <1>2. /\ TriageHolds /\ tree \in [Files -> Contents]
        /\ list["good"] \subseteq Objects /\ switched = list["good"]
        /\ file[c] \in {Obj(c), Dep(c)} /\ file[c] \in Files
        /\ Obj(c) \in Files /\ Dep(c) \in Files /\ Obj(c) # Dep(c)
        /\ ObjectOf[c] \in list["good"]
    BY <1>1, InTriage, FilesOf DEF DriverTypes, TriageHolds, Caches
  <1>3. PICK step \in {"fail", "copyback"} :
            /\ at' = [at EXCEPT ![c] = step]
            /\ tree' \in [Files -> Contents]
            /\ \A g \in Files : g # file[c] => tree'[g] = tree[g]
            /\ step = "fail" => tree' = tree
            /\ step = "copyback" => /\ tree'[file[c]] = "part"
                                    /\ cache[WhichCache(ObjectOf[c])][file[c]] # "none"
    <2>1. CASE Go(c, "fail") /\ UNCHANGED tree
      BY <1>2, <2>1 DEF Go
    <2>2. CASE /\ Go(c, "copyback") /\ Write(file[c], "part")
               /\ cache[WhichCache(ObjectOf[c])][file[c]] # "none"
      <3>1. at' = [at EXCEPT ![c] = "copyback"] /\ tree' = [tree EXCEPT ![file[c]] = "part"]
        BY <2>2 DEF Go, Write
      <3>2. /\ tree' \in [Files -> Contents] /\ tree'[file[c]] = "part"
            /\ \A g \in Files : g # file[c] => tree'[g] = tree[g]
        BY <1>2, <3>1 DEF Contents
      <3> QED
        BY <2>2, <3>1, <3>2
    <2> QED
      BY <2>1, <2>2 DEF RestoreFile
  <1>4. /\ DriverTypes' /\ CachesHold' /\ PopulateHolds' /\ ListsCompared' /\ BetweenBuilds'
        /\ at'[c] = step /\ file'[c] = file[c]
        /\ \A d \in Compilations : d # c => at'[d] = at[d] /\ file'[d] = file[d]
        /\ ObjectsSure' <=> ObjectsSure
        /\ DepsSure' <=> DepsSure
        /\ driverOption' = driverOption
        /\ \A o : Asked(o)' = Asked(o) /\ WhichCache(o)' = WhichCache(o)
    <2>1. step \in TriageSteps
      BY DEF TriageSteps
    <2> QED
      BY <1>1, <1>2, <1>3, <2>1, TriageStepTypes
  <1>5. /\ \A g \in Files : Copying(g) => Copying(g)'
        /\ step = "copyback" => \A g \in Files : g = file[c] => Copying(g)'
    BY <1>1, <1>4 DEF Copying
  <1>6. ASSUME NEW g \in Files
        PROVE  tree'[g] = tree[g] \/ (tree'[g] = "part" /\ Copying(g)' /\ g = file[c])
    BY <1>3, <1>5
  <1>7. ASSUME NEW o \in list["good"], DepsSure, DepComes(o)
        PROVE  DepComes(o)'
    <2>1. <<o, "d">> \in Files
      BY <1>2, FilesOf
    <2> QED
      BY <1>4, <1>5, <1>6, <1>7, <2>1 DEF DepComes
  <1>8. ASSUME NEW o \in list["good"], ObjectsSure, ObjectComes(o)
        PROVE  ObjectComes(o)'
    <2>1. <<o, "o">> \in Files
      BY <1>2, FilesOf
    <2>2. CASE tree'[<<o, "o">>] = tree[<<o, "o">>]
      <3>1. tree[<<o, "o">>] = "none" => \E d \in Compilations : ObjectOf[d] = o /\ at'[d] # "end"
        <4>1. ASSUME NEW d \in Compilations, ObjectOf[d] = o, at[d] # "end"
              PROVE  at'[d] # "end"
          BY <1>3, <1>4, <4>1
        <4> QED
          BY <1>8, <4>1 DEF ObjectComes
      <3> QED
        BY <1>4, <1>5, <1>8, <2>1, <2>2, <3>1 DEF ObjectComes
    <2>3. CASE tree'[<<o, "o">>] = "part" /\ Copying(<<o, "o">>)' /\ <<o, "o">> = file[c]
      <3>1. file[c] = Obj(c)
        BY <1>2, <2>3 DEF Obj, Dep
      <3>2. ~driverOption.android
        BY <1>1, <1>2, <1>8, <3>1 DEF TriageHolds
      <3> QED
        BY <1>4, <2>3, <3>2 DEF ObjectComes
    <2> QED
      BY <1>6, <2>1, <2>2, <2>3
  <1>9. ASSUME NEW d \in Compilations, at'[d] \in {"restore", "copyback"}
        PROVE  /\ ObjectOf[d] \in list["good"]
               /\ at'[d] = "copyback" => cache[WhichCache(ObjectOf[d])][file'[d]] # "none"
               /\ file'[d] = Obj(d) => /\ ObjectsSure => ~driverOption.android
                                       /\ DepsSure => DepComes(ObjectOf[d])'
    <2>1. /\ at[d] \in {"restore", "copyback"} /\ file'[d] = file[d]
          /\ at'[d] = "copyback" => \/ d # c /\ at[d] = "copyback"
                                    \/ d = c /\ step = "copyback"
      BY <1>1, <1>4, <1>9
    <2>2. /\ ObjectOf[d] \in list["good"]
          /\ at[d] = "copyback" => cache[WhichCache(ObjectOf[d])][file[d]] # "none"
          /\ file[d] = Obj(d) => /\ ObjectsSure => ~driverOption.android
                                 /\ DepsSure => DepComes(ObjectOf[d])
      BY <1>1, <1>2, <2>1 DEF TriageHolds
    <2>3. at'[d] = "copyback" => cache[WhichCache(ObjectOf[d])][file'[d]] # "none"
      BY <1>3, <2>1, <2>2
    <2> QED
      BY <1>7, <2>1, <2>2, <2>3
  <1>10. ASSUME NEW o \in list["good"]
         PROVE  /\ ObjectsSure => ObjectComes(o)'
                /\ DepsSure => (tree'[<<o, "o">>] # "none" => DepComes(o)')
    <2>1. <<o, "o">> \in Files
      BY <1>2, FilesOf
    <2>2. /\ ObjectsSure => ObjectComes(o)
          /\ DepsSure => (tree[<<o, "o">>] # "none" => DepComes(o))
      BY <1>1, <1>2 DEF TriageHolds
    <2>3. ASSUME DepsSure, tree'[<<o, "o">>] # "none"
          PROVE  DepComes(o)
      <3>1. CASE tree'[<<o, "o">>] = tree[<<o, "o">>]
        BY <2>2, <2>3, <3>1
      <3>2. CASE <<o, "o">> = file[c]
        <4>1. file[c] = Obj(c) /\ ObjectOf[c] = o
          BY <1>2, <3>2 DEF Obj, Dep
        <4> QED
          BY <1>1, <1>2, <2>3, <4>1 DEF TriageHolds
      <3> QED
        BY <1>6, <2>1, <3>1, <3>2
    <2> QED
      BY <1>7, <1>8, <2>2, <2>3
  <1>11. TriageHolds'
    <2>1. list' = list /\ switched' = switched /\ cache' = cache
      BY <1>1 DEF settings
    <2> QED
      BY <1>2, <1>4, <1>9, <1>10, <2>1 DEF TriageHolds
  <1> QED
    BY <1>4, <1>11 DEF DriverInv

LEMMA CopyBackStep ==
    ASSUME DriverInv, NEW c \in Compilations, CopyBack(c)
    PROVE  DriverInv'
  <1> DEFINE written == cache[WhichCache(ObjectOf[c])][file[c]]
  <1>1. /\ stage = "triage" /\ at[c] = "copyback" /\ UNCHANGED <<settings, stage, cache, list>>
        /\ at[c] # "end" /\ tree' = [tree EXCEPT ![file[c]] = written]
    BY DEF CopyBack, Write
  <1>2. /\ TriageHolds /\ tree \in [Files -> Contents] /\ DOMAIN file = Compilations
        /\ list["good"] \subseteq Objects /\ switched = list["good"]
        /\ file[c] \in {Obj(c), Dep(c)} /\ file[c] \in Files
        /\ Obj(c) \in Files /\ Dep(c) \in Files /\ Obj(c) # Dep(c)
        /\ ObjectOf[c] \in list["good"] /\ written # "none" /\ written \in Contents
    <2>1. WhichCache(ObjectOf[c]) \in Caches
      BY DEF WhichCache, Caches
    <2> QED
      BY <1>1, <2>1, InTriage, FilesOf DEF DriverTypes, TriageHolds, Caches
  <1>3. ~torn /\ ~driverOption.android => written = Asked(ObjectOf[c])
    BY <1>1, <1>2, AskedOfCache
  <1>4. PICK step \in {"restore", "end"}, f \in {Obj(c), Dep(c)} :
            /\ at' = [at EXCEPT ![c] = step]
            /\ file' = [file EXCEPT ![c] = f] \/ (file' = file /\ f = file[c])
            /\ step = "restore" => /\ file[c] = Dep(c) /\ f = Obj(c) /\ tree[Obj(c)] = "none"
            /\ step = "end" => file[c] = Obj(c) \/ tree[Obj(c)] # "none"
    BY <1>2 DEF CopyBack, Go, Exists
  <1>5. /\ tree' \in [Files -> Contents] /\ tree'[file[c]] = written
        /\ \A g \in Files : g # file[c] => tree'[g] = tree[g]
    BY <1>1, <1>2
  <1> HIDE DEF written
  <1>6. /\ DriverTypes' /\ CachesHold' /\ PopulateHolds' /\ ListsCompared' /\ BetweenBuilds'
        /\ at'[c] = step /\ file'[c] = f
        /\ \A d \in Compilations : d # c => at'[d] = at[d] /\ file'[d] = file[d]
        /\ ObjectsSure' <=> ObjectsSure
        /\ DepsSure' <=> DepsSure
        /\ driverOption' = driverOption
        /\ \A o : Asked(o)' = Asked(o) /\ WhichCache(o)' = WhichCache(o)
    <2>1. step \in TriageSteps
      BY DEF TriageSteps
    <2> QED
      BY <1>1, <1>4, <1>5, <2>1, TriageStepTypes
  <1>7. \A g \in Files : Copying(g) /\ g # file[c] => Copying(g)'
    BY <1>1, <1>6 DEF Copying
  <1>8. ASSUME NEW o \in list["good"], DepsSure, DepComes(o) \/ <<o, "d">> = file[c]
        PROVE  DepComes(o)'
    <2>1. <<o, "d">> \in Files
      BY <1>2, FilesOf
    <2>2. CASE <<o, "d">> = file[c]
      <3>1. o = ObjectOf[c]
        BY <1>2, <2>2 DEF Obj, Dep
      <3> QED
        BY <1>3, <1>5, <1>6, <1>8, <2>2, <3>1 DEF DepsSure, DepComes
    <2>3. CASE <<o, "d">> # file[c]
      BY <1>5, <1>6, <1>7, <1>8, <2>1, <2>3 DEF DepComes
    <2> QED
      BY <2>2, <2>3
  <1>9. ASSUME NEW o \in list["good"], ObjectsSure, ObjectComes(o)
        PROVE  ObjectComes(o)'
    <2>1. <<o, "o">> \in Files
      BY <1>2, FilesOf
    <2>2. CASE <<o, "o">> = file[c]
      <3>1. o = ObjectOf[c] /\ file[c] = Obj(c)
        BY <1>2, <2>2 DEF Obj, Dep
      <3>2. ~driverOption.android
        BY <1>1, <1>2, <1>9, <3>1 DEF TriageHolds
      <3>3. written = Asked(o)
        BY <1>3, <1>9, <3>1, <3>2 DEF ObjectsSure
      <3>4. Asked(o)' # "none" /\ Asked(o)' # "part"
        BY DEF Asked
      <3>5. tree'[<<o, "o">>] = Asked(o)'
        BY <1>5, <1>6, <2>2, <3>3
      <3> QED
        BY <3>4, <3>5 DEF ObjectComes
    <2>3. CASE <<o, "o">> # file[c]
      <3>1. tree'[<<o, "o">>] = tree[<<o, "o">>]
        BY <1>5, <2>1, <2>3
      <3>2. ASSUME tree[<<o, "o">>] = "none", NEW d \in Compilations, ObjectOf[d] = o, at[d] # "end"
            PROVE  at'[d] # "end"
        <4>1. d = c => step = "restore"
          BY <1>4, <2>3, <3>2 DEF Obj
        <4> QED
          BY <1>6, <3>2, <4>1
      <3>3. tree[<<o, "o">>] = "none" => \E d \in Compilations : ObjectOf[d] = o /\ at'[d] # "end"
        BY <1>9, <3>2 DEF ObjectComes
      <3> QED
        BY <1>6, <1>7, <1>9, <2>1, <2>3, <3>1, <3>3 DEF ObjectComes
    <2> QED
      BY <2>2, <2>3
  <1>10. ASSUME NEW d \in Compilations, at'[d] \in {"restore", "copyback"}
         PROVE  /\ ObjectOf[d] \in list["good"]
                /\ at'[d] = "copyback" => cache[WhichCache(ObjectOf[d])][file'[d]] # "none"
                /\ file'[d] = Obj(d) => /\ ObjectsSure => ~driverOption.android
                                        /\ DepsSure => DepComes(ObjectOf[d])'
    <2>1. CASE d = c
      <3>1. at'[c] = "restore" /\ file[c] = Dep(c) /\ tree[Obj(c)] = "none"
        BY <1>4, <1>6, <1>10, <2>1
      <3>2. DepsSure => DepComes(ObjectOf[c])'
        BY <1>2, <1>8, <3>1 DEF Dep
      <3>3. ObjectsSure => ~driverOption.android
        <4>1. ObjectsSure => ObjectComes(ObjectOf[c])
          BY <1>1, <1>2 DEF TriageHolds
        <4>2. Asked(ObjectOf[c]) # "none"
          BY DEF Asked
        <4> QED
          BY <3>1, <4>1, <4>2 DEF ObjectComes, Obj
      <3> QED
        BY <1>2, <2>1, <3>1, <3>2, <3>3
    <2>2. CASE d # c
      <3>1. at[d] \in {"restore", "copyback"} /\ at'[d] = at[d] /\ file'[d] = file[d]
        BY <1>6, <1>10, <2>2
      <3>2. /\ ObjectOf[d] \in list["good"]
            /\ at[d] = "copyback" => cache[WhichCache(ObjectOf[d])][file[d]] # "none"
            /\ file[d] = Obj(d) => /\ ObjectsSure => ~driverOption.android
                                   /\ DepsSure => DepComes(ObjectOf[d])
        BY <1>1, <1>2, <3>1 DEF TriageHolds
      <3> QED
        BY <1>8, <3>1, <3>2
    <2> QED
      BY <2>1, <2>2
  <1>11. ASSUME NEW o \in list["good"]
         PROVE  /\ ObjectsSure => ObjectComes(o)'
                /\ DepsSure => (tree'[<<o, "o">>] # "none" => DepComes(o)')
    <2>1. <<o, "o">> \in Files
      BY <1>2, FilesOf
    <2>2. /\ ObjectsSure => ObjectComes(o)
          /\ DepsSure => (tree[<<o, "o">>] # "none" => DepComes(o))
      BY <1>1, <1>2 DEF TriageHolds
    <2>3. ASSUME DepsSure, tree'[<<o, "o">>] # "none"
          PROVE  DepComes(o)
      <3>1. CASE <<o, "o">> # file[c]
        BY <1>5, <2>1, <2>2, <2>3, <3>1
      <3>2. CASE <<o, "o">> = file[c]
        <4>1. file[c] = Obj(c) /\ ObjectOf[c] = o
          BY <1>2, <3>2 DEF Obj, Dep
        <4> QED
          BY <1>1, <1>2, <2>3, <4>1 DEF TriageHolds
      <3> QED
        BY <3>1, <3>2
    <2> QED
      BY <1>8, <1>9, <2>2, <2>3
  <1>12. TriageHolds'
    <2>1. list' = list /\ switched' = switched /\ cache' = cache
      BY <1>1 DEF settings
    <2> QED
      BY <1>2, <1>6, <1>10, <1>11, <2>1 DEF TriageHolds
  <1> QED
    BY <1>6, <1>12 DEF DriverInv

\* A build starts.
LEMMA Starts ==
    ASSUME NEW cs, NEW t, Start(cs, t)
    PROVE  /\ DOMAIN at' = Compilations /\ DOMAIN file' = Compilations /\ tree' = t
           /\ \A c \in Compilations : /\ at'[c] = (IF c \in cs THEN "start" ELSE "end")
                                      /\ file'[c] = Obj(c)
  BY DEF Start

LEMMA NothingCopied ==
    ASSUME DriverInv, ~torn, \A c \in Compilations : at[c] # "copy"
    PROVE  \A k \in Caches, f \in Files : cache[k][f] # "part"
  BY DEF DriverInv, CachesHold

LEMMA PopulateEndsStep ==
    ASSUME DriverInv, PopulateEnds
    PROVE  DriverInv'
  <1>1. /\ Populating /\ stage \in Caches /\ UNCHANGED <<settings, cache, list>>
        /\ \A c \in Compilations : at[c] \in {"start", "end", "fail"}
        /\ DriverTypes /\ CachesHold /\ PopulateHolds
    BY DEF PopulateEnds, Finished, Populating, DriverInv
  <1>2. CachesHold'
    <2>1. ~torn => \A k \in Caches, f \in Files : cache[k][f] # "part"
      BY <1>1, NothingCopied
    <2> QED
      BY <1>1, <2>1 DEF CachesHold, settings
  <1>3. CASE stage' = "bad" /\ Start(driverOption.build, Clean)
    <2>1. /\ DOMAIN at' = Compilations /\ DOMAIN file' = Compilations /\ tree' = Clean
          /\ \A c \in Compilations : /\ at'[c] = (IF c \in driverOption.build THEN "start" ELSE "end")
                                     /\ file'[c] = Obj(c)
      BY <1>3, Starts
    <2>2. Clean \in [Files -> Contents] /\ \A f \in Files : Clean[f] = "none"
      BY DEF Clean, Contents
    <2>3. DriverTypes'
      BY <1>1, <1>3, <2>1, <2>2 DEF DriverTypes, settings, Populating, CompileSteps, Caches, Obj, Dep
    <2>4. PopulateHolds'
      BY <1>1, <1>3, <2>1, <2>2 DEF PopulateHolds, settings
    <2> QED
      BY <1>2, <1>3, <2>3, <2>4 DEF DriverInv, ListsCompared, TriageHolds, BetweenBuilds
  <1>4. CASE /\ stage' \in {"over", "ready"} /\ (stage' = "ready" => MayBisect)
             /\ UNCHANGED <<at, file, tree>>
    <2>1. DriverTypes'
      BY <1>1, <1>4 DEF DriverTypes, settings, Populating, TriageSteps, Caches, Obj, Dep
    <2>2. PopulateHolds' /\ TriageHolds'
      BY <1>4 DEF PopulateHolds, TriageHolds, Populating, Caches
    <2>3. BetweenBuilds' /\ ListsCompared'
      BY <1>1, <1>4 DEF BetweenBuilds, ListsCompared, PopulateHolds, settings, MayBisect
    <2> QED
      BY <1>2, <2>1, <2>2, <2>3 DEF DriverInv
  <1> QED
    BY <1>3, <1>4 DEF PopulateEnds

LEMMA TriageEndsStep ==
    ASSUME DriverInv, TriageEnds
    PROVE  DriverInv'
  <1>1. /\ stage = "triage" /\ UNCHANGED <<settings, at, file, tree, cache, list>>
        /\ stage' \in {"built", "ready"}
        /\ stage' = "built" => ~Failed
        /\ \A c \in Compilations : at[c] \in {"start", "end", "fail"}
    BY DEF TriageEnds, Finished
  <1>2. stage' = "built" => \A c \in Compilations : at[c] = "end"
    BY <1>1 DEF TriageEnds, Finished, Failed
  <1>3. DriverTypes /\ CachesHold /\ ListsCompared /\ TriageHolds /\ ~Populating
    BY <1>1, InTriage
  <1>4. CachesHold'
    <2>1. ~torn => \A k \in Caches, f \in Files : cache[k][f] # "part"
      BY <1>1, NothingCopied
    <2> QED
      BY <1>1, <1>3, <2>1 DEF CachesHold, settings
  <1>5. DriverTypes' /\ PopulateHolds' /\ ListsCompared' /\ TriageHolds'
    BY <1>1, <1>3 DEF DriverTypes, PopulateHolds, ListsCompared, TriageHolds, settings, Populating, Caches, Obj, Dep
  <1>6. \A f : ~Copying(f)
    BY <1>1 DEF Copying
  <1>7. ASSUME NEW o \in list["good"]
        PROVE  /\ ObjectsSure => /\ tree[<<o, "o">>] \in {"none", Asked(o)}
                                 /\ driverOption.android \/ stage' = "built" => tree[<<o, "o">>] = Asked(o)
               /\ DepsSure => (tree[<<o, "o">>] # "none" => tree[<<o, "d">>] = Asked(o))
    BY <1>1, <1>2, <1>3, <1>6 DEF TriageHolds, ObjectComes, DepComes
  <1>8. BetweenBuilds'
    <2>1. /\ switched = list["good"]
          /\ ObjectsSure' <=> ObjectsSure
          /\ DepsSure' <=> DepsSure
          /\ driverOption' = driverOption /\ switched' = switched /\ list' = list /\ tree' = tree
          /\ \A o : Asked(o)' = Asked(o)
      BY <1>1, <1>3 DEF TriageHolds, ObjectsSure, DepsSure, Asked, settings
    <2> QED
      BY <1>7, <2>1 DEF BetweenBuilds
  <1> QED
    BY <1>4, <1>5, <1>8 DEF DriverInv

LEMMA SwitchStep ==
    ASSUME DriverInv, Switch
    PROVE  DriverInv'
  <1> DEFINE Side(o, new) == IF o \in new THEN "bad" ELSE "good"
             Linked(o, new) == cache[Side(o, new)][<<o, "o">>]
             Rewired(new) == [f \in Files |->
                                   IF f[2] = "d" \/ f[1] \notin Changing(new) THEN tree[f]
                                   ELSE IF driverOption.android THEN Linked(f[1], new) ELSE "none"]
  <1>1. /\ stage \in {"built", "ready"} /\ stage' = "triage" /\ switched' = list["good"]
        /\ UNCHANGED <<driverOption, kills, torn, cache, list>>
        /\ DriverTypes /\ CachesHold /\ ListsCompared /\ BetweenBuilds /\ ~Populating
        /\ \A c \in Compilations : at[c] # "copy"
        /\ tree \in [Files -> Contents] /\ cache \in [Caches -> [Files -> Contents]]
        /\ list["good"] \subseteq Objects
    BY DEF Switch, DriverInv, Populating, Caches, DriverTypes, TriageSteps
  <1>2. PICK new \in SUBSET list["good"], stale \in SUBSET driverOption.build :
            Start(Needed(Rewired(new)) \union stale, Rewired(new)) /\ badSet' = new
    BY DEF Switch
  <1>3. \A o : Side(o, new) \in Caches /\ Asked(o)' = Side(o, new)
    BY <1>2 DEF Asked, Caches
  <1>4. /\ tree' = Rewired(new)
        /\ DOMAIN at' = Compilations /\ DOMAIN file' = Compilations
        /\ \A c \in Compilations : file'[c] = Obj(c) /\ at'[c] \in {"start", "end"}
        /\ \A c \in Compilations : at'[c] # "end" => c \in driverOption.build
        /\ \A c \in driverOption.build : c \in Compilations /\ tree'[Obj(c)] = "none" => at'[c] # "end"
    <2>1. /\ DOMAIN at' = Compilations /\ DOMAIN file' = Compilations /\ tree' = Rewired(new)
          /\ \A c \in Compilations :
                /\ at'[c] = (IF c \in Needed(Rewired(new)) \union stale THEN "start" ELSE "end")
                /\ file'[c] = Obj(c)
      BY <1>2, Starts
    <2> HIDE DEF Rewired
    <2> QED
      BY <1>2, <2>1 DEF Needed
  <1>5. \A o \in Objects :
            /\ <<o, "o">> \in Files /\ <<o, "d">> \in Files
            /\ tree'[<<o, "d">>] = tree[<<o, "d">>]
            /\ o \notin Changing(new) => tree'[<<o, "o">>] = tree[<<o, "o">>]
            /\ o \in Changing(new) =>
                  tree'[<<o, "o">>] = IF driverOption.android THEN Linked(o, new) ELSE "none"
    <2>1. ASSUME NEW o \in Objects
          PROVE  /\ <<o, "o">> \in Files /\ <<o, "d">> \in Files
                 /\ <<o, "o">>[1] = o /\ <<o, "o">>[2] = "o" /\ <<o, "d">>[2] = "d"
      BY FilesOf
    <2> QED
      BY <1>4, <2>1
  <1>6. tree' \in [Files -> Contents]
    <2>1. ASSUME NEW f \in Files
          PROVE  Rewired(new)[f] \in Contents
      <3>1. f[1] \in Objects /\ <<f[1], "o">> \in Files
        BY FilesOf DEF Files
      <3>2. Linked(f[1], new) \in Contents /\ tree[f] \in Contents /\ "none" \in Contents
        BY <1>1, <1>3, <3>1 DEF Contents
      <3> HIDE DEF Linked
      <3> QED
        BY <3>2
    <2> QED
      BY <1>4, <2>1
  <1>7. DriverTypes'
    BY <1>1, <1>4, <1>6 DEF DriverTypes, Populating, TriageSteps, Caches, Obj, Dep
  <1>8. ~torn => \A k \in Caches, f \in Files : cache[k][f] # "part"
    BY <1>1, NothingCopied
  <1>9. CachesHold'
    BY <1>1, <1>8 DEF CachesHold
  <1> HIDE DEF Rewired
  <1>10. ASSUME NEW o \in list["good"], ObjectsSure, driverOption.android
         PROVE  Linked(o, new) = Side(o, new)
    <2>1. o \in Objects /\ o \in list[Side(o, new)]
      BY <1>1, <1>10 DEF ListsCompared
    <2>2. Side(o, new) \in Caches /\ <<o, "o">> \in Files
      BY <1>3, <2>1, FilesOf
    <2> HIDE DEF Side
    <2>3. /\ cache[Side(o, new)][<<o, "o">>] \in {"none", "part", Side(o, new)}
          /\ cache[Side(o, new)][<<o, "o">>] # "none"
          /\ ~driverOption.redundancy => cache[Side(o, new)][<<o, "o">>] = Side(o, new)
      <3>1. CachesHold
        BY <1>1
      <3> QED
        BY <2>1, <2>2, <3>1 DEF CachesHold
    <2>4. ~torn => cache[Side(o, new)][<<o, "o">>] # "part"
      BY <1>8, <2>2
    <2> QED
      BY <1>10, <2>3, <2>4 DEF ObjectsSure
  <1>11. ASSUME NEW o \in list["good"], o \notin Changing(new)
         PROVE  o \in switched /\ Asked(o) = Side(o, new)
    BY <1>11 DEF Changing, Asked
  <1> HIDE DEF Side, Linked
  <1>12. ASSUME NEW o \in list["good"], ObjectsSure
         PROVE  ObjectComes(o)'
    <2>1. o \in Objects /\ Side(o, new) # "none" /\ Side(o, new) # "part"
      BY <1>1, <1>3 DEF Caches
    <2>2. /\ tree'[<<o, "o">>] \in {"none", Side(o, new)}
          /\ driverOption.android => tree'[<<o, "o">>] = Side(o, new)
      <3>1. CASE o \in Changing(new)
        BY <1>5, <1>10, <1>12, <2>1, <3>1
      <3>2. CASE o \notin Changing(new)
        BY <1>1, <1>5, <1>11, <1>12, <2>1, <3>2 DEF BetweenBuilds
      <3> QED
        BY <3>1, <3>2
    <2>3. tree'[<<o, "o">>] = "none" => \E c \in Compilations : ObjectOf[c] = o /\ at'[c] # "end"
      <3>1. PICK c \in driverOption.build : ObjectOf[c] = o
        BY <1>1 DEF CachesHold, Caches
      <3>2. c \in Compilations
        BY <1>1, <3>1, DriverAssumption DEF DriverTypes
      <3> QED
        BY <1>4, <3>1, <3>2 DEF Obj
    <2> QED
      BY <1>1, <1>3, <2>1, <2>2, <2>3 DEF ObjectComes
  <1>13. ASSUME NEW o \in list["good"], DepsSure, tree'[<<o, "o">>] # "none"
         PROVE  DepComes(o)'
    <2>1. o \in Objects /\ ~driverOption.android
      BY <1>1, <1>13 DEF DepsSure
    <2>2. o \notin Changing(new) /\ tree[<<o, "o">>] # "none"
      BY <1>5, <1>13, <2>1
    <2>3. tree[<<o, "d">>] = Asked(o)
      BY <1>1, <1>11, <1>13, <2>2 DEF BetweenBuilds
    <2> QED
      BY <1>3, <1>5, <1>11, <2>1, <2>2, <2>3 DEF DepComes
  <1>14. TriageHolds'
    <2>1. /\ ObjectsSure' <=> ObjectsSure
          /\ DepsSure' <=> DepsSure
      BY <1>1 DEF ObjectsSure, DepsSure
    <2> QED
      BY <1>1, <1>4, <1>12, <1>13, <2>1 DEF TriageHolds
  <1>15. PopulateHolds' /\ ListsCompared' /\ BetweenBuilds'
    BY <1>1 DEF PopulateHolds, ListsCompared, BetweenBuilds, Populating, Caches
  <1> QED
    BY <1>7, <1>9, <1>14, <1>15 DEF DriverInv

LEMMA KillStep ==
    ASSUME DriverInv, Kill
    PROVE  DriverInv'
  <1>1. /\ UNCHANGED <<driverOption, badSet, switches, cache, list>>
        /\ DriverTypes /\ CachesHold /\ PopulateHolds /\ ListsCompared
    BY DEF Kill, DriverInv
  <1>2. CASE Populating
    <2>1. /\ Start(Needed(tree), tree) /\ torn' = TRUE /\ UNCHANGED <<stage, switched>>
          /\ stage \in Caches
      BY <1>2 DEF Kill, Populating
    <2>2. /\ DOMAIN at' = Compilations /\ DOMAIN file' = Compilations /\ tree' = tree
          /\ \A c \in Compilations : /\ at'[c] = (IF c \in Needed(tree) THEN "start" ELSE "end")
                                     /\ file'[c] = Obj(c)
      BY <2>1, Starts
    <2>3. DriverTypes'
      BY <1>1, <1>2, <2>1, <2>2 DEF DriverTypes, Populating, CompileSteps, Needed, Obj, Dep
    <2>4. CachesHold'
      BY <1>1, <2>1 DEF CachesHold
    <2>5. PopulateHolds'
      BY <1>1, <1>2, <2>1, <2>2 DEF PopulateHolds, Populating
    <2> QED
      BY <2>1, <2>3, <2>4, <2>5 DEF DriverInv, ListsCompared, TriageHolds, BetweenBuilds, Caches
  <1>3. CASE ~Populating
    <2>1. /\ stage = "triage" /\ stage' = "ready" /\ switched' = {} /\ UNCHANGED <<at, file, tree, torn>>
      BY <1>3 DEF Kill, Populating, Caches, SwitchedAfterResume
    <2>2. DriverTypes' /\ PopulateHolds' /\ ListsCompared' /\ BetweenBuilds'
      BY <1>1, <1>3, <2>1 DEF DriverTypes, PopulateHolds, ListsCompared, BetweenBuilds, Populating, Caches, Obj, Dep
    <2>3. CachesHold'
      <3>1. ~torn => \A k \in Caches, f \in Files : cache[k][f] \in {"none", k}
        BY <2>1, InTriage
      <3>2. ~torn => \A k \in Caches, f \in Files : cache[k][f] # "part"
        BY <3>1 DEF Caches
      <3> QED
        BY <1>1, <2>1, <3>2 DEF CachesHold
    <2> QED
      BY <2>1, <2>2, <2>3 DEF DriverInv, TriageHolds
  <1> QED
    BY <1>2, <1>3

\* In a build that fills a cache nothing is said of the builds to come.
LEMMA StillPopulating ==
    ASSUME Populating, UNCHANGED stage, DriverTypes' /\ CachesHold' /\ PopulateHolds'
    PROVE  DriverInv'
  BY DEF DriverInv, Populating, ListsCompared, TriageHolds, BetweenBuilds, Caches

LEMMA DriverNext1 ==
    ASSUME DriverInv, ~(driverOption.android /\ driverOption.safe), [DriverNext]_driverVars
    PROVE  DriverInv'
  <1>1. ASSUME NEW c \in Compilations, CompileToCache(c)
        PROVE  DriverInv'
    BY <1>1, CompileToCacheStep, StillPopulating DEF CompileToCache
  <1>2. ASSUME NEW c \in Compilations, CacheFile(c)
        PROVE  DriverInv'
    BY <1>2, CacheFileStep, AtPopulating, StillPopulating DEF CacheFile
  <1>3. ASSUME NEW c \in Compilations, OpenCopy(c)
        PROVE  DriverInv'
    BY <1>3, OpenCopyStep, AtPopulating, StillPopulating DEF OpenCopy
  <1>4. ASSUME NEW c \in Compilations, EndCopy(c)
        PROVE  DriverInv'
    BY <1>4, EndCopyStep, AtPopulating, StillPopulating DEF EndCopy
  <1>5. ASSUME NEW c \in Compilations, AppendToList(c)
        PROVE  DriverInv'
    BY <1>5, AppendToListStep, AtPopulating, StillPopulating DEF AppendToList
  <1>6. ASSUME NEW c \in Compilations, Triage(c) \/ RestoreFile(c) \/ CopyBack(c)
        PROVE  DriverInv'
    BY <1>6, TriageStep, RestoreFileStep, CopyBackStep
  <1>7. CASE UNCHANGED driverVars
    BY <1>7 DEF driverVars, settings, DriverInv, DriverTypes, CachesHold, PopulateHolds, ListsCompared,
                TriageHolds, BetweenBuilds, Populating, ObjectsSure, DepsSure, ObjectComes, DepComes,
                Copying, Asked, WhichCache, Obj, Dep
  <1>8. CASE DriverEnded
    BY <1>7, <1>8 DEF DriverEnded
  <1> QED
    BY <1>1, <1>2, <1>3, <1>4, <1>5, <1>6, <1>7, <1>8,
       PopulateEndsStep, TriageEndsStep, SwitchStep, KillStep DEF DriverNext

LEMMA DriverInvSuffices ==
    ASSUME DriverInv
    PROVE  BuildIsAsAsked
  <1>1. ASSUME stage = "built", NEW o \in list["good"]
        PROVE  /\ ObjectsSure => tree[<<o, "o">>] = Asked(o)
               /\ DepsSure => tree[<<o, "d">>] = Asked(o)
    <2>1. o \in switched
      BY <1>1 DEF DriverInv, BetweenBuilds
    <2>2. DepsSure => ObjectsSure
      BY DEF DepsSure, ObjectsSure
    <2>3. Asked(o) # "none"
      BY DEF Asked
    <2> QED
      BY <1>1, <2>1, <2>2, <2>3 DEF DriverInv, BetweenBuilds
  <1> QED
    BY <1>1 DEF BuildIsAsAsked, ObjectsSure, DepsSure, Asked

\* For any compilations of any objects: a build of the wrapper that ends without
\* an error has the objects and the dependency files of the sets that the tool
\* asked for, after any switches, failed builds and kills.  The safe mode must not
\* be combined with the android scripts: there WhichCache restores everything
\* from the bad build.
THEOREM BuildsWhatIsAsked ==
    ASSUME \A o \in DriverOptions : ~(o.android /\ o.safe)
    PROVE  DriverSpec => []BuildIsAsAsked
  <1>1. DriverInit => DriverInv
    BY DriverInit1
  <1>2. DriverInv /\ [DriverNext]_driverVars => DriverInv'
    <2> SUFFICES ASSUME DriverInv, [DriverNext]_driverVars
                 PROVE  DriverInv'
      OBVIOUS
    <2>1. ~(driverOption.android /\ driverOption.safe)
      BY DEF DriverInv, DriverTypes
    <2> QED
      BY <2>1, DriverNext1
  <1>3. DriverInv => BuildIsAsAsked
    BY DriverInvSuffices
  <1> QED
    BY <1>1, <1>2, <1>3, PTL DEF DriverSpec

-----------------------------------------------------------------------------
(* The plan of the machine image manager *)

Plan == InitialAllocation(BlankMatrix(remote))

\* A label that has not been imaged still has the row of the plan.
PlanInv ==
    /\ remote \in [Labels -> SUBSET Duts]
    /\ imaged \in [Labels -> Nat]
    /\ pending \in [Labels -> 0 .. MaxPending]
    /\ matrix \in Matrix
    /\ \A l \in Labels : imaged[l] = 0 => matrix[l] = Plan[l]

LEMMA PlanRows ==
    /\ Plan \in Matrix
    /\ \A l \in Labels, d \in Duts :
          Plan[l][d] # "Y" => Plan[l][d] = IF Compatible(remote, l, d) THEN "free" ELSE "X"
  <1> DEFINE m == BlankMatrix(remote)
  <1>1. m \in Matrix /\ \A l \in Labels, d \in Duts :
            m[l][d] = IF Compatible(remote, l, d) THEN "free" ELSE "X"
    BY DEF BlankMatrix, Matrix, Cells
  <1>2. \E planned \in [Labels -> [Duts -> BOOLEAN]] :
            Plan = [l \in Labels |-> [d \in Duts |-> IF planned[l][d] THEN "Y" ELSE m[l][d]]]
    <2> DEFINE solution == IF Limits(m) = {} THEN [l \in Labels |-> 0] ELSE Search(m, FirstLimit(m))
               choice(l, d) == IF NDuts = 1 \/ NLabels = 1 THEN m[l][d] = "free"
                                                           ELSE solution[l] = d
               planned == [l \in Labels |-> [d \in Duts |-> choice(l, d)]]
    <2>1. Plan = [l \in Labels |-> [d \in Duts |-> IF choice(l, d) THEN "Y" ELSE m[l][d]]]
      BY DEF Plan, InitialAllocation
    <2>2. \A l, d : choice(l, d) \in BOOLEAN
      OBVIOUS
    <2> HIDE DEF choice, m
    <2>3. planned \in [Labels -> [Duts -> BOOLEAN]]
      BY <2>2
    <2>4. \A l \in Labels, d \in Duts : planned[l][d] <=> choice(l, d)
      BY <2>2
    <2>5. Plan = [l \in Labels |-> [d \in Duts |-> IF planned[l][d] THEN "Y" ELSE m[l][d]]]
      BY <2>1, <2>4
    <2> QED
      BY <2>3, <2>5
  <1> HIDE DEF m
  <1> QED
    BY <1>1, <1>2 DEF Matrix, Cells

LEMMA PlanInitInv ==
    ASSUME PlanInit
    PROVE  PlanInv
  BY PlanRows, MaxPendingAssumption DEF PlanInit, PlanInv, Plan

LEMMA PlanNextInv ==
    ASSUME PlanInv, [PlanNext]_planVars
    PROVE  PlanInv'
  <1>1. ASSUME NEW d \in Duts, Allocate(d)
        PROVE  PlanInv'
    <2>1. PICK l \in Labels : /\ matrix' = [matrix EXCEPT ![l][d] = "taken"]
                              /\ imaged' = [imaged EXCEPT ![l] = @ + 1]
                              /\ UNCHANGED <<remote, pending>>
      BY <1>1 DEF Allocate, NextLabel, LabelFor, LeastImaged, Wanted
    <2>2. Plan' = Plan
      BY <2>1 DEF Plan, InitialAllocation, BlankMatrix, Compatible
    <2>3. matrix' \in Matrix
      BY <2>1 DEF PlanInv, Matrix, Cells
    <2>4. imaged' \in [Labels -> Nat] /\ imaged'[l] # 0
      BY <2>1 DEF PlanInv
    <2>5. \A k \in Labels : k # l => imaged'[k] = imaged[k] /\ matrix'[k] = matrix[k]
      BY <2>1 DEF PlanInv, Matrix
    <2> QED
      BY <2>1, <2>2, <2>3, <2>4, <2>5 DEF PlanInv
  <1>2. ASSUME NEW l \in Labels, TakeRun(l)
        PROVE  PlanInv'
    <2>1. pending' = [pending EXCEPT ![l] = @ - 1] /\ UNCHANGED <<remote, matrix, imaged>>
      BY <1>2 DEF TakeRun
    <2>2. pending[l] \in 0 .. MaxPending /\ pending[l] > 0
      BY <1>2 DEF TakeRun, PlanInv
    <2>3. pending[l] - 1 \in 0 .. MaxPending
      BY <2>2, MaxPendingAssumption
    <2>4. pending' \in [Labels -> 0 .. MaxPending]
      BY <2>1, <2>3 DEF PlanInv
    <2> QED
      BY <2>1, <2>4 DEF PlanInv, Plan
  <1>3. CASE UNCHANGED planVars
    BY <1>3 DEF planVars, PlanInv, Plan
  <1> QED
    BY <1>1, <1>2, <1>3 DEF PlanNext, AllQuit

LEMMA PlanInvariant == PlanSpec => []PlanInv
  BY PlanInitInv, PlanNextInv, PTL DEF PlanSpec

\* allocate finds a label for a DUT whenever one is compatible, not yet imaged
\* on it, and has runs left.
LEMMA FindsLabel ==
    ASSUME PlanInv, NEW d \in Duts, NEW c \in {"Y", "free"}, Wanted(matrix, d, c, pending) # {}
    PROVE  NextLabel(d) # {}
  <1> DEFINE planned == Wanted(matrix, d, "Y", pending)
             free == Wanted(matrix, d, "free", pending)
  <1>1. Labels \subseteq Nat
    BY SizeAssumption DEF Labels
  <1>2. planned \subseteq Labels /\ free \subseteq Labels
    BY DEF Wanted
  <1>3. CASE planned # {}
    <2>1. NextLabel(d) = {l \in planned : \A k \in planned : l <= k}
      BY <1>3 DEF NextLabel, LabelFor
    <2>2. PICK l \in planned : \A k \in planned : l <= k
      BY <1>1, <1>2, <1>3, LeastNat
    <2> QED
      BY <2>1, <2>2
  <1>4. CASE planned = {}
    <2>1. NextLabel(d) = LeastImaged(matrix, d, imaged, pending)
      BY <1>4 DEF NextLabel, LabelFor
    <2>2. free # {}
      BY <1>4
    <2> HIDE DEF free
    <2>3. PICK i \in {imaged[l] : l \in free} : \A j \in {imaged[l] : l \in free} : i <= j
      <3>1. {imaged[l] : l \in free} \subseteq Nat /\ {imaged[l] : l \in free} # {}
        BY <1>2, <2>2 DEF PlanInv
      <3> QED
        BY <3>1, LeastNat
    <2> DEFINE first == {l \in free : imaged[l] = i}
    <2>4. first # {} /\ \A k \in free : i <= imaged[k]
      BY <2>3
    <2>5. first \subseteq Labels /\ first # {}
      BY <1>2, <2>4
    <2> HIDE DEF first
    <2>6. PICK g \in {MaxPending - pending[l] : l \in first} :
              \A j \in {MaxPending - pending[l] : l \in first} : g <= j
      <3>1. {MaxPending - pending[l] : l \in first} \subseteq Nat
        BY <2>5, MaxPendingAssumption DEF PlanInv
      <3>2. {MaxPending - pending[l] : l \in first} # {}
        BY <2>5
      <3> QED
        BY <3>1, <3>2, LeastNat
    <2> DEFINE busiest == {l \in first : MaxPending - pending[l] = g}
    <2>7. busiest # {} /\ busiest \subseteq Labels
      BY <2>5, <2>6
    <2>8. ASSUME NEW k \in first, NEW l \in busiest
          PROVE  pending[k] <= pending[l]
      <3>1. g <= MaxPending - pending[k] /\ MaxPending - pending[l] = g
        BY <2>6
      <3>2. pending[k] \in Nat /\ pending[l] \in Nat
        BY <2>5, <2>7, MaxPendingAssumption DEF PlanInv
      <3> QED
        BY <3>1, <3>2, MaxPendingAssumption
    <2>9. \A l \in busiest : l \in first
      OBVIOUS
    <2>10. \A k \in first : k \notin busiest => MaxPending - pending[k] # g
      OBVIOUS
    <2> HIDE DEF busiest
    <2>11. PICK h \in {NLabels - l : l \in busiest} : \A j \in {NLabels - l : l \in busiest} : h <= j
      <3>1. {NLabels - l : l \in busiest} \subseteq Nat
        BY <2>7, SizeAssumption DEF Labels
      <3>2. {NLabels - l : l \in busiest} # {}
        BY <2>7
      <3> QED
        BY <3>1, <3>2, LeastNat
    <2>12. PICK l \in busiest : NLabels - l = h
      BY <2>11
    <2>13. \A k \in busiest : k <= l
      BY <2>7, <2>11, <2>12, SizeAssumption DEF Labels
    <2>14. l \in free /\ imaged[l] = i
      BY <2>9, <2>12 DEF first
    <2>15. l \in LeastImaged(matrix, d, imaged, pending)
      <3>1. SUFFICES ASSUME NEW k \in free
                     PROVE  \/ imaged[k] > imaged[l]
                            \/ imaged[k] = imaged[l] /\ pending[k] < pending[l]
                            \/ imaged[k] = imaged[l] /\ pending[k] = pending[l] /\ k <= l
        BY <2>14 DEF LeastImaged, free
      <3>2. /\ imaged[k] \in Nat /\ imaged[l] \in Nat
            /\ pending[k] \in Int /\ pending[l] \in Int
        BY <1>2, <2>14, MaxPendingAssumption DEF PlanInv
      <3>3. CASE k \notin first
        BY <2>4, <2>14, <3>1, <3>2, <3>3 DEF first
      <3>4. CASE k \in first /\ k \notin busiest
        <4>1. pending[k] # pending[l]
          BY <2>10, <2>12, <3>4, <2>5, <2>7 DEF busiest
        <4> QED
          BY <2>8, <2>12, <2>14, <3>2, <3>4, <4>1 DEF first
      <3>5. CASE k \in busiest
        <4>1. pending[k] = pending[l]
          BY <2>8, <2>9, <2>12, <3>2, <3>5
        <4>2. imaged[k] = i
          BY <2>9, <3>5 DEF first
        <4> QED
          BY <2>13, <2>14, <3>5, <4>1, <4>2
      <3> QED
        BY <3>3, <3>4, <3>5
    <2> QED
      BY <2>1, <2>15
  <1> QED
    BY <1>3, <1>4

\* A label with runs left that has not been imaged still has the row of the
\* plan, so some DUT is told to take it.
LEMMA NobodyFromInv ==
    ASSUME PlanInv
    PROVE  NobodyLeftBehind
  <1> SUFFICES ASSUME NEW l \in Labels, pending[l] > 0, ~ (imaged[l] > 0)
               PROVE  \E d \in Duts : NextLabel(d) # {}
    BY DEF NobodyLeftBehind
  <1>1. matrix[l] = Plan[l]
    BY DEF PlanInv
  <1>2. PICK d \in Duts : Compatible(remote, l, d)
    BY SizeAssumption DEF PlanInv, Compatible, Duts
  <1>3. matrix[l][d] \in {"Y", "free"}
    BY <1>1, <1>2, PlanRows
  <1>4. l \in Wanted(matrix, d, matrix[l][d], pending)
    BY DEF Wanted
  <1>5. Wanted(matrix, d, matrix[l][d], pending) # {}
    BY <1>4
  <1> QED
    BY <1>3, <1>5, FindsLabel

\* When allocate has no label left for any DUT, every label with runs left has
\* been imaged on some DUT.
THEOREM NobodyIsLeft == PlanSpec => []NobodyLeftBehind
  BY PlanInvariant, NobodyFromInv, PTL

-----------------------------------------------------------------------------
(* The backtracking search of compute_initial_allocation is exact *)

\* One step of the search, with g for the rest of it.
SearchStep(m, n, g, a) ==
    IF Len(a) = NLabels THEN a
    ELSE LET found == {d \in Duts : MayPlan(m, a, d, n) /\ g[Append(a, d)] # <<>>}
         IN  IF found = {} THEN <<>>
             ELSE g[Append(a, CHOOSE d \in found : \A e \in found : d <= e)]

SearchFunction(m, n, g) == g = [a \in Partial |-> SearchStep(m, n, g, a)]

LEMMA SearchDef ==
    ASSUME NEW m, NEW n
    PROVE  Search(m, n) = (CHOOSE g : SearchFunction(m, n, g))[<<>>]
  BY DEF Search, SearchFunction, SearchStep

LEMMA PartialLen ==
    /\ <<>> \in Partial /\ Len(<<>>) = 0
    /\ \A a \in Partial :
          /\ Len(a) \in 0 .. NLabels
          /\ a \in Seq(Duts)
          /\ a \in [1 .. Len(a) -> Duts]
  <1>1. ASSUME NEW k \in 0 .. NLabels, NEW a \in [1 .. k -> Duts]
        PROVE  a \in Seq(Duts) /\ Len(a) = k
    BY <1>1, SizeAssumption
  <1>2. <<>> \in [1 .. 0 -> Duts]
    OBVIOUS
  <1>3. 0 \in 0 .. NLabels
    BY SizeAssumption
  <1>4. <<>> \in Partial
    BY <1>2, <1>3 DEF Partial
  <1> QED
    BY <1>1, <1>4 DEF Partial

LEMMA PartialAppend ==
    ASSUME NEW a \in Partial, Len(a) # NLabels, NEW d \in Duts
    PROVE  /\ Append(a, d) \in Partial
           /\ Len(Append(a, d)) = Len(a) + 1
           /\ Append(a, d)[Len(a) + 1] = d
           /\ \A l \in 1 .. Len(a) : Append(a, d)[l] = a[l]
  <1>1. a \in Seq(Duts) /\ Len(a) \in 0 .. NLabels
    BY PartialLen
  <1>2. Len(a) + 1 \in 0 .. NLabels
    BY <1>1, SizeAssumption
  <1>3. Append(a, d) \in Seq(Duts) /\ Len(Append(a, d)) = Len(a) + 1
    BY <1>1, AppendProperties
  <1>4. Append(a, d)[Len(a) + 1] = d /\ \A l \in 1 .. Len(a) : Append(a, d)[l] = a[l]
    BY <1>1, AppendProperties
  <1>5. Append(a, d) \in [1 .. Len(Append(a, d)) -> Duts]
    BY <1>3, LenProperties
  <1>6. Append(a, d) \in Partial
    BY <1>2, <1>3, <1>5 DEF Partial
  <1> QED
    BY <1>3, <1>4, <1>6

\* A step depends on the rest of the search only.
LEMMA StepAgrees ==
    ASSUME NEW m, NEW n, NEW g, NEW h, NEW a \in Partial,
           Len(a) # NLabels => \A d \in Duts : g[Append(a, d)] = h[Append(a, d)]
    PROVE  SearchStep(m, n, g, a) = SearchStep(m, n, h, a)
  <1>1. CASE Len(a) = NLabels
    BY <1>1 DEF SearchStep
  <1>2. CASE Len(a) # NLabels
    <2> DEFINE fg == {d \in Duts : MayPlan(m, a, d, n) /\ g[Append(a, d)] # <<>>}
               fh == {d \in Duts : MayPlan(m, a, d, n) /\ h[Append(a, d)] # <<>>}
               least(s) == CHOOSE d \in s : \A e \in s : d <= e
    <2>1. fg = fh
      BY <1>2
    <2>2. fg # {} => least(fg) \in Duts
      <3>1. fg \subseteq Duts /\ Duts \subseteq Nat
        BY SizeAssumption DEF Duts
      <3> HIDE DEF fg
      <3>2. ASSUME fg # {}
            PROVE  \E d \in fg : \A e \in fg : d <= e
        BY <3>1, <3>2, LeastNat
      <3> QED
        BY <3>1, <3>2
    <2>3. SearchStep(m, n, g, a) = IF fg = {} THEN <<>> ELSE g[Append(a, least(fg))]
      BY <1>2 DEF SearchStep
    <2>4. SearchStep(m, n, h, a) = IF fh = {} THEN <<>> ELSE h[Append(a, least(fh))]
      BY <1>2 DEF SearchStep
    <2> HIDE DEF fg, fh, least
    <2> QED
      BY <1>2, <2>1, <2>2, <2>3, <2>4
  <1> QED
    BY <1>1, <1>2

LEMMA SearchFunctionExists ==
    ASSUME NEW m, NEW n
    PROVE  \E g : SearchFunction(m, n, g)
  <1> DEFINE Upto(k, g) == \A a \in Partial : Len(a) + k >= NLabels => g[a] = SearchStep(m, n, g, a)
             T == {k \in Nat : \E g : g = [a \in Partial |-> g[a]] /\ Upto(k, g)}
  <1>1. 0 \in T
    <2> DEFINE g == [a \in Partial |-> a]
    <2>1. Upto(0, g)
      BY PartialLen, SizeAssumption DEF SearchStep
    <2> QED
      BY <2>1
  <1>2. ASSUME NEW k \in T
        PROVE  k + 1 \in T
    <2>1. PICK g : g = [a \in Partial |-> g[a]] /\ Upto(k, g)
      OBVIOUS
    <2> DEFINE h == [a \in Partial |-> IF Len(a) + k >= NLabels THEN g[a] ELSE SearchStep(m, n, g, a)]
    <2>2. ASSUME NEW a \in Partial, Len(a) + (k + 1) >= NLabels
          PROVE  h[a] = SearchStep(m, n, h, a)
      <3>1. h[a] = SearchStep(m, n, g, a)
        BY <2>1
      <3>2. ASSUME Len(a) # NLabels, NEW d \in Duts
            PROVE  g[Append(a, d)] = h[Append(a, d)]
        <4>1. Append(a, d) \in Partial /\ Len(Append(a, d)) = Len(a) + 1
          BY <3>2, PartialAppend
        <4>2. Len(a) \in Nat /\ k \in Nat
          BY PartialLen
        <4>3. Len(Append(a, d)) + k >= NLabels
          BY <2>2, <4>1, <4>2, SizeAssumption
        <4> QED
          BY <4>1, <4>3
      <3> HIDE DEF h
      <3> QED
        BY <3>1, <3>2, StepAgrees
    <2>3. h = [a \in Partial |-> h[a]]
      OBVIOUS
    <2> HIDE DEF h
    <2>4. Upto(k + 1, h)
      BY <2>2
    <2> QED
      BY <2>3, <2>4
  <1>3. T \subseteq Nat
    OBVIOUS
  <1> HIDE DEF T
  <1>4. T = Nat
    BY <1>1, <1>2, <1>3, InductiveSet
  <1>5. NLabels \in T
    BY <1>4, SizeAssumption
  <1>6. PICK g : g = [a \in Partial |-> g[a]] /\ Upto(NLabels, g)
    BY <1>5 DEF T
  <1>7. \A a \in Partial : g[a] = SearchStep(m, n, g, a)
    BY <1>6, PartialLen, SizeAssumption
  <1>8. g = [a \in Partial |-> SearchStep(m, n, g, a)]
    BY <1>6, <1>7
  <1> QED
    BY <1>8 DEF SearchFunction

\* A partial solution so far: every label on a DUT it is compatible with, no
\* DUT with more than n labels.
SoundSoFar(m, n, a) ==
    /\ \A l \in 1 .. Len(a) : m[l][a[l]] = "free"
    /\ \A d \in Duts : Planned(a, d) <= n

\* The whole solutions of a matrix.
Solves(m, n) ==
    {f \in [Labels -> Duts] :
        /\ \A l \in Labels : m[l][f[l]] = "free"
        /\ \A d \in Duts : Cardinality({l \in Labels : f[l] = d}) <= n}

\* The first k labels that an assignment gives to a DUT.
Column(f, k, d) == {l \in 1 .. k : f[l] = d}

LEMMA ColumnsFinite ==
    ASSUME NEW f, NEW k \in Nat, NEW d
    PROVE  /\ IsFiniteSet(Column(f, k, d))
           /\ Cardinality(Column(f, k, d)) \in Nat
           /\ Cardinality(Column(f, k, d)) <= k
  <1>1. IsFiniteSet(1 .. k) /\ Cardinality(1 .. k) = k
    BY FS_Interval
  <1>2. Column(f, k, d) \subseteq 1 .. k
    BY DEF Column
  <1> QED
    BY <1>1, <1>2, FS_Subset, FS_CardinalityType

\* The columns of a partial solution with one label more.
LEMMA PlannedAppend ==
    ASSUME NEW a \in Partial, Len(a) # NLabels, NEW d \in Duts, NEW c \in Duts
    PROVE  /\ Planned(a, c) \in Nat
           /\ Planned(Append(a, d), c) = IF c = d THEN Planned(a, c) + 1 ELSE Planned(a, c)
  <1> DEFINE b == Append(a, d)
             k == Len(a)
             S == Column(a, k, c)
  <1>1. k \in Nat /\ DOMAIN a = 1 .. k
    BY PartialLen
  <1>2. b \in Partial /\ Len(b) = k + 1 /\ b[k + 1] = d /\ \A l \in 1 .. k : b[l] = a[l]
    BY PartialAppend
  <1>3. DOMAIN b = 1 .. (k + 1)
    BY <1>2, PartialLen
  <1> HIDE DEF b, k
  <1>4. IsFiniteSet(S) /\ Cardinality(S) \in Nat
    BY <1>1, ColumnsFinite
  <1>5. k + 1 \notin S
    BY <1>1 DEF Column
  <1>6. Planned(a, c) = Cardinality(S)
    BY <1>1 DEF Planned, Column
  <1>7. Planned(b, c) = Cardinality(Column(b, k + 1, c))
    BY <1>3 DEF Planned, Column
  <1>8. CASE c = d
    <2>1. Column(b, k + 1, c) = S \cup {k + 1}
      BY <1>1, <1>2, <1>8 DEF Column
    <2> HIDE DEF S
    <2>2. Cardinality(S \cup {k + 1}) = Cardinality(S) + 1
      BY <1>4, <1>5, FS_AddElement
    <2> QED
      BY <1>4, <1>6, <1>7, <1>8, <2>1, <2>2 DEF b
  <1>9. CASE c # d
    <2>1. Column(b, k + 1, c) = S
      BY <1>1, <1>2, <1>9 DEF Column
    <2> HIDE DEF S
    <2> QED
      BY <1>4, <1>6, <1>7, <1>9, <2>1 DEF b
  <1> QED
    BY <1>8, <1>9

\* The least of some DUTs is one of them.
LEMMA LeastDut ==
    ASSUME NEW s, s \subseteq Duts, s # {}
    PROVE  (CHOOSE d \in s : \A e \in s : d <= e) \in s
  <1>1. s \subseteq Nat
    BY SizeAssumption DEF Duts
  <1>2. \E d \in s : \A e \in s : d <= e
    BY <1>1, LeastNat
  <1> QED
    BY <1>2

\* From a sound partial solution the search finds a solution, if it finds one,
\* and it finds one if a solution extends the partial one.
Exact(m, n, g, a) ==
    SoundSoFar(m, n, a) =>
        /\ g[a] # <<>> => g[a] \in Solves(m, n)
        /\ \A f \in Solves(m, n) : (\A l \in 1 .. Len(a) : f[l] = a[l]) => g[a] # <<>>

LEMMA WholeExact ==
    ASSUME NEW m, NEW n \in Nat, NEW g, NEW a \in Partial, Len(a) = NLabels,
           g[a] = SearchStep(m, n, g, a)
    PROVE  Exact(m, n, g, a)
  <1>1. g[a] = a
    BY DEF SearchStep
  <1>2. a # <<>>
    BY SizeAssumption, PartialLen
  <1>3. a \in [Labels -> Duts] /\ DOMAIN a = Labels
    BY PartialLen DEF Labels
  <1>4. SoundSoFar(m, n, a) => a \in Solves(m, n)
    BY <1>3 DEF SoundSoFar, Solves, Planned, Labels
  <1> QED
    BY <1>1, <1>2, <1>4 DEF Exact

\* A solution that extends a partial one says where the next label may go.
LEMMA NextLabelFits ==
    ASSUME NEW m, NEW n \in Nat, NEW a \in Partial, Len(a) # NLabels,
           NEW f \in Solves(m, n), \A l \in 1 .. Len(a) : f[l] = a[l]
    PROVE  /\ f[Len(a) + 1] \in Duts
           /\ MayPlan(m, a, f[Len(a) + 1], n)
           /\ \A l \in 1 .. (Len(a) + 1) : f[l] = Append(a, f[Len(a) + 1])[l]
  <1> DEFINE k == Len(a)
             d == f[k + 1]
             b == Append(a, d)
             whole == Column(f, NLabels, d)
             part == Column(b, k + 1, d)
  <1>1. k \in Nat /\ k + 1 \in 1 .. NLabels /\ 1 .. (k + 1) \subseteq 1 .. NLabels
    BY PartialLen, SizeAssumption
  <1>2. d \in Duts /\ m[k + 1][d] = "free" /\ Cardinality(whole) <= n
    BY <1>1 DEF Solves, Labels, Column
  <1>3. b \in Partial /\ Len(b) = k + 1 /\ b[k + 1] = d /\ \A l \in 1 .. k : b[l] = a[l]
    BY <1>2, PartialAppend
  <1>4. \A l \in 1 .. (k + 1) : f[l] = b[l]
    BY <1>1, <1>3
  <1>5. Planned(a, d) \in Nat /\ Planned(b, d) = Planned(a, d) + 1
    BY <1>2, PlannedAppend
  <1>6. Planned(b, d) = Cardinality(part)
    BY <1>3, PartialLen DEF Planned, Column
  <1>7. part \subseteq whole
    BY <1>1, <1>4 DEF Column
  <1>8. IsFiniteSet(whole) /\ Cardinality(whole) \in Nat
    BY ColumnsFinite, SizeAssumption
  <1> HIDE DEF part, whole
  <1>9. Cardinality(part) <= Cardinality(whole)
    BY <1>7, <1>8, FS_Subset
  <1>10. Planned(a, d) < n
    BY <1>2, <1>5, <1>6, <1>8, <1>9
  <1> QED
    BY <1>2, <1>4, <1>10 DEF MayPlan

LEMMA StepExact ==
    ASSUME NEW m, NEW n \in Nat, NEW g, NEW a \in Partial, Len(a) # NLabels,
           g[a] = SearchStep(m, n, g, a), \A d \in Duts : Exact(m, n, g, Append(a, d))
    PROVE  Exact(m, n, g, a)
  <1> DEFINE found == {d \in Duts : MayPlan(m, a, d, n) /\ g[Append(a, d)] # <<>>}
             least == CHOOSE d \in found : \A e \in found : d <= e
  <1>1. g[a] = IF found = {} THEN <<>> ELSE g[Append(a, least)]
    BY DEF SearchStep
  <1>2. found # {} => least \in found
    <2>1. found \subseteq Duts
      OBVIOUS
    <2> HIDE DEF found
    <2> QED
      BY <2>1, LeastDut
  <1> HIDE DEF least
  <1>3. ASSUME NEW d \in Duts, MayPlan(m, a, d, n), SoundSoFar(m, n, a)
        PROVE  SoundSoFar(m, n, Append(a, d))
    <2> DEFINE b == Append(a, d)
    <2>1. d \in Duts /\ m[Len(a) + 1][d] = "free" /\ Planned(a, d) < n
      BY <1>3 DEF MayPlan
    <2>2. Len(b) = Len(a) + 1 /\ b[Len(a) + 1] = d /\ \A l \in 1 .. Len(a) : b[l] = a[l]
      BY <2>1, PartialAppend
    <2>3. Len(a) \in Nat
      BY PartialLen
    <2>4. \A l \in 1 .. Len(a) : m[l][b[l]] = "free"
      BY <1>3, <2>2 DEF SoundSoFar
    <2>5. m[Len(a) + 1][b[Len(a) + 1]] = "free"
      BY <2>1, <2>2
    <2>6. \A c \in Duts : Planned(b, c) <= n
      <3>1. SUFFICES ASSUME NEW c \in Duts PROVE Planned(b, c) <= n
        OBVIOUS
      <3>2. Planned(a, c) \in Nat /\ Planned(b, c) = IF c = d THEN Planned(a, c) + 1 ELSE Planned(a, c)
        BY <2>1, PlannedAppend
      <3>3. Planned(a, c) <= n
        BY <1>3 DEF SoundSoFar
      <3> QED
        BY <2>1, <3>2, <3>3
    <2> HIDE DEF b
    <2>7. \A l \in 1 .. Len(b) : l = Len(a) + 1 \/ l \in 1 .. Len(a)
      BY <2>2, <2>3
    <2>8. \A l \in 1 .. Len(b) : m[l][b[l]] = "free"
      BY <2>4, <2>5, <2>7
    <2> QED
      BY <2>6, <2>8 DEF SoundSoFar, b
  <1>4. ASSUME SoundSoFar(m, n, a), g[a] # <<>>
        PROVE  g[a] \in Solves(m, n)
    <2>1. least \in found /\ g[a] = g[Append(a, least)]
      BY <1>1, <1>2, <1>4
    <2>2. least \in Duts /\ MayPlan(m, a, least, n)
      BY <2>1
    <2>3. SoundSoFar(m, n, Append(a, least))
      BY <1>3, <1>4, <2>2
    <2>4. Exact(m, n, g, Append(a, least))
      BY <2>2
    <2> QED
      BY <1>4, <2>1, <2>3, <2>4 DEF Exact
  <1>5. ASSUME SoundSoFar(m, n, a), NEW f \in Solves(m, n), \A l \in 1 .. Len(a) : f[l] = a[l]
        PROVE  g[a] # <<>>
    <2> DEFINE d == f[Len(a) + 1]
    <2>1. d \in Duts /\ MayPlan(m, a, d, n) /\ \A l \in 1 .. (Len(a) + 1) : f[l] = Append(a, d)[l]
      BY <1>5, NextLabelFits
    <2> HIDE DEF d
    <2>2. Len(Append(a, d)) = Len(a) + 1
      BY <2>1, PartialAppend
    <2>3. SoundSoFar(m, n, Append(a, d))
      BY <1>3, <1>5, <2>1
    <2>4. g[Append(a, d)] # <<>>
      BY <2>1, <2>2, <2>3 DEF Exact
    <2>5. d \in found
      BY <2>1, <2>4
    <2>6. least \in found /\ g[a] = g[Append(a, least)]
      BY <1>1, <1>2, <2>5
    <2> QED
      BY <2>6
  <1> HIDE DEF found
  <1> QED
    BY <1>4, <1>5 DEF Exact

\* The search finds a solution exactly when there is one.
LEMMA SearchExact ==
    ASSUME NEW m, NEW n \in Nat
    PROVE  /\ Search(m, n) # <<>> => Search(m, n) \in Solves(m, n)
           /\ Solves(m, n) # {} => Search(m, n) # <<>>
  <1> DEFINE g == CHOOSE g : SearchFunction(m, n, g)
  <1>1. \A a \in Partial : g[a] = SearchStep(m, n, g, a)
    <2>1. SearchFunction(m, n, g)
      BY SearchFunctionExists
    <2> HIDE DEF g
    <2> QED
      BY <2>1 DEF SearchFunction
  <1>2. Search(m, n) = g[<<>>]
    BY SearchDef
  <1> HIDE DEF g
  <1> DEFINE T == {k \in Nat : \A a \in Partial : Len(a) + k = NLabels => Exact(m, n, g, a)}
  <1>3. 0 \in T
    BY <1>1, WholeExact, PartialLen
  <1>4. ASSUME NEW k \in T
        PROVE  k + 1 \in T
    <2>1. SUFFICES ASSUME NEW a \in Partial, Len(a) + (k + 1) = NLabels
                   PROVE  Exact(m, n, g, a)
      OBVIOUS
    <2>2. Len(a) \in Nat /\ Len(a) # NLabels
      BY <2>1, PartialLen, SizeAssumption
    <2>3. ASSUME NEW d \in Duts
          PROVE  Exact(m, n, g, Append(a, d))
      <3>1. Append(a, d) \in Partial /\ Len(Append(a, d)) = Len(a) + 1
        BY <2>2, PartialAppend
      <3>2. Len(Append(a, d)) + k = NLabels
        BY <2>1, <2>2, <3>1
      <3> QED
        BY <3>1, <3>2
    <2>4. g[a] = SearchStep(m, n, g, a)
      BY <1>1
    <2> QED
      BY <2>2, <2>3, <2>4, StepExact
  <1>5. T \subseteq Nat
    OBVIOUS
  <1>6. NLabels \in T
    <2> HIDE DEF T
    <2>1. T = Nat
      BY <1>3, <1>4, <1>5, InductiveSet
    <2> QED
      BY <2>1, SizeAssumption
  <1>7. Exact(m, n, g, <<>>)
    BY <1>6, PartialLen, SizeAssumption
  <1>8. SoundSoFar(m, n, <<>>)
    <2>1. \A d : {l \in DOMAIN <<>> : <<>>[l] = d} = {}
      OBVIOUS
    <2>2. \A d \in Duts : Planned(<<>>, d) <= n
      BY <2>1, FS_EmptySet DEF Planned
    <2> QED
      BY <2>2, PartialLen DEF SoundSoFar
  <1>9. 1 .. Len(<<>>) = {}
    BY PartialLen
  <1> QED
    BY <1>2, <1>7, <1>8, <1>9 DEF Exact

\* The solutions of the plan's matrix are the assignments of the reference.
LEMMA SolvesSolutions ==
    ASSUME NEW n
    PROVE  Solves(BlankMatrix(remote), n) = Solutions(n)
  <1>1. ASSUME NEW l \in Labels, NEW d \in Duts
        PROVE  BlankMatrix(remote)[l][d] = "free" <=> Compatible(remote, l, d)
    BY DEF BlankMatrix
  <1>2. ASSUME NEW f \in [Labels -> Duts]
        PROVE  (\A l \in Labels : BlankMatrix(remote)[l][f[l]] = "free")
                   <=> (\A l \in Labels : Compatible(remote, l, f[l]))
    BY <1>1
  <1> QED
    BY <1>2 DEF Solves, Solutions

\* Without a limit that matters there is a solution.
LEMMA SomeSolution ==
    ASSUME remote \in [Labels -> SUBSET Duts]
    PROVE  Solutions(NLabels) # {}
  <1>1. ASSUME NEW l \in Labels
        PROVE  \E d \in Duts : Compatible(remote, l, d)
    BY SizeAssumption DEF Compatible, Duts
  <1> DEFINE f == [l \in Labels |-> CHOOSE d \in Duts : Compatible(remote, l, d)]
  <1>2. f \in [Labels -> Duts] /\ \A l \in Labels : Compatible(remote, l, f[l])
    BY <1>1
  <1> HIDE DEF f
  <1>3. ASSUME NEW d \in Duts
        PROVE  Cardinality({l \in Labels : f[l] = d}) <= NLabels
    BY ColumnsFinite, SizeAssumption DEF Column, Labels
  <1> QED
    BY <1>2, <1>3 DEF Solutions

\* Is n the least limit, from the first one on, for which there is a solution?
BestLimit(n) ==
    /\ n \in StartLimit .. NLabels
    /\ Solutions(n) # {}
    /\ \A k \in StartLimit .. (n - 1) : Solutions(k) = {}

LEMMA FirstLimitIsBest ==
    ASSUME remote \in [Labels -> SUBSET Duts], NDuts > 1
    PROVE  /\ Limits(BlankMatrix(remote)) # {}
           /\ BestLimit(FirstLimit(BlankMatrix(remote)))
           /\ \A n : BestLimit(n) => n = FirstLimit(BlankMatrix(remote))
  <1> DEFINE m == BlankMatrix(remote)
             limits == {n \in StartLimit .. NLabels : Solutions(n) # {}}
  <1>1. StartLimit \in Nat /\ StartLimit <= NLabels
    BY SizeAssumption DEF StartLimit
  <1>2. Limits(m) = limits
    <2>1. ASSUME NEW n \in StartLimit .. NLabels
          PROVE  Search(m, n) # <<>> <=> Solutions(n) # {}
      <3>1. n \in Nat
        BY <1>1, SizeAssumption
      <3>2. Solves(m, n) = Solutions(n)
        BY SolvesSolutions
      <3>3. /\ Search(m, n) # <<>> => Search(m, n) \in Solves(m, n)
            /\ Solves(m, n) # {} => Search(m, n) # <<>>
        BY <3>1, SearchExact
      <3> QED
        BY <3>2, <3>3
    <2> HIDE DEF m
    <2> QED
      BY <2>1 DEF Limits
  <1>3. NLabels \in limits
    BY <1>1, SomeSolution, SizeAssumption
  <1>4. limits \subseteq Nat /\ limits # {}
    BY <1>1, <1>3, SizeAssumption
  <1> HIDE DEF m
  <1> DEFINE first == FirstLimit(m)
  <1>5. first \in limits /\ \A k \in limits : first <= k
    <2>1. \E n \in limits : \A k \in limits : n <= k
      BY <1>4, LeastNat
    <2>2. first = CHOOSE n \in limits : \A k \in limits : n <= k
      BY <1>2 DEF FirstLimit
    <2> HIDE DEF limits, first
    <2> QED
      BY <2>1, <2>2
  <1> HIDE DEF first
  <1>6. BestLimit(first)
    BY <1>1, <1>5, SizeAssumption DEF BestLimit
  <1>7. ASSUME NEW n, BestLimit(n)
        PROVE  n = first
    <2>1. n \in limits
      BY <1>7 DEF BestLimit
    <2>2. first <= n /\ first \in StartLimit .. NLabels /\ Solutions(first) # {}
      BY <1>5, <2>1
    <2>3. ~ (first \in StartLimit .. (n - 1))
      BY <1>7, <2>2 DEF BestLimit
    <2>4. n \in Nat
      BY <1>4, <2>1
    <2> QED
      BY <1>1, <2>2, <2>3, <2>4, SizeAssumption
  <1> QED
    BY <1>2, <1>4, <1>6, <1>7 DEF m, first

\* With several labels and DUTs the plan is the solution of the search.
LEMMA PlanIsSearch ==
    ASSUME remote \in [Labels -> SUBSET Duts], NLabels > 1, NDuts > 1
    PROVE  \E f \in Solutions(FirstLimit(BlankMatrix(remote))) :
               \A l \in Labels, d \in Duts : Plan[l][d] = "Y" <=> f[l] = d
  <1> DEFINE m == BlankMatrix(remote)
             first == FirstLimit(m)
             f == Search(m, first)
  <1>1. Limits(m) # {} /\ first \in StartLimit .. NLabels /\ Solutions(first) # {}
    BY FirstLimitIsBest DEF BestLimit
  <1>2. first \in Nat
    BY <1>1, SizeAssumption DEF StartLimit
  <1>3. Solves(m, first) = Solutions(first)
    BY SolvesSolutions
  <1>4. f \in Solutions(first)
    BY <1>1, <1>2, <1>3, SearchExact
  <1>5. \A l \in Labels, d \in Duts : m[l][d] # "Y"
    BY DEF BlankMatrix
  <1>6. \A l \in Labels, d \in Duts : Plan[l][d] = IF f[l] = d THEN "Y" ELSE m[l][d]
    BY <1>1 DEF Plan, InitialAllocation
  <1> HIDE DEF m, f
  <1>7. \A l \in Labels, d \in Duts : Plan[l][d] = "Y" <=> f[l] = d
    BY <1>5, <1>6
  <1> QED
    BY <1>4, <1>7 DEF m

LEMMA BestFromInv ==
    ASSUME PlanInv
    PROVE  PlanIsBest
  <1> SUFFICES ASSUME \A l \in Labels : imaged[l] = 0, NLabels > 1, NDuts > 1
               PROVE  /\ \A l \in Labels : Cardinality({d \in Duts : matrix[l][d] = "Y"}) = 1
                      /\ [l \in Labels |-> CHOOSE d \in Duts : matrix[l][d] = "Y"] \in
                             Solutions(CHOOSE n \in StartLimit .. NLabels :
                                           /\ Solutions(n) # {}
                                           /\ \A k \in StartLimit .. (n - 1) : Solutions(k) = {})
    BY DEF PlanIsBest, StartLimit
  <1>1. remote \in [Labels -> SUBSET Duts] /\ \A l \in Labels : matrix[l] = Plan[l]
    BY DEF PlanInv
  <1> DEFINE first == FirstLimit(BlankMatrix(remote))
             best == CHOOSE n \in StartLimit .. NLabels :
                         /\ Solutions(n) # {}
                         /\ \A k \in StartLimit .. (n - 1) : Solutions(k) = {}
             chosen == [l \in Labels |-> CHOOSE d \in Duts : matrix[l][d] = "Y"]
  <1>2. PICK f \in Solutions(first) : \A l \in Labels, d \in Duts : Plan[l][d] = "Y" <=> f[l] = d
    BY <1>1, PlanIsSearch
  <1>3. f \in [Labels -> Duts]
    BY DEF Solutions
  <1>4. \A l \in Labels, d \in Duts : matrix[l][d] = "Y" <=> f[l] = d
    BY <1>1, <1>2
  <1>5. best = first
    <2>1. BestLimit(first) /\ \A n : BestLimit(n) => n = first
      BY <1>1, FirstLimitIsBest
    <2>2. best = CHOOSE n \in StartLimit .. NLabels : BestLimit(n)
      BY DEF BestLimit
    <2>3. first \in StartLimit .. NLabels
      BY <2>1 DEF BestLimit
    <2> HIDE DEF first, best
    <2> QED
      BY <2>1, <2>2, <2>3
  <1>6. chosen = f
    <2>1. \A l \in Labels : chosen[l] = f[l]
      BY <1>3, <1>4
    <2> QED
      BY <1>3, <2>1
  <1>7. ASSUME NEW l \in Labels
        PROVE  Cardinality({d \in Duts : matrix[l][d] = "Y"}) = 1
    <2>1. {d \in Duts : matrix[l][d] = "Y"} = {f[l]}
      BY <1>3, <1>4
    <2> QED
      BY <2>1, FS_Singleton
  <1> HIDE DEF chosen, best, first
  <1>8. chosen \in Solutions(best)
    BY <1>5, <1>6
  <1> QED
    BY <1>7, <1>8 DEF chosen, best

\* The plan that compute_initial_allocation makes for several labels and DUTs
\* gives every label one DUT that it is compatible with, and no DUT more labels
\* than the least limit for which that can be done, among those that the search
\* tries: from nl - nd + 1 (or 1) on.
THEOREM PlanIsAsGoodAsAny == PlanSpec => []PlanIsBest
  BY PlanInvariant, BestFromInv, PTL

-----------------------------------------------------------------------------
(* The analysis of the AFDO profiles *)

\* A function that is defined through its value at a smaller argument exists,
\* and its values are those at which the recursion stops.
Descends(g, dom, stop, out, next) ==
    g = [a \in dom |-> IF a \in stop THEN out[a] ELSE g[next[a]]]

LEMMA DescentDefined ==
    ASSUME NEW dom, NEW stop, NEW V, NEW out \in [dom -> V], NEW next \in [dom -> dom],
           NEW top \in Nat, NEW size \in [dom -> 0 .. top],
           \A a \in dom : a \notin stop => size[next[a]] < size[a]
    PROVE  /\ \E g : Descends(g, dom, stop, out, next)
           /\ \A g : Descends(g, dom, stop, out, next) => g \in [dom -> V]
  <1> DEFINE Here(g, a) == g[a] = IF a \in stop THEN out[a] ELSE g[next[a]]
             Upto(g, k) == \A a \in dom : size[a] <= k => Here(g, a)
  <1>1. \E g : Descends(g, dom, stop, out, next)
    <2> DEFINE T == {k \in Nat : \E g : g = [a \in dom |-> g[a]] /\ Upto(g, k)}
    <2>1. 0 \in T
      <3> DEFINE g == [a \in dom |-> out[a]]
      <3>1. \A a \in dom : size[a] <= 0 => a \in stop
        OBVIOUS
      <3>2. Upto(g, 0)
        BY <3>1
      <3> QED
        BY <3>2
    <2>2. ASSUME NEW k \in T
          PROVE  k + 1 \in T
      <3>1. PICK g : g = [a \in dom |-> g[a]] /\ Upto(g, k)
        OBVIOUS
      <3> DEFINE h == [a \in dom |-> IF a \in stop THEN out[a] ELSE g[next[a]]]
      <3>2. ASSUME NEW a \in dom, size[a] <= k
            PROVE  h[a] = g[a]
        BY <3>1, <3>2
      <3>3. ASSUME NEW a \in dom, size[a] <= k + 1
            PROVE  Here(h, a)
        <4>1. CASE a \in stop
          BY <4>1
        <4>2. CASE a \notin stop
          <5>1. next[a] \in dom /\ size[next[a]] < size[a]
            BY <4>2
          <5>2. size[next[a]] <= k
            BY <3>3, <5>1
          <5>3. h[next[a]] = g[next[a]]
            BY <3>2, <5>1, <5>2
          <5> QED
            BY <4>2, <5>3
        <4> QED
          BY <4>1, <4>2
      <3>4. h = [a \in dom |-> h[a]]
        OBVIOUS
      <3> HIDE DEF h
      <3>5. Upto(h, k + 1)
        BY <3>3
      <3> QED
        BY <3>4, <3>5
    <2>3. T \subseteq Nat
      OBVIOUS
    <2> HIDE DEF T
    <2>4. T = Nat
      BY <2>1, <2>2, <2>3, InductiveSet
    <2>5. PICK g : g = [a \in dom |-> g[a]] /\ Upto(g, top)
      BY <2>4 DEF T
    <2>6. \A a \in dom : size[a] <= top
      OBVIOUS
    <2>7. \A a \in dom : Here(g, a)
      BY <2>5, <2>6
    <2> QED
      BY <2>5, <2>7 DEF Descends
  <1>2. ASSUME NEW g, Descends(g, dom, stop, out, next)
        PROVE  g \in [dom -> V]
    <2> DEFINE T == {k \in Nat : \A a \in dom : size[a] <= k => g[a] \in V}
    <2>1. \A a \in dom : Here(g, a)
      BY <1>2 DEF Descends
    <2>2. 0 \in T
      BY <2>1
    <2>3. ASSUME NEW k \in T
          PROVE  k + 1 \in T
      <3>1. SUFFICES ASSUME NEW a \in dom, size[a] <= k + 1
                     PROVE  g[a] \in V
        OBVIOUS
      <3>2. CASE a \in stop
        BY <2>1, <3>2
      <3>3. CASE a \notin stop
        BY <2>1, <3>1, <3>3
      <3> QED
        BY <3>2, <3>3
    <2>4. T \subseteq Nat
      OBVIOUS
    <2> HIDE DEF T
    <2>5. T = Nat
      BY <2>2, <2>3, <2>4, InductiveSet
    <2>6. \A a \in dom : size[a] \in T
      BY <2>5
    <2>7. \A a \in dom : g[a] \in V
      BY <2>6 DEF T
    <2> QED
      BY <1>2, <2>7 DEF Descends
  <1> QED
    BY <1>1, <1>2

\* What find_upper_border and find_lower_border are called with.
UpperStates(n, below) == [lo : 0 .. n, hi : 0 .. n, last_bad_val : 0 .. n, rest : {below, {}}]

UpperNext(funcs, skipped, s) ==
    LET m == (s.lo + s.hi) \div 2
    IN  IF m \notin skipped /\ Problematic(s.rest \union Range(SubSeq(funcs, s.lo + 1, m)))
        THEN [s EXCEPT !.hi = m, !.last_bad_val = m, !.rest = {}]
        ELSE [s EXCEPT !.lo = m, !.rest = {}]

LEMMA UpperBorder ==
    ASSUME NEW funcs, Len(funcs) \in Nat, NEW mid \in 0 .. Len(funcs), NEW skipped
    PROVE  FindUpperBorder(funcs, mid, skipped) \in 0 .. Len(funcs)
  <1> DEFINE n == Len(funcs)
             below == Range(SubSeq(funcs, 1, mid))
             dom == UpperStates(n, below)
             m(s) == (s.lo + s.hi) \div 2
             stop == {s \in dom : m(s) \in {s.lo, s.hi}}
             out == [s \in dom |-> IF s.last_bad_val # 0 THEN s.last_bad_val ELSE s.hi]
             next == [s \in dom |-> IF s \in stop THEN s ELSE UpperNext(funcs, skipped, s)]
             size == [s \in dom |-> IF s.lo <= s.hi THEN s.hi - s.lo ELSE s.lo - s.hi]
             Calls(g) == g = [s \in dom |->
                                IF m(s) \in {s.lo, s.hi} THEN IF s.last_bad_val # 0 THEN s.last_bad_val ELSE s.hi
                                ELSE IF /\ m(s) \notin skipped
                                        /\ Problematic(s.rest \union Range(SubSeq(funcs, s.lo + 1, m(s))))
                                THEN g[[s EXCEPT !.hi = m(s), !.last_bad_val = m(s), !.rest = {}]]
                                ELSE g[[s EXCEPT !.lo = m(s), !.rest = {}]]]
             find == CHOOSE g : Calls(g)
             start == [lo |-> mid, hi |-> n, last_bad_val |-> 0, rest |-> below]
  <1>1. FindUpperBorder(funcs, mid, skipped) = find[start]
    BY DEF FindUpperBorder, UpperStates
  <1>2. start \in dom
    BY DEF UpperStates
  <1> HIDE DEF start, find, below, Calls
  <1> HIDE DEF dom
  <1>3. ASSUME NEW g
        PROVE  Calls(g) <=> Descends(g, dom, stop, out, next)
    <2> DEFINE one(s) == IF m(s) \in {s.lo, s.hi} THEN IF s.last_bad_val # 0 THEN s.last_bad_val ELSE s.hi
                         ELSE IF /\ m(s) \notin skipped
                                 /\ Problematic(s.rest \union Range(SubSeq(funcs, s.lo + 1, m(s))))
                         THEN g[[s EXCEPT !.hi = m(s), !.last_bad_val = m(s), !.rest = {}]]
                         ELSE g[[s EXCEPT !.lo = m(s), !.rest = {}]]
               two(s) == IF s \in stop THEN out[s] ELSE g[next[s]]
    <2>1. ASSUME NEW s \in dom
          PROVE  one(s) = two(s)
      <3>1. CASE s \in stop
        BY <3>1
      <3>2. CASE s \notin stop
        <4>1. next[s] = UpperNext(funcs, skipped, s) /\ m(s) \notin {s.lo, s.hi}
          BY <3>2
        <4>2. one(s) = g[UpperNext(funcs, skipped, s)]
          BY <4>1 DEF UpperNext
        <4> QED
          BY <3>2, <4>1, <4>2
      <3> QED
        BY <3>1, <3>2
    <2>2. Calls(g) <=> g = [s \in dom |-> one(s)]
      BY DEF Calls
    <2>3. Descends(g, dom, stop, out, next) <=> g = [s \in dom |-> two(s)]
      BY DEF Descends
    <2> HIDE DEF one, two
    <2> QED
      BY <2>1, <2>2, <2>3
  <1>4. ASSUME NEW s \in dom
        PROVE  /\ s.lo \in 0 .. n /\ s.hi \in 0 .. n /\ s.last_bad_val \in 0 .. n
               /\ s \notin stop =>
                      /\ UpperNext(funcs, skipped, s) \in dom
                      /\ size[UpperNext(funcs, skipped, s)] < size[s]
    <2>1. s \in UpperStates(n, below)
      BY DEF dom
    <2>2. /\ s.lo \in 0 .. n /\ s.hi \in 0 .. n /\ s.last_bad_val \in 0 .. n /\ s.rest \in {below, {}}
          /\ s = [lo |-> s.lo, hi |-> s.hi, last_bad_val |-> s.last_bad_val, rest |-> s.rest]
      BY <2>1 DEF UpperStates
    <2>3. ASSUME s \notin stop
          PROVE  /\ s.lo # s.hi /\ m(s) \in 0 .. n
                 /\ s.lo < s.hi => s.lo < m(s) /\ m(s) < s.hi
                 /\ s.hi < s.lo => s.hi < m(s) /\ m(s) < s.lo
      BY <2>2, <2>3
    <2> DEFINE down == [lo |-> s.lo, hi |-> m(s), last_bad_val |-> m(s), rest |-> {}]
               up == [lo |-> m(s), hi |-> s.hi, last_bad_val |-> s.last_bad_val, rest |-> {}]
    <2>4. UpperNext(funcs, skipped, s) \in {down, up}
      BY <2>2 DEF UpperNext
    <2>5. ASSUME s \notin stop
          PROVE  down \in dom /\ up \in dom
      BY <2>2, <2>3, <2>5 DEF UpperStates, dom
    <2>6. ASSUME s \notin stop
          PROVE  size[down] < size[s] /\ size[up] < size[s]
      BY <2>2, <2>3, <2>5, <2>6
    <2> QED
      BY <2>2, <2>4, <2>5, <2>6
  <1>5. size \in [dom -> 0 .. n] /\ out \in [dom -> 0 .. n] /\ next \in [dom -> dom]
    <2>1. next \in [dom -> dom]
      BY <1>4
    <2>2. out \in [dom -> 0 .. n]
      BY <1>4
    <2>3. ASSUME NEW s \in dom
          PROVE  size[s] \in 0 .. n
      <3>1. s.lo \in 0 .. n /\ s.hi \in 0 .. n
        BY <1>4
      <3>2. size[s] = IF s.lo <= s.hi THEN s.hi - s.lo ELSE s.lo - s.hi
        OBVIOUS
      <3> HIDE DEF size
      <3> QED
        BY <3>1, <3>2
    <2>4. size = [s \in dom |-> size[s]]
      OBVIOUS
    <2> HIDE DEF size
    <2> QED
      BY <2>1, <2>2, <2>3, <2>4
  <1>6. \A s \in dom : s \notin stop => size[next[s]] < size[s]
    BY <1>4
  <1> HIDE DEF stop, out, next, size
  <1>7. /\ \E g : Descends(g, dom, stop, out, next)
        /\ \A g : Descends(g, dom, stop, out, next) => g \in [dom -> 0 .. n]
    BY <1>5, <1>6, DescentDefined
  <1>8. Calls(find)
    BY <1>3, <1>7 DEF find
  <1>9. find \in [dom -> 0 .. n]
    BY <1>3, <1>7, <1>8
  <1> QED
    BY <1>1, <1>2, <1>9

LowerStates(n, upTo, whole) == [lo : 0 .. n, hi : 0 .. n, last_bad_val : 0 .. n, all : {upTo, whole}]

LowerNext(funcs, skipped, s) ==
    LET m == (s.lo + s.hi) \div 2
    IN  IF m \notin skipped /\ Problematic(s.all \ Range(SubSeq(funcs, s.lo + 1, m)))
        THEN [s EXCEPT !.lo = m, !.last_bad_val = s.lo, !.all = Range(funcs)]
        ELSE [s EXCEPT !.hi = m, !.all = Range(funcs)]

LEMMA LowerBorder ==
    ASSUME NEW funcs, Len(funcs) \in Nat, NEW mid \in 0 .. Len(funcs), NEW upper, NEW skipped
    PROVE  FindLowerBorder(funcs, mid, upper, skipped) \in 0 .. Len(funcs)
  <1> DEFINE n == Len(funcs)
             upTo == Range(SubSeq(funcs, 1, upper))
             whole == Range(funcs)
             dom == LowerStates(n, upTo, whole)
             m(s) == (s.lo + s.hi) \div 2
             stop == {s \in dom : m(s) \in {s.lo, s.hi}}
             out == [s \in dom |-> IF s.last_bad_val # 0 THEN s.last_bad_val ELSE s.lo]
             next == [s \in dom |-> IF s \in stop THEN s ELSE LowerNext(funcs, skipped, s)]
             size == [s \in dom |-> IF s.lo <= s.hi THEN s.hi - s.lo ELSE s.lo - s.hi]
             Calls(g) == g = [s \in dom |->
                                IF m(s) \in {s.lo, s.hi} THEN IF s.last_bad_val # 0 THEN s.last_bad_val ELSE s.lo
                                ELSE IF /\ m(s) \notin skipped
                                        /\ Problematic(s.all \ Range(SubSeq(funcs, s.lo + 1, m(s))))
                                THEN g[[s EXCEPT !.lo = m(s), !.last_bad_val = s.lo, !.all = whole]]
                                ELSE g[[s EXCEPT !.hi = m(s), !.all = whole]]]
             find == CHOOSE g : Calls(g)
             start == [lo |-> 0, hi |-> mid, last_bad_val |-> 0, all |-> upTo]
  <1>1. FindLowerBorder(funcs, mid, upper, skipped) = find[start]
    BY DEF FindLowerBorder, LowerStates
  <1>2. start \in dom
    BY DEF LowerStates
  <1> HIDE DEF start, find, upTo, whole, Calls
  <1> HIDE DEF dom
  <1>3. ASSUME NEW g
        PROVE  Calls(g) <=> Descends(g, dom, stop, out, next)
    <2> DEFINE one(s) == IF m(s) \in {s.lo, s.hi} THEN IF s.last_bad_val # 0 THEN s.last_bad_val ELSE s.lo
                         ELSE IF /\ m(s) \notin skipped
                                 /\ Problematic(s.all \ Range(SubSeq(funcs, s.lo + 1, m(s))))
                         THEN g[[s EXCEPT !.lo = m(s), !.last_bad_val = s.lo, !.all = whole]]
                         ELSE g[[s EXCEPT !.hi = m(s), !.all = whole]]
               two(s) == IF s \in stop THEN out[s] ELSE g[next[s]]
    <2>1. ASSUME NEW s \in dom
          PROVE  one(s) = two(s)
      <3>1. CASE s \in stop
        BY <3>1
      <3>2. CASE s \notin stop
        <4>1. next[s] = LowerNext(funcs, skipped, s) /\ m(s) \notin {s.lo, s.hi}
          BY <3>2
        <4>2. one(s) = g[LowerNext(funcs, skipped, s)]
          BY <4>1 DEF LowerNext, whole
        <4> QED
          BY <3>2, <4>1, <4>2
      <3> QED
        BY <3>1, <3>2
    <2>2. Calls(g) <=> g = [s \in dom |-> one(s)]
      BY DEF Calls
    <2>3. Descends(g, dom, stop, out, next) <=> g = [s \in dom |-> two(s)]
      BY DEF Descends
    <2> HIDE DEF one, two
    <2> QED
      BY <2>1, <2>2, <2>3
  <1>4. ASSUME NEW s \in dom
        PROVE  /\ s.lo \in 0 .. n /\ s.hi \in 0 .. n /\ s.last_bad_val \in 0 .. n
               /\ s \notin stop =>
                      /\ LowerNext(funcs, skipped, s) \in dom
                      /\ size[LowerNext(funcs, skipped, s)] < size[s]
    <2>1. s \in LowerStates(n, upTo, whole)
      BY DEF dom
    <2>2. /\ s.lo \in 0 .. n /\ s.hi \in 0 .. n /\ s.last_bad_val \in 0 .. n /\ s.all \in {upTo, whole}
          /\ s = [lo |-> s.lo, hi |-> s.hi, last_bad_val |-> s.last_bad_val, all |-> s.all]
      BY <2>1 DEF LowerStates
    <2>3. ASSUME s \notin stop
          PROVE  /\ s.lo # s.hi /\ m(s) \in 0 .. n
                 /\ s.lo < s.hi => s.lo < m(s) /\ m(s) < s.hi
                 /\ s.hi < s.lo => s.hi < m(s) /\ m(s) < s.lo
      BY <2>2, <2>3
    <2> DEFINE down == [lo |-> s.lo, hi |-> m(s), last_bad_val |-> s.last_bad_val, all |-> whole]
               up == [lo |-> m(s), hi |-> s.hi, last_bad_val |-> s.lo, all |-> whole]
    <2>4. LowerNext(funcs, skipped, s) \in {down, up}
      BY <2>2 DEF LowerNext, whole
    <2>5. ASSUME s \notin stop
          PROVE  down \in dom /\ up \in dom
      BY <2>2, <2>3, <2>5 DEF LowerStates, dom
    <2>6. ASSUME s \notin stop
          PROVE  size[down] < size[s] /\ size[up] < size[s]
      BY <2>2, <2>3, <2>5, <2>6
    <2> QED
      BY <2>2, <2>4, <2>5, <2>6
  <1>5. size \in [dom -> 0 .. n] /\ out \in [dom -> 0 .. n] /\ next \in [dom -> dom]
    <2>1. next \in [dom -> dom]
      BY <1>4
    <2>2. out \in [dom -> 0 .. n]
      BY <1>4
    <2>3. ASSUME NEW s \in dom
          PROVE  size[s] \in 0 .. n
      <3>1. s.lo \in 0 .. n /\ s.hi \in 0 .. n
        BY <1>4
      <3>2. size[s] = IF s.lo <= s.hi THEN s.hi - s.lo ELSE s.lo - s.hi
        OBVIOUS
      <3> HIDE DEF size
      <3> QED
        BY <3>1, <3>2
    <2>4. size = [s \in dom |-> size[s]]
      OBVIOUS
    <2> HIDE DEF size
    <2> QED
      BY <2>1, <2>2, <2>3, <2>4
  <1>6. \A s \in dom : s \notin stop => size[next[s]] < size[s]
    BY <1>4
  <1> HIDE DEF stop, out, next, size
  <1>7. /\ \E g : Descends(g, dom, stop, out, next)
        /\ \A g : Descends(g, dom, stop, out, next) => g \in [dom -> 0 .. n]
    BY <1>5, <1>6, DescentDefined
  <1>8. Calls(find)
    BY <1>3, <1>7 DEF find
  <1>9. find \in [dom -> 0 .. n]
    BY <1>3, <1>7, <1>8
  <1> QED
    BY <1>1, <1>2, <1>9

\* The functions that are not bad alone.
Innocent == {f \in Funcs : {f} \notin culprits}

\* What a call of bisect_profiles is about: a section of the functions whose
\* profile is bad.
BadCall(c) == c[1] < c[2] /\ c[2] <= NumFuncs /\ Problematic(Section(c))

ProfileTypes ==
    /\ culprits \subseteq (SUBSET Funcs) \ {{}} /\ culprits # {}
    /\ calls \in Seq(Nat \X Nat)
    /\ rangeSearch \in [runs : Nat, lo_mid : Seq(Innocent), mid_hi : Seq(Innocent),
                        min_range : Seq(Innocent)]
    /\ rangeSearch = NoSearch \/ rangeSearch.runs > 0

\* A function that is bad alone has been named, is in a half that was skipped, or
\* is in the section of a call to come; the lists of a range search have none.
ProfileInv ==
    /\ ProfileTypes
    /\ \A c \in Range(calls) : BadCall(c)
    /\ \A f \in individuals : {f} \in culprits
    /\ \A f \in Funcs : {f} \in culprits =>
          \/ f \in individuals
          \/ \E half \in undecided : f \in Section(half)
          \/ \E c \in Range(calls) : f \in Section(c)
    /\ ranges \subseteq SUBSET Innocent
    /\ calls # <<>> \/ rangeSearch # NoSearch \/ individuals # {} \/ ranges # {} \/ undecided # {}

LEMMA ProfileInvSuffices ==
    ASSUME ProfileInv
    PROVE  SearchIsExact
  <1>1. calls = <<>> => Range(calls) = {}
    BY DEF Range
  <1> QED
    BY <1>1 DEF ProfileInv, SearchIsExact, SearchDone, Innocent

LEMMA ProfilesInit ==
    ASSUME SearchInit, MaxCulprits > 0
    PROVE  ProfileInv
  <1>1. culprits \subseteq (SUBSET Funcs) \ {{}} /\ culprits # {}
    <2> DEFINE sets == {s \in SUBSET Funcs : Cardinality(s) \in 1 .. MaxCombination}
    <2>1. PICK c \in [1 .. MaxCulprits -> sets] : culprits = Range(c)
      BY DEF SearchInit
    <2>2. {} \notin sets
      BY FS_EmptySet
    <2>3. sets \subseteq (SUBSET Funcs) \ {{}}
      BY <2>2
    <2>4. 1 \in 1 .. MaxCulprits
      BY SearchAssumption
    <2> HIDE DEF sets
    <2> QED
      BY <2>1, <2>3, <2>4 DEF Range
  <1>2. calls = << <<0, NumFuncs>> >> /\ Range(calls) = {<<0, NumFuncs>>}
    BY DEF SearchInit, Range
  <1>3. Section(<<0, NumFuncs>>) = Funcs
    BY DEF Section, Funcs
  <1>4. Problematic(Funcs)
    BY <1>1 DEF Problematic
  <1>5. BadCall(<<0, NumFuncs>>)
    BY <1>3, <1>4, SearchAssumption DEF BadCall
  <1>6. calls \in Seq(Nat \X Nat) /\ calls # <<>>
    BY <1>2, SearchAssumption
  <1>7. rangeSearch \in [runs : Nat, lo_mid : Seq(Innocent), mid_hi : Seq(Innocent),
                         min_range : Seq(Innocent)]
    BY DEF SearchInit, NoSearch
  <1>8. ProfileTypes
    BY <1>1, <1>6, <1>7 DEF ProfileTypes, SearchInit
  <1>9. \A c \in Range(calls) : BadCall(c)
    BY <1>2, <1>5
  <1>10. \A f \in Funcs : \E c \in Range(calls) : f \in Section(c)
    BY <1>2, <1>3
  <1>11. individuals = {} /\ ranges = {}
    BY DEF SearchInit
  <1> QED
    BY <1>6, <1>8, <1>9, <1>10, <1>11 DEF ProfileInv

\* The first call and the others.
LEMMA CallsSplit ==
    ASSUME NEW s \in Seq(Nat \X Nat), s # <<>>
    PROVE  /\ Head(s) \in Nat \X Nat /\ Tail(s) \in Seq(Nat \X Nat)
           /\ Range(s) = {Head(s)} \cup Range(Tail(s))
  <1>1. /\ Head(s) \in Nat \X Nat /\ Tail(s) \in Seq(Nat \X Nat)
        /\ Len(Tail(s)) = Len(s) - 1 /\ \A i \in 1 .. Len(Tail(s)) : Tail(s)[i] = s[i + 1]
    BY HeadTailProperties
  <1>2. Head(s) = s[1] /\ Len(s) \in Nat \ {0}
    OBVIOUS
  <1>3. Range(s) = {s[i] : i \in 1 .. Len(s)}
    BY DEF Range
  <1>4. Range(Tail(s)) = {Tail(s)[i] : i \in 1 .. Len(Tail(s))}
    BY <1>1, RangeEquality
  <1>5. Range(Tail(s)) = {s[i + 1] : i \in 1 .. Len(s) - 1}
    BY <1>1, <1>4
  <1>6. \A i \in 1 .. Len(s) : i = 1 \/ (i - 1 \in 1 .. Len(s) - 1 /\ i = (i - 1) + 1)
    BY <1>2
  <1>7. \A i \in 1 .. Len(s) - 1 : i + 1 \in 1 .. Len(s)
    BY <1>2
  <1>8. ASSUME NEW x \in Range(s)
        PROVE  x = Head(s) \/ x \in Range(Tail(s))
    <2>1. PICK i \in 1 .. Len(s) : x = s[i]
      BY <1>3
    <2> QED
      BY <1>2, <1>5, <1>6, <2>1
  <1>9. Head(s) \in Range(s) /\ Range(Tail(s)) \subseteq Range(s)
    BY <1>2, <1>3, <1>5, <1>7
  <1> QED
    BY <1>1, <1>8, <1>9

LEMMA ProfilesIndividual ==
    ASSUME ProfileInv, calls # <<>>, rangeSearch = NoSearch, UNCHANGED <<culprits, ranges>>,
           FoundIndividual(Head(calls)[1], Head(calls)[2])
    PROVE  ProfileInv'
  <1> DEFINE c == Head(calls)
             f == c[1] + 1
  <1>1. c \in Nat \X Nat /\ Tail(calls) \in Seq(Nat \X Nat) /\ Range(calls) = {c} \cup Range(Tail(calls))
    BY CallsSplit DEF ProfileInv, ProfileTypes
  <1>2. c[1] \in Nat /\ c[2] \in Nat /\ BadCall(c)
    BY <1>1 DEF ProfileInv
  <1>3. c[2] = c[1] + 1 /\ f \in Funcs
    BY <1>2, SearchAssumption DEF FoundIndividual, BadCall, Funcs
  <1>4. Section(c) = {f}
    BY <1>2, <1>3 DEF Section
  <1>5. {f} \in culprits
    <2>1. PICK s \in culprits : s \subseteq {f}
      BY <1>2, <1>4 DEF BadCall, Problematic
    <2>2. s # {}
      BY <2>1 DEF ProfileInv, ProfileTypes
    <2>3. s = {f}
      BY <2>1, <2>2
    <2> QED
      BY <2>1, <2>3
  <1>6. calls' = Tail(calls) /\ individuals' = individuals \cup {f} /\ UNCHANGED <<undecided, rangeSearch>>
    BY DEF FoundIndividual
  <1>7. Innocent' = Innocent /\ \A d : BadCall(d)' <=> BadCall(d)
    BY DEF Innocent, BadCall, Problematic, Section
  <1>8. \A d : Section(d)' = Section(d)
    BY DEF Section
  <1> HIDE DEF c, f
  <1>9. ProfileTypes'
    BY <1>1, <1>6, <1>7 DEF ProfileInv, ProfileTypes
  <1>10. \A d \in Range(calls)' : BadCall(d)'
    BY <1>1, <1>6, <1>7 DEF ProfileInv
  <1>11. \A g \in Funcs : {g} \in culprits =>
            \/ g \in individuals'
            \/ \E half \in undecided' : g \in Section(half)
            \/ \E d \in Range(calls)' : g \in Section(d)
    BY <1>1, <1>4, <1>6 DEF ProfileInv
  <1> QED
    BY <1>5, <1>6, <1>7, <1>9, <1>10, <1>11 DEF ProfileInv, Section

LEMMA HalfFacts ==
    ASSUME ProfileInv, NEW half \in Nat \X Nat, half[1] < half[2], half[2] <= NumFuncs, NEW skipped
    PROVE  /\ Half(half, skipped) \in Seq(Nat \X Nat)
           /\ \A c \in Range(Half(half, skipped)) : BadCall(c)
           /\ \A f \in Section(half) : {f} \in culprits =>
                  half \in skipped \/ \E c \in Range(Half(half, skipped)) : f \in Section(c)
  <1>1. CASE half \notin skipped /\ Problematic(Section(half))
    <2>1. Half(half, skipped) = <<half>>
      BY <1>1 DEF Half
    <2>2. Range(Half(half, skipped)) = {half}
      BY <2>1 DEF Range
    <2>3. BadCall(half)
      BY <1>1 DEF BadCall
    <2> QED
      BY <2>1, <2>2, <2>3
  <1>2. CASE half \in skipped \/ ~Problematic(Section(half))
    <2>1. Half(half, skipped) = <<>>
      BY <1>2 DEF Half
    <2>2. Range(Half(half, skipped)) = {}
      BY <2>1 DEF Range
    <2>3. half \in skipped \/ \A f \in Section(half) : {f} \notin culprits
      BY <1>2 DEF Problematic
    <2> QED
      BY <2>1, <2>2, <2>3
  <1> QED
    BY <1>1, <1>2

LEMMA ProfilesHalves ==
    ASSUME ProfileInv, calls # <<>>, rangeSearch = NoSearch, UNCHANGED <<culprits, ranges>>,
           BisectHalves(Head(calls)[1], (Head(calls)[1] + Head(calls)[2]) \div 2, Head(calls)[2])
    PROVE  ProfileInv'
  <1> DEFINE c == Head(calls)
  <1>1. c \in Nat \X Nat /\ Tail(calls) \in Seq(Nat \X Nat) /\ Range(calls) = {c} \cup Range(Tail(calls))
    BY CallsSplit DEF ProfileInv, ProfileTypes
  <1>2. BadCall(c)
    BY <1>1 DEF ProfileInv
  <1> HIDE DEF c
  <1>3. PICK lo \in Nat, hi \in Nat : c = <<lo, hi>>
    BY <1>1
  <1>4. c[1] = lo /\ c[2] = hi
    BY <1>3
  <1>5. hi - lo > 1 /\ hi <= NumFuncs
    BY <1>2, <1>4 DEF BadCall, BisectHalves, c
  <1>6. PICK mid \in Nat : mid = (lo + hi) \div 2 /\ lo < mid /\ mid < hi
    BY <1>5
  <1>7. BisectHalves(lo, mid, hi)
    BY <1>4, <1>6 DEF c
  <1> DEFINE low == <<lo, mid>>
             high == <<mid, hi>>
  <1>22. PICK skipped :
            /\ undecided' = undecided \union skipped
            /\ calls' = BadHalves(lo, mid, hi, skipped) \o Tail(calls)
            /\ rangeSearch' =
                  IF skipped # {} \/ BadHalves(lo, mid, hi, skipped) # <<>> THEN NoSearch
                  ELSE [runs |-> NumRuns, min_range |-> <<>>,
                        lo_mid |-> [k \in 1 .. (mid - lo) |-> lo + k],
                        mid_hi |-> [k \in 1 .. (hi - mid) |-> mid + k]]
    BY <1>7 DEF BisectHalves
  <1> DEFINE bads == BadHalves(lo, mid, hi, skipped)
  <1>8. /\ Half(low, skipped) \in Seq(Nat \X Nat) /\ Half(high, skipped) \in Seq(Nat \X Nat)
        /\ \A d \in Range(Half(low, skipped)) \cup Range(Half(high, skipped)) : BadCall(d)
        /\ \A f \in Section(low) : {f} \in culprits =>
               low \in skipped \/ \E d \in Range(Half(low, skipped)) : f \in Section(d)
        /\ \A f \in Section(high) : {f} \in culprits =>
               high \in skipped \/ \E d \in Range(Half(high, skipped)) : f \in Section(d)
    <2>1. low \in Nat \X Nat /\ low[1] < low[2] /\ low[2] <= NumFuncs
      BY <1>5, <1>6, SearchAssumption
    <2>2. high \in Nat \X Nat /\ high[1] < high[2] /\ high[2] <= NumFuncs
      BY <1>5, <1>6, SearchAssumption
    <2> QED
      BY <2>1, <2>2, HalfFacts
  <1>23. Section(low) = (lo + 1) .. mid /\ Section(high) = (mid + 1) .. hi
    BY DEF Section
  <1>9. bads \in Seq(Nat \X Nat) /\ Range(bads) = Range(Half(low, skipped)) \cup Range(Half(high, skipped))
    <2>1. PICK s, t : s = Half(low, skipped) /\ t = Half(high, skipped)
      OBVIOUS
    <2>2. s \in Seq(Nat \X Nat) /\ t \in Seq(Nat \X Nat) /\ bads = s \o t
      BY <1>8, <2>1 DEF BadHalves
    <2>3. Range(s \o t) = Range(s) \cup Range(t) /\ s \o t \in Seq(Nat \X Nat)
      BY ONLY <2>2, RangeConcatenation, ConcatProperties
    <2> QED
      BY <2>1, <2>2, <2>3
  <1> HIDE DEF low, high
  <1>10. \A d \in Range(bads) : BadCall(d)
    BY <1>8, <1>9
  <1>11. ASSUME NEW f \in Section(c), {f} \in culprits
         PROVE  \/ \E half \in skipped : f \in Section(half)
                \/ \E d \in Range(bads) : f \in Section(d)
    <2>1. f \in Section(low) \/ f \in Section(high)
      <3>1. f \in (lo + 1) .. hi
        BY <1>4, <1>11 DEF Section
      <3> QED
        BY <1>6, <1>23, <3>1
    <2> QED
      BY <1>8, <1>9, <1>11, <2>1
  <1> HIDE DEF bads
  <1>12. calls' = bads \o Tail(calls) /\ individuals' = individuals
    BY <1>7, <1>22 DEF BisectHalves, bads, c
  <1>13. calls' \in Seq(Nat \X Nat) /\ Range(calls') = Range(bads) \cup Range(Tail(calls))
    <2>1. bads \o Tail(calls) \in Seq(Nat \X Nat)
      BY <1>1, <1>9, ConcatProperties
    <2>2. \A rest \in Seq(Nat \X Nat) : Range(bads \o rest) = Range(bads) \cup Range(rest)
      BY ONLY <1>9, RangeConcatenation
    <2>3. Range(bads \o Tail(calls)) = Range(bads) \cup Range(Tail(calls))
      BY <1>1, <2>2
    <2> QED
      BY <1>12, <2>1, <2>3
  <1>14. Innocent' = Innocent /\ (\A d : BadCall(d)' <=> BadCall(d)) /\ \A d : Section(d)' = Section(d)
    BY DEF Innocent, BadCall, Problematic, Section
  <1> DEFINE first == [k \in 1 .. (mid - lo) |-> lo + k]
             second == [k \in 1 .. (hi - mid) |-> mid + k]
             searchless == skipped # {} \/ bads # <<>>
  <1>15. rangeSearch' = IF searchless THEN NoSearch
                        ELSE [runs |-> NumRuns, min_range |-> <<>>, lo_mid |-> first, mid_hi |-> second]
    BY <1>22 DEF bads
  <1>16. rangeSearch' \in [runs : Nat, lo_mid : Seq(Innocent), mid_hi : Seq(Innocent),
                           min_range : Seq(Innocent)]
    <2>1. CASE searchless
      <3>1. rangeSearch' = NoSearch
        BY <1>15, <2>1
      <3> QED
        BY <3>1 DEF NoSearch
    <2>2. CASE ~searchless
      <3>1. Range(bads) = {}
        BY <2>2 DEF Range
      <3>2. Section(c) \subseteq Innocent
        <4>1. Section(c) \subseteq Funcs
          BY <1>4, <1>5, SearchAssumption DEF Section, Funcs
        <4> QED
          BY <1>11, <2>2, <3>1, <4>1 DEF Innocent
      <3>3. rangeSearch' = [runs |-> NumRuns, min_range |-> <<>>, lo_mid |-> first, mid_hi |-> second]
        BY <1>15, <2>2
      <3>4. \A k \in 1 .. (mid - lo) : lo + k \in Section(c)
        BY <1>4, <1>6 DEF Section
      <3>5. \A k \in 1 .. (hi - mid) : mid + k \in Section(c)
        BY <1>4, <1>6 DEF Section
      <3>6. first \in [1 .. (mid - lo) -> Innocent] /\ mid - lo \in Nat
        BY <1>6, <3>2, <3>4
      <3>7. second \in [1 .. (hi - mid) -> Innocent] /\ hi - mid \in Nat
        BY <1>6, <3>2, <3>5
      <3> HIDE DEF first, second
      <3>8. first \in Seq(Innocent) /\ second \in Seq(Innocent)
        BY <3>6, <3>7
      <3> QED
        BY <3>3, <3>8, SearchAssumption
    <2> QED
      BY <2>1, <2>2
  <1> HIDE DEF first, second
  <1>17. calls' # <<>> \/ rangeSearch' # NoSearch \/ undecided' # {}
    <2>3. CASE skipped # {}
      BY <1>22, <2>3
    <2>1. CASE bads # <<>>
      <3>1. Len(bads) > 0
        BY <1>9, <2>1
      <3>2. Len(bads \o Tail(calls)) > 0
        BY <1>1, <1>9, <3>1, ConcatProperties
      <3> QED
        BY <1>12, <3>2
    <2>2. CASE ~searchless
      <3>1. rangeSearch'.runs = NumRuns
        BY <1>15, <2>2
      <3> QED
        BY <3>1, SearchAssumption DEF NoSearch
    <2> QED
      BY <2>1, <2>2, <2>3
  <1>18. rangeSearch' = NoSearch \/ rangeSearch'.runs > 0
    <2>1. CASE searchless
      BY <1>15, <2>1
    <2>2. CASE ~searchless
      <3>1. rangeSearch'.runs = NumRuns
        BY <1>15, <2>2
      <3> QED
        BY <3>1, SearchAssumption
    <2> QED
      BY <2>1, <2>2
  <1>19. ProfileTypes'
    BY <1>13, <1>14, <1>16, <1>18 DEF ProfileInv, ProfileTypes
  <1>20. \A d \in Range(calls)' : BadCall(d)'
    BY <1>1, <1>10, <1>13, <1>14 DEF ProfileInv
  <1>21. ASSUME NEW f \in Funcs, {f} \in culprits
         PROVE  \/ f \in individuals'
                \/ \E half \in undecided' : f \in Section(half)
                \/ \E d \in Range(calls)' : f \in Section(d)
    <2>1. \/ f \in individuals \/ f \in Section(c)
          \/ \E half \in undecided : f \in Section(half)
          \/ \E d \in Range(Tail(calls)) : f \in Section(d)
      BY <1>1, <1>21 DEF ProfileInv
    <2>2. CASE f \in Section(c)
      BY <1>11, <1>13, <1>21, <1>22, <2>2
    <2>3. CASE f \notin Section(c)
      BY <1>12, <1>13, <1>22, <2>1, <2>3
    <2> QED
      BY <2>2, <2>3
  <1> QED
    BY <1>12, <1>14, <1>17, <1>19, <1>20, <1>21 DEF ProfileInv, Section

\* Parts of a list, and its orders, have no other elements.
LEMMA PartOf ==
    ASSUME NEW S, NEW s \in Seq(S), NEW i \in Nat \ {0}, NEW j \in Int, j <= Len(s)
    PROVE  SubSeq(s, i, j) \in Seq(S)
  <1>1. \A k \in i .. j : s[k] \in S
    OBVIOUS
  <1>2. i \in Int
    OBVIOUS
  <1> QED
    BY <1>1, <1>2, SubSeqProperties

LEMMA ShuffleOf ==
    ASSUME NEW S, NEW s \in Seq(S), NEW t \in Shuffles(s)
    PROVE  t \in Seq(S)
  <1>1. Range(s) \subseteq S /\ Range(s) = {s[i] : i \in 1 .. Len(s)}
    BY DEF Range
  <1>2. IsFiniteSet(1 .. Len(s))
    BY FS_Interval
  <1>3. IsFiniteSet(Range(s))
    <2>1. s \in Surjection(1 .. Len(s), Range(s))
      BY <1>1 DEF Surjection
    <2> QED
      BY <1>2, <2>1, FS_Surjection
  <1>4. Cardinality(Range(s)) \in Nat
    BY <1>3, FS_CardinalityType
  <1>5. t \in [1 .. Cardinality(Range(s)) -> Range(s)]
    BY DEF Shuffles, SetToSeqs
  <1> HIDE DEF Range
  <1>6. t \in Seq(Range(s))
    BY <1>4, <1>5
  <1> QED
    BY <1>1, <1>6

LEMMA ProfilesNarrow ==
    ASSUME ProfileInv, rangeSearch # NoSearch, UNCHANGED <<culprits, calls, individuals, undecided>>,
           NEW lo_mid \in Seq(Innocent), NEW mid_hi \in Seq(Innocent), NEW skipped,
           NarrowRange(lo_mid, mid_hi, skipped)
    PROVE  ProfileInv'
  <1> DEFINE funcs == lo_mid \o mid_hi
             mid == Len(lo_mid)
             upper == FindUpperBorder(funcs, mid, skipped)
             lower == FindLowerBorder(funcs, mid, upper, skipped)
             last == rangeSearch.min_range
             smaller == last = <<>> \/ upper - lower < Len(last)
             min_range == IF smaller THEN SubSeq(funcs, lower + 1, upper) ELSE last
             returns == Len(min_range) = 2 \/ rangeSearch.runs = 1
             nextLo == IF smaller THEN SubSeq(lo_mid, lower + 1, mid) ELSE lo_mid
             nextHi == IF smaller THEN SubSeq(mid_hi, 1, upper - mid) ELSE mid_hi
  <1>1. /\ ranges' = IF returns THEN ranges \union {Range(min_range)} ELSE ranges
        /\ rangeSearch' = IF returns THEN NoSearch
                          ELSE [runs |-> rangeSearch.runs - 1, min_range |-> min_range,
                                lo_mid |-> nextLo, mid_hi |-> nextHi]
    BY DEF NarrowRange
  <1>2. funcs \in Seq(Innocent) /\ Len(funcs) = mid + Len(mid_hi) /\ mid \in Nat /\ Len(mid_hi) \in Nat
    BY ConcatProperties
  <1>3. mid \in 0 .. Len(funcs) /\ Len(funcs) \in Nat
    BY <1>2
  <1> HIDE DEF funcs, mid
  <1>4. upper \in 0 .. Len(funcs)
    BY <1>3, UpperBorder
  <1>5. lower \in 0 .. Len(funcs)
    BY <1>3, LowerBorder
  <1> HIDE DEF upper, lower
  <1>6. lower + 1 \in Nat \ {0} /\ upper \in Int /\ upper <= Len(funcs)
        /\ upper - mid \in Int /\ upper - mid <= Len(mid_hi)
    BY <1>2, <1>3, <1>4, <1>5
  <1>7. SubSeq(funcs, lower + 1, upper) \in Seq(Innocent)
    BY <1>2, <1>6, PartOf
  <1>8. SubSeq(lo_mid, lower + 1, mid) \in Seq(Innocent)
    BY <1>2, <1>6, PartOf DEF mid
  <1>9. SubSeq(mid_hi, 1, upper - mid) \in Seq(Innocent)
    BY <1>6, PartOf
  <1>10. last \in Seq(Innocent) /\ rangeSearch.runs \in Nat /\ rangeSearch.runs > 0
    BY DEF ProfileInv, ProfileTypes
  <1>11. min_range \in Seq(Innocent) /\ nextLo \in Seq(Innocent) /\ nextHi \in Seq(Innocent)
    BY <1>7, <1>8, <1>9, <1>10
  <1> HIDE DEF min_range, nextLo, nextHi, last
  <1>12. Range(min_range) \subseteq Innocent
    BY <1>11 DEF Range
  <1>13. Innocent' = Innocent /\ (\A d : BadCall(d)' <=> BadCall(d)) /\ \A d : Section(d)' = Section(d)
    BY DEF Innocent, BadCall, Problematic, Section
  <1>14. ranges' \subseteq SUBSET Innocent
    BY <1>1, <1>12 DEF ProfileInv
  <1>15. rangeSearch' \in [runs : Nat, lo_mid : Seq(Innocent), mid_hi : Seq(Innocent),
                           min_range : Seq(Innocent)]
    <2>1. CASE returns
      <3>1. rangeSearch' = NoSearch
        BY <1>1, <2>1
      <3> QED
        BY <3>1 DEF NoSearch
    <2>2. CASE ~returns
      <3>1. rangeSearch.runs - 1 \in Nat
        BY <1>10, <2>2
      <3>2. rangeSearch' = [runs |-> rangeSearch.runs - 1, min_range |-> min_range,
                            lo_mid |-> nextLo, mid_hi |-> nextHi]
        BY <1>1, <2>2
      <3> QED
        BY <1>11, <3>1, <3>2
    <2> QED
      BY <2>1, <2>2
  <1>16. (rangeSearch' = NoSearch /\ ranges' # {}) \/ rangeSearch'.runs > 0
    <2>1. CASE returns
      BY <1>1, <2>1
    <2>2. CASE ~returns
      <3>1. rangeSearch'.runs = rangeSearch.runs - 1
        BY <1>1, <2>2
      <3> QED
        BY <1>10, <2>2, <3>1
    <2> QED
      BY <2>1, <2>2
  <1>17. rangeSearch'.runs > 0 => rangeSearch' # NoSearch
    BY DEF NoSearch
  <1>18. ProfileTypes'
    BY <1>13, <1>15, <1>16 DEF ProfileInv, ProfileTypes
  <1> QED
    BY <1>13, <1>14, <1>16, <1>17, <1>18 DEF ProfileInv

LEMMA ProfilesNext ==
    ASSUME ProfileInv, [SearchNext]_searchVars
    PROVE  ProfileInv'
  <1>1. CASE BisectProfiles
    <2>1. calls # <<>> /\ rangeSearch = NoSearch /\ UNCHANGED <<culprits, ranges>>
      BY <1>1 DEF BisectProfiles
    <2>2. \/ FoundIndividual(Head(calls)[1], Head(calls)[2])
          \/ BisectHalves(Head(calls)[1], (Head(calls)[1] + Head(calls)[2]) \div 2, Head(calls)[2])
      BY <1>1 DEF BisectProfiles
    <2> QED
      BY <2>1, <2>2, ProfilesIndividual, ProfilesHalves
  <1>2. CASE RangeSearch
    <2>1. rangeSearch # NoSearch /\ UNCHANGED <<culprits, calls, individuals, undecided>>
      BY <1>2 DEF RangeSearch
    <2>2. PICK lo_mid \in {rangeSearch.lo_mid} \cup Shuffles(rangeSearch.lo_mid),
               mid_hi \in {rangeSearch.mid_hi} \cup Shuffles(rangeSearch.mid_hi) :
                   \E skipped : NarrowRange(lo_mid, mid_hi, skipped)
      BY <1>2 DEF RangeSearch
    <2>3. rangeSearch.lo_mid \in Seq(Innocent) /\ rangeSearch.mid_hi \in Seq(Innocent)
      BY DEF ProfileInv, ProfileTypes
    <2>4. lo_mid \in Seq(Innocent) /\ mid_hi \in Seq(Innocent)
      BY <2>3, ShuffleOf
    <2> QED
      BY <2>1, <2>2, <2>4, ProfilesNarrow
  <1>3. CASE UNCHANGED searchVars
    <2>1. UNCHANGED <<culprits, calls, individuals, ranges, undecided, rangeSearch>>
      BY <1>3 DEF searchVars
    <2>2. Innocent' = Innocent /\ (\A d : BadCall(d)' <=> BadCall(d)) /\ \A d : Section(d)' = Section(d)
      BY <2>1 DEF Innocent, BadCall, Problematic, Section
    <2>3. ProfileTypes'
      BY <2>1, <2>2 DEF ProfileInv, ProfileTypes
    <2> QED
      BY <2>1, <2>2, <2>3 DEF ProfileInv
  <1> QED
    BY <1>1, <1>2, <1>3 DEF SearchNext

\* The analysis of the profiles names functions that are bad alone only, puts
\* none of those into a range, and misses one, or reports nothing, only when the
\* decider has skipped a half; for any number of functions and combinations, any
\* shuffling, and any profiles that are skipped.
THEOREM AnalysisIsExact ==
    ASSUME MaxCulprits > 0
    PROVE  SearchSpec => []SearchIsExact
  <1>1. SearchInit => ProfileInv
    BY ProfilesInit
  <1>2. ProfileInv /\ [SearchNext]_searchVars => ProfileInv'
    BY ProfilesNext
  <1>3. ProfileInv => SearchIsExact
    BY ProfileInvSuffices
  <1> QED
    BY <1>1, <1>2, <1>3, PTL DEF SearchSpec
===============================================================================
