---------------------------- MODULE SteeringProofs ----------------------------
(***************************************************************************)
(* Proofs about the pipeline of bestflags and the searches that use it,    *)
(* for any flags, results, numbers of processes and workers that raise: no *)
(* task is lost or answered twice, the poison pill is the last thing of    *)
(* its stage, the pipeline implements TaskService, and the searches end at *)
(* an optimum.                                                             *)
(***************************************************************************)
EXTENDS Steering, FiniteSetTheorems, SequenceTheorems, NaturalsInduction,
        WellFoundedInduction, TLAPS

Pulled == TaskRecords \cup {PoisonPill}
WorkSteps == {"work", "completed", "result"}
Keys == {FormattedForUse(f) : f \in FlagSets} \cup Images \cup {None}

\* Functions from some tasks to what they cost.
Costings == UNION {[D -> Costs \cup {None}] : D \in SUBSET FlagSets}

Outcomes(s) == IF s = "build" THEN Images ELSE Costs

StageTypes ==
    /\ queue \in [Stages \cup {"steering"} -> Seq(Pulled)]
    /\ main \in [Stages -> {"pull", "join pool", "join helper", "ended"}]
    /\ DOMAIN mycache = Stages
    /\ pool \in [Stages -> Seq(TaskRecords)]
    /\ working \in [Stages -> SUBSET [task : TaskRecords, next : WorkSteps]]
    /\ \A s \in Stages : IsFiniteSet(working[s])
    /\ raised \in [Stages -> SUBSET FlagSets]
    /\ helperQ \in [Stages -> Seq(Pulled)]
    /\ DOMAIN completedQ = Stages
    /\ \A s \in Stages : completedQ[s] \in Seq(Keys \X Outcomes(s))
    /\ helper \in [Stages -> {"loop", "check", "drain", "ended"}]
    /\ DOMAIN doneDict = Stages
    /\ \A s \in Stages : \A k \in DOMAIN doneDict[s] : doneDict[s][k] \in Outcomes(s)
    /\ waiting \in [Stages -> Seq(TaskRecords)]

SearchTypes ==
    /\ steering \in {"send", "wait", "ended", "raised"}
    /\ toSend \subseteq FlagSets /\ cache \subseteq FlagSets
    /\ DOMAIN log \subseteq cache
    /\ log \in [DOMAIN log -> [image : Images, cost : Costs]]
    /\ generation \in [alg : Algorithms, pool : Costings, parents : Costings,
                       stuck : Nat, pending : Nat]
    /\ IsFiniteSet(DOMAIN generation.pool)

Types == StageTypes /\ SearchTypes

\* A task that has been sent, not been answered, and not been given up.
Raised == raised["build"] \cup raised["test"]
Underway == cache \ (DOMAIN log \cup Raised)

OnePlace == \A t \in FlagSets : Places(t) = IF t \in Underway THEN 1 ELSE 0

\* The tasks of the generation that have no result.
Unanswered1(g) == {t \in DOMAIN g.pool : g.pool[t] = None}

GenerationInv ==
    /\ toSend \subseteq DOMAIN generation.pool /\ DOMAIN generation.pool \subseteq toSend \cup cache
    /\ toSend \cap cache = {}
    /\ \A t \in DOMAIN generation.pool :
          IF t \in DOMAIN log THEN generation.pool[t] = log[t].cost
          ELSE generation.pool[t] = None
    /\ cache \subseteq DOMAIN generation.pool \cup DOMAIN log
    /\ Raised \subseteq cache \ DOMAIN log
    /\ generation.pending = Cardinality(Unanswered1(generation))
    /\ steering = "send" => toSend # {}
    /\ steering = "wait" => toSend = {}
    /\ steering \in {"ended", "raised"} => Unanswered1(generation) = {}

\* Where the poison pill is.
Pill == <<PoisonPill>>

NoPill == /\ \A q \in Stages \cup {"steering"} : PoisonPill \notin InQueue(queue[q])
          /\ \A s \in Stages : main[s] = "pull" /\ PoisonPill \notin InQueue(helperQ[s])

PillInv ==
    IF steering # "ended" THEN NoPill
    ELSE /\ queue["build"] = IF main["build"] = "pull" THEN Pill ELSE <<>>
         /\ main["build"] = "pull" => main["test"] = "pull"
         /\ queue["test"] = IF main["build"] # "pull" /\ main["test"] = "pull" THEN Pill ELSE <<>>

\* What the results of a task are by the time it enters a stage.
Ready(q, m) ==
    /\ IF q = "build" THEN m.image = None
       ELSE m.image \in Images /\ <<FormattedForUse(m.flags), m.image>> \in Results("build")
    /\ IF q # "steering" THEN m.cost = None
       ELSE m.cost \in Costs /\ <<m.image, m.cost>> \in Results("test")

AllReady ==
    /\ \A q \in Stages \cup {"steering"} :
          \A m \in InQueue(queue[q]) : m # PoisonPill => Ready(q, m)
    /\ \A s \in Stages :
        /\ \A m \in InQueue(pool[s]) : Ready(s, m)
        /\ \A m \in InQueue(helperQ[s]) : m # PoisonPill => Ready(s, m)
        /\ \A m \in InQueue(waiting[s]) : Ready(s, m)
        /\ \A w \in working[s] : Ready(IF w.next = "work" THEN s ELSE Output(s), w.task)

\* No two tasks with the same key are with the workers of a stage, and none
\* with a key that has its result.
ResultKeys(s) == {p[1] : p \in Results(s)}
AtWork(s) == {w \in working[s] : w.next = "work"}

OncePerKey(s) ==
    /\ \A i, j \in DOMAIN pool[s] :
          Identifier(s, pool[s][i]) = Identifier(s, pool[s][j]) => i = j
    /\ \A i \in DOMAIN pool[s], w \in AtWork(s) :
          Identifier(s, pool[s][i]) # Identifier(s, w.task)
    /\ \A v, w \in AtWork(s) : Identifier(s, v.task) = Identifier(s, w.task) => v = w
    /\ \A i \in DOMAIN pool[s] : Identifier(s, pool[s][i]) \in mycache[s] \ ResultKeys(s)
    /\ \A w \in AtWork(s) : Identifier(s, w.task) \in mycache[s] \ ResultKeys(s)
    /\ ResultKeys(s) \subseteq mycache[s]
    /\ \A p, r \in Results(s) : p[1] = r[1] => p = r

KeysInv == \A s \in Stages : OncePerKey(s)

-----------------------------------------------------------------------------
(* Searches *)

\* What is left to try near a task when it is the parent of a generation.
Nearby(alg, t) == IF alg = "hill" THEN Neighbours(t) ELSE Decreased(t)

\* The first generation, with the logs l.
FirstOne(g, l) ==
    /\ DOMAIN l \subseteq DOMAIN g.pool
    /\ \/ g.parents = NoParents /\ g.alg # "elimination"
       \/ /\ g.alg = "elimination"
          /\ DOMAIN g.parents = {AllFlags} /\ AllFlags \in DOMAIN g.pool
          /\ Decreased(AllFlags) \subseteq DOMAIN g.pool

\* The later ones, with the tasks c sent before: their parents are answered,
\* and as good as all that was answered before.
LaterOne(g, l, c) ==
    /\ DOMAIN g.parents # {}
    /\ DOMAIN g.parents \cap DOMAIN g.pool = {}
    /\ DOMAIN g.parents \subseteq DOMAIN l
    /\ \A t \in DOMAIN g.parents : g.parents[t] = l[t].cost
    /\ \A t \in DOMAIN l \ DOMAIN g.pool :
          \E u \in DOMAIN g.parents : g.parents[u] <= l[t].cost
    /\ g.alg # "genetic" =>
          \E b \in FlagSets : /\ DOMAIN g.parents = {b}
                              /\ Nearby(g.alg, b) \subseteq c \cup DOMAIN g.pool

SearchInv ==
    /\ FirstOne(generation, log) \/ LaterOne(generation, log, cache)
    /\ EndsAtOptimum

-----------------------------------------------------------------------------
(* Counting the tasks of a queue *)

Carries(m, t) == m # PoisonPill /\ m.flags = t
Count(q, t) == Cardinality({i \in DOMAIN q : q[i] # PoisonPill /\ q[i].flags = t})

LEMMA CountFinite ==
    ASSUME NEW S, NEW q \in Seq(S), NEW t
    PROVE  /\ IsFiniteSet({i \in DOMAIN q : Carries(q[i], t)})
           /\ Count(q, t) = Cardinality({i \in DOMAIN q : Carries(q[i], t)})
           /\ Count(q, t) \in Nat
  <1>1. Len(q) \in Nat /\ DOMAIN q = 1 .. Len(q)
    BY LenProperties
  <1>2. IsFiniteSet(1 .. Len(q))
    BY <1>1, FS_Interval
  <1>3. IsFiniteSet({i \in DOMAIN q : Carries(q[i], t)})
    BY <1>1, <1>2, FS_Subset
  <1>4. Count(q, t) = Cardinality({i \in DOMAIN q : Carries(q[i], t)})
    BY DEF Count, Carries
  <1> QED
    BY <1>3, <1>4, FS_CardinalityType

LEMMA CountConcat ==
    ASSUME NEW S, NEW q \in Seq(S), NEW r \in Seq(S), NEW t
    PROVE  Count(q \o r, t) = Count(q, t) + Count(r, t)
  <1> DEFINE A == {i \in DOMAIN q : Carries(q[i], t)}
             B == {i \in DOMAIN r : Carries(r[i], t)}
             C == {i \in DOMAIN (q \o r) : Carries((q \o r)[i], t)}
             D == {i \in C : i > Len(q)}
             shift == [i \in B |-> i + Len(q)]
  <1>1. /\ Len(q) \in Nat /\ DOMAIN q = 1 .. Len(q)
        /\ Len(r) \in Nat /\ DOMAIN r = 1 .. Len(r)
    BY LenProperties
  <1>2. /\ q \o r \in Seq(S) /\ DOMAIN (q \o r) = 1 .. Len(q) + Len(r)
        /\ \A i \in 1 .. Len(q) + Len(r) :
              (q \o r)[i] = IF i <= Len(q) THEN q[i] ELSE r[i - Len(q)]
    <2>1. q \o r \in Seq(S) /\ Len(q \o r) = Len(q) + Len(r)
      BY ConcatProperties
    <2> QED
      BY <2>1, ConcatProperties, LenProperties
  <1>3. C = A \cup D
    <2>1. ASSUME NEW i \in C, ~(i > Len(q)) PROVE i \in A
      BY <1>1, <1>2, <2>1
    <2>2. A \subseteq C
      BY <1>1, <1>2
    <2> QED
      BY <2>1, <2>2
  <1>4. A \cap D = {}
    BY <1>1
  <1>5. shift \in Bijection(B, D)
    <2>1. \A i \in B : i + Len(q) \in D
      <3> TAKE i \in B
      <3>1. /\ i + Len(q) \in 1 .. Len(q) + Len(r) /\ ~(i + Len(q) <= Len(q))
            /\ (i + Len(q)) - Len(q) = i /\ i + Len(q) > Len(q)
        BY <1>1
      <3> QED
        BY <1>2, <3>1
    <2>2. \A k \in D : k - Len(q) \in B /\ (k - Len(q)) + Len(q) = k
      <3> TAKE k \in D
      <3>1. k \in 1 .. Len(q) + Len(r) /\ k > Len(q) /\ Carries((q \o r)[k], t)
        BY <1>2
      <3>2. k - Len(q) \in 1 .. Len(r) /\ ~(k <= Len(q)) /\ (k - Len(q)) + Len(q) = k
        BY <1>1, <3>1
      <3> QED
        BY <1>1, <1>2, <3>1, <3>2
    <2>3. \A i, j \in B : i + Len(q) = j + Len(q) => i = j
      BY <1>1
    <2>4. shift \in [B -> D]
      BY <2>1
    <2>5. \A k \in D : \E i \in B : shift[i] = k
      BY <2>2
    <2>6. \A i, j \in B : shift[i] = shift[j] => i = j
      BY <2>3
    <2> HIDE DEF B, D, shift
    <2> QED
      BY <2>4, <2>5, <2>6 DEF Bijection, Injection, Surjection, IsInjective
  <1>6. IsFiniteSet(A) /\ Count(q, t) = Cardinality(A)
    BY CountFinite
  <1>7. IsFiniteSet(B) /\ Count(r, t) = Cardinality(B) /\ Count(r, t) \in Nat
    BY CountFinite
  <1>8. Count(q \o r, t) = Cardinality(C)
    BY <1>2, CountFinite
  <1> HIDE DEF A, B, C, D, shift
  <1>9. IsFiniteSet(D) /\ Cardinality(D) = Cardinality(B)
    BY <1>5, <1>7, FS_Bijection DEF ExistsBijection
  <1>10. Cardinality(A \cap D) = 0
    BY <1>4, FS_EmptySet
  <1>11. Cardinality(C) = Cardinality(A) + Cardinality(D) - Cardinality(A \cap D)
    BY <1>3, <1>6, <1>9, FS_Union
  <1> QED
    BY <1>6, <1>7, <1>8, <1>9, <1>10, <1>11, FS_CardinalityType

Weight(m, t) == IF Carries(m, t) THEN 1 ELSE 0

LEMMA CountOne ==
    ASSUME NEW t
    PROVE  Count(<<>>, t) = 0 /\ \A m : Count(<<m>>, t) = Weight(m, t)
  <1>1. Count(<<>>, t) = 0
    BY FS_EmptySet DEF Count
  <1>2. ASSUME NEW m PROVE Count(<<m>>, t) = Weight(m, t)
    <2>1. CASE Carries(m, t)
      <3>1. {i \in DOMAIN <<m>> : <<m>>[i] # PoisonPill /\ <<m>>[i].flags = t} = {1}
        BY <2>1 DEF Carries
      <3> QED
        BY <2>1, <3>1, FS_Singleton DEF Count, Weight
    <2>2. CASE ~Carries(m, t)
      <3>1. {i \in DOMAIN <<m>> : <<m>>[i] # PoisonPill /\ <<m>>[i].flags = t} = {}
        BY <2>2 DEF Carries
      <3> QED
        BY <2>2, <3>1, FS_EmptySet DEF Count, Weight
    <2> QED
      BY <2>1, <2>2
  <1> QED
    BY <1>1, <1>2

LEMMA CountAppend ==
    ASSUME NEW S, NEW q \in Seq(S), NEW m \in S, NEW t
    PROVE  Count(Append(q, m), t) = Count(q, t) + Weight(m, t)
  <1>1. <<m>> \in Seq(S) /\ Append(q, m) = q \o <<m>>
    OBVIOUS
  <1>2. Count(q \o <<m>>, t) = Count(q, t) + Count(<<m>>, t)
    BY <1>1, CountConcat
  <1> QED
    BY <1>1, <1>2, CountOne

LEMMA CountTail ==
    ASSUME NEW S, NEW q \in Seq(S), q # <<>>, NEW t
    PROVE  Count(q, t) = Weight(Head(q), t) + Count(Tail(q), t)
  <1>1. Head(q) \in S /\ Tail(q) \in Seq(S) /\ <<Head(q)>> \in Seq(S)
    BY HeadTailProperties
  <1>2. q = <<Head(q)>> \o Tail(q)
    <2>1. /\ Len(q) \in Nat /\ Len(q) # 0 /\ Len(Tail(q)) = Len(q) - 1
          /\ \A i \in 1 .. Len(Tail(q)) : Tail(q)[i] = q[i + 1]
      BY HeadTailProperties, LenProperties, EmptySeq
    <2>2. <<Head(q)>> \o Tail(q) \in Seq(S) /\ Len(<<Head(q)>> \o Tail(q)) = Len(q)
      BY <1>1, <2>1, ConcatProperties
    <2>3. ASSUME NEW i \in 1 .. Len(q) PROVE q[i] = (<<Head(q)>> \o Tail(q))[i]
      <3>1. /\ i \in 1 .. 1 + Len(Tail(q)) /\ Len(<<Head(q)>>) = 1
            /\ i > 1 => i - 1 \in 1 .. Len(Tail(q)) /\ (i - 1) + 1 = i
        BY <2>1
      <3>2. (<<Head(q)>> \o Tail(q))[i] = IF i <= 1 THEN <<Head(q)>>[i] ELSE Tail(q)[i - 1]
        BY <1>1, <3>1, ConcatProperties
      <3> QED
        BY <2>1, <3>1, <3>2
    <2> QED
      BY <2>2, <2>3, SeqEqual
  <1>3. Count(<<Head(q)>> \o Tail(q), t) = Count(<<Head(q)>>, t) + Count(Tail(q), t)
    BY <1>1, CountConcat
  <1> QED
    BY <1>2, <1>3, CountOne

\* A task in a queue counts.
LEMMA CountPositive ==
    ASSUME NEW S, NEW q \in Seq(S), NEW t
    PROVE  Count(q, t) # 0 <=> \E m \in InQueue(q) : Carries(m, t)
  <1>1. /\ IsFiniteSet({i \in DOMAIN q : Carries(q[i], t)})
        /\ Count(q, t) = Cardinality({i \in DOMAIN q : Carries(q[i], t)})
    BY CountFinite
  <1>2. Count(q, t) = 0 <=> {i \in DOMAIN q : Carries(q[i], t)} = {}
    BY <1>1, FS_EmptySet
  <1> QED
    BY <1>2 DEF InQueue

-----------------------------------------------------------------------------
(* Queues and what is selected from them *)

LEMMA QueueElements ==
    ASSUME NEW S, NEW q \in Seq(S)
    PROVE  /\ InQueue(q) \subseteq S
           /\ \A m \in S : InQueue(Append(q, m)) = InQueue(q) \cup {m}
           /\ \A r \in Seq(S) : InQueue(q \o r) = InQueue(q) \cup InQueue(r)
           /\ q # <<>> => /\ InQueue(q) = InQueue(Tail(q)) \cup {Head(q)}
                          /\ Tail(q) \in Seq(S) /\ Head(q) \in S
           /\ InQueue(q) = {} <=> q = <<>>
  <1>1. Len(q) \in Nat /\ DOMAIN q = 1 .. Len(q) /\ \A i \in 1 .. Len(q) : q[i] \in S
    BY LenProperties
  <1>2. InQueue(q) \subseteq S
    BY <1>1 DEF InQueue
  <1>3. ASSUME NEW r \in Seq(S) PROVE InQueue(q \o r) = InQueue(q) \cup InQueue(r)
    <2>1. Len(r) \in Nat /\ DOMAIN r = 1 .. Len(r)
      BY LenProperties
    <2>2. /\ q \o r \in Seq(S) /\ DOMAIN (q \o r) = 1 .. Len(q) + Len(r)
          /\ \A i \in 1 .. Len(q) + Len(r) :
                (q \o r)[i] = IF i <= Len(q) THEN q[i] ELSE r[i - Len(q)]
      <3>1. q \o r \in Seq(S) /\ Len(q \o r) = Len(q) + Len(r)
        BY ConcatProperties
      <3> QED
        BY <3>1, ConcatProperties, LenProperties
    <2>3. ASSUME NEW i \in 1 .. Len(q) PROVE \E j \in 1 .. Len(q) + Len(r) : (q \o r)[j] = q[i]
      BY <1>1, <2>1, <2>2
    <2>4. ASSUME NEW i \in 1 .. Len(r) PROVE \E j \in 1 .. Len(q) + Len(r) : (q \o r)[j] = r[i]
      <3>1. i + Len(q) \in 1 .. Len(q) + Len(r) /\ ~(i + Len(q) <= Len(q)) /\ (i + Len(q)) - Len(q) = i
        BY <1>1, <2>1
      <3> QED
        BY <2>2, <3>1
    <2>5. ASSUME NEW j \in 1 .. Len(q) + Len(r)
          PROVE  \/ \E i \in 1 .. Len(q) : (q \o r)[j] = q[i]
                 \/ \E i \in 1 .. Len(r) : (q \o r)[j] = r[i]
      <3>1. j <= Len(q) => j \in 1 .. Len(q)
        BY <1>1, <2>1
      <3>2. ~(j <= Len(q)) => j - Len(q) \in 1 .. Len(r)
        BY <1>1, <2>1
      <3> QED
        BY <2>2, <3>1, <3>2
    <2>6. /\ \A x : x \in InQueue(q) <=> \E i \in 1 .. Len(q) : x = q[i]
          /\ \A x : x \in InQueue(r) <=> \E i \in 1 .. Len(r) : x = r[i]
          /\ \A x : x \in InQueue(q \o r) <=> \E i \in 1 .. Len(q) + Len(r) : x = (q \o r)[i]
      <3>1. \A x : x \in InQueue(q) <=> \E i \in 1 .. Len(q) : x = q[i]
        BY <1>1 DEF InQueue
      <3>2. \A x : x \in InQueue(r) <=> \E i \in 1 .. Len(r) : x = r[i]
        BY <2>1 DEF InQueue
      <3>3. \A x : x \in InQueue(q \o r) <=> \E i \in 1 .. Len(q) + Len(r) : x = (q \o r)[i]
        <4> DEFINE qr == q \o r
        <4>1. DOMAIN qr = 1 .. Len(q) + Len(r)
          BY <2>2
        <4> HIDE DEF qr
        <4>2. \A x : x \in InQueue(qr) <=> \E i \in 1 .. Len(q) + Len(r) : x = qr[i]
          BY <4>1 DEF InQueue
        <4> QED
          BY <4>2 DEF qr
      <3> QED
        BY <3>1, <3>2, <3>3
    <2>7. \A x : x \in InQueue(q \o r) <=> x \in InQueue(q) \/ x \in InQueue(r)
      <3> TAKE x
      <3> DEFINE At(j) == (q \o r)[j]
      <3>0. x \in InQueue(q \o r) <=> \E j \in 1 .. Len(q) + Len(r) : x = At(j)
        BY <2>6
      <3>1. ASSUME x \in InQueue(q) PROVE x \in InQueue(q \o r)
        <4>1. PICK i \in 1 .. Len(q) : x = q[i]
          BY <2>6, <3>1
        <4>2. PICK j \in 1 .. Len(q) + Len(r) : At(j) = q[i]
          BY <2>3
        <4> HIDE DEF At
        <4> QED
          BY <3>0, <4>1, <4>2
      <3>2. ASSUME x \in InQueue(r) PROVE x \in InQueue(q \o r)
        <4>1. PICK i \in 1 .. Len(r) : x = r[i]
          BY <2>6, <3>2
        <4>2. PICK j \in 1 .. Len(q) + Len(r) : At(j) = r[i]
          BY <2>4
        <4> HIDE DEF At
        <4> QED
          BY <3>0, <4>1, <4>2
      <3>3. x \in InQueue(q \o r) => x \in InQueue(q) \/ x \in InQueue(r)
        <4> SUFFICES ASSUME x \in InQueue(q \o r)
                     PROVE  x \in InQueue(q) \/ x \in InQueue(r)
          OBVIOUS
        <4>1. PICK j \in 1 .. Len(q) + Len(r) : x = (q \o r)[j]
          BY <2>6
        <4>2. CASE \E i \in 1 .. Len(q) : (q \o r)[j] = q[i]
          BY <2>6, <4>1, <4>2
        <4>3. CASE \E i \in 1 .. Len(r) : (q \o r)[j] = r[i]
          BY <2>6, <4>1, <4>3
        <4> QED
          BY <2>5, <4>2, <4>3
      <3> QED
        BY <3>1, <3>2, <3>3
    <2> QED
      BY <2>7
  <1>4. ASSUME NEW m \in S PROVE InQueue(Append(q, m)) = InQueue(q) \cup {m}
    <2>1. <<m>> \in Seq(S) /\ Append(q, m) = q \o <<m>> /\ InQueue(<<m>>) = {m}
      BY DEF InQueue
    <2> QED
      BY <1>3, <2>1
  <1>5. ASSUME q # <<>>
        PROVE  /\ InQueue(q) = InQueue(Tail(q)) \cup {Head(q)}
               /\ Tail(q) \in Seq(S) /\ Head(q) \in S
    <2>1. /\ Len(q) # 0 /\ Len(Tail(q)) = Len(q) - 1 /\ Head(q) = q[1]
          /\ \A i \in 1 .. Len(Tail(q)) : Tail(q)[i] = q[i + 1]
          /\ Tail(q) \in Seq(S) /\ Head(q) \in S
      BY <1>5, HeadTailProperties, LenProperties, EmptySeq
    <2>2. DOMAIN Tail(q) = 1 .. Len(Tail(q))
      BY <2>1, LenProperties
    <2>3. \A i \in 1 .. Len(q) : i # 1 => i - 1 \in 1 .. Len(Tail(q)) /\ (i - 1) + 1 = i
      BY <1>1, <2>1
    <2>4. \A i \in 1 .. Len(Tail(q)) : i + 1 \in 1 .. Len(q)
      BY <1>1, <2>1
    <2>5. 1 \in 1 .. Len(q)
      BY <1>1, <2>1
    <2>6. \A i \in 1 .. Len(q) : q[i] = Head(q) \/ \E j \in 1 .. Len(Tail(q)) : q[i] = Tail(q)[j]
      BY <2>1, <2>3
    <2>7. \A i \in 1 .. Len(Tail(q)) : \E j \in 1 .. Len(q) : Tail(q)[i] = q[j]
      BY <2>1, <2>4
    <2>8. /\ \A x : x \in InQueue(q) <=> \E i \in 1 .. Len(q) : x = q[i]
          /\ \A x : x \in InQueue(Tail(q)) <=> \E i \in 1 .. Len(Tail(q)) : x = Tail(q)[i]
      BY <1>1, <2>2 DEF InQueue
    <2>9. \A x : x \in InQueue(q) <=> x \in InQueue(Tail(q)) \/ x = Head(q)
      <3> TAKE x
      <3>1. x \in InQueue(Tail(q)) => x \in InQueue(q)
        BY <2>7, <2>8
      <3>2. x = Head(q) => x \in InQueue(q)
        BY <2>1, <2>5, <2>8
      <3>3. x \in InQueue(q) => x \in InQueue(Tail(q)) \/ x = Head(q)
        BY <2>6, <2>8
      <3> QED
        BY <3>1, <3>2, <3>3
    <2> QED
      BY <2>1, <2>9
  <1>6. InQueue(q) = {} <=> q = <<>>
    <2>1. q # <<>> => Head(q) \in InQueue(q)
      BY <1>5
    <2>2. InQueue(<<>>) = {}
      BY DEF InQueue
    <2> QED
      BY <2>1, <2>2
  <1> QED
    BY <1>2, <1>3, <1>4, <1>5, <1>6

LEMMA LeastNat ==
    ASSUME NEW T, T \subseteq Nat, T # {}
    PROVE  \E x \in T : \A y \in T : x <= y
  <1> DEFINE Less == {ss \in Nat \X Nat : ss[1] < ss[2]}
  <1>1. IsWellFoundedOn(Less, Nat)
    BY NatLessThanWellFounded DEF OpToRel
  <1>2. PICK x \in T : \A y \in T : ~ (<<y, x>> \in Less)
    BY <1>1, WFMin
  <1>3. \A y \in T : ~ (y < x)
    BY <1>2
  <1> QED
    BY <1>3

\* Induction up to a bound.
LEMMA UpTo ==
    ASSUME NEW n \in Nat, NEW T, 0 \in T,
           \A i \in 0 .. n : i \in T /\ i < n => i + 1 \in T
    PROVE  \A i \in 0 .. n : i \in T
  <1> SUFFICES ASSUME 0 .. n \ T # {} PROVE FALSE
    OBVIOUS
  <1>1. 0 .. n \ T \subseteq Nat
    OBVIOUS
  <1>2. PICK x \in 0 .. n \ T : \A y \in 0 .. n \ T : x <= y
    BY <1>1, LeastNat
  <1>3. x # 0 /\ x - 1 \in 0 .. n /\ ~(x <= x - 1) /\ x - 1 < n /\ (x - 1) + 1 = x
    BY <1>2
  <1>4. x - 1 \in T
    BY <1>2, <1>3
  <1> QED
    BY <1>2, <1>3, <1>4

Grown(list, keep, before, i) ==
    IF list[i] \in keep THEN Append(before, list[i]) ELSE before

Taken(list, keep, n, f) ==
    f = [i \in 0 .. n |-> IF i = 0 THEN <<>> ELSE Grown(list, keep, f[i - 1], i)]

LEMMA TakenExists ==
    ASSUME NEW S, NEW list \in Seq(S), NEW keep
    PROVE  \A n \in 0 .. Len(list) : \E f : Taken(list, keep, n, f)
  <1> DEFINE T == {n \in Nat : \E f : Taken(list, keep, n, f)}
  <1>1. 0 \in T
    <2>1. Taken(list, keep, 0, [i \in 0 .. 0 |-> <<>>])
      BY DEF Taken
    <2> QED
      BY <2>1
  <1>2. ASSUME NEW n \in T PROVE n + 1 \in T
    <2>1. PICK f : Taken(list, keep, n, f)
      OBVIOUS
    <2> DEFINE g == [i \in 0 .. n + 1 |->
                        IF i = 0 THEN <<>> ELSE Grown(list, keep, f[i - 1], i)]
    <2>2. \A i \in 0 .. n : f[i] = IF i = 0 THEN <<>> ELSE Grown(list, keep, f[i - 1], i)
      BY <2>1 DEF Taken
    <2>3. \A i \in 0 .. n : i \in 0 .. n + 1
      OBVIOUS
    <2>4. \A i \in 0 .. n : g[i] = f[i]
      BY <2>2, <2>3
    <2>5. ASSUME NEW i \in 0 .. n + 1, i # 0 PROVE f[i - 1] = g[i - 1]
      <3>1. i - 1 \in 0 .. n
        BY <2>5
      <3> HIDE DEF g
      <3> QED
        BY <2>4, <3>1
    <2>6. g = [i \in 0 .. n + 1 |-> IF i = 0 THEN <<>> ELSE Grown(list, keep, g[i - 1], i)]
      <3>1. \A i \in 0 .. n + 1 : (IF i = 0 THEN <<>> ELSE Grown(list, keep, f[i - 1], i))
                                    = IF i = 0 THEN <<>> ELSE Grown(list, keep, g[i - 1], i)
        <4> HIDE DEF g
        <4> QED
          BY <2>5
      <3> QED
        BY <3>1, Zenon
    <2> HIDE DEF g
    <2>7. Taken(list, keep, n + 1, g)
      BY <2>6 DEF Taken
    <2> QED
      BY <2>7
  <1>3. Len(list) \in Nat
    BY LenProperties
  <1> HIDE DEF T
  <1>4. \A n \in 0 .. Len(list) : n \in T
    BY <1>1, <1>2, <1>3, UpTo
  <1> QED
    BY <1>4 DEF T

LEMMA SelectTaken ==
    ASSUME NEW S, NEW list \in Seq(S), NEW keep
    PROVE  \E f : /\ Select(list, keep) = f[Len(list)]
                  /\ f[0] = <<>>
                  /\ \A i \in 1 .. Len(list) : f[i] = Grown(list, keep, f[i - 1], i)
  <1>1. Len(list) \in Nat
    BY LenProperties
  <1>2. \E f : Taken(list, keep, Len(list), f)
    BY <1>1, TakenExists
  <1> DEFINE taken == CHOOSE f : Taken(list, keep, Len(list), f)
  <1>3. Taken(list, keep, Len(list), taken)
    BY <1>2
  <1>4. Select(list, keep) = taken[Len(list)]
    BY DEF Select, Taken, Grown
  <1> HIDE DEF taken
  <1>5. \A i \in 0 .. Len(list) :
            taken[i] = IF i = 0 THEN <<>> ELSE Grown(list, keep, taken[i - 1], i)
    BY <1>3 DEF Taken
  <1>6. taken[0] = <<>>
    BY <1>1, <1>5
  <1>7. \A i \in 1 .. Len(list) : taken[i] = Grown(list, keep, taken[i - 1], i)
    BY <1>1, <1>5
  <1> QED
    BY <1>4, <1>6, <1>7

\* What is selected are the elements of the list that are in keep.
LEMMA SelectProperties ==
    ASSUME NEW S, NEW list \in Seq(S), NEW keep
    PROVE  /\ Select(list, keep) \in Seq(S)
           /\ InQueue(Select(list, keep)) = InQueue(list) \cap keep
  <1>1. Len(list) \in Nat /\ DOMAIN list = 1 .. Len(list) /\ \A i \in 1 .. Len(list) : list[i] \in S
    BY LenProperties
  <1>2. PICK f : /\ Select(list, keep) = f[Len(list)]
                 /\ f[0] = <<>>
                 /\ \A i \in 1 .. Len(list) : f[i] = Grown(list, keep, f[i - 1], i)
    BY SelectTaken
  <1> DEFINE T == {n \in 0 .. Len(list) :
                      /\ f[n] \in Seq(S)
                      /\ InQueue(f[n]) = {list[i] : i \in 1 .. n} \cap keep}
  <1>3. 0 \in T
    <2>1. f[0] \in Seq(S) /\ InQueue(f[0]) = {}
      BY <1>2 DEF InQueue
    <2>2. {list[i] : i \in 1 .. 0} = {} /\ 0 \in 0 .. Len(list)
      BY <1>1
    <2> QED
      BY <2>1, <2>2
  <1>4. ASSUME NEW n \in 0 .. Len(list), n \in T, n < Len(list) PROVE n + 1 \in T
    <2>1. n + 1 \in 1 .. Len(list) /\ n + 1 \in 0 .. Len(list) /\ (n + 1) - 1 = n
      BY <1>1, <1>4
    <2>2. f[n + 1] = Grown(list, keep, f[n], n + 1)
      BY <1>2, <2>1
    <2>3. {list[i] : i \in 1 .. n + 1} = {list[i] : i \in 1 .. n} \cup {list[n + 1]}
      <3>1. 1 .. n + 1 = 1 .. n \cup {n + 1}
        BY <1>1
      <3> QED
        BY <3>1
    <2>4. CASE list[n + 1] \in keep
      <3>1. f[n + 1] = Append(f[n], list[n + 1]) /\ f[n] \in Seq(S) /\ list[n + 1] \in S
        BY <1>1, <1>4, <2>1, <2>2, <2>4 DEF Grown
      <3>2. InQueue(f[n + 1]) = InQueue(f[n]) \cup {list[n + 1]}
        BY <3>1, QueueElements
      <3>3. f[n + 1] \in Seq(S)
        BY <3>1
      <3>4. InQueue(f[n + 1]) = {list[i] : i \in 1 .. n + 1} \cap keep
        BY <1>4, <2>3, <2>4, <3>2
      <3> QED
        BY <2>1, <3>3, <3>4
    <2>5. CASE list[n + 1] \notin keep
      <3>1. f[n + 1] = f[n]
        BY <2>2, <2>5 DEF Grown
      <3> QED
        BY <1>4, <2>1, <2>3, <2>5, <3>1
    <2> QED
      BY <2>4, <2>5
  <1> HIDE DEF T
  <1>5. \A n \in 0 .. Len(list) : n \in T
    BY <1>1, <1>3, <1>4, UpTo
  <1>6. f[Len(list)] \in Seq(S) /\ InQueue(f[Len(list)]) = {list[i] : i \in 1 .. Len(list)} \cap keep
    <2>1. Len(list) \in T
      BY <1>1, <1>5
    <2> QED
      BY <2>1 DEF T
  <1>7. InQueue(list) = {list[i] : i \in 1 .. Len(list)}
    BY <1>1 DEF InQueue
  <1> QED
    BY <1>2, <1>6, <1>7

\* A list falls into the elements that are in keep and the others.
LEMMA CountSelect ==
    ASSUME NEW S, NEW list \in Seq(S), NEW keep, NEW rest, NEW t,
           \A m \in InQueue(list) : m \in keep <=> m \notin rest
    PROVE  Count(list, t) = Count(Select(list, keep), t) + Count(Select(list, rest), t)
  <1>1. Len(list) \in Nat /\ DOMAIN list = 1 .. Len(list) /\ \A i \in 1 .. Len(list) : list[i] \in S
    BY LenProperties
  <1>2. PICK f : /\ Select(list, keep) = f[Len(list)]
                 /\ f[0] = <<>>
                 /\ \A i \in 1 .. Len(list) : f[i] = Grown(list, keep, f[i - 1], i)
    BY SelectTaken
  <1>3. PICK g : /\ Select(list, rest) = g[Len(list)]
                 /\ g[0] = <<>>
                 /\ \A i \in 1 .. Len(list) : g[i] = Grown(list, rest, g[i - 1], i)
    BY SelectTaken
  <1> DEFINE A(n) == {i \in 1 .. n : Carries(list[i], t)}
             T == {n \in 0 .. Len(list) :
                      /\ f[n] \in Seq(S) /\ g[n] \in Seq(S)
                      /\ IsFiniteSet(A(n))
                      /\ Cardinality(A(n)) = Count(f[n], t) + Count(g[n], t)}
  <1>4. 0 \in T
    <2>1. A(0) = {}
      OBVIOUS
    <2> HIDE DEF A
    <2>2. f[0] \in Seq(S) /\ g[0] \in Seq(S) /\ Count(f[0], t) = 0 /\ Count(g[0], t) = 0
      BY <1>2, <1>3, CountOne
    <2>3. IsFiniteSet(A(0)) /\ Cardinality(A(0)) = 0
      BY <2>1, FS_EmptySet
    <2> QED
      BY <1>1, <2>2, <2>3
  <1>5. ASSUME NEW n \in 0 .. Len(list), n \in T, n < Len(list) PROVE n + 1 \in T
    <2>1. /\ n + 1 \in 1 .. Len(list) /\ n + 1 \in 0 .. Len(list) /\ (n + 1) - 1 = n
          /\ list[n + 1] \in S /\ list[n + 1] \in InQueue(list)
      BY <1>1, <1>5 DEF InQueue
    <2>2. f[n + 1] = Grown(list, keep, f[n], n + 1) /\ g[n + 1] = Grown(list, rest, g[n], n + 1)
      BY <1>2, <1>3, <2>1
    <2>3. IsFiniteSet(A(n + 1)) /\ Cardinality(A(n + 1)) = Cardinality(A(n)) + Weight(list[n + 1], t)
      <3>0. n + 1 \notin 1 .. n /\ 1 .. n + 1 = 1 .. n \cup {n + 1}
        BY <1>1
      <3>1. CASE Carries(list[n + 1], t)
        <4>1. A(n + 1) = A(n) \cup {n + 1} /\ n + 1 \notin A(n)
          BY <3>0, <3>1
        <4> HIDE DEF A
        <4> QED
          BY <1>5, <3>1, <4>1, FS_AddElement DEF Weight
      <3>2. CASE ~Carries(list[n + 1], t)
        <4>1. A(n + 1) = A(n)
          BY <3>0, <3>2
        <4> HIDE DEF A
        <4>2. Cardinality(A(n)) \in Nat
          BY <1>5, FS_CardinalityType
        <4> QED
          BY <1>5, <3>2, <4>1, <4>2 DEF Weight
      <3> QED
        BY <3>1, <3>2
    <2> HIDE DEF A
    <2>4. /\ Count(f[n], t) \in Nat /\ Count(g[n], t) \in Nat
          /\ Count(Append(f[n], list[n + 1]), t) = Count(f[n], t) + Weight(list[n + 1], t)
          /\ Count(Append(g[n], list[n + 1]), t) = Count(g[n], t) + Weight(list[n + 1], t)
          /\ Weight(list[n + 1], t) \in Nat
      <3>1. f[n] \in Seq(S) /\ g[n] \in Seq(S)
        BY <1>5
      <3>2. Count(f[n], t) \in Nat /\ Count(g[n], t) \in Nat
        BY <3>1, CountFinite
      <3>3. Count(Append(f[n], list[n + 1]), t) = Count(f[n], t) + Weight(list[n + 1], t)
        BY <2>1, <3>1, CountAppend
      <3>4. Count(Append(g[n], list[n + 1]), t) = Count(g[n], t) + Weight(list[n + 1], t)
        BY <2>1, <3>1, CountAppend
      <3> QED
        BY <3>2, <3>3, <3>4 DEF Weight
    <2>5. CASE list[n + 1] \in keep
      <3>1. f[n + 1] = Append(f[n], list[n + 1]) /\ g[n + 1] = g[n]
        BY <2>1, <2>2, <2>5 DEF Grown
      <3>2. f[n + 1] \in Seq(S) /\ g[n + 1] \in Seq(S)
        BY <1>5, <2>1, <3>1
      <3>3. Cardinality(A(n + 1)) = Count(f[n + 1], t) + Count(g[n + 1], t)
        BY <1>5, <2>3, <2>4, <3>1
      <3> QED
        BY <2>1, <2>3, <3>2, <3>3
    <2>6. CASE list[n + 1] \notin keep
      <3>1. f[n + 1] = f[n] /\ g[n + 1] = Append(g[n], list[n + 1])
        BY <2>1, <2>2, <2>6 DEF Grown
      <3>2. f[n + 1] \in Seq(S) /\ g[n + 1] \in Seq(S)
        BY <1>5, <2>1, <3>1
      <3>3. Cardinality(A(n + 1)) = Count(f[n + 1], t) + Count(g[n + 1], t)
        BY <1>5, <2>3, <2>4, <3>1
      <3> QED
        BY <2>1, <2>3, <3>2, <3>3
    <2> QED
      BY <2>5, <2>6
  <1>6. Count(list, t) = Cardinality(A(Len(list)))
    BY <1>1, CountFinite
  <1> HIDE DEF T, A
  <1>7. \A n \in 0 .. Len(list) : n \in T
    BY <1>1, <1>4, <1>5, UpTo
  <1> QED
    BY <1>2, <1>3, <1>6, <1>7 DEF T

-----------------------------------------------------------------------------
(* The places of a task *)

\* How many of the workers with the tasks W have task t.
Busy(W, t) == Cardinality({w \in W : w.task.flags = t})
Mine(w, t) == IF w.task.flags = t THEN 1 ELSE 0

Inside(s, t) ==
    Count(pool[s], t) + Count(helperQ[s], t) + Count(waiting[s], t) + Busy(working[s], t)

\* What a step of stage s moves, and what it leaves alone.
Local(s, t) == Inside(s, t) + Count(queue[s], t) + Count(queue[Output(s)], t)
Elsewhere(s, t) == IF s = "build" THEN Inside("test", t) + Count(queue["steering"], t)
                   ELSE Inside("build", t) + Count(queue["build"], t)

LEMMA TaskFacts ==
    ASSUME NEW m \in TaskRecords
    PROVE  /\ m # PoisonPill /\ m \in Pulled /\ m.flags \in FlagSets
           /\ \A t : Carries(m, t) <=> m.flags = t
           /\ \A t : Weight(m, t) = IF m.flags = t THEN 1 ELSE 0
           /\ \A s \in Stages : \A r \in Outcomes(s) :
                 /\ SetResult(s, m, r) \in TaskRecords /\ SetResult(s, m, r).flags = m.flags
                 /\ SetResult(s, m, r).image = IF s = "build" THEN r ELSE m.image
                 /\ SetResult(s, m, r).cost = IF s = "build" THEN m.cost ELSE r
  <1>1. m # PoisonPill
    BY PipelineAssumption
  <1>2. m \in Pulled /\ m.flags \in FlagSets
    BY DEF Pulled, TaskRecords
  <1>3. \A t : Carries(m, t) <=> m.flags = t
    BY <1>1 DEF Carries
  <1>4. \A t : Weight(m, t) = IF m.flags = t THEN 1 ELSE 0
    BY <1>3 DEF Weight
  <1>5. ASSUME NEW s \in Stages, NEW r \in Outcomes(s)
        PROVE  /\ SetResult(s, m, r) \in TaskRecords /\ SetResult(s, m, r).flags = m.flags
               /\ SetResult(s, m, r).image = IF s = "build" THEN r ELSE m.image
               /\ SetResult(s, m, r).cost = IF s = "build" THEN m.cost ELSE r
    BY DEF SetResult, TaskRecords, Outcomes, Stages
  <1> QED
    BY <1>1, <1>2, <1>3, <1>4, <1>5

LEMMA PillFacts ==
    PoisonPill \in Pulled /\ \A t : ~Carries(PoisonPill, t) /\ Weight(PoisonPill, t) = 0
  BY DEF Pulled, Carries, Weight

\* The queues and sets around stage s.
LEMMA StageFacts ==
    ASSUME StageTypes, NEW s \in Stages
    PROVE  /\ Output(s) \in Stages \cup {"steering"} /\ Output(s) # s
           /\ queue[s] \in Seq(Pulled) /\ queue[Output(s)] \in Seq(Pulled)
           /\ pool[s] \in Seq(TaskRecords) /\ waiting[s] \in Seq(TaskRecords)
           /\ helperQ[s] \in Seq(Pulled)
           /\ working[s] \subseteq [task : TaskRecords, next : WorkSteps]
           /\ IsFiniteSet(working[s])
           /\ completedQ[s] \in Seq(Keys \X Outcomes(s))
  BY DEF StageTypes, Stages, Output

LEMMA BusyFacts ==
    ASSUME NEW W, IsFiniteSet(W), NEW t
    PROVE  /\ IsFiniteSet({w \in W : w.task.flags = t}) /\ Busy(W, t) \in Nat
           /\ Busy(W, t) = 0 <=> \A w \in W : w.task.flags # t
           /\ \A v, w \in W : Busy(W, t) <= 1 /\ v.task.flags = t /\ w.task.flags = t => v = w
  <1> DEFINE A == {w \in W : w.task.flags = t}
  <1>1. IsFiniteSet(A)
    BY FS_Subset
  <1>2. Busy(W, t) = Cardinality(A)
    BY DEF Busy
  <1>3. Cardinality(A) \in Nat /\ (Cardinality(A) = 0 <=> A = {})
    BY <1>1, FS_CardinalityType, FS_EmptySet
  <1>4. ASSUME NEW v \in W, NEW w \in W, Busy(W, t) <= 1, v.task.flags = t, w.task.flags = t
        PROVE  v = w
    <2>1. v \in A /\ w \in A
      BY <1>4
    <2>2. Cardinality(A) = 1
      BY <1>2, <1>3, <1>4, <2>1
    <2>3. PICK x : A = {x}
      BY <1>1, <2>2, FS_Singleton
    <2> QED
      BY <2>1, <2>3
  <1> QED
    BY <1>1, <1>2, <1>3, <1>4

LEMMA BusyMore ==
    ASSUME NEW W, IsFiniteSet(W), NEW w, w \notin W, NEW t
    PROVE  /\ IsFiniteSet(W \cup {w})
           /\ Busy(W \cup {w}, t) = Busy(W, t) + Mine(w, t)
  <1> DEFINE A == {x \in W : x.task.flags = t}
             B == {x \in W \cup {w} : x.task.flags = t}
  <1>1. IsFiniteSet(A) /\ w \notin A /\ Busy(W, t) = Cardinality(A) /\ Busy(W, t) \in Nat
    BY BusyFacts DEF Busy
  <1>2. IsFiniteSet(W \cup {w})
    BY FS_AddElement
  <1>3. Busy(W \cup {w}, t) = Cardinality(B)
    BY DEF Busy
  <1>4. CASE w.task.flags = t
    <2>1. B = A \cup {w}
      BY <1>4
    <2> HIDE DEF A, B
    <2>2. Cardinality(A \cup {w}) = Cardinality(A) + 1
      BY <1>1, FS_AddElement
    <2> QED
      BY <1>1, <1>2, <1>3, <1>4, <2>1, <2>2 DEF Mine
  <1>5. CASE w.task.flags # t
    <2>1. B = A
      BY <1>5
    <2> HIDE DEF A, B
    <2> QED
      BY <1>1, <1>2, <1>3, <1>5, <2>1 DEF Mine
  <1> QED
    BY <1>4, <1>5

LEMMA BusyLess ==
    ASSUME NEW W, IsFiniteSet(W), NEW w \in W
    PROVE  /\ IsFiniteSet(W \ {w})
           /\ \A t : Busy(W, t) = Busy(W \ {w}, t) + Mine(w, t)
  <1> SUFFICES ASSUME NEW t
               PROVE  /\ IsFiniteSet(W \ {w})
                      /\ Busy(W, t) = Busy(W \ {w}, t) + Mine(w, t)
    OBVIOUS
  <1>1. IsFiniteSet(W \ {w}) /\ w \notin W \ {w} /\ (W \ {w}) \cup {w} = W
    BY FS_RemoveElement
  <1>2. Busy((W \ {w}) \cup {w}, t) = Busy(W \ {w}, t) + Mine(w, t)
    BY <1>1, BusyMore
  <1> QED
    BY <1>1, <1>2

\* A worker that goes on with its task, which no other has.
LEMMA BusyAfter ==
    ASSUME NEW W, IsFiniteSet(W), NEW w \in W, NEW v, v.task.flags = w.task.flags,
           Busy(W, w.task.flags) <= 1
    PROVE  /\ IsFiniteSet((W \ {w}) \cup {v})
           /\ \A t : Busy((W \ {w}) \cup {v}, t) = Busy(W, t)
  <1>1. v \notin W \ {w}
    BY BusyFacts
  <1> SUFFICES ASSUME NEW t
               PROVE  /\ IsFiniteSet((W \ {w}) \cup {v})
                      /\ Busy((W \ {w}) \cup {v}, t) = Busy(W, t)
    OBVIOUS
  <1>2. /\ IsFiniteSet(W \ {w})
        /\ Busy(W, t) = Busy(W \ {w}, t) + Mine(w, t)
    BY BusyLess
  <1>3. /\ IsFiniteSet((W \ {w}) \cup {v})
        /\ Busy((W \ {w}) \cup {v}, t) = Busy(W \ {w}, t) + Mine(v, t)
    BY <1>1, <1>2, BusyMore
  <1>4. Mine(v, t) = Mine(w, t)
    BY DEF Mine
  <1> QED
    BY <1>2, <1>3, <1>4

LEMMA PlacesSum ==
    ASSUME StageTypes, NEW t, NEW s \in Stages
    PROVE  /\ Places(t) = Local(s, t) + Elsewhere(s, t)
           /\ Local(s, t) \in Nat /\ Elsewhere(s, t) \in Nat
           /\ Inside(s, t) \in Nat /\ Count(queue[s], t) \in Nat /\ Count(queue[Output(s)], t) \in Nat
           /\ Count(pool[s], t) \in Nat /\ Count(helperQ[s], t) \in Nat
           /\ Count(waiting[s], t) \in Nat /\ Busy(working[s], t) \in Nat
  <1>1. ASSUME NEW u \in Stages
        PROVE  /\ Count(pool[u], t) \in Nat /\ Count(helperQ[u], t) \in Nat
               /\ Count(waiting[u], t) \in Nat /\ Busy(working[u], t) \in Nat
               /\ Count(queue[u], t) \in Nat /\ Count(queue[Output(u)], t) \in Nat
    <2>1. /\ pool[u] \in Seq(TaskRecords) /\ waiting[u] \in Seq(TaskRecords)
          /\ helperQ[u] \in Seq(Pulled) /\ IsFiniteSet(working[u])
          /\ queue[u] \in Seq(Pulled) /\ queue[Output(u)] \in Seq(Pulled)
      BY StageFacts
    <2>2. Count(pool[u], t) \in Nat /\ Count(waiting[u], t) \in Nat
      BY <2>1, CountFinite
    <2>3. Count(helperQ[u], t) \in Nat /\ Count(queue[u], t) \in Nat /\ Count(queue[Output(u)], t) \in Nat
      BY <2>1, CountFinite
    <2>4. Busy(working[u], t) \in Nat
      BY <2>1, BusyFacts
    <2> QED
      BY <2>2, <2>3, <2>4
  <1>2. Inside("build", t) \in Nat /\ Inside("test", t) \in Nat
    BY <1>1 DEF Inside, Stages
  <1>3. Count(queue["build"], t) \in Nat /\ Count(queue["test"], t) \in Nat /\ Count(queue["steering"], t) \in Nat
    BY <1>1 DEF Stages, Output
  <1>4. Places(t) = (Count(pool["build"], t) + Count(helperQ["build"], t) + Count(waiting["build"], t)
                       + Count(queue["build"], t) + Busy(working["build"], t))
                    + (Count(pool["test"], t) + Count(helperQ["test"], t) + Count(waiting["test"], t)
                       + Count(queue["test"], t) + Busy(working["test"], t))
                    + Count(queue["steering"], t)
    BY DEF Places, Count, Busy
  <1>5. Places(t) = Inside("build", t) + Inside("test", t)
                    + Count(queue["build"], t) + Count(queue["test"], t) + Count(queue["steering"], t)
    BY <1>1, <1>3, <1>4 DEF Inside, Stages
  <1>6. s = "build" \/ s = "test"
    BY DEF Stages
  <1>7. Places(t) = Local(s, t) + Elsewhere(s, t) /\ Local(s, t) \in Nat /\ Elsewhere(s, t) \in Nat
    BY <1>2, <1>3, <1>5, <1>6 DEF Local, Elsewhere, Output
  <1> QED
    BY <1>1, <1>2, <1>6, <1>7

PlacesAddUp ==
    \A t : \A s \in Stages :
        Places(t) = Local(s, t) + Elsewhere(s, t)

LEMMA PlacesNow == StageTypes => PlacesAddUp
  BY PlacesSum DEF PlacesAddUp

LEMMA PlacesThen == StageTypes' => PlacesAddUp'
  <1>1. (StageTypes => PlacesAddUp)'
    BY PlacesNow, PTL
  <1> QED
    BY <1>1

OthersAlone(s) ==
    /\ \A u \in Stages \ {s} : /\ pool'[u] = pool[u] /\ helperQ'[u] = helperQ[u]
                               /\ waiting'[u] = waiting[u] /\ working'[u] = working[u]
    /\ \A q \in (Stages \cup {"steering"}) \ {s, Output(s)} : queue'[q] = queue[q]

LEMMA ElsewhereSame ==
    ASSUME NEW s \in Stages, OthersAlone(s)
    PROVE  \A t : Elsewhere(s, t)' = Elsewhere(s, t)
  <1>1. CASE s = "build"
    BY <1>1 DEF OthersAlone, Elsewhere, Inside, Stages, Output
  <1>2. CASE s = "test"
    BY <1>2 DEF OthersAlone, Elsewhere, Inside, Stages, Output
  <1> QED
    BY <1>1, <1>2 DEF Stages

\* A stage that only moves its tasks leaves each in one place.
LEMMA MovesKeep ==
    ASSUME StageTypes, StageTypes', NEW s \in Stages, OthersAlone(s), OnePlace,
           UNCHANGED <<raised, cache, log>>,
           \A t \in FlagSets : Local(s, t)' = Local(s, t)
    PROVE  OnePlace'
  <1>1. \A t : Elsewhere(s, t)' = Elsewhere(s, t)
    BY ElsewhereSame
  <1>2. \A t \in FlagSets : Places(t) = Local(s, t) + Elsewhere(s, t)
    BY PlacesNow DEF PlacesAddUp
  <1>3. \A t \in FlagSets : Places(t)' = Local(s, t)' + Elsewhere(s, t)'
    BY PlacesThen DEF PlacesAddUp
  <1>4. \A t \in FlagSets : Places(t)' = Places(t)
    BY <1>1, <1>2, <1>3
  <1>5. Underway' = Underway
    BY DEF Underway, Raised
  <1> QED
    BY <1>4, <1>5 DEF OnePlace

PipelineInv == Types /\ OnePlace /\ GenerationInv /\ PillInv /\ AllReady /\ KeysInv

LEMMA PlacesPositive ==
    ASSUME StageTypes, NEW s \in Stages, NEW t,
           \/ Count(pool[s], t) # 0 \/ Count(helperQ[s], t) # 0 \/ Count(waiting[s], t) # 0
           \/ Count(queue[s], t) # 0 \/ Count(queue[Output(s)], t) # 0 \/ Busy(working[s], t) # 0
    PROVE  Places(t) # 0
  <1>1. /\ Places(t) = Local(s, t) + Elsewhere(s, t)
        /\ Local(s, t) \in Nat /\ Elsewhere(s, t) \in Nat
        /\ Inside(s, t) \in Nat /\ Count(queue[s], t) \in Nat /\ Count(queue[Output(s)], t) \in Nat
        /\ Count(pool[s], t) \in Nat /\ Count(helperQ[s], t) \in Nat
        /\ Count(waiting[s], t) \in Nat /\ Busy(working[s], t) \in Nat
    BY PlacesSum
  <1>2. Places(t) = 0 => Local(s, t) = 0
    BY <1>1
  <1>3. Local(s, t) = 0 => Inside(s, t) = 0 /\ Count(queue[s], t) = 0 /\ Count(queue[Output(s)], t) = 0
    BY <1>1 DEF Local
  <1>4. Inside(s, t) = 0 => /\ Count(pool[s], t) = 0 /\ Count(helperQ[s], t) = 0
                            /\ Count(waiting[s], t) = 0 /\ Busy(working[s], t) = 0
    BY <1>1 DEF Inside
  <1> QED
    BY <1>2, <1>3, <1>4

\* A task that is somewhere is underway.
LEMMA SomewhereUnderway ==
    ASSUME StageTypes, OnePlace, NEW s \in Stages, NEW m \in TaskRecords,
           \/ m \in InQueue(pool[s]) \cup InQueue(helperQ[s]) \cup InQueue(waiting[s])
           \/ m \in InQueue(queue[s]) \cup InQueue(queue[Output(s)])
           \/ \E w \in working[s] : w.task = m
    PROVE  m.flags \in Underway
  <1> DEFINE t == m.flags
  <1>1. m.flags \in FlagSets /\ Carries(m, t)
    BY TaskFacts
  <1>3. \/ Count(pool[s], t) # 0 \/ Count(helperQ[s], t) # 0 \/ Count(waiting[s], t) # 0
        \/ Count(queue[s], t) # 0 \/ Count(queue[Output(s)], t) # 0 \/ Busy(working[s], t) # 0
    <2>1. /\ pool[s] \in Seq(TaskRecords) /\ waiting[s] \in Seq(TaskRecords)
          /\ helperQ[s] \in Seq(Pulled) /\ IsFiniteSet(working[s])
          /\ queue[s] \in Seq(Pulled) /\ queue[Output(s)] \in Seq(Pulled)
      BY StageFacts
    <2>2. m \in InQueue(pool[s]) => Count(pool[s], t) # 0
      BY <1>1, <2>1, CountPositive
    <2>3. m \in InQueue(waiting[s]) => Count(waiting[s], t) # 0
      BY <1>1, <2>1, CountPositive
    <2>4. m \in InQueue(helperQ[s]) => Count(helperQ[s], t) # 0
      BY <1>1, <2>1, CountPositive
    <2>5. m \in InQueue(queue[s]) => Count(queue[s], t) # 0
      BY <1>1, <2>1, CountPositive
    <2>6. m \in InQueue(queue[Output(s)]) => Count(queue[Output(s)], t) # 0
      BY <1>1, <2>1, CountPositive
    <2>7. (\E w \in working[s] : w.task = m) => Busy(working[s], t) # 0
      <3>1. Busy(working[s], t) = 0 <=> \A w \in working[s] : w.task.flags # t
        BY <2>1, BusyFacts
      <3> QED
        BY <3>1
    <2> HIDE DEF t
    <2> QED
      BY <2>2, <2>3, <2>4, <2>5, <2>6, <2>7
  <1> HIDE DEF t
  <1>4. Places(t) # 0
    BY <1>3, PlacesPositive
  <1> QED
    BY <1>1, <1>4 DEF OnePlace, t

\* No two workers of a stage have the same task.
LEMMA BusyOnce ==
    ASSUME StageTypes, OnePlace, NEW s \in Stages, NEW t \in FlagSets
    PROVE  Local(s, t) <= 1 /\ Inside(s, t) <= 1 /\ Busy(working[s], t) <= 1
  <1>1. /\ Places(t) = Local(s, t) + Elsewhere(s, t)
        /\ Local(s, t) \in Nat /\ Elsewhere(s, t) \in Nat
        /\ Inside(s, t) \in Nat /\ Count(queue[s], t) \in Nat /\ Count(queue[Output(s)], t) \in Nat
        /\ Count(pool[s], t) \in Nat /\ Count(helperQ[s], t) \in Nat
        /\ Count(waiting[s], t) \in Nat /\ Busy(working[s], t) \in Nat
    BY PlacesSum
  <1>2. Places(t) <= 1
    BY DEF OnePlace
  <1> QED
    BY <1>1, <1>2 DEF Local, Inside

LEMMA NothingUnderway ==
    ASSUME GenerationInv, steering \in {"ended", "raised"}
    PROVE  Underway = {}
  <1>1. ASSUME NEW t \in cache, t \notin DOMAIN log PROVE FALSE
    <2>1. t \in DOMAIN generation.pool /\ generation.pool[t] = None
      BY <1>1 DEF GenerationInv
    <2> QED
      BY <2>1 DEF GenerationInv, Unanswered1
  <1> QED
    BY <1>1 DEF Underway

\* The search is over: no task is left anywhere.
LEMMA Settled ==
    ASSUME StageTypes, OnePlace, GenerationInv, steering \in {"ended", "raised"}
    PROVE  /\ \A s \in Stages : /\ pool[s] = <<>> /\ waiting[s] = <<>> /\ working[s] = {}
                                /\ InQueue(helperQ[s]) \subseteq {PoisonPill}
           /\ \A q \in Stages \cup {"steering"} : InQueue(queue[q]) \subseteq {PoisonPill}
  <1>1. Underway = {}
    BY NothingUnderway
  <1>2. ASSUME NEW s \in Stages
        PROVE  /\ pool[s] = <<>> /\ waiting[s] = <<>> /\ working[s] = {}
               /\ InQueue(helperQ[s]) \subseteq {PoisonPill}
               /\ InQueue(queue[s]) \subseteq {PoisonPill}
               /\ InQueue(queue[Output(s)]) \subseteq {PoisonPill}
    <2>1. /\ pool[s] \in Seq(TaskRecords) /\ waiting[s] \in Seq(TaskRecords)
          /\ helperQ[s] \in Seq(Pulled)
          /\ working[s] \subseteq [task : TaskRecords, next : WorkSteps]
          /\ queue[s] \in Seq(Pulled) /\ queue[Output(s)] \in Seq(Pulled)
      BY StageFacts
    <2>2. /\ InQueue(pool[s]) \subseteq TaskRecords /\ InQueue(waiting[s]) \subseteq TaskRecords
          /\ InQueue(pool[s]) = {} <=> pool[s] = <<>>
          /\ InQueue(waiting[s]) = {} <=> waiting[s] = <<>>
      BY <2>1, QueueElements
    <2>3. /\ InQueue(helperQ[s]) \subseteq Pulled /\ InQueue(queue[s]) \subseteq Pulled
          /\ InQueue(queue[Output(s)]) \subseteq Pulled
      BY <2>1, QueueElements
    <2>4. \A m \in TaskRecords :
             /\ m \notin InQueue(pool[s]) \cup InQueue(helperQ[s]) \cup InQueue(waiting[s])
             /\ m \notin InQueue(queue[s]) \cup InQueue(queue[Output(s)])
             /\ ~ \E w \in working[s] : w.task = m
      BY <1>1, SomewhereUnderway
    <2>5. working[s] = {}
      BY <2>1, <2>4
    <2> QED
      BY <2>2, <2>3, <2>4, <2>5 DEF Pulled
  <1>3. \A q \in Stages \cup {"steering"} : \E s \in Stages : q = s \/ q = Output(s)
    BY DEF Stages, Output
  <1> QED
    BY <1>2, <1>3

LEMMA ReadyStays ==
    ASSUME \A u \in Stages : Results(u) \subseteq Results(u)', NEW q, NEW m, Ready(q, m)
    PROVE  Ready(q, m)'
  BY DEF Ready, Stages

\* What a stage has done depends on what its workers and its helper know.
LEMMA ResultsSame ==
    ASSUME UNCHANGED <<doneDict, completedQ>>, NEW u,
           {w \in working'[u] : w.next = "completed"} = {w \in working[u] : w.next = "completed"}
    PROVE  Results(u)' = Results(u)
  BY DEF Results

-----------------------------------------------------------------------------
(* The main process of a stage *)

SearchSame == UNCHANGED <<steering, toSend, generation, cache, log>>

LEMMA GenerationSame ==
    ASSUME SearchTypes, GenerationInv, SearchSame, UNCHANGED raised
    PROVE  SearchTypes' /\ GenerationInv'
  BY DEF SearchTypes, GenerationInv, Raised, Unanswered1, SearchSame

LEMMA KeysSame ==
    ASSUME KeysInv, UNCHANGED <<pool, working, mycache, doneDict, completedQ>>
    PROVE  KeysInv' /\ \A u \in Stages : Results(u)' = Results(u)
  BY DEF KeysInv, OncePerKey, ResultKeys, Results, AtWork

LEMMA PullKeeps ==
    ASSUME PipelineInv, NEW s \in Stages, Pull(s), SearchSame
    PROVE  PipelineInv' /\ \A u \in Stages : Results(u)' = Results(u)
  <1> DEFINE task == Head(queue[s])
             key == Identifier(s, task)
  <1>1. StageTypes /\ SearchTypes
    BY DEF PipelineInv, Types
  <1>2. /\ Output(s) \in Stages \cup {"steering"} /\ Output(s) # s
        /\ queue[s] \in Seq(Pulled) /\ queue[Output(s)] \in Seq(Pulled)
        /\ pool[s] \in Seq(TaskRecords) /\ helperQ[s] \in Seq(Pulled)
    BY <1>1, StageFacts
  <1>3. main[s] = "pull" /\ queue[s] # <<>> /\ task # PoisonPill
    BY DEF Pull
  <1>4. /\ InQueue(queue[s]) = InQueue(Tail(queue[s])) \cup {task}
        /\ Tail(queue[s]) \in Seq(Pulled) /\ task \in TaskRecords /\ task \in Pulled
    <2>1. /\ InQueue(queue[s]) = InQueue(Tail(queue[s])) \cup {Head(queue[s])}
          /\ Tail(queue[s]) \in Seq(Pulled) /\ Head(queue[s]) \in Pulled
      BY <1>2, <1>3, QueueElements
    <2> QED
      BY <1>3, <2>1 DEF Pulled
  <1>5. /\ queue' = [queue EXCEPT ![s] = Tail(@)]
        /\ UNCHANGED <<main, working, raised, completedQ, helper, doneDict, waiting>>
    BY DEF Pull
  <1>6. \/ /\ key \in mycache[s] /\ UNCHANGED <<pool, mycache>>
           /\ helperQ' = [helperQ EXCEPT ![s] = Append(@, task)]
        \/ /\ key \notin mycache[s] /\ UNCHANGED helperQ
           /\ pool' = [pool EXCEPT ![s] = Append(@, task)]
           /\ mycache' = [mycache EXCEPT ![s] = @ \cup {key}]
    BY DEF Pull, Known
  <1> HIDE DEF task, key
  <1>7. queue'[s] = Tail(queue[s]) /\ \A q \in (Stages \cup {"steering"}) \ {s} : queue'[q] = queue[q]
    BY <1>1, <1>5 DEF StageTypes
  <1>8. /\ \/ pool'[s] = pool[s] /\ helperQ'[s] = Append(helperQ[s], task)
           \/ helperQ'[s] = helperQ[s] /\ pool'[s] = Append(pool[s], task)
        /\ \A u \in Stages \ {s} : helperQ'[u] = helperQ[u] /\ pool'[u] = pool[u]
    BY <1>1, <1>6 DEF StageTypes
  <1>9. StageTypes'
    <2>1. queue' \in [Stages \cup {"steering"} -> Seq(Pulled)]
      BY <1>1, <1>4, <1>5 DEF StageTypes
    <2>2. pool' \in [Stages -> Seq(TaskRecords)] /\ helperQ' \in [Stages -> Seq(Pulled)]
      <3>1. pool \in [Stages -> Seq(TaskRecords)] /\ helperQ \in [Stages -> Seq(Pulled)]
        BY <1>1 DEF StageTypes
      <3>2. Append(pool[s], task) \in Seq(TaskRecords) /\ Append(helperQ[s], task) \in Seq(Pulled)
        BY <1>2, <1>4
      <3> QED
        BY <1>6, <3>1, <3>2
    <2>3. DOMAIN mycache' = Stages
      BY <1>1, <1>6 DEF StageTypes
    <2> QED
      BY <1>1, <1>5, <2>1, <2>2, <2>3 DEF StageTypes
  <1>10. OnePlace'
    <2>1. OthersAlone(s)
      BY <1>5, <1>7, <1>8 DEF OthersAlone
    <2>2. ASSUME NEW t \in FlagSets PROVE Local(s, t)' = Local(s, t)
      <3>1. Count(queue[s], t) = Weight(task, t) + Count(Tail(queue[s]), t)
        BY <1>2, <1>3, CountTail DEF task
      <3>2. /\ Count(pool[s], t) \in Nat /\ Count(helperQ[s], t) \in Nat
            /\ Count(waiting[s], t) \in Nat /\ Busy(working[s], t) \in Nat
            /\ Count(queue[Output(s)], t) \in Nat
        BY <1>1, PlacesSum
      <3>3. Weight(task, t) \in Nat /\ Count(Tail(queue[s]), t) \in Nat
        BY <1>4, CountFinite DEF Weight
      <3>4. /\ Count(Append(helperQ[s], task), t) = Count(helperQ[s], t) + Weight(task, t)
            /\ Count(Append(pool[s], task), t) = Count(pool[s], t) + Weight(task, t)
        <4>1. Count(Append(helperQ[s], task), t) = Count(helperQ[s], t) + Weight(task, t)
          BY <1>2, <1>4, CountAppend
        <4>2. Count(Append(pool[s], task), t) = Count(pool[s], t) + Weight(task, t)
          BY <1>2, <1>4, CountAppend
        <4> QED
          BY <4>1, <4>2
      <3>5. queue'[Output(s)] = queue[Output(s)] /\ queue'[s] = Tail(queue[s])
        BY <1>2, <1>7
      <3>6. waiting'[s] = waiting[s] /\ working'[s] = working[s]
        BY <1>5
      <3>7. /\ Local(s, t) = Count(pool[s], t) + Count(helperQ[s], t) + Count(waiting[s], t)
                               + Busy(working[s], t) + Count(queue[s], t) + Count(queue[Output(s)], t)
            /\ Local(s, t)' = Count(pool'[s], t) + Count(helperQ'[s], t) + Count(waiting[s], t)
                               + Busy(working[s], t) + Count(Tail(queue[s]), t) + Count(queue[Output(s)], t)
        BY <3>5, <3>6 DEF Local, Inside
      <3>8. CASE pool'[s] = pool[s] /\ helperQ'[s] = Append(helperQ[s], task)
        BY <3>1, <3>2, <3>3, <3>4, <3>7, <3>8
      <3>9. CASE helperQ'[s] = helperQ[s] /\ pool'[s] = Append(pool[s], task)
        BY <3>1, <3>2, <3>3, <3>4, <3>7, <3>9
      <3> QED
        BY <1>8, <3>8, <3>9
    <2> QED
      BY <1>1, <1>5, <1>9, <2>1, <2>2, MovesKeep DEF PipelineInv, SearchSame
  <1>11. PillInv'
    <2>1. steering # "ended"
      <3>1. task \in InQueue(queue[s])
        BY <1>4
      <3> QED
        BY <1>1, <1>3, <3>1, Settled DEF PipelineInv
    <2>2. NoPill
      BY <2>1 DEF PipelineInv, PillInv
    <2>3. \A q \in Stages \cup {"steering"} : InQueue(queue'[q]) \subseteq InQueue(queue[q])
      BY <1>4, <1>7
    <2>4. PoisonPill \notin InQueue(helperQ'[s])
      <3>1. InQueue(Append(helperQ[s], task)) = InQueue(helperQ[s]) \cup {task}
        BY <1>2, <1>4, QueueElements
      <3> QED
        BY <1>3, <1>8, <2>2, <3>1 DEF NoPill
    <2>5. NoPill'
      BY <1>5, <1>8, <2>2, <2>3, <2>4 DEF NoPill
    <2> QED
      BY <2>1, <2>5 DEF PillInv, SearchSame
  <1>12. KeysInv' /\ \A u \in Stages : Results(u)' = Results(u)
    <2>1. \A u \in Stages : Results(u)' = Results(u)
      BY <1>5, ResultsSame
    <2>2. CASE UNCHANGED <<pool, mycache>>
      BY <1>5, <2>2, KeysSame DEF PipelineInv
    <2>3. CASE /\ key \notin mycache[s]
               /\ pool' = [pool EXCEPT ![s] = Append(@, task)]
               /\ mycache' = [mycache EXCEPT ![s] = @ \cup {key}]
      <3>1. ASSUME NEW u \in Stages \ {s} PROVE OncePerKey(u)'
        <4>1. pool'[u] = pool[u] /\ mycache'[u] = mycache[u] /\ working'[u] = working[u]
          BY <1>1, <1>5, <2>3 DEF StageTypes
        <4> QED
          BY <2>1, <4>1 DEF PipelineInv, KeysInv, OncePerKey, ResultKeys, AtWork
      <3>2. OncePerKey(s)'
        <4>1. pool'[s] = Append(pool[s], task) /\ mycache'[s] = mycache[s] \cup {key}
          BY <1>1, <2>3 DEF StageTypes
        <4>2. /\ Len(pool[s]) \in Nat /\ DOMAIN pool[s] = 1 .. Len(pool[s])
              /\ DOMAIN pool'[s] = 1 .. Len(pool[s]) + 1
              /\ \A i \in 1 .. Len(pool[s]) : pool'[s][i] = pool[s][i]
              /\ pool'[s][Len(pool[s]) + 1] = task
          BY <1>2, <1>4, <4>1
        <4>3. \A i \in DOMAIN pool'[s] : \/ i \in DOMAIN pool[s]
                                         \/ pool'[s][i] = task /\ i = Len(pool[s]) + 1
          BY <4>2
        <4>4. /\ ResultKeys(s)' = ResultKeys(s) /\ AtWork(s)' = AtWork(s)
          BY <1>5, <2>1 DEF ResultKeys, AtWork
        <4>5. OncePerKey(s)
          BY DEF PipelineInv, KeysInv
        <4>6. /\ \A i \in DOMAIN pool[s] : Identifier(s, pool[s][i]) # key
              /\ \A w \in AtWork(s) : Identifier(s, w.task) # key
              /\ key \notin ResultKeys(s)
          BY <2>3, <4>5 DEF OncePerKey
        <4>7. \A i \in DOMAIN pool'[s] : \/ i \in DOMAIN pool[s] /\ pool'[s][i] = pool[s][i]
                                         \/ i = Len(pool[s]) + 1 /\ Identifier(s, pool'[s][i]) = key
          BY <4>2, <4>3 DEF key
        <4>8. \A i, j \in DOMAIN pool'[s] :
                 Identifier(s, pool'[s][i]) = Identifier(s, pool'[s][j]) => i = j
          BY <4>5, <4>6, <4>7 DEF OncePerKey
        <4>9. \A i \in DOMAIN pool'[s], w \in AtWork(s) : Identifier(s, pool'[s][i]) # Identifier(s, w.task)
          BY <4>5, <4>6, <4>7 DEF OncePerKey
        <4>10. \A i \in DOMAIN pool'[s] : Identifier(s, pool'[s][i]) \in mycache'[s] \ ResultKeys(s)
          BY <4>1, <4>5, <4>6, <4>7 DEF OncePerKey
        <4> QED
          BY <2>1, <4>1, <4>4, <4>5, <4>8, <4>9, <4>10 DEF OncePerKey
      <3> QED
        BY <2>1, <3>1, <3>2 DEF KeysInv
    <2> QED
      BY <1>6, <2>2, <2>3
  <1>13. AllReady'
    <2>1. \A u \in Stages : Results(u) \subseteq Results(u)'
      BY <1>12
    <2>2. Ready(s, task)
      BY <1>3, <1>4 DEF PipelineInv, AllReady
    <2>3. \A q \in Stages \cup {"steering"} : InQueue(queue'[q]) \subseteq InQueue(queue[q])
      BY <1>4, <1>7
    <2>4. /\ InQueue(helperQ'[s]) \subseteq InQueue(helperQ[s]) \cup {task}
          /\ InQueue(pool'[s]) \subseteq InQueue(pool[s]) \cup {task}
      <3>1. InQueue(Append(helperQ[s], task)) = InQueue(helperQ[s]) \cup {task}
        BY <1>2, <1>4, QueueElements
      <3>2. InQueue(Append(pool[s], task)) = InQueue(pool[s]) \cup {task}
        BY <1>2, <1>4, QueueElements
      <3> QED
        BY <1>8, <3>1, <3>2
    <2>5. /\ \A q \in Stages \cup {"steering"} :
                \A m \in InQueue(queue'[q]) : m # PoisonPill => Ready(q, m)
          /\ \A u \in Stages :
              /\ \A m \in InQueue(pool'[u]) : Ready(u, m)
              /\ \A m \in InQueue(helperQ'[u]) : m # PoisonPill => Ready(u, m)
              /\ \A m \in InQueue(waiting'[u]) : Ready(u, m)
              /\ \A w \in working'[u] : Ready(IF w.next = "work" THEN u ELSE Output(u), w.task)
      BY <1>5, <1>8, <2>2, <2>3, <2>4 DEF PipelineInv, AllReady
    <2> QED
      BY <2>1, <2>5, ReadyStays DEF AllReady
  <1>14. SearchTypes' /\ GenerationInv'
    BY <1>1, <1>5, GenerationSame DEF PipelineInv
  <1> QED
    BY <1>9, <1>10, <1>11, <1>12, <1>13, <1>14 DEF PipelineInv, Types

\* Steps that move no task: of the poison pill, and of control states.
LEMMA ControlKeeps ==
    ASSUME PipelineInv, SearchSame,
           UNCHANGED <<pool, working, waiting, mycache, doneDict, completedQ, raised>>,
           queue' \in [Stages \cup {"steering"} -> Seq(Pulled)],
           helperQ' \in [Stages -> Seq(Pulled)],
           main' \in [Stages -> {"pull", "join pool", "join helper", "ended"}],
           helper' \in [Stages -> {"loop", "check", "drain", "ended"}],
           \A q \in Stages \cup {"steering"} :
              /\ InQueue(queue'[q]) \subseteq InQueue(queue[q]) \cup {PoisonPill}
              /\ \A t : Count(queue'[q], t) = Count(queue[q], t),
           \A u \in Stages :
              /\ InQueue(helperQ'[u]) \subseteq InQueue(helperQ[u]) \cup {PoisonPill}
              /\ \A t : Count(helperQ'[u], t) = Count(helperQ[u], t),
           PillInv'
    PROVE  PipelineInv' /\ \A u \in Stages : Results(u)' = Results(u)
  <1>1. StageTypes /\ SearchTypes
    BY DEF PipelineInv, Types
  <1>2. StageTypes'
    BY <1>1 DEF StageTypes
  <1>3. OnePlace'
    <2>1. "build" \in Stages /\ "test" \in Stages
      BY DEF Stages
    <2>2. ASSUME NEW t PROVE Inside("build", t)' = Inside("build", t) /\ Inside("test", t)' = Inside("test", t)
      BY <2>1 DEF Inside
    <2>3. ASSUME NEW t PROVE Places(t)' = Places(t)
      <3>1. Local("build", t)' = Local("build", t) /\ Elsewhere("build", t)' = Elsewhere("build", t)
        BY <2>1, <2>2 DEF Local, Elsewhere, Output
      <3> QED
        BY <1>1, <1>2, <2>1, <3>1, PlacesNow, PlacesThen DEF PlacesAddUp
    <2>4. Underway' = Underway
      BY DEF Underway, Raised, SearchSame
    <2> QED
      BY <2>3, <2>4 DEF OnePlace, PipelineInv
  <1>4. KeysInv' /\ \A u \in Stages : Results(u)' = Results(u)
    BY KeysSame DEF PipelineInv
  <1>5. AllReady'
    <2>1. \A u \in Stages : Results(u) \subseteq Results(u)'
      BY <1>4
    <2>2. /\ \A q \in Stages \cup {"steering"} :
                \A m \in InQueue(queue'[q]) : m # PoisonPill => Ready(q, m)
          /\ \A u \in Stages :
              /\ \A m \in InQueue(pool'[u]) : Ready(u, m)
              /\ \A m \in InQueue(helperQ'[u]) : m # PoisonPill => Ready(u, m)
              /\ \A m \in InQueue(waiting'[u]) : Ready(u, m)
              /\ \A w \in working'[u] : Ready(IF w.next = "work" THEN u ELSE Output(u), w.task)
      BY DEF PipelineInv, AllReady
    <2> QED
      BY <2>1, <2>2, ReadyStays DEF AllReady
  <1>6. SearchTypes' /\ GenerationInv'
    BY <1>1, GenerationSame DEF PipelineInv
  <1> QED
    BY <1>2, <1>3, <1>4, <1>5, <1>6 DEF PipelineInv, Types

\* What the poison pill does to a queue.
LEMMA PillMoves ==
    ASSUME NEW q \in Seq(Pulled)
    PROVE  /\ Append(q, PoisonPill) \in Seq(Pulled)
           /\ InQueue(Append(q, PoisonPill)) = InQueue(q) \cup {PoisonPill}
           /\ \A t : Count(Append(q, PoisonPill), t) = Count(q, t)
           /\ q # <<>> /\ Head(q) = PoisonPill =>
                 /\ Tail(q) \in Seq(Pulled)
                 /\ InQueue(Tail(q)) \subseteq InQueue(q)
                 /\ \A t : Count(Tail(q), t) = Count(q, t)
  <1>1. PoisonPill \in Pulled
    BY PillFacts
  <1>2. Append(q, PoisonPill) \in Seq(Pulled)
    BY <1>1
  <1>3. InQueue(Append(q, PoisonPill)) = InQueue(q) \cup {PoisonPill}
    BY <1>1, QueueElements
  <1>4. ASSUME NEW t PROVE Count(Append(q, PoisonPill), t) = Count(q, t)
    <2>1. Count(Append(q, PoisonPill), t) = Count(q, t) + Weight(PoisonPill, t)
      BY <1>1, CountAppend
    <2>2. Count(q, t) \in Nat
      BY CountFinite
    <2> QED
      BY <2>1, <2>2, PillFacts
  <1>5. ASSUME q # <<>>, Head(q) = PoisonPill
        PROVE  /\ Tail(q) \in Seq(Pulled) /\ InQueue(Tail(q)) \subseteq InQueue(q)
               /\ \A t : Count(Tail(q), t) = Count(q, t)
    <2>1. Tail(q) \in Seq(Pulled) /\ InQueue(q) = InQueue(Tail(q)) \cup {Head(q)}
      BY <1>5, QueueElements
    <2>2. ASSUME NEW t PROVE Count(Tail(q), t) = Count(q, t)
      <3>1. Count(q, t) = Weight(Head(q), t) + Count(Tail(q), t) /\ Count(Tail(q), t) \in Nat
        BY <1>5, <2>1, CountTail, CountFinite
      <3> QED
        BY <1>5, <3>1, PillFacts
    <2> QED
      BY <2>1, <2>2
  <1> QED
    BY <1>2, <1>3, <1>4, <1>5

LEMMA PullPoisonPillKeeps ==
    ASSUME PipelineInv, NEW s \in Stages, PullPoisonPill(s), SearchSame
    PROVE  PipelineInv' /\ \A u \in Stages : Results(u)' = Results(u)
  <1>1. StageTypes
    BY DEF PipelineInv, Types
  <1>2. /\ Output(s) \in Stages \cup {"steering"} /\ Output(s) # s
        /\ queue[s] \in Seq(Pulled) /\ queue[Output(s)] \in Seq(Pulled)
    BY <1>1, StageFacts
  <1>3. /\ main[s] = "pull" /\ queue[s] # <<>> /\ Head(queue[s]) = PoisonPill
        /\ queue' = [queue EXCEPT ![s] = Tail(@), ![Output(s)] = Append(@, PoisonPill)]
        /\ main' = [main EXCEPT ![s] = "join pool"]
        /\ UNCHANGED <<mycache, pool, working, raised,
                       helperQ, completedQ, helper, doneDict, waiting>>
    BY DEF PullPoisonPill
  <1>4. /\ queue'[s] = Tail(queue[s]) /\ queue'[Output(s)] = Append(queue[Output(s)], PoisonPill)
        /\ \A q \in (Stages \cup {"steering"}) \ {s, Output(s)} : queue'[q] = queue[q]
        /\ queue' = [q \in Stages \cup {"steering"} |-> queue'[q]]
    BY <1>1, <1>2, <1>3 DEF StageTypes
  <1>5. /\ Tail(queue[s]) \in Seq(Pulled)
        /\ InQueue(Tail(queue[s])) \subseteq InQueue(queue[s])
        /\ \A t : Count(Tail(queue[s]), t) = Count(queue[s], t)
        /\ Append(queue[Output(s)], PoisonPill) \in Seq(Pulled)
        /\ InQueue(Append(queue[Output(s)], PoisonPill)) = InQueue(queue[Output(s)]) \cup {PoisonPill}
        /\ \A t : Count(Append(queue[Output(s)], PoisonPill), t) = Count(queue[Output(s)], t)
    BY <1>2, <1>3, PillMoves
  <1>6. \A q \in Stages \cup {"steering"} :
           /\ queue'[q] \in Seq(Pulled)
           /\ InQueue(queue'[q]) \subseteq InQueue(queue[q]) \cup {PoisonPill}
           /\ \A t : Count(queue'[q], t) = Count(queue[q], t)
    BY <1>1, <1>4, <1>5 DEF StageTypes
  <1>7. queue' \in [Stages \cup {"steering"} -> Seq(Pulled)]
    BY <1>4, <1>6
  <1>8. /\ helperQ' \in [Stages -> Seq(Pulled)]
        /\ main' \in [Stages -> {"pull", "join pool", "join helper", "ended"}]
        /\ helper' \in [Stages -> {"loop", "check", "drain", "ended"}]
    BY <1>1, <1>3 DEF StageTypes
  <1>9. PillInv'
    <2>1. PoisonPill \in InQueue(queue[s])
      <3>1. queue[s] # <<>> => InQueue(queue[s]) = InQueue(Tail(queue[s])) \cup {Head(queue[s])}
        BY <1>2, QueueElements
      <3> QED
        BY <1>3, <3>1
    <2>2. steering = "ended"
      BY <2>1 DEF PipelineInv, PillInv, NoPill
    <2>3. main'[s] = "join pool" /\ \A u \in Stages \ {s} : main'[u] = main[u]
      BY <1>1, <1>3 DEF StageTypes
    <2>4. /\ queue["build"] = IF main["build"] = "pull" THEN Pill ELSE <<>>
          /\ main["build"] = "pull" => main["test"] = "pull"
          /\ queue["test"] = IF main["build"] # "pull" /\ main["test"] = "pull" THEN Pill ELSE <<>>
      BY <2>2 DEF PipelineInv, PillInv
    <2>5. Tail(Pill) = <<>> /\ Append(<<>>, PoisonPill) = Pill
      BY DEF Pill
    <2>6. CASE s = "build"
      <3>1. queue'["build"] = <<>> /\ main'["build"] # "pull" /\ main'["test"] = "pull" /\ queue'["test"] = Pill
        BY <1>3, <1>4, <2>3, <2>4, <2>5, <2>6 DEF Stages, Output
      <3> QED
        BY <2>2, <3>1 DEF PillInv, SearchSame
    <2>7. CASE s = "test"
      <3>1. queue["test"] # <<>> /\ main["build"] # "pull" /\ queue["test"] = Pill
        BY <1>3, <2>4, <2>7
      <3>2. /\ queue'["build"] = <<>> /\ main'["build"] # "pull" /\ main'["test"] # "pull"
            /\ queue'["test"] = <<>>
        BY <1>4, <2>3, <2>4, <2>5, <2>7, <3>1 DEF Stages, Output
      <3> QED
        BY <2>2, <3>2 DEF PillInv, SearchSame
    <2> QED
      BY <2>6, <2>7 DEF Stages
  <1>10. \A u \in Stages : /\ InQueue(helperQ'[u]) \subseteq InQueue(helperQ[u]) \cup {PoisonPill}
                           /\ \A t : Count(helperQ'[u], t) = Count(helperQ[u], t)
    BY <1>3
  <1> QED
    BY <1>3, <1>6, <1>7, <1>8, <1>9, <1>10, ControlKeeps

\* The control of the helper and of the main process does not matter.
LEMMA JoinPoolKeeps ==
    ASSUME PipelineInv, NEW s \in Stages, JoinPool(s), SearchSame
    PROVE  PipelineInv' /\ \A u \in Stages : Results(u)' = Results(u)
  <1>1. StageTypes
    BY DEF PipelineInv, Types
  <1>2. helperQ[s] \in Seq(Pulled)
    BY <1>1, StageFacts
  <1>3. /\ main[s] = "join pool"
        /\ helperQ' = [helperQ EXCEPT ![s] = Append(@, PoisonPill)]
        /\ main' = [main EXCEPT ![s] = "join helper"]
        /\ UNCHANGED <<queue, mycache, pool, working, raised,
                       completedQ, helper, doneDict, waiting>>
    BY DEF JoinPool
  <1>4. /\ Append(helperQ[s], PoisonPill) \in Seq(Pulled)
        /\ InQueue(Append(helperQ[s], PoisonPill)) = InQueue(helperQ[s]) \cup {PoisonPill}
        /\ \A t : Count(Append(helperQ[s], PoisonPill), t) = Count(helperQ[s], t)
    BY <1>2, PillMoves
  <1>5. /\ helperQ' \in [Stages -> Seq(Pulled)]
        /\ main' \in [Stages -> {"pull", "join pool", "join helper", "ended"}]
        /\ helper' \in [Stages -> {"loop", "check", "drain", "ended"}]
        /\ queue' \in [Stages \cup {"steering"} -> Seq(Pulled)]
    BY <1>1, <1>3, <1>4 DEF StageTypes
  <1>6. /\ helperQ'[s] = Append(helperQ[s], PoisonPill)
        /\ \A u \in Stages \ {s} : helperQ'[u] = helperQ[u]
    BY <1>1, <1>3 DEF StageTypes
  <1>7. PillInv'
    <2>1. steering = "ended"
      BY <1>3 DEF PipelineInv, PillInv, NoPill
    <2>2. \A u \in Stages : main'[u] = "pull" <=> main[u] = "pull"
      BY <1>1, <1>3 DEF StageTypes
    <2> QED
      BY <1>3, <2>1, <2>2 DEF PipelineInv, PillInv, SearchSame, Stages
  <1>8. \A u \in Stages : /\ InQueue(helperQ'[u]) \subseteq InQueue(helperQ[u]) \cup {PoisonPill}
                          /\ \A t : Count(helperQ'[u], t) = Count(helperQ[u], t)
    BY <1>4, <1>6
  <1>9. \A q \in Stages \cup {"steering"} :
           /\ InQueue(queue'[q]) \subseteq InQueue(queue[q]) \cup {PoisonPill}
           /\ \A t : Count(queue'[q], t) = Count(queue[q], t)
    BY <1>3
  <1> QED
    BY <1>3, <1>5, <1>7, <1>8, <1>9, ControlKeeps

LEMMA JoinHelperKeeps ==
    ASSUME PipelineInv, NEW s \in Stages, JoinHelper(s), SearchSame
    PROVE  PipelineInv' /\ \A u \in Stages : Results(u)' = Results(u)
  <1>1. StageTypes
    BY DEF PipelineInv, Types
  <1>2. /\ main[s] = "join helper" /\ main' = [main EXCEPT ![s] = "ended"]
        /\ UNCHANGED <<queue, mycache, pool, working, raised,
                       helperQ, completedQ, helper, doneDict, waiting>>
    BY DEF JoinHelper
  <1>3. /\ helperQ' \in [Stages -> Seq(Pulled)]
        /\ main' \in [Stages -> {"pull", "join pool", "join helper", "ended"}]
        /\ helper' \in [Stages -> {"loop", "check", "drain", "ended"}]
        /\ queue' \in [Stages \cup {"steering"} -> Seq(Pulled)]
    BY <1>1, <1>2 DEF StageTypes
  <1>4. PillInv'
    <2>1. steering = "ended"
      BY <1>2 DEF PipelineInv, PillInv, NoPill
    <2>2. \A u \in Stages : main'[u] = "pull" <=> main[u] = "pull"
      BY <1>1, <1>2 DEF StageTypes
    <2> QED
      BY <1>2, <2>1, <2>2 DEF PipelineInv, PillInv, SearchSame, Stages
  <1> QED
    BY <1>2, <1>3, <1>4, ControlKeeps

LEMMA GetPoisonPillKeeps ==
    ASSUME PipelineInv, NEW s \in Stages, GetPoisonPill(s), SearchSame
    PROVE  PipelineInv' /\ \A u \in Stages : Results(u)' = Results(u)
  <1>1. StageTypes
    BY DEF PipelineInv, Types
  <1>2. helperQ[s] \in Seq(Pulled)
    BY <1>1, StageFacts
  <1>3. /\ helperQ[s] # <<>> /\ Head(helperQ[s]) = PoisonPill
        /\ helperQ' = [helperQ EXCEPT ![s] = Tail(@)]
        /\ helper' = [helper EXCEPT ![s] = "drain"]
        /\ UNCHANGED <<queue, main, mycache, pool, working, raised,
                       completedQ, doneDict, waiting>>
    BY DEF GetPoisonPill
  <1>4. /\ Tail(helperQ[s]) \in Seq(Pulled)
        /\ InQueue(Tail(helperQ[s])) \subseteq InQueue(helperQ[s])
        /\ \A t : Count(Tail(helperQ[s]), t) = Count(helperQ[s], t)
    BY <1>2, <1>3, PillMoves
  <1>5. /\ helperQ' \in [Stages -> Seq(Pulled)]
        /\ main' \in [Stages -> {"pull", "join pool", "join helper", "ended"}]
        /\ helper' \in [Stages -> {"loop", "check", "drain", "ended"}]
        /\ queue' \in [Stages \cup {"steering"} -> Seq(Pulled)]
    BY <1>1, <1>3, <1>4 DEF StageTypes
  <1>6. /\ helperQ'[s] = Tail(helperQ[s])
        /\ \A u \in Stages \ {s} : helperQ'[u] = helperQ[u]
    BY <1>1, <1>3 DEF StageTypes
  <1>7. PillInv'
    <2>1. PoisonPill \in InQueue(helperQ[s])
      BY <1>2, <1>3, QueueElements
    <2>2. steering = "ended"
      BY <2>1 DEF PipelineInv, PillInv, NoPill
    <2> QED
      BY <1>3, <2>2 DEF PipelineInv, PillInv, SearchSame
  <1>8. \A u \in Stages : /\ InQueue(helperQ'[u]) \subseteq InQueue(helperQ[u]) \cup {PoisonPill}
                          /\ \A t : Count(helperQ'[u], t) = Count(helperQ[u], t)
    BY <1>4, <1>6
  <1>9. \A q \in Stages \cup {"steering"} :
           /\ InQueue(queue'[q]) \subseteq InQueue(queue[q]) \cup {PoisonPill}
           /\ \A t : Count(queue'[q], t) = Count(queue[q], t)
    BY <1>3
  <1> QED
    BY <1>3, <1>5, <1>7, <1>8, <1>9, ControlKeeps

LEMMA HelperControlKeeps ==
    ASSUME PipelineInv, NEW s \in Stages, NothingCompleted(s) \/ HelperEnds(s), SearchSame
    PROVE  PipelineInv' /\ \A u \in Stages : Results(u)' = Results(u)
  <1>1. StageTypes
    BY DEF PipelineInv, Types
  <1>2. /\ \/ helper' = [helper EXCEPT ![s] = "loop"]
           \/ helper' = [helper EXCEPT ![s] = "ended"]
        /\ UNCHANGED <<queue, main, mycache, pool, working, raised,
                       helperQ, completedQ, doneDict, waiting>>
    BY DEF NothingCompleted, HelperEnds
  <1>3. /\ helperQ' \in [Stages -> Seq(Pulled)]
        /\ main' \in [Stages -> {"pull", "join pool", "join helper", "ended"}]
        /\ helper' \in [Stages -> {"loop", "check", "drain", "ended"}]
        /\ queue' \in [Stages \cup {"steering"} -> Seq(Pulled)]
    BY <1>1, <1>2 DEF StageTypes
  <1>4. PillInv'
    BY <1>2 DEF PipelineInv, PillInv, NoPill, SearchSame
  <1> QED
    BY <1>2, <1>3, <1>4, ControlKeeps

-----------------------------------------------------------------------------
(* The workers *)

\* While a worker has a task, the search goes on and there is no poison pill.
LEMMA NotSettled ==
    ASSUME StageTypes, OnePlace, GenerationInv, PillInv, NEW s \in Stages,
           \/ pool[s] # <<>> \/ waiting[s] # <<>> \/ working[s] # {}
           \/ \E m \in InQueue(helperQ[s]) : m # PoisonPill
    PROVE  steering \notin {"ended", "raised"} /\ NoPill
  <1>1. steering \notin {"ended", "raised"}
    <2>1. CASE \E m \in InQueue(helperQ[s]) : m # PoisonPill
      BY <2>1, Settled
    <2> QED
      BY <2>1, Settled
  <1> QED
    BY <1>1 DEF PillInv

LEMMA WorkerFacts ==
    ASSUME PipelineInv, NEW s \in Stages, NEW w \in working[s]
    PROVE  /\ StageTypes /\ SearchTypes
           /\ w \in [task : TaskRecords, next : WorkSteps] /\ w.task \in TaskRecords
           /\ IsFiniteSet(working[s]) /\ Busy(working[s], w.task.flags) <= 1
           /\ w.task.flags \in Underway /\ w.task.flags \in FlagSets
           /\ steering \notin {"ended", "raised"} /\ NoPill
           /\ Ready(IF w.next = "work" THEN s ELSE Output(s), w.task)
  <1>1. StageTypes /\ SearchTypes
    BY DEF PipelineInv, Types
  <1>2. /\ working[s] \subseteq [task : TaskRecords, next : WorkSteps]
        /\ IsFiniteSet(working[s])
    BY <1>1, StageFacts
  <1>3. w \in [task : TaskRecords, next : WorkSteps] /\ w.task \in TaskRecords
    BY <1>2
  <1>4. w.task.flags \in FlagSets
    BY <1>3, TaskFacts
  <1>5. Busy(working[s], w.task.flags) <= 1
    BY <1>1, <1>4, BusyOnce DEF PipelineInv
  <1>6. w.task.flags \in Underway
    BY <1>1, <1>3, SomewhereUnderway DEF PipelineInv
  <1>7. steering \notin {"ended", "raised"} /\ NoPill
    BY <1>1, NotSettled DEF PipelineInv
  <1>8. Ready(IF w.next = "work" THEN s ELSE Output(s), w.task)
    BY DEF PipelineInv, AllReady
  <1> QED
    BY <1>1, <1>2, <1>3, <1>4, <1>5, <1>6, <1>7, <1>8

\* Steps that change what the workers of a stage have, and no more of what
\* the poison pill depends on.
LEMMA PillSame ==
    ASSUME PipelineInv, SearchSame, UNCHANGED <<queue, main, helperQ>>
    PROVE  PillInv'
  BY DEF PipelineInv, PillInv, NoPill, SearchSame

LEMMA StartWorkKeeps ==
    ASSUME PipelineInv, NEW s \in Stages, StartWork(s), SearchSame
    PROVE  PipelineInv' /\ \A u \in Stages : Results(u)' = Results(u)
  <1> DEFINE task == Head(pool[s])
             w == [task |-> task, next |-> "work"]
  <1>1. StageTypes /\ SearchTypes
    BY DEF PipelineInv, Types
  <1>2. /\ pool[s] \in Seq(TaskRecords) /\ IsFiniteSet(working[s])
        /\ working[s] \subseteq [task : TaskRecords, next : WorkSteps]
        /\ Output(s) # s
    BY <1>1, StageFacts
  <1>3. /\ pool[s] # <<>>
        /\ working' = [working EXCEPT ![s] = @ \cup {w}]
        /\ pool' = [pool EXCEPT ![s] = Tail(@)]
        /\ UNCHANGED <<queue, main, mycache, raised,
                       helperQ, completedQ, helper, doneDict, waiting>>
    BY DEF StartWork
  <1>4. /\ InQueue(pool[s]) = InQueue(Tail(pool[s])) \cup {task}
        /\ Tail(pool[s]) \in Seq(TaskRecords) /\ task \in TaskRecords
    BY <1>2, <1>3, QueueElements
  <1>5. /\ Len(pool[s]) \in Nat /\ 1 \in DOMAIN pool[s] /\ pool[s][1] = task
        /\ \A i \in DOMAIN Tail(pool[s]) : i + 1 \in DOMAIN pool[s] /\ Tail(pool[s])[i] = pool[s][i + 1]
        /\ \A i \in DOMAIN Tail(pool[s]) : i \in Nat /\ i + 1 # 1
    <2>1. /\ Len(pool[s]) \in Nat /\ DOMAIN pool[s] = 1 .. Len(pool[s]) /\ Len(pool[s]) # 0
      BY <1>2, <1>3, LenProperties, EmptySeq
    <2>2. /\ Len(Tail(pool[s])) = Len(pool[s]) - 1
          /\ \A i \in 1 .. Len(Tail(pool[s])) : Tail(pool[s])[i] = pool[s][i + 1]
      BY <1>2, <1>3, HeadTailProperties
    <2>3. DOMAIN Tail(pool[s]) = 1 .. Len(pool[s]) - 1
      BY <1>4, <2>2, LenProperties
    <2>4. pool[s][1] = task
      BY <1>2, <1>3
    <2> HIDE DEF task
    <2> QED
      BY <2>1, <2>2, <2>3, <2>4
  <1>6. w \in [task : TaskRecords, next : WorkSteps] /\ w.task = task /\ w.next = "work"
    BY <1>4 DEF WorkSteps
  <1> HIDE DEF task, w
  <1>7. /\ pool'[s] = Tail(pool[s]) /\ working'[s] = working[s] \cup {w}
        /\ \A u \in Stages \ {s} : pool'[u] = pool[u] /\ working'[u] = working[u]
    BY <1>1, <1>3 DEF StageTypes
  <1>8. w \notin working[s]
    <2>1. task.flags \in FlagSets /\ Carries(task, task.flags)
      BY <1>4, TaskFacts
    <2>2. Count(pool[s], task.flags) # 0
      <3>1. task \in InQueue(pool[s])
        BY <1>4
      <3> QED
        BY <1>2, <2>1, <3>1, CountPositive
    <2>3. Inside(s, task.flags) <= 1
      BY <1>1, <2>1, BusyOnce DEF PipelineInv
    <2>4. /\ Count(pool[s], task.flags) \in Nat /\ Count(helperQ[s], task.flags) \in Nat
          /\ Count(waiting[s], task.flags) \in Nat /\ Busy(working[s], task.flags) \in Nat
      BY <1>1, PlacesSum
    <2>5. Busy(working[s], task.flags) = 0
      BY <2>2, <2>3, <2>4 DEF Inside
    <2> QED
      BY <1>2, <1>6, <2>5, BusyFacts
  <1>9. StageTypes'
    <2>1. pool' \in [Stages -> Seq(TaskRecords)]
      BY <1>1, <1>3, <1>4 DEF StageTypes
    <2>2. working' \in [Stages -> SUBSET [task : TaskRecords, next : WorkSteps]]
      <3>1. working \in [Stages -> SUBSET [task : TaskRecords, next : WorkSteps]]
        BY <1>1 DEF StageTypes
      <3> QED
        BY <1>3, <1>6, <3>1
    <2>3. \A u \in Stages : IsFiniteSet(working'[u])
      <3>1. IsFiniteSet(working[s] \cup {w})
        BY <1>2, FS_AddElement
      <3> QED
        BY <1>1, <1>7, <3>1 DEF StageTypes
    <2> QED
      BY <1>1, <1>3, <2>1, <2>2, <2>3 DEF StageTypes
  <1>10. OnePlace'
    <2>1. OthersAlone(s)
      BY <1>3, <1>7 DEF OthersAlone
    <2>2. ASSUME NEW t \in FlagSets PROVE Local(s, t)' = Local(s, t)
      <3>1. /\ Count(pool[s], t) = Weight(task, t) + Count(Tail(pool[s]), t)
            /\ Count(Tail(pool[s]), t) \in Nat
        BY <1>2, <1>3, <1>4, CountTail, CountFinite DEF task
      <3>2. Busy(working[s] \cup {w}, t) = Busy(working[s], t) + Mine(w, t)
        BY <1>2, <1>8, BusyMore
      <3>3. Weight(task, t) = IF w.task.flags = t THEN 1 ELSE 0
        BY <1>4, <1>6, TaskFacts
      <3>4. /\ Count(pool[s], t) \in Nat /\ Count(helperQ[s], t) \in Nat
            /\ Count(waiting[s], t) \in Nat /\ Busy(working[s], t) \in Nat
            /\ Count(queue[s], t) \in Nat /\ Count(queue[Output(s)], t) \in Nat
        BY <1>1, PlacesSum
      <3>5. /\ Local(s, t) = Count(pool[s], t) + Count(helperQ[s], t) + Count(waiting[s], t)
                               + Busy(working[s], t) + Count(queue[s], t) + Count(queue[Output(s)], t)
            /\ Local(s, t)' = Count(Tail(pool[s]), t) + Count(helperQ[s], t) + Count(waiting[s], t)
                               + Busy(working[s] \cup {w}, t) + Count(queue[s], t) + Count(queue[Output(s)], t)
        BY <1>3, <1>7 DEF Local, Inside
      <3> QED
        BY <3>1, <3>2, <3>3, <3>4, <3>5 DEF Mine
    <2> QED
      BY <1>1, <1>3, <1>9, <2>1, <2>2, MovesKeep DEF PipelineInv, SearchSame
  <1>11. PillInv'
    BY <1>3, PillSame
  <1>12. KeysInv' /\ \A u \in Stages : Results(u)' = Results(u)
    <2>1. \A u \in Stages : Results(u)' = Results(u)
      <3>1. \A u \in Stages : {v \in working'[u] : v.next = "completed"} = {v \in working[u] : v.next = "completed"}
        BY <1>6, <1>7
      <3> QED
        BY <1>3, <3>1, ResultsSame
    <2>2. ASSUME NEW u \in Stages \ {s} PROVE OncePerKey(u)'
      <3>1. pool'[u] = pool[u] /\ mycache'[u] = mycache[u] /\ working'[u] = working[u]
        BY <1>3, <1>7
      <3> QED
        BY <2>1, <3>1 DEF PipelineInv, KeysInv, OncePerKey, ResultKeys, AtWork
    <2>3. OncePerKey(s)'
      <3>1. AtWork(s)' = AtWork(s) \cup {w}
        BY <1>6, <1>7 DEF AtWork
      <3>2. ResultKeys(s)' = ResultKeys(s) /\ Results(s)' = Results(s) /\ mycache'[s] = mycache[s]
        BY <1>3, <2>1 DEF ResultKeys
      <3>3. OncePerKey(s)
        BY DEF PipelineInv, KeysInv
      <3>4. \A i, j \in DOMAIN pool'[s] :
               Identifier(s, pool'[s][i]) = Identifier(s, pool'[s][j]) => i = j
        <4> TAKE i, j \in DOMAIN pool'[s]
        <4> HAVE Identifier(s, pool'[s][i]) = Identifier(s, pool'[s][j])
        <4>1. /\ i + 1 \in DOMAIN pool[s] /\ pool'[s][i] = pool[s][i + 1] /\ i \in Nat
              /\ j + 1 \in DOMAIN pool[s] /\ pool'[s][j] = pool[s][j + 1] /\ j \in Nat
          BY <1>5, <1>7
        <4>2. i + 1 = j + 1
          BY <3>3, <4>1 DEF OncePerKey
        <4> QED
          BY <4>1, <4>2
      <3>5. \A i \in DOMAIN pool'[s], v \in AtWork(s) \cup {w} :
               Identifier(s, pool'[s][i]) # Identifier(s, v.task)
        <4> TAKE i \in DOMAIN pool'[s], v \in AtWork(s) \cup {w}
        <4>1. i + 1 \in DOMAIN pool[s] /\ pool'[s][i] = pool[s][i + 1] /\ i + 1 # 1
          BY <1>5, <1>7
        <4>2. CASE v = w
          BY <1>5, <1>6, <3>3, <4>1, <4>2 DEF OncePerKey
        <4>3. CASE v \in AtWork(s)
          BY <3>3, <4>1, <4>3 DEF OncePerKey
        <4> QED
          BY <4>2, <4>3
      <3>6. \A v, x \in AtWork(s) \cup {w} : Identifier(s, v.task) = Identifier(s, x.task) => v = x
        <4>1. \A v \in AtWork(s) : Identifier(s, v.task) # Identifier(s, w.task)
          BY <1>5, <1>6, <3>3 DEF OncePerKey
        <4> QED
          BY <3>3, <4>1 DEF OncePerKey
      <3>7. \A i \in DOMAIN pool'[s] : Identifier(s, pool'[s][i]) \in mycache[s] \ ResultKeys(s)
        BY <1>5, <1>7, <3>3 DEF OncePerKey
      <3>8. \A v \in AtWork(s) \cup {w} : Identifier(s, v.task) \in mycache[s] \ ResultKeys(s)
        BY <1>5, <1>6, <3>3 DEF OncePerKey
      <3> QED
        BY <3>1, <3>2, <3>3, <3>4, <3>5, <3>6, <3>7, <3>8 DEF OncePerKey
    <2> QED
      BY <2>1, <2>2, <2>3 DEF KeysInv
  <1>13. AllReady'
    <2>1. \A u \in Stages : Results(u) \subseteq Results(u)'
      BY <1>12
    <2>2. Ready(s, task)
      BY <1>4 DEF PipelineInv, AllReady
    <2>3. /\ \A q \in Stages \cup {"steering"} :
                \A m \in InQueue(queue'[q]) : m # PoisonPill => Ready(q, m)
          /\ \A u \in Stages :
              /\ \A m \in InQueue(pool'[u]) : Ready(u, m)
              /\ \A m \in InQueue(helperQ'[u]) : m # PoisonPill => Ready(u, m)
              /\ \A m \in InQueue(waiting'[u]) : Ready(u, m)
              /\ \A v \in working'[u] : Ready(IF v.next = "work" THEN u ELSE Output(u), v.task)
      BY <1>3, <1>4, <1>6, <1>7, <2>2 DEF PipelineInv, AllReady
    <2> QED
      BY <2>1, <2>3, ReadyStays DEF AllReady
  <1>14. SearchTypes' /\ GenerationInv'
    BY <1>1, <1>3, GenerationSame DEF PipelineInv
  <1> QED
    BY <1>9, <1>10, <1>11, <1>12, <1>13, <1>14 DEF PipelineInv, Types

\* A worker goes on with its task.
LEMMA BecomesKeeps ==
    ASSUME PipelineInv, NEW s \in Stages, NEW w \in working[s], SearchSame,
           NEW v \in [task : TaskRecords, next : WorkSteps], v.task.flags = w.task.flags,
           Becomes(s, w, v),
           UNCHANGED <<queue, main, mycache, pool, raised, helperQ, helper, doneDict, waiting>>,
           DOMAIN completedQ' = Stages,
           \A u \in Stages : completedQ'[u] \in Seq(Keys \X Outcomes(u))
    PROVE  /\ StageTypes' /\ SearchTypes' /\ OnePlace' /\ PillInv' /\ GenerationInv'
           /\ working'[s] = (working[s] \ {w}) \cup {v}
           /\ \A u \in Stages \ {s} : working'[u] = working[u]
  <1>1. /\ StageTypes /\ SearchTypes
        /\ IsFiniteSet(working[s]) /\ Busy(working[s], w.task.flags) <= 1
    BY WorkerFacts
  <1>2. working' = [working EXCEPT ![s] = (@ \ {w}) \cup {v}]
    BY DEF Becomes
  <1>3. /\ working'[s] = (working[s] \ {w}) \cup {v}
        /\ \A u \in Stages \ {s} : working'[u] = working[u]
    BY <1>1, <1>2 DEF StageTypes
  <1>4. StageTypes'
    <2>1. working' \in [Stages -> SUBSET [task : TaskRecords, next : WorkSteps]]
      <3>1. working \in [Stages -> SUBSET [task : TaskRecords, next : WorkSteps]]
        BY <1>1 DEF StageTypes
      <3> QED
        BY <1>2, <3>1
    <2>2. \A u \in Stages : IsFiniteSet(working'[u])
      <3>1. IsFiniteSet((working[s] \ {w}) \cup {v})
        BY <1>1, BusyAfter
      <3> QED
        BY <1>1, <1>3, <3>1 DEF StageTypes
    <2> QED
      BY <1>1, <2>1, <2>2 DEF StageTypes
  <1>5. OnePlace'
    <2>1. OthersAlone(s)
      BY <1>3 DEF OthersAlone
    <2>2. ASSUME NEW t \in FlagSets PROVE Local(s, t)' = Local(s, t)
      <3>1. Busy((working[s] \ {w}) \cup {v}, t) = Busy(working[s], t)
        BY <1>1, BusyAfter
      <3> QED
        BY <1>3, <3>1 DEF Local, Inside
    <2> QED
      BY <1>1, <1>4, <2>1, <2>2, MovesKeep DEF PipelineInv, SearchSame
  <1>6. PillInv'
    BY PillSame
  <1>7. SearchTypes' /\ GenerationInv'
    BY <1>1, GenerationSame DEF PipelineInv
  <1> QED
    BY <1>3, <1>4, <1>5, <1>6, <1>7

\* What a worker did is new, for a key that has no result.
LEMMA WorkKeeps ==
    ASSUME PipelineInv, NEW s \in Stages, NEW w \in working[s], Work(s, w), SearchSame
    PROVE  /\ PipelineInv'
           /\ \A u \in Stages \ {s} : Results(u)' = Results(u)
           /\ \E p : /\ Results(s)' = Results(s) \cup {p}
                     /\ p[1] = Identifier(s, w.task) /\ p[1] \notin ResultKeys(s)
  <1>1. /\ StageTypes /\ SearchTypes
        /\ w \in [task : TaskRecords, next : WorkSteps] /\ w.task \in TaskRecords
        /\ Ready(IF w.next = "work" THEN s ELSE Output(s), w.task)
    BY WorkerFacts
  <1>2. /\ w.next = "work"
        /\ UNCHANGED <<queue, main, mycache, pool, raised,
                       helperQ, completedQ, helper, doneDict, waiting>>
    BY DEF Work
  <1>3. PICK r \in Outcomes(s) :
            Becomes(s, w, [task |-> SetResult(s, w.task, r), next |-> "completed"])
    BY DEF Work, Outcomes
  <1> DEFINE task == SetResult(s, w.task, r)
             v == [task |-> task, next |-> "completed"]
             p == <<Identifier(s, task), Result(s, task)>>
  <1>4. /\ task \in TaskRecords /\ task.flags = w.task.flags
        /\ task.image = IF s = "build" THEN r ELSE w.task.image
        /\ task.cost = IF s = "build" THEN w.task.cost ELSE r
    BY <1>1, TaskFacts
  <1>5. Identifier(s, task) = Identifier(s, w.task) /\ Result(s, task) = r
    BY <1>4 DEF Identifier, Result
  <1> HIDE DEF task
  <1>6. v \in [task : TaskRecords, next : WorkSteps] /\ v.task = task /\ v.next = "completed"
    BY <1>4 DEF WorkSteps
  <1>7. Becomes(s, w, v)
    BY <1>3 DEF task
  <1>8. p[1] = Identifier(s, w.task) /\ p[2] = r /\ p = <<p[1], p[2]>>
    BY <1>5
  <1> HIDE DEF v, p
  <1>9. /\ StageTypes' /\ SearchTypes' /\ OnePlace' /\ PillInv' /\ GenerationInv'
        /\ working'[s] = (working[s] \ {w}) \cup {v}
        /\ \A u \in Stages \ {s} : working'[u] = working[u]
    BY <1>1, <1>2, <1>4, <1>6, <1>7, BecomesKeeps DEF StageTypes
  <1>10. \A u \in Stages \ {s} : Results(u)' = Results(u)
    BY <1>2, <1>9, ResultsSame
  <1>11. Results(s)' = Results(s) \cup {p}
    <2>1. {x \in working'[s] : x.next = "completed"} = {x \in working[s] : x.next = "completed"} \cup {v}
      BY <1>2, <1>6, <1>9
    <2>2. p = <<Identifier(s, v.task), Result(s, v.task)>>
      BY <1>6 DEF p
    <2> QED
      BY <1>2, <2>1, <2>2 DEF Results
  <1>12. OncePerKey(s) /\ w \in AtWork(s)
    BY <1>2 DEF PipelineInv, KeysInv, AtWork
  <1>13. p[1] \notin ResultKeys(s) /\ p[1] \in mycache[s]
    BY <1>8, <1>12 DEF OncePerKey
  <1>14. KeysInv'
    <2>1. ASSUME NEW u \in Stages \ {s} PROVE OncePerKey(u)'
      <3>1. pool'[u] = pool[u] /\ mycache'[u] = mycache[u] /\ working'[u] = working[u]
        BY <1>2, <1>9
      <3> QED
        BY <1>10, <3>1 DEF PipelineInv, KeysInv, OncePerKey, ResultKeys, AtWork
    <2>2. OncePerKey(s)'
      <3>1. AtWork(s)' = AtWork(s) \ {w}
        BY <1>2, <1>6, <1>9 DEF AtWork
      <3>2. ResultKeys(s)' = ResultKeys(s) \cup {p[1]}
        BY <1>11 DEF ResultKeys
      <3>3. \A i \in DOMAIN pool[s] : Identifier(s, pool[s][i]) # p[1]
        BY <1>8, <1>12 DEF OncePerKey
      <3>4. \A x \in AtWork(s) \ {w} : Identifier(s, x.task) # p[1]
        BY <1>8, <1>12 DEF OncePerKey
      <3>5. \A x, y \in Results(s) \cup {p} : x[1] = y[1] => x = y
        <4>1. \A x \in Results(s) : x[1] # p[1]
          BY <1>13 DEF ResultKeys
        <4> QED
          BY <1>12, <4>1 DEF OncePerKey
      <3>6. pool'[s] = pool[s] /\ mycache'[s] = mycache[s]
        BY <1>2
      <3> QED
        BY <1>11, <1>12, <1>13, <3>1, <3>2, <3>3, <3>4, <3>5, <3>6 DEF OncePerKey
    <2> QED
      BY <2>1, <2>2 DEF KeysInv
  <1>15. AllReady'
    <2>1. \A u \in Stages : Results(u) \subseteq Results(u)'
      BY <1>10, <1>11
    <2>2. Ready(Output(s), task)'
      <3>1. Ready(s, w.task)'
        BY <1>1, <1>2, <2>1, ReadyStays
      <3>2. p \in Results(s)'
        BY <1>11
      <3>3. CASE s = "build"
        BY <1>4, <1>5, <3>1, <3>2, <3>3 DEF Ready, Output, Outcomes, p, Identifier
      <3>4. CASE s = "test"
        BY <1>4, <1>5, <3>1, <3>2, <3>4 DEF Ready, Output, Outcomes, p, Identifier
      <3> QED
        BY <3>3, <3>4 DEF Stages
    <2>3. /\ \A q \in Stages \cup {"steering"} :
                \A m \in InQueue(queue'[q]) : m # PoisonPill => Ready(q, m)
          /\ \A u \in Stages :
              /\ \A m \in InQueue(pool'[u]) : Ready(u, m)
              /\ \A m \in InQueue(helperQ'[u]) : m # PoisonPill => Ready(u, m)
              /\ \A m \in InQueue(waiting'[u]) : Ready(u, m)
      BY <1>2 DEF PipelineInv, AllReady
    <2>4. \A u \in Stages : \A x \in working[u] :
             Ready(IF x.next = "work" THEN u ELSE Output(u), x.task)'
      BY <2>1, ReadyStays DEF PipelineInv, AllReady
    <2>5. \A u \in Stages : \A x \in working'[u] :
             Ready(IF x.next = "work" THEN u ELSE Output(u), x.task)'
      BY <1>6, <1>9, <2>2, <2>4
    <2> QED
      BY <2>1, <2>3, <2>5, ReadyStays DEF AllReady
  <1> QED
    BY <1>8, <1>9, <1>10, <1>11, <1>13, <1>14, <1>15 DEF PipelineInv, Types

LEMMA PutCompletedKeeps ==
    ASSUME PipelineInv, NEW s \in Stages, NEW w \in working[s], PutCompleted(s, w), SearchSame
    PROVE  PipelineInv' /\ \A u \in Stages : Results(u)' = Results(u)
  <1> DEFINE v == [w EXCEPT !.next = "result"]
             p == <<Identifier(s, w.task), Result(s, w.task)>>
  <1>1. /\ StageTypes /\ SearchTypes
        /\ w \in [task : TaskRecords, next : WorkSteps] /\ w.task \in TaskRecords
        /\ Ready(IF w.next = "work" THEN s ELSE Output(s), w.task)
    BY WorkerFacts
  <1>2. /\ w.next = "completed"
        /\ completedQ' = [completedQ EXCEPT ![s] = Append(@, p)]
        /\ Becomes(s, w, v)
        /\ UNCHANGED <<queue, main, mycache, pool, raised,
                       helperQ, helper, doneDict, waiting>>
    BY DEF PutCompleted
  <1>3. v \in [task : TaskRecords, next : WorkSteps] /\ v.task = w.task /\ v.next = "result"
    BY <1>1 DEF WorkSteps
  <1>4. p \in Keys \X Outcomes(s)
    <2>1. Identifier(s, w.task) \in Keys
      BY <1>1 DEF Identifier, Keys, TaskRecords
    <2>2. Ready(Output(s), w.task)
      BY <1>1, <1>2
    <2>3. Result(s, w.task) \in Outcomes(s)
      BY <2>2 DEF Ready, Output, Result, Outcomes, Stages
    <2> QED
      BY <2>1, <2>3
  <1> HIDE DEF v, p
  <1>5. /\ completedQ'[s] = Append(completedQ[s], p)
        /\ \A u \in Stages \ {s} : completedQ'[u] = completedQ[u]
        /\ DOMAIN completedQ' = Stages
    BY <1>1, <1>2 DEF StageTypes
  <1>6. completedQ[s] \in Seq(Keys \X Outcomes(s))
    BY <1>1, StageFacts
  <1>7. \A u \in Stages : completedQ'[u] \in Seq(Keys \X Outcomes(u))
    <2>1. Append(completedQ[s], p) \in Seq(Keys \X Outcomes(s))
      BY <1>4, <1>6
    <2> QED
      BY <1>1, <1>5, <2>1 DEF StageTypes
  <1>8. /\ StageTypes' /\ SearchTypes' /\ OnePlace' /\ PillInv' /\ GenerationInv'
        /\ working'[s] = (working[s] \ {w}) \cup {v}
        /\ \A u \in Stages \ {s} : working'[u] = working[u]
    BY <1>2, <1>3, <1>5, <1>7, BecomesKeeps
  <1>9. \A u \in Stages : Results(u)' = Results(u)
    <2>1. ASSUME NEW u \in Stages \ {s} PROVE Results(u)' = Results(u)
      BY <1>2, <1>5, <1>8 DEF Results
    <2>2. Results(s)' = Results(s)
      <3> DEFINE Of(x) == <<Identifier(s, x.task), Result(s, x.task)>>
                 C == {x \in working[s] : x.next = "completed"}
                 D == {x \in working'[s] : x.next = "completed"}
      <3>1. InQueue(completedQ'[s]) = InQueue(completedQ[s]) \cup {p}
        BY <1>4, <1>5, <1>6, QueueElements
      <3>2. D = C \ {w} /\ w \in C
        BY <1>2, <1>3, <1>8
      <3>3. p = Of(w)
        BY DEF p
      <3>4. {Of(x) : x \in C} = {Of(x) : x \in D} \cup {p}
        BY <3>2, <3>3
      <3>5. /\ Results(s) = {<<k, doneDict[s][k]>> : k \in DOMAIN doneDict[s]}
                             \cup InQueue(completedQ[s]) \cup {Of(x) : x \in C}
            /\ Results(s)' = {<<k, doneDict[s][k]>> : k \in DOMAIN doneDict[s]}
                             \cup InQueue(completedQ'[s]) \cup {Of(x) : x \in D}
        BY <1>2 DEF Results
      <3> HIDE DEF Of, C, D
      <3> QED
        BY <3>1, <3>4, <3>5
    <2> QED
      BY <2>1, <2>2
  <1>10. KeysInv'
    <2>1. \A u \in Stages : AtWork(u)' = AtWork(u)
      BY <1>2, <1>3, <1>8 DEF AtWork
    <2> QED
      BY <1>2, <1>9, <2>1 DEF PipelineInv, KeysInv, OncePerKey, ResultKeys
  <1>11. AllReady'
    <2>1. \A u \in Stages : Results(u) \subseteq Results(u)'
      BY <1>9
    <2>2. Ready(Output(s), v.task) /\ v.next # "work"
      BY <1>1, <1>2, <1>3
    <2>3. /\ \A q \in Stages \cup {"steering"} :
                \A m \in InQueue(queue'[q]) : m # PoisonPill => Ready(q, m)
          /\ \A u \in Stages :
              /\ \A m \in InQueue(pool'[u]) : Ready(u, m)
              /\ \A m \in InQueue(helperQ'[u]) : m # PoisonPill => Ready(u, m)
              /\ \A m \in InQueue(waiting'[u]) : Ready(u, m)
              /\ \A x \in working'[u] : Ready(IF x.next = "work" THEN u ELSE Output(u), x.task)
      BY <1>2, <1>8, <2>2 DEF PipelineInv, AllReady
    <2> QED
      BY <2>1, <2>3, ReadyStays DEF AllReady
  <1> QED
    BY <1>8, <1>9, <1>10, <1>11 DEF PipelineInv, Types

LEMMA WorkRaisesKeeps ==
    ASSUME PipelineInv, NEW s \in Stages, NEW w \in working[s], WorkRaises(s, w), SearchSame
    PROVE  PipelineInv' /\ \A u \in Stages : Results(u)' = Results(u)
  <1> DEFINE f == w.task.flags
  <1>1. /\ StageTypes /\ SearchTypes
        /\ w \in [task : TaskRecords, next : WorkSteps]
        /\ IsFiniteSet(working[s])
        /\ f \in Underway /\ f \in FlagSets
    BY WorkerFacts
  <1>2. /\ w.next = "work"
        /\ working' = [working EXCEPT ![s] = @ \ {w}]
        /\ raised' = [raised EXCEPT ![s] = @ \cup {f}]
        /\ UNCHANGED <<queue, main, mycache, pool,
                       helperQ, completedQ, helper, doneDict, waiting>>
    BY DEF WorkRaises
  <1> HIDE DEF f
  <1>3. /\ working'[s] = working[s] \ {w}
        /\ \A u \in Stages \ {s} : working'[u] = working[u]
    BY <1>1, <1>2 DEF StageTypes
  <1>4. StageTypes'
    <2>1. working' \in [Stages -> SUBSET [task : TaskRecords, next : WorkSteps]]
      <3>1. working \in [Stages -> SUBSET [task : TaskRecords, next : WorkSteps]]
        BY <1>1 DEF StageTypes
      <3> QED
        BY <1>2, <3>1
    <2>2. \A u \in Stages : IsFiniteSet(working'[u])
      <3>1. IsFiniteSet(working[s] \ {w})
        BY <1>1, FS_RemoveElement
      <3> QED
        BY <1>1, <1>3, <3>1 DEF StageTypes
    <2>3. raised' \in [Stages -> SUBSET FlagSets]
      <3>1. raised \in [Stages -> SUBSET FlagSets]
        BY <1>1 DEF StageTypes
      <3> QED
        BY <1>1, <1>2, <3>1
    <2> QED
      BY <1>1, <1>2, <2>1, <2>2, <2>3 DEF StageTypes
  <1>5. Raised' = Raised \cup {f}
    BY <1>1, <1>2 DEF Raised, StageTypes, Stages
  <1>6. OnePlace'
    <2>1. OthersAlone(s)
      BY <1>2, <1>3 DEF OthersAlone
    <2>2. \A t : Elsewhere(s, t)' = Elsewhere(s, t)
      BY <2>1, ElsewhereSame
    <2>3. Underway' = Underway \ {f}
      BY <1>5 DEF Underway, SearchSame
    <2>4. ASSUME NEW t \in FlagSets PROVE Places(t)' = IF t \in Underway' THEN 1 ELSE 0
      <3>1. Busy(working[s], t) = Busy(working[s] \ {w}, t) + IF f = t THEN 1 ELSE 0
        <4>1. Busy(working[s], t) = Busy(working[s] \ {w}, t) + Mine(w, t)
          BY <1>1, BusyLess
        <4> QED
          BY <4>1 DEF f, Mine
      <3>2. /\ Count(pool[s], t) \in Nat /\ Count(helperQ[s], t) \in Nat
            /\ Count(waiting[s], t) \in Nat /\ Busy(working[s], t) \in Nat
            /\ Count(queue[s], t) \in Nat /\ Count(queue[Output(s)], t) \in Nat
            /\ Elsewhere(s, t) \in Nat
        BY <1>1, PlacesSum
      <3>3. Busy(working[s] \ {w}, t) \in Nat
        <4>1. IsFiniteSet(working[s] \ {w})
          BY <1>1, FS_RemoveElement
        <4> QED
          BY <4>1, BusyFacts
      <3>4. /\ Local(s, t) = Count(pool[s], t) + Count(helperQ[s], t) + Count(waiting[s], t)
                               + Busy(working[s], t) + Count(queue[s], t) + Count(queue[Output(s)], t)
            /\ Local(s, t)' = Count(pool[s], t) + Count(helperQ[s], t) + Count(waiting[s], t)
                               + Busy(working[s] \ {w}, t) + Count(queue[s], t) + Count(queue[Output(s)], t)
        BY <1>2, <1>3 DEF Local, Inside
      <3>5. /\ Local(s, t) \in Nat /\ Local(s, t)' \in Nat
            /\ Local(s, t) = Local(s, t)' + IF f = t THEN 1 ELSE 0
        BY <3>1, <3>2, <3>3, <3>4
      <3>6. Places(t) = Local(s, t) + Elsewhere(s, t) /\ Places(t)' = Local(s, t)' + Elsewhere(s, t)
        BY <1>1, <1>4, <2>2, PlacesNow, PlacesThen DEF PlacesAddUp
      <3>7. Places(t) = IF t \in Underway THEN 1 ELSE 0
        BY DEF PipelineInv, OnePlace
      <3> QED
        BY <1>1, <2>3, <3>2, <3>5, <3>6, <3>7
    <2> QED
      BY <2>4 DEF OnePlace
  <1>7. PillInv'
    BY <1>2, PillSame
  <1>8. SearchTypes' /\ GenerationInv'
    <2>1. SearchTypes'
      BY <1>1 DEF SearchTypes, SearchSame
    <2>2. Raised' \subseteq cache \ DOMAIN log
      BY <1>1, <1>5 DEF PipelineInv, GenerationInv, Underway
    <2>3. GenerationInv'
      BY <2>2 DEF PipelineInv, GenerationInv, Unanswered1, SearchSame
    <2> QED
      BY <2>1, <2>3
  <1>9. \A u \in Stages : Results(u)' = Results(u)
    <2>1. \A u \in Stages : {v \in working'[u] : v.next = "completed"} = {v \in working[u] : v.next = "completed"}
      BY <1>2, <1>3
    <2> QED
      BY <1>2, <2>1, ResultsSame
  <1>10. KeysInv'
    <2>1. \A u \in Stages : AtWork(u)' \subseteq AtWork(u)
      BY <1>3 DEF AtWork
    <2> QED
      BY <1>2, <1>9, <2>1 DEF PipelineInv, KeysInv, OncePerKey, ResultKeys
  <1>11. AllReady'
    <2>1. \A u \in Stages : Results(u) \subseteq Results(u)'
      BY <1>9
    <2>2. /\ \A q \in Stages \cup {"steering"} :
                \A m \in InQueue(queue'[q]) : m # PoisonPill => Ready(q, m)
          /\ \A u \in Stages :
              /\ \A m \in InQueue(pool'[u]) : Ready(u, m)
              /\ \A m \in InQueue(helperQ'[u]) : m # PoisonPill => Ready(u, m)
              /\ \A m \in InQueue(waiting'[u]) : Ready(u, m)
              /\ \A x \in working'[u] : Ready(IF x.next = "work" THEN u ELSE Output(u), x.task)
      BY <1>2, <1>3 DEF PipelineInv, AllReady
    <2> QED
      BY <2>1, <2>2, ReadyStays DEF AllReady
  <1> QED
    BY <1>4, <1>6, <1>7, <1>8, <1>9, <1>10, <1>11 DEF PipelineInv, Types

LEMMA PutResultKeeps ==
    ASSUME PipelineInv, NEW s \in Stages, NEW w \in working[s], PutResult(s, w), SearchSame
    PROVE  PipelineInv' /\ \A u \in Stages : Results(u)' = Results(u)
  <1> DEFINE task == w.task
  <1>1. /\ StageTypes /\ SearchTypes
        /\ w \in [task : TaskRecords, next : WorkSteps] /\ task \in TaskRecords
        /\ IsFiniteSet(working[s]) /\ steering # "ended" /\ NoPill
        /\ Ready(IF w.next = "work" THEN s ELSE Output(s), task)
    BY WorkerFacts
  <1>2. /\ w.next = "result"
        /\ queue' = [queue EXCEPT ![Output(s)] = Append(@, task)]
        /\ working' = [working EXCEPT ![s] = @ \ {w}]
        /\ UNCHANGED <<main, mycache, pool, raised,
                       helperQ, completedQ, helper, doneDict, waiting>>
    BY DEF PutResult, Put
  <1>3. /\ Output(s) \in Stages \cup {"steering"} /\ Output(s) # s
        /\ queue[Output(s)] \in Seq(Pulled)
    BY <1>1, StageFacts
  <1>4. task \in Pulled /\ task # PoisonPill
    BY <1>1, TaskFacts
  <1> HIDE DEF task
  <1>5. /\ working'[s] = working[s] \ {w}
        /\ \A u \in Stages \ {s} : working'[u] = working[u]
        /\ queue'[Output(s)] = Append(queue[Output(s)], task)
        /\ \A q \in (Stages \cup {"steering"}) \ {Output(s)} : queue'[q] = queue[q]
    BY <1>1, <1>2, <1>3 DEF StageTypes
  <1>6. InQueue(queue'[Output(s)]) = InQueue(queue[Output(s)]) \cup {task}
    BY <1>3, <1>4, <1>5, QueueElements
  <1>7. StageTypes'
    <2>1. working' \in [Stages -> SUBSET [task : TaskRecords, next : WorkSteps]]
      <3>1. working \in [Stages -> SUBSET [task : TaskRecords, next : WorkSteps]]
        BY <1>1 DEF StageTypes
      <3> QED
        BY <1>2, <3>1
    <2>2. \A u \in Stages : IsFiniteSet(working'[u])
      <3>1. IsFiniteSet(working[s] \ {w})
        BY <1>1, FS_RemoveElement
      <3> QED
        BY <1>1, <1>5, <3>1 DEF StageTypes
    <2>3. queue' \in [Stages \cup {"steering"} -> Seq(Pulled)]
      <3>1. queue \in [Stages \cup {"steering"} -> Seq(Pulled)]
        BY <1>1 DEF StageTypes
      <3>2. Append(queue[Output(s)], task) \in Seq(Pulled)
        BY <1>3, <1>4
      <3> QED
        BY <1>2, <3>1, <3>2
    <2> QED
      BY <1>1, <1>2, <2>1, <2>2, <2>3 DEF StageTypes
  <1>8. OnePlace'
    <2>1. OthersAlone(s)
      BY <1>2, <1>5 DEF OthersAlone
    <2>2. ASSUME NEW t \in FlagSets PROVE Local(s, t)' = Local(s, t)
      <3>1. Busy(working[s], t) = Busy(working[s] \ {w}, t) + IF task.flags = t THEN 1 ELSE 0
        <4>1. Busy(working[s], t) = Busy(working[s] \ {w}, t) + Mine(w, t)
          BY <1>1, BusyLess
        <4> QED
          BY <4>1 DEF task, Mine
      <3>2. /\ Count(pool[s], t) \in Nat /\ Count(helperQ[s], t) \in Nat
            /\ Count(waiting[s], t) \in Nat /\ Busy(working[s], t) \in Nat
            /\ Count(queue[s], t) \in Nat /\ Count(queue[Output(s)], t) \in Nat
        BY <1>1, PlacesSum
      <3>3. Busy(working[s] \ {w}, t) \in Nat
        <4>1. IsFiniteSet(working[s] \ {w})
          BY <1>1, FS_RemoveElement
        <4> QED
          BY <4>1, BusyFacts
      <3>4. Count(queue'[Output(s)], t) = Count(queue[Output(s)], t) + IF task.flags = t THEN 1 ELSE 0
        <4>1. Count(Append(queue[Output(s)], task), t) = Count(queue[Output(s)], t) + Weight(task, t)
          BY <1>3, <1>4, CountAppend
        <4> QED
          BY <1>1, <1>5, <4>1, TaskFacts
      <3>5. /\ Local(s, t) = Count(pool[s], t) + Count(helperQ[s], t) + Count(waiting[s], t)
                               + Busy(working[s], t) + Count(queue[s], t) + Count(queue[Output(s)], t)
            /\ Local(s, t)' = Count(pool[s], t) + Count(helperQ[s], t) + Count(waiting[s], t)
                               + Busy(working[s] \ {w}, t) + Count(queue[s], t) + Count(queue'[Output(s)], t)
        BY <1>2, <1>3, <1>5 DEF Local, Inside
      <3> QED
        BY <3>1, <3>2, <3>3, <3>4, <3>5
    <2> QED
      BY <1>1, <1>2, <1>7, <2>1, <2>2, MovesKeep DEF PipelineInv, SearchSame
  <1>9. PillInv'
    <2>1. NoPill'
      BY <1>1, <1>2, <1>4, <1>5, <1>6 DEF NoPill
    <2> QED
      BY <1>1, <2>1 DEF PillInv, SearchSame
  <1>10. \A u \in Stages : Results(u)' = Results(u)
    <2>1. \A u \in Stages : {v \in working'[u] : v.next = "completed"} = {v \in working[u] : v.next = "completed"}
      BY <1>2, <1>5
    <2> QED
      BY <1>2, <2>1, ResultsSame
  <1>11. KeysInv'
    <2>1. \A u \in Stages : AtWork(u)' \subseteq AtWork(u)
      BY <1>5 DEF AtWork
    <2> QED
      BY <1>2, <1>10, <2>1 DEF PipelineInv, KeysInv, OncePerKey, ResultKeys
  <1>12. AllReady'
    <2>1. \A u \in Stages : Results(u) \subseteq Results(u)'
      BY <1>10
    <2>2. /\ \A q \in Stages \cup {"steering"} :
                \A m \in InQueue(queue'[q]) : m # PoisonPill => Ready(q, m)
          /\ \A u \in Stages :
              /\ \A m \in InQueue(pool'[u]) : Ready(u, m)
              /\ \A m \in InQueue(helperQ'[u]) : m # PoisonPill => Ready(u, m)
              /\ \A m \in InQueue(waiting'[u]) : Ready(u, m)
              /\ \A x \in working'[u] : Ready(IF x.next = "work" THEN u ELSE Output(u), x.task)
      BY <1>1, <1>2, <1>5, <1>6 DEF PipelineInv, AllReady
    <2> QED
      BY <2>1, <2>2, ReadyStays DEF AllReady
  <1>13. SearchTypes' /\ GenerationInv'
    BY <1>1, <1>2, GenerationSame DEF PipelineInv
  <1> QED
    BY <1>7, <1>8, <1>9, <1>10, <1>11, <1>12, <1>13 DEF PipelineInv, Types

-----------------------------------------------------------------------------
(* The helper *)

\* An answer from the results of the stage is ready for the next one.
LEMMA AnswerReady ==
    ASSUME NEW s \in Stages, NEW m \in TaskRecords, Ready(s, m),
           NEW r \in Outcomes(s), <<Identifier(s, m), r>> \in Results(s)
    PROVE  Ready(Output(s), SetResult(s, m, r))
  <1>1. /\ SetResult(s, m, r).flags = m.flags
        /\ SetResult(s, m, r).image = IF s = "build" THEN r ELSE m.image
        /\ SetResult(s, m, r).cost = IF s = "build" THEN m.cost ELSE r
    BY TaskFacts
  <1>2. CASE s = "build"
    BY <1>1, <1>2 DEF Ready, Output, Outcomes, Identifier
  <1>3. CASE s = "test"
    BY <1>1, <1>3 DEF Ready, Output, Outcomes, Identifier
  <1> QED
    BY <1>2, <1>3 DEF Stages

LEMMA GetDuplicateKeeps ==
    ASSUME PipelineInv, NEW s \in Stages, GetDuplicate(s), SearchSame
    PROVE  PipelineInv' /\ \A u \in Stages : Results(u)' = Results(u)
  <1> DEFINE task == Head(helperQ[s])
             key == Identifier(s, task)
             answer == SetResult(s, task, doneDict[s][key])
  <1>1. StageTypes /\ SearchTypes
    BY DEF PipelineInv, Types
  <1>2. /\ Output(s) \in Stages \cup {"steering"} /\ Output(s) # s
        /\ queue[Output(s)] \in Seq(Pulled)
        /\ waiting[s] \in Seq(TaskRecords) /\ helperQ[s] \in Seq(Pulled)
    BY <1>1, StageFacts
  <1>3. /\ helperQ[s] # <<>> /\ task # PoisonPill
        /\ \/ /\ key \in DOMAIN doneDict[s] /\ UNCHANGED waiting
              /\ queue' = [queue EXCEPT ![Output(s)] = Append(@, answer)]
           \/ /\ key \notin DOMAIN doneDict[s] /\ UNCHANGED queue
              /\ waiting' = [waiting EXCEPT ![s] = Append(@, task)]
        /\ helperQ' = [helperQ EXCEPT ![s] = Tail(@)]
        /\ helper' = [helper EXCEPT ![s] = "check"]
        /\ UNCHANGED <<main, mycache, pool, working, raised, completedQ, doneDict>>
    BY DEF GetDuplicate, Put
  <1>4. /\ InQueue(helperQ[s]) = InQueue(Tail(helperQ[s])) \cup {task}
        /\ Tail(helperQ[s]) \in Seq(Pulled) /\ task \in TaskRecords
    <2>1. /\ InQueue(helperQ[s]) = InQueue(Tail(helperQ[s])) \cup {Head(helperQ[s])}
          /\ Tail(helperQ[s]) \in Seq(Pulled) /\ Head(helperQ[s]) \in Pulled
      BY <1>2, <1>3, QueueElements
    <2> QED
      BY <1>3, <2>1 DEF Pulled
  <1>5. Ready(s, task)
    BY <1>3, <1>4 DEF PipelineInv, AllReady
  <1>6. ASSUME key \in DOMAIN doneDict[s]
        PROVE  answer \in TaskRecords /\ answer.flags = task.flags /\ Ready(Output(s), answer)
    <2>1. doneDict[s][key] \in Outcomes(s)
      BY <1>1, <1>6 DEF StageTypes
    <2>2. <<key, doneDict[s][key]>> \in Results(s)
      BY <1>6 DEF Results
    <2> HIDE DEF task
    <2> QED
      BY <1>4, <1>5, <2>1, <2>2, TaskFacts, AnswerReady
  <1> HIDE DEF task, key, answer
  <1>7. /\ helperQ'[s] = Tail(helperQ[s])
        /\ \A u \in Stages \ {s} : helperQ'[u] = helperQ[u]
    BY <1>1, <1>3 DEF StageTypes
  <1>8. \/ /\ waiting' = waiting /\ queue'[Output(s)] = Append(queue[Output(s)], answer)
           /\ waiting'[s] = waiting[s]
           /\ \A q \in (Stages \cup {"steering"}) \ {Output(s)} : queue'[q] = queue[q]
           /\ answer \in TaskRecords /\ answer.flags = task.flags /\ Ready(Output(s), answer)
        \/ /\ queue' = queue /\ waiting'[s] = Append(waiting[s], task)
           /\ queue'[Output(s)] = queue[Output(s)]
           /\ \A u \in Stages \ {s} : waiting'[u] = waiting[u]
    <2>1. queue \in [Stages \cup {"steering"} -> Seq(Pulled)] /\ waiting \in [Stages -> Seq(TaskRecords)]
      BY <1>1 DEF StageTypes
    <2> QED
      BY <1>2, <1>3, <1>6, <2>1
  <1>9. StageTypes'
    <2>1. queue \in [Stages \cup {"steering"} -> Seq(Pulled)] /\ waiting \in [Stages -> Seq(TaskRecords)]
      BY <1>1 DEF StageTypes
    <2>2. Append(waiting[s], task) \in Seq(TaskRecords)
      BY <1>2, <1>4
    <2>3. answer \in TaskRecords => Append(queue[Output(s)], answer) \in Seq(Pulled)
      BY <1>2 DEF Pulled
    <2>4. waiting' \in [Stages -> Seq(TaskRecords)]
      BY <1>3, <2>1, <2>2
    <2>5. queue' \in [Stages \cup {"steering"} -> Seq(Pulled)]
      BY <1>3, <1>6, <2>1, <2>3
    <2>6. helperQ' \in [Stages -> Seq(Pulled)] /\ helper' \in [Stages -> {"loop", "check", "drain", "ended"}]
      BY <1>1, <1>3, <1>4 DEF StageTypes
    <2> QED
      BY <1>1, <1>3, <2>4, <2>5, <2>6 DEF StageTypes
  <1>10. OnePlace'
    <2>1. OthersAlone(s)
      BY <1>3, <1>7, <1>8 DEF OthersAlone
    <2>2. ASSUME NEW t \in FlagSets PROVE Local(s, t)' = Local(s, t)
      <3>1. /\ Count(helperQ[s], t) = Weight(task, t) + Count(Tail(helperQ[s]), t)
            /\ Count(Tail(helperQ[s]), t) \in Nat /\ Weight(task, t) \in Nat
        BY <1>2, <1>3, <1>4, CountTail, CountFinite DEF task, Weight
      <3>2. /\ Count(pool[s], t) \in Nat /\ Count(helperQ[s], t) \in Nat
            /\ Count(waiting[s], t) \in Nat /\ Busy(working[s], t) \in Nat
            /\ Count(queue[s], t) \in Nat /\ Count(queue[Output(s)], t) \in Nat
        BY <1>1, PlacesSum
      <3>3. /\ Local(s, t) = Count(pool[s], t) + Count(helperQ[s], t) + Count(waiting[s], t)
                               + Busy(working[s], t) + Count(queue[s], t) + Count(queue[Output(s)], t)
            /\ Local(s, t)' = Count(pool[s], t) + Count(Tail(helperQ[s]), t) + Count(waiting'[s], t)
                               + Busy(working[s], t) + Count(queue[s], t) + Count(queue'[Output(s)], t)
        BY <1>2, <1>3, <1>7, <1>8 DEF Local, Inside
      <3>4. CASE /\ waiting'[s] = waiting[s] /\ queue'[Output(s)] = Append(queue[Output(s)], answer)
                 /\ answer \in TaskRecords /\ answer.flags = task.flags
        <4>1. Count(Append(queue[Output(s)], answer), t) = Count(queue[Output(s)], t) + Weight(answer, t)
          BY <1>2, <3>4, CountAppend DEF Pulled
        <4>2. Weight(answer, t) = Weight(task, t)
          BY <1>4, <3>4, TaskFacts
        <4> QED
          <5> HIDE DEF task, answer
          <5>1. Count(queue'[Output(s)], t) = Count(queue[Output(s)], t) + Weight(task, t)
            BY <3>4, <4>1, <4>2
          <5>2. Count(waiting'[s], t) = Count(waiting[s], t)
            BY <3>4
          <5> QED
            BY <3>1, <3>2, <3>3, <5>1, <5>2
      <3>5. CASE queue'[Output(s)] = queue[Output(s)] /\ waiting'[s] = Append(waiting[s], task)
        <4>1. Count(Append(waiting[s], task), t) = Count(waiting[s], t) + Weight(task, t)
          BY <1>2, <1>4, CountAppend
        <4> QED
          BY <3>1, <3>2, <3>3, <3>5, <4>1
      <3> QED
        BY <1>8, <3>4, <3>5
    <2> QED
      BY <1>1, <1>3, <1>9, <2>1, <2>2, MovesKeep DEF PipelineInv, SearchSame
  <1>11. \A q \in Stages \cup {"steering"} :
            \A m \in InQueue(queue'[q]) :
               \/ m \in InQueue(queue[q])
               \/ m \in TaskRecords /\ Ready(q, m)
    <2>1. answer \in TaskRecords => InQueue(Append(queue[Output(s)], answer)) = InQueue(queue[Output(s)]) \cup {answer}
      BY <1>2, QueueElements DEF Pulled
    <2> QED
      BY <1>2, <1>8, <2>1
  <1>12. PillInv'
    <2>1. steering # "ended" /\ NoPill
      <3>1. \E m \in InQueue(helperQ[s]) : m # PoisonPill
        BY <1>3, <1>4
      <3> QED
        BY <1>1, <3>1, NotSettled DEF PipelineInv
    <2>2. NoPill'
      BY <1>3, <1>4, <1>7, <1>11, <2>1, PipelineAssumption DEF NoPill
    <2> QED
      BY <2>1, <2>2 DEF PillInv, SearchSame
  <1>13. KeysInv' /\ \A u \in Stages : Results(u)' = Results(u)
    BY <1>3, KeysSame DEF PipelineInv
  <1>14. AllReady'
    <2>1. \A u \in Stages : Results(u) \subseteq Results(u)'
      BY <1>13
    <2>2. InQueue(waiting'[s]) \subseteq InQueue(waiting[s]) \cup {task}
      <3>1. InQueue(Append(waiting[s], task)) = InQueue(waiting[s]) \cup {task}
        BY <1>2, <1>4, QueueElements
      <3> QED
        BY <1>8, <3>1
    <2>3. \A u \in Stages \ {s} : waiting'[u] = waiting[u]
      BY <1>8
    <2>4. /\ \A q \in Stages \cup {"steering"} :
                \A m \in InQueue(queue'[q]) : m # PoisonPill => Ready(q, m)
          /\ \A u \in Stages :
              /\ \A m \in InQueue(pool'[u]) : Ready(u, m)
              /\ \A m \in InQueue(helperQ'[u]) : m # PoisonPill => Ready(u, m)
              /\ \A m \in InQueue(waiting'[u]) : Ready(u, m)
              /\ \A x \in working'[u] : Ready(IF x.next = "work" THEN u ELSE Output(u), x.task)
      BY <1>3, <1>4, <1>5, <1>7, <1>11, <2>2, <2>3 DEF PipelineInv, AllReady
    <2> QED
      BY <2>1, <2>4, ReadyStays DEF AllReady
  <1>15. SearchTypes' /\ GenerationInv'
    BY <1>1, <1>3, GenerationSame DEF PipelineInv
  <1> QED
    BY <1>9, <1>10, <1>12, <1>13, <1>14, <1>15 DEF PipelineInv, Types

\* What the helper makes of a completed pair.
GetCompletedOf(s, key, result, tasks) ==
    /\ completedQ[s] # <<>>
    /\ key = Head(completedQ[s])[1] /\ result = Head(completedQ[s])[2]
    /\ tasks = Select(waiting[s], Waiters(s, key))
    /\ doneDict' = [doneDict EXCEPT ![s] =
           [k \in DOMAIN @ \cup {key} |-> IF k = key THEN result ELSE @[k]]]
    /\ queue' = [queue EXCEPT ![Output(s)] =
           @ \o [i \in DOMAIN tasks |-> SetResult(s, tasks[i], result)]]
    /\ waiting' = [waiting EXCEPT ![s] = Unanswered(s, key)]
    /\ completedQ' = [completedQ EXCEPT ![s] = Tail(@)]
    /\ helper' = [helper EXCEPT ![s] = IF @ = "drain" THEN "drain" ELSE "loop"]
    /\ UNCHANGED <<main, mycache, pool, working, raised, helperQ>>

LEMMA GetCompletedKeeps ==
    ASSUME PipelineInv, NEW s \in Stages, GetCompleted(s), SearchSame
    PROVE  PipelineInv' /\ \A u \in Stages : Results(u)' = Results(u)
  <1>1. StageTypes /\ SearchTypes
    BY DEF PipelineInv, Types
  <1>2. /\ Output(s) \in Stages \cup {"steering"} /\ Output(s) # s
        /\ queue[Output(s)] \in Seq(Pulled) /\ waiting[s] \in Seq(TaskRecords)
        /\ completedQ[s] \in Seq(Keys \X Outcomes(s))
    BY <1>1, StageFacts
  <1>3. \E key, result, tasks : GetCompletedOf(s, key, result, tasks)
    BY DEF GetCompleted, GetCompletedOf
  <1>4. PICK key, result, tasks : GetCompletedOf(s, key, result, tasks)
    BY <1>3
  <1> DEFINE answers == [i \in DOMAIN tasks |-> SetResult(s, tasks[i], result)]
             rest == Select(waiting[s], InQueue(waiting[s]) \ Waiters(s, key))
             known == [k \in DOMAIN doneDict[s] \cup {key} |->
                          IF k = key THEN result ELSE doneDict[s][k]]
  <1>5. /\ InQueue(completedQ[s]) = InQueue(Tail(completedQ[s])) \cup {<<key, result>>}
        /\ Tail(completedQ[s]) \in Seq(Keys \X Outcomes(s))
        /\ result \in Outcomes(s) /\ <<key, result>> \in Results(s)
    <2>1. /\ InQueue(completedQ[s]) = InQueue(Tail(completedQ[s])) \cup {Head(completedQ[s])}
          /\ Tail(completedQ[s]) \in Seq(Keys \X Outcomes(s))
          /\ Head(completedQ[s]) \in Keys \X Outcomes(s)
      BY <1>2, <1>4, QueueElements DEF GetCompletedOf
    <2>2. Head(completedQ[s]) = <<key, result>> /\ result \in Outcomes(s)
      BY <1>4, <2>1 DEF GetCompletedOf
    <2>3. InQueue(completedQ[s]) \subseteq Results(s)
      BY DEF Results
    <2> QED
      BY <2>1, <2>2, <2>3
  <1>6. /\ tasks \in Seq(TaskRecords) /\ rest \in Seq(TaskRecords)
        /\ InQueue(tasks) = InQueue(waiting[s]) \cap Waiters(s, key)
        /\ InQueue(rest) \subseteq InQueue(waiting[s])
    <2>1. tasks = Select(waiting[s], Waiters(s, key))
      BY <1>4 DEF GetCompletedOf
    <2>2. tasks \in Seq(TaskRecords) /\ InQueue(tasks) = InQueue(waiting[s]) \cap Waiters(s, key)
      BY <1>2, <2>1, SelectProperties
    <2>3. rest \in Seq(TaskRecords) /\ InQueue(rest) \subseteq InQueue(waiting[s])
      BY <1>2, SelectProperties
    <2> QED
      BY <2>2, <2>3
  <1>7. /\ Len(tasks) \in Nat /\ DOMAIN tasks = 1 .. Len(tasks)
        /\ \A i \in DOMAIN tasks : tasks[i] \in InQueue(tasks) /\ tasks[i] \in TaskRecords
    BY <1>6, LenProperties DEF InQueue
  <1>8. \A i \in DOMAIN tasks :
           /\ answers[i] \in TaskRecords /\ answers[i].flags = tasks[i].flags
           /\ Ready(Output(s), answers[i])
    <2> TAKE i \in DOMAIN tasks
    <2>1. tasks[i] \in TaskRecords /\ tasks[i] \in InQueue(waiting[s]) /\ Identifier(s, tasks[i]) = key
      BY <1>6, <1>7 DEF Waiters
    <2>2. Ready(s, tasks[i])
      BY <2>1 DEF PipelineInv, AllReady
    <2>3. /\ SetResult(s, tasks[i], result) \in TaskRecords
          /\ SetResult(s, tasks[i], result).flags = tasks[i].flags
      BY <1>5, <2>1, TaskFacts
    <2>4. Ready(Output(s), SetResult(s, tasks[i], result))
      BY <1>5, <2>1, <2>2, AnswerReady
    <2>5. answers[i] = SetResult(s, tasks[i], result)
      OBVIOUS
    <2> HIDE DEF answers
    <2> QED
      BY <2>3, <2>4, <2>5
  <1>9. answers \in Seq(TaskRecords) /\ answers \in Seq(Pulled) /\ DOMAIN answers = DOMAIN tasks
    <2>1. DOMAIN answers = 1 .. Len(tasks)
      BY <1>7
    <2>2. answers = [i \in 1 .. Len(tasks) |-> answers[i]]
      BY <1>7
    <2> HIDE DEF answers
    <2>3. answers \in [1 .. Len(tasks) -> TaskRecords]
      BY <1>7, <1>8, <2>2
    <2>4. answers \in Seq(TaskRecords)
      BY <1>7, <2>3, SeqDef
    <2> QED
      BY <1>7, <2>1, <2>4, SeqMonotonic DEF Pulled
  <1>10. \A m \in InQueue(answers) : m \in TaskRecords /\ Ready(Output(s), m)
    <2> HIDE DEF answers
    <2> QED
      BY <1>8, <1>9 DEF InQueue
  <1>11. \A t : Count(answers, t) = Count(tasks, t)
    <2> TAKE t
    <2>1. \A i \in DOMAIN tasks : answers[i] # PoisonPill /\ tasks[i] # PoisonPill
      BY <1>7, <1>8, PipelineAssumption
    <2> HIDE DEF answers
    <2>2. {i \in DOMAIN answers : answers[i] # PoisonPill /\ answers[i].flags = t}
             = {i \in DOMAIN tasks : tasks[i] # PoisonPill /\ tasks[i].flags = t}
      BY <1>8, <1>9, <2>1
    <2> QED
      BY <2>2 DEF Count
  <1>12. /\ doneDict' = [doneDict EXCEPT ![s] = known]
         /\ queue' = [queue EXCEPT ![Output(s)] = @ \o answers]
         /\ waiting' = [waiting EXCEPT ![s] = rest]
         /\ completedQ' = [completedQ EXCEPT ![s] = Tail(@)]
         /\ helper' = [helper EXCEPT ![s] = IF @ = "drain" THEN "drain" ELSE "loop"]
         /\ UNCHANGED <<main, mycache, pool, working, raised, helperQ>>
    BY <1>4 DEF GetCompletedOf, Unanswered
  <1> HIDE DEF answers, rest, known
  <1>13. /\ doneDict'[s] = known /\ \A u \in Stages \ {s} : doneDict'[u] = doneDict[u]
         /\ DOMAIN doneDict' = Stages
         /\ completedQ'[s] = Tail(completedQ[s])
         /\ \A u \in Stages \ {s} : completedQ'[u] = completedQ[u]
         /\ DOMAIN completedQ' = Stages
    BY <1>1, <1>12 DEF StageTypes
  <1>14. /\ queue'[Output(s)] = queue[Output(s)] \o answers
         /\ \A q \in (Stages \cup {"steering"}) \ {Output(s)} : queue'[q] = queue[q]
         /\ waiting'[s] = rest /\ \A u \in Stages \ {s} : waiting'[u] = waiting[u]
    <2>1. queue \in [Stages \cup {"steering"} -> Seq(Pulled)] /\ waiting \in [Stages -> Seq(TaskRecords)]
      BY <1>1 DEF StageTypes
    <2> QED
      BY <1>2, <1>12, <2>1
  <1>15. /\ queue[Output(s)] \o answers \in Seq(Pulled)
         /\ InQueue(queue[Output(s)] \o answers) = InQueue(queue[Output(s)]) \cup InQueue(answers)
         /\ \A t : Count(queue[Output(s)] \o answers, t) = Count(queue[Output(s)], t) + Count(answers, t)
    <2>1. queue[Output(s)] \o answers \in Seq(Pulled)
      BY <1>2, <1>9, ConcatProperties
    <2>2. InQueue(queue[Output(s)] \o answers) = InQueue(queue[Output(s)]) \cup InQueue(answers)
      BY <1>2, <1>9, QueueElements
    <2>3. \A t : Count(queue[Output(s)] \o answers, t) = Count(queue[Output(s)], t) + Count(answers, t)
      BY <1>2, <1>9, CountConcat
    <2> QED
      BY <2>1, <2>2, <2>3
  <1>16. \A u \in Stages : Results(u)' = Results(u)
    <2>1. ASSUME NEW u \in Stages \ {s} PROVE Results(u)' = Results(u)
      BY <1>12, <1>13 DEF Results
    <2>2. Results(s)' = Results(s)
      <3> DEFINE Pairs(d) == {<<k, d[k]>> : k \in DOMAIN d}
                 C == {<<Identifier(s, w.task), Result(s, w.task)>> :
                           w \in {v \in working[s] : v.next = "completed"}}
      <3>1. Pairs(known) = Pairs(doneDict[s]) \cup {<<key, result>>}
        <4>1. /\ DOMAIN known = DOMAIN doneDict[s] \cup {key} /\ known[key] = result
              /\ \A k \in DOMAIN doneDict[s] : k # key => known[k] = doneDict[s][k]
          BY DEF known
        <4>2. key \in DOMAIN doneDict[s] => doneDict[s][key] = result
          <5> SUFFICES ASSUME key \in DOMAIN doneDict[s] PROVE doneDict[s][key] = result
            OBVIOUS
          <5>1. <<key, doneDict[s][key]>> \in Results(s)
            BY DEF Results
          <5>2. <<key, doneDict[s][key]>> = <<key, result>>
            <6>1. \A p, r \in Results(s) : p[1] = r[1] => p = r
              BY DEF PipelineInv, KeysInv, OncePerKey
            <6> QED
              BY <1>5, <5>1, <6>1
          <5> QED
            BY <5>2
        <4>3. \A k \in DOMAIN doneDict[s] : known[k] = doneDict[s][k]
          BY <4>1, <4>2
        <4> QED
          BY <4>1, <4>3
      <3>2. /\ Results(s) = Pairs(doneDict[s]) \cup InQueue(completedQ[s]) \cup C
            /\ Results(s)' = Pairs(known) \cup InQueue(Tail(completedQ[s])) \cup C
        BY <1>12, <1>13 DEF Results
      <3> HIDE DEF Pairs, C
      <3> QED
        BY <1>5, <3>1, <3>2
    <2> QED
      BY <2>1, <2>2
  <1>17. KeysInv'
    BY <1>12, <1>16 DEF PipelineInv, KeysInv, OncePerKey, ResultKeys, AtWork
  <1>18. StageTypes'
    <2>1. queue \in [Stages \cup {"steering"} -> Seq(Pulled)] /\ waiting \in [Stages -> Seq(TaskRecords)]
      BY <1>1 DEF StageTypes
    <2>2. waiting' \in [Stages -> Seq(TaskRecords)]
      BY <1>6, <1>12, <2>1
    <2>3. queue' \in [Stages \cup {"steering"} -> Seq(Pulled)]
      BY <1>2, <1>12, <1>15, <2>1
    <2>4. helper' \in [Stages -> {"loop", "check", "drain", "ended"}]
      BY <1>1, <1>12 DEF StageTypes
    <2>5. \A u \in Stages : completedQ'[u] \in Seq(Keys \X Outcomes(u))
      BY <1>1, <1>5, <1>13 DEF StageTypes
    <2>6. \A u \in Stages : \A k \in DOMAIN doneDict'[u] : doneDict'[u][k] \in Outcomes(u)
      <3>1. \A k \in DOMAIN known : known[k] \in Outcomes(s)
        BY <1>1, <1>5 DEF known, StageTypes
      <3> QED
        BY <1>1, <1>13, <3>1 DEF StageTypes
    <2> QED
      BY <1>1, <1>12, <1>13, <2>2, <2>3, <2>4, <2>5, <2>6 DEF StageTypes
  <1>19. OnePlace'
    <2>1. OthersAlone(s)
      BY <1>12, <1>14 DEF OthersAlone
    <2>2. ASSUME NEW t \in FlagSets PROVE Local(s, t)' = Local(s, t)
      <3>1. Count(waiting[s], t) = Count(tasks, t) + Count(rest, t)
        <4>1. \A m \in InQueue(waiting[s]) :
                 m \in Waiters(s, key) <=> m \notin InQueue(waiting[s]) \ Waiters(s, key)
          OBVIOUS
        <4>2. Count(waiting[s], t) = Count(Select(waiting[s], Waiters(s, key)), t)
                     + Count(Select(waiting[s], InQueue(waiting[s]) \ Waiters(s, key)), t)
          BY <1>2, <4>1, CountSelect
        <4> QED
          BY <1>4, <4>2 DEF GetCompletedOf, rest
      <3>2. /\ Count(pool[s], t) \in Nat /\ Count(helperQ[s], t) \in Nat
            /\ Count(waiting[s], t) \in Nat /\ Busy(working[s], t) \in Nat
            /\ Count(queue[s], t) \in Nat /\ Count(queue[Output(s)], t) \in Nat
        BY <1>1, PlacesSum
      <3>3. Count(tasks, t) \in Nat /\ Count(rest, t) \in Nat
        BY <1>6, CountFinite
      <3>4. Count(queue'[Output(s)], t) = Count(queue[Output(s)], t) + Count(tasks, t)
        BY <1>11, <1>14, <1>15
      <3>5. /\ Local(s, t) = Count(pool[s], t) + Count(helperQ[s], t) + Count(waiting[s], t)
                               + Busy(working[s], t) + Count(queue[s], t) + Count(queue[Output(s)], t)
            /\ Local(s, t)' = Count(pool[s], t) + Count(helperQ[s], t) + Count(rest, t)
                               + Busy(working[s], t) + Count(queue[s], t) + Count(queue'[Output(s)], t)
        BY <1>2, <1>12, <1>14 DEF Local, Inside
      <3> QED
        BY <3>1, <3>2, <3>3, <3>4, <3>5
    <2> QED
      BY <1>1, <1>12, <1>18, <2>1, <2>2, MovesKeep DEF PipelineInv, SearchSame
  <1>20. PillInv'
    <2>1. CASE steering = "ended"
      <3>1. waiting[s] = <<>>
        BY <1>1, <2>1, Settled DEF PipelineInv
      <3>2. InQueue(tasks) = {}
        BY <1>6, <3>1 DEF InQueue
      <3>3. DOMAIN answers = {}
        BY <1>9, <3>2 DEF InQueue
      <3>4. answers = <<>>
        BY <1>9, <3>3, QueueElements DEF InQueue
      <3>5. queue[Output(s)] \o answers = queue[Output(s)]
        BY <1>2, <3>4, ConcatEmptySeq
      <3>6. \A q \in Stages \cup {"steering"} : queue'[q] = queue[q]
        BY <1>14, <3>5
      <3> QED
        BY <1>12, <2>1, <3>6 DEF PipelineInv, PillInv, SearchSame, Stages
    <2>2. CASE steering # "ended"
      <3>1. NoPill
        BY <2>2 DEF PipelineInv, PillInv
      <3>2. PoisonPill \notin InQueue(answers)
        BY <1>10, PipelineAssumption
      <3>3. NoPill'
        BY <1>12, <1>14, <1>15, <3>1, <3>2 DEF NoPill
      <3> QED
        BY <2>2, <3>3 DEF PillInv, SearchSame
    <2> QED
      BY <2>1, <2>2
  <1>21. AllReady'
    <2>1. \A u \in Stages : Results(u) \subseteq Results(u)'
      BY <1>16
    <2>2. /\ \A q \in Stages \cup {"steering"} :
                \A m \in InQueue(queue'[q]) : m # PoisonPill => Ready(q, m)
          /\ \A u \in Stages :
              /\ \A m \in InQueue(pool'[u]) : Ready(u, m)
              /\ \A m \in InQueue(helperQ'[u]) : m # PoisonPill => Ready(u, m)
              /\ \A m \in InQueue(waiting'[u]) : Ready(u, m)
              /\ \A x \in working'[u] : Ready(IF x.next = "work" THEN u ELSE Output(u), x.task)
      BY <1>6, <1>10, <1>12, <1>14, <1>15 DEF PipelineInv, AllReady
    <2> QED
      BY <2>1, <2>2, ReadyStays DEF AllReady
  <1>22. SearchTypes' /\ GenerationInv'
    BY <1>1, <1>12, GenerationSame DEF PipelineInv
  <1> QED
    BY <1>16, <1>17, <1>18, <1>19, <1>20, <1>21, <1>22 DEF PipelineInv, Types

\* What a stage step does to the invariant, and to what has been done.
LEMMA StageKeeps ==
    ASSUME PipelineInv, NEW s \in Stages,
           OfStage(MainStep(s) \/ PoolStep(s) \/ HelperStep(s))
    PROVE  /\ PipelineInv' /\ SearchSame
           /\ \/ \A u \in Stages : Results(u)' = Results(u)
              \/ \E w \in working[s] :
                    /\ w.next = "work"
                    /\ \A u \in Stages \ {s} : Results(u)' = Results(u)
                    /\ \E p : /\ Results(s)' = Results(s) \cup {p}
                              /\ p[1] = Identifier(s, w.task) /\ p[1] \notin ResultKeys(s)
  <1>1. SearchSame
    BY DEF OfStage, SearchSame
  <1>2. CASE Pull(s) \/ PullPoisonPill(s)
    BY <1>1, <1>2, PullKeeps, PullPoisonPillKeeps
  <1>3. CASE JoinPool(s) \/ JoinHelper(s)
    BY <1>1, <1>3, JoinPoolKeeps, JoinHelperKeeps
  <1>4. CASE StartWork(s)
    BY <1>1, <1>4, StartWorkKeeps
  <1>5. ASSUME NEW w \in working[s], WorkRaises(s, w) \/ PutCompleted(s, w) \/ PutResult(s, w)
        PROVE  PipelineInv' /\ \A u \in Stages : Results(u)' = Results(u)
    BY <1>1, <1>5, WorkRaisesKeeps, PutCompletedKeeps, PutResultKeeps
  <1>6. ASSUME NEW w \in working[s], Work(s, w)
        PROVE  /\ PipelineInv' /\ w.next = "work"
               /\ \A u \in Stages \ {s} : Results(u)' = Results(u)
               /\ \E p : /\ Results(s)' = Results(s) \cup {p}
                         /\ p[1] = Identifier(s, w.task) /\ p[1] \notin ResultKeys(s)
    <2>1. w.next = "work"
      BY <1>6 DEF Work
    <2> QED
      BY <1>1, <1>6, <2>1, WorkKeeps
  <1>7. CASE GetDuplicate(s) \/ GetPoisonPill(s)
    BY <1>1, <1>7, GetDuplicateKeeps, GetPoisonPillKeeps
  <1>8. CASE GetCompleted(s)
    BY <1>1, <1>8, GetCompletedKeeps
  <1>9. CASE NothingCompleted(s) \/ HelperEnds(s)
    BY <1>1, <1>9, HelperControlKeeps
  <1>10. \/ Pull(s) \/ PullPoisonPill(s) \/ JoinPool(s) \/ JoinHelper(s) \/ StartWork(s)
         \/ \E w \in working[s] : Work(s, w) \/ WorkRaises(s, w) \/ PutCompleted(s, w) \/ PutResult(s, w)
         \/ GetDuplicate(s) \/ GetPoisonPill(s)
         \/ GetCompleted(s) \/ NothingCompleted(s) \/ HelperEnds(s)
    BY DEF OfStage, MainStep, PoolStep, HelperStep
  <1> QED
    BY <1>1, <1>2, <1>3, <1>4, <1>5, <1>6, <1>7, <1>8, <1>9, <1>10

-----------------------------------------------------------------------------
(* Flag sets *)

AnyValue == UNION {Values(s) : s \in Specs}

LEMMA FlagSetsAre ==
    /\ \A f \in FlagSets : /\ DOMAIN f \subseteq Specs /\ f = [s \in DOMAIN f |-> f[s]]
                           /\ \A s \in DOMAIN f : f[s] \in Values(s)
    /\ \A f : /\ DOMAIN f \subseteq Specs /\ f = [s \in DOMAIN f |-> f[s]]
              /\ \A s \in DOMAIN f : f[s] \in Values(s)
              => f \in FlagSets
  <1>1. ASSUME NEW f \in FlagSets
        PROVE  /\ DOMAIN f \subseteq Specs /\ f = [s \in DOMAIN f |-> f[s]]
               /\ \A s \in DOMAIN f : f[s] \in Values(s)
    <2>1. PICK S \in SUBSET Specs :
              f \in {h \in [S -> UNION {Values(s) : s \in Specs}] : \A s \in S : h[s] \in Values(s)}
      BY DEF FlagSets
    <2> QED
      BY <2>1
  <1>2. ASSUME NEW f, DOMAIN f \subseteq Specs, f = [s \in DOMAIN f |-> f[s]],
               \A s \in DOMAIN f : f[s] \in Values(s)
        PROVE  f \in FlagSets
    <2>1. \A s \in DOMAIN f : f[s] \in UNION {Values(u) : u \in Specs}
      BY <1>2
    <2>2. f \in [DOMAIN f -> UNION {Values(u) : u \in Specs}]
      BY <1>2, <2>1
    <2>3. f \in {h \in [DOMAIN f -> UNION {Values(s) : s \in Specs}] : \A s \in DOMAIN f : h[s] \in Values(s)}
      BY <1>2, <2>2
    <2> QED
      BY <1>2, <2>3 DEF FlagSets
  <1> QED
    BY <1>1, <1>2

LEMMA ValuesAre ==
    ASSUME NEW s \in Specs
    PROVE  /\ Start[s] \in Nat /\ End[s] \in Nat /\ Start[s] < End[s]
           /\ s \in Booleans => Start[s] = 0 /\ End[s] = 1 /\ Values(s) = {0}
           /\ s \notin Booleans => Start[s] + 1 < End[s] /\ Values(s) = Start[s] .. End[s]
           /\ IsFiniteSet(Values(s)) /\ Values(s) \subseteq Nat
           /\ \A v \in Values(s) : Start[s] <= v
  <1>1. Start[s] \in Nat /\ End[s] \in Nat /\ Start[s] < End[s]
    BY SearchAssumption
  <1>2. CASE s \in Booleans
    <2>1. Start[s] = 0 /\ End[s] = 1 /\ Values(s) = {0}
      BY <1>2, SearchAssumption DEF Values
    <2>2. IsFiniteSet(Values(s))
      BY <2>1, FS_Singleton
    <2> QED
      BY <1>1, <1>2, <2>1, <2>2
  <1>3. CASE s \notin Booleans
    <2>1. Start[s] + 1 < End[s] /\ Values(s) = Start[s] .. End[s]
      BY <1>3, RangeAssumption DEF Values
    <2>2. Start[s] \in Int /\ End[s] \in Int
      BY <1>1
    <2>3. IsFiniteSet(Start[s] .. End[s])
      BY <2>2, FS_Interval
    <2>4. IsFiniteSet(Values(s))
      BY <2>1, <2>3
    <2>5. \A v \in Start[s] .. End[s] : v \in Nat /\ Start[s] <= v
      BY <1>1
    <2> QED
      BY <1>1, <1>3, <2>1, <2>4, <2>5
  <1> QED
    BY <1>2, <1>3

LEMMA FlagSetsFinite == IsFiniteSet(FlagSets)
  <1> DEFINE val == [s \in Specs |-> Values(s)]
             V == {Values(s) : s \in Specs}
             pairs == SUBSET (Specs \X AnyValue)
             graph == [f \in FlagSets |-> {<<s, f[s]>> : s \in DOMAIN f}]
  <1>1. val \in Surjection(Specs, V)
    BY DEF Surjection
  <1>2. IsFiniteSet(V)
    <2> HIDE DEF val, V
    <2> QED
      BY <1>1, SearchAssumption, FS_Surjection
  <1>3. IsFiniteSet(AnyValue)
    <2>1. \A T \in V : IsFiniteSet(T)
      BY ValuesAre
    <2> HIDE DEF V
    <2>2. IsFiniteSet(UNION V)
      BY <1>2, <2>1, FS_UNION
    <2> QED
      BY <2>2 DEF V, AnyValue
  <1>4. IsFiniteSet(pairs)
    <2>1. IsFiniteSet(Specs \X AnyValue)
      BY <1>3, SearchAssumption, FS_Product
    <2> QED
      BY <2>1, FS_SUBSET
  <1>5. \A f \in FlagSets : graph[f] \in pairs
    <2> TAKE f \in FlagSets
    <2>1. DOMAIN f \subseteq Specs /\ \A s \in DOMAIN f : f[s] \in AnyValue
      BY FlagSetsAre DEF AnyValue
    <2> QED
      BY <2>1
  <1>6. ASSUME NEW f \in FlagSets, NEW h \in FlagSets, graph[f] = graph[h] PROVE f = h
    <2>1. {<<s, f[s]>> : s \in DOMAIN f} = {<<s, h[s]>> : s \in DOMAIN h}
      BY <1>6
    <2>2. \A s \in DOMAIN f : s \in DOMAIN h /\ f[s] = h[s]
      <3> TAKE s \in DOMAIN f
      <3>1. <<s, f[s]>> \in {<<x, h[x]>> : x \in DOMAIN h}
        BY <2>1
      <3> QED
        BY <3>1
    <2>3. \A s \in DOMAIN h : s \in DOMAIN f
      <3> TAKE s \in DOMAIN h
      <3>1. <<s, h[s]>> \in {<<x, f[x]>> : x \in DOMAIN f}
        BY <2>1
      <3> QED
        BY <3>1
    <2>4. DOMAIN f = DOMAIN h
      BY <2>2, <2>3
    <2>5. f = [s \in DOMAIN f |-> f[s]] /\ h = [s \in DOMAIN h |-> h[s]]
      BY FlagSetsAre
    <2> QED
      BY <2>2, <2>4, <2>5
  <1>7. graph \in Injection(FlagSets, pairs)
    <2>1. graph \in [FlagSets -> pairs]
      BY <1>5
    <2> HIDE DEF graph, pairs
    <2> QED
      BY <1>6, <2>1 DEF Injection, IsInjective
  <1> HIDE DEF graph, pairs
  <1> QED
    BY <1>4, <1>7, FS_Injection

LEMMA SetInFlagSets ==
    ASSUME NEW f \in FlagSets, NEW s \in Specs, NEW v \in Values(s)
    PROVE  Set(f, s, v) \in FlagSets
  <1> DEFINE h == Set(f, s, v)
  <1>1. DOMAIN h = DOMAIN f \cup {s} /\ h = [t \in DOMAIN h |-> h[t]]
    BY DEF Set
  <1>2. \A t \in DOMAIN h : h[t] = IF t = s THEN v ELSE f[t]
    BY DEF Set
  <1>3. DOMAIN f \subseteq Specs /\ \A t \in DOMAIN f : f[t] \in Values(t)
    BY FlagSetsAre
  <1> HIDE DEF h
  <1>4. DOMAIN h \subseteq Specs /\ \A t \in DOMAIN h : h[t] \in Values(t)
    BY <1>1, <1>2, <1>3
  <1>5. h \in FlagSets
    BY <1>1, <1>4, FlagSetsAre
  <1> QED
    BY <1>5 DEF h

LEMMA DropInFlagSets ==
    ASSUME NEW f \in FlagSets, NEW s
    PROVE  Drop(f, s) \in FlagSets
  <1> DEFINE h == Drop(f, s)
  <1>1. DOMAIN h = DOMAIN f \ {s} /\ h = [t \in DOMAIN h |-> h[t]]
    BY DEF Drop
  <1>2. \A t \in DOMAIN h : h[t] = f[t]
    BY DEF Drop
  <1>3. DOMAIN f \subseteq Specs /\ \A t \in DOMAIN f : f[t] \in Values(t)
    BY FlagSetsAre
  <1> HIDE DEF h
  <1>4. DOMAIN h \subseteq Specs /\ \A t \in DOMAIN h : h[t] \in Values(t)
    BY <1>1, <1>2, <1>3
  <1>5. h \in FlagSets
    BY <1>1, <1>4, FlagSetsAre
  <1> QED
    BY <1>5 DEF h

LEMMA NeighboursInFlagSets ==
    ASSUME NEW f \in FlagSets
    PROVE  Neighbours(f) \subseteq FlagSets /\ Decreased(f) \subseteq FlagSets
  <1>1. DOMAIN f \subseteq Specs /\ \A t \in DOMAIN f : f[t] \in Values(t)
    BY FlagSetsAre
  <1>2. ASSUME NEW s \in Specs PROVE ClimbNext(f, s) \subseteq FlagSets
    <2>1. CASE s \notin DOMAIN f
      <3>1. Start[s] \in Values(s)
        BY ValuesAre
      <3>2. Set(f, s, Start[s]) \in FlagSets
        BY <3>1, SetInFlagSets
      <3> QED
        BY <2>1, <3>2 DEF ClimbNext
    <2>2. CASE s \in DOMAIN f
      <3>1. \A v \in {f[s] + 1} \cap Start[s] .. End[s] - 1 : v \in Values(s)
        BY <1>1, <2>2, ValuesAre
      <3>2. f[s] > Start[s] => f[s] - 1 \in Values(s)
        BY <1>1, <2>2, ValuesAre
      <3>3. \A v \in Values(s) : Set(f, s, v) \in FlagSets
        BY SetInFlagSets
      <3>4. Drop(f, s) \in FlagSets
        BY DropInFlagSets
      <3> QED
        BY <2>2, <3>1, <3>2, <3>3, <3>4 DEF ClimbNext
    <2> QED
      BY <2>1, <2>2
  <1>3. ASSUME NEW s \in DOMAIN f PROVE DecreaseFlag(f, s) \in FlagSets
    <2>1. s \in Specs /\ f[s] \in Values(s)
      BY <1>1
    <2>2. f[s] # Start[s] => f[s] - 1 \in Values(s)
      BY <2>1, ValuesAre
    <2>3. \A v \in Values(s) : Set(f, s, v) \in FlagSets
      BY <2>1, SetInFlagSets
    <2>4. Drop(f, s) \in FlagSets
      BY DropInFlagSets
    <2> QED
      BY <2>2, <2>3, <2>4 DEF DecreaseFlag
  <1> QED
    BY <1>2, <1>3 DEF Neighbours, Decreased

LEMMA FirstFlagSets ==
    /\ <<>> \in FlagSets /\ Decreased(<<>>) = {}
    /\ AllFlags \in FlagSets /\ DOMAIN AllFlags = Specs
    /\ \A s \in Specs : Lowered(AllFlags, s) \in FlagSets
    /\ Decreased(AllFlags) = {Lowered(AllFlags, s) : s \in Specs}
  <1>1. <<>> \in FlagSets /\ Decreased(<<>>) = {}
    <2>1. DOMAIN <<>> = {} /\ <<>> = [s \in {} |-> <<>>[s]]
      OBVIOUS
    <2> QED
      BY <2>1, FlagSetsAre DEF Decreased
  <1>2. DOMAIN AllFlags = Specs /\ AllFlags = [s \in DOMAIN AllFlags |-> AllFlags[s]]
    BY DEF AllFlags
  <1>3. \A s \in Specs : AllFlags[s] = End[s] - 1 /\ AllFlags[s] \in Values(s)
    BY ValuesAre DEF AllFlags
  <1>4. AllFlags \in FlagSets
    BY <1>2, <1>3, FlagSetsAre
  <1>5. \A s \in Specs : Lowered(AllFlags, s) = DecreaseFlag(AllFlags, s)
    <2> TAKE s \in Specs
    <2>1. s \in Booleans => AllFlags[s] = Start[s]
      BY <1>3, ValuesAre
    <2>2. s \notin Booleans => AllFlags[s] # Start[s] /\ AllFlags[s] - 1 = End[s] - 2
      BY <1>3, ValuesAre
    <2> QED
      BY <2>1, <2>2 DEF Lowered, DecreaseFlag
  <1>6. \A s \in Specs : Lowered(AllFlags, s) \in FlagSets
    BY <1>2, <1>4, <1>5, NeighboursInFlagSets DEF Decreased
  <1>7. Decreased(AllFlags) = {Lowered(AllFlags, s) : s \in Specs}
    BY <1>2, <1>5 DEF Decreased
  <1> QED
    BY <1>1, <1>2, <1>4, <1>6, <1>7

-----------------------------------------------------------------------------
(* The steering process and its queues *)

QueueSum(t) == Count(queue["build"], t) + Count(queue["test"], t) + Count(queue["steering"], t)

\* What the steering process does is seen in the queues.
LEMMA QueueMoves ==
    ASSUME StageTypes, UNCHANGED stageVars,
           queue' \in [Stages \cup {"steering"} -> Seq(Pulled)]
    PROVE  /\ StageTypes'
           /\ \A t : \E rest \in Nat : /\ Places(t) = rest + QueueSum(t)
                                       /\ Places(t)' = rest + QueueSum(t)'
  <1>1. StageTypes'
    BY DEF StageTypes, stageVars
  <1>2. "build" \in Stages /\ "test" \in Stages /\ Output("build") = "test" /\ Output("test") = "steering"
    BY DEF Stages, Output
  <1>3. ASSUME NEW t
        PROVE  \E rest \in Nat : /\ Places(t) = rest + QueueSum(t)
                                 /\ Places(t)' = rest + QueueSum(t)'
    <2>1. /\ Inside("build", t) \in Nat /\ Inside("test", t) \in Nat
          /\ Count(queue["build"], t) \in Nat /\ Count(queue["test"], t) \in Nat
          /\ Count(queue["steering"], t) \in Nat
      BY <1>2, PlacesSum
    <2>2. \A q \in Stages \cup {"steering"} : Count(queue'[q], t) \in Nat
      <3> TAKE q \in Stages \cup {"steering"}
      <3>1. queue'[q] \in Seq(Pulled)
        OBVIOUS
      <3> QED
        BY <3>1, CountFinite
    <2>3. Inside("build", t)' = Inside("build", t) /\ Inside("test", t)' = Inside("test", t)
      BY DEF Inside, stageVars
    <2>4. /\ Places(t) = Local("build", t) + Elsewhere("build", t)
          /\ Places(t)' = Local("build", t)' + Elsewhere("build", t)'
      BY <1>1, <1>2, PlacesNow, PlacesThen DEF PlacesAddUp
    <2>5. /\ Local("build", t) = Inside("build", t) + Count(queue["build"], t) + Count(queue["test"], t)
          /\ Local("build", t)' = Inside("build", t) + Count(queue'["build"], t) + Count(queue'["test"], t)
          /\ Elsewhere("build", t) = Inside("test", t) + Count(queue["steering"], t)
          /\ Elsewhere("build", t)' = Inside("test", t) + Count(queue'["steering"], t)
      BY <1>2, <2>3 DEF Local, Elsewhere
    <2>6. /\ QueueSum(t) = Count(queue["build"], t) + Count(queue["test"], t) + Count(queue["steering"], t)
          /\ QueueSum(t)' = Count(queue'["build"], t) + Count(queue'["test"], t) + Count(queue'["steering"], t)
      BY DEF QueueSum
    <2>7. /\ Count(queue'["build"], t) \in Nat /\ Count(queue'["test"], t) \in Nat
          /\ Count(queue'["steering"], t) \in Nat
      BY <1>2, <2>2
    <2>8. Places(t) = (Inside("build", t) + Inside("test", t)) + QueueSum(t)
      BY <2>1, <2>4, <2>5, <2>6
    <2>9. Places(t)' = (Inside("build", t) + Inside("test", t)) + QueueSum(t)'
      BY <2>1, <2>4, <2>5, <2>6, <2>7
    <2>10. Inside("build", t) + Inside("test", t) \in Nat
      BY <2>1
    <2> QED
      BY <2>8, <2>9, <2>10
  <1> QED
    BY <1>1, <1>3

\* The task at the head of the steering process's queue.
LEMMA Arrival ==
    ASSUME PipelineInv, Arrived, NEW m, m = Head(queue["steering"])
    PROVE  /\ steering = "wait" /\ NoPill
           /\ m \in TaskRecords /\ m.flags \in Underway
           /\ m.flags \in DOMAIN generation.pool /\ generation.pool[m.flags] = None
           /\ m.image \in Images /\ m.cost \in Costs
           /\ <<FormattedForUse(m.flags), m.image>> \in Results("build")
           /\ <<m.image, m.cost>> \in Results("test")
           /\ queue["steering"] \in Seq(Pulled) /\ queue["steering"] # <<>>
           /\ Tail(queue["steering"]) \in Seq(Pulled)
           /\ InQueue(Tail(queue["steering"])) \subseteq InQueue(queue["steering"])
  <1>1. StageTypes /\ steering = "wait" /\ queue["steering"] # <<>>
    BY DEF PipelineInv, Types, Arrived
  <1>2. NoPill
    BY <1>1 DEF PipelineInv, PillInv
  <1>3. queue["steering"] \in Seq(Pulled)
    BY <1>1 DEF StageTypes
  <1>4. /\ InQueue(queue["steering"]) = InQueue(Tail(queue["steering"])) \cup {m}
        /\ Tail(queue["steering"]) \in Seq(Pulled) /\ m \in Pulled
    BY <1>1, <1>3, QueueElements
  <1>5. m \in TaskRecords
    BY <1>2, <1>4 DEF NoPill, Pulled
  <1>6. m.flags \in Underway
    <2>1. "test" \in Stages /\ Output("test") = "steering"
      BY DEF Stages, Output
    <2>2. m \in InQueue(queue[Output("test")])
      BY <1>4, <2>1
    <2> QED
      BY <1>1, <1>5, <2>1, <2>2, SomewhereUnderway DEF PipelineInv
  <1>7. m.flags \in DOMAIN generation.pool /\ generation.pool[m.flags] = None
    BY <1>6 DEF PipelineInv, GenerationInv, Underway
  <1>8. Ready("steering", m)
    BY <1>4, <1>5, TaskFacts DEF PipelineInv, AllReady
  <1>9. /\ m.image \in Images /\ m.cost \in Costs
        /\ <<FormattedForUse(m.flags), m.image>> \in Results("build")
        /\ <<m.image, m.cost>> \in Results("test")
    BY <1>8 DEF Ready
  <1> QED
    BY <1>1, <1>2, <1>3, <1>4, <1>5, <1>6, <1>7, <1>9

\* UpdateTask.
LEMMA WithResultIs ==
    ASSUME SearchTypes, NEW m \in TaskRecords, m.cost \in Costs,
           generation.pending = Cardinality(Unanswered1(generation)),
           m.flags \in DOMAIN generation.pool, generation.pool[m.flags] = None,
           NEW g, g = WithResult(m)
    PROVE  /\ g \in [alg : Algorithms, pool : Costings, parents : Costings, stuck : Nat, pending : Nat]
           /\ g.alg = generation.alg /\ g.parents = generation.parents /\ g.stuck = generation.stuck
           /\ DOMAIN g.pool = DOMAIN generation.pool
           /\ \A t \in DOMAIN g.pool :
                 g.pool[t] = IF t = m.flags THEN m.cost ELSE generation.pool[t]
           /\ Unanswered1(g) = Unanswered1(generation) \ {m.flags}
           /\ g.pending = Cardinality(Unanswered1(g))
           /\ Done(g) <=> Unanswered1(g) = {}
  <1>1. /\ generation \in [alg : Algorithms, pool : Costings, parents : Costings,
                           stuck : Nat, pending : Nat]
        /\ IsFiniteSet(DOMAIN generation.pool)
    BY DEF SearchTypes
  <1> DEFINE p == [generation.pool EXCEPT ![m.flags] = m.cost]
  <1>2. g = [generation EXCEPT !.pool = p, !.pending = @ - 1]
    BY DEF WithResult, Updated
  <1>3. PICK D \in SUBSET FlagSets : generation.pool \in [D -> Costs \cup {None}]
    BY <1>1 DEF Costings
  <1>4. p \in [D -> Costs \cup {None}] /\ \A t \in D : p[t] = IF t = m.flags THEN m.cost ELSE generation.pool[t]
    BY <1>3
  <1>5. p \in Costings
    BY <1>4 DEF Costings
  <1>6. g.pool = p /\ g.pending = generation.pending - 1
    BY <1>1, <1>2
  <1>7. /\ DOMAIN g.pool = DOMAIN generation.pool
        /\ \A t \in DOMAIN g.pool : g.pool[t] = IF t = m.flags THEN m.cost ELSE generation.pool[t]
    BY <1>3, <1>4, <1>6
  <1>8. Unanswered1(g) = Unanswered1(generation) \ {m.flags}
    BY <1>7, SearchAssumption DEF Unanswered1
  <1>9. IsFiniteSet(Unanswered1(generation)) /\ m.flags \in Unanswered1(generation)
    BY <1>1, FS_Subset DEF Unanswered1
  <1>10. /\ IsFiniteSet(Unanswered1(g))
         /\ Cardinality(Unanswered1(g)) = Cardinality(Unanswered1(generation)) - 1
    <2>1. \A U : IsFiniteSet(U) /\ m.flags \in U =>
             IsFiniteSet(U \ {m.flags}) /\ Cardinality(U \ {m.flags}) = Cardinality(U) - 1
      BY FS_RemoveElement
    <2> QED
      BY <1>8, <1>9, <2>1
  <1>11. Cardinality(Unanswered1(g)) \in Nat /\ (Cardinality(Unanswered1(g)) = 0 <=> Unanswered1(g) = {})
    BY <1>10, FS_CardinalityType, FS_EmptySet
  <1>12. g.pending = Cardinality(Unanswered1(g)) /\ g.pending \in Nat
    BY <1>6, <1>10, <1>11
  <1>13. g \in [alg : Algorithms, pool : Costings, parents : Costings, stuck : Nat, pending : Nat]
    <2> HIDE DEF p
    <2>1. g = [alg |-> generation.alg, pool |-> p, parents |-> generation.parents,
               stuck |-> generation.stuck, pending |-> generation.pending - 1]
      BY <1>1, <1>2
    <2> QED
      BY <1>1, <1>5, <1>6, <1>12, <2>1
  <1>14. g.alg = generation.alg /\ g.parents = generation.parents /\ g.stuck = generation.stuck
    BY <1>1, <1>2
  <1> QED
    BY <1>7, <1>8, <1>11, <1>12, <1>13, <1>14 DEF Done

\* What a step that logs a result does to the stages.
LEMMA AnswerKeeps ==
    ASSUME PipelineInv, Arrived, NEW m, m = Head(queue["steering"]), Logged(m),
           UNCHANGED <<stageVars, cache>>,
           queue' \in [Stages \cup {"steering"} -> Seq(Pulled)],
           queue'["steering"] = Tail(queue["steering"]), queue'["test"] = queue["test"],
           queue'["build"] = queue["build"] \/ queue'["build"] = Append(queue["build"], PoisonPill)
    PROVE  /\ StageTypes' /\ OnePlace' /\ AllReady' /\ KeysInv'
           /\ \A u \in Stages : Results(u)' = Results(u)
           /\ DOMAIN log' \subseteq cache' /\ log' \in [DOMAIN log' -> [image : Images, cost : Costs]]
           /\ DOMAIN log' = DOMAIN log \cup {m.flags}
           /\ \A t \in DOMAIN log' : log'[t] = IF t = m.flags THEN [image |-> m.image, cost |-> m.cost] ELSE log[t]
  <1>1. StageTypes /\ SearchTypes
    BY DEF PipelineInv, Types
  <1>2. /\ steering = "wait" /\ NoPill
        /\ m \in TaskRecords /\ m.flags \in Underway
        /\ m.image \in Images /\ m.cost \in Costs
        /\ queue["steering"] \in Seq(Pulled) /\ queue["steering"] # <<>>
        /\ Tail(queue["steering"]) \in Seq(Pulled)
        /\ InQueue(Tail(queue["steering"])) \subseteq InQueue(queue["steering"])
    BY Arrival
  <1>3. StageTypes'
    BY <1>1, QueueMoves
  <1>4. KeysInv' /\ \A u \in Stages : Results(u)' = Results(u)
    BY KeysSame DEF PipelineInv, stageVars
  <1>5. queue["build"] \in Seq(Pulled)
    BY <1>1 DEF StageTypes, Stages
  <1>6. /\ \A t : Count(queue'["build"], t) = Count(queue["build"], t)
        /\ InQueue(queue'["build"]) \subseteq InQueue(queue["build"]) \cup {PoisonPill}
    <2>1. /\ \A t : Count(Append(queue["build"], PoisonPill), t) = Count(queue["build"], t)
          /\ InQueue(Append(queue["build"], PoisonPill)) = InQueue(queue["build"]) \cup {PoisonPill}
      BY <1>5, PillMoves
    <2>2. CASE queue'["build"] = queue["build"]
      BY <2>2
    <2>3. CASE queue'["build"] = Append(queue["build"], PoisonPill)
      BY <2>1, <2>3
    <2> QED
      BY <2>2, <2>3
  <1>7. /\ DOMAIN log' = DOMAIN log \cup {m.flags}
        /\ \A t \in DOMAIN log' : log'[t] = IF t = m.flags THEN [image |-> m.image, cost |-> m.cost] ELSE log[t]
        /\ log' = [t \in DOMAIN log' |-> log'[t]]
    BY DEF Logged
  <1>8. DOMAIN log' \subseteq cache'
    BY <1>1, <1>2, <1>7 DEF SearchTypes, Underway
  <1>9. log' \in [DOMAIN log' -> [image : Images, cost : Costs]]
    BY <1>1, <1>2, <1>7 DEF SearchTypes
  <1>10. Raised' = Raised /\ Underway' = Underway \ {m.flags}
    BY <1>7 DEF Underway, Raised, stageVars
  <1>11. ASSUME NEW t \in FlagSets PROVE Places(t)' = IF t \in Underway' THEN 1 ELSE 0
    <2>1. PICK rest \in Nat : Places(t) = rest + QueueSum(t) /\ Places(t)' = rest + QueueSum(t)'
      BY <1>1, QueueMoves
    <2>2. /\ Count(queue["steering"], t) = Weight(m, t) + Count(Tail(queue["steering"]), t)
          /\ Count(Tail(queue["steering"]), t) \in Nat
      BY <1>2, CountTail, CountFinite
    <2>3. Count(queue["build"], t) \in Nat /\ Count(queue["test"], t) \in Nat
      <3>1. queue["test"] \in Seq(Pulled)
        BY <1>1 DEF StageTypes, Stages
      <3> QED
        BY <1>5, <3>1, CountFinite
    <2>4. Weight(m, t) = IF m.flags = t THEN 1 ELSE 0
      BY <1>2, TaskFacts
    <2>5. Weight(m, t) \in Nat
      BY <2>4
    <2>6. /\ QueueSum(t) = Count(queue["build"], t) + Count(queue["test"], t) + Count(queue["steering"], t)
          /\ QueueSum(t)' = Count(queue["build"], t) + Count(queue["test"], t) + Count(Tail(queue["steering"]), t)
      BY <1>6 DEF QueueSum
    <2>7. Places(t) = Places(t)' + Weight(m, t) /\ Places(t)' \in Nat
      BY <2>1, <2>2, <2>3, <2>5, <2>6
    <2>8. Places(t) = IF t \in Underway THEN 1 ELSE 0
      BY DEF PipelineInv, OnePlace
    <2> QED
      BY <1>2, <1>10, <2>4, <2>7, <2>8
  <1>12. OnePlace'
    BY <1>11 DEF OnePlace
  <1>13. AllReady'
    <2>1. \A u \in Stages : Results(u) \subseteq Results(u)'
      BY <1>4
    <2>2. \A q \in Stages \cup {"steering"} : InQueue(queue'[q]) \subseteq InQueue(queue[q]) \cup {PoisonPill}
      BY <1>2, <1>6 DEF Stages
    <2>3. \A q \in Stages \cup {"steering"} :
              \A x \in InQueue(queue'[q]) : x # PoisonPill => Ready(q, x)'
      BY <2>1, <2>2, ReadyStays DEF PipelineInv, AllReady
    <2>4. \A u \in Stages :
              /\ \A x \in InQueue(pool[u]) : Ready(u, x)'
              /\ \A x \in InQueue(helperQ[u]) : x # PoisonPill => Ready(u, x)'
              /\ \A x \in InQueue(waiting[u]) : Ready(u, x)'
              /\ \A w \in working[u] : Ready(IF w.next = "work" THEN u ELSE Output(u), w.task)'
      BY <2>1, ReadyStays DEF PipelineInv, AllReady
    <2> QED
      BY <2>3, <2>4 DEF AllReady, stageVars
  <1> QED
    BY <1>3, <1>4, <1>7, <1>8, <1>9, <1>12, <1>13

\* A task that is sent was nowhere before.
LEMMA SendKeeps ==
    ASSUME PipelineInv, Send
    PROVE  PipelineInv' /\ \A u \in Stages : Results(u)' = Results(u)
  <1>1. StageTypes /\ SearchTypes /\ GenerationInv
    BY DEF PipelineInv, Types
  <1>2. PICK t \in toSend :
           /\ Put("build", [flags |-> t, image |-> None, cost |-> None])
           /\ cache' = cache \cup {t} /\ toSend' = toSend \ {t}
           /\ steering' = IF toSend' = {} THEN "wait" ELSE "send"
    BY DEF Send
  <1>3. steering = "send" /\ UNCHANGED <<stageVars, generation, log>>
    BY DEF Send
  <1> DEFINE m == [flags |-> t, image |-> None, cost |-> None]
  <1>4. t \in FlagSets /\ m \in TaskRecords /\ m.flags = t /\ m.image = None /\ m.cost = None
    BY <1>1 DEF SearchTypes, TaskRecords
  <1>5. queue' = [queue EXCEPT !["build"] = Append(@, m)]
    BY <1>2 DEF Put
  <1> HIDE DEF m
  <1>6. m \in Pulled /\ m # PoisonPill
    BY <1>4, TaskFacts
  <1>7. queue \in [Stages \cup {"steering"} -> Seq(Pulled)] /\ queue["build"] \in Seq(Pulled)
        /\ queue["test"] \in Seq(Pulled) /\ queue["steering"] \in Seq(Pulled)
    BY <1>1 DEF StageTypes, Stages
  <1>8. /\ queue'["build"] = Append(queue["build"], m)
        /\ \A q \in (Stages \cup {"steering"}) \ {"build"} : queue'[q] = queue[q]
    BY <1>5, <1>7 DEF Stages
  <1>9. queue' \in [Stages \cup {"steering"} -> Seq(Pulled)]
    <2>1. Append(queue["build"], m) \in Seq(Pulled)
      BY <1>6, <1>7
    <2> QED
      BY <1>5, <1>7, <2>1
  <1>10. InQueue(queue'["build"]) = InQueue(queue["build"]) \cup {m}
    BY <1>6, <1>7, <1>8, QueueElements
  <1>11. StageTypes'
    BY <1>1, <1>3, <1>9, QueueMoves
  <1>12. KeysInv' /\ \A u \in Stages : Results(u)' = Results(u)
    BY <1>3, KeysSame DEF PipelineInv, stageVars
  <1>13. t \notin cache /\ t \notin DOMAIN log /\ t \notin Raised
    BY <1>1 DEF GenerationInv, SearchTypes
  <1>14. Raised' = Raised /\ Underway' = Underway \cup {t}
    BY <1>2, <1>3, <1>13 DEF Underway, Raised, stageVars
  <1>15. ASSUME NEW u \in FlagSets PROVE Places(u)' = IF u \in Underway' THEN 1 ELSE 0
    <2>1. PICK rest \in Nat : Places(u) = rest + QueueSum(u) /\ Places(u)' = rest + QueueSum(u)'
      BY <1>1, <1>3, <1>9, QueueMoves
    <2>2. /\ Count(queue'["build"], u) = Count(queue["build"], u) + Weight(m, u)
          /\ Count(queue["build"], u) \in Nat
          /\ Count(queue["test"], u) \in Nat /\ Count(queue["steering"], u) \in Nat
      <3>1. Count(Append(queue["build"], m), u) = Count(queue["build"], u) + Weight(m, u)
        BY <1>6, <1>7, CountAppend
      <3>2. \A q \in Seq(Pulled) : Count(q, u) \in Nat
        BY CountFinite
      <3> QED
        BY <1>7, <1>8, <3>1, <3>2
    <2>3. Weight(m, u) = IF t = u THEN 1 ELSE 0
      BY <1>4, TaskFacts
    <2>4. Weight(m, u) \in Nat
      BY <2>3
    <2>5. /\ QueueSum(u) = Count(queue["build"], u) + Count(queue["test"], u) + Count(queue["steering"], u)
          /\ QueueSum(u)' = Count(queue'["build"], u) + Count(queue["test"], u) + Count(queue["steering"], u)
      BY <1>8 DEF QueueSum, Stages
    <2>6. Places(u)' = Places(u) + Weight(m, u)
      BY <2>1, <2>2, <2>4, <2>5
    <2>7. Places(u) = IF u \in Underway THEN 1 ELSE 0
      BY DEF PipelineInv, OnePlace
    <2>8. t \notin Underway
      BY <1>13 DEF Underway
    <2> QED
      BY <1>14, <2>3, <2>6, <2>7, <2>8
  <1>16. OnePlace'
    BY <1>15 DEF OnePlace
  <1>17. AllReady'
    <2>1. \A u \in Stages : Results(u) \subseteq Results(u)'
      BY <1>12
    <2>2. Ready("build", m)
      BY <1>4 DEF Ready
    <2>3. \A q \in Stages \cup {"steering"} :
              \A x \in InQueue(queue'[q]) : x # PoisonPill => Ready(q, x)
      BY <1>8, <1>10, <2>2 DEF PipelineInv, AllReady
    <2>4. \A q \in Stages \cup {"steering"} :
              \A x \in InQueue(queue'[q]) : x # PoisonPill => Ready(q, x)'
      BY <2>1, <2>3, ReadyStays
    <2>5. \A u \in Stages :
              /\ \A x \in InQueue(pool[u]) : Ready(u, x)'
              /\ \A x \in InQueue(helperQ[u]) : x # PoisonPill => Ready(u, x)'
              /\ \A x \in InQueue(waiting[u]) : Ready(u, x)'
              /\ \A w \in working[u] : Ready(IF w.next = "work" THEN u ELSE Output(u), w.task)'
      BY <2>1, ReadyStays DEF PipelineInv, AllReady
    <2> QED
      BY <1>3, <2>4, <2>5 DEF AllReady, stageVars
  <1>18. PillInv'
    <2>1. NoPill
      BY <1>3 DEF PipelineInv, PillInv
    <2>2. NoPill'
      BY <1>3, <1>6, <1>8, <1>10, <2>1 DEF NoPill, stageVars
    <2>3. steering' # "ended"
      BY <1>2
    <2> QED
      BY <2>2, <2>3 DEF PillInv
  <1>19. SearchTypes'
    BY <1>1, <1>2, <1>3, <1>4 DEF SearchTypes
  <1>20. GenerationInv'
    <2>1. Unanswered1(generation') = Unanswered1(generation) /\ Unanswered1(generation)' = Unanswered1(generation)
      BY <1>3 DEF Unanswered1
    <2> QED
      BY <1>1, <1>2, <1>3, <1>13, <1>14, <2>1 DEF GenerationInv
  <1> QED
    BY <1>11, <1>12, <1>16, <1>17, <1>18, <1>19, <1>20 DEF PipelineInv, Types

LEMMA ReceiveKeeps ==
    ASSUME PipelineInv, Receive
    PROVE  PipelineInv' /\ \A u \in Stages : Results(u)' = Results(u)
  <1> DEFINE m == Head(queue["steering"])
  <1>1. StageTypes /\ SearchTypes /\ GenerationInv
    BY DEF PipelineInv, Types
  <1>2. /\ Arrived /\ ~Done(WithResult(m)) /\ generation' = WithResult(m) /\ Logged(m)
        /\ queue' = [queue EXCEPT !["steering"] = Tail(@)]
        /\ UNCHANGED <<stageVars, steering, toSend, cache>>
    BY DEF Receive
  <1>3. /\ steering = "wait" /\ NoPill
        /\ m \in TaskRecords /\ m.flags \in Underway
        /\ m.flags \in DOMAIN generation.pool /\ generation.pool[m.flags] = None
        /\ m.cost \in Costs
        /\ Tail(queue["steering"]) \in Seq(Pulled)
        /\ InQueue(Tail(queue["steering"])) \subseteq InQueue(queue["steering"])
    BY <1>2, Arrival
  <1> HIDE DEF m
  <1>4. queue \in [Stages \cup {"steering"} -> Seq(Pulled)]
    BY <1>1 DEF StageTypes
  <1>5. /\ queue' \in [Stages \cup {"steering"} -> Seq(Pulled)]
        /\ queue'["steering"] = Tail(queue["steering"])
        /\ \A q \in Stages : queue'[q] = queue[q]
    BY <1>2, <1>3, <1>4 DEF Stages
  <1>6. /\ StageTypes' /\ OnePlace' /\ AllReady' /\ KeysInv'
        /\ \A u \in Stages : Results(u)' = Results(u)
        /\ DOMAIN log' \subseteq cache' /\ log' \in [DOMAIN log' -> [image : Images, cost : Costs]]
        /\ DOMAIN log' = DOMAIN log \cup {m.flags}
        /\ \A t \in DOMAIN log' : log'[t] = IF t = m.flags THEN [image |-> m.image, cost |-> m.cost] ELSE log[t]
    <2>1. queue'["test"] = queue["test"] /\ queue'["build"] = queue["build"]
      BY <1>5 DEF Stages
    <2> QED
      BY <1>2, <1>5, <2>1, AnswerKeeps DEF m
  <1>7. /\ generation' \in [alg : Algorithms, pool : Costings, parents : Costings, stuck : Nat, pending : Nat]
        /\ DOMAIN generation'.pool = DOMAIN generation.pool
        /\ \A t \in DOMAIN generation'.pool :
              generation'.pool[t] = IF t = m.flags THEN m.cost ELSE generation.pool[t]
        /\ generation'.pending = Cardinality(Unanswered1(generation'))
    BY <1>1, <1>2, <1>3, WithResultIs DEF GenerationInv
  <1>8. SearchTypes'
    BY <1>1, <1>2, <1>6, <1>7 DEF SearchTypes
  <1>9. GenerationInv'
    <2>1. Unanswered1(generation)' = Unanswered1(generation')
      BY DEF Unanswered1
    <2>2. \A t \in DOMAIN generation'.pool :
             IF t \in DOMAIN log' THEN generation'.pool[t] = log'[t].cost
             ELSE generation'.pool[t] = None
      BY <1>1, <1>6, <1>7 DEF GenerationInv
    <2>3. Raised' \subseteq cache' \ DOMAIN log'
      BY <1>1, <1>2, <1>3, <1>6 DEF GenerationInv, Raised, Underway, stageVars
    <2>4. cache' \subseteq DOMAIN generation'.pool \cup DOMAIN log'
      BY <1>1, <1>2, <1>6, <1>7 DEF GenerationInv
    <2> QED
      BY <1>1, <1>2, <1>3, <1>7, <2>1, <2>2, <2>3, <2>4 DEF GenerationInv
  <1>10. PillInv'
    <2>1. NoPill'
      BY <1>2, <1>3, <1>5 DEF NoPill, stageVars
    <2> QED
      BY <1>2, <1>3, <2>1 DEF PillInv
  <1> QED
    BY <1>6, <1>8, <1>9, <1>10 DEF PipelineInv, Types

-----------------------------------------------------------------------------
(* The next generation *)

Generations == [alg : Algorithms, pool : Costings, parents : Costings, stuck : Nat, pending : Nat]

LEMMA GenerationIs ==
    ASSUME NEW alg, NEW T, NEW P, NEW k, NEW g, g = Generation(alg, T, P, k),
           alg \in Algorithms, T \subseteq FlagSets, P \in Costings, k \in Nat
    PROVE  /\ g \in Generations /\ g.alg = alg /\ g.parents = P /\ g.stuck = k
           /\ DOMAIN g.pool = T /\ IsFiniteSet(T) /\ \A t \in T : g.pool[t] = None
           /\ Unanswered1(g) = T /\ g.pending = Cardinality(Unanswered1(g))
  <1>1. IsFiniteSet(T) /\ Cardinality(T) \in Nat
    BY FlagSetsFinite, FS_Subset, FS_CardinalityType
  <1> DEFINE p == [t \in T |-> None]
  <1>2. p \in [T -> Costs \cup {None}]
    OBVIOUS
  <1>3. p \in Costings
    BY <1>2 DEF Costings
  <1>4. g = [alg |-> alg, pool |-> p, parents |-> P, stuck |-> k, pending |-> Cardinality(T)]
    BY DEF Generation
  <1>5. DOMAIN p = T /\ \A t \in T : p[t] = None
    OBVIOUS
  <1> HIDE DEF p
  <1>6. g \in Generations /\ g.alg = alg /\ g.parents = P /\ g.stuck = k /\ g.pool = p /\ g.pending = Cardinality(T)
    BY <1>1, <1>3, <1>4 DEF Generations
  <1>7. Unanswered1(g) = T
    BY <1>5, <1>6 DEF Unanswered1
  <1> QED
    BY <1>1, <1>5, <1>6, <1>7

LEMMA ChildrenInFlagSets ==
    ASSUME NEW R
    PROVE  Children(R) \subseteq FlagSets
  <1>1. \A f : Mutated(f) \subseteq FlagSets
    BY DEF Mutated
  <1> DEFINE X == R \cup UNION {Crossed(f, m) : f \in R, m \in R}
  <1>2. Children(R) = UNION {Mutated(c) : c \in X}
    BY DEF Children
  <1> HIDE DEF X
  <1> QED
    BY <1>1, <1>2

\* The tasks T and the parents P of what a search algorithm makes of g.
Follows(g, c, T, P) ==
    /\ T \cap c = {}
    /\ \/ /\ g.alg # "genetic"
          /\ \E b \in Best(g.pool) : P = Only(g.pool, b) /\ T = Nearby(g.alg, b) \ c
       \/ /\ g.alg = "genetic"
          /\ \E R \in Retained(g) : P = [t \in R |-> Family(g)[t]]

LEMMA NextAre ==
    ASSUME NEW g \in Generations, NEW c, NEW h \in NextGenerations(g, c)
    PROVE  /\ IsImproved(g)
           /\ \E T \in SUBSET FlagSets, P \in Costings, k \in Nat :
                 h = Generation(g.alg, T, P, k) /\ Follows(g, c, T, P)
  <1>1. /\ IsImproved(g) /\ g.alg \in Algorithms
        /\ g.pool \in Costings /\ g.parents \in Costings /\ g.stuck \in Nat
    BY DEF NextGenerations, Generations
  <1>2. \A f \in Costings : DOMAIN f \subseteq FlagSets /\ \A t \in DOMAIN f : f[t] \in Costs \cup {None}
    BY DEF Costings
  <1>3. ASSUME NEW b \in Best(g.pool)
        PROVE  b \in FlagSets /\ Only(g.pool, b) \in Costings
    <2>1. b \in DOMAIN g.pool
      BY DEF Best
    <2>2. b \in FlagSets /\ g.pool[b] \in Costs \cup {None}
      BY <1>1, <1>2, <2>1
    <2>3. Only(g.pool, b) \in [{b} -> Costs \cup {None}]
      BY <2>2 DEF Only
    <2> QED
      BY <2>2, <2>3 DEF Costings
  <1>4. CASE g.alg = "hill"
    <2>1. PICK b \in Best(g.pool) :
              h = Generation("hill", Neighbours(b) \ c, Only(g.pool, b), 0)
      BY <1>1, <1>4 DEF NextGenerations, HillNext
    <2>2. Neighbours(b) \ c \in SUBSET FlagSets
      BY <1>3, NeighboursInFlagSets
    <2>3. (Neighbours(b) \ c) \cap c = {} /\ 0 \in Nat
      OBVIOUS
    <2> QED
      BY <1>1, <1>3, <1>4, <2>1, <2>2, <2>3 DEF Follows, Nearby
  <1>5. CASE g.alg = "elimination"
    <2>1. PICK b \in Best(g.pool) :
              h = Generation("elimination", Decreased(b) \ c, Only(g.pool, b), 0)
      BY <1>1, <1>5 DEF NextGenerations, EliminationNext
    <2>2. Decreased(b) \ c \in SUBSET FlagSets
      BY <1>3, NeighboursInFlagSets
    <2>3. (Decreased(b) \ c) \cap c = {} /\ 0 \in Nat
      OBVIOUS
    <2> QED
      BY <1>1, <1>3, <1>5, <2>1, <2>2, <2>3 DEF Follows, Nearby
  <1>6. CASE g.alg = "genetic"
    <2>1. h \in GeneticNext(g, c)
      BY <1>1, <1>6 DEF NextGenerations
    <2>2. PICK R \in Retained(g) : \E C \in SUBSET (Children(R) \ c) :
              h = Generation("genetic", C, [t \in R |-> Family(g)[t]], Stuck(g))
      BY <2>1 DEF GeneticNext
    <2>7. PICK C \in SUBSET (Children(R) \ c) :
              h = Generation("genetic", C, [t \in R |-> Family(g)[t]], Stuck(g))
      BY <2>2
    <2>3. Children(R) \subseteq FlagSets
      BY ChildrenInFlagSets
    <2>4. Stuck(g) \in Nat
      BY <1>1 DEF Stuck
    <2>5. [t \in R |-> Family(g)[t]] \in Costings
      <3>1. R \subseteq DOMAIN Family(g) /\ DOMAIN Family(g) = DOMAIN g.pool \cup DOMAIN g.parents
        BY DEF Retained, Family
      <3>2. \A t \in DOMAIN Family(g) : t \in FlagSets /\ Family(g)[t] \in Costs \cup {None}
        BY <1>1, <1>2 DEF Family
      <3>3. R \in SUBSET FlagSets /\ [t \in R |-> Family(g)[t]] \in [R -> Costs \cup {None}]
        BY <3>1, <3>2
      <3> QED
        BY <3>3 DEF Costings
    <2>6. C \in SUBSET FlagSets /\ C \cap c = {}
      BY <2>3
    <2> QED
      BY <1>1, <1>6, <2>4, <2>5, <2>6, <2>7 DEF Follows
  <1> QED
    BY <1>1, <1>4, <1>5, <1>6 DEF Algorithms

\* The last result of a generation: all that has been sent is answered.
LEMMA LastAnswer ==
    ASSUME PipelineInv, Arrived, NEW m, m = Head(queue["steering"]), Logged(m),
           Done(WithResult(m)), UNCHANGED <<stageVars, cache>>, NEW g, g = WithResult(m)
    PROVE  /\ g \in Generations /\ g.alg = generation.alg /\ g.parents = generation.parents
           /\ DOMAIN g.pool = DOMAIN generation.pool /\ IsFiniteSet(DOMAIN g.pool)
           /\ m.flags \in DOMAIN g.pool /\ Unanswered1(g) = {}
           /\ cache = DOMAIN log' /\ DOMAIN g.pool \subseteq DOMAIN log'
           /\ \A t \in DOMAIN g.pool : g.pool[t] = log'[t].cost
           /\ g.pending = Cardinality(Unanswered1(g))
           /\ Raised' = {} /\ toSend = {}
  <1>1. StageTypes /\ SearchTypes /\ GenerationInv
    BY DEF PipelineInv, Types
  <1>2. /\ steering = "wait" /\ m \in TaskRecords /\ m.flags \in Underway
        /\ m.flags \in DOMAIN generation.pool /\ generation.pool[m.flags] = None
        /\ m.cost \in Costs
    BY Arrival
  <1>3. /\ g \in Generations /\ g.alg = generation.alg /\ g.parents = generation.parents
        /\ DOMAIN g.pool = DOMAIN generation.pool
        /\ \A t \in DOMAIN g.pool : g.pool[t] = IF t = m.flags THEN m.cost ELSE generation.pool[t]
        /\ Unanswered1(g) = {} /\ g.pending = Cardinality(Unanswered1(g))
    BY <1>1, <1>2, WithResultIs DEF GenerationInv, Generations
  <1>4. /\ DOMAIN log' = DOMAIN log \cup {m.flags}
        /\ \A t \in DOMAIN log' : log'[t] = IF t = m.flags THEN [image |-> m.image, cost |-> m.cost] ELSE log[t]
    BY DEF Logged
  <1>5. toSend = {} /\ DOMAIN generation.pool \subseteq cache
    BY <1>1, <1>2 DEF GenerationInv
  <1>6. \A t \in DOMAIN g.pool : t = m.flags \/ t \in DOMAIN log
    BY <1>1, <1>3 DEF GenerationInv, Unanswered1
  <1>7. \A t \in DOMAIN g.pool : t \in DOMAIN log' /\ g.pool[t] = log'[t].cost
    BY <1>1, <1>3, <1>4, <1>6 DEF GenerationInv
  <1>8. cache = DOMAIN log'
    BY <1>1, <1>2, <1>3, <1>4, <1>6 DEF GenerationInv, SearchTypes, Underway
  <1>9. Raised' = {}
    BY <1>1, <1>2, <1>4, <1>8 DEF GenerationInv, Raised, Underway, stageVars
  <1>10. IsFiniteSet(DOMAIN g.pool)
    BY <1>1, <1>3 DEF SearchTypes
  <1> QED
    BY <1>2, <1>3, <1>5, <1>7, <1>8, <1>9, <1>10

LEMMA NextGenerationKeeps ==
    ASSUME PipelineInv, NextGeneration
    PROVE  PipelineInv' /\ \A u \in Stages : Results(u)' = Results(u)
  <1> DEFINE m == Head(queue["steering"])
             g == WithResult(m)
  <1>1. StageTypes /\ SearchTypes /\ GenerationInv
    BY DEF PipelineInv, Types
  <1>2. /\ Arrived /\ Done(g) /\ Logged(m)
        /\ queue' = [queue EXCEPT !["steering"] = Tail(@)]
        /\ UNCHANGED <<stageVars, cache>>
    BY DEF NextGeneration
  <1>3. /\ generation' \in NextGenerations(g, cache)
        /\ toSend' = DOMAIN generation'.pool
        /\ steering' = IF toSend' = {} THEN "raised" ELSE "send"
    BY DEF NextGeneration
  <1> HIDE DEF m
  <1>4. /\ g \in Generations /\ cache = DOMAIN log' /\ Raised' = {}
    BY <1>2, LastAnswer DEF m
  <1> HIDE DEF g
  <1>5. PICK T \in SUBSET FlagSets, P \in Costings, k \in Nat :
            T \cap cache = {} /\ generation' = Generation(g.alg, T, P, k)
    BY <1>3, <1>4, NextAre DEF Follows
  <1>6. /\ generation' \in Generations /\ DOMAIN generation'.pool = T /\ IsFiniteSet(T)
        /\ \A t \in T : generation'.pool[t] = None
        /\ Unanswered1(generation') = T /\ generation'.pending = Cardinality(Unanswered1(generation'))
    <2>1. g.alg \in Algorithms
      BY <1>4 DEF Generations
    <2>2. ASSUME NEW h, h = Generation(g.alg, T, P, k)
          PROVE  /\ h \in Generations /\ DOMAIN h.pool = T /\ IsFiniteSet(T)
                 /\ \A t \in T : h.pool[t] = None
                 /\ Unanswered1(h) = T /\ h.pending = Cardinality(Unanswered1(h))
      BY <2>1, <2>2, GenerationIs
    <2> QED
      BY <1>5, <2>2
  <1>7. /\ NoPill /\ Tail(queue["steering"]) \in Seq(Pulled)
        /\ InQueue(Tail(queue["steering"])) \subseteq InQueue(queue["steering"])
    BY <1>2, Arrival
  <1>8. queue \in [Stages \cup {"steering"} -> Seq(Pulled)]
    BY <1>1 DEF StageTypes
  <1>9. /\ queue' \in [Stages \cup {"steering"} -> Seq(Pulled)]
        /\ queue'["steering"] = Tail(queue["steering"])
        /\ \A q \in Stages : queue'[q] = queue[q]
    BY <1>2, <1>7, <1>8 DEF Stages
  <1>10. /\ StageTypes' /\ OnePlace' /\ AllReady' /\ KeysInv'
         /\ \A u \in Stages : Results(u)' = Results(u)
         /\ DOMAIN log' \subseteq cache' /\ log' \in [DOMAIN log' -> [image : Images, cost : Costs]]
    <2>1. queue'["test"] = queue["test"] /\ queue'["build"] = queue["build"]
      BY <1>9 DEF Stages
    <2> QED
      BY <1>2, <1>9, <2>1, AnswerKeeps DEF m
  <1>11. SearchTypes'
    <2>1. toSend' \subseteq FlagSets /\ steering' \in {"send", "raised"} /\ cache' \subseteq FlagSets
      BY <1>1, <1>2, <1>3, <1>6 DEF SearchTypes
    <2> QED
      BY <1>6, <1>10, <2>1 DEF SearchTypes, Generations
  <1>12. GenerationInv'
    <2>1. Unanswered1(generation)' = Unanswered1(generation')
      BY DEF Unanswered1
    <2>2. cache' = DOMAIN log' /\ toSend' = T /\ T \cap cache' = {}
      BY <1>2, <1>3, <1>4, <1>5, <1>6
    <2>3. \A t \in DOMAIN generation'.pool :
             IF t \in DOMAIN log' THEN generation'.pool[t] = log'[t].cost
             ELSE generation'.pool[t] = None
      BY <1>6, <2>2
    <2> QED
      BY <1>3, <1>4, <1>6, <2>1, <2>2, <2>3 DEF GenerationInv
  <1>13. PillInv'
    <2>1. NoPill'
      BY <1>2, <1>7, <1>9 DEF NoPill, stageVars
    <2> QED
      BY <1>3, <2>1 DEF PillInv
  <1> QED
    BY <1>10, <1>11, <1>12, <1>13 DEF PipelineInv, Types

QueuesSettled == \A q \in Stages \cup {"steering"} : InQueue(queue[q]) \subseteq {PoisonPill}

LEMMA SettledNow ==
    StageTypes /\ OnePlace /\ GenerationInv /\ steering = "ended" => QueuesSettled
  BY Settled DEF QueuesSettled

LEMMA SettledThen ==
    StageTypes' /\ OnePlace' /\ GenerationInv' /\ steering' = "ended" => QueuesSettled'
  <1>1. (StageTypes /\ OnePlace /\ GenerationInv /\ steering = "ended" => QueuesSettled)'
    BY SettledNow, PTL
  <1> QED
    BY <1>1

\* The poison pill is sent after the last answer, with nothing before it.
LEMMA FinishKeeps ==
    ASSUME PipelineInv, Finish
    PROVE  PipelineInv' /\ \A u \in Stages : Results(u)' = Results(u)
  <1> DEFINE m == Head(queue["steering"])
             g == WithResult(m)
  <1>1. StageTypes /\ SearchTypes /\ GenerationInv
    BY DEF PipelineInv, Types
  <1>2. /\ Arrived /\ Done(g) /\ generation' = g /\ Logged(m) /\ steering' = "ended"
        /\ queue' = [queue EXCEPT !["steering"] = Tail(@), !["build"] = Append(@, PoisonPill)]
        /\ UNCHANGED <<stageVars, toSend, cache>>
    BY DEF Finish
  <1> HIDE DEF m
  <1>3. /\ g \in Generations /\ IsFiniteSet(DOMAIN g.pool) /\ Unanswered1(g) = {}
        /\ cache = DOMAIN log' /\ DOMAIN g.pool \subseteq DOMAIN log'
        /\ \A t \in DOMAIN g.pool : g.pool[t] = log'[t].cost
        /\ g.pending = Cardinality(Unanswered1(g))
        /\ Raised' = {} /\ toSend = {}
    BY <1>2, LastAnswer DEF m
  <1> HIDE DEF g
  <1>4. /\ NoPill /\ Tail(queue["steering"]) \in Seq(Pulled)
        /\ InQueue(Tail(queue["steering"])) \subseteq InQueue(queue["steering"])
    BY <1>2, Arrival
  <1>5. queue \in [Stages \cup {"steering"} -> Seq(Pulled)] /\ queue["build"] \in Seq(Pulled)
    BY <1>1 DEF StageTypes, Stages
  <1>6. Append(queue["build"], PoisonPill) \in Seq(Pulled)
    BY <1>5, PillMoves
  <1>7. /\ queue' \in [Stages \cup {"steering"} -> Seq(Pulled)]
        /\ queue'["steering"] = Tail(queue["steering"]) /\ queue'["test"] = queue["test"]
        /\ queue'["build"] = Append(queue["build"], PoisonPill)
    BY <1>2, <1>4, <1>5, <1>6 DEF Stages
  <1>8. /\ StageTypes' /\ OnePlace' /\ AllReady' /\ KeysInv'
        /\ \A u \in Stages : Results(u)' = Results(u)
        /\ DOMAIN log' \subseteq cache' /\ log' \in [DOMAIN log' -> [image : Images, cost : Costs]]
    BY <1>2, <1>7, AnswerKeeps DEF m
  <1>9. SearchTypes'
    BY <1>1, <1>2, <1>3, <1>8 DEF SearchTypes, Generations
  <1>10. GenerationInv'
    <2>1. Unanswered1(generation)' = Unanswered1(generation')
      BY DEF Unanswered1
    <2>2. \A t \in DOMAIN generation'.pool :
             t \in DOMAIN log' /\ generation'.pool[t] = log'[t].cost
      BY <1>2, <1>3
    <2> QED
      BY <1>2, <1>3, <2>1, <2>2 DEF GenerationInv
  <1>11. PillInv'
    <2>1. QueuesSettled'
      BY <1>2, <1>8, <1>10, SettledThen
    <2>2. InQueue(queue'["test"]) \subseteq {PoisonPill} /\ InQueue(queue'["build"]) \subseteq {PoisonPill}
      BY <2>1 DEF QueuesSettled, Stages
    <2>3. InQueue(queue'["build"]) = InQueue(queue["build"]) \cup {PoisonPill}
      BY <1>5, <1>7, PillMoves
    <2>4. InQueue(queue["build"]) = {} /\ InQueue(queue["test"]) = {}
      BY <1>4, <1>7, <2>2, <2>3 DEF NoPill, Stages
    <2>5. queue["test"] \in Seq(Pulled)
      BY <1>5 DEF Stages
    <2>6. queue["build"] = <<>> /\ queue["test"] = <<>>
      BY <1>5, <2>4, <2>5, QueueElements
    <2>7. queue'["build"] = Pill /\ queue'["test"] = <<>>
      BY <1>7, <2>6 DEF Pill
    <2>8. main'["build"] = "pull" /\ main'["test"] = "pull"
      BY <1>2, <1>4 DEF NoPill, Stages, stageVars
    <2> QED
      BY <1>2, <2>7, <2>8 DEF PillInv
  <1> QED
    BY <1>8, <1>9, <1>10, <1>11 DEF PipelineInv, Types

-----------------------------------------------------------------------------
(* The first generation *)

LEMMA FirstAre ==
    ASSUME NEW g \in FirstGenerations
    PROVE  /\ g \in Generations /\ g.pending = Cardinality(Unanswered1(g))
           /\ IsFiniteSet(DOMAIN g.pool) /\ DOMAIN g.pool \subseteq FlagSets /\ DOMAIN g.pool # {}
           /\ Unanswered1(g) = DOMAIN g.pool /\ \A t \in DOMAIN g.pool : g.pool[t] = None
           /\ \/ g.parents = NoParents /\ g.alg # "elimination"
              \/ /\ g.alg = "elimination"
                 /\ DOMAIN g.parents = {AllFlags} /\ AllFlags \in DOMAIN g.pool
                 /\ Decreased(AllFlags) \subseteq DOMAIN g.pool
  <1> DEFINE P == [t \in {AllFlags} |-> None]
  <1>1. \E alg \in Algorithms, T \in SUBSET FlagSets :
           /\ T # {}
           /\ \/ alg # "elimination" /\ g = Generation(alg, T, NoParents, 0)
              \/ /\ alg = "elimination" /\ g = Generation(alg, T, P, 0)
                 /\ AllFlags \in T /\ Decreased(AllFlags) \subseteq T
    <2>1. CASE g \in {Generation("hill", {f}, NoParents, 0) : f \in {AllFlags, <<>>}}
      <3>1. PICK f \in {AllFlags, <<>>} : g = Generation("hill", {f}, NoParents, 0)
        BY <2>1
      <3>2. {f} \in SUBSET FlagSets /\ {f} # {}
        BY FirstFlagSets
      <3>3. "hill" \in Algorithms /\ "hill" # "elimination"
        BY DEF Algorithms
      <3> QED
        BY <3>1, <3>2, <3>3
    <2>2. CASE g = Generation("elimination", {AllFlags} \cup {Lowered(AllFlags, s) : s \in Specs},
                              [t \in {AllFlags} |-> None], 0)
      <3> DEFINE T == {AllFlags} \cup Decreased(AllFlags)
      <3>1. T \in SUBSET FlagSets /\ T # {} /\ AllFlags \in T /\ Decreased(AllFlags) \subseteq T
        BY FirstFlagSets, NeighboursInFlagSets
      <3>2. g = Generation("elimination", T, P, 0)
        BY <2>2, FirstFlagSets
      <3>3. "elimination" \in Algorithms
        BY DEF Algorithms
      <3> HIDE DEF T, P
      <3> QED
        BY <3>1, <3>2, <3>3
    <2>3. CASE g \in {Generation("genetic", T, NoParents, 0) :
                        T \in {U \in SUBSET Seeds : Cardinality(U) \in 1 .. NumChromosomes}}
      <3>1. PICK T \in SUBSET Seeds : /\ Cardinality(T) \in 1 .. NumChromosomes
                                      /\ g = Generation("genetic", T, NoParents, 0)
        BY <2>3
      <3>2. T # {}
        BY <3>1, FS_EmptySet
      <3>3. T \in SUBSET FlagSets
        BY SearchAssumption
      <3>4. "genetic" \in Algorithms /\ "genetic" # "elimination"
        BY DEF Algorithms
      <3> QED
        BY <3>1, <3>2, <3>3, <3>4
    <2> QED
      BY <2>1, <2>2, <2>3 DEF FirstGenerations
  <1>2. P \in Costings /\ DOMAIN P = {AllFlags}
    <2>1. P \in [{AllFlags} -> Costs \cup {None}] /\ {AllFlags} \in SUBSET FlagSets
      BY FirstFlagSets
    <2> QED
      BY <2>1 DEF Costings
  <1>3. NoParents \in Costings
    <2>1. NoParents \in [{} -> Costs \cup {None}] /\ {} \in SUBSET FlagSets
      BY DEF NoParents
    <2> QED
      BY <2>1 DEF Costings
  <1> HIDE DEF P
  <1>4. PICK alg \in Algorithms, T \in SUBSET FlagSets :
           /\ T # {}
           /\ \/ alg # "elimination" /\ g = Generation(alg, T, NoParents, 0)
              \/ /\ alg = "elimination" /\ g = Generation(alg, T, P, 0)
                 /\ AllFlags \in T /\ Decreased(AllFlags) \subseteq T
    BY <1>1
  <1>5. CASE alg # "elimination" /\ g = Generation(alg, T, NoParents, 0)
    <2>1. T \subseteq FlagSets /\ 0 \in Nat
      OBVIOUS
    <2>2. /\ g \in Generations /\ g.alg = alg /\ g.parents = NoParents
          /\ DOMAIN g.pool = T /\ IsFiniteSet(T) /\ \A t \in T : g.pool[t] = None
          /\ Unanswered1(g) = T /\ g.pending = Cardinality(Unanswered1(g))
      BY <1>3, <1>5, <2>1, GenerationIs
    <2> QED
      BY <1>4, <1>5, <2>2
  <1>6. CASE /\ alg = "elimination" /\ g = Generation(alg, T, P, 0)
             /\ AllFlags \in T /\ Decreased(AllFlags) \subseteq T
    <2>1. T \subseteq FlagSets /\ 0 \in Nat
      OBVIOUS
    <2>2. /\ g \in Generations /\ g.alg = alg /\ g.parents = P
          /\ DOMAIN g.pool = T /\ IsFiniteSet(T) /\ \A t \in T : g.pool[t] = None
          /\ Unanswered1(g) = T /\ g.pending = Cardinality(Unanswered1(g))
      BY <1>2, <1>6, <2>1, GenerationIs
    <2> QED
      BY <1>2, <1>4, <1>6, <2>2
  <1> QED
    BY <1>4, <1>5, <1>6

LEMMA InitHolds == Init => PipelineInv /\ FirstOne(generation, log) /\ steering = "send"
  <1> SUFFICES ASSUME Init PROVE PipelineInv /\ FirstOne(generation, log) /\ steering = "send"
    OBVIOUS
  <1>1. /\ generation \in FirstGenerations /\ steering = "send"
        /\ toSend = DOMAIN generation.pool /\ cache = {} /\ log = [t \in {} |-> None]
        /\ InitStages
    BY DEF Init
  <1>2. /\ generation \in Generations /\ generation.pending = Cardinality(Unanswered1(generation))
        /\ IsFiniteSet(DOMAIN generation.pool) /\ DOMAIN generation.pool \subseteq FlagSets
        /\ DOMAIN generation.pool # {}
        /\ Unanswered1(generation) = DOMAIN generation.pool
        /\ \A t \in DOMAIN generation.pool : generation.pool[t] = None
        /\ \/ generation.parents = NoParents /\ generation.alg # "elimination"
           \/ /\ generation.alg = "elimination"
              /\ DOMAIN generation.parents = {AllFlags} /\ AllFlags \in DOMAIN generation.pool
              /\ Decreased(AllFlags) \subseteq DOMAIN generation.pool
    BY <1>1, FirstAre
  <1>3. /\ \A q \in Stages \cup {"steering"} : queue[q] = <<>>
        /\ \A s \in Stages : /\ main[s] = "pull" /\ mycache[s] = {} /\ pool[s] = <<>>
                             /\ working[s] = {} /\ raised[s] = {} /\ helperQ[s] = <<>>
                             /\ completedQ[s] = <<>> /\ helper[s] = "loop"
                             /\ DOMAIN doneDict[s] = {} /\ waiting[s] = <<>>
    BY <1>1 DEF InitStages
  <1>4. StageTypes
    <2>1. \A S : <<>> \in Seq(S)
      OBVIOUS
    <2>2. \A s \in Stages : IsFiniteSet(working[s])
      BY <1>3, FS_EmptySet
    <2>3. /\ queue \in [Stages \cup {"steering"} -> Seq(Pulled)]
          /\ pool \in [Stages -> Seq(TaskRecords)] /\ helperQ \in [Stages -> Seq(Pulled)]
          /\ waiting \in [Stages -> Seq(TaskRecords)]
      BY <1>1, <2>1 DEF InitStages
    <2>4. /\ main \in [Stages -> {"pull", "join pool", "join helper", "ended"}]
          /\ working \in [Stages -> SUBSET [task : TaskRecords, next : WorkSteps]]
          /\ raised \in [Stages -> SUBSET FlagSets]
          /\ helper \in [Stages -> {"loop", "check", "drain", "ended"}]
          /\ DOMAIN mycache = Stages /\ DOMAIN completedQ = Stages /\ DOMAIN doneDict = Stages
      BY <1>1 DEF InitStages
    <2>5. \A s \in Stages : completedQ[s] \in Seq(Keys \X Outcomes(s))
      BY <1>3, <2>1
    <2> QED
      BY <1>3, <2>2, <2>3, <2>4, <2>5 DEF StageTypes
  <1>5. SearchTypes
    <2>1. log \in [DOMAIN log -> [image : Images, cost : Costs]] /\ DOMAIN log = {}
      BY <1>1
    <2> QED
      BY <1>1, <1>2, <2>1 DEF SearchTypes, Generations
  <1>6. OnePlace
    <2> SUFFICES ASSUME NEW t \in FlagSets PROVE Places(t) = IF t \in Underway THEN 1 ELSE 0
      BY DEF OnePlace
    <2>1. "build" \in Stages /\ "test" \in Stages /\ Output("build") = "test"
      BY DEF Stages, Output
    <2>2. Places(t) = Local("build", t) + Elsewhere("build", t)
      BY <1>4, <2>1, PlacesSum
    <2>3. Busy({}, t) = 0 /\ Count(<<>>, t) = 0
      BY FS_EmptySet, CountOne DEF Busy
    <2>4. ASSUME NEW s \in Stages PROVE Inside(s, t) = 0
      <3>1. pool[s] = <<>> /\ helperQ[s] = <<>> /\ waiting[s] = <<>> /\ working[s] = {}
        BY <1>3
      <3>2. /\ Count(pool[s], t) = 0 /\ Count(helperQ[s], t) = 0
            /\ Count(waiting[s], t) = 0 /\ Busy(working[s], t) = 0
        BY <2>3, <3>1
      <3> QED
        BY <3>2 DEF Inside
    <2>5. Local("build", t) = 0 /\ Elsewhere("build", t) = 0
      BY <1>3, <2>1, <2>3, <2>4 DEF Local, Elsewhere
    <2>6. Underway = {}
      BY <1>1 DEF Underway
    <2> QED
      BY <2>2, <2>5, <2>6
  <1>7. GenerationInv
    <2>1. Raised = {} /\ DOMAIN log = {}
      BY <1>1, <1>3 DEF Raised, Stages
    <2> QED
      BY <1>1, <1>2, <2>1 DEF GenerationInv
  <1>8. PillInv
    BY <1>1, <1>3 DEF PillInv, NoPill, InQueue
  <1>9. AllReady
    BY <1>3 DEF AllReady, InQueue
  <1>10. KeysInv
    <2>1. ASSUME NEW s \in Stages PROVE OncePerKey(s)
      <3>1. Results(s) = {} /\ AtWork(s) = {} /\ DOMAIN pool[s] = {}
        BY <1>3, <2>1 DEF Results, AtWork, InQueue
      <3>2. ResultKeys(s) = {}
        BY <3>1 DEF ResultKeys
      <3> QED
        BY <3>1, <3>2 DEF OncePerKey
    <2> QED
      BY <2>1 DEF KeysInv
  <1>11. FirstOne(generation, log)
    BY <1>1, <1>2 DEF FirstOne
  <1> QED
    BY <1>1, <1>4, <1>5, <1>6, <1>7, <1>8, <1>9, <1>10, <1>11 DEF PipelineInv, Types

\* Every step keeps the invariant of the pipeline.
LEMMA StepKeeps == PipelineInv /\ [Next]_vars => PipelineInv'
  <1> SUFFICES ASSUME PipelineInv, [Next]_vars PROVE PipelineInv'
    OBVIOUS
  <1>1. ASSUME NEW s \in Stages, OfStage(MainStep(s) \/ PoolStep(s) \/ HelperStep(s))
        PROVE  PipelineInv'
    BY <1>1, StageKeeps
  <1>2. CASE SteeringStep
    BY <1>2, SendKeeps, ReceiveKeeps, NextGenerationKeeps, FinishKeeps DEF SteeringStep
  <1>3. CASE UNCHANGED vars
    <2>1. UNCHANGED <<queue, main, mycache, pool, working, raised, helperQ, completedQ,
                      helper, doneDict, waiting, steering, toSend, generation, cache, log>>
      BY <1>3 DEF vars, stageVars
    <2>2. \A t : Places(t)' = Places(t)
      BY <2>1 DEF Places
    <2>3. OnePlace'
      <3>1. Underway' = Underway
        BY <2>1 DEF Underway, Raised
      <3> QED
        BY <2>2, <3>1 DEF PipelineInv, OnePlace
    <2>4. KeysInv' /\ \A u \in Stages : Results(u)' = Results(u)
      BY <2>1, KeysSame DEF PipelineInv
    <2>5. AllReady'
      BY <2>1, <2>4 DEF PipelineInv, AllReady, Ready, Stages
    <2>6. StageTypes' /\ SearchTypes' /\ GenerationInv'
      BY <2>1, GenerationSame DEF PipelineInv, Types, StageTypes, SearchSame
    <2>7. PillInv'
      BY <2>1 DEF PipelineInv, PillInv, NoPill
    <2> QED
      BY <2>3, <2>4, <2>5, <2>6, <2>7 DEF PipelineInv, Types
  <1> QED
    BY <1>1, <1>2, <1>3 DEF Next

\* The inductive invariant of PipelineProcess, Worker, Helper and Steering:
\* where the tasks are, which results they have, which keys are at work, and
\* how the generation, its cache and its logs agree with them.
THEOREM PipelineInvariant == Spec => []PipelineInv
  <1>1. Init => PipelineInv
    BY InitHolds
  <1> QED
    BY <1>1, StepKeeps, PTL DEF Spec

-----------------------------------------------------------------------------
(* What is always true of the pipeline *)

\* The queues, lists and process states of the pipeline have their types.
THEOREM TypeCorrect == Spec => []TypeOK
  <1>1. ASSUME PipelineInv PROVE TypeOK
    <2>1. StageTypes /\ SearchTypes
      BY <1>1 DEF PipelineInv, Types
    <2>2. \A q \in DOMAIN queue : InQueue(queue[q]) \subseteq TaskRecords \cup {PoisonPill}
      <3> TAKE q \in DOMAIN queue
      <3>1. queue[q] \in Seq(Pulled)
        BY <2>1 DEF StageTypes
      <3> QED
        BY <3>1, QueueElements DEF Pulled
    <2>3. ASSUME NEW s \in Stages PROVE InStage(s) \subseteq TaskRecords
      <3>1. /\ pool[s] \in Seq(TaskRecords) /\ waiting[s] \in Seq(TaskRecords)
            /\ helperQ[s] \in Seq(Pulled)
            /\ working[s] \subseteq [task : TaskRecords, next : WorkSteps]
        BY <2>1, StageFacts
      <3>2. /\ InQueue(pool[s]) \subseteq TaskRecords /\ InQueue(waiting[s]) \subseteq TaskRecords
            /\ InQueue(helperQ[s]) \subseteq Pulled
        BY <3>1, QueueElements
      <3> QED
        BY <3>1, <3>2 DEF InStage, Pulled
    <2> QED
      BY <2>1, <2>2, <2>3 DEF TypeOK, StageTypes, SearchTypes
  <1> QED
    BY <1>1, PipelineInvariant, PTL

\* The main process, the workers and the helper of a stage move tasks between
\* the pool, the waiting list and five queues: none is lost and none is there
\* twice.
THEOREM TasksInOnePlace == Spec => []EveryTaskInOnePlace
  <1>1. ASSUME PipelineInv PROVE EveryTaskInOnePlace
    <2>1. cache \subseteq FlagSets
      BY <1>1 DEF PipelineInv, Types, SearchTypes
    <2> QED
      BY <1>1, <2>1 DEF PipelineInv, OnePlace, Underway, Raised, EveryTaskInOnePlace
  <1> QED
    BY <1>1, PipelineInvariant, PTL

\* When PipelineProcess.run has met the poison pill, its stage has no tasks:
\* to put the pill into the output before the workers end leaves nothing
\* behind it.
THEOREM PillComesLast == Spec => []PillIsLast
  <1>1. ASSUME PipelineInv, NEW s \in Stages, main[s] # "pull"
        PROVE  queue[s] = <<>> /\ InStage(s) = {}
    <2>1. steering = "ended"
      BY <1>1 DEF PipelineInv, PillInv, NoPill
    <2>2. queue[s] = <<>>
      BY <1>1, <2>1 DEF PipelineInv, PillInv, Stages
    <2>3. /\ pool[s] = <<>> /\ waiting[s] = <<>> /\ working[s] = {}
          /\ InQueue(helperQ[s]) \subseteq {PoisonPill}
      BY <1>1, <2>1, Settled DEF PipelineInv, Types
    <2>4. InQueue(pool[s]) = {} /\ InQueue(waiting[s]) = {} /\ {w.task : w \in working[s]} = {}
      BY <2>3 DEF InQueue
    <2> QED
      BY <2>2, <2>3, <2>4 DEF InStage
  <1>2. PipelineInv => PillIsLast
    BY <1>1 DEF PillIsLast
  <1> QED
    BY <1>2, PipelineInvariant, PTL

\* The assertions of Helper, Worker and UpdateTask never fail.
THEOREM NoAssertionFails == Spec => []AssertionsHold
  <1>1. ASSUME PipelineInv PROVE AssertionsHold
    <2>1. StageTypes
      BY <1>1 DEF PipelineInv, Types
    <2>2. ASSUME NEW s \in Stages, NEW m, Ready(s, m) PROVE ~IsDone(s, m)
      BY <2>2 DEF Ready, IsDone, Result, Stages
    <2>3. \A s \in Stages :
            /\ \A m \in InQueue(pool[s]) \cup InQueue(helperQ[s]) : m # PoisonPill => ~IsDone(s, m)
            /\ \A w \in working[s] : w.next = "work" => ~IsDone(s, w.task)
      BY <1>1, <2>2 DEF PipelineInv, AllReady
    <2>4. ASSUME NEW m \in InQueue(queue["steering"]) \ {PoisonPill}
          PROVE  m.flags \in DOMAIN generation.pool /\ generation.pool[m.flags] = None
      <3>1. "test" \in Stages /\ Output("test") = "steering"
        BY DEF Stages, Output
      <3>2. queue["steering"] \in Seq(Pulled)
        BY <2>1 DEF StageTypes
      <3>3. m \in TaskRecords
        BY <3>2, QueueElements DEF Pulled
      <3>4. m.flags \in Underway
        BY <1>1, <2>1, <3>1, <3>3, SomewhereUnderway DEF PipelineInv
      <3> QED
        BY <1>1, <3>4 DEF PipelineInv, GenerationInv, Underway
    <2> QED
      BY <2>3, <2>4 DEF AssertionsHold
  <1> QED
    BY <1>1, PipelineInvariant, PTL

-----------------------------------------------------------------------------
(* The searches *)

LEMMA MinCostIs ==
    ASSUME NEW f, DOMAIN f # {}, \A t \in DOMAIN f : f[t] \in Nat
    PROVE  /\ MinCost(f) \in Nat /\ \E t \in DOMAIN f : MinCost(f) = f[t]
           /\ \A t \in DOMAIN f : MinCost(f) <= f[t]
           /\ \A b \in Best(f) : f[b] = MinCost(f)
  <1> DEFINE C == {f[t] : t \in DOMAIN f}
  <1>1. C \subseteq Nat /\ C # {}
    OBVIOUS
  <1>2. \E c \in C : \A u \in DOMAIN f : c <= f[u]
    <2>1. PICK c \in C : \A d \in C : c <= d
      BY <1>1, LeastNat
    <2> QED
      BY <2>1
  <1>3. MinCost(f) \in C /\ \A u \in DOMAIN f : MinCost(f) <= f[u]
    BY <1>2 DEF MinCost
  <1>4. MinCost(f) \in Nat /\ \E t \in DOMAIN f : MinCost(f) = f[t]
    BY <1>1, <1>3
  <1>5. ASSUME NEW b \in Best(f) PROVE f[b] = MinCost(f)
    <2>1. b \in DOMAIN f /\ \A u \in DOMAIN f : f[b] <= f[u]
      BY DEF Best
    <2>2. PICK t \in DOMAIN f : MinCost(f) = f[t]
      BY <1>4
    <2>3. f[b] <= MinCost(f) /\ MinCost(f) <= f[b] /\ f[b] \in Nat
      BY <1>3, <2>1, <2>2
    <2> QED
      BY <1>4, <2>3
  <1> QED
    BY <1>3, <1>4, <1>5

\* The tasks that are retained are as good as any of the family.
LEMMA RetainedAre ==
    ASSUME NEW g, DOMAIN Family(g) # {}, \A t \in DOMAIN Family(g) : Family(g)[t] \in Nat,
           NEW R \in Retained(g)
    PROVE  /\ R # {} /\ R \subseteq DOMAIN Family(g)
           /\ \A t \in DOMAIN Family(g) : \E u \in R : Family(g)[u] <= Family(g)[t]
  <1> DEFINE f == Family(g)
  <1>1. /\ R \subseteq DOMAIN f /\ \A t \in R, u \in DOMAIN f \ R : f[t] <= f[u]
        /\ Cardinality(R) = NumChromosomes \/ R = DOMAIN f
    BY DEF Retained
  <1>2. R # {}
    <2>1. Cardinality({}) # NumChromosomes
      BY SearchAssumption, FS_EmptySet
    <2> QED
      BY <1>1, <2>1
  <1> HIDE DEF f
  <1>3. ASSUME NEW t \in DOMAIN f PROVE \E u \in R : f[u] <= f[t]
    <2>1. t \in R => f[t] <= f[t]
      BY DEF f
    <2> QED
      BY <1>1, <1>2, <2>1
  <1> QED
    BY <1>1, <1>2, <1>3 DEF f

\* A generation g with all its results, where l has the logs of all tasks.
Complete(g, l) ==
    /\ g \in Generations /\ DOMAIN g.pool # {} /\ DOMAIN g.pool \subseteq DOMAIN l
    /\ DOMAIN l \subseteq FlagSets /\ l \in [DOMAIN l -> [image : Images, cost : Costs]]
    /\ \A t \in DOMAIN g.pool : g.pool[t] = l[t].cost
    /\ FirstOne(g, l) \/ LaterOne(g, l, DOMAIN l)

LEMMA CompleteFacts ==
    ASSUME NEW g, NEW l, Complete(g, l)
    PROVE  /\ \A t \in DOMAIN l : l[t].cost \in Nat
           /\ \A t \in DOMAIN g.pool : g.pool[t] \in Nat
           /\ MinCost(g.pool) \in Nat /\ \A t \in DOMAIN g.pool : MinCost(g.pool) <= g.pool[t]
           /\ \A b \in Best(g.pool) : b \in DOMAIN g.pool /\ g.pool[b] = MinCost(g.pool)
           /\ FirstOne(g, l) \/ LaterOne(g, l, DOMAIN l)
           /\ FirstOne(g, l) => DOMAIN l = DOMAIN g.pool
           /\ LaterOne(g, l, DOMAIN l) =>
                 /\ g.parents # NoParents
                 /\ \A t \in DOMAIN g.parents : g.parents[t] = l[t].cost /\ g.parents[t] \in Nat
  <1>1. \A t \in DOMAIN l : l[t].cost \in Nat
    BY SearchAssumption DEF Complete
  <1>2. \A t \in DOMAIN g.pool : g.pool[t] \in Nat
    BY <1>1 DEF Complete
  <1>3. /\ MinCost(g.pool) \in Nat /\ \A t \in DOMAIN g.pool : MinCost(g.pool) <= g.pool[t]
        /\ \A b \in Best(g.pool) : g.pool[b] = MinCost(g.pool)
    BY <1>2, MinCostIs DEF Complete
  <1>4. \A b \in Best(g.pool) : b \in DOMAIN g.pool
    BY DEF Best
  <1>5. FirstOne(g, l) => DOMAIN l = DOMAIN g.pool
    BY DEF Complete, FirstOne
  <1>6. ASSUME LaterOne(g, l, DOMAIN l)
        PROVE  /\ g.parents # NoParents
               /\ \A t \in DOMAIN g.parents : g.parents[t] = l[t].cost /\ g.parents[t] \in Nat
    <2>1. DOMAIN NoParents = {}
      BY DEF NoParents
    <2> QED
      BY <1>1, <1>6, <2>1 DEF LaterOne
  <1> QED
    BY <1>1, <1>2, <1>3, <1>4, <1>5, <1>6 DEF Complete

\* The one parent of a later generation, when the search is not genetic.
LEMMA ParentIs ==
    ASSUME NEW g, NEW l, Complete(g, l), LaterOne(g, l, DOMAIN l), g.alg # "genetic"
    PROVE  \E b \in DOMAIN l :
              /\ ParentCost(g) = l[b].cost
              /\ Nearby(g.alg, b) \subseteq DOMAIN l
              /\ \A t \in DOMAIN l \ DOMAIN g.pool : l[b].cost <= l[t].cost
  <1>1. PICK b \in FlagSets : /\ DOMAIN g.parents = {b}
                              /\ Nearby(g.alg, b) \subseteq DOMAIN l \cup DOMAIN g.pool
    BY DEF LaterOne
  <1>2. b \in DOMAIN l /\ b \notin DOMAIN g.pool /\ g.parents[b] = l[b].cost
    BY <1>1 DEF LaterOne
  <1>3. Parent(g) = b
    BY <1>1 DEF Parent
  <1>4. ParentCost(g) = l[b].cost
    BY <1>2, <1>3 DEF ParentCost
  <1>5. \A t \in DOMAIN l \ DOMAIN g.pool : l[b].cost <= l[t].cost
    BY <1>1, <1>2 DEF LaterOne
  <1>6. DOMAIN g.pool \subseteq DOMAIN l
    BY DEF Complete
  <1> QED
    BY <1>1, <1>2, <1>4, <1>5, <1>6

\* A search goes on from the best of all it has tested.
LEMMA NextIsLater ==
    ASSUME NEW g, NEW l, Complete(g, l), NEW h, h \in NextGenerations(g, DOMAIN l)
    PROVE  LaterOne(h, l, DOMAIN l)
  <1>1. g \in Generations
    BY DEF Complete
  <1>2. PICK T \in SUBSET FlagSets, P \in Costings, k \in Nat :
            h = Generation(g.alg, T, P, k) /\ Follows(g, DOMAIN l, T, P)
    BY <1>1, NextAre
  <1>3. IsImproved(g)
    BY <1>1, NextAre
  <1>4. h.alg = g.alg /\ h.parents = P /\ DOMAIN h.pool = T
    <2>1. g.alg \in Algorithms /\ T \subseteq FlagSets
      BY <1>1 DEF Generations
    <2> QED
      BY <1>2, <2>1, GenerationIs
  <1>5. /\ \A t \in DOMAIN l : l[t].cost \in Nat
        /\ \A t \in DOMAIN g.pool : g.pool[t] \in Nat
        /\ MinCost(g.pool) \in Nat /\ \A t \in DOMAIN g.pool : MinCost(g.pool) <= g.pool[t]
        /\ \A b \in Best(g.pool) : b \in DOMAIN g.pool /\ g.pool[b] = MinCost(g.pool)
        /\ FirstOne(g, l) \/ LaterOne(g, l, DOMAIN l)
        /\ FirstOne(g, l) => DOMAIN l = DOMAIN g.pool
        /\ LaterOne(g, l, DOMAIN l) =>
              /\ g.parents # NoParents
              /\ \A t \in DOMAIN g.parents : g.parents[t] = l[t].cost /\ g.parents[t] \in Nat
    BY CompleteFacts
  <1>6. /\ DOMAIN g.pool \subseteq DOMAIN l /\ DOMAIN g.pool # {} /\ DOMAIN l \subseteq FlagSets
        /\ \A t \in DOMAIN g.pool : g.pool[t] = l[t].cost
    BY DEF Complete
  <1>7. CASE g.alg # "genetic"
    <2>1. PICK b \in Best(g.pool) :
              P = Only(g.pool, b) /\ T = Nearby(g.alg, b) \ DOMAIN l
      BY <1>2, <1>7 DEF Follows
    <2>2. b \in DOMAIN g.pool /\ b \in DOMAIN l /\ g.pool[b] = l[b].cost /\ g.pool[b] = MinCost(g.pool)
      BY <1>5, <1>6
    <2>3. DOMAIN P = {b} /\ P[b] = l[b].cost
      BY <2>1, <2>2 DEF Only
    <2>4. \A t \in DOMAIN l : l[b].cost <= l[t].cost
      <3>1. \A t \in DOMAIN g.pool : l[b].cost <= l[t].cost
        BY <1>5, <1>6, <2>2
      <3>2. CASE FirstOne(g, l)
        BY <1>5, <3>1, <3>2
      <3>3. CASE LaterOne(g, l, DOMAIN l)
        <4>1. PICK a \in DOMAIN l : /\ ParentCost(g) = l[a].cost
                                    /\ \A t \in DOMAIN l \ DOMAIN g.pool : l[a].cost <= l[t].cost
          BY <1>7, <3>3, ParentIs
        <4>2. g.parents # NoParents
          BY <1>5, <3>3
        <4>3. MinCost(g.pool) < ParentCost(g)
          BY <1>3, <1>7, <4>2 DEF IsImproved
        <4>4. ASSUME NEW t \in DOMAIN l \ DOMAIN g.pool PROVE l[b].cost <= l[t].cost
          <5>1. l[b].cost < l[a].cost /\ l[a].cost <= l[t].cost
            BY <2>2, <4>1, <4>3
          <5>2. l[b].cost \in Nat /\ l[a].cost \in Nat /\ l[t].cost \in Nat
            BY <1>5, <2>2, <4>1
          <5> QED
            BY <5>1, <5>2
        <4> QED
          BY <3>1, <4>4
      <3> QED
        BY <1>5, <3>2, <3>3
    <2>5. Nearby(h.alg, b) \subseteq DOMAIN l \cup T
      BY <1>4, <2>1
    <2>6. b \in FlagSets /\ b \notin T
      BY <1>2, <1>6, <2>2 DEF Follows
    <2> QED
      BY <1>4, <2>2, <2>3, <2>4, <2>5, <2>6 DEF LaterOne
  <1>8. CASE g.alg = "genetic"
    <2>1. PICK R \in Retained(g) : P = [t \in R |-> Family(g)[t]]
      BY <1>2, <1>8 DEF Follows
    <2>2. DOMAIN g.parents \subseteq DOMAIN l /\ \A t \in DOMAIN g.parents : g.parents[t] = l[t].cost
      <3>1. CASE FirstOne(g, l)
        BY <1>8, <3>1 DEF FirstOne, NoParents
      <3>2. CASE LaterOne(g, l, DOMAIN l)
        BY <3>2 DEF LaterOne
      <3> QED
        BY <1>5, <3>1, <3>2
    <2>3. /\ DOMAIN Family(g) = DOMAIN g.pool \cup DOMAIN g.parents
          /\ \A t \in DOMAIN Family(g) : Family(g)[t] = l[t].cost
      BY <1>6, <2>2 DEF Family
    <2>4. DOMAIN Family(g) \subseteq DOMAIN l /\ DOMAIN Family(g) # {} /\ \A t \in DOMAIN Family(g) : Family(g)[t] \in Nat
      BY <1>5, <1>6, <2>2, <2>3
    <2>5. /\ R # {} /\ R \subseteq DOMAIN Family(g)
          /\ \A t \in DOMAIN Family(g) : \E u \in R : Family(g)[u] <= Family(g)[t]
      BY <2>4, RetainedAre
    <2>6. DOMAIN P = R /\ \A t \in R : P[t] = l[t].cost
      BY <2>1, <2>3, <2>5
    <2>7. ASSUME NEW t \in DOMAIN Family(g) PROVE \E u \in R : P[u] <= l[t].cost
      BY <2>3, <2>5, <2>6
    <2>8. ASSUME NEW t \in DOMAIN l PROVE \E u \in R : P[u] <= l[t].cost
      <3>1. CASE t \in DOMAIN Family(g)
        BY <2>7, <3>1
      <3>2. CASE t \notin DOMAIN Family(g)
        <4>1. t \notin DOMAIN g.pool /\ LaterOne(g, l, DOMAIN l)
          BY <1>5, <2>3, <3>2
        <4>2. PICK a \in DOMAIN g.parents : g.parents[a] <= l[t].cost
          BY <4>1 DEF LaterOne
        <4>3. a \in DOMAIN Family(g) /\ a \in DOMAIN l /\ l[a].cost <= l[t].cost
          BY <2>2, <2>3, <4>2
        <4>4. PICK u \in R : P[u] <= l[a].cost
          BY <2>7, <4>3
        <4>5. P[u] \in Nat /\ l[a].cost \in Nat /\ l[t].cost \in Nat
          BY <1>5, <2>4, <2>5, <2>6, <4>3
        <4> QED
          BY <4>3, <4>4, <4>5
      <3> QED
        BY <3>1, <3>2
    <2>9. R \cap T = {} /\ R \subseteq DOMAIN l
      BY <1>2, <2>4, <2>5 DEF Follows
    <2> QED
      BY <1>4, <1>8, <2>5, <2>6, <2>8, <2>9 DEF LaterOne
  <1> QED
    BY <1>7, <1>8

\* A search that ends, ends at a task that is the best of all and the
\* neighbours of which have been tested.
LEMMA EndIsOptimum ==
    ASSUME NEW g, NEW l, Complete(g, l), MayEnd(g), g.alg # "genetic"
    PROVE  \E b \in DOMAIN l : /\ \A t \in DOMAIN l : l[b].cost <= l[t].cost
                               /\ Nearby(g.alg, b) \subseteq DOMAIN l
  <1>1. /\ \A t \in DOMAIN l : l[t].cost \in Nat
        /\ \A t \in DOMAIN g.pool : g.pool[t] \in Nat
        /\ MinCost(g.pool) \in Nat /\ \A t \in DOMAIN g.pool : MinCost(g.pool) <= g.pool[t]
        /\ \A b \in Best(g.pool) : b \in DOMAIN g.pool /\ g.pool[b] = MinCost(g.pool)
        /\ FirstOne(g, l) \/ LaterOne(g, l, DOMAIN l)
        /\ FirstOne(g, l) => DOMAIN l = DOMAIN g.pool
        /\ LaterOne(g, l, DOMAIN l) => g.parents # NoParents
    BY CompleteFacts
  <1>2. /\ DOMAIN g.pool \subseteq DOMAIN l /\ DOMAIN g.pool # {}
        /\ \A t \in DOMAIN g.pool : g.pool[t] = l[t].cost
        /\ g.alg \in {"hill", "elimination"}
    BY DEF Complete, Generations, Algorithms
  <1>3. CASE ~IsImproved(g)
    <2>1. g.parents # NoParents /\ ~(MinCost(g.pool) < ParentCost(g))
      BY <1>2, <1>3 DEF IsImproved
    <2>2. CASE LaterOne(g, l, DOMAIN l)
      <3>1. PICK b \in DOMAIN l : /\ ParentCost(g) = l[b].cost
                                  /\ Nearby(g.alg, b) \subseteq DOMAIN l
                                  /\ \A t \in DOMAIN l \ DOMAIN g.pool : l[b].cost <= l[t].cost
        BY <2>2, ParentIs
      <3>2. \A t \in DOMAIN g.pool : l[b].cost <= l[t].cost
        <4> TAKE t \in DOMAIN g.pool
        <4>1. MinCost(g.pool) <= g.pool[t] /\ g.pool[t] = l[t].cost /\ g.pool[t] \in Nat
          BY <1>1, <1>2
        <4>2. l[b].cost \in Nat /\ l[b].cost <= MinCost(g.pool)
          BY <1>1, <2>1, <3>1
        <4> QED
          BY <1>1, <4>1, <4>2
      <3> QED
        BY <3>1, <3>2
    <2>3. CASE FirstOne(g, l)
      <3>1. /\ g.alg = "elimination"
            /\ DOMAIN g.parents = {AllFlags} /\ AllFlags \in DOMAIN g.pool
            /\ Decreased(AllFlags) \subseteq DOMAIN g.pool
        BY <2>1, <2>3 DEF FirstOne
      <3>2. Parent(g) = AllFlags
        BY <3>1 DEF Parent
      <3>3. ParentCost(g) = l[AllFlags].cost /\ AllFlags \in DOMAIN l
        BY <1>2, <3>1, <3>2 DEF ParentCost
      <3>4. \A t \in DOMAIN g.pool : l[AllFlags].cost <= l[t].cost
        <4> TAKE t \in DOMAIN g.pool
        <4>1. MinCost(g.pool) <= g.pool[t] /\ g.pool[t] = l[t].cost /\ g.pool[t] \in Nat
          BY <1>1, <1>2
        <4>2. l[AllFlags].cost \in Nat /\ l[AllFlags].cost <= MinCost(g.pool)
          BY <1>1, <2>1, <3>3
        <4> QED
          BY <1>1, <4>1, <4>2
      <3>5. Nearby(g.alg, AllFlags) \subseteq DOMAIN l
        BY <1>2, <3>1 DEF Nearby
      <3> QED
        BY <1>1, <2>3, <3>3, <3>4, <3>5
    <2> QED
      BY <1>1, <2>2, <2>3
  <1>4. CASE IsImproved(g)
    <2>1. g.alg = "elimination" /\ <<>> \in Best(g.pool)
      BY <1>2, <1>4 DEF MayEnd
    <2>2. <<>> \in DOMAIN g.pool /\ <<>> \in DOMAIN l /\ l[<<>>].cost = MinCost(g.pool)
      BY <1>1, <1>2, <2>1
    <2>3. Nearby(g.alg, <<>>) \subseteq DOMAIN l
      BY <2>1, FirstFlagSets DEF Nearby
    <2>4. \A t \in DOMAIN g.pool : l[<<>>].cost <= l[t].cost
      BY <1>1, <1>2, <2>2
    <2>5. CASE FirstOne(g, l)
      BY <1>1, <2>2, <2>3, <2>4, <2>5
    <2>6. CASE LaterOne(g, l, DOMAIN l)
      <3>1. PICK a \in DOMAIN l : /\ ParentCost(g) = l[a].cost
                                  /\ \A t \in DOMAIN l \ DOMAIN g.pool : l[a].cost <= l[t].cost
        BY <2>6, ParentIs
      <3>2. MinCost(g.pool) < ParentCost(g)
        BY <1>1, <1>4, <2>1, <2>6 DEF IsImproved
      <3>3. ASSUME NEW t \in DOMAIN l \ DOMAIN g.pool PROVE l[<<>>].cost <= l[t].cost
        <4>1. l[<<>>].cost < l[a].cost /\ l[a].cost <= l[t].cost
          BY <2>2, <3>1, <3>2
        <4>2. l[<<>>].cost \in Nat /\ l[a].cost \in Nat /\ l[t].cost \in Nat
          BY <1>1, <2>2, <3>1
        <4> QED
          BY <4>1, <4>2
      <3> QED
        BY <2>2, <2>3, <2>4, <3>3
    <2> QED
      BY <1>1, <2>5, <2>6
  <1> QED
    BY <1>3, <1>4

\* A result changes nothing in what a generation is compared with.
LEMMA AnswerSearch ==
    ASSUME PipelineInv, SearchInv, Arrived, NEW m, m = Head(queue["steering"]), Logged(m),
           NEW g, g = WithResult(m)
    PROVE  FirstOne(g, log') \/ LaterOne(g, log', cache)
  <1>1. SearchTypes /\ GenerationInv
    BY DEF PipelineInv, Types
  <1>2. /\ m \in TaskRecords /\ m.flags \in Underway /\ m.cost \in Costs
        /\ m.flags \in DOMAIN generation.pool /\ generation.pool[m.flags] = None
    BY Arrival
  <1>3. /\ g.alg = generation.alg /\ g.parents = generation.parents
        /\ DOMAIN g.pool = DOMAIN generation.pool
    BY <1>1, <1>2, WithResultIs DEF GenerationInv
  <1>4. /\ DOMAIN log' = DOMAIN log \cup {m.flags}
        /\ \A t \in DOMAIN log : t # m.flags /\ log'[t] = log[t]
    BY <1>2 DEF Logged, Underway
  <1>5. CASE FirstOne(generation, log)
    BY <1>2, <1>3, <1>4, <1>5 DEF FirstOne
  <1>6. CASE LaterOne(generation, log, cache)
    <2>1. \A t \in DOMAIN log' \ DOMAIN g.pool : t \in DOMAIN log \ DOMAIN generation.pool /\ log'[t] = log[t]
      BY <1>2, <1>3, <1>4
    <2>2. \A t \in DOMAIN g.parents : t \in DOMAIN log' /\ g.parents[t] = log'[t].cost
      BY <1>3, <1>4, <1>6 DEF LaterOne
    <2>3. \A t \in DOMAIN log' \ DOMAIN g.pool : \E u \in DOMAIN g.parents : g.parents[u] <= log'[t].cost
      BY <1>3, <1>6, <2>1 DEF LaterOne
    <2> QED
      BY <1>3, <1>6, <2>2, <2>3 DEF LaterOne
  <1> QED
    BY <1>5, <1>6 DEF SearchInv

LEMMA CompleteAtLast ==
    ASSUME PipelineInv, SearchInv, Arrived, NEW m, m = Head(queue["steering"]), Logged(m),
           UNCHANGED <<stageVars, cache>>, NEW g, g = WithResult(m), Done(g),
           DOMAIN log' \subseteq cache, log' \in [DOMAIN log' -> [image : Images, cost : Costs]]
    PROVE  Complete(g, log') /\ cache = DOMAIN log' /\ g.alg = generation.alg
  <1>1. /\ g \in Generations /\ g.alg = generation.alg
        /\ m.flags \in DOMAIN g.pool
        /\ cache = DOMAIN log' /\ DOMAIN g.pool \subseteq DOMAIN log'
        /\ \A t \in DOMAIN g.pool : g.pool[t] = log'[t].cost
    BY LastAnswer
  <1>2. FirstOne(g, log') \/ LaterOne(g, log', cache)
    BY AnswerSearch
  <1>3. cache \subseteq FlagSets
    BY DEF PipelineInv, Types, SearchTypes
  <1> QED
    BY <1>1, <1>2, <1>3 DEF Complete

LEMMA SearchStep == PipelineInv /\ SearchInv /\ PipelineInv' /\ [Next]_vars => SearchInv'
  <1> SUFFICES ASSUME PipelineInv, SearchInv, PipelineInv', [Next]_vars PROVE SearchInv'
    OBVIOUS
  <1>0. /\ DOMAIN log' \subseteq cache' /\ log' \in [DOMAIN log' -> [image : Images, cost : Costs]]
    BY DEF PipelineInv, Types, SearchTypes
  <1>1. ASSUME SearchSame PROVE SearchInv'
    BY <1>1 DEF SearchInv, SearchSame, EndsAtOptimum, CostOf
  <1>2. CASE Send
    <2>1. /\ steering' # "ended" /\ cache \subseteq cache'
          /\ generation' = generation /\ log' = log
      BY <1>2 DEF Send
    <2>2. FirstOne(generation', log') \/ LaterOne(generation', log', cache')
      BY <2>1 DEF SearchInv, LaterOne
    <2> QED
      BY <2>1, <2>2 DEF SearchInv, EndsAtOptimum
  <1>3. CASE Receive
    <2> DEFINE m == Head(queue["steering"])
    <2>1. /\ Arrived /\ Logged(m) /\ generation' = WithResult(m)
          /\ steering' = steering /\ cache' = cache
      BY <1>3 DEF Receive
    <2>2. steering' # "ended"
      BY <2>1 DEF Arrived
    <2> HIDE DEF m
    <2>3. FirstOne(generation', log') \/ LaterOne(generation', log', cache')
      BY <2>1, AnswerSearch DEF m
    <2> QED
      BY <2>2, <2>3 DEF SearchInv, EndsAtOptimum
  <1>4. CASE NextGeneration
    <2> DEFINE m == Head(queue["steering"])
               g == WithResult(m)
    <2>1. /\ Arrived /\ Logged(m) /\ Done(g) /\ UNCHANGED <<stageVars, cache>>
          /\ generation' \in NextGenerations(g, cache)
          /\ steering' = IF toSend' = {} THEN "raised" ELSE "send"
      BY <1>4 DEF NextGeneration
    <2> HIDE DEF m
    <2>2. Complete(g, log') /\ cache = DOMAIN log'
      BY <1>0, <2>1, CompleteAtLast DEF m
    <2> HIDE DEF g
    <2>3. LaterOne(generation', log', cache')
      BY <2>1, <2>2, NextIsLater
    <2> QED
      BY <2>1, <2>3 DEF SearchInv, EndsAtOptimum
  <1>5. CASE Finish
    <2> DEFINE m == Head(queue["steering"])
               g == WithResult(m)
    <2>1. /\ Arrived /\ Logged(m) /\ Done(g) /\ MayEnd(g) /\ UNCHANGED <<stageVars, cache>>
          /\ generation' = g
      BY <1>5 DEF Finish
    <2> HIDE DEF m
    <2>2. Complete(g, log') /\ cache = DOMAIN log'
      BY <1>0, <2>1, CompleteAtLast DEF m
    <2> HIDE DEF g
    <2>3. FirstOne(generation', log') \/ LaterOne(generation', log', cache')
      BY <2>1, <2>2 DEF Complete
    <2>4. ASSUME generation'.alg \in {"hill", "elimination"} PROVE EndsAtOptimum'
      <3>1. PICK b \in DOMAIN log' : /\ \A t \in DOMAIN log' : log'[b].cost <= log'[t].cost
                                     /\ Nearby(generation'.alg, b) \subseteq DOMAIN log'
        BY <2>1, <2>2, <2>4, EndIsOptimum
      <3>2. b \in Best(CostOf')
        <4>1. DOMAIN CostOf' = DOMAIN log' /\ \A t \in DOMAIN log' : CostOf'[t] = log'[t].cost
          BY DEF CostOf
        <4> QED
          BY <3>1, <4>1 DEF Best
      <3> QED
        BY <3>1, <3>2 DEF EndsAtOptimum, Nearby
    <2>5. EndsAtOptimum'
      <3>1. CASE generation'.alg \in {"hill", "elimination"}
        BY <2>4, <3>1
      <3>2. CASE generation'.alg \notin {"hill", "elimination"}
        BY <3>2 DEF EndsAtOptimum
      <3> QED
        BY <3>1, <3>2
    <2> QED
      BY <2>3, <2>5 DEF SearchInv
  <1>6. CASE UNCHANGED vars
    BY <1>1, <1>6 DEF vars, SearchSame
  <1>7. ASSUME NEW s \in Stages, OfStage(MainStep(s) \/ PoolStep(s) \/ HelperStep(s))
        PROVE  SearchInv'
    BY <1>1, <1>7 DEF OfStage, SearchSame
  <1> QED
    BY <1>2, <1>3, <1>4, <1>5, <1>6, <1>7 DEF Next, SteeringStep

\* The inductive invariant of the searches: what the Next of each of the
\* three generation classes leaves as the parents of the next generation.
THEOREM SearchInvariant == Spec => []SearchInv
  <1>1. Init => PipelineInv /\ SearchInv
    BY InitHolds DEF SearchInv, EndsAtOptimum
  <1> QED
    BY <1>1, PipelineInvariant, SearchStep, PTL DEF Spec

\* No algorithm loses the best task it has seen: the parents that IsImproved
\* compares a generation with are as good as all that was tested before.
THEOREM ParentStaysBest == Spec => []ParentIsBest
  <1>1. ASSUME PipelineInv, SearchInv, NEW t \in DOMAIN log \ DOMAIN generation.pool
        PROVE  MinCost(generation.parents) <= log[t].cost
    <2>1. LaterOne(generation, log, cache)
      BY <1>1 DEF SearchInv, FirstOne
    <2>2. log \in [DOMAIN log -> [image : Images, cost : Costs]]
      BY <1>1 DEF PipelineInv, Types, SearchTypes
    <2>3. \A u \in DOMAIN log : log[u].cost \in Nat
      BY <2>2, SearchAssumption
    <2>4. /\ DOMAIN generation.parents # {}
          /\ \A u \in DOMAIN generation.parents : generation.parents[u] \in Nat
      BY <2>1, <2>3 DEF LaterOne
    <2>5. PICK u \in DOMAIN generation.parents : generation.parents[u] <= log[t].cost
      BY <1>1, <2>1 DEF LaterOne
    <2>6. MinCost(generation.parents) <= generation.parents[u] /\ MinCost(generation.parents) \in Nat
      BY <2>4, MinCostIs
    <2>7. log[t].cost \in Nat /\ generation.parents[u] \in Nat
      BY <1>1, <2>3, <2>4
    <2> QED
      BY <2>5, <2>6, <2>7
  <1>2. PipelineInv /\ SearchInv => ParentIsBest
    BY <1>1 DEF ParentIsBest
  <1> QED
    BY <1>2, PipelineInvariant, SearchInvariant, PTL

\* Hill climbing and iterative elimination end only at a task that is the best
\* of all they tested, and the neighbours of which they tested.
THEOREM SearchEndsAtOptimum == Spec => []EndsAtOptimum
  <1>1. SearchInv => EndsAtOptimum
    BY DEF SearchInv
  <1> QED
    BY <1>1, SearchInvariant, PTL

-----------------------------------------------------------------------------
(* The pipeline implements TaskService *)

\* A step of the stages is a step of the service, or seen by nobody.
LEMMA StageServes ==
    ASSUME PipelineInv, NEW s \in Stages, OfStage(MainStep(s) \/ PoolStep(s) \/ HelperStep(s))
    PROVE  Service!Build \/ Service!Test \/ UNCHANGED Service!serviceVars
  <1>1. /\ SearchSame
        /\ \/ \A u \in Stages : Results(u)' = Results(u)
           \/ \E w \in working[s] :
                 /\ w.next = "work"
                 /\ \A u \in Stages \ {s} : Results(u)' = Results(u)
                 /\ \E p : /\ Results(s)' = Results(s) \cup {p}
                           /\ p[1] = Identifier(s, w.task) /\ p[1] \notin ResultKeys(s)
    BY StageKeeps
  <1>2. cache' = cache /\ log' = log
    BY <1>1 DEF SearchSame
  <1>3. CASE \A u \in Stages : Results(u)' = Results(u)
    <2>1. Results("build")' = Results("build") /\ Results("test")' = Results("test")
      BY <1>3 DEF Stages
    <2> QED
      BY <1>2, <2>1 DEF Service!serviceVars
  <1>4. ASSUME NEW w \in working[s], w.next = "work",
               \A u \in Stages \ {s} : Results(u)' = Results(u),
               NEW p, Results(s)' = Results(s) \cup {p},
               p[1] = Identifier(s, w.task), p[1] \notin ResultKeys(s)
        PROVE  Service!Build \/ Service!Test
    <2>1. StageTypes /\ w.task \in TaskRecords
      <3>1. StageTypes
        BY DEF PipelineInv, Types
      <3>2. working[s] \subseteq [task : TaskRecords, next : WorkSteps]
        BY <3>1, StageFacts
      <3> QED
        BY <3>1, <3>2
    <2>2. p \in Results(s)' \ Results(s)
      BY <1>4 DEF ResultKeys
    <2>3. w.task.flags \in cache
      <3>1. w.task.flags \in Underway
        BY <2>1, SomewhereUnderway DEF PipelineInv
      <3> QED
        BY <3>1 DEF Underway
    <2>4. Ready(s, w.task)
      BY <1>4 DEF PipelineInv, AllReady
    <2>5. \A u : Service!Keys(Results(u)) = ResultKeys(u)
      BY DEF Service!Keys, ResultKeys
    <2>6. CASE s = "build"
      <3>1. p[1] = FormattedForUse(w.task.flags)
        BY <1>4, <2>6 DEF Identifier
      <3>2. p[1] \in {FormattedForUse(t) : t \in cache} \ Service!Keys(Results("build"))
        BY <1>4, <2>3, <2>5, <2>6, <3>1
      <3>3. Results("test")' = Results("test")
        BY <1>4, <2>6 DEF Stages
      <3>4. Service!Build
        BY <1>2, <1>4, <2>2, <2>6, <3>2, <3>3 DEF Service!Build
      <3> QED
        BY <3>4
    <2>7. CASE s = "test"
      <3>1. p[1] = w.task.image
        BY <1>4, <2>7 DEF Identifier
      <3>2. <<FormattedForUse(w.task.flags), w.task.image>> \in Results("build")
        BY <2>4, <2>7 DEF Ready
      <3>3. p[1] \in {b[2] : b \in Results("build")}
        <4> DEFINE b == <<FormattedForUse(w.task.flags), w.task.image>>
        <4>1. b[2] = w.task.image
          OBVIOUS
        <4> QED
          BY <3>1, <3>2, <4>1
      <3>4. p[1] \notin Service!Keys(Results("test"))
        BY <1>4, <2>5, <2>7
      <3>5. Results("build")' = Results("build")
        BY <1>4, <2>7 DEF Stages
      <3>6. Service!Test
        BY <1>2, <1>4, <2>2, <2>7, <3>3, <3>4, <3>5 DEF Service!Test
      <3> QED
        BY <3>6
    <2> QED
      BY <2>6, <2>7 DEF Stages
  <1> QED
    BY <1>1, <1>3, <1>4

\* A result that arrives at the steering process is the answer of its task.
LEMMA SteeringAnswers ==
    ASSUME PipelineInv, Arrived, NEW m, m = Head(queue["steering"]), Logged(m), cache' = cache,
           \A u \in Stages : Results(u)' = Results(u)
    PROVE  \E t \in cache : Service!Answer(t)
  <1>1. /\ m.flags \in Underway
        /\ <<FormattedForUse(m.flags), m.image>> \in Results("build")
        /\ <<m.image, m.cost>> \in Results("test")
    BY Arrival
  <1>2. m.flags \in cache \ DOMAIN log
    BY <1>1 DEF Underway
  <1>3. /\ DOMAIN log' = DOMAIN log \cup {m.flags}
        /\ log'[m.flags] = [image |-> m.image, cost |-> m.cost]
        /\ log' = [u \in DOMAIN log' |-> IF u = m.flags THEN log'[m.flags] ELSE log[u]]
    BY DEF Logged
  <1>4. Results("build")' = Results("build") /\ Results("test")' = Results("test")
    BY DEF Stages
  <1>5. log'[m.flags].image = m.image /\ log'[m.flags].cost = m.cost
    BY <1>3
  <1>6. Service!Answer(m.flags)
    BY <1>1, <1>2, <1>3, <1>4, <1>5 DEF Service!Answer
  <1> QED
    BY <1>2, <1>6

\* The pipeline implements TaskService: every step of it is one of the service
\* or changes nothing there.  The two stages build each distinct flag set and
\* test each distinct image at most once, and PutResult, GetDuplicate and
\* GetCompleted give each task the results of its own keys.
THEOREM PipelineImplementsService == Spec => ImplementsService
  <1>1. Init => Service!Init
    <2> SUFFICES ASSUME Init PROVE Service!Init
      OBVIOUS
    <2>1. cache = {} /\ log = [t \in {} |-> t]
      BY DEF Init
    <2>2. Results("build") = {} /\ Results("test") = {}
      BY DEF Init, InitStages, Results, InQueue, Stages
    <2> QED
      BY <2>1, <2>2 DEF Service!Init
  <1>2. PipelineInv /\ [Next]_vars => [Service!Next]_(Service!serviceVars)
    <2> SUFFICES ASSUME PipelineInv, [Next]_vars
                 PROVE  Service!Next \/ UNCHANGED Service!serviceVars
      OBVIOUS
    <2>1. ASSUME NEW s \in Stages, OfStage(MainStep(s) \/ PoolStep(s) \/ HelperStep(s))
          PROVE  Service!Next \/ UNCHANGED Service!serviceVars
      BY <2>1, StageServes DEF Service!Next
    <2>2. CASE Send
      <3>1. \A u \in Stages : Results(u)' = Results(u)
        BY <2>2, SendKeeps
      <3>2. PICK t \in toSend : cache' = cache \cup {t}
        BY <2>2 DEF Send
      <3>3. t \in FlagSets /\ t \notin cache /\ log' = log
        BY <2>2 DEF Send, PipelineInv, Types, SearchTypes, GenerationInv
      <3>4. Results("build")' = Results("build") /\ Results("test")' = Results("test")
        BY <3>1 DEF Stages
      <3>5. Service!Ask(t)
        BY <3>2, <3>3, <3>4 DEF Service!Ask
      <3> QED
        BY <3>3, <3>5 DEF Service!Next
    <2>3. CASE Receive \/ NextGeneration \/ Finish
      <3>1. \A u \in Stages : Results(u)' = Results(u)
        BY <2>3, ReceiveKeeps, NextGenerationKeeps, FinishKeeps
      <3>2. Arrived /\ Logged(Head(queue["steering"])) /\ cache' = cache
        BY <2>3 DEF Receive, NextGeneration, Finish
      <3>3. \E t \in cache : Service!Answer(t)
        BY <3>1, <3>2, SteeringAnswers
      <3> QED
        BY <3>3 DEF Service!Next
    <2>4. CASE UNCHANGED vars
      <3>1. Results("build")' = Results("build") /\ Results("test")' = Results("test")
        BY <2>4 DEF vars, stageVars, Results
      <3> QED
        BY <2>4, <3>1 DEF vars, Service!serviceVars
    <2> QED
      BY <2>1, <2>2, <2>3, <2>4 DEF Next, SteeringStep
  <1> QED
    BY <1>1, <1>2, PipelineInvariant, PTL DEF Spec, ImplementsService, Service!Spec
=============================================================================
