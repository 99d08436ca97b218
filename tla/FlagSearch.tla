------------------------------ MODULE FlagSearch ------------------------------
(***************************************************************************)
(* The search algorithms of bestflags: hill climbing, iterative            *)
(* elimination and the genetic algorithm, as operators on generations.     *)
(*                                                                         *)
(* A flag set is a function from the enabled specs to their values.  A     *)
(* boolean flag is a spec with the one value 0: to add and to remove it is *)
(* then what it is for a numeric flag at the start of its range.           *)
(***************************************************************************)
EXTENDS Integers, FiniteSets

CONSTANTS
    Specs,          \* the flag specifications of the configuration file
    Booleans,       \* those without a range
    Start, End,     \* [start-end] of each spec, its values are start .. end - 1
    Text,           \* Text[s][v] is spec s with its range replaced by v
    Costs,          \* what a test may cost, the largest stands for a failed test
    StopThreshold,  \* STOP_THRESHOLD of the genetic algorithm
    NumChromosomes, \* NUM_CHROMOSOMES of the genetic algorithm
    MaxTasks,       \* bound: the tasks after which the genetic algorithm stops
    Seeds,          \* the flag sets that its random start is taken from
    None            \* Python's None, for a cost and an image

\* Flag draws a random value up to and including end.
Values(s) == IF s \in Booleans THEN {0} ELSE Start[s] .. End[s]

FlagSets == UNION {{f \in [S -> UNION {Values(s) : s \in Specs}] :
                       \A s \in S : f[s] \in Values(s)} : S \in SUBSET Specs}

ASSUME SearchAssumption ==
    /\ IsFiniteSet(Specs) /\ Booleans \subseteq Specs
    /\ Start \in [Specs -> Nat]
    /\ End \in [Specs -> Nat]
    /\ \A s \in Specs : Start[s] < End[s]
    /\ \A s \in Booleans : Start[s] = 0 /\ End[s] = 1
    /\ Costs \subseteq Nat
    /\ StopThreshold \in Nat
    /\ NumChromosomes \in Nat \ {0}
    /\ MaxTasks \in Nat
    /\ Seeds \subseteq FlagSets
    /\ None \notin Costs

\* A numeric flag has two values at least: with one, _GenerateInitialFlags
\* would start below the range, and _DecreaseFlag never meet its start.
ASSUME RangeAssumption == \A s \in Specs \ Booleans : Start[s] + 1 < End[s]

Set(f, s, v) == [t \in DOMAIN f \cup {s} |-> IF t = s THEN v ELSE f[t]]
Drop(f, s) == [t \in DOMAIN f \ {s} |-> f[t]]

\* A flag set in use is a sorted list of texts, thus a bag of them.  Two flag
\* sets may look alike.
FormattedForUse(f) ==
    [x \in {Text[s][f[s]] : s \in DOMAIN f} |->
        Cardinality({s \in DOMAIN f : Text[s][f[s]] = x})]

-----------------------------------------------------------------------------
(* Neighbours *)

ClimbNext(f, s) ==
    IF s \notin DOMAIN f THEN {Set(f, s, Start[s])}
    ELSE {Set(f, s, v) : v \in {f[s] + 1} \cap Start[s] .. End[s] - 1}
         \cup {IF f[s] > Start[s] THEN Set(f, s, f[s] - 1) ELSE Drop(f, s)}

Neighbours(f) == UNION {ClimbNext(f, s) : s \in Specs}

DecreaseFlag(f, s) ==
    IF f[s] = Start[s] THEN Drop(f, s) ELSE Set(f, s, f[s] - 1)

Decreased(f) == {DecreaseFlag(f, s) : s \in DOMAIN f}

-----------------------------------------------------------------------------
(* Generations: the tasks to run with their costs so far, and those they   *)
(* are compared with.  _pending counts the tasks without a result.         *)

Algorithms == {"hill", "elimination", "genetic"}

Generation(alg, tasks, parents, stuck) ==
    [alg |-> alg, pool |-> [t \in tasks |-> None], parents |-> parents,
     stuck |-> stuck, pending |-> Cardinality(tasks)]

Done(g) == g.pending = 0

\* UpdateTask
Updated(g, t, cost) ==
    [g EXCEPT !.pool[t] = cost, !.pending = @ - 1]

NoParents == [t \in {} |-> None]

\* A task with its cost, as the only one to compare with.
Only(f, t) == [u \in {t} |-> f[t]]

\* The tasks that cost least in a function from tasks to costs.
Best(f) == {t \in DOMAIN f : \A u \in DOMAIN f : f[t] <= f[u]}
MinCost(f) == CHOOSE c \in {f[t] : t \in DOMAIN f} :
                  \A u \in DOMAIN f : c <= f[u]

\* The parent of the first generation of the elimination is in its pool.
Parent(g) == CHOOSE t \in DOMAIN g.parents : TRUE
ParentCost(g) == IF Parent(g) \in DOMAIN g.pool
                 THEN g.pool[Parent(g)] ELSE g.parents[Parent(g)]

\* IsImproved of the three classes.
IsImproved(g) ==
    \/ g.parents = NoParents
    \/ g.alg \in {"hill", "elimination"} /\ MinCost(g.pool) < ParentCost(g)
    \/ /\ g.alg = "genetic"
       /\ \/ MinCost(g.pool) < MinCost(g.parents)
          \/ g.stuck < StopThreshold

Stuck(g) ==
    IF g.parents = NoParents THEN g.stuck
    ELSE IF MinCost(g.pool) < MinCost(g.parents) THEN 0 ELSE g.stuck + 1

\* Mutant: any task of the generation is climbed from.
HillNextOfAny(g, cache) ==
    {Generation("hill", Neighbours(b) \ cache, Only(g.pool, b), 0) :
        b \in DOMAIN g.pool}

\* Mutant: the set of children is started anew for each spec.
HillNextOfOneSpec(g, cache) ==
    {Generation("hill", ClimbNext(b, s) \ cache, Only(g.pool, b), 0) :
        b \in Best(g.pool), s \in Specs}

\* HillClimbingBestBranch.Next: the new neighbours of a best task.
HillNext(g, cache) ==
    {Generation("hill", Neighbours(b) \ cache, Only(g.pool, b), 0) :
        b \in Best(g.pool)}

\* IterativeEliminationGeneration.Next: without flags there is nothing left
\* to eliminate.
EliminationNext(g, cache) ==
    {Generation("elimination", Decreased(b) \ cache, Only(g.pool, b), 0) :
        b \in Best(g.pool) \ {<<>>}}

-----------------------------------------------------------------------------
(* The genetic algorithm *)

\* The tasks of this generation and of its parents.
Family(g) == [t \in DOMAIN g.pool \cup DOMAIN g.parents |->
                 IF t \in DOMAIN g.pool THEN g.pool[t] ELSE g.parents[t]]

\* The first NUM_CHROMOSOMES tasks in the order of their costs.
Retained(g) ==
    LET f == Family(g)
    IN  {R \in SUBSET DOMAIN f :
            /\ \/ Cardinality(R) = NumChromosomes
               \/ Cardinality(R) < NumChromosomes /\ R = DOMAIN f
            /\ \A t \in R, u \in DOMAIN f \ R : f[t] <= f[u]}

\* ReproduceWith, before the mutation: flags of one parent may be taken, flags
\* of both parents are, with the value of either.
Crossed(f, m) ==
    {c \in FlagSets :
        /\ DOMAIN f \cap DOMAIN m \subseteq DOMAIN c
        /\ DOMAIN c \subseteq DOMAIN f \cup DOMAIN m
        /\ \A s \in DOMAIN c : \/ s \in DOMAIN f /\ c[s] = f[s]
                               \/ s \in DOMAIN m /\ c[s] = m[s]}

\* RandomMutate: a flag that is not chosen for a mutation is left out.
Mutated(f) ==
    {c \in FlagSets : \A s \in DOMAIN c :
        s \in DOMAIN f => /\ s \notin Booleans
                          /\ c[s] \in {f[s], f[s] - 1}
                               \cup ({f[s] + 1} \cap Start[s] .. End[s] - 1)}

Children(R) ==
    UNION {Mutated(c) : c \in R \cup UNION {Crossed(f, m) : f \in R, m \in R}}

\* GAGeneration.Next: a full generation of new tasks, or none when too many
\* trials failed.
GeneticNext(g, cache) ==
    UNION {{Generation("genetic", C, [t \in R |-> Family(g)[t]], Stuck(g)) :
               C \in {D \in SUBSET (Children(R) \ cache) :
                         /\ Cardinality(D) = NumChromosomes
                         /\ Cardinality(cache) < MaxTasks}} : R \in Retained(g)}

-----------------------------------------------------------------------------
(* Starting and going on *)

\* _GenerateInitialFlags: boolean flags are removed, numeric ones lowered.
Lowered(f, s) == IF s \in Booleans THEN Drop(f, s) ELSE Set(f, s, End[s] - 2)

AllFlags == [s \in Specs |-> End[s] - 1]

\* The first generations that testing_batch makes (GenerateRandomGATasks and
\* the generators of its tests).
FirstGenerations ==
    {Generation("hill", {f}, NoParents, 0) : f \in {AllFlags, <<>>}}
    \cup {Generation("elimination",
                     {AllFlags} \cup {Lowered(AllFlags, s) : s \in Specs},
                     [t \in {AllFlags} |-> None], 0)}
    \cup {Generation("genetic", T, NoParents, 0) :
             T \in {U \in SUBSET Seeds : Cardinality(U) \in 1 .. NumChromosomes}}

\* The generations that may follow g.
NextGenerations(g, cache) ==
    IF ~IsImproved(g) THEN {}
    ELSE CASE g.alg = "hill" -> HillNext(g, cache)
           [] g.alg = "elimination" -> EliminationNext(g, cache)
           [] g.alg = "genetic" -> GeneticNext(g, cache)

\* No generation follows: no improvement, or Next returns an empty list.
MayEnd(g) ==
    \/ ~IsImproved(g)
    \/ g.alg = "elimination" /\ <<>> \in Best(g.pool)
    \/ g.alg = "genetic"
=============================================================================
