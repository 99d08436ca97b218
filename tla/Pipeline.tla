------------------------------ MODULE Pipeline -------------------------------
(***************************************************************************)
(* bestflags/pipeline_process.py and pipeline_worker.py: the build and the *)
(* test stage, each with a process that pulls tasks, a pool of workers and *)
(* a helper that answers duplicates.                                       *)
(*                                                                         *)
(* A task travels as a record of its flags, its image (the result of the   *)
(* build, of which only the checksum matters) and its cost (the result of  *)
(* the test).  A queue is a sequence, a put and a get are steps.           *)
(***************************************************************************)
EXTENDS FlagSearch, Sequences

CONSTANTS
    Images,       \* the checksums that a build may give
    NumProcesses, \* the size of the pool of each stage
    MayRaise,     \* may a worker raise?
    PoisonPill

TaskRecords == [flags : FlagSets, image : Images \cup {None}, cost : Costs \cup {None}]

ASSUME PipelineAssumption ==
    /\ NumProcesses \in [{"build", "test"} -> Nat \ {0}]
    /\ MayRaise \in BOOLEAN
    /\ None \notin Images
    /\ PoisonPill \notin TaskRecords

VARIABLES
    queue,      \* queue[q]: the input of a stage, or of the steering process
    main,       \* main[s]: what the process of stage s is about to do
    mycache,    \* mycache[s]: the keys it has met
    pool,       \* pool[s]: the tasks given to the pool that no worker has yet
    working,    \* working[s]: the tasks that workers have, and their next steps
    raised,     \* raised[s]: the tasks whose workers raised an exception
    helperQ,    \* helperQ[s]: the duplicates for the helper
    completedQ, \* completedQ[s]: the keys and results for the helper
    helper,     \* helper[s]: what the helper is about to do
    doneDict,   \* doneDict[s]: the results the helper knows
    waiting     \* waiting[s]: the duplicates without a result

stageVars == <<main, mycache, pool, working, raised,
               helperQ, completedQ, helper, doneDict, waiting>>

Stages == {"build", "test"}
Output(s) == IF s = "build" THEN "test" ELSE "steering"

\* Task.GetIdentifier, GetResult, SetResult and Done
Identifier(s, m) == IF s = "build" THEN FormattedForUse(m.flags) ELSE m.image
Result(s, m) == IF s = "build" THEN m.image ELSE m.cost

\* Mutant: the results of the two stages are swapped.
SetOtherResult(s, m, r) ==
    IF s = "test" THEN [m EXCEPT !.image = r] ELSE [m EXCEPT !.cost = r]

SetResult(s, m, r) ==
    IF s = "build" THEN [m EXCEPT !.image = r] ELSE [m EXCEPT !.cost = r]
IsDone(s, m) == Result(s, m) # None

InQueue(q) == {q[i] : i \in DOMAIN q}

\* The elements of a list that are in keep, in the order of the list.
Select(list, keep) ==
    LET taken[i \in 0 .. Len(list)] ==
            IF i = 0 THEN <<>>
            ELSE IF list[i] \in keep THEN Append(taken[i - 1], list[i])
            ELSE taken[i - 1]
    IN  taken[Len(list)]

Put(q, m) == queue' = [queue EXCEPT ![q] = Append(@, m)]

InitStages ==
    /\ queue = [q \in Stages \cup {"steering"} |-> <<>>]
    /\ main = [s \in Stages |-> "pull"]
    /\ mycache = [s \in Stages |-> {}]
    /\ pool = [s \in Stages |-> <<>>]
    /\ working = [s \in Stages |-> {}]
    /\ raised = [s \in Stages |-> {}]
    /\ helperQ = [s \in Stages |-> <<>>]
    /\ completedQ = [s \in Stages |-> <<>>]
    /\ helper = [s \in Stages |-> "loop"]
    /\ doneDict = [s \in Stages |-> [k \in {} |-> None]]
    /\ waiting = [s \in Stages |-> <<>>]

-----------------------------------------------------------------------------
(* PipelineProcess.run *)

\* Mutant: a duplicate is left to the workers as well.
NeverKnown(s, key) == FALSE

Known(s, key) == key \in mycache[s]

Pull(s) ==
    /\ main[s] = "pull" /\ queue[s] # <<>> /\ Head(queue[s]) # PoisonPill
    /\ LET task == Head(queue[s])
           key  == Identifier(s, task)
       IN  \/ /\ Known(s, key)
              /\ helperQ' = [helperQ EXCEPT ![s] = Append(@, task)]
              /\ UNCHANGED <<pool, mycache>>
           \/ /\ ~Known(s, key)
              /\ pool' = [pool EXCEPT ![s] = Append(@, task)]
              /\ mycache' = [mycache EXCEPT ![s] = @ \cup {key}]
              /\ UNCHANGED helperQ
    /\ queue' = [queue EXCEPT ![s] = Tail(@)]
    /\ UNCHANGED <<main, working, raised, completedQ, helper, doneDict, waiting>>

\* The poison pill is passed on at once.
PullPoisonPill(s) ==
    /\ main[s] = "pull" /\ queue[s] # <<>> /\ Head(queue[s]) = PoisonPill
    /\ queue' = [queue EXCEPT ![s] = Tail(@), ![Output(s)] = Append(@, PoisonPill)]
    /\ main' = [main EXCEPT ![s] = "join pool"]
    /\ UNCHANGED <<mycache, pool, working, raised,
                   helperQ, completedQ, helper, doneDict, waiting>>

JoinPool(s) ==
    /\ main[s] = "join pool" /\ pool[s] = <<>> /\ working[s] = {}
    /\ helperQ' = [helperQ EXCEPT ![s] = Append(@, PoisonPill)]
    /\ main' = [main EXCEPT ![s] = "join helper"]
    /\ UNCHANGED <<queue, mycache, pool, working, raised,
                   completedQ, helper, doneDict, waiting>>

JoinHelper(s) ==
    /\ main[s] = "join helper" /\ helper[s] = "ended"
    /\ main' = [main EXCEPT ![s] = "ended"]
    /\ UNCHANGED <<queue, mycache, pool, working, raised,
                   helperQ, completedQ, helper, doneDict, waiting>>

-----------------------------------------------------------------------------
(* Worker *)

StartWork(s) ==
    /\ pool[s] # <<>> /\ Cardinality(working[s]) < NumProcesses[s]
    /\ working' = [working EXCEPT ![s] =
                      @ \cup {[task |-> Head(pool[s]), next |-> "work"]}]
    /\ pool' = [pool EXCEPT ![s] = Tail(@)]
    /\ UNCHANGED <<queue, main, mycache, raised,
                   helperQ, completedQ, helper, doneDict, waiting>>

Becomes(s, w, v) == working' = [working EXCEPT ![s] = (@ \ {w}) \cup {v}]

\* A build gives an image, a test a cost; a test that fails three times costs
\* the largest number.
Work(s, w) ==
    /\ w.next = "work"
    /\ \E r \in IF s = "build" THEN Images ELSE Costs :
           Becomes(s, w, [task |-> SetResult(s, w.task, r), next |-> "completed"])
    /\ UNCHANGED <<queue, main, mycache, pool, raised,
                   helperQ, completedQ, helper, doneDict, waiting>>

\* A build that fails three times has no checksum to return, and neither stage
\* catches the exceptions of its command: the pool keeps the exception, for
\* nobody.
WorkRaises(s, w) ==
    /\ MayRaise /\ w.next = "work"
    /\ working' = [working EXCEPT ![s] = @ \ {w}]
    /\ raised' = [raised EXCEPT ![s] = @ \cup {w.task.flags}]
    /\ UNCHANGED <<queue, main, mycache, pool,
                   helperQ, completedQ, helper, doneDict, waiting>>

PutCompleted(s, w) ==
    /\ w.next = "completed"
    /\ completedQ' = [completedQ EXCEPT ![s] =
                         Append(@, <<Identifier(s, w.task), Result(s, w.task)>>)]
    /\ Becomes(s, w, [w EXCEPT !.next = "result"])
    /\ UNCHANGED <<queue, main, mycache, pool, raised,
                   helperQ, helper, doneDict, waiting>>

PutResult(s, w) ==
    /\ w.next = "result"
    /\ Put(Output(s), w.task)
    /\ working' = [working EXCEPT ![s] = @ \ {w}]
    /\ UNCHANGED <<main, mycache, pool, raised,
                   helperQ, completedQ, helper, doneDict, waiting>>

-----------------------------------------------------------------------------
(* Helper *)

\* One duplicate from the main process; then the helper looks at the completed
\* queue.
GetDuplicate(s) ==
    /\ helper[s] = "loop" /\ helperQ[s] # <<>> /\ Head(helperQ[s]) # PoisonPill
    /\ LET task == Head(helperQ[s])
           key  == Identifier(s, task)
       IN  \/ /\ key \in DOMAIN doneDict[s]
              /\ Put(Output(s), SetResult(s, task, doneDict[s][key]))
              /\ UNCHANGED waiting
           \/ /\ key \notin DOMAIN doneDict[s]
              /\ waiting' = [waiting EXCEPT ![s] = Append(@, task)]
              /\ UNCHANGED queue
    /\ helperQ' = [helperQ EXCEPT ![s] = Tail(@)]
    /\ helper' = [helper EXCEPT ![s] = "check"]
    /\ UNCHANGED <<main, mycache, pool, working, raised, completedQ, doneDict>>

GetPoisonPill(s) ==
    /\ helper[s] = "loop" /\ helperQ[s] # <<>> /\ Head(helperQ[s]) = PoisonPill
    /\ helperQ' = [helperQ EXCEPT ![s] = Tail(@)]
    /\ helper' = [helper EXCEPT ![s] = "drain"]
    /\ UNCHANGED <<queue, main, mycache, pool, working, raised,
                   completedQ, doneDict, waiting>>

\* The tasks in the waiting list with this key.
Waiters(s, key) == {m \in InQueue(waiting[s]) : Identifier(s, m) = key}

\* Mutant: the duplicates that have been answered are not removed.
StillWaiting(s, key) == waiting[s]

\* Mutant: the duplicates of other keys are removed as well.
NoneWaiting(s, key) == <<>>

Unanswered(s, key) == Select(waiting[s], InQueue(waiting[s]) \ Waiters(s, key))

\* GetResultFromCompletedQueue with a result in the queue: all the duplicates
\* that wait for it are answered.
GetCompleted(s) ==
    /\ \/ helper[s] = "check"
       \/ helper[s] = "loop" /\ helperQ[s] = <<>>
       \/ helper[s] = "drain" /\ waiting[s] # <<>>
    /\ completedQ[s] # <<>>
    /\ LET key    == Head(completedQ[s])[1]
           result == Head(completedQ[s])[2]
           tasks  == Select(waiting[s], Waiters(s, key))
       IN  /\ doneDict' = [doneDict EXCEPT ![s] =
                  [k \in DOMAIN @ \cup {key} |-> IF k = key THEN result ELSE @[k]]]
           /\ queue' = [queue EXCEPT ![Output(s)] =
                  @ \o [i \in DOMAIN tasks |-> SetResult(s, tasks[i], result)]]
           /\ waiting' = [waiting EXCEPT ![s] = Unanswered(s, key)]
    /\ completedQ' = [completedQ EXCEPT ![s] = Tail(@)]
    /\ helper' = [helper EXCEPT ![s] = IF @ = "drain" THEN "drain" ELSE "loop"]
    /\ UNCHANGED <<main, mycache, pool, working, raised, helperQ>>

\* The same with nothing in the queue.
NothingCompleted(s) ==
    /\ helper[s] = "check" /\ completedQ[s] = <<>>
    /\ helper' = [helper EXCEPT ![s] = "loop"]
    /\ UNCHANGED <<queue, main, mycache, pool, working, raised,
                   helperQ, completedQ, doneDict, waiting>>

\* Mutant: the helper also waits until nothing is completed.
LeaveWhenAllRead(s) == waiting[s] = <<>> /\ completedQ[s] = <<>>

MayLeave(s) == waiting[s] = <<>>

HelperEnds(s) ==
    /\ helper[s] = "drain" /\ MayLeave(s)
    /\ helper' = [helper EXCEPT ![s] = "ended"]
    /\ UNCHANGED <<queue, main, mycache, pool, working, raised,
                   helperQ, completedQ, doneDict, waiting>>

-----------------------------------------------------------------------------

MainStep(s) == Pull(s) \/ PullPoisonPill(s) \/ JoinPool(s) \/ JoinHelper(s)

PoolStep(s) ==
    \/ StartWork(s)
    \/ \E w \in working[s] : \/ Work(s, w) \/ WorkRaises(s, w)
                             \/ PutCompleted(s, w) \/ PutResult(s, w)

HelperStep(s) ==
    \/ GetDuplicate(s) \/ GetPoisonPill(s)
    \/ GetCompleted(s) \/ NothingCompleted(s) \/ HelperEnds(s)
=============================================================================
