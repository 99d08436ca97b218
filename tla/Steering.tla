------------------------------ MODULE Steering -------------------------------
(***************************************************************************)
(* bestflags/steering.py on top of the pipeline: the tasks of a generation *)
(* are sent to the build stage, their results come back from the test      *)
(* stage, and the search algorithm makes the next generation of them.      *)
(*                                                                         *)
(* The algorithms of the repository start with one generation and make at  *)
(* most one out of it, which is why the list of waiting generations is the *)
(* one "generation" here.                                                  *)
(***************************************************************************)
EXTENDS Pipeline

VARIABLES
    steering,   \* what the steering process is about to do
    toSend,     \* the tasks of the generation that have not been sent
    generation, \* the generation that is waited for
    cache,      \* the tasks that have been sent
    log         \* the logs of the tasks with results, LogSteeringCost

vars == <<queue, stageVars, steering, toSend, generation, cache, log>>

Init ==
    /\ InitStages
    /\ generation \in FirstGenerations
    /\ steering = "send"
    /\ toSend = DOMAIN generation.pool
    /\ cache = {}
    /\ log = [t \in {} |-> None]

\* Tasks are sent one by one, in the order of a Python set.
Send ==
    /\ steering = "send"
    /\ \E t \in toSend :
        /\ Put("build", [flags |-> t, image |-> None, cost |-> None])
        /\ cache' = cache \cup {t}
        /\ toSend' = toSend \ {t}
        /\ steering' = IF toSend' = {} THEN "wait" ELSE "send"
    /\ UNCHANGED <<stageVars, generation, log>>

\* The generation with the result of task m.
WithResult(m) == Updated(generation, m.flags, m.cost)

Logged(m) ==
    log' = [t \in DOMAIN log \cup {m.flags} |->
               IF t = m.flags THEN [image |-> m.image, cost |-> m.cost] ELSE log[t]]

Arrived == steering = "wait" /\ queue["steering"] # <<>>

Receive ==
    /\ Arrived
    /\ LET m == Head(queue["steering"])
       IN  /\ ~Done(WithResult(m))
           /\ generation' = WithResult(m)
           /\ Logged(m)
    /\ queue' = [queue EXCEPT !["steering"] = Tail(@)]
    /\ UNCHANGED <<stageVars, steering, toSend, cache>>

\* The last result of a generation: the next one, if there is one.  A next
\* generation without tasks fails an assertion.
NextGeneration ==
    /\ Arrived
    /\ LET m == Head(queue["steering"])
       IN  /\ Done(WithResult(m))
           /\ Logged(m)
           /\ \E g \in NextGenerations(WithResult(m), cache) :
                  /\ generation' = g
                  /\ toSend' = DOMAIN g.pool
                  /\ steering' = IF toSend' = {} THEN "raised" ELSE "send"
    /\ queue' = [queue EXCEPT !["steering"] = Tail(@)]
    /\ UNCHANGED <<stageVars, cache>>

Finish ==
    /\ Arrived
    /\ LET m == Head(queue["steering"])
       IN  /\ Done(WithResult(m))
           /\ MayEnd(WithResult(m))
           /\ generation' = WithResult(m)
           /\ Logged(m)
    /\ steering' = "ended"
    /\ queue' = [queue EXCEPT !["steering"] = Tail(@),
                              !["build"] = Append(@, PoisonPill)]
    /\ UNCHANGED <<stageVars, toSend, cache>>

SteeringStep == Send \/ Receive \/ NextGeneration \/ Finish

OfStage(step) == step /\ UNCHANGED <<steering, toSend, generation, cache, log>>

Next ==
    \/ \E s \in Stages : OfStage(MainStep(s) \/ PoolStep(s) \/ HelperStep(s))
    \/ SteeringStep

\* Every process goes on by itself; whether a worker raises is not its choice.
Fairness ==
    /\ \A s \in Stages : /\ WF_vars(OfStage(MainStep(s)))
                          /\ WF_vars(OfStage(PoolStep(s)))
                          /\ WF_vars(OfStage(HelperStep(s)))
    /\ WF_vars(SteeringStep)

Spec == Init /\ [][Next]_vars /\ Fairness
-----------------------------------------------------------------------------
(* Properties *)

\* The task records that stage s has, between its input and its output.
InStage(s) ==
    (InQueue(pool[s]) \cup InQueue(helperQ[s]) \cup InQueue(waiting[s])
        \cup {w.task : w \in working[s]}) \ {PoisonPill}

\* The tasks on their way, with the number of times they are.
Places(t) ==
    LET In(q) == Cardinality({i \in DOMAIN q : q[i] # PoisonPill /\ q[i].flags = t})
        InAll(s) == In(pool[s]) + In(helperQ[s]) + In(waiting[s]) + In(queue[s])
                    + Cardinality({w \in working[s] : w.task.flags = t})
    IN  InAll("build") + InAll("test") + In(queue["steering"])

\* Types: queues of tasks and poison pills, control states, known keys.
TypeOK ==
    /\ \A q \in DOMAIN queue : InQueue(queue[q]) \subseteq TaskRecords \cup {PoisonPill}
    /\ main \in [Stages -> {"pull", "join pool", "join helper", "ended"}]
    /\ helper \in [Stages -> {"loop", "check", "drain", "ended"}]
    /\ \A s \in Stages : InStage(s) \subseteq TaskRecords
    /\ raised \in [Stages -> SUBSET FlagSets]
    /\ steering \in {"send", "wait", "ended", "raised"}
    /\ cache \subseteq FlagSets
    /\ DOMAIN log \subseteq cache

\* A task that has been sent is in exactly one place until it is answered,
\* unless the worker that had it raised (pipeline_worker.py, Helper and
\* GetResultFromCompletedQueue move duplicates between lists and queues).
EveryTaskInOnePlace ==
    \A t \in cache :
        IF t \in DOMAIN log \cup raised["build"] \cup raised["test"]
        THEN Places(t) = 0 ELSE Places(t) = 1

\* The poison pill overtakes the tasks of its stage (pipeline_process.py puts
\* it into the output before the workers and the helper have finished), and
\* yet nothing is left behind it: not in the queue, not in the stage.
PillIsLast ==
    \A s \in Stages : main[s] # "pull" => queue[s] = <<>> /\ InStage(s) = {}

\* The assertions of Helper, Worker and UpdateTask: no task is done before its
\* stage, and each result belongs to the generation, which has not had it.
AssertionsHold ==
    /\ \A s \in Stages :
        /\ \A m \in InQueue(pool[s]) \cup InQueue(helperQ[s]) :
              m # PoisonPill => ~IsDone(s, m)
        /\ \A w \in working[s] : w.next = "work" => ~IsDone(s, w.task)
    /\ \A m \in InQueue(queue["steering"]) \ {PoisonPill} :
          m.flags \in DOMAIN generation.pool /\ generation.pool[m.flags] = None

CostOf == [t \in DOMAIN log |-> log[t].cost]

\* What a generation is compared with is as good as everything tested before
\* it: no algorithm loses the best task it has seen.
ParentIsBest ==
    \A t \in DOMAIN log \ DOMAIN generation.pool :
        MinCost(generation.parents) <= log[t].cost

\* Hill climbing and the elimination end at a task that is the best of all
\* they tested, and all the neighbours of which they tested.
EndsAtOptimum ==
    steering = "ended" /\ generation.alg \in {"hill", "elimination"} =>
        \E b \in Best(CostOf) :
            (IF generation.alg = "hill" THEN Neighbours(b) ELSE Decreased(b))
                \subseteq DOMAIN log

\* The processes end, all of them, unless a worker raised (nobody looks at its
\* exception) or the steering process made a generation without tasks.
EveryProcessEnds ==
    <>(\/ \A s \in Stages : main[s] = "ended" /\ steering = "ended"
       \/ steering = "raised"
       \/ \E s \in Stages : raised[s] # {})

-----------------------------------------------------------------------------
(* The pipeline implements TaskService.  What has been built or tested is  *)
(* what the helper knows, what lies in its queue, and what a worker is     *)
(* about to put there.                                                     *)

Results(s) ==
    {<<k, doneDict[s][k]>> : k \in DOMAIN doneDict[s]}
    \cup InQueue(completedQ[s])
    \cup {<<Identifier(s, w.task), Result(s, w.task)>> :
             w \in {v \in working[s] : v.next = "completed"}}

Service == INSTANCE TaskService
    WITH Tasks <- FlagSets, BuildKey <- FormattedForUse,
         asked <- cache, built <- Results("build"),
         tested <- Results("test"), answered <- log

\* Each distinct flag set is built once, each distinct image tested once, and
\* every task answered with the results of its own keys.
ImplementsService == Service!Spec
=============================================================================
