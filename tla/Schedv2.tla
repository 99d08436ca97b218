------------------------------- MODULE Schedv2 ------------------------------
(***************************************************************************)
(* crosperf/schedv2.py: one worker thread per DUT executes the benchmark   *)
(* runs (brs) of the label the DUT carries and then asks for another       *)
(* label; the main thread waits for the workers or interrupts them.        *)
(*                                                                         *)
(* pc[d] is the next statement of the worker of DUT d that matters to      *)
(* another thread.  The lists of brs are sets: their order is left open.   *)
(***************************************************************************)
EXTENDS MachineImageManager

CONSTANTS
    Brs,            \* the benchmark runs of the experiment
    None,           \* Python's None, for a br
    LabelOf,        \* LabelOf[b]: the label of br b
    Remote,         \* Remote[l]: label.remote
    LocalLabels,    \* the labels with a local image
    TrybotLabels,   \* the other labels that have a checksum
    KeepStateful,   \* BOOLEAN: --keep_stateful
    SameImage,      \* BOOLEAN: SetCheckSums may have imaged the DUTs
    MayHitCache,    \* BOOLEAN: brs may have a result in the cache
    MayFail,        \* BOOLEAN: imaging a DUT may fail
    MayExit,        \* BOOLEAN: LogFatal may be called in br.run()
    MayInterrupt    \* BOOLEAN: the user may press Ctrl-C

ASSUME BrAssumption ==
    /\ LabelOf \in [Brs -> Labels]
    /\ Remote \in [Labels -> SUBSET Duts]
    /\ LocalLabels \subseteq Labels
    /\ TrybotLabels \subseteq Labels \ LocalLabels
    /\ None \notin Brs

\* "No DUT": a lock nobody has made or holds, a br without an owner.
NoDut == 0

VARIABLES
    matrix, imaged,     \* MachineImageManager's matrix_ and |label_duts_|
    todo,               \* _label_brl_map
    cached,             \* _cached_br_list
    lockOf,             \* _lock_map: the worker that made the lock of a label
    made,               \* history: the workers that made a lock of a label
    imageLock,          \* MachineManager.image_lock: its holder
    pc,
    br,                 \* the br in the worker's hands
    choice,             \* the label allocate has chosen
    lock,               \* the lock lock_on(dut.label) returned: its maker
    stopped,            \* history: what ended the worker before its work was done
    label,              \* dut.label
    checksum,           \* dut.checksum, which MachineManager keeps
    image,              \* the image that is really on the DUT
    ckfile,             \* the label that the checksum file on the DUT names
    wTerminated,        \* DutWorker._terminated
    activeBr,           \* DutWorker._active_br
    owner,              \* br.owner_thread
    brTerminated,       \* br.terminated
    executed,           \* the brs whose run() has returned
    terminated,         \* Schedv2._terminated
    active,             \* _active_workers
    main,               \* "poll", "terminate", "cleanup", "end"
    index,              \* the position of terminate's loop over active
    terminating         \* the worker whose terminate() is being executed

mimVars == <<matrix, imaged>>
listVars == <<todo, cached, lockOf, made>>
workerVars == <<br, choice, lock, stopped>>
dutVars == <<label, checksum, image, ckfile, imageLock>>
brVars == <<activeBr, owner, executed>>
termVars == <<wTerminated, brTerminated, terminated>>
mainVars == <<active, main, index, terminating>>
vars == <<mimVars, listVars, pc, workerVars, dutVars, brVars, termVars, mainVars>>

Steps == {"cached", "runcached", "setup", "loop", "lookup", "newlock", "check",
          "pop", "execute", "activate", "start", "running", "finishbr",
          "raised", "allocate", "record", "reimage", "imagelock", "imaging",
          "finally", "done"}

\* What ends a worker early: nothing, imaging, a br that raised, or a pop from
\* an empty list.
Stops == {"no", "imaging", "br", "pop"}

\* Every variable has its type.
TypeOK ==
    /\ matrix \in Matrix
    /\ imaged \in [Labels -> Nat]
    /\ todo \in [Labels -> SUBSET Brs] /\ cached \subseteq Brs
    /\ lockOf \in [Labels -> Duts \cup {NoDut}] /\ made \in [Labels -> SUBSET Duts]
    /\ imageLock \in Duts \cup {NoDut}
    /\ pc \in [Duts -> Steps]
    /\ br \in [Duts -> Brs \cup {None}]
    /\ choice \in [Duts -> Labels \cup {NoLabel}]
    /\ lock \in [Duts -> Duts \cup {NoDut}] /\ stopped \in [Duts -> Stops]
    /\ label \in [Duts -> Labels \cup {NoLabel}]
    /\ checksum \in [Duts -> Labels \cup {NoLabel}]
    /\ image \in [Duts -> Labels \cup {NoLabel}]
    /\ ckfile \in [Duts -> LocalLabels \cup {NoLabel}]
    /\ wTerminated \in [Duts -> BOOLEAN]
    /\ activeBr \in [Duts -> Brs \cup {None}]
    /\ owner \in [Brs -> Duts \cup {NoDut}]
    /\ brTerminated \subseteq Brs /\ executed \subseteq Brs
    /\ terminated \in BOOLEAN
    /\ active \in Seq(Duts)
    /\ main \in {"poll", "terminate", "cleanup", "end"}
    /\ index \in Nat \ {0}
    /\ terminating \in Duts \cup {NoDut}

\* label.checksum: image files and trybot images have one.
Checksum(l) == IF l \in LocalLabels \cup TrybotLabels THEN l ELSE NoLabel

\* The DUTs carry any image.  Their checksum file names it or is not there;
\* where --keep_stateful is used it may be that of an image flashed before.
\* Only ForceSameImageToAllMachines has set labels and checksums so far.
InitialDuts ==
    /\ image \in [Duts -> Labels \cup {NoLabel}]
    /\ ckfile \in [Duts -> LocalLabels \cup {NoLabel}]
    /\ KeepStateful \/ \A d \in Duts : ckfile[d] \in {NoLabel, image[d]}
    /\ label \in [Duts -> IF SameImage THEN Labels \cup {NoLabel} ELSE {NoLabel}]
    /\ \A d \in Duts :
           label[d] # NoLabel => label[d] = image[d] /\ Compatible(Remote, label[d], d)
    /\ checksum = [d \in Duts |-> Checksum(label[d])]

\* __init__: the cache has been read, the brs without a hit are in the list
\* of their label, and the plan is made.
Init ==
    /\ matrix = InitialAllocation(BlankMatrix(Remote))
    /\ imaged = [l \in Labels |-> 0]
    /\ cached \in IF MayHitCache THEN SUBSET Brs ELSE {{}}
    /\ todo = [l \in Labels |-> {b \in Brs \ cached : LabelOf[b] = l}]
    /\ lockOf = [l \in Labels |-> NoDut] /\ made = [l \in Labels |-> {}]
    /\ imageLock = NoDut
    /\ pc = [d \in Duts |-> "cached"]
    /\ br = [d \in Duts |-> None]
    /\ choice = [d \in Duts |-> NoLabel]
    /\ lock = [d \in Duts |-> NoDut] /\ stopped = [d \in Duts |-> "no"]
    /\ InitialDuts
    /\ wTerminated = [d \in Duts |-> FALSE]
    /\ activeBr = [d \in Duts |-> None]
    /\ owner = [b \in Brs |-> NoDut]
    /\ brTerminated = {} /\ executed = {}
    /\ terminated = FALSE
    /\ active = [d \in Duts |-> d]
    /\ main = "poll" /\ index = 1 /\ terminating = NoDut

At(d, step) == pc[d] = step
Goto(d, step) == pc' = [pc EXCEPT ![d] = step]

-----------------------------------------------------------------------------
(* DutWorker.run: the cached brs and the label of the DUT *)

\* get_cached_benchmark_run, under its lock.
GetCached(d) ==
    /\ At(d, "cached")
    /\ \/ /\ \E b \in cached : /\ cached' = cached \ {b}
                               /\ br' = [br EXCEPT ![d] = b]
          /\ Goto(d, "runcached")
       \/ /\ cached = {}
          /\ Goto(d, "setup")
          /\ UNCHANGED <<cached, br>>
    /\ UNCHANGED <<mimVars, todo, lockOf, made, choice, lock, stopped, dutVars,
                   brVars, termVars, mainVars>>

\* br.run() of a cache hit touches no DUT.
RunCached(d) ==
    /\ At(d, "runcached")
    /\ executed' = executed \cup {br[d]}
    /\ br' = [br EXCEPT ![d] = None]
    /\ Goto(d, "cached")
    /\ UNCHANGED <<mimVars, listVars, choice, lock, stopped, dutVars, activeBr,
                   owner, termVars, mainVars>>

\* _setup_dut_label: the checksum file names a label, or it cannot be read or
\* names none, or reading it raises.
SetupDutLabel(d) ==
    /\ At(d, "setup")
    /\ \/ UNCHANGED label
       \/ label' = [label EXCEPT ![d] = NoLabel]
       \/ /\ ckfile[d] # NoLabel
          /\ label' = [label EXCEPT ![d] = ckfile[d]]
    /\ Goto(d, "loop")
    /\ UNCHANGED <<mimVars, listVars, workerVars, checksum, image, ckfile,
                   imageLock, brVars, termVars, mainVars>>

-----------------------------------------------------------------------------
(* get_benchmark_run *)

\* The loop condition and the early returns.
Loop(d) ==
    /\ At(d, "loop")
    /\ Goto(d, IF wTerminated[d] THEN "finally"
               ELSE IF terminated \/ label[d] = NoLabel THEN "allocate"
               ELSE "lookup")
    /\ UNCHANGED <<mimVars, listVars, workerVars, dutVars, brVars, termVars,
                   mainVars>>

\* lock_on: the lock of the label; who finds none runs the default factory.
LookUpLock(d) ==
    LET l == label[d] IN
    /\ At(d, "lookup")
    /\ \/ /\ lockOf[l] # NoDut
          /\ lock' = [lock EXCEPT ![d] = lockOf[l]]
          /\ Goto(d, "check")
       \/ lockOf[l] = NoDut /\ Goto(d, "newlock") /\ UNCHANGED lock
    /\ UNCHANGED <<mimVars, listVars, br, choice, stopped, dutVars, brVars,
                   termVars, mainVars>>

\* The default factory has returned: its lock goes into the map, whatever is
\* there by now.
NewLock(d) ==
    /\ At(d, "newlock")
    /\ lockOf' = [lockOf EXCEPT ![label[d]] = d]
    /\ made' = [made EXCEPT ![label[d]] = @ \cup {d}]
    /\ lock' = [lock EXCEPT ![d] = d]
    /\ Goto(d, "check")
    /\ UNCHANGED <<mimVars, todo, cached, br, choice, stopped, dutVars, brVars,
                   termVars, mainVars>>

\* Mutant: no lock is taken.
NeverLocked(d) == FALSE

\* Another worker is between "if not brl" and the end of the with statement.
Locked(d) ==
    \E e \in Duts : At(e, "pop") /\ label[e] = label[d] /\ lock[e] = lock[d]

\* "if not brl: return None", with the lock taken.
CheckList(d) ==
    /\ At(d, "check") /\ ~Locked(d)
    /\ Goto(d, IF todo[label[d]] = {} THEN "allocate" ELSE "pop")
    /\ UNCHANGED <<mimVars, listVars, workerVars, dutVars, brVars, termVars,
                   mainVars>>

\* Mutant: the br stays in the list of its label.
TakeAndKeep(d) ==
    \E b \in todo[label[d]] :
        /\ br' = [br EXCEPT ![d] = b]
        /\ UNCHANGED todo

\* brl.pop of a list with elements.
Take(d) ==
    \E b \in todo[label[d]] :
        /\ br' = [br EXCEPT ![d] = b]
        /\ todo' = [todo EXCEPT ![label[d]] = @ \ {b}]

\* brl.pop(0); on an empty list it raises, which ends the worker.
Pop(d) ==
    /\ At(d, "pop")
    /\ \/ Take(d) /\ Goto(d, "execute") /\ UNCHANGED stopped
       \/ /\ todo[label[d]] = {}
          /\ stopped' = [stopped EXCEPT ![d] = "pop"]
          /\ Goto(d, "finally")
          /\ UNCHANGED <<br, todo>>
    /\ UNCHANGED <<mimVars, cached, lockOf, made, choice, lock, dutVars, brVars,
                   termVars, mainVars>>

-----------------------------------------------------------------------------
(* _execute_benchmark_run *)

\* The check of the termination flag: the br is dropped.
Execute(d) ==
    /\ At(d, "execute")
    /\ \/ wTerminated[d] /\ Goto(d, "loop") /\ UNCHANGED owner
       \/ /\ ~wTerminated[d] /\ Goto(d, "activate")
          /\ owner' = [owner EXCEPT ![br[d]] = d]
    /\ br' = IF wTerminated[d] THEN [br EXCEPT ![d] = None] ELSE br
    /\ UNCHANGED <<mimVars, listVars, choice, lock, stopped, dutVars, activeBr,
                   executed, termVars, mainVars>>

Activate(d) ==
    /\ At(d, "activate")
    /\ activeBr' = [activeBr EXCEPT ![d] = br[d]]
    /\ Goto(d, "start")
    /\ UNCHANGED <<mimVars, listVars, workerVars, dutVars, owner, executed,
                   termVars, mainVars>>

\* br.run: the DUT is used as it is, and the test starts.
StartBr(d) ==
    /\ At(d, "start")
    /\ Goto(d, "running")
    /\ UNCHANGED <<mimVars, listVars, workerVars, dutVars, brVars, termVars,
                   mainVars>>

\* br.run returns, or it raises: LogFatal in the test suite or the cache, or
\* a status that Terminate has recorded already.
BrEnds(d) ==
    /\ At(d, "running")
    /\ \/ /\ Goto(d, "finishbr")
          /\ executed' = executed \cup {br[d]}
       \/ /\ MayExit \/ br[d] \in brTerminated
          /\ Goto(d, "raised")
          /\ UNCHANGED executed
    /\ UNCHANGED <<mimVars, listVars, workerVars, dutVars, activeBr, owner,
                   termVars, mainVars>>

\* The finally clause; an exception ends the worker.
FinishBr(d) ==
    /\ pc[d] \in {"finishbr", "raised"}
    /\ activeBr' = [activeBr EXCEPT ![d] = None]
    /\ br' = [br EXCEPT ![d] = None]
    /\ \/ At(d, "raised") /\ stopped' = [stopped EXCEPT ![d] = "br"] /\ Goto(d, "finally")
       \/ At(d, "finishbr") /\ UNCHANGED stopped /\ Goto(d, "loop")
    /\ UNCHANGED <<mimVars, listVars, choice, lock, dutVars, owner, executed,
                   termVars, mainVars>>

-----------------------------------------------------------------------------
(* allocate_label and _reimage *)

\* MachineImageManager.allocate chooses with the numbers as they are now.
\* None ends the worker.
AllocateLabel(d) ==
    LET pending == [l \in Labels |-> Cardinality(todo[l])]
        labels == IF terminated THEN {} ELSE LabelFor(matrix, d, imaged, pending)
    IN  /\ At(d, "allocate")
        /\ \/ /\ \E l \in labels : choice' = [choice EXCEPT ![d] = l]
              /\ Goto(d, "record")
           \/ labels = {} /\ Goto(d, "finally") /\ UNCHANGED choice
        /\ UNCHANGED <<mimVars, listVars, br, lock, stopped, dutVars, brVars,
                       termVars, mainVars>>

\* ... and marks its choice later: no lock makes the two one step.
RecordAllocation(d) ==
    /\ At(d, "record")
    /\ matrix' = [matrix EXCEPT ![choice[d]][d] = "taken"]
    /\ imaged' = [imaged EXCEPT ![choice[d]] = @ + 1]
    /\ Goto(d, "reimage")
    /\ UNCHANGED <<listVars, workerVars, dutVars, brVars, termVars, mainVars>>

\* The early return of ImageMachine.
AlreadyImaged(d) ==
    Checksum(choice[d]) # NoLabel /\ checksum[d] = Checksum(choice[d])

\* _reimage up to image_lock.
Reimage(d) ==
    /\ At(d, "reimage")
    /\ \/ wTerminated[d] /\ Goto(d, "finally") /\ UNCHANGED label
       \/ /\ ~wTerminated[d] /\ AlreadyImaged(d)
          /\ label' = [label EXCEPT ![d] = choice[d]]
          /\ Goto(d, "loop")
       \/ /\ ~wTerminated[d] /\ ~AlreadyImaged(d)
          /\ Goto(d, "imagelock")
          /\ UNCHANGED label
    /\ UNCHANGED <<mimVars, listVars, workerVars, checksum, image, ckfile,
                   imageLock, brVars, termVars, mainVars>>

TakeImageLock(d) ==
    /\ At(d, "imagelock") /\ imageLock = NoDut
    /\ imageLock' = d
    /\ Goto(d, "imaging")
    /\ UNCHANGED <<mimVars, listVars, workerVars, label, checksum, image, ckfile,
                   brVars, termVars, mainVars>>

\* DoImage of a local image skips a DUT whose checksum file names it.
FlashSkipped(d) == choice[d] \in LocalLabels /\ ckfile[d] = choice[d]

\* The checksum file after a flash: it lives on the stateful partition, and
\* only a local image writes its own.
FlashedFile(d) ==
    IF choice[d] \in LocalLabels THEN choice[d]
    ELSE IF KeepStateful THEN ckfile[d] ELSE NoLabel

\* DoImage returns 0, and ImageMachine records the image.
Imaged(d) ==
    /\ \/ FlashSkipped(d) /\ UNCHANGED <<image, ckfile>>
       \/ /\ ~FlashSkipped(d)
          /\ image' = [image EXCEPT ![d] = choice[d]]
          /\ ckfile' = [ckfile EXCEPT ![d] = FlashedFile(d)]
    /\ checksum' = [checksum EXCEPT ![d] = Checksum(choice[d])]
    /\ label' = [label EXCEPT ![d] = choice[d]]
    /\ imageLock' = NoDut

ImageOk(d) ==
    /\ At(d, "imaging")
    /\ Imaged(d)
    /\ Goto(d, "loop")
    /\ UNCHANGED <<mimVars, listVars, workerVars, brVars, termVars, mainVars>>

\* GetChromeVersion of a new image raises what _reimage does not catch.
VersionFails(d) ==
    /\ MayFail
    /\ At(d, "imaging")
    /\ Imaged(d)
    /\ stopped' = [stopped EXCEPT ![d] = "imaging"]
    /\ Goto(d, "finally")
    /\ UNCHANGED <<mimVars, listVars, br, choice, lock, brVars, termVars, mainVars>>

\* Mutant: the worker goes on after a failed flash.
TryNextLabel == "loop"

\* "Dut is doomed, stop this thread."
AfterFailure == "finally"

\* The flash fails and leaves anything on the DUT, or a local image does not
\* verify after its checksum has been written.
FlashFails(d) ==
    /\ ~FlashSkipped(d)
    /\ \/ /\ \E i \in {image[d], choice[d], NoLabel} : image' = [image EXCEPT ![d] = i]
          /\ \E f \in {ckfile[d], NoLabel} : ckfile' = [ckfile EXCEPT ![d] = f]
       \/ /\ choice[d] \in LocalLabels
          /\ image' = [image EXCEPT ![d] = NoLabel]
          /\ ckfile' = [ckfile EXCEPT ![d] = choice[d]]

\* ImageMachine fails or raises, and records nothing.
ImageFails(d) ==
    /\ MayFail
    /\ At(d, "imaging")
    /\ FlashFails(d)
    /\ imageLock' = NoDut
    /\ stopped' = [stopped EXCEPT ![d] = "imaging"]
    /\ Goto(d, AfterFailure)
    /\ UNCHANGED <<mimVars, listVars, br, choice, lock, label, checksum, brVars,
                   termVars, mainVars>>

\* Mutant: a worker whose DUT has no label is not reported.
FinishedWithLabel(d) ==
    \E i \in 1 .. Len(active) :
        /\ active[i] = d
        /\ active' = IF label[d] = NoLabel THEN active
                     ELSE SubSeq(active, 1, i - 1) \o SubSeq(active, i + 1, Len(active))

\* dut_worker_finished: _active_workers.remove(dut_worker).
DutWorkerFinished(d) ==
    \E i \in 1 .. Len(active) :
        /\ active[i] = d
        /\ active' = SubSeq(active, 1, i - 1) \o SubSeq(active, i + 1, Len(active))

Finally(d) ==
    /\ At(d, "finally")
    /\ DutWorkerFinished(d)
    /\ Goto(d, "done")
    /\ UNCHANGED <<mimVars, listVars, workerVars, dutVars, brVars, termVars, main,
                   index, terminating>>

-----------------------------------------------------------------------------
(* The main thread *)

\* is_complete.
IsComplete ==
    /\ main = "poll" /\ active = <<>>
    /\ main' = "cleanup"
    /\ UNCHANGED <<mimVars, listVars, pc, workerVars, dutVars, brVars, termVars,
                   active, index, terminating>>

\* Ctrl-C: terminate sets its flag and starts its loop.
Interrupt ==
    /\ MayInterrupt
    /\ main = "poll"
    /\ terminated' = TRUE
    /\ main' = "terminate"
    /\ UNCHANGED <<mimVars, listVars, pc, workerVars, dutVars, brVars,
                   wTerminated, brTerminated, active, index, terminating>>

\* The next worker of the loop, by its position in a list that may shrink.
TerminateWorker ==
    /\ main = "terminate" /\ terminating = NoDut
    /\ index <= Len(active)
    /\ wTerminated' = [wTerminated EXCEPT ![active[index]] = TRUE]
    /\ terminating' = active[index]
    /\ index' = index + 1
    /\ UNCHANGED <<mimVars, listVars, pc, workerVars, dutVars, brVars,
                   brTerminated, terminated, active, main>>

\* Mutant: "if self._active_br is not None" is missing.
TerminatedUnchecked == brTerminated \cup {activeBr[terminating]}

\* br.terminated of the br the worker is executing, if there is one.
TerminatedBrs ==
    brTerminated \cup {b \in Brs : b = activeBr[terminating]}

\* The br the worker is executing; its Terminate may trip an assertion while
\* the br records a status, which ends the loop.
TerminateBr ==
    /\ main = "terminate" /\ terminating # NoDut
    /\ terminating' = NoDut
    /\ brTerminated' = TerminatedBrs
    /\ \/ UNCHANGED main
       \/ At(terminating, "running") /\ main' = "cleanup"
    /\ UNCHANGED <<mimVars, listVars, pc, workerVars, dutVars, brVars,
                   wTerminated, terminated, active, index>>

AllTerminated ==
    /\ main = "terminate" /\ terminating = NoDut
    /\ index > Len(active)
    /\ main' = "cleanup"
    /\ UNCHANGED <<mimVars, listVars, pc, workerVars, dutVars, brVars, termVars,
                   active, index, terminating>>

\* Experiment.Cleanup unlocks the DUTs.
CleanUp ==
    /\ main = "cleanup"
    /\ main' = "end"
    /\ UNCHANGED <<mimVars, listVars, pc, workerVars, dutVars, brVars, termVars,
                   active, index, terminating>>

\* The experiment is over.
Ended ==
    /\ main = "end" /\ \A d \in Duts : At(d, "done")
    /\ UNCHANGED vars

-----------------------------------------------------------------------------
WorkerStep(d) ==
    \/ GetCached(d) \/ RunCached(d) \/ SetupDutLabel(d)
    \/ Loop(d) \/ LookUpLock(d) \/ NewLock(d) \/ CheckList(d) \/ Pop(d)
    \/ Execute(d) \/ Activate(d) \/ StartBr(d) \/ BrEnds(d) \/ FinishBr(d)
    \/ AllocateLabel(d) \/ RecordAllocation(d) \/ Reimage(d)
    \/ TakeImageLock(d) \/ ImageOk(d) \/ VersionFails(d) \/ ImageFails(d)
    \/ Finally(d)

MainStep ==
    \/ IsComplete \/ Interrupt \/ TerminateWorker \/ TerminateBr
    \/ AllTerminated \/ CleanUp

Next == (\E d \in Duts : WorkerStep(d)) \/ MainStep \/ Ended

Spec == Init /\ [][Next]_vars

\* Every thread is scheduled.  A lock is only ever asked for a bounded number
\* of times, so no fairness of the locks is needed.  Nothing makes the user
\* interrupt the experiment.
Fairness ==
    /\ \A d \in Duts : WF_vars(WorkerStep(d))
    /\ WF_vars(IsComplete) /\ WF_vars(TerminateWorker) /\ WF_vars(TerminateBr)
    /\ WF_vars(AllTerminated) /\ WF_vars(CleanUp)

FairSpec == Spec /\ Fairness
-----------------------------------------------------------------------------
(* Properties *)

\* A br is in one place only: in the list of its label, in the list of the
\* cached ones, or in the hands of one worker; and no worker takes a br that
\* has an owner already ("assert br.owner_thread is None").
EachBrOnce ==
    /\ \A d \in Duts : At(d, "execute") => owner[br[d]] = NoDut
    /\ \A d, e \in Duts : br[d] # None /\ br[d] = br[e] => d = e
    /\ \A d \in Duts : br[d] \notin cached
    /\ \A d \in Duts, l \in Labels : br[d] \notin todo[l]

\* "Machine image is guarenteed": while a br of a DUT worker executes its
\* test, the DUT carries the image of the br's label, although the worker
\* never checks it, imaging may fail and is skipped on known checksums and
\* on the checksum file of the DUT.  Without --keep_stateful.
RightImage ==
    \A d \in Duts : At(d, "running") => image[d] = LabelOf[br[d]]

\* Two workers have each made a lock for label l.
Raced(l) == \E d, e \in made[l] : d # e

\* "If no such br could be found, return None": a worker that has found a br
\* in the list of its label, under the label's lock, gets one, unless two
\* workers have made a lock for the label in _lock_map.
PopFindsBr ==
    \A d \in Duts : At(d, "pop") => todo[label[d]] # {} \/ Raced(label[d])

\* Every br is executed when nothing fails and nobody interrupts: whatever the
\* DUTs carry at the start and in whichever order the workers take brs and
\* labels, none stops while brs are left that only its DUT can execute.  What
\* may fail is imaging, a br, or the pop of a worker that shares its list
\* with another one under two locks.
EveryBrIsExecuted ==
    <>(executed = Brs \/ terminated \/ \E d \in Duts : stopped[d] # "no")

\* The experiment ends: no failure of a flash or a br and no interruption
\* leaves a worker in the list of the active ones, waiting for a lock, or
\* the main thread in its loop.
ExperimentEnds == <>(main = "end" /\ \A d \in Duts : At(d, "done"))
=============================================================================
