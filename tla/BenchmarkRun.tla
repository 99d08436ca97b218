---------------------------- MODULE BenchmarkRun ----------------------------
(***************************************************************************)
(* crosperf/benchmark_run.py and the thread side of experiment.py, in the  *)
(* mode without the central scheduler (--noschedv2): one thread per        *)
(* benchmark run, all of them competing for the machines of the            *)
(* MachineManager, while the main thread may interrupt the experiment.     *)
(*                                                                         *)
(* pc[r] is the next statement of run() that matters to another thread.    *)
(* The seconds of the code are ticks here (FreshAge, StaleAge, PollTime).  *)
(***************************************************************************)
EXTENDS MachineManager, Sequences

CONSTANTS
    LabelOf,        \* LabelOf[r]: the label of run r
    CacheOnly,      \* the labels with cache_only set
    PollTime,       \* 10 s: the sleep of BenchmarkRun.AcquireMachine
    MayHitCache,    \* BOOLEAN: results may be found in the cache
    MayFail,        \* BOOLEAN: flashing and cache reading may fail
    MayDisconnect,  \* BOOLEAN: devices may stop answering
    MayInterrupt    \* BOOLEAN: the user may press Ctrl-C

ASSUME RunAssumption ==
    /\ LabelOf \in [Runs -> Labels]
    /\ CacheOnly \subseteq Labels

ASSUME PollAssumption ==
    PollTime \in Nat /\ FreshAge < PollTime /\ PollTime <= StaleAge

VARIABLES
    pc,             \* where the thread of the run is
    mach,           \* self.machine
    retval,         \* self.result.retval; None while there is no result
    timer,          \* ticks left of the thread's current sleep
    terminated,     \* self.terminated
    timeline,       \* self.timeline: the statuses recorded, in order
    recordFailed,   \* runs on which "already recorded" has been asserted
    main,           \* the main thread: "poll", "terminate", "cleanup", "end"
    toTerminate,    \* the runs Experiment.Terminate has not handled yet
    deciding        \* the run whose last event Terminate has just compared

threadVars == <<pc, mach, retval, timer>>
statusVars == <<terminated, timeline, recordFailed>>
mainVars == <<main, toTerminate, deciding>>
vars == <<mmVars, threadVars, statusVars, mainVars>>

Status == {"PENDING", "WAITING", "IMAGING", "RUNNING", "SUCCEEDED", "FAILED"}

Steps == {"readcache", "check", "acquire", "lockwait", "sleep", "image",
          "imagelock", "flash", "reflash", "version", "run", "testing",
          "finish", "record", "recordfail", "except", "exceptfail", "finally", "remove",
          "release", "done"}

\* The steps at which run() has a machine of its own.
UsingSteps == {"image", "imagelock", "flash", "reflash", "version", "run",
               "testing"}

MaxSleep == IF CheckInterval > PollTime THEN CheckInterval ELSE PollTime

\* Every variable has its type.
TypeOK ==
    /\ TypeOKManager
    /\ pc \in [Runs -> Steps]
    /\ mach \in [Runs -> Machines \cup {None}]
    /\ retval \in [Runs -> {0, 1, None}]
    /\ timer \in [Runs -> 0 .. MaxSleep]
    /\ terminated \in [Runs -> BOOLEAN]
    /\ timeline \in [Runs -> Seq(Status)]
    /\ recordFailed \subseteq Runs
    /\ main \in {"poll", "terminate", "cleanup", "end"}
    /\ toTerminate \subseteq Runs
    /\ deciding \in Runs \cup {None}

Init ==
    /\ InitManager
    /\ pc = [r \in Runs |-> "readcache"]
    /\ mach = [r \in Runs |-> None]
    /\ retval = [r \in Runs |-> None]
    /\ timer = [r \in Runs |-> 0]
    /\ terminated = [r \in Runs |-> FALSE]
    /\ timeline = [r \in Runs |-> <<"PENDING">>]
    /\ recordFailed = {}
    /\ main = "poll"
    /\ toTerminate = {}
    /\ deciding = None

-----------------------------------------------------------------------------
(* The timeline *)

LastEvent(r) == timeline[r][Len(timeline[r])]

Recorded(r, event) == \E i \in 1 .. Len(timeline[r]) : timeline[r][i] = event

\* Timeline.Record asserts that the event is new; the assertion error leaves
\* the timeline as it is.
Record(r, event) ==
    IF Recorded(r, event)
    THEN /\ recordFailed' = recordFailed \cup {r}
         /\ UNCHANGED timeline
    ELSE /\ timeline' = [timeline EXCEPT ![r] = Append(@, event)]
         /\ UNCHANGED recordFailed

Goto(r, step) == pc' = [pc EXCEPT ![r] = step]

-----------------------------------------------------------------------------
(* run(): the thread of run r *)

\* ReadCache raises: the run fails.
ReadCacheFails(r) ==
    /\ MayFail
    /\ pc[r] = "readcache"
    /\ Goto(r, "except")
    /\ UNCHANGED <<mmVars, mach, retval, timer, statusVars, mainVars>>

\* A result from the cache, or the failed result of a cache_only label.
CacheDecides(r) ==
    /\ pc[r] = "readcache"
    /\ \/ MayHitCache /\ \E v \in {0, 1} : retval' = [retval EXCEPT ![r] = v]
       \/ LabelOf[r] \in CacheOnly /\ retval' = [retval EXCEPT ![r] = 1]
    /\ Goto(r, "finish")
    /\ UNCHANGED <<mmVars, mach, timer, statusVars, mainVars>>

CacheMiss(r) ==
    /\ pc[r] = "readcache"
    /\ LabelOf[r] \notin CacheOnly
    /\ Record(r, "WAITING")
    /\ Goto(r, "check")
    /\ UNCHANGED <<mmVars, mach, retval, timer, terminated, mainVars>>

\* The top of the loop of BenchmarkRun.AcquireMachine.
CheckTerminated(r) ==
    /\ pc[r] = "check"
    /\ Goto(r, IF terminated[r] THEN "except" ELSE "acquire")
    /\ UNCHANGED <<mmVars, mach, retval, timer, statusVars, mainVars>>

\* The thread may run the body of AcquireMachine: it has or can get _lock.
CanLock(r) ==
    \/ pc[r] = "acquire" /\ mmLock = None
    \/ pc[r] = "lockwait" /\ timer[r] = 0

Acquired(r) ==
    /\ CanLock(r)
    /\ \E m \in Machines :
          /\ AcquireMachine(LabelOf[r], m)
          /\ mach' = [mach EXCEPT ![r] = m]
    /\ Goto(r, "image")
    /\ UNCHANGED <<retval, timer, statusVars, mainVars>>

NoneAcquired(r) ==
    /\ CanLock(r)
    /\ AcquireNothing(LabelOf[r])
    /\ timer' = [timer EXCEPT ![r] = PollTime]
    /\ Goto(r, "sleep")
    /\ UNCHANGED <<mach, retval, statusVars, mainVars>>

WaitForFileLock(r) ==
    /\ CanLock(r)
    /\ AcquireSleep(LabelOf[r], r)
    /\ timer' = [timer EXCEPT ![r] = SleepTime]
    /\ Goto(r, "lockwait")
    /\ UNCHANGED <<mach, retval, statusVars, mainVars>>

\* sys.exit in a thread: the handler of Exception is skipped.
AcquireTimedOut(r) ==
    /\ CanLock(r)
    /\ AcquireFatal
    /\ Goto(r, "finally")
    /\ UNCHANGED <<mach, retval, timer, statusVars, mainVars>>

WakeUp(r) ==
    /\ pc[r] = "sleep" /\ timer[r] = 0
    /\ Goto(r, "check")
    /\ UNCHANGED <<mmVars, mach, retval, timer, statusVars, mainVars>>

\* RunTest up to the early return of ImageMachine.
StartImaging(r) ==
    /\ pc[r] = "image"
    /\ Record(r, "IMAGING")
    /\ Goto(r, IF AlreadyImaged(mach[r], LabelOf[r]) THEN "run" ELSE "imagelock")
    /\ UNCHANGED <<mmVars, mach, retval, timer, terminated, mainVars>>

TakeImageLock(r) ==
    /\ pc[r] = "imagelock" /\ imageLock = None
    /\ imageLock' = r
    /\ Goto(r, "flash")
    /\ UNCHANGED <<poolVars, mmLock, fileLock, reachable, deviceVars>>
    /\ UNCHANGED <<mach, retval, timer, statusVars, mainVars>>

\* DoImage succeeds, the first or the second time.
FlashOk(r) ==
    /\ pc[r] \in {"flash", "reflash"}
    /\ DoImageOk(mach[r], LabelOf[r])
    /\ Imaged(mach[r], LabelOf[r])
    /\ Goto(r, "version")
    /\ UNCHANGED <<mach, retval, timer, statusVars, mainVars>>

\* The label's Chrome version is asked for when it is not known yet, which
\* raises on a machine that does not answer.
AskChromeVersion(r) ==
    /\ pc[r] = "version"
    /\ \/ Goto(r, "run")
       \/ ~reachable[mach[r]] /\ Goto(r, "except")
    /\ UNCHANGED <<mmVars, mach, retval, timer, statusVars, mainVars>>

\* The first failure is followed by a reboot and a second attempt, the
\* second one raises.
FlashNotUp(r) ==
    /\ MayFail
    /\ DoImageNotUp(mach[r], LabelOf[r])
    /\ \/ /\ pc[r] = "flash"
          /\ Goto(r, "reflash")
          /\ UNCHANGED <<poolVars, mmLock, imageLock, fileLock, reachable>>
       \/ /\ pc[r] = "reflash"
          /\ Goto(r, "except")
          /\ NotImaged
    /\ UNCHANGED <<mach, retval, timer, statusVars, mainVars>>

FlashFatal(r) ==
    /\ MayFail \/ (pc[r] \in {"flash", "reflash"} /\ ~reachable[mach[r]])
    /\ pc[r] \in {"flash", "reflash"}
    /\ DoImageFatal(mach[r], LabelOf[r])
    /\ NotImaged
    /\ Goto(r, "finally")
    /\ UNCHANGED <<mach, retval, timer, statusVars, mainVars>>

StartTest(r) ==
    /\ pc[r] = "run"
    /\ Record(r, "RUNNING")
    /\ Goto(r, "testing")
    /\ UNCHANGED <<mmVars, mach, retval, timer, terminated, mainVars>>

\* suite_runner.Run returns; a terminated one is killed.  GetChromeVersion
\* raises on an unreachable machine, after self.result has been set.
TestEnds(r) ==
    /\ pc[r] = "testing"
    /\ \E v \in {0, 1} : retval' = [retval EXCEPT ![r] = v]
    /\ Goto(r, IF reachable[mach[r]] THEN "finish" ELSE "except")
    /\ UNCHANGED <<mmVars, mach, timer, statusVars, mainVars>>

\* "if self.terminated: return", and the choice of the final status.
Finish(r) ==
    /\ pc[r] = "finish"
    /\ Goto(r, IF terminated[r] THEN "finally"
               ELSE IF retval[r] = 0 THEN "record"
               ELSE IF LastEvent(r) # "FAILED" THEN "recordfail"
               ELSE "finally")
    /\ UNCHANGED <<mmVars, mach, retval, timer, statusVars, mainVars>>

RecordSucceeded(r) ==
    /\ pc[r] = "record"
    /\ Record(r, "SUCCEEDED")
    /\ Goto(r, "finally")
    /\ UNCHANGED <<mmVars, mach, retval, timer, terminated, mainVars>>

\* An assertion error here is caught by run() itself.
RecordFailure(r) ==
    /\ pc[r] = "recordfail"
    /\ Record(r, "FAILED")
    /\ Goto(r, IF Recorded(r, "FAILED") THEN "except" ELSE "finally")
    /\ UNCHANGED <<mmVars, mach, retval, timer, terminated, mainVars>>

HandleException(r) ==
    /\ pc[r] = "except"
    /\ Goto(r, IF LastEvent(r) # "FAILED" THEN "exceptfail" ELSE "finally")
    /\ UNCHANGED <<mmVars, mach, retval, timer, statusVars, mainVars>>

\* An assertion error here leaves run(), after the finally clause.
RecordException(r) ==
    /\ pc[r] = "exceptfail"
    /\ Record(r, "FAILED")
    /\ Goto(r, "finally")
    /\ UNCHANGED <<mmVars, mach, retval, timer, terminated, mainVars>>

Finally(r) ==
    /\ pc[r] = "finally"
    /\ Goto(r, IF mach[r] = None THEN "done"
               ELSE IF reachable[mach[r]] THEN "release" ELSE "remove")
    /\ UNCHANGED <<mmVars, mach, retval, timer, statusVars, mainVars>>

Remove(r) ==
    /\ pc[r] = "remove" /\ mmLock = None
    /\ RemoveMachine(mach[r])
    /\ Goto(r, "release")
    /\ UNCHANGED <<mach, retval, timer, statusVars, mainVars>>

\* ReleaseMachine asserts that the machine is locked.
Release(r) ==
    /\ pc[r] = "release" /\ mmLock = None
    /\ ReleaseMachine(mach[r])
    /\ Goto(r, "done")
    /\ UNCHANGED <<mach, retval, timer, statusVars, mainVars>>

-----------------------------------------------------------------------------
(* The main thread: ExperimentRunner._Run, Experiment.Terminate and Cleanup *)

Alive(r) == pc[r] # "done"

\* IsComplete holds: every thread is dead.
AllComplete ==
    /\ main = "poll"
    /\ \A r \in Runs : ~Alive(r)
    /\ main' = "cleanup"
    /\ UNCHANGED <<mmVars, threadVars, statusVars, toTerminate, deciding>>

Interrupt ==
    /\ MayInterrupt
    /\ main = "poll"
    /\ main' = "terminate"
    /\ toTerminate' = Runs
    /\ UNCHANGED <<mmVars, threadVars, statusVars, deciding>>

\* Terminate of a live run, up to the comparison of its last event.
TerminateRun(r) ==
    /\ main = "terminate" /\ deciding = None
    /\ r \in toTerminate
    /\ toTerminate' = toTerminate \ {r}
    /\ \/ /\ Alive(r)
          /\ terminated' = [terminated EXCEPT ![r] = TRUE]
          /\ deciding' = IF LastEvent(r) # "FAILED" THEN r ELSE None
       \/ /\ ~Alive(r)
          /\ UNCHANGED <<terminated, deciding>>
    /\ UNCHANGED <<mmVars, threadVars, timeline, recordFailed, main>>

\* The rest of Terminate; an assertion error ends the loop over the runs.
RecordTerminated(r) ==
    /\ main = "terminate" /\ deciding = r
    /\ Record(r, "FAILED")
    /\ deciding' = None
    /\ main' = IF Recorded(r, "FAILED") THEN "cleanup" ELSE "terminate"
    /\ UNCHANGED <<mmVars, threadVars, terminated, toTerminate>>

AllTerminated ==
    /\ main = "terminate" /\ deciding = None /\ toTerminate = {}
    /\ main' = "cleanup"
    /\ UNCHANGED <<mmVars, threadVars, statusVars, toTerminate, deciding>>

CleanUp ==
    /\ main = "cleanup" /\ mmLock = None
    /\ Cleanup
    /\ main' = "end"
    /\ UNCHANGED <<threadVars, statusVars, toTerminate, deciding>>

-----------------------------------------------------------------------------
(* Time and the environment *)

\* A thread that is due is scheduled before the clock moves on.
Tick ==
    /\ \A r \in Runs :
          /\ pc[r] \in {"sleep", "lockwait"} => timer[r] > 0
          /\ pc[r] \in {"check", "acquire"} => mmLock # None
    /\ \E r \in Runs : Alive(r)
    /\ timer' = [r \in Runs |-> IF timer[r] > 0 THEN timer[r] - 1 ELSE 0]
    /\ age' = [m \in Machines |-> IF age[m] > StaleAge THEN age[m] ELSE age[m] + 1]
    /\ UNCHANGED <<machines, locked, checksum, acquireTimeout, mmLock,
                   imageLock, fileLock, reachable, deviceVars>>
    /\ UNCHANGED <<pc, mach, retval, statusVars, mainVars>>

\* The experiment is over.
Ended ==
    /\ main = "end"
    /\ \A r \in Runs : ~Alive(r)
    /\ UNCHANGED vars

Environment ==
    /\ \E m \in Machines :
          \/ MayDisconnect /\ (Disconnect(m) \/ Reconnect(m))
          \/ OtherLock(m) \/ OtherUnlock(m)
    /\ UNCHANGED <<threadVars, statusVars, mainVars>>

RunStep(r) ==
    \/ ReadCacheFails(r) \/ CacheDecides(r) \/ CacheMiss(r)
    \/ CheckTerminated(r) \/ Acquired(r) \/ NoneAcquired(r)
    \/ WaitForFileLock(r) \/ AcquireTimedOut(r) \/ WakeUp(r)
    \/ StartImaging(r) \/ TakeImageLock(r)
    \/ FlashOk(r) \/ FlashNotUp(r) \/ FlashFatal(r) \/ AskChromeVersion(r)
    \/ StartTest(r) \/ TestEnds(r) \/ Finish(r)
    \/ RecordSucceeded(r) \/ RecordFailure(r)
    \/ HandleException(r) \/ RecordException(r)
    \/ Finally(r) \/ Remove(r) \/ Release(r)

MainStep ==
    \/ AllComplete \/ Interrupt \/ AllTerminated \/ CleanUp
    \/ \E r \in Runs : TerminateRun(r) \/ RecordTerminated(r)

Next ==
    \/ \E r \in Runs : RunStep(r)
    \/ MainStep
    \/ Tick
    \/ Environment
    \/ Ended

Spec == Init /\ [][Next]_vars

\* Every thread is scheduled, the clock moves; image_lock is granted to
\* whoever asks for it again and again.  Nothing makes the user interrupt the
\* experiment or a device come back.
Fairness ==
    /\ \A r \in Runs : WF_vars(RunStep(r)) /\ SF_vars(TakeImageLock(r))
    /\ WF_vars(AllComplete) /\ WF_vars(AllTerminated) /\ WF_vars(CleanUp)
    /\ \A r \in Runs : WF_vars(TerminateRun(r)) /\ WF_vars(RecordTerminated(r))
    /\ WF_vars(Tick)

FairSpec == Spec /\ Fairness
-----------------------------------------------------------------------------
(* Properties *)

\* The runs that have a machine and have not finished with it.
Holds(r, m) == Alive(r) /\ mach[r] = m

\* Two benchmark runs never have the same machine, however acquisitions,
\* releases and removals of unreachable machines interleave: the purpose of
\* the manager ("to prevent multiple benchmark runs within the same experiment
\* from trying to use the same machine at the same time").
MutualExclusion ==
    \A m \in Machines : \A r, s \in Runs :
        Holds(r, m) /\ Holds(s, m) => r = s

\* The assertion of ReleaseMachine, "Tried to double-release": a run that is
\* about to release a machine the manager knows finds it locked, even when
\* another thread has put the removed machine back in the pool meanwhile.
NoDoubleRelease ==
    \A r \in Runs :
        pc[r] = "release" /\ mach[r] \in machines => locked[mach[r]]

\* A test measures the image of its own label: while the test suite of a run
\* executes, the device carries that label's image, whatever the manager's
\* cached checksum and the checksum file of the device say.
RightImage ==
    \A r \in Runs : pc[r] = "testing" => dut[mach[r]] = LabelOf[r]

\* The same, unless an earlier run on that machine ended before its test had a
\* result: only a failed flash can leave another image behind.
RightImageUnlessFailed ==
    \A r \in Runs :
        pc[r] = "testing" =>
            \/ dut[mach[r]] = LabelOf[r]
            \/ \E s \in Runs : ~Alive(s) /\ mach[s] = mach[r] /\ retval[s] = None

\* A machine in use by a run is file-locked by this experiment, so that no
\* other experiment can take it.
OwnFileLock ==
    LocksDir => \A r \in Runs :
        pc[r] \in UsingSteps => fileLock[mach[r]] = "us"

\* "Released machine": a machine of the pool that no run has any more is
\* available again; it is not left locked for good by the run that removed it
\* while it was unreachable.
ReleasedIsUnlocked ==
    \A m \in machines :
        locked[m] => \E r \in Runs : Holds(r, m)

\* Every benchmark run ends: a machine that has been released is taken again
\* by some waiting run although only a window of its age is accepted, and no
\* run waits for a machine or for image_lock for ever.
EveryRunEnds == \A r \in Runs : <>(pc[r] = "done")

\* An interrupted experiment reaches its end: the main thread gets the
\* manager's lock for its clean-up, and the runs notice the termination.
InterruptEnds ==
    main = "terminate" ~> (main = "end" /\ \A r \in Runs : ~Alive(r))
=============================================================================
