------------------------- MODULE BenchmarkRunProofs -------------------------
(***************************************************************************)
(* Proofs about BenchmarkRun for every number of machines, labels and      *)
(* runs, and for every setting of the flags: type correctness, the mutual  *)
(* exclusion of the runs on their machines, the lock files of the machines *)
(* they use, and the images that they test.                                *)
(***************************************************************************)
EXTENDS BenchmarkRun, TLAPS

\* The steps of run() before a machine has been acquired.
BeforeSteps == {"readcache", "check", "acquire", "lockwait", "sleep"}

\* The steps that dereference self.machine.
MachineSteps == UsingSteps \cup {"remove", "release"}

\* self.machine is set exactly from the acquisition on.
MachineKnown ==
    \A r \in Runs :
        /\ pc[r] \in BeforeSteps => mach[r] = None
        /\ pc[r] \in MachineSteps => mach[r] # None

\* machine.locked is set as long as a run has the machine: it is what keeps
\* the other runs away, also while the machine is not in the pool.
HeldIsLocked ==
    \A r \in Runs : Alive(r) /\ mach[r] # None => locked[mach[r]]

IInv == TypeOK /\ MachineKnown /\ HeldIsLocked /\ MutualExclusion

LEMMA ChecksumType == \A l \in Labels : Checksum(l) \in Labels \cup {None}
  BY LabelAssumption DEF Checksum

LEMMA SleepTimeType ==
    ASSUME acquireTimeout \in Int
    PROVE  SleepTime \in 0 .. MaxSleep /\ SleepTime \in Int
  BY TimeAssumption, PollAssumption DEF SleepTime, MaxSleep

\* Recording an event keeps the timelines' type.
LEMMA RecordType ==
    ASSUME TypeOK, NEW r \in Runs, NEW e \in Status, Record(r, e)
    PROVE  timeline' \in [Runs -> Seq(Status)] /\ recordFailed' \subseteq Runs
  <1>1. timeline \in [Runs -> Seq(Status)] /\ recordFailed \subseteq Runs
    BY DEF TypeOK
  <1>2. timeline[r] \in Seq(Status)
    BY <1>1
  <1>3. Append(timeline[r], e) \in Seq(Status)
    BY <1>2
  <1>4. CASE Recorded(r, e)
    BY <1>1, <1>4 DEF Record
  <1>5. CASE ~Recorded(r, e)
    BY <1>1, <1>3, <1>5 DEF Record
  <1> QED
    BY <1>4, <1>5

\* What TypeOK says of the run threads and of the main thread.
ThreadTypes ==
    /\ pc \in [Runs -> Steps]
    /\ mach \in [Runs -> Machines \cup {None}]
    /\ retval \in [Runs -> {0, 1, None}]
    /\ timer \in [Runs -> 0 .. MaxSleep]
    /\ terminated \in [Runs -> BOOLEAN]
    /\ timeline \in [Runs -> Seq(Status)]
    /\ recordFailed \subseteq Runs
    /\ main \in {"poll", "terminate", "cleanup", "end"}
    /\ toTerminate \subseteq Runs
    /\ deciding \in Runs \cup {None}

\* The parts of AcquireMachine that look at all the machines keep the types.
LEMMA TryTypes ==
    ASSUME TypeOKManager, NEW l \in Labels, TryToLockMachines(l)
    PROVE  /\ machines' \subseteq Machines
           /\ checksum' \in [Machines -> Labels \cup {None}]
           /\ fileLock' \in [Machines -> {"free", "us", "other"}]
  BY LabelAssumption DEF TypeOKManager, TryToLockMachines, Lockable, ReadChecksum

LEMMA ResetTypes ==
    ASSUME TypeOKManager, NEW S, ResetAge(S)
    PROVE  age' \in [Machines -> 0 .. StaleAge + 1]
  BY TimeAssumption DEF TypeOKManager, ResetAge

\* The operations of the manager that return no machine keep its types.
LEMMA PoolTypes ==
    ASSUME TypeOKManager, NEW l \in Labels, NEW r \in Runs
    PROVE  /\ AcquireNothing(l) => TypeOKManager'
           /\ AcquireSleep(l, r) => TypeOKManager'
           /\ AcquireFatal => TypeOKManager'
  <1>1. AcquireNothing(l) => TypeOKManager'
    BY TryTypes, ResetTypes DEF TypeOKManager, AcquireNothing, deviceVars
  <1>2. AcquireSleep(l, r) => TypeOKManager'
    BY SleepTimeType DEF TypeOKManager, AcquireSleep, deviceVars
  <1>3. AcquireFatal => TypeOKManager'
    BY DEF TypeOKManager, AcquireFatal, poolVars, deviceVars
  <1> QED
    BY <1>1, <1>2, <1>3

LEMMA CleanupTypes == TypeOKManager /\ Cleanup => TypeOKManager'
  BY DEF TypeOKManager, Cleanup, poolVars, deviceVars

\* The operations of the manager on a machine keep its types.
LEMMA MachineTypes ==
    ASSUME TypeOKManager, NEW l \in Labels, NEW m \in Machines
    PROVE  /\ AcquireMachine(l, m) => TypeOKManager'
           /\ RemoveMachine(m) => TypeOKManager'
           /\ ReleaseMachine(m) => TypeOKManager'
           /\ DoImageOk(m, l) /\ Imaged(m, l) => TypeOKManager'
           /\ DoImageNotUp(m, l) /\ NotImaged => TypeOKManager'
           /\ DoImageNotUp(m, l)
              /\ UNCHANGED <<poolVars, mmLock, imageLock, fileLock, reachable>>
              => TypeOKManager'
           /\ DoImageFatal(m, l) /\ NotImaged => TypeOKManager'
  <1>1. AcquireMachine(l, m) => TypeOKManager'
    BY TryTypes, ResetTypes DEF TypeOKManager, AcquireMachine, SelectMachine, deviceVars
  <1>2. RemoveMachine(m) => TypeOKManager'
    BY DEF TypeOKManager, RemoveMachine, deviceVars
  <1>3. ReleaseMachine(m) => TypeOKManager'
    <2>1. ReleaseMachine(m) => locked' \in [Machines -> BOOLEAN]
      BY Zenon DEF TypeOKManager, ReleaseMachine
    <2>2. ReleaseMachine(m) => age' \in [Machines -> 0 .. StaleAge + 1]
      BY TimeAssumption DEF TypeOKManager, ReleaseMachine
    <2> QED
      BY <2>1, <2>2 DEF TypeOKManager, ReleaseMachine, deviceVars
  <1>4. DoImageOk(m, l) => /\ dut' \in [Machines -> Labels \cup {Garbage}]
                            /\ ckfile' \in [Machines -> Labels \cup {None}]
    BY DEF TypeOKManager, DoImageOk, AfterFlash, deviceVars
  <1>5. DoImageOk(m, l) /\ Imaged(m, l) => TypeOKManager'
    BY <1>4, ChecksumType DEF TypeOKManager, Imaged
  <1>6. DoImageNotUp(m, l) => /\ dut' \in [Machines -> Labels \cup {Garbage}]
                               /\ ckfile' \in [Machines -> Labels \cup {None}]
    BY DEF TypeOKManager, DoImageNotUp, AfterFlash
  <1>7. DoImageFatal(m, l) => /\ dut' \in [Machines -> Labels \cup {Garbage}]
                               /\ ckfile' \in [Machines -> Labels \cup {None}]
    <2>1. \A i \in {dut[m], l, Garbage} :
             [dut EXCEPT ![m] = i] \in [Machines -> Labels \cup {Garbage}]
      BY DEF TypeOKManager
    <2>2. \A c \in {ckfile[m], l, None} :
             [ckfile EXCEPT ![m] = c] \in [Machines -> Labels \cup {None}]
      BY DEF TypeOKManager
    <2> QED
      BY <2>1, <2>2 DEF DoImageFatal
  <1>8. DoImageNotUp(m, l) /\ NotImaged => TypeOKManager'
    BY <1>6 DEF TypeOKManager, NotImaged, poolVars
  <1>9. DoImageNotUp(m, l)
            /\ UNCHANGED <<poolVars, mmLock, imageLock, fileLock, reachable>>
         => TypeOKManager'
    BY <1>6 DEF TypeOKManager, poolVars
  <1>10. DoImageFatal(m, l) /\ NotImaged => TypeOKManager'
    BY <1>7 DEF TypeOKManager, NotImaged, poolVars
  <1> QED
    BY <1>1, <1>2, <1>3, <1>5, <1>8, <1>9, <1>10

-----------------------------------------------------------------------------
(* Type correctness *)

\* A step that leaves the manager alone keeps the manager's types.
LEMMA ManagerUnchanged ==
    ASSUME TypeOKManager, UNCHANGED mmVars
    PROVE  TypeOKManager'
  BY DEF TypeOKManager, mmVars, poolVars, deviceVars

\* A run that dereferences self.machine has one.
LEMMA MachineExists ==
    ASSUME TypeOK, MachineKnown, NEW r \in Runs, pc[r] \in MachineSteps
    PROVE  mach[r] \in Machines
  BY DEF TypeOK, MachineKnown

\* Every step of a run thread keeps the types.
LEMMA RunStepTypes ==
    ASSUME TypeOK, MachineKnown, NEW r \in Runs, RunStep(r)
    PROVE  TypeOK'
  <1>1. TypeOKManager /\ ThreadTypes
    BY DEF TypeOK, ThreadTypes
  <1>2. LabelOf[r] \in Labels
    BY RunAssumption
  <1>3. pc[r] \in MachineSteps => mach[r] \in Machines
    BY MachineExists
  <1>11. CASE ReadCacheFails(r)
    <2>1. TypeOKManager'
      BY <1>1, <1>11, ManagerUnchanged DEF ReadCacheFails
    <2>2. ThreadTypes'
      BY <1>1, <1>11 DEF ThreadTypes, Steps, ReadCacheFails, Goto, statusVars, mainVars
    <2> QED
      BY <2>1, <2>2 DEF TypeOK, ThreadTypes
  <1>12. CASE CacheDecides(r)
    <2>1. TypeOKManager'
      BY <1>1, <1>12, ManagerUnchanged DEF CacheDecides
    <2>2. ThreadTypes'
      BY <1>1, <1>12 DEF ThreadTypes, Steps, CacheDecides, Goto, statusVars, mainVars
    <2> QED
      BY <2>1, <2>2 DEF TypeOK, ThreadTypes
  <1>13. CASE CacheMiss(r)
    <2>1. TypeOKManager'
      BY <1>1, <1>13, ManagerUnchanged DEF CacheMiss
    <2>2. timeline' \in [Runs -> Seq(Status)] /\ recordFailed' \subseteq Runs
      BY <1>13, RecordType DEF CacheMiss, Status
    <2>3. ThreadTypes'
      BY <1>1, <1>13, <2>2 DEF ThreadTypes, Steps, CacheMiss, Goto, mainVars
    <2> QED
      BY <2>1, <2>3 DEF TypeOK, ThreadTypes
  <1>14. CASE CheckTerminated(r)
    <2>1. TypeOKManager'
      BY <1>1, <1>14, ManagerUnchanged DEF CheckTerminated
    <2>2. ThreadTypes'
      BY <1>1, <1>14 DEF ThreadTypes, Steps, CheckTerminated, Goto, statusVars, mainVars
    <2> QED
      BY <2>1, <2>2 DEF TypeOK, ThreadTypes
  <1>15. CASE Acquired(r)
    <2>1. TypeOKManager'
      BY <1>1, <1>2, <1>3, <1>15, MachineTypes DEF Acquired
    <2>2. ThreadTypes'
      BY <1>1, <1>15 DEF ThreadTypes, TypeOKManager, Steps, Acquired, Goto, statusVars, mainVars
    <2> QED
      BY <2>1, <2>2 DEF TypeOK, ThreadTypes
  <1>16. CASE NoneAcquired(r)
    <2>1. TypeOKManager'
      BY <1>1, <1>2, <1>3, <1>16, PoolTypes DEF NoneAcquired
    <2>3. PollTime \in 0 .. MaxSleep
      BY TimeAssumption, PollAssumption DEF MaxSleep
    <2>2. ThreadTypes'
      BY <1>1, <1>16, <2>3 DEF ThreadTypes, Steps, NoneAcquired, Goto, statusVars, mainVars
    <2> QED
      BY <2>1, <2>2 DEF TypeOK, ThreadTypes
  <1>17. CASE WaitForFileLock(r)
    <2>1. TypeOKManager'
      BY <1>1, <1>2, <1>3, <1>17, PoolTypes DEF WaitForFileLock
    <2>2. ThreadTypes'
      BY <1>1, <1>17, SleepTimeType DEF ThreadTypes, TypeOKManager, Steps, WaitForFileLock, Goto, statusVars, mainVars
    <2> QED
      BY <2>1, <2>2 DEF TypeOK, ThreadTypes
  <1>18. CASE AcquireTimedOut(r)
    <2>1. TypeOKManager'
      BY <1>1, <1>2, <1>3, <1>18, PoolTypes DEF AcquireTimedOut
    <2>2. ThreadTypes'
      BY <1>1, <1>18 DEF ThreadTypes, TypeOKManager, Steps, AcquireTimedOut, Goto, statusVars, mainVars
    <2> QED
      BY <2>1, <2>2 DEF TypeOK, ThreadTypes
  <1>19. CASE WakeUp(r)
    <2>1. TypeOKManager'
      BY <1>1, <1>19, ManagerUnchanged DEF WakeUp
    <2>2. ThreadTypes'
      BY <1>1, <1>19 DEF ThreadTypes, Steps, WakeUp, Goto, statusVars, mainVars
    <2> QED
      BY <2>1, <2>2 DEF TypeOK, ThreadTypes
  <1>20. CASE StartImaging(r)
    <2>1. TypeOKManager'
      BY <1>1, <1>20, ManagerUnchanged DEF StartImaging
    <2>2. timeline' \in [Runs -> Seq(Status)] /\ recordFailed' \subseteq Runs
      BY <1>20, RecordType DEF StartImaging, Status
    <2>3. ThreadTypes'
      BY <1>1, <1>20, <2>2 DEF ThreadTypes, Steps, StartImaging, Goto, mainVars
    <2> QED
      BY <2>1, <2>3 DEF TypeOK, ThreadTypes
  <1>21. CASE TakeImageLock(r)
    <2>1. TypeOKManager'
      BY <1>1, <1>21, ManagerUnchanged DEF TakeImageLock, TypeOKManager, mmVars, poolVars, deviceVars
    <2>2. ThreadTypes'
      BY <1>1, <1>21 DEF ThreadTypes, Steps, TakeImageLock, Goto, statusVars, mainVars
    <2> QED
      BY <2>1, <2>2 DEF TypeOK, ThreadTypes
  <1>22. CASE FlashOk(r)
    <2>1. TypeOKManager'
      BY <1>1, <1>2, <1>3, <1>22, MachineTypes DEF FlashOk, MachineSteps, UsingSteps
    <2>2. ThreadTypes'
      BY <1>1, <1>22 DEF ThreadTypes, TypeOKManager, Steps, FlashOk, Goto, statusVars, mainVars
    <2> QED
      BY <2>1, <2>2 DEF TypeOK, ThreadTypes
  <1>23. CASE FlashNotUp(r)
    <2>1. TypeOKManager'
      BY <1>1, <1>2, <1>3, <1>23, MachineTypes DEF FlashNotUp, MachineSteps, UsingSteps
    <2>2. ThreadTypes'
      BY <1>1, <1>23 DEF ThreadTypes, TypeOKManager, Steps, FlashNotUp, Goto, statusVars, mainVars
    <2> QED
      BY <2>1, <2>2 DEF TypeOK, ThreadTypes
  <1>24. CASE FlashFatal(r)
    <2>1. TypeOKManager'
      BY <1>1, <1>2, <1>3, <1>24, MachineTypes DEF FlashFatal, MachineSteps, UsingSteps
    <2>2. ThreadTypes'
      BY <1>1, <1>24 DEF ThreadTypes, TypeOKManager, Steps, FlashFatal, Goto, statusVars, mainVars
    <2> QED
      BY <2>1, <2>2 DEF TypeOK, ThreadTypes
  <1>25. CASE AskChromeVersion(r)
    <2>1. TypeOKManager'
      BY <1>1, <1>25, ManagerUnchanged DEF AskChromeVersion
    <2>2. ThreadTypes'
      BY <1>1, <1>25 DEF ThreadTypes, Steps, AskChromeVersion, Goto, statusVars, mainVars
    <2> QED
      BY <2>1, <2>2 DEF TypeOK, ThreadTypes
  <1>26. CASE StartTest(r)
    <2>1. TypeOKManager'
      BY <1>1, <1>26, ManagerUnchanged DEF StartTest
    <2>2. timeline' \in [Runs -> Seq(Status)] /\ recordFailed' \subseteq Runs
      BY <1>26, RecordType DEF StartTest, Status
    <2>3. ThreadTypes'
      BY <1>1, <1>26, <2>2 DEF ThreadTypes, Steps, StartTest, Goto, mainVars
    <2> QED
      BY <2>1, <2>3 DEF TypeOK, ThreadTypes
  <1>27. CASE TestEnds(r)
    <2>1. TypeOKManager'
      BY <1>1, <1>27, ManagerUnchanged DEF TestEnds
    <2>2. ThreadTypes'
      BY <1>1, <1>27 DEF ThreadTypes, Steps, TestEnds, Goto, statusVars, mainVars
    <2> QED
      BY <2>1, <2>2 DEF TypeOK, ThreadTypes
  <1>28. CASE Finish(r)
    <2>1. TypeOKManager'
      BY <1>1, <1>28, ManagerUnchanged DEF Finish
    <2>2. ThreadTypes'
      BY <1>1, <1>28 DEF ThreadTypes, Steps, Finish, Goto, statusVars, mainVars
    <2> QED
      BY <2>1, <2>2 DEF TypeOK, ThreadTypes
  <1>29. CASE RecordSucceeded(r)
    <2>1. TypeOKManager'
      BY <1>1, <1>29, ManagerUnchanged DEF RecordSucceeded
    <2>2. timeline' \in [Runs -> Seq(Status)] /\ recordFailed' \subseteq Runs
      BY <1>29, RecordType DEF RecordSucceeded, Status
    <2>3. ThreadTypes'
      BY <1>1, <1>29, <2>2 DEF ThreadTypes, Steps, RecordSucceeded, Goto, mainVars
    <2> QED
      BY <2>1, <2>3 DEF TypeOK, ThreadTypes
  <1>30. CASE RecordFailure(r)
    <2>1. TypeOKManager'
      BY <1>1, <1>30, ManagerUnchanged DEF RecordFailure
    <2>2. timeline' \in [Runs -> Seq(Status)] /\ recordFailed' \subseteq Runs
      BY <1>30, RecordType DEF RecordFailure, Status
    <2>3. ThreadTypes'
      BY <1>1, <1>30, <2>2 DEF ThreadTypes, Steps, RecordFailure, Goto, mainVars
    <2> QED
      BY <2>1, <2>3 DEF TypeOK, ThreadTypes
  <1>31. CASE HandleException(r)
    <2>1. TypeOKManager'
      BY <1>1, <1>31, ManagerUnchanged DEF HandleException
    <2>2. ThreadTypes'
      BY <1>1, <1>31 DEF ThreadTypes, Steps, HandleException, Goto, statusVars, mainVars
    <2> QED
      BY <2>1, <2>2 DEF TypeOK, ThreadTypes
  <1>32. CASE RecordException(r)
    <2>1. TypeOKManager'
      BY <1>1, <1>32, ManagerUnchanged DEF RecordException
    <2>2. timeline' \in [Runs -> Seq(Status)] /\ recordFailed' \subseteq Runs
      BY <1>32, RecordType DEF RecordException, Status
    <2>3. ThreadTypes'
      BY <1>1, <1>32, <2>2 DEF ThreadTypes, Steps, RecordException, Goto, mainVars
    <2> QED
      BY <2>1, <2>3 DEF TypeOK, ThreadTypes
  <1>33. CASE Finally(r)
    <2>1. TypeOKManager'
      BY <1>1, <1>33, ManagerUnchanged DEF Finally
    <2>2. ThreadTypes'
      BY <1>1, <1>33 DEF ThreadTypes, Steps, Finally, Goto, statusVars, mainVars
    <2> QED
      BY <2>1, <2>2 DEF TypeOK, ThreadTypes
  <1>34. CASE Remove(r)
    <2>1. TypeOKManager'
      BY <1>1, <1>2, <1>3, <1>34, MachineTypes DEF Remove, MachineSteps, UsingSteps
    <2>2. ThreadTypes'
      BY <1>1, <1>34 DEF ThreadTypes, TypeOKManager, Steps, Remove, Goto, statusVars, mainVars
    <2> QED
      BY <2>1, <2>2 DEF TypeOK, ThreadTypes
  <1>35. CASE Release(r)
    <2>1. TypeOKManager'
      BY <1>1, <1>2, <1>3, <1>35, MachineTypes DEF Release, MachineSteps, UsingSteps
    <2>2. ThreadTypes'
      BY <1>1, <1>35 DEF ThreadTypes, TypeOKManager, Steps, Release, Goto, statusVars, mainVars
    <2> QED
      BY <2>1, <2>2 DEF TypeOK, ThreadTypes
  <1> QED
    BY <1>11, <1>12, <1>13, <1>14, <1>15, <1>16, <1>17, <1>18, <1>19, <1>20, <1>21, <1>22, <1>23, <1>24, <1>25, <1>26, <1>27, <1>28, <1>29, <1>30, <1>31, <1>32, <1>33, <1>34, <1>35 DEF RunStep

\* So does every other step.
LEMMA OtherStepTypes ==
    ASSUME TypeOK, MainStep \/ Tick \/ Environment \/ Ended \/ UNCHANGED vars
    PROVE  TypeOK'
  <1>1. TypeOKManager /\ ThreadTypes
    BY DEF TypeOK, ThreadTypes
  <1>2. CASE AllComplete \/ Interrupt \/ AllTerminated
    <2>1. TypeOKManager'
      BY <1>1, <1>2, ManagerUnchanged DEF AllComplete, Interrupt, AllTerminated
    <2>2. ThreadTypes'
      BY <1>1, <1>2 DEF ThreadTypes, AllComplete, Interrupt, AllTerminated,
                        threadVars, statusVars
    <2> QED
      BY <2>1, <2>2 DEF TypeOK, ThreadTypes
  <1>3. CASE CleanUp
    <2>1. TypeOKManager'
      BY <1>1, <1>3, CleanupTypes DEF CleanUp
    <2>2. ThreadTypes'
      BY <1>1, <1>3 DEF ThreadTypes, CleanUp, threadVars, statusVars
    <2> QED
      BY <2>1, <2>2 DEF TypeOK, ThreadTypes
  <1>4. ASSUME NEW r \in Runs, TerminateRun(r) PROVE TypeOK'
    <2>1. TypeOKManager'
      BY <1>1, <1>4, ManagerUnchanged DEF TerminateRun
    <2>2. ThreadTypes'
      BY <1>1, <1>4 DEF ThreadTypes, TerminateRun, threadVars
    <2> QED
      BY <2>1, <2>2 DEF TypeOK, ThreadTypes
  <1>5. ASSUME NEW r \in Runs, RecordTerminated(r) PROVE TypeOK'
    <2>1. TypeOKManager'
      BY <1>1, <1>5, ManagerUnchanged DEF RecordTerminated
    <2>2. timeline' \in [Runs -> Seq(Status)] /\ recordFailed' \subseteq Runs
      BY <1>5, RecordType DEF RecordTerminated, Status
    <2>3. ThreadTypes'
      BY <1>1, <1>5, <2>2 DEF ThreadTypes, RecordTerminated, threadVars
    <2> QED
      BY <2>1, <2>3 DEF TypeOK, ThreadTypes
  <1>6. CASE Tick
    <2>1. TypeOKManager'
      BY <1>1, <1>6, TimeAssumption DEF TypeOKManager, Tick, deviceVars
    <2>2. timer' \in [Runs -> 0 .. MaxSleep]
      BY <1>1, <1>6, TimeAssumption, PollAssumption DEF ThreadTypes, Tick, MaxSleep
    <2>3. ThreadTypes'
      BY <1>1, <1>6, <2>2 DEF ThreadTypes, Tick, statusVars, mainVars
    <2> QED
      BY <2>1, <2>3 DEF TypeOK, ThreadTypes
  <1>7. CASE Environment
    <2>1. TypeOKManager'
      BY <1>1, <1>7 DEF TypeOKManager, Environment, Disconnect, Reconnect,
                        OtherLock, OtherUnlock, poolVars, deviceVars
    <2>2. ThreadTypes'
      BY <1>1, <1>7 DEF ThreadTypes, Environment, threadVars, statusVars, mainVars
    <2> QED
      BY <2>1, <2>2 DEF TypeOK, ThreadTypes
  <1>8. CASE Ended \/ UNCHANGED vars
    <2>1. TypeOKManager'
      BY <1>1, <1>8, ManagerUnchanged DEF Ended, vars
    <2>2. ThreadTypes'
      BY <1>1, <1>8 DEF ThreadTypes, Ended, vars, threadVars, statusVars, mainVars
    <2> QED
      BY <2>1, <2>2 DEF TypeOK, ThreadTypes
  <1> QED
    BY <1>2, <1>3, <1>4, <1>5, <1>6, <1>7, <1>8 DEF MainStep

-----------------------------------------------------------------------------
(* Mutual exclusion *)

\* A step that changes neither the machines of the runs nor the locked flags,
\* and revives no thread, keeps the runs apart.
LEMMA QuietStep ==
    ASSUME HeldIsLocked, MutualExclusion, mach' = mach, locked' = locked,
           \A r \in Runs : pc'[r] # "done" => pc[r] # "done"
    PROVE  HeldIsLocked' /\ MutualExclusion'
  BY DEF HeldIsLocked, MutualExclusion, Holds, Alive

\* A run takes a machine that is not locked, hence that no other run has.
LEMMA AcquiredExclusive ==
    ASSUME IInv, NEW r \in Runs, Acquired(r)
    PROVE  HeldIsLocked' /\ MutualExclusion'
  <1>1. PICK m \in Machines : AcquireMachine(LabelOf[r], m)
                              /\ mach' = [mach EXCEPT ![r] = m]
    BY DEF Acquired
  <1>2. ~locked[m]
    BY <1>1 DEF AcquireMachine, SelectMachine, Matching, Blank, Ripe, Unlocked
  <1>3. locked' = [locked EXCEPT ![m] = TRUE]
    BY <1>1 DEF AcquireMachine
  <1>4. pc' = [pc EXCEPT ![r] = "image"]
    BY DEF Acquired, Goto
  <1>5. /\ mach \in [Runs -> Machines \cup {None}]
        /\ pc \in [Runs -> Steps]
        /\ locked \in [Machines -> BOOLEAN]
    BY DEF IInv, TypeOK, TypeOKManager
  <1>6. \A s \in Runs : s # r /\ Alive(s) => mach[s] # m
    BY <1>2, NoneAssumption DEF IInv, HeldIsLocked
  <1>7. HeldIsLocked'
    BY <1>1, <1>3, <1>4, <1>5, <1>6 DEF IInv, HeldIsLocked, Alive
  <1>8. MutualExclusion'
    BY <1>1, <1>4, <1>5, <1>6 DEF IInv, MutualExclusion, Holds, Alive
  <1> QED
    BY <1>7, <1>8

\* A run that releases its machine clears the flag of that machine only, and
\* no other run has it.
LEMMA ReleaseExclusive ==
    ASSUME IInv, NEW r \in Runs, Release(r)
    PROVE  HeldIsLocked' /\ MutualExclusion'
  <1>1. mach[r] \in Machines
    BY MachineExists DEF IInv, Release, MachineSteps
  <1>2. pc' = [pc EXCEPT ![r] = "done"] /\ mach' = mach /\ pc[r] = "release"
    BY DEF Release, Goto
  <1>3. /\ mach \in [Runs -> Machines \cup {None}]
        /\ pc \in [Runs -> Steps]
        /\ locked \in [Machines -> BOOLEAN]
    BY DEF IInv, TypeOK, TypeOKManager
  <1>4. \A m \in Machines : m # mach[r] => locked'[m] = locked[m]
    BY <1>1, <1>3 DEF Release, ReleaseMachine
  <1>5. \A s \in Runs : s # r /\ Alive(s) => mach[s] # mach[r]
    BY <1>1, <1>2 DEF IInv, MutualExclusion, Holds, Alive
  <1>6. HeldIsLocked'
    BY <1>2, <1>3, <1>4, <1>5 DEF IInv, HeldIsLocked, Alive
  <1>7. MutualExclusion'
    BY <1>2, <1>3 DEF IInv, MutualExclusion, Holds, Alive
  <1> QED
    BY <1>6, <1>7

\* Every step of a run thread leads from a step of run() to one that needs no
\* more machine than the run has, and keeps the runs apart.
LEMMA RunStepExclusive ==
    ASSUME IInv, NEW r \in Runs, RunStep(r)
    PROVE  MachineKnown' /\ HeldIsLocked' /\ MutualExclusion'
  <1> DEFINE Moves(to) == /\ pc' = [pc EXCEPT ![r] = to]
                          /\ mach' = mach
                          /\ locked' = locked
  <1>1. /\ pc \in [Runs -> Steps]
        /\ mach \in [Runs -> Machines \cup {None}]
        /\ MachineKnown /\ HeldIsLocked /\ MutualExclusion
    BY DEF IInv, TypeOK
  \* A thread that moves on without touching a machine.
  <1>2. ASSUME NEW to \in Steps, Moves(to), pc[r] # "done",
               to \in BeforeSteps => mach[r] = None,
               to \in MachineSteps => mach[r] # None
        PROVE  MachineKnown' /\ HeldIsLocked' /\ MutualExclusion'
    <2>1. MachineKnown'
      BY <1>1, <1>2 DEF MachineKnown
    <2>2. \A s \in Runs : pc'[s] # "done" => pc[s] # "done"
      BY <1>1, <1>2
    <2> QED
      BY <1>1, <1>2, <2>1, <2>2, QuietStep
  <1>3. /\ pc[r] \in BeforeSteps => mach[r] = None
        /\ pc[r] \in MachineSteps => mach[r] # None
    BY <1>1 DEF MachineKnown
  <1>11. CASE ReadCacheFails(r)
    <2>1. PICK to \in Steps :
            /\ Moves(to) /\ pc[r] # "done"
            /\ to \in BeforeSteps => mach[r] = None
            /\ to \in MachineSteps => mach[r] # None
      BY <1>1, <1>3, <1>11 DEF ReadCacheFails, Goto, Steps, BeforeSteps, MachineSteps,
                           UsingSteps, mmVars, poolVars
    <2> QED
      BY <1>2, <2>1
  <1>12. CASE CacheDecides(r)
    <2>1. PICK to \in Steps :
            /\ Moves(to) /\ pc[r] # "done"
            /\ to \in BeforeSteps => mach[r] = None
            /\ to \in MachineSteps => mach[r] # None
      BY <1>1, <1>3, <1>12 DEF CacheDecides, Goto, Steps, BeforeSteps, MachineSteps,
                           UsingSteps, mmVars, poolVars
    <2> QED
      BY <1>2, <2>1
  <1>13. CASE CacheMiss(r)
    <2>1. PICK to \in Steps :
            /\ Moves(to) /\ pc[r] # "done"
            /\ to \in BeforeSteps => mach[r] = None
            /\ to \in MachineSteps => mach[r] # None
      BY <1>1, <1>3, <1>13 DEF CacheMiss, Goto, Steps, BeforeSteps, MachineSteps,
                           UsingSteps, mmVars, poolVars
    <2> QED
      BY <1>2, <2>1
  <1>14. CASE CheckTerminated(r)
    <2>1. PICK to \in Steps :
            /\ Moves(to) /\ pc[r] # "done"
            /\ to \in BeforeSteps => mach[r] = None
            /\ to \in MachineSteps => mach[r] # None
      BY <1>1, <1>3, <1>14 DEF CheckTerminated, Goto, Steps, BeforeSteps, MachineSteps,
                           UsingSteps, mmVars, poolVars
    <2> QED
      BY <1>2, <2>1
  <1>15. CASE NoneAcquired(r)
    <2>1. PICK to \in Steps :
            /\ Moves(to) /\ pc[r] # "done"
            /\ to \in BeforeSteps => mach[r] = None
            /\ to \in MachineSteps => mach[r] # None
      BY <1>1, <1>3, <1>15 DEF NoneAcquired, CanLock, Goto, Steps, BeforeSteps, MachineSteps,
                           UsingSteps, AcquireNothing
    <2> QED
      BY <1>2, <2>1
  <1>16. CASE WaitForFileLock(r)
    <2>1. PICK to \in Steps :
            /\ Moves(to) /\ pc[r] # "done"
            /\ to \in BeforeSteps => mach[r] = None
            /\ to \in MachineSteps => mach[r] # None
      BY <1>1, <1>3, <1>16 DEF WaitForFileLock, CanLock, Goto, Steps, BeforeSteps, MachineSteps,
                           UsingSteps, AcquireSleep
    <2> QED
      BY <1>2, <2>1
  <1>17. CASE AcquireTimedOut(r)
    <2>1. PICK to \in Steps :
            /\ Moves(to) /\ pc[r] # "done"
            /\ to \in BeforeSteps => mach[r] = None
            /\ to \in MachineSteps => mach[r] # None
      BY <1>1, <1>3, <1>17 DEF AcquireTimedOut, CanLock, Goto, Steps, BeforeSteps, MachineSteps,
                           UsingSteps, AcquireFatal, poolVars
    <2> QED
      BY <1>2, <2>1
  <1>18. CASE WakeUp(r)
    <2>1. PICK to \in Steps :
            /\ Moves(to) /\ pc[r] # "done"
            /\ to \in BeforeSteps => mach[r] = None
            /\ to \in MachineSteps => mach[r] # None
      BY <1>1, <1>3, <1>18 DEF WakeUp, Goto, Steps, BeforeSteps, MachineSteps,
                           UsingSteps, mmVars, poolVars
    <2> QED
      BY <1>2, <2>1
  <1>19. CASE StartImaging(r)
    <2>1. PICK to \in Steps :
            /\ Moves(to) /\ pc[r] # "done"
            /\ to \in BeforeSteps => mach[r] = None
            /\ to \in MachineSteps => mach[r] # None
      BY <1>1, <1>3, <1>19 DEF StartImaging, Goto, Steps, BeforeSteps, MachineSteps,
                           UsingSteps, mmVars, poolVars
    <2> QED
      BY <1>2, <2>1
  <1>20. CASE TakeImageLock(r)
    <2>1. PICK to \in Steps :
            /\ Moves(to) /\ pc[r] # "done"
            /\ to \in BeforeSteps => mach[r] = None
            /\ to \in MachineSteps => mach[r] # None
      BY <1>1, <1>3, <1>20 DEF TakeImageLock, Goto, Steps, BeforeSteps, MachineSteps,
                           UsingSteps, poolVars
    <2> QED
      BY <1>2, <2>1
  <1>21. CASE FlashOk(r)
    <2>1. PICK to \in Steps :
            /\ Moves(to) /\ pc[r] # "done"
            /\ to \in BeforeSteps => mach[r] = None
            /\ to \in MachineSteps => mach[r] # None
      BY <1>1, <1>3, <1>21 DEF FlashOk, Goto, Steps, BeforeSteps, MachineSteps,
                           UsingSteps, Imaged
    <2> QED
      BY <1>2, <2>1
  <1>22. CASE FlashNotUp(r)
    <2>1. PICK to \in Steps :
            /\ Moves(to) /\ pc[r] # "done"
            /\ to \in BeforeSteps => mach[r] = None
            /\ to \in MachineSteps => mach[r] # None
      BY <1>1, <1>3, <1>22 DEF FlashNotUp, Goto, Steps, BeforeSteps, MachineSteps,
                           UsingSteps, NotImaged, poolVars
    <2> QED
      BY <1>2, <2>1
  <1>23. CASE FlashFatal(r)
    <2>1. PICK to \in Steps :
            /\ Moves(to) /\ pc[r] # "done"
            /\ to \in BeforeSteps => mach[r] = None
            /\ to \in MachineSteps => mach[r] # None
      BY <1>1, <1>3, <1>23 DEF FlashFatal, Goto, Steps, BeforeSteps, MachineSteps,
                           UsingSteps, NotImaged, poolVars
    <2> QED
      BY <1>2, <2>1
  <1>24. CASE AskChromeVersion(r)
    <2>1. PICK to \in Steps :
            /\ Moves(to) /\ pc[r] # "done"
            /\ to \in BeforeSteps => mach[r] = None
            /\ to \in MachineSteps => mach[r] # None
      BY <1>1, <1>3, <1>24 DEF AskChromeVersion, Goto, Steps, BeforeSteps, MachineSteps,
                           UsingSteps, mmVars, poolVars
    <2> QED
      BY <1>2, <2>1
  <1>25. CASE StartTest(r)
    <2>1. PICK to \in Steps :
            /\ Moves(to) /\ pc[r] # "done"
            /\ to \in BeforeSteps => mach[r] = None
            /\ to \in MachineSteps => mach[r] # None
      BY <1>1, <1>3, <1>25 DEF StartTest, Goto, Steps, BeforeSteps, MachineSteps,
                           UsingSteps, mmVars, poolVars
    <2> QED
      BY <1>2, <2>1
  <1>26. CASE TestEnds(r)
    <2>1. PICK to \in Steps :
            /\ Moves(to) /\ pc[r] # "done"
            /\ to \in BeforeSteps => mach[r] = None
            /\ to \in MachineSteps => mach[r] # None
      BY <1>1, <1>3, <1>26 DEF TestEnds, Goto, Steps, BeforeSteps, MachineSteps,
                           UsingSteps, mmVars, poolVars
    <2> QED
      BY <1>2, <2>1
  <1>27. CASE Finish(r)
    <2>1. PICK to \in Steps :
            /\ Moves(to) /\ pc[r] # "done"
            /\ to \in BeforeSteps => mach[r] = None
            /\ to \in MachineSteps => mach[r] # None
      BY <1>1, <1>3, <1>27 DEF Finish, Goto, Steps, BeforeSteps, MachineSteps,
                           UsingSteps, mmVars, poolVars
    <2> QED
      BY <1>2, <2>1
  <1>28. CASE RecordSucceeded(r)
    <2>1. PICK to \in Steps :
            /\ Moves(to) /\ pc[r] # "done"
            /\ to \in BeforeSteps => mach[r] = None
            /\ to \in MachineSteps => mach[r] # None
      BY <1>1, <1>3, <1>28 DEF RecordSucceeded, Goto, Steps, BeforeSteps, MachineSteps,
                           UsingSteps, mmVars, poolVars
    <2> QED
      BY <1>2, <2>1
  <1>29. CASE RecordFailure(r)
    <2>1. PICK to \in Steps :
            /\ Moves(to) /\ pc[r] # "done"
            /\ to \in BeforeSteps => mach[r] = None
            /\ to \in MachineSteps => mach[r] # None
      BY <1>1, <1>3, <1>29 DEF RecordFailure, Goto, Steps, BeforeSteps, MachineSteps,
                           UsingSteps, mmVars, poolVars
    <2> QED
      BY <1>2, <2>1
  <1>30. CASE HandleException(r)
    <2>1. PICK to \in Steps :
            /\ Moves(to) /\ pc[r] # "done"
            /\ to \in BeforeSteps => mach[r] = None
            /\ to \in MachineSteps => mach[r] # None
      BY <1>1, <1>3, <1>30 DEF HandleException, Goto, Steps, BeforeSteps, MachineSteps,
                           UsingSteps, mmVars, poolVars
    <2> QED
      BY <1>2, <2>1
  <1>31. CASE RecordException(r)
    <2>1. PICK to \in Steps :
            /\ Moves(to) /\ pc[r] # "done"
            /\ to \in BeforeSteps => mach[r] = None
            /\ to \in MachineSteps => mach[r] # None
      BY <1>1, <1>3, <1>31 DEF RecordException, Goto, Steps, BeforeSteps, MachineSteps,
                           UsingSteps, mmVars, poolVars
    <2> QED
      BY <1>2, <2>1
  <1>32. CASE Finally(r)
    <2>1. PICK to \in Steps :
            /\ Moves(to) /\ pc[r] # "done"
            /\ to \in BeforeSteps => mach[r] = None
            /\ to \in MachineSteps => mach[r] # None
      BY <1>1, <1>3, <1>32 DEF Finally, Goto, Steps, BeforeSteps, MachineSteps,
                           UsingSteps, mmVars, poolVars
    <2> QED
      BY <1>2, <2>1
  <1>33. CASE Remove(r)
    <2>1. PICK to \in Steps :
            /\ Moves(to) /\ pc[r] # "done"
            /\ to \in BeforeSteps => mach[r] = None
            /\ to \in MachineSteps => mach[r] # None
      BY <1>1, <1>3, <1>33 DEF Remove, Goto, Steps, BeforeSteps, MachineSteps,
                           UsingSteps, RemoveMachine
    <2> QED
      BY <1>2, <2>1
  <1>40. CASE Acquired(r)
    <2>1. MachineKnown'
      BY <1>1, <1>40, NoneAssumption
         DEF MachineKnown, Acquired, Goto, BeforeSteps, MachineSteps, UsingSteps
    <2> QED
      BY <1>40, <2>1, AcquiredExclusive
  <1>41. CASE Release(r)
    <2>1. MachineKnown'
      BY <1>1, <1>41
         DEF MachineKnown, Release, Goto, BeforeSteps, MachineSteps, UsingSteps
    <2> QED
      BY <1>41, <2>1, ReleaseExclusive
  <1> QED
    BY <1>11, <1>12, <1>13, <1>14, <1>15, <1>16, <1>17, <1>18, <1>19, <1>20, <1>21, <1>22, <1>23, <1>24, <1>25, <1>26, <1>27, <1>28, <1>29, <1>30, <1>31, <1>32, <1>33, <1>40, <1>41 DEF RunStep

\* The initial states satisfy the inductive invariant.
LEMMA InitInv == Init => IInv
  <1> SUFFICES ASSUME Init PROVE IInv
    OBVIOUS
  <1>1. TypeOKManager
    BY LabelAssumption, TimeAssumption DEF Init, InitManager, TypeOKManager
  <1>2. ThreadTypes
    <2>1. <<"PENDING">> \in Seq(Status)
      BY DEF Status
    <2>2. timeline \in [Runs -> Seq(Status)]
      BY <2>1 DEF Init
    <2> QED
      BY <2>2, TimeAssumption, PollAssumption DEF Init, ThreadTypes, Steps, MaxSleep
  <1>3. TypeOK
    BY <1>1, <1>2 DEF TypeOK, ThreadTypes
  <1>4. MachineKnown /\ HeldIsLocked /\ MutualExclusion
    BY NoneAssumption DEF Init, MachineKnown, HeldIsLocked, MutualExclusion,
          Holds, MachineSteps, UsingSteps
  <1> QED
    BY <1>3, <1>4 DEF IInv

\* Every step keeps it.
LEMMA StepInv == IInv /\ [Next]_vars => IInv'
  <1> SUFFICES ASSUME IInv, [Next]_vars PROVE IInv'
    OBVIOUS
  <1>1. ASSUME NEW r \in Runs, RunStep(r) PROVE IInv'
    BY <1>1, RunStepTypes, RunStepExclusive DEF IInv
  <1>2. CASE MainStep \/ Tick \/ Environment \/ Ended \/ UNCHANGED vars
    <2>1. TypeOK'
      BY <1>2, OtherStepTypes DEF IInv
    <2>2. pc' = pc /\ mach' = mach /\ locked' = locked
      BY <1>2 DEF MainStep, Tick, Environment, Ended, AllComplete, Interrupt,
           AllTerminated, CleanUp, TerminateRun, RecordTerminated, Cleanup,
           Disconnect, Reconnect, OtherLock, OtherUnlock, vars, mmVars,
           poolVars, threadVars
    <2>3. MachineKnown'
      BY <2>2 DEF IInv, MachineKnown
    <2>4. HeldIsLocked' /\ MutualExclusion'
      BY <2>2, QuietStep DEF IInv
    <2> QED
      BY <2>1, <2>3, <2>4 DEF IInv
  <1> QED
    BY <1>1, <1>2 DEF Next

THEOREM Invariance == Spec => []IInv
  BY InitInv, StepInv, PTL DEF Spec

\* Every variable keeps its type: in particular acquire_timeout, the ages and
\* the timers stay within their bounds whatever the runs and the user do.
THEOREM TypeCorrect == Spec => []TypeOK
  <1>1. IInv => TypeOK
    BY DEF IInv
  <1> QED
    BY Invariance, <1>1, PTL

\* Two benchmark runs never have the same machine (AcquireMachine,
\* RemoveMachine and ReleaseMachine of machine_manager.py, called by run()).
THEOREM Exclusive == Spec => []MutualExclusion
  <1>1. IInv => MutualExclusion
    BY DEF IInv
  <1> QED
    BY Invariance, <1>1, PTL

\* The assertion of ReleaseMachine ("Tried to double-release") never fails.
THEOREM NeverDoubleReleased == Spec => []NoDoubleRelease
  <1>1. IInv => NoDoubleRelease
    BY DEF IInv, NoDoubleRelease, HeldIsLocked, MachineKnown, MachineSteps, Alive
  <1> QED
    BY Invariance, <1>1, PTL
-----------------------------------------------------------------------------
(* Lock files *)

\* A machine that a run uses is in the pool.
UsedIsInPool ==
    \A r \in Runs : pc[r] \in UsingSteps => mach[r] \in machines

\* The machines of the pool are file-locked by this experiment until its
\* clean-up.
PoolIsFileLocked ==
    LocksDir /\ main # "end" => \A m \in machines : fileLock[m] = "us"

\* Without an interrupt, the clean-up waits for all the runs.
CleansUpAfterAll ==
    ~MayInterrupt => /\ main # "terminate"
                     /\ main # "poll" => \A r \in Runs : ~Alive(r)

LockInv == UsedIsInPool /\ PoolIsFileLocked /\ CleansUpAfterAll

\* A step of run r that leaves its machine and the main thread alone.
MovesOn(r) ==
    /\ pc[r] # "done"
    /\ \E to \in Steps : /\ pc' = [pc EXCEPT ![r] = to]
                         /\ to \in UsingSteps => pc[r] \in UsingSteps
    /\ mach' = mach
    /\ main' = main

\* The steps of a run but the ones that take a machine.
LEMMA RunMovesOn ==
    ASSUME TypeOK, NEW r \in Runs, RunStep(r), ~Acquired(r)
    PROVE  MovesOn(r)
  <1> USE DEF MovesOn, Goto, mainVars, Steps, UsingSteps
  <1>1. CASE ReadCacheFails(r) \/ CacheDecides(r) \/ CacheMiss(r) \/ CheckTerminated(r)
    BY <1>1 DEF ReadCacheFails, CacheDecides, CacheMiss, CheckTerminated
  <1>2. CASE NoneAcquired(r) \/ WaitForFileLock(r) \/ AcquireTimedOut(r) \/ WakeUp(r)
    BY <1>2 DEF NoneAcquired, WaitForFileLock, AcquireTimedOut, WakeUp, CanLock
  <1>3. CASE StartImaging(r) \/ TakeImageLock(r) \/ AskChromeVersion(r)
    BY <1>3 DEF StartImaging, TakeImageLock, AskChromeVersion
  <1>4. CASE FlashOk(r) \/ FlashNotUp(r) \/ FlashFatal(r)
    BY <1>4 DEF FlashOk, FlashNotUp, FlashFatal
  <1>5. CASE StartTest(r) \/ TestEnds(r) \/ Finish(r) \/ RecordSucceeded(r)
    BY <1>5 DEF StartTest, TestEnds, Finish, RecordSucceeded
  <1>6. CASE RecordFailure(r) \/ HandleException(r) \/ RecordException(r)
    BY <1>6 DEF RecordFailure, HandleException, RecordException
  <1>7. CASE Finally(r) \/ Remove(r) \/ Release(r)
    BY <1>7 DEF Finally, Remove, Release
  <1> QED
    BY <1>1, <1>2, <1>3, <1>4, <1>5, <1>6, <1>7 DEF RunStep

\* The pool and its lock files change only in AcquireMachine, when it finds a
\* machine or looks at taken ones, and in RemoveMachine.
LEMMA PoolStays ==
    ASSUME NEW r \in Runs, RunStep(r), ~Acquired(r), ~NoneAcquired(r), ~Remove(r)
    PROVE  machines' = machines /\ fileLock' = fileLock
  <1> USE DEF mmVars, poolVars
  <1>1. CASE \/ ReadCacheFails(r) \/ CacheDecides(r) \/ CacheMiss(r) \/ CheckTerminated(r)
             \/ WakeUp(r) \/ StartImaging(r) \/ AskChromeVersion(r)
    BY <1>1 DEF ReadCacheFails, CacheDecides, CacheMiss, CheckTerminated, WakeUp,
                StartImaging, AskChromeVersion
  <1>2. CASE \/ WaitForFileLock(r) \/ AcquireTimedOut(r) \/ TakeImageLock(r) \/ Release(r)
    BY <1>2 DEF WaitForFileLock, AcquireSleep, AcquireTimedOut, AcquireFatal,
                TakeImageLock, Release, ReleaseMachine
  <1>3. CASE FlashOk(r) \/ FlashNotUp(r) \/ FlashFatal(r)
    BY <1>3 DEF FlashOk, Imaged, FlashNotUp, FlashFatal, NotImaged
  <1>4. CASE \/ StartTest(r) \/ TestEnds(r) \/ Finish(r) \/ RecordSucceeded(r)
             \/ RecordFailure(r) \/ HandleException(r) \/ RecordException(r) \/ Finally(r)
    BY <1>4 DEF StartTest, TestEnds, Finish, RecordSucceeded, RecordFailure,
                HandleException, RecordException, Finally
  <1> QED
    BY <1>1, <1>2, <1>3, <1>4 DEF RunStep

\* _TryToLockMachine takes the lock file of what it puts into the pool.
LEMMA TryKeepsLocked ==
    ASSUME TypeOK, PoolIsFileLocked, NEW l \in Labels, TryToLockMachines(l), main' = main
    PROVE  machines \subseteq machines' /\ PoolIsFileLocked'
  BY LabelAssumption
     DEF TypeOK, TypeOKManager, PoolIsFileLocked, TryToLockMachines, Lockable

\* Every step of a run keeps LockInv.
LEMMA RunLockStep ==
    ASSUME IInv, LockInv, NEW r \in Runs, RunStep(r)
    PROVE  LockInv'
  <1>1. /\ pc \in [Runs -> Steps] /\ mach \in [Runs -> Machines \cup {None}]
        /\ machines \subseteq Machines
        /\ fileLock \in [Machines -> {"free", "us", "other"}]
        /\ LabelOf[r] \in Labels /\ TypeOK
    BY RunAssumption DEF IInv, TypeOK, TypeOKManager
  <1>2. CASE Acquired(r)
    <2>1. PICK m \in Machines : AcquireMachine(LabelOf[r], m)
                                /\ mach' = [mach EXCEPT ![r] = m]
      BY <1>2 DEF Acquired
    <2>2. m \in machines' /\ TryToLockMachines(LabelOf[r])
      BY <2>1 DEF AcquireMachine, SelectMachine, Matching, Blank, Ripe, Unlocked,
                  Available, TryToLockMachines
    <2>3. pc' = [pc EXCEPT ![r] = "image"] /\ main' = main /\ pc[r] # "done"
      BY <1>2 DEF Acquired, Goto, mainVars, CanLock
    <2>4. machines \subseteq machines' /\ PoolIsFileLocked'
      BY <1>1, <2>2, <2>3, TryKeepsLocked DEF LockInv
    <2>5. UsedIsInPool'
      BY <1>1, <2>1, <2>2, <2>3, <2>4 DEF LockInv, UsedIsInPool
    <2>6. CleansUpAfterAll'
      BY <1>1, <2>3 DEF LockInv, CleansUpAfterAll, Alive
    <2> QED
      BY <2>4, <2>5, <2>6 DEF LockInv
  <1>3. CASE ~Acquired(r)
    <2>1. MovesOn(r)
      BY <1>1, <1>3, RunMovesOn
    <2>2. CleansUpAfterAll'
      BY <1>1, <2>1 DEF LockInv, CleansUpAfterAll, Alive, MovesOn
    <2>3. CASE NoneAcquired(r)
      <3>1. TryToLockMachines(LabelOf[r])
        BY <2>3 DEF NoneAcquired, AcquireNothing
      <3>2. machines \subseteq machines' /\ PoolIsFileLocked'
        BY <1>1, <2>1, <3>1, TryKeepsLocked DEF LockInv, MovesOn
      <3>3. UsedIsInPool'
        BY <1>1, <2>1, <3>2 DEF LockInv, UsedIsInPool, MovesOn
      <3> QED
        BY <2>2, <3>2, <3>3 DEF LockInv
    <2>4. CASE Remove(r)
      <3>1. machines' = machines \ {mach[r]} /\ pc[r] = "remove"
        BY <2>4 DEF Remove, RemoveMachine
      <3>2. \A m \in machines' : fileLock'[m] = fileLock[m]
        BY <1>1, <2>4, <3>1 DEF Remove, RemoveMachine
      <3>3. PoolIsFileLocked'
        BY <2>1, <3>1, <3>2 DEF LockInv, PoolIsFileLocked, MovesOn
      <3>4. \A s \in Runs : pc[s] \in UsingSteps => mach[s] # mach[r]
        BY <1>1, <3>1, MachineExists
           DEF IInv, MutualExclusion, Holds, Alive, UsingSteps, MachineSteps
      <3>5. UsedIsInPool'
        BY <1>1, <2>1, <3>1, <3>4 DEF LockInv, UsedIsInPool, MovesOn, UsingSteps
      <3> QED
        BY <2>2, <3>3, <3>5 DEF LockInv
    <2>5. CASE ~NoneAcquired(r) /\ ~Remove(r)
      <3>1. machines' = machines /\ fileLock' = fileLock
        BY <1>3, <2>5, PoolStays
      <3>2. UsedIsInPool'
        BY <1>1, <2>1, <3>1 DEF LockInv, UsedIsInPool, MovesOn
      <3>3. PoolIsFileLocked'
        BY <2>1, <3>1 DEF LockInv, PoolIsFileLocked, MovesOn
      <3> QED
        BY <2>2, <3>2, <3>3 DEF LockInv
    <2> QED
      BY <2>3, <2>4, <2>5
  <1> QED
    BY <1>2, <1>3

\* So does every other step.
LEMMA OtherLockStep ==
    ASSUME IInv, LockInv, MainStep \/ Tick \/ Environment \/ Ended \/ UNCHANGED vars
    PROVE  LockInv'
  <1>1. pc' = pc /\ mach' = mach /\ machines' = machines
    BY DEF MainStep, Tick, Environment, Ended, AllComplete, Interrupt,
           AllTerminated, CleanUp, TerminateRun, RecordTerminated, Cleanup,
           Disconnect, Reconnect, OtherLock, OtherUnlock, vars, mmVars,
           poolVars, threadVars
  <1>2. UsedIsInPool'
    BY <1>1 DEF LockInv, UsedIsInPool
  <1>3. CleansUpAfterAll'
    <2>1. CASE MainStep
      BY <1>1, <2>1 DEF LockInv, CleansUpAfterAll, Alive, MainStep, AllComplete, Interrupt,
                        AllTerminated, CleanUp, TerminateRun, RecordTerminated
    <2>2. CASE Tick \/ Environment \/ Ended \/ UNCHANGED vars
      <3>1. main' = main
        BY <2>2 DEF Tick, Environment, Ended, vars, mainVars
      <3> QED
        BY <1>1, <3>1 DEF LockInv, CleansUpAfterAll, Alive
    <2> QED
      BY <2>1, <2>2
  <1>4. PoolIsFileLocked'
    <2>1. CASE CleanUp
      BY <2>1 DEF CleanUp, PoolIsFileLocked
    <2>2. CASE MainStep /\ ~CleanUp
      <3>1. main # "end" /\ fileLock' = fileLock
        BY <2>2 DEF MainStep, AllComplete, Interrupt, AllTerminated, TerminateRun,
                    RecordTerminated, mmVars
      <3> QED
        BY <1>1, <3>1 DEF LockInv, PoolIsFileLocked
    <2>3. CASE Tick \/ Environment \/ Ended \/ UNCHANGED vars
      <3>1. main' = main
        BY <2>3 DEF Tick, Environment, Ended, vars, mainVars
      <3>2. fileLock \in [Machines -> {"free", "us", "other"}] /\ machines \subseteq Machines
        BY DEF IInv, TypeOK, TypeOKManager
      <3>3. \A m \in Machines : fileLock[m] = "us" => fileLock'[m] = "us"
        BY <2>3, <3>2 DEF Tick, Environment, Ended, vars, mmVars, Disconnect, Reconnect,
                          OtherLock, OtherUnlock
      <3> QED
        BY <1>1, <3>1, <3>2, <3>3 DEF LockInv, PoolIsFileLocked
    <2> QED
      BY <2>1, <2>2, <2>3
  <1> QED
    BY <1>2, <1>3, <1>4 DEF LockInv

\* The machines of the pool are ours: those of Init are none.
LEMMA LockInvariance == Spec => [](IInv /\ LockInv)
  <1>1. Init => LockInv
    BY DEF Init, InitManager, LockInv, UsedIsInPool, UsingSteps, PoolIsFileLocked,
           CleansUpAfterAll
  <1>2. (IInv /\ LockInv) /\ [Next]_vars => (IInv /\ LockInv)'
    BY StepInv, RunLockStep, OtherLockStep DEF Next
  <1> QED
    BY InitInv, <1>1, <1>2, PTL DEF Spec

\* A machine in use is file-locked by this experiment up to its clean-up, even
\* while other runs remove unreachable machines from the pool and take them
\* back, and other experiments lock what is free (_TryToLockMachine,
\* RemoveMachine).
THEOREM FileLockedUntilCleanup == Spec => [](main # "end" => OwnFileLock)
  <1>1. LockInv => (main # "end" => OwnFileLock)
    BY DEF LockInv, UsedIsInPool, PoolIsFileLocked, OwnFileLock
  <1> QED
    BY LockInvariance, <1>1, PTL

\* In an experiment that nobody interrupts, the clean-up of experiment.py comes
\* after the last run, so a machine in use is always file-locked; Terminate does
\* not wait for the runs, and there the assumption is needed.
THEOREM FileLocked == ASSUME ~MayInterrupt PROVE Spec => []OwnFileLock
  <1>1. LockInv => OwnFileLock
    BY DEF LockInv, UsedIsInPool, PoolIsFileLocked, CleansUpAfterAll, OwnFileLock,
           Alive, UsingSteps
  <1> QED
    BY LockInvariance, <1>1, PTL

-----------------------------------------------------------------------------
(* Images *)

\* A run that had machine m has left the steps that use it without a result.
FailedOn(m) ==
    \E s \in Runs : mach[s] = m /\ retval[s] = None /\ pc[s] \notin UsingSteps

\* The steps between the imaging of a machine and the end of the test.
ImagedSteps == {"version", "run", "testing"}

\* What is known of machine m tells the truth about the image on it: its
\* checksum file, the manager's checksum (except between the two attempts of a
\* flash), and the step of the run that has it.
KnownTruly(m) ==
    /\ ckfile[m] \in {None, dut[m]}
    /\ \/ checksum[m] \in {None, dut[m]}
       \/ \E r \in Runs : mach[r] = m /\ pc[r] = "reflash"
    /\ \A r \in Runs : mach[r] = m /\ pc[r] \in ImagedSteps => dut[m] = LabelOf[r]

\* A run has no result before its test ends.
NoResultYet ==
    \A r \in Runs : pc[r] \in BeforeSteps \cup UsingSteps => retval[r] = None

ImageInv == NoResultYet /\ \A m \in Machines : KnownTruly(m) \/ FailedOn(m)

\* A run without a result that is past its machine stays one: nothing sets the
\* result later.
LEMMA FailedForGood ==
    ASSUME IInv, NoResultYet, NEW r \in Runs, RunStep(r), NEW m \in Machines, FailedOn(m)
    PROVE  FailedOn(m)'
  <1>1. PICK s \in Runs : mach[s] = m /\ retval[s] = None /\ pc[s] \notin UsingSteps
    BY DEF FailedOn
  <1>2. /\ pc \in [Runs -> Steps] /\ mach \in [Runs -> Machines \cup {None}]
        /\ retval \in [Runs -> {0, 1, None}] /\ TypeOK
    BY DEF IInv, TypeOK
  <1>3. pc[s] \notin BeforeSteps
    BY <1>1, NoneAssumption DEF IInv, MachineKnown
  <1>4. CASE Acquired(r) \/ CacheDecides(r)
    <2>1. s # r
      BY <1>3, <1>4 DEF Acquired, CanLock, CacheDecides, BeforeSteps
    <2>2. mach'[s] = m /\ retval'[s] = None /\ pc'[s] = pc[s]
      BY <1>1, <1>2, <1>4, <2>1 DEF Acquired, CacheDecides, Goto
    <2> QED
      BY <1>1, <2>2 DEF FailedOn
  <1>5. CASE TestEnds(r)
    <2>1. s # r
      BY <1>1, <1>5 DEF TestEnds, UsingSteps
    <2>2. mach'[s] = m /\ retval'[s] = None /\ pc'[s] = pc[s]
      BY <1>1, <1>2, <1>5, <2>1 DEF TestEnds, Goto
    <2> QED
      BY <1>1, <2>2 DEF FailedOn
  <1>6. CASE ~Acquired(r) /\ ~CacheDecides(r) /\ ~TestEnds(r)
    <2>1. retval' = retval
      BY <1>6 DEF RunStep, ReadCacheFails, CacheMiss, CheckTerminated, NoneAcquired,
           WaitForFileLock, AcquireTimedOut, WakeUp, StartImaging, TakeImageLock,
           FlashOk, FlashNotUp, FlashFatal, AskChromeVersion, StartTest, Finish,
           RecordSucceeded, RecordFailure, HandleException, RecordException,
           Finally, Remove, Release
    <2>2. MovesOn(r)
      BY <1>2, <1>6, RunMovesOn
    <2> QED
      BY <1>1, <1>2, <2>1, <2>2 DEF FailedOn, MovesOn
  <1> QED
    BY <1>4, <1>5, <1>6

\* Only TestEnds and the cache give a run its result, and both leave the steps
\* before it.
LEMMA ResultStep ==
    ASSUME IInv, NoResultYet, NEW r \in Runs, RunStep(r)
    PROVE  NoResultYet'
  <1>1. /\ pc \in [Runs -> Steps] /\ retval \in [Runs -> {0, 1, None}] /\ TypeOK
    BY DEF IInv, TypeOK
  <1>2. CASE Acquired(r)
    BY <1>1, <1>2 DEF NoResultYet, Acquired, CanLock, Goto, BeforeSteps, UsingSteps
  <1>3. CASE CacheDecides(r) \/ TestEnds(r)
    BY <1>1, <1>3 DEF NoResultYet, CacheDecides, TestEnds, Goto, BeforeSteps, UsingSteps
  <1>4. CASE ~Acquired(r) /\ ~CacheDecides(r) /\ ~TestEnds(r)
    <2>1. retval' = retval
      BY <1>4 DEF RunStep, ReadCacheFails, CacheMiss, CheckTerminated, NoneAcquired,
           WaitForFileLock, AcquireTimedOut, WakeUp, StartImaging, TakeImageLock,
           FlashOk, FlashNotUp, FlashFatal, AskChromeVersion, StartTest, Finish,
           RecordSucceeded, RecordFailure, HandleException, RecordException,
           Finally, Remove, Release
    <2>2. pc'[r] \in BeforeSteps => pc[r] \in BeforeSteps
      BY <1>1, <1>4 DEF RunStep, ReadCacheFails, CacheMiss, CheckTerminated,
           NoneAcquired, WaitForFileLock, CanLock, AcquireTimedOut, WakeUp, StartImaging,
           TakeImageLock, FlashOk, FlashNotUp, FlashFatal, AskChromeVersion, StartTest,
           Finish, RecordSucceeded, RecordFailure, HandleException, RecordException,
           Finally, Remove, Release, Goto, BeforeSteps
    <2>3. MovesOn(r)
      BY <1>1, <1>4, RunMovesOn
    <2> QED
      BY <1>1, <2>1, <2>2, <2>3 DEF NoResultYet, MovesOn
  <1> QED
    BY <1>2, <1>3, <1>4

\* What a step may do to keep what is known of a machine true: the device is
\* left alone, a checksum is read from its checksum file if at all, and no run
\* comes to believe that its image is there.
Quiet(m) ==
    /\ dut'[m] = dut[m] /\ ckfile'[m] = ckfile[m]
    /\ checksum'[m] # checksum[m] => checksum'[m] = ckfile[m]
    /\ \A s \in Runs : mach'[s] = m =>
        /\ pc'[s] \in ImagedSteps => mach[s] = m /\ pc[s] \in ImagedSteps
    /\ \A s \in Runs : mach[s] = m /\ pc[s] = "reflash" => mach'[s] = m /\ pc'[s] = "reflash"

LEMMA QuietKeeps ==
    ASSUME NEW m \in Machines, KnownTruly(m), Quiet(m)
    PROVE  KnownTruly(m)'
  <1>1. ckfile'[m] \in {None, dut'[m]}
    BY DEF KnownTruly, Quiet
  <1>2. \/ checksum'[m] \in {None, dut'[m]}
        \/ \E r \in Runs : mach'[r] = m /\ pc'[r] = "reflash"
    BY DEF KnownTruly, Quiet
  <1>3. \A r \in Runs : mach'[r] = m /\ pc'[r] \in ImagedSteps => dut'[m] = LabelOf[r]
    BY DEF KnownTruly, Quiet
  <1> QED
    BY <1>1, <1>2, <1>3 DEF KnownTruly

\* The steps that flash nothing, but StartImaging.
LEMMA QuietRunStep ==
    ASSUME IInv, NEW r \in Runs, RunStep(r), NEW m \in Machines,
           ~StartImaging(r), ~FlashOk(r), ~FlashNotUp(r), ~FlashFatal(r)
    PROVE  Quiet(m)
  <1>1. /\ pc \in [Runs -> Steps] /\ mach \in [Runs -> Machines \cup {None}] /\ TypeOK
        /\ checksum \in [Machines -> Labels \cup {None}]
    BY DEF IInv, TypeOK, TypeOKManager
  <1>2. CASE Acquired(r) \/ NoneAcquired(r)
    <2>1. TryToLockMachines(LabelOf[r]) /\ UNCHANGED deviceVars
      BY <1>2 DEF Acquired, AcquireMachine, NoneAcquired, AcquireNothing
    <2>2. checksum'[m] # checksum[m] => checksum'[m] = ckfile[m]
      BY <2>1 DEF TryToLockMachines, ReadChecksum
    <2>3. /\ \A s \in Runs \ {r} : mach'[s] = mach[s] /\ pc'[s] = pc[s]
          /\ pc[r] \notin ImagedSteps /\ pc[r] # "reflash" /\ pc'[r] \notin ImagedSteps
      BY <1>1, <1>2 DEF Acquired, NoneAcquired, CanLock, Goto, ImagedSteps
    <2> QED
      BY <2>1, <2>2, <2>3 DEF Quiet, deviceVars
  <1>3. CASE ~Acquired(r) /\ ~NoneAcquired(r)
    <2>1. dut' = dut /\ ckfile' = ckfile /\ checksum' = checksum
      BY <1>3 DEF RunStep, ReadCacheFails, CacheDecides, CacheMiss, CheckTerminated,
           WaitForFileLock, AcquireSleep, AcquireTimedOut, AcquireFatal, WakeUp,
           TakeImageLock, AskChromeVersion, StartTest, TestEnds, Finish,
           RecordSucceeded, RecordFailure, HandleException, RecordException, Finally,
           Remove, RemoveMachine, Release, ReleaseMachine, mmVars, poolVars, deviceVars
    <2>2. pc[r] # "reflash" /\ (pc'[r] \in ImagedSteps => pc[r] \in ImagedSteps)
      BY <1>1, <1>3 DEF RunStep, ReadCacheFails, CacheDecides, CacheMiss, CheckTerminated,
           WaitForFileLock, CanLock, AcquireTimedOut, WakeUp, TakeImageLock,
           AskChromeVersion, StartTest, TestEnds, Finish, RecordSucceeded,
           RecordFailure, HandleException, RecordException, Finally, Remove, Release,
           Goto, ImagedSteps
    <2>3. MovesOn(r)
      BY <1>1, <1>3, RunMovesOn
    <2> QED
      BY <1>1, <2>1, <2>2, <2>3 DEF Quiet, MovesOn
  <1> QED
    BY <1>2, <1>3

\* ImageMachine returns early only for a machine that carries the image.
LEMMA EarlyReturnStep ==
    ASSUME IInv, NEW r \in Runs, StartImaging(r), NEW m \in Machines, KnownTruly(m)
    PROVE  KnownTruly(m)'
  <1>1. /\ pc \in [Runs -> Steps] /\ mach \in [Runs -> Machines \cup {None}]
        /\ LabelOf[r] \in Labels /\ MutualExclusion
    BY RunAssumption DEF IInv, TypeOK
  <1>2. /\ mach' = mach /\ dut' = dut /\ ckfile' = ckfile /\ checksum' = checksum
        /\ pc[r] = "image"
        /\ pc' = [pc EXCEPT ![r] =
               IF AlreadyImaged(mach[r], LabelOf[r]) THEN "run" ELSE "imagelock"]
    BY DEF StartImaging, Goto, mmVars, poolVars, deviceVars
  <1>3. CASE mach[r] # m \/ ~AlreadyImaged(m, LabelOf[r])
    <2>1. Quiet(m)
      BY <1>1, <1>2, <1>3 DEF Quiet, ImagedSteps
    <2> QED
      BY <2>1, QuietKeeps
  <1>4. CASE mach[r] = m /\ AlreadyImaged(m, LabelOf[r])
    <2>1. checksum[m] = LabelOf[r]
      BY <1>4 DEF AlreadyImaged, Checksum
    <2>2. \A s \in Runs : s # r /\ mach[s] = m => pc[s] = "done"
      BY <1>1, <1>2, <1>4 DEF MutualExclusion, Holds, Alive
    <2>3. checksum[m] \in {None, dut[m]}
      BY <1>2, <2>2 DEF KnownTruly
    <2>4. dut[m] = LabelOf[r]
      BY <1>1, <2>1, <2>3, NoneAssumption
    <2> QED
      BY <1>1, <1>2, <1>4, <2>2, <2>3, <2>4 DEF KnownTruly, ImagedSteps
  <1> QED
    BY <1>3, <1>4

\* A flash that succeeds leaves the label's image, and knows it.  That the
\* checksum file of another image is gone needs the stateful partition wiped.
LEMMA FlashOkStep ==
    ASSUME IInv, ~KeepStateful, NEW r \in Runs, FlashOk(r), NEW m \in Machines, KnownTruly(m)
    PROVE  KnownTruly(m)'
  <1>1. /\ pc \in [Runs -> Steps] /\ mach \in [Runs -> Machines \cup {None}]
        /\ LabelOf[r] \in Labels /\ MutualExclusion
        /\ checksum \in [Machines -> Labels \cup {None}]
        /\ dut \in [Machines -> Labels \cup {Garbage}]
        /\ ckfile \in [Machines -> Labels \cup {None}]
    BY RunAssumption DEF IInv, TypeOK, TypeOKManager
  <1>2. mach[r] \in Machines
    BY MachineExists DEF IInv, FlashOk, MachineSteps, UsingSteps
  <1>3. /\ mach' = mach /\ pc' = [pc EXCEPT ![r] = "version"]
        /\ pc[r] \in {"flash", "reflash"}
        /\ DoImageOk(mach[r], LabelOf[r])
        /\ checksum' = [checksum EXCEPT ![mach[r]] = Checksum(LabelOf[r])]
    BY DEF FlashOk, Imaged, Goto
  <1>4. CASE mach[r] # m
    <2>1. dut'[m] = dut[m] /\ ckfile'[m] = ckfile[m] /\ checksum'[m] = checksum[m]
      BY <1>1, <1>2, <1>3, <1>4 DEF DoImageOk, deviceVars
    <2>2. Quiet(m)
      BY <1>1, <1>3, <1>4, <2>1 DEF Quiet
    <2> QED
      BY <2>2, QuietKeeps
  <1>5. CASE mach[r] = m
    <2>1. \A s \in Runs : s # r /\ mach[s] = m => pc[s] = "done"
      BY <1>1, <1>3, <1>5 DEF MutualExclusion, Holds, Alive
    <2>2. dut'[m] = LabelOf[r] /\ ckfile'[m] \in {None, LabelOf[r]}
      <3>1. CASE FlashSkipped(m, LabelOf[r])
        BY <1>1, <1>3, <1>5, <3>1, NoneAssumption
           DEF DoImageOk, FlashSkipped, KnownTruly, deviceVars
      <3>2. CASE ~FlashSkipped(m, LabelOf[r])
        BY <1>1, <1>3, <1>5, <3>2 DEF DoImageOk, AfterFlash
      <3> QED
        BY <3>1, <3>2
    <2>3. checksum'[m] \in {None, LabelOf[r]}
      BY <1>1, <1>3, <1>5 DEF Checksum
    <2>4. \A s \in Runs : mach'[s] = m /\ pc'[s] \in ImagedSteps => s = r
      BY <1>1, <1>3, <2>1 DEF ImagedSteps
    <2> QED
      BY <2>2, <2>3, <2>4 DEF KnownTruly
  <1> QED
    BY <1>4, <1>5

\* A remote image whose machine did not come up: after the first time the
\* checksum is wrong until the second, after the second the run has failed.
LEMMA FlashNotUpStep ==
    ASSUME IInv, NoResultYet, ~KeepStateful, NEW r \in Runs, FlashNotUp(r),
           NEW m \in Machines, KnownTruly(m)
    PROVE  KnownTruly(m)' \/ FailedOn(m)'
  <1>1. /\ pc \in [Runs -> Steps] /\ mach \in [Runs -> Machines \cup {None}]
        /\ MutualExclusion
        /\ dut \in [Machines -> Labels \cup {Garbage}]
        /\ ckfile \in [Machines -> Labels \cup {None}]
    BY DEF IInv, TypeOK, TypeOKManager
  <1>2. mach[r] \in Machines
    BY MachineExists DEF IInv, FlashNotUp, MachineSteps, UsingSteps
  <1>3. /\ mach' = mach /\ retval' = retval /\ checksum' = checksum
        /\ DoImageNotUp(mach[r], LabelOf[r])
        /\ \/ pc[r] = "flash" /\ pc' = [pc EXCEPT ![r] = "reflash"]
           \/ pc[r] = "reflash" /\ pc' = [pc EXCEPT ![r] = "except"]
    BY DEF FlashNotUp, NotImaged, Goto, poolVars
  <1>4. CASE mach[r] # m
    <2>1. dut'[m] = dut[m] /\ ckfile'[m] = ckfile[m] /\ checksum'[m] = checksum[m]
      BY <1>1, <1>2, <1>3, <1>4 DEF DoImageNotUp
    <2>2. Quiet(m)
      BY <1>1, <1>3, <1>4, <2>1 DEF Quiet
    <2> QED
      BY <2>2, QuietKeeps
  <1>5. CASE mach[r] = m /\ pc[r] = "flash"
    <2>1. \A s \in Runs : s # r /\ mach[s] = m => pc[s] = "done"
      BY <1>1, <1>5 DEF MutualExclusion, Holds, Alive
    <2>2. pc' = [pc EXCEPT ![r] = "reflash"]
      BY <1>3, <1>5
    <2>3. ckfile'[m] = None
      BY <1>1, <1>3, <1>5 DEF DoImageNotUp, AfterFlash
    <2>4. \A s \in Runs : mach'[s] = m => pc'[s] \notin ImagedSteps
      BY <1>1, <1>3, <2>1, <2>2 DEF ImagedSteps
    <2>5. mach'[r] = m /\ pc'[r] = "reflash"
      BY <1>1, <1>3, <1>5, <2>2
    <2> QED
      BY <2>3, <2>4, <2>5 DEF KnownTruly
  <1>6. CASE mach[r] = m /\ pc[r] = "reflash"
    <2>1. mach'[r] = m /\ retval'[r] = None /\ pc'[r] = "except"
      BY <1>1, <1>3, <1>6 DEF NoResultYet, UsingSteps
    <2> QED
      BY <2>1 DEF FailedOn, UsingSteps
  <1> QED
    BY <1>3, <1>4, <1>5, <1>6

\* A flash that fails for good is the end of its run.
LEMMA FlashFatalStep ==
    ASSUME IInv, NoResultYet, NEW r \in Runs, FlashFatal(r), NEW m \in Machines, KnownTruly(m)
    PROVE  KnownTruly(m)' \/ FailedOn(m)'
  <1>1. /\ pc \in [Runs -> Steps] /\ mach \in [Runs -> Machines \cup {None}]
        /\ dut \in [Machines -> Labels \cup {Garbage}]
        /\ ckfile \in [Machines -> Labels \cup {None}]
    BY DEF IInv, TypeOK, TypeOKManager
  <1>2. /\ mach' = mach /\ retval' = retval /\ checksum' = checksum
        /\ DoImageFatal(mach[r], LabelOf[r])
        /\ pc[r] \in {"flash", "reflash"} /\ pc' = [pc EXCEPT ![r] = "finally"]
    BY DEF FlashFatal, NotImaged, Goto, poolVars
  <1>3. CASE mach[r] # m
    <2>1. dut'[m] = dut[m] /\ ckfile'[m] = ckfile[m] /\ checksum'[m] = checksum[m]
      BY <1>1, <1>2, <1>3 DEF DoImageFatal
    <2>2. Quiet(m)
      BY <1>1, <1>2, <1>3, <2>1 DEF Quiet, ImagedSteps
    <2> QED
      BY <2>2, QuietKeeps
  <1>4. CASE mach[r] = m
    <2>1. mach'[r] = m /\ retval'[r] = None /\ pc'[r] = "finally"
      BY <1>1, <1>2, <1>4 DEF NoResultYet, UsingSteps
    <2> QED
      BY <2>1 DEF FailedOn, UsingSteps
  <1> QED
    BY <1>3, <1>4

LEMMA ImageStep ==
    ASSUME IInv, ImageInv, ~KeepStateful, [Next]_vars
    PROVE  ImageInv'
  <1>1. ASSUME NEW r \in Runs, RunStep(r) PROVE ImageInv'
    <2>1. NoResultYet'
      BY <1>1, ResultStep DEF ImageInv
    <2>2. ASSUME NEW m \in Machines PROVE KnownTruly(m)' \/ FailedOn(m)'
      <3>1. CASE FailedOn(m)
        BY <1>1, <3>1, FailedForGood DEF ImageInv
      <3>2. CASE ~FailedOn(m)
        <4>1. KnownTruly(m) /\ NoResultYet
          BY <3>2 DEF ImageInv
        <4>2. CASE StartImaging(r)
          BY <4>1, <4>2, EarlyReturnStep
        <4>3. CASE FlashOk(r)
          BY <4>1, <4>3, FlashOkStep
        <4>4. CASE FlashNotUp(r)
          BY <4>1, <4>4, FlashNotUpStep
        <4>5. CASE FlashFatal(r)
          BY <4>1, <4>5, FlashFatalStep
        <4>6. CASE ~StartImaging(r) /\ ~FlashOk(r) /\ ~FlashNotUp(r) /\ ~FlashFatal(r)
          <5>1. Quiet(m)
            BY <1>1, <4>6, QuietRunStep
          <5> QED
            BY <4>1, <5>1, QuietKeeps
        <4> QED
          BY <4>2, <4>3, <4>4, <4>5, <4>6
      <3> QED
        BY <3>1, <3>2
    <2> QED
      BY <2>1, <2>2 DEF ImageInv
  <1>2. CASE MainStep \/ Tick \/ Environment \/ Ended \/ UNCHANGED vars
    <2>1. pc' = pc /\ mach' = mach /\ retval' = retval
      BY <1>2 DEF MainStep, Tick, Environment, Ended, AllComplete, Interrupt,
           AllTerminated, CleanUp, TerminateRun, RecordTerminated, vars, threadVars
    <2>2. dut' = dut /\ ckfile' = ckfile /\ checksum' = checksum
      BY <1>2 DEF MainStep, Tick, Environment, Ended, AllComplete, Interrupt,
           AllTerminated, CleanUp, TerminateRun, RecordTerminated, Cleanup,
           Disconnect, Reconnect, OtherLock, OtherUnlock, vars, mmVars, poolVars, deviceVars
    <2> QED
      BY <2>1, <2>2 DEF ImageInv, NoResultYet, KnownTruly, FailedOn
  <1> QED
    BY <1>1, <1>2 DEF Next

\* While a test runs, the device carries the image of its label, unless an
\* earlier run failed on that machine (ImageMachine, its early return, the
\* checksum files of image_chromeos.py and the checksums that the manager reads
\* and remembers).  With --keep_stateful the checksum file outlives the image
\* it names and this does not hold.
THEOREM TestsTheRightImage == ASSUME ~KeepStateful PROVE Spec => []RightImageUnlessFailed
  <1>1. Init => ImageInv
    BY NoneAssumption DEF Init, InitManager, ImageInv, NoResultYet, KnownTruly, ImagedSteps
  <1>2. (IInv /\ ImageInv) /\ [Next]_vars => (IInv /\ ImageInv)'
    BY StepInv, ImageStep
  <1>3. IInv /\ ImageInv => RightImageUnlessFailed
    <2> SUFFICES ASSUME IInv, ImageInv, NEW r \in Runs, pc[r] = "testing"
                 PROVE  \/ dut[mach[r]] = LabelOf[r]
                        \/ \E s \in Runs : ~Alive(s) /\ mach[s] = mach[r] /\ retval[s] = None
      BY DEF RightImageUnlessFailed
    <2>1. mach[r] \in Machines
      BY MachineExists DEF IInv, MachineSteps, UsingSteps
    <2>2. CASE KnownTruly(mach[r])
      BY <2>2 DEF KnownTruly, ImagedSteps
    <2>3. CASE FailedOn(mach[r])
      <3>1. PICK s \in Runs : mach[s] = mach[r] /\ retval[s] = None /\ pc[s] \notin UsingSteps
        BY <2>3 DEF FailedOn
      <3>2. ~Alive(s)
        BY <2>1, <3>1 DEF IInv, MutualExclusion, Holds, Alive, UsingSteps
      <3> QED
        BY <3>1, <3>2
    <2> QED
      BY <2>1, <2>2, <2>3 DEF ImageInv
  <1> QED
    BY InitInv, <1>1, <1>2, <1>3, PTL DEF Spec
=============================================================================
