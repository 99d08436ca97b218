--------------------------- MODULE MachineManager ---------------------------
(***************************************************************************)
(* crosperf/machine_manager.py: the pool of devices (DUTs) that the        *)
(* benchmark runs of one experiment share.                                 *)
(*                                                                         *)
(* The module holds the manager's state and its operations as action       *)
(* fragments; BenchmarkRun composes them with the run threads.  Each       *)
(* operation takes the manager's re-entrant lock (_lock) for its whole     *)
(* body, so it is one step, except that AcquireMachine also sleeps with    *)
(* the lock held while no machine of the label can be file-locked.         *)
(*                                                                         *)
(* The lists _all_machines and _machines are sets here: which of several   *)
(* equally good machines comes first in the list is a free choice.         *)
(***************************************************************************)
EXTENDS Integers

CONSTANTS
    Machines,       \* _all_machines: the reachable machines of the experiment
    Labels,         \* the labels (images) under comparison
    LocalLabels,    \* labels whose image is a local file (image_type "local")
    TrybotLabels,   \* non-local labels that nevertheless have a checksum
    Remote,         \* Remote[l]: label.remote, the machines label l may use
    Runs,           \* the benchmark run threads
    None,           \* Python's None
    LocksDir,       \* BOOLEAN: locks_dir is set, machines are file-locked
    KeepStateful,   \* BOOLEAN: --keep_stateful
    FreshAge,       \* 8 s: a machine released more recently is left alone
    StaleAge,       \* 15 s: a machine released longer ago gets a new start
    CheckInterval,  \* 120 s: check_interval_time
    AcquireTimeout  \* acquire_timeout of the experiment

ASSUME LabelAssumption ==
    /\ LocalLabels \subseteq Labels
    /\ TrybotLabels \subseteq Labels \ LocalLabels
    /\ Remote \in [Labels -> SUBSET Machines]

ASSUME NoneAssumption ==
    None \notin Machines /\ None \notin Labels /\ None \notin Runs

ASSUME TimeAssumption ==
    /\ FreshAge \in Nat /\ StaleAge \in Nat /\ FreshAge < StaleAge
    /\ CheckInterval \in Nat \ {0}
    /\ AcquireTimeout \in Nat

ASSUME FlagAssumption == LocksDir \in BOOLEAN /\ KeepStateful \in BOOLEAN

VARIABLES
    machines,       \* _machines: the machines the manager has locked
    locked,         \* machine.locked
    checksum,       \* machine.checksum: what the manager believes is flashed
    age,            \* now - machine.released_time, up to StaleAge + 1
    acquireTimeout, \* acquire_timeout, shared by all the runs, never reset
    mmLock,         \* the thread that keeps _lock across steps, or None
    imageLock,      \* the thread that holds image_lock, or None
    fileLock,       \* owner of the lock file of a machine (locks_dir)
    reachable,      \* does the device answer (IsReachable)
    dut,            \* the image that is really on the device
    ckfile          \* content of the checksum file kept on the device

poolVars == <<machines, locked, checksum, age, acquireTimeout>>
deviceVars == <<dut, ckfile>>
mmVars == <<poolVars, mmLock, imageLock, fileLock, reachable, deviceVars>>

\* An image that is on a device after a flash that went wrong.
Garbage == "garbage"

\* label.checksum: the md5 of a local image, of the address of a trybot
\* image, and None for the other remote images.
Checksum(l) == IF l \in LocalLabels \cup TrybotLabels THEN l ELSE None

TypeOKManager ==
    /\ machines \subseteq Machines
    /\ locked \in [Machines -> BOOLEAN]
    /\ checksum \in [Machines -> Labels \cup {None}]
    /\ age \in [Machines -> 0 .. StaleAge + 1]
    /\ acquireTimeout \in Int
    /\ mmLock \in Runs \cup {None}
    /\ imageLock \in Runs \cup {None}
    /\ fileLock \in [Machines -> {"free", "us", "other"}]
    /\ reachable \in [Machines -> BOOLEAN]
    /\ dut \in [Machines -> Labels \cup {Garbage}]
    /\ ckfile \in [Machines -> Labels \cup {None}]

\* A machine starts with any image; its checksum file, when it has one,
\* names that image.  AddMachine has put every reachable machine in
\* _all_machines; released_time is the time of that call.
InitManager ==
    /\ machines = {}
    /\ locked = [m \in Machines |-> FALSE]
    /\ checksum = [m \in Machines |-> None]
    /\ age = [m \in Machines |-> 0]
    /\ acquireTimeout = AcquireTimeout
    /\ mmLock = None
    /\ imageLock = None
    /\ fileLock \in [Machines -> {"free", "other"}]
    /\ (~LocksDir) => fileLock = [m \in Machines |-> "free"]
    /\ reachable = [m \in Machines |-> TRUE]
    /\ dut \in [Machines -> Labels \cup {Garbage}]
    /\ ckfile \in [Machines -> LocalLabels \cup {None}]
    /\ \A m \in Machines : ckfile[m] \in {None, dut[m]}

-----------------------------------------------------------------------------
(* AcquireMachine *)

\* The machines of label l that _TryToLockMachine adds to _machines.
Lockable(l) ==
    {m \in Remote[l] \ machines : LocksDir => fileLock[m] # "other"}

\* GetAvailableMachines(label), once the machines have been tried.
Available(l) == (machines \cup Lockable(l)) \cap Remote[l]

\* Mutant: the checksum is taken from the image instead of the checksum file.
ReadChecksumOfImage(l) ==
    [m \in Machines |->
        IF m \in Lockable(l) /\ reachable[m] THEN dut[m] ELSE checksum[m]]

\* machine.checksum after _TryToLockMachine: read from the device when that
\* succeeds, else left alone.
ReadChecksum(l) ==
    [m \in Machines |->
        IF m \in Lockable(l) /\ reachable[m] /\ ckfile[m] # None
        THEN ckfile[m] ELSE checksum[m]]

\* Mutant: the machines are used without locking their lock files.
TryWithoutFileLock(l) ==
    /\ machines' = machines \cup Lockable(l)
    /\ checksum' = ReadChecksum(l)
    /\ UNCHANGED fileLock

\* _TryToLockMachine for every machine of the label.
TryToLockMachines(l) ==
    /\ machines' = machines \cup Lockable(l)
    /\ checksum' = ReadChecksum(l)
    /\ fileLock' = [m \in Machines |->
                       IF LocksDir /\ m \in Lockable(l) THEN "us" ELSE fileLock[m]]

\* Mutant: machines that are taken already are offered again.
UnlockedOrNot(l) == Available(l)

Unlocked(l) == {m \in Available(l) : ~locked[m]}
Matching(l) ==
    {m \in Unlocked(l) : Checksum(l) # None /\ ReadChecksum(l)[m] = Checksum(l)}
Blank(l) == {m \in Unlocked(l) : ReadChecksum(l)[m] = None}
Stale(l) == {m \in Unlocked(l) : age[m] > StaleAge}
Ripe(l)  == {m \in Unlocked(l) : age[m] > FreshAge /\ age[m] <= StaleAge}

\* m.released_time = time.time() for every machine of S.
ResetAge(S) == age' = [m \in Machines |-> IF m \in S THEN 0 ELSE age[m]]

\* The machine AcquireMachine returns: one that carries the image already,
\* else one with no known image, else one released for a while, but not for
\* so long that its age is reset.  The stale machines that precede the chosen
\* one in the list are reset too.
SelectMachine(l, m) ==
    \/ /\ m \in Matching(l)
       /\ UNCHANGED age
    \/ /\ Matching(l) = {}
       /\ m \in Blank(l)
       /\ UNCHANGED age
    \/ /\ Matching(l) = {} /\ Blank(l) = {}
       /\ m \in Ripe(l)
       /\ \E S \in SUBSET Stale(l) : ResetAge(S)

\* AcquireMachine(label) that returns machine m to thread r.
AcquireMachine(l, m) ==
    /\ acquireTimeout >= 0
    /\ Available(l) # {}
    /\ TryToLockMachines(l)
    /\ SelectMachine(l, m)
    /\ locked' = [locked EXCEPT ![m] = TRUE]
    /\ mmLock' = None
    /\ UNCHANGED <<acquireTimeout, imageLock, reachable, deviceVars>>

\* Mutant: the age of a machine released long ago is not reset.
AcquireNothingNoReset(l) ==
    /\ acquireTimeout >= 0
    /\ Available(l) # {}
    /\ TryToLockMachines(l)
    /\ Matching(l) = {} /\ Blank(l) = {} /\ Ripe(l) = {}
    /\ mmLock' = None
    /\ UNCHANGED <<locked, age, acquireTimeout, imageLock, reachable, deviceVars>>

\* AcquireMachine(label) that returns None: every machine is taken or too fresh.
AcquireNothing(l) ==
    /\ acquireTimeout >= 0
    /\ Available(l) # {}
    /\ TryToLockMachines(l)
    /\ Matching(l) = {} /\ Blank(l) = {} /\ Ripe(l) = {}
    /\ ResetAge(Stale(l))
    /\ mmLock' = None
    /\ UNCHANGED <<locked, acquireTimeout, imageLock, reachable, deviceVars>>

SleepTime ==
    LET least == IF acquireTimeout < CheckInterval THEN acquireTimeout
                                                  ELSE CheckInterval
    IN  IF least < 1 THEN 1 ELSE least

\* No machine of the label could be file-locked: sleep, keeping _lock.
AcquireSleep(l, r) ==
    /\ acquireTimeout >= 0
    /\ Available(l) = {}
    /\ acquireTimeout' = acquireTimeout - SleepTime
    /\ mmLock' = r
    /\ UNCHANGED <<machines, locked, checksum, age, imageLock, fileLock,
                   reachable, deviceVars>>

\* The shared timeout is used up: LogFatal ends the calling thread.
AcquireFatal ==
    /\ acquireTimeout < 0
    /\ mmLock' = None
    /\ UNCHANGED <<poolVars, imageLock, fileLock, reachable, deviceVars>>

-----------------------------------------------------------------------------
(* RemoveMachine, ReleaseMachine, Cleanup *)

\* Mutant: removing a machine also clears its locked flag.
RemoveAndUnlock(m) ==
    /\ machines' = machines \ {m}
    /\ locked' = [locked EXCEPT ![m] = FALSE]
    /\ fileLock' = [fileLock EXCEPT ![m] = IF LocksDir THEN "free" ELSE @]
    /\ UNCHANGED <<checksum, age, acquireTimeout, mmLock, imageLock, reachable,
                   deviceVars>>

RemoveMachine(m) ==
    /\ machines' = machines \ {m}
    /\ fileLock' = [fileLock EXCEPT ![m] = IF LocksDir THEN "free" ELSE @]
    /\ UNCHANGED <<locked, checksum, age, acquireTimeout, mmLock, imageLock,
                   reachable, deviceVars>>

\* A machine that is not in _machines (any more) is silently left as it is.
ReleaseMachine(m) ==
    /\ locked' = [locked EXCEPT ![m] = IF m \in machines THEN FALSE ELSE @]
    /\ age' = [age EXCEPT ![m] = IF m \in machines THEN 0 ELSE @]
    /\ UNCHANGED <<machines, checksum, acquireTimeout, mmLock, imageLock,
                   fileLock, reachable, deviceVars>>

\* Experiment.Cleanup: the file locks of all the manager's machines.
Cleanup ==
    /\ fileLock' = [m \in Machines |->
                       IF LocksDir /\ m \in machines THEN "free" ELSE fileLock[m]]
    /\ UNCHANGED <<poolVars, mmLock, imageLock, reachable, deviceVars>>

-----------------------------------------------------------------------------
(* ImageMachine and image_chromeos.DoImage *)

\* The early return of ImageMachine.
AlreadyImaged(m, l) == Checksum(l) # None /\ checksum[m] = Checksum(l)

\* DoImage of a local image skips a device whose checksum file names it.
FlashSkipped(m, l) == l \in LocalLabels /\ reachable[m] /\ ckfile[m] = l

\* The checksum file after a flash: it lives on the stateful partition.
AfterFlash(m) == IF KeepStateful THEN ckfile[m] ELSE None

\* DoImage returns 0: the device carries the image.  Only a local image
\* writes its checksum on the device.
DoImageOk(m, l) ==
    IF FlashSkipped(m, l) THEN UNCHANGED deviceVars
    ELSE /\ reachable[m]
         /\ dut' = [dut EXCEPT ![m] = l]
         /\ ckfile' = [ckfile EXCEPT
                          ![m] = IF l \in LocalLabels THEN l ELSE AfterFlash(m)]

\* DoImage returns 1: a remote image was flashed and the machine is not up.
DoImageNotUp(m, l) ==
    /\ l \notin LocalLabels
    /\ dut' = [dut EXCEPT ![m] = l]
    /\ ckfile' = [ckfile EXCEPT ![m] = AfterFlash(m)]

\* DoImage calls LogFatal: the flash failed (whatever is on the device), the
\* checksum could not be written, or the image did not verify after its
\* checksum had been written.
DoImageFatal(m, l) ==
    /\ ~FlashSkipped(m, l)
    /\ \/ /\ dut' \in {[dut EXCEPT ![m] = i] : i \in {dut[m], l, Garbage}}
          /\ ckfile' \in {[ckfile EXCEPT ![m] = c] : c \in {ckfile[m], None}}
       \/ /\ l \in LocalLabels
          /\ dut' = [dut EXCEPT ![m] = Garbage]
          /\ ckfile' = [ckfile EXCEPT ![m] = l]

\* Mutant: the machine's checksum is not updated after it has been flashed.
ImagedUnrecorded(m, l) ==
    /\ imageLock' = None
    /\ UNCHANGED <<poolVars, mmLock, fileLock, reachable>>

\* What ImageMachine records about the machine once DoImage has returned 0.
Imaged(m, l) ==
    /\ checksum' = [checksum EXCEPT ![m] = Checksum(l)]
    /\ imageLock' = None
    /\ UNCHANGED <<machines, locked, age, acquireTimeout, mmLock, fileLock,
                   reachable>>

\* Mutant: image_lock stays taken after a failed flash.
NotImagedStillLocked ==
    UNCHANGED <<poolVars, mmLock, imageLock, fileLock, reachable>>

\* image_lock is left by an exception: nothing is recorded.
NotImaged ==
    /\ imageLock' = None
    /\ UNCHANGED <<poolVars, mmLock, fileLock, reachable>>

-----------------------------------------------------------------------------
(* The environment: devices and other experiments *)

Disconnect(m) ==
    /\ reachable[m]
    /\ reachable' = [reachable EXCEPT ![m] = FALSE]
    /\ UNCHANGED <<poolVars, mmLock, imageLock, fileLock, deviceVars>>

Reconnect(m) ==
    /\ ~reachable[m]
    /\ reachable' = [reachable EXCEPT ![m] = TRUE]
    /\ UNCHANGED <<poolVars, mmLock, imageLock, fileLock, deviceVars>>

OtherLock(m) ==
    /\ LocksDir /\ fileLock[m] = "free"
    /\ fileLock' = [fileLock EXCEPT ![m] = "other"]
    /\ UNCHANGED <<poolVars, mmLock, imageLock, reachable, deviceVars>>

OtherUnlock(m) ==
    /\ fileLock[m] = "other"
    /\ fileLock' = [fileLock EXCEPT ![m] = "free"]
    /\ UNCHANGED <<poolVars, mmLock, imageLock, reachable, deviceVars>>
=============================================================================
