--------------------------- MODULE ExperimentSetup ---------------------------
(***************************************************************************)
(* crosperf from the first contact with its machines to the last clean-up: *)
(* experiment.py and experiment_runner.py around the benchmark runs, and   *)
(* crosperf_autolock.py, which leases machines and runs crosperf on them   *)
(* without locks.                                                          *)
(***************************************************************************)
EXTENDS MachineLocks

CONSTANTS
    Autolock,    \* the processes that are crosperf_autolock
    NumLeases,   \* --num-leases
    Labels,      \* 1 .. n, in the order of the experiment file
    Remote,      \* Remote[e]: the machines of an experiment, a list
    LabelRemote, \* LabelRemote[e][l]: those of a label
    Hardware,    \* the checksums that machines may have
    Reports      \* Reports[m]: those that m may report at first

ASSUME SetupAssumption ==
    /\ Autolock \subseteq Experiments
    /\ NumLeases \in Nat
    /\ IsFiniteSet(Labels) /\ Labels = 1 .. Cardinality(Labels)
    /\ Remote \in [Experiments -> Seq(Machines)]
    /\ LabelRemote \in [Experiments -> [Labels -> Seq(Machines)]]
    /\ Reports \in [Machines -> SUBSET Hardware]
    /\ None \notin Hardware /\ \A S \in SUBSET Machines : S # None

VARIABLES
    pc,          \* pc[e]: what process e is about to do
    remote,      \* experiment.remote, and machine_manager._all_machines
    labelRemote, \* label.remote of each label
    todo,        \* machines that UpdateMachines has not come to
    updated,     \* updated_machines
    lockMgr,     \* lock_mgr.machines, None without a lock manager
    lockedMachines, \* experiment.locked_machines
    poolMachines,\* machine_manager._machines
    common,      \* machine_manager.machine_checksum[label.name]
    checksum,    \* checksum[e]: machine_checksum of its machines
    removed,     \* history: machines that RemoveMachine gave up, and that have
                 \* not been taken again
    leaked       \* history: machines with a lock that e does not know of: it was
                 \* interrupted while it locked, or a command was reported to
                 \* have failed

listVars == <<remote, labelRemote>>
sumVars == <<common, checksum>>
cleanVars == <<todo, updated, lockMgr, lockedMachines, poolMachines, removed, leaked>>
vars == <<lockVars, listVars, sumVars, cleanVars, pc>>

Crosperf == Experiments \ Autolock

Init ==
    /\ InitLocks
    /\ pc = [e \in Experiments |-> IF e \in Autolock THEN "lease" ELSE "add"]
    /\ remote = Remote /\ labelRemote = LabelRemote
    /\ todo = [e \in Experiments |-> {}]
    /\ updated = [e \in Experiments |-> {}]
    /\ lockMgr = [e \in Experiments |-> None]
    /\ lockedMachines = [e \in Experiments |-> {}]
    /\ poolMachines = [e \in Experiments |-> {}]
    /\ common = [e \in Experiments |-> [l \in Labels |-> None]]
    /\ checksum = [e \in Experiments |-> [m \in {} |-> None]]
    /\ removed = [e \in Experiments |-> {}]
    /\ leaked = [e \in Experiments |-> {}]

Goto(e, where) == pc' = [pc EXCEPT ![e] = where]

-----------------------------------------------------------------------------
(* Set-up *)

\* GetMachines(label)
Of(e, l) == Elements(remote[e]) \cap Elements(labelRemote[e][l])

\* Experiment.__init__ keeps the machines that answer.  A label without any
\* has no first machine to take the checksum from, which raises.
Add(e) ==
    /\ pc[e] = "add"
    /\ \E up \in SUBSET Elements(Remote[e]) :
        /\ remote' = [remote EXCEPT ![e] = Filtered(@, up)]
        /\ labelRemote' = [labelRemote EXCEPT ![e] =
               [l \in Labels |-> Filtered(@[l], up)]]
        /\ \E sums \in [up -> Hardware] :
              /\ \A m \in up : sums[m] \in Reports[m]
              /\ checksum' = [checksum EXCEPT ![e] = sums]
        /\ todo' = [todo EXCEPT ![e] = up]
        /\ Goto(e, IF \A l \in Labels : labelRemote'[e][l] # <<>>
                   THEN "lock" ELSE "ended")
    /\ UNCHANGED <<lockVars, common,
                   updated, lockMgr, lockedMachines, poolMachines, removed, leaked>>

\* UpdateMachines(True), machine by machine.  A lease may have been granted by
\* a command that ran into its timeout.
LockOne(e, m) ==
    /\ pc[e] = "lock" /\ m \in todo[e]
    /\ \/ /\ Lock(e, m)
          /\ updated' = [updated EXCEPT ![e] = @ \cup {m}]
          /\ UNCHANGED leaked
       \/ UNCHANGED <<lockVars, updated, leaked>>
       \/ /\ m \in Crosfleet /\ Lock(e, m)
          /\ leaked' = [leaked EXCEPT ![e] = @ \cup {m}]
          /\ UNCHANGED updated
    /\ todo' = [todo EXCEPT ![e] = @ \ {m}]
    /\ UNCHANGED <<listVars, sumVars, pc, lockMgr, lockedMachines, poolMachines, removed>>

\* _UpdateMachineList and RemoveNonLockedMachines for one list.
KeepLocked(s, locked) == RemovedInLoop(s, locked)

\* The end of _LockAllMachines.
AllLocked(e) ==
    /\ pc[e] = "lock" /\ todo[e] = {}
    /\ lockMgr' = [lockMgr EXCEPT ![e] = updated[e]]
    /\ lockedMachines' = [lockedMachines EXCEPT ![e] = updated[e]]
    /\ updated' = [updated EXCEPT ![e] = {}]
    /\ remote' = [remote EXCEPT ![e] = KeepLocked(@, updated[e])]
    /\ labelRemote' = [labelRemote EXCEPT ![e] =
           [l \in Labels |-> KeepLocked(@[l], updated[e])]]
    /\ Goto(e, IF updated[e] = {} THEN "clean pool" ELSE "checksums")
    /\ UNCHANGED <<lockVars, sumVars, todo, poolMachines, removed, leaked>>

\* Mutant: machines that differ are imaged and then taken as they are.
AnyImaged(S) == [S -> Hardware]

\* ForceSameImageToAllMachines, when the machines report the same afterwards.
Imaged(S) == {sums \in [S -> Hardware] : \A m, n \in S : sums[m] = sums[n]}

Differ(sums, S) == \E m, n \in S : sums[m] # sums[n]

Unseen(e) == {l \in Labels : common[e][l] = None}

\* SetCheckSums(forceSameImage=True) for the next label: machines that differ
\* get its image, which may change what they report.
SetCheckSum(e) ==
    /\ pc[e] = "checksums"
    /\ LET l == CHOOSE k \in Unseen(e) : \A j \in Unseen(e) : k <= j
           kept == Filtered(labelRemote[e][l], Elements(remote[e]))
           S == Elements(kept)
       IN  /\ S # {}
           /\ labelRemote' = [labelRemote EXCEPT ![e][l] = kept]
           /\ \/ ~Differ(checksum[e], S) /\ UNCHANGED checksum
              \/ /\ Differ(checksum[e], S)
                 /\ \E sums \in Imaged(S) : checksum' = [checksum EXCEPT ![e] =
                        [m \in DOMAIN @ |-> IF m \in S THEN sums[m] ELSE @[m]]]
           /\ common' = [common EXCEPT ![e][l] = checksum'[e][kept[1]]]
           /\ Goto(e, IF Unseen(e) = {l} THEN "run" ELSE "checksums")
    /\ UNCHANGED <<lockVars, remote, cleanVars>>

\* A label without machines, machines that still differ, an image that cannot
\* be flashed.
SetCheckSumRaises(e) ==
    /\ pc[e] = "checksums"
    /\ Goto(e, "clean pool")
    /\ UNCHANGED <<lockVars, listVars, sumVars, cleanVars>>

-----------------------------------------------------------------------------
(* Runs and clean-up *)

\* GetMachines(label), for some label
Used(e) == Elements(remote[e]) \cap UNION {Elements(labelRemote[e][l]) : l \in Labels}

\* The machine manager takes the lock file of every machine it tries.
TryToLockMachine(e, m) ==
    /\ pc[e] = "run" /\ m \in Used(e) \ poolMachines[e]
    /\ Takeable(e, m)
    /\ fileLock' = [fileLock EXCEPT ![m] = e]
    /\ poolMachines' = [poolMachines EXCEPT ![e] = @ \cup {m}]
    /\ removed' = [removed EXCEPT ![e] = @ \ {m}]
    /\ UNCHANGED <<lease, listVars, sumVars, pc,
                   todo, updated, lockMgr, lockedMachines, leaked>>

\* A benchmark run gives up its machine when it does not answer.  The lock file
\* may be the one that the set-up took; that it stays is only logged.
RemoveMachine(e, m) ==
    /\ pc[e] = "run" /\ m \in poolMachines[e]
    /\ poolMachines' = [poolMachines EXCEPT ![e] = @ \ {m}]
    /\ removed' = [removed EXCEPT ![e] = @ \cup {m}]
    /\ \/ fileLock' = [fileLock EXCEPT ![m] = None] /\ UNCHANGED leaked
       \/ leaked' = [leaked EXCEPT ![e] = @ \cup {m}] /\ UNCHANGED fileLock
    /\ UNCHANGED <<lease, listVars, sumVars, pc, todo, updated, lockMgr, lockedMachines>>

RunsEnd(e) ==
    /\ pc[e] = "run" /\ e \in Crosperf
    /\ Goto(e, "clean pool")
    /\ UNCHANGED <<lockVars, listVars, sumVars, cleanVars>>

\* Ctrl-c or SIGTERM on the way to the runs.
Interrupt(e) ==
    /\ pc[e] \in {"lock", "checksums"}
    /\ Goto(e, "clean pool")
    /\ leaked' = [leaked EXCEPT ![e] = @ \cup updated[e]]
    /\ UNCHANGED <<lockVars, listVars, sumVars,
                   todo, updated, lockMgr, lockedMachines, poolMachines, removed>>

\* Where the clean-up in _Run's finally and the one at exit are followed by.
\* The first is told from the second by pc.
AfterPool(w) == IF w = "clean pool" THEN "unlock" ELSE "unlock at exit"
AfterUnlock(w) == IF w = "unlock" THEN "exit" ELSE "ended"

\* Mutant: whatever was asked for is unlocked.
ToUnlockAsked(e) == Elements(Remote[e])

\* LockManager.machines, for UpdateMachines(False).
ToUnlock(e) == lockMgr[e]

\* MachineManager.Cleanup, in both clean-ups: the lock files of all its
\* machines.  Failures are only logged.
CleanPool(e) ==
    /\ pc[e] \in {"clean pool", "exit"}
    /\ \E failed \in SUBSET poolMachines[e] :
        /\ fileLock' = [m \in Machines |->
               IF m \in poolMachines[e] \ failed THEN None ELSE fileLock[m]]
        /\ leaked' = [leaked EXCEPT ![e] = @ \cup failed]
    /\ LET locked == lockedMachines[e] # {} /\ lockMgr[e] # None
       IN  /\ todo' = [todo EXCEPT ![e] = IF locked THEN ToUnlock(e) ELSE {}]
           /\ Goto(e, IF locked THEN AfterPool(pc[e]) ELSE AfterUnlock(AfterPool(pc[e])))
    /\ UNCHANGED <<lease, listVars, sumVars,
                   updated, lockMgr, lockedMachines, poolMachines, removed>>

\* UpdateMachines(False), machine by machine.  What is reported to have failed
\* may have been done.
UnlockOne(e, m) ==
    /\ pc[e] \in {"unlock", "unlock at exit"} /\ m \in todo[e]
    /\ \/ /\ Unlock(m)
          /\ updated' = [updated EXCEPT ![e] = @ \cup {m}]
          /\ UNCHANGED leaked
       \/ /\ Unlock(m) \/ UNCHANGED lockVars
          /\ leaked' = [leaked EXCEPT ![e] = @ \cup {m}]
          /\ UNCHANGED updated
    /\ todo' = [todo EXCEPT ![e] = @ \ {m}]
    /\ UNCHANGED <<listVars, sumVars, pc, lockMgr, lockedMachines, poolMachines, removed>>

\* lock_mgr.machines after the clean-up, None when nothing failed.
LockMgrAfter(e) == IF lockedMachines[e] \subseteq updated[e] THEN None ELSE updated[e]

AllUnlocked(e) ==
    /\ pc[e] \in {"unlock", "unlock at exit"} /\ todo[e] = {}
    /\ lockMgr' = [lockMgr EXCEPT ![e] = LockMgrAfter(e)]
    /\ updated' = [updated EXCEPT ![e] = {}]
    /\ Goto(e, AfterUnlock(pc[e]))
    /\ UNCHANGED <<lockVars, listVars, sumVars,
                   todo, lockedMachines, poolMachines, removed, leaked>>

-----------------------------------------------------------------------------
(* crosperf_autolock: the machines of an experiment are leased one by one, *)
(* each in a context that abandons it, in reverse.                         *)

\* "remote" holds dut_hostnames, in the order of the leases.
Lease(e, m) ==
    /\ pc[e] = "lease" /\ Len(remote[e]) < NumLeases
    /\ m \in Crosfleet /\ Lock(e, m)
    /\ remote' = [remote EXCEPT ![e] = Append(@, m)]
    /\ UNCHANGED <<labelRemote, sumVars, cleanVars, pc>>

\* BoardLockError of a command that has leased nothing.
LeaseFails(e) ==
    /\ pc[e] = "lease" /\ Len(remote[e]) < NumLeases
    /\ Goto(e, "abandon")
    /\ UNCHANGED <<lockVars, listVars, sumVars, cleanVars>>

\* BoardLockError with a machine leased: the command has run into its timeout,
\* or the name of the machine cannot be read from its output.  The context is
\* not entered, and nothing abandons the machine.
LeaseUnknown(e, m) ==
    /\ pc[e] = "lease" /\ Len(remote[e]) < NumLeases
    /\ m \in Crosfleet /\ Lock(e, m)
    /\ leaked' = [leaked EXCEPT ![e] = @ \cup {m}]
    /\ Goto(e, "abandon")
    /\ UNCHANGED <<listVars, sumVars,
                   todo, updated, lockMgr, lockedMachines, poolMachines, removed>>

\* crosperf.Main for each machine, which may raise.
RunWithLeases(e) ==
    /\ pc[e] = "lease" /\ Len(remote[e]) = NumLeases
    /\ Goto(e, "abandon")
    /\ UNCHANGED <<lockVars, listVars, sumVars, cleanVars>>

\* crosfleet_release of the last one; that it raises does not keep the others.
Abandon(e) ==
    /\ pc[e] = "abandon" /\ remote[e] # <<>>
    /\ LET n == Len(remote[e])
           m == remote[e][n]
       IN  /\ \/ Unlock(m) /\ UNCHANGED leaked
              \/ /\ Unlock(m) \/ UNCHANGED lockVars
                 /\ leaked' = [leaked EXCEPT ![e] = @ \cup {m}]
           /\ remote' = [remote EXCEPT ![e] = SubSeq(@, 1, n - 1)]
    /\ UNCHANGED <<labelRemote, sumVars, pc,
                   todo, updated, lockMgr, lockedMachines, poolMachines, removed>>

AutolockEnds(e) ==
    /\ pc[e] = "abandon" /\ remote[e] = <<>>
    /\ Goto(e, "ended")
    /\ UNCHANGED <<lockVars, listVars, sumVars, cleanVars>>

-----------------------------------------------------------------------------

Step(e) ==
    \/ Add(e) \/ AllLocked(e) \/ SetCheckSum(e) \/ SetCheckSumRaises(e)
    \/ RunsEnd(e) \/ Interrupt(e) \/ CleanPool(e) \/ AllUnlocked(e)
    \/ LeaseFails(e) \/ RunWithLeases(e) \/ Abandon(e) \/ AutolockEnds(e)
    \/ \E m \in Machines : \/ LockOne(e, m) \/ TryToLockMachine(e, m) \/ RemoveMachine(e, m)
                           \/ UnlockOne(e, m) \/ Lease(e, m) \/ LeaseUnknown(e, m)

Ended == (\A e \in Experiments : pc[e] = "ended") /\ UNCHANGED vars

Next == (\E e \in Experiments : Step(e)) \/ Ended

Spec == Init /\ [][Next]_vars

-----------------------------------------------------------------------------
(* Properties *)

\* Types: locks, control states, machine lists and sets.
TypeOK ==
    /\ fileLock \in Locks /\ lease \in Locks
    /\ pc \in [Experiments ->
           {"add", "lock", "checksums", "run", "clean pool", "unlock", "exit",
            "unlock at exit", "lease", "abandon", "ended"}]
    /\ \A e \in Experiments :
        /\ Elements(remote[e]) \subseteq Machines
        /\ todo[e] \cup updated[e] \cup lockedMachines[e] \cup poolMachines[e]
               \cup removed[e] \cup leaked[e] \subseteq Machines
        /\ lockMgr[e] # None => lockMgr[e] \subseteq Machines
        /\ DOMAIN checksum[e] \subseteq Machines
        /\ \A m \in DOMAIN checksum[e] : checksum[e][m] \in Hardware

\* A process that has ended has no machine but those whose lock it could not
\* know of: it was interrupted while it locked, or the command that was to
\* lease or to unlock the machine was reported to have failed
\* (Experiment.Cleanup, MachineManager.Cleanup and the contexts of
\* crosperf_autolock, over all other ways to end).
NothingLeftLocked ==
    \A e \in Experiments, m \in Machines :
        pc[e] = "ended" /\ e \in {fileLock[m], lease[m]} => m \in leaked[e]

\* While an experiment runs, it loses a machine that it locked in two ways only:
\* a benchmark run of its own has given up the machine, with the lock file that
\* keeps others off it (RemoveMachine); or somebody else unlocks it as one that
\* he had locked himself before (the lists that Cleanup and UpdateMachines go
\* through, twice).  A lease is lost in the second way alone.
LosesLocksOnlyToFormerHolders ==
    \A e \in Crosperf : \A m \in lockedMachines[e] :
        pc[e] = "run" /\ Holder(m) # e =>
            \/ m \in removed[e] \ Crosfleet
            \/ \E f \in Experiments \ {e} :
                \/ m \in poolMachines[f] \cup removed[f] \cup lockedMachines[f]
                \/ f \in Autolock /\ pc[f] \in {"abandon", "ended"}

\* Label l's machines, as the checksum of a later label leaves them.
Undisturbed(e, l) ==
    \A k \in Labels : k > l => Elements(labelRemote[e][k]) \cap Elements(labelRemote[e][l]) = {}

\* When the runs start, every label has a machine, and its machines report the
\* checksum that its cache entries are filed under, unless a label after it has
\* imaged them (Experiment.SetCheckSums after machines were lost to others).
EveryLabelIsReady ==
    \A e \in Crosperf, l \in Labels : pc[e] = "run" =>
        /\ Elements(labelRemote[e][l]) \cap Elements(remote[e]) # {}
        /\ Undisturbed(e, l) =>
            \A m \in Elements(labelRemote[e][l]) : checksum[e][m] = common[e][l]

\* _UpdateMachineList (experiment_runner.py:93) says that it removes any machine
\* that could not be locked; of two neighbours it keeps the second.
UsesOnlyLocked ==
    \A e \in Crosperf : pc[e] = "run" => Used(e) \subseteq lockedMachines[e]
=============================================================================
