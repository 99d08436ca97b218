----------------------------- MODULE SetupProofs -----------------------------
(***************************************************************************)
(* Proofs about ExperimentSetup for any machines, experiments and leases:  *)
(* what the processes that share the machines have locked is unlocked by   *)
(* them, or by somebody who had locked it before; and the labels that the  *)
(* runs start with have machines that agree.                               *)
(***************************************************************************)
EXTENDS ExperimentSetup, SequenceTheorems, FiniteSetTheorems, NaturalsInduction,
        WellFoundedInduction, TLAPS

PcValues == {"add", "lock", "checksums", "run", "clean pool", "unlock", "exit",
             "unlock at exit", "lease", "abandon", "ended"}

LeaseSteps == {"lease", "abandon"}

\* The types that the locks depend on.  Only crosperf_autolock keeps machines
\* in its list.
SetupTypes ==
    /\ fileLock \in Locks /\ lease \in Locks
    /\ pc \in [Experiments -> PcValues]
    /\ DOMAIN remote = Experiments
    /\ todo \in [Experiments -> SUBSET Machines]
    /\ updated \in [Experiments -> SUBSET Machines]
    /\ lockMgr \in [Experiments -> (SUBSET Machines) \cup {None}]
    /\ lockedMachines \in [Experiments -> SUBSET Machines]
    /\ poolMachines \in [Experiments -> SUBSET Machines]
    /\ removed \in [Experiments -> SUBSET Machines]
    /\ leaked \in [Experiments -> SUBSET Machines]
    /\ \A e \in Autolock : /\ pc[e] \in LeaseSteps \cup {"ended"}
                           /\ remote[e] \in Seq(Machines)
                           /\ pc[e] = "ended" => remote[e] = <<>>
    /\ \A e \in Crosperf : pc[e] \notin LeaseSteps

UnlockSteps == {"unlock", "unlock at exit"}

\* The lists of machines to unlock follow what has been locked.
ListsAgreeFor(e) ==
    /\ pc[e] = "add" => updated[e] = {}
    /\ pc[e] \in {"add", "lock"} => lockedMachines[e] = {} /\ lockMgr[e] = None
    /\ lockMgr[e] # None => lockMgr[e] \subseteq lockedMachines[e]
    /\ lockMgr[e] # None /\ pc[e] \notin UnlockSteps => updated[e] = {}
    /\ pc[e] \in {"checksums", "run"} => updated[e] = {} /\ lockMgr[e] = lockedMachines[e]
    /\ pc[e] = "clean pool" /\ lockMgr[e] # None => lockMgr[e] = lockedMachines[e]
    /\ pc[e] \in UnlockSteps => todo[e] \cup updated[e] \subseteq lockedMachines[e]

ListsAgree == \A e \in Experiments : ListsAgreeFor(e)

\* The machines that crosperf is still to unlock.
Due(e) ==
    CASE pc[e] = "lock" -> updated[e]
      [] pc[e] \in {"checksums", "run", "clean pool"} ->
            IF lockMgr[e] = None THEN {} ELSE lockMgr[e]
      [] pc[e] = "unlock" -> todo[e]
      [] OTHER -> {}

\* The lock files that its machine manager is still to remove.
PoolDue(e) == IF pc[e] \in {"run", "clean pool"} THEN poolMachines[e] ELSE {}

\* Whatever a process has locked is on its way to be unlocked, or leaked.  A
\* machine of the lab gets a lock file from the machine manager alone.
DueForCrosperf(e) ==
    \A m \in Machines :
        /\ lease[m] = e => m \in Crosfleet /\ m \in Due(e) \cup leaked[e]
        /\ fileLock[m] = e => m \in (Due(e) \ Crosfleet) \cup PoolDue(e) \cup leaked[e]

DueForAutolock(e) ==
    \A m \in Machines :
        /\ lease[m] = e => m \in Crosfleet /\ m \in Elements(remote[e]) \cup leaked[e]
        /\ fileLock[m] # e

LocksAreDue ==
    /\ \A e \in Crosperf : DueForCrosperf(e)
    /\ \A e \in Autolock : DueForAutolock(e)

\* Process f has, or has had, machine m and may unlock it.
HasHad(f, m) ==
    \/ m \in poolMachines[f] \cup removed[f] \cup lockedMachines[f]
    \/ f \in Autolock /\ pc[f] \in {"abandon", "ended"}

Formerly(e, m) == \E f \in Experiments \ {e} : HasHad(f, m)

\* The machines that crosperf has locked for itself.
LockedSoFar(e) ==
    CASE pc[e] = "lock" -> updated[e]
      [] pc[e] \in {"checksums", "run"} -> lockedMachines[e]
      [] OTHER -> {}

HeldOrFormerlyFor(e) ==
    \A m \in LockedSoFar(e) :
        Holder(m) = e \/ m \in removed[e] \ Crosfleet \/ Formerly(e, m)

HeldOrFormerly == \A e \in Crosperf : HeldOrFormerlyFor(e)

SetupInv == SetupTypes /\ ListsAgree /\ LocksAreDue /\ HeldOrFormerly

LEMMA SetupInitInv == Init => SetupInv
  <1> SUFFICES ASSUME Init PROVE SetupInv
    OBVIOUS
  <1>1. /\ pc \in [Experiments -> PcValues]
        /\ \A e \in Autolock : pc[e] = "lease"
        /\ \A e \in Crosperf : pc[e] = "add"
    BY SetupAssumption DEF Init, PcValues, Crosperf
  <1>2. SetupTypes
    <2>1. fileLock \in Locks /\ lease \in Locks
      BY DEF Init, InitLocks, Locks
    <2>2. /\ DOMAIN remote = Experiments /\ \A e \in Experiments : remote[e] \in Seq(Machines)
      BY SetupAssumption DEF Init
    <2>3. /\ todo \in [Experiments -> SUBSET Machines]
          /\ updated \in [Experiments -> SUBSET Machines]
          /\ lockMgr \in [Experiments -> (SUBSET Machines) \cup {None}]
          /\ lockedMachines \in [Experiments -> SUBSET Machines]
          /\ poolMachines \in [Experiments -> SUBSET Machines]
          /\ removed \in [Experiments -> SUBSET Machines]
          /\ leaked \in [Experiments -> SUBSET Machines]
      BY DEF Init
    <2> QED
      BY <1>1, <2>1, <2>2, <2>3, SetupAssumption DEF SetupTypes, LeaseSteps, Crosperf
  <1>3. ListsAgree
    BY <1>1, SetupAssumption DEF Init, ListsAgree, ListsAgreeFor, UnlockSteps, Crosperf
  <1>4. LocksAreDue
    BY LocksAssumption, SetupAssumption DEF Init, InitLocks, LocksAreDue, DueForCrosperf, DueForAutolock, Crosperf
  <1>5. HeldOrFormerly
    BY <1>1 DEF HeldOrFormerly, HeldOrFormerlyFor, LockedSoFar
  <1> QED
    BY <1>2, <1>3, <1>4, <1>5 DEF SetupInv

\* The types of the locks, after they are taken and released.
LEMMA LockTypes ==
    ASSUME fileLock \in Locks, lease \in Locks, NEW e \in Experiments, NEW m \in Machines,
           \/ Lock(e, m) \/ Unlock(m) \/ UNCHANGED lockVars
           \/ fileLock' = [fileLock EXCEPT ![m] = e] /\ lease' = lease
    PROVE  fileLock' \in Locks /\ lease' \in Locks
  BY DEF Lock, Unlock, lockVars, Locks

\* A step within the set-up and the clean-up changes neither the machines of
\* crosperf_autolock nor where it is.
LEMMA CrosperfFrame ==
    ASSUME SetupTypes, NEW e \in Crosperf, NEW to \in PcValues \ LeaseSteps,
           pc' = [pc EXCEPT ![e] = to], DOMAIN remote' = Experiments,
           \A f \in Autolock : remote'[f] = remote[f]
    PROVE  /\ pc' \in [Experiments -> PcValues]
           /\ \A f \in Autolock : /\ pc'[f] \in LeaseSteps \cup {"ended"}
                                  /\ remote'[f] \in Seq(Machines)
                                  /\ pc'[f] = "ended" => remote'[f] = <<>>
           /\ \A f \in Crosperf : pc'[f] \notin LeaseSteps
  BY DEF SetupTypes, Crosperf

LEMMA OfCrosperf ==
    ASSUME SetupTypes, NEW e \in Experiments,
           pc[e] \notin LeaseSteps \cup {"ended"}
    PROVE  e \in Crosperf
  BY DEF SetupTypes, Crosperf

LEMMA OfAutolock ==
    ASSUME SetupTypes, NEW e \in Experiments, pc[e] \in LeaseSteps
    PROVE  e \in Autolock /\ remote[e] \in Seq(Machines)
  BY DEF SetupTypes, Crosperf

\* A list of crosperf's leaves those of crosperf_autolock alone.
LEMMA OtherLists ==
    ASSUME NEW e \in Crosperf, DOMAIN remote = Experiments,
           \E v : remote' = [remote EXCEPT ![e] = v]
    PROVE  DOMAIN remote' = Experiments /\ \A f \in Autolock : remote'[f] = remote[f]
  BY SetupAssumption DEF Crosperf

LEMMA SetupTypesStep ==
    ASSUME SetupInv, NEW e \in Experiments, Step(e)
    PROVE  SetupTypes'
  <1>0. /\ SetupTypes /\ fileLock \in Locks /\ lease \in Locks
        /\ pc \in [Experiments -> PcValues] /\ DOMAIN remote = Experiments
        /\ todo \in [Experiments -> SUBSET Machines]
        /\ updated \in [Experiments -> SUBSET Machines]
        /\ lockMgr \in [Experiments -> (SUBSET Machines) \cup {None}]
        /\ lockedMachines \in [Experiments -> SUBSET Machines]
        /\ poolMachines \in [Experiments -> SUBSET Machines]
        /\ removed \in [Experiments -> SUBSET Machines]
        /\ leaked \in [Experiments -> SUBSET Machines]
    BY DEF SetupInv, SetupTypes
  <1> USE DEF Goto, lockVars, listVars, sumVars, cleanVars, LeaseSteps
  <1>1. CASE Add(e)
    <2>1. e \in Crosperf
      BY <1>0, <1>1, OfCrosperf DEF Add
    <2>2. PICK up \in SUBSET Elements(Remote[e]) : todo' = [todo EXCEPT ![e] = up]
      BY <1>1 DEF Add
    <2>3. Elements(Remote[e]) \subseteq Machines
      BY SetupAssumption DEF Elements
    <2>4. PICK to \in {"lock", "ended"} : pc' = [pc EXCEPT ![e] = to]
      BY <1>1 DEF Add
    <2>8. \E v : remote' = [remote EXCEPT ![e] = v]
      <3>1. PICK up1 \in SUBSET Elements(Remote[e]) :
                remote' = [remote EXCEPT ![e] = Filtered(@, up1)]
        BY <1>1 DEF Add
      <3> QED
        BY <3>1
    <2>5. DOMAIN remote' = Experiments /\ \A f \in Autolock : remote'[f] = remote[f]
      BY <1>0, <2>1, <2>8, OtherLists
    <2>6. to \in PcValues \ LeaseSteps
      BY DEF PcValues
    <2>7. todo' \in [Experiments -> SUBSET Machines]
      BY <1>0, <2>2, <2>3
    <2> QED
      BY <1>0, <1>1, <2>1, <2>4, <2>5, <2>6, <2>7, CrosperfFrame DEF Add, SetupTypes
  <1>2. ASSUME NEW n \in Machines, LockOne(e, n) PROVE SetupTypes'
    <2>1. fileLock' \in Locks /\ lease' \in Locks
      BY <1>0, <1>2, LockTypes DEF LockOne
    <2>2. /\ todo' = [todo EXCEPT ![e] = @ \ {n}]
          /\ updated' = updated \/ updated' = [updated EXCEPT ![e] = @ \cup {n}]
          /\ leaked' = leaked \/ leaked' = [leaked EXCEPT ![e] = @ \cup {n}]
      BY <1>2 DEF LockOne
    <2>3. todo' \in [Experiments -> SUBSET Machines]
      BY <1>0, <2>2
    <2>4. updated' \in [Experiments -> SUBSET Machines]
      BY <1>0, <2>2
    <2>5. leaked' \in [Experiments -> SUBSET Machines]
      BY <1>0, <2>2
    <2> QED
      BY <1>0, <1>2, <2>1, <2>3, <2>4, <2>5 DEF LockOne, SetupTypes
  <1>3. CASE AllLocked(e)
    <2>1. e \in Crosperf
      BY <1>0, <1>3, OfCrosperf DEF AllLocked
    <2>2. PICK to \in {"clean pool", "checksums"} : pc' = [pc EXCEPT ![e] = to]
      BY <1>3 DEF AllLocked
    <2>8. remote' = [remote EXCEPT ![e] = KeepLocked(@, updated[e])]
      BY <1>3 DEF AllLocked
    <2>9. \E v : remote' = [remote EXCEPT ![e] = v]
      BY <2>8
    <2>3. DOMAIN remote' = Experiments /\ \A f \in Autolock : remote'[f] = remote[f]
      BY <1>0, <2>1, <2>9, OtherLists
    <2>4. to \in PcValues \ LeaseSteps
      BY DEF PcValues
    <2>5. updated[e] \in SUBSET Machines
      BY <1>0
    <2>6. /\ lockMgr' = [lockMgr EXCEPT ![e] = updated[e]]
          /\ lockedMachines' = [lockedMachines EXCEPT ![e] = updated[e]]
          /\ updated' = [updated EXCEPT ![e] = {}]
          /\ UNCHANGED <<fileLock, lease, todo, poolMachines, removed, leaked>>
      BY <1>3 DEF AllLocked
    <2>7. /\ lockMgr' \in [Experiments -> (SUBSET Machines) \cup {None}]
          /\ lockedMachines' \in [Experiments -> SUBSET Machines]
          /\ updated' \in [Experiments -> SUBSET Machines]
      BY <1>0, <2>5, <2>6
    <2> QED
      BY <1>0, <2>1, <2>2, <2>3, <2>4, <2>6, <2>7, CrosperfFrame DEF SetupTypes
  <1>4. CASE SetCheckSum(e)
    <2>1. e \in Crosperf
      BY <1>0, <1>4, OfCrosperf DEF SetCheckSum
    <2>2. PICK to \in {"run", "checksums"} : pc' = [pc EXCEPT ![e] = to]
      BY <1>4 DEF SetCheckSum
    <2>3. to \in PcValues \ LeaseSteps
      BY DEF PcValues
    <2>4. UNCHANGED <<fileLock, lease, remote, todo, updated, lockMgr, lockedMachines,
                      poolMachines, removed, leaked>>
      BY <1>4 DEF SetCheckSum
    <2> QED
      BY <1>0, <2>1, <2>2, <2>3, <2>4, CrosperfFrame DEF SetupTypes
  <1>5. CASE SetCheckSumRaises(e) \/ RunsEnd(e)
    <2>1. e \in Crosperf
      BY <1>0, <1>5, OfCrosperf DEF SetCheckSumRaises, RunsEnd
    <2>2. pc' = [pc EXCEPT ![e] = "clean pool"]
      BY <1>5 DEF SetCheckSumRaises, RunsEnd
    <2>3. "clean pool" \in PcValues \ LeaseSteps
      BY DEF PcValues
    <2>4. UNCHANGED <<fileLock, lease, remote, todo, updated, lockMgr, lockedMachines,
                      poolMachines, removed, leaked>>
      BY <1>5 DEF SetCheckSumRaises, RunsEnd
    <2> QED
      BY <1>0, <2>1, <2>2, <2>3, <2>4, CrosperfFrame DEF SetupTypes
  <1>6. ASSUME NEW n \in Machines, TryToLockMachine(e, n) PROVE SetupTypes'
    <2>1. fileLock' \in Locks /\ lease' \in Locks
      BY <1>0, <1>6, LockTypes DEF TryToLockMachine
    <2>2. poolMachines' \in [Experiments -> SUBSET Machines]
      BY <1>0, <1>6 DEF TryToLockMachine
    <2>3. removed' \in [Experiments -> SUBSET Machines]
      BY <1>0, <1>6 DEF TryToLockMachine
    <2> QED
      BY <1>0, <1>6, <2>1, <2>2, <2>3 DEF TryToLockMachine, SetupTypes
  <1>7. CASE Interrupt(e)
    <2>1. e \in Crosperf
      BY <1>0, <1>7, OfCrosperf DEF Interrupt
    <2>2. "clean pool" \in PcValues \ LeaseSteps
      BY DEF PcValues
    <2>3. leaked' \in [Experiments -> SUBSET Machines]
      BY <1>0, <1>7 DEF Interrupt
    <2> QED
      BY <1>0, <1>7, <2>1, <2>2, <2>3, CrosperfFrame DEF Interrupt, SetupTypes
  <1>8. CASE CleanPool(e)
    <2>1. e \in Crosperf
      BY <1>0, <1>8, OfCrosperf DEF CleanPool
    <2>2. PICK to \in {"unlock", "unlock at exit", "exit", "ended"} : pc' = [pc EXCEPT ![e] = to]
      BY <1>8 DEF CleanPool, AfterPool, AfterUnlock
    <2>3. to \in PcValues \ LeaseSteps
      BY DEF PcValues
    <2>4. fileLock' \in Locks /\ lease' = lease
      BY <1>0, <1>8 DEF CleanPool, Locks
    <2>5. PICK failed \in SUBSET poolMachines[e] : leaked' = [leaked EXCEPT ![e] = @ \cup failed]
      BY <1>8 DEF CleanPool
    <2>6. leaked' \in [Experiments -> SUBSET Machines]
      BY <1>0, <2>5
    <2>7. PICK S \in {{}, lockMgr[e]} : todo' = [todo EXCEPT ![e] = S] /\ S # None
      BY <1>8, SetupAssumption DEF CleanPool, ToUnlock
    <2>8. todo' \in [Experiments -> SUBSET Machines]
      BY <1>0, <2>7
    <2>9. UNCHANGED <<remote, updated, lockMgr, lockedMachines, poolMachines, removed>>
      BY <1>8 DEF CleanPool
    <2> QED
      BY <1>0, <2>1, <2>2, <2>3, <2>4, <2>6, <2>8, <2>9, CrosperfFrame DEF SetupTypes
  <1>9. ASSUME NEW n \in Machines, UnlockOne(e, n) PROVE SetupTypes'
    <2>1. fileLock' \in Locks /\ lease' \in Locks
      BY <1>0, <1>9, LockTypes DEF UnlockOne
    <2>2. /\ todo' \in [Experiments -> SUBSET Machines]
          /\ updated' \in [Experiments -> SUBSET Machines]
          /\ leaked' \in [Experiments -> SUBSET Machines]
      <3>1. /\ todo' = [todo EXCEPT ![e] = @ \ {n}]
            /\ \/ updated' = [updated EXCEPT ![e] = @ \cup {n}] /\ leaked' = leaked
               \/ leaked' = [leaked EXCEPT ![e] = @ \cup {n}] /\ updated' = updated
        BY <1>9 DEF UnlockOne
      <3>2. todo' \in [Experiments -> SUBSET Machines]
        BY <1>0, <3>1
      <3>3. updated' \in [Experiments -> SUBSET Machines]
        BY <1>0, <3>1
      <3>4. leaked' \in [Experiments -> SUBSET Machines]
        BY <1>0, <3>1
      <3> QED
        BY <3>2, <3>3, <3>4
    <2> QED
      BY <1>0, <1>9, <2>1, <2>2 DEF UnlockOne, SetupTypes
  <1>10. CASE AllUnlocked(e)
    <2>1. e \in Crosperf
      BY <1>0, <1>10, OfCrosperf DEF AllUnlocked
    <2>2. PICK to \in {"exit", "ended"} : pc' = [pc EXCEPT ![e] = to]
      BY <1>10 DEF AllUnlocked, AfterUnlock
    <2>3. to \in PcValues \ LeaseSteps
      BY DEF PcValues
    <2>4. /\ lockMgr' \in [Experiments -> (SUBSET Machines) \cup {None}]
          /\ updated' \in [Experiments -> SUBSET Machines]
      BY <1>0, <1>10 DEF AllUnlocked, LockMgrAfter
    <2>5. UNCHANGED <<fileLock, lease, remote, todo, lockedMachines, poolMachines, removed, leaked>>
      BY <1>10 DEF AllUnlocked
    <2> QED
      BY <1>0, <2>1, <2>2, <2>3, <2>4, <2>5, CrosperfFrame DEF SetupTypes
  <1>11. ASSUME NEW n \in Machines, Lease(e, n) PROVE SetupTypes'
    <2>1. fileLock' \in Locks /\ lease' \in Locks
      BY <1>0, <1>11, LockTypes DEF Lease
    <2>2. e \in Autolock /\ remote[e] \in Seq(Machines)
      BY <1>0, <1>11, OfAutolock DEF Lease
    <2>3. remote' = [remote EXCEPT ![e] = Append(remote[e], n)]
      BY <1>11 DEF Lease
    <2>4. Append(remote[e], n) \in Seq(Machines)
      BY <2>2
    <2>5. \A f \in Autolock : /\ remote'[f] \in Seq(Machines)
                              /\ pc[f] = "ended" => remote'[f] = <<>>
      BY <1>0, <1>11, <2>2, <2>3, <2>4 DEF SetupTypes, Lease
    <2> QED
      BY <1>0, <1>11, <2>1, <2>3, <2>5 DEF Lease, SetupTypes
  <1>12. CASE LeaseFails(e) \/ RunWithLeases(e)
    <2>1. e \in Autolock
      BY <1>0, <1>12, OfAutolock DEF LeaseFails, RunWithLeases
    <2>2. pc' = [pc EXCEPT ![e] = "abandon"] /\ "abandon" \in PcValues
      BY <1>12 DEF LeaseFails, RunWithLeases, PcValues
    <2>3. UNCHANGED <<fileLock, lease, remote, todo, updated, lockMgr, lockedMachines,
                      poolMachines, removed, leaked>>
      BY <1>12 DEF LeaseFails, RunWithLeases
    <2> QED
      BY <1>0, <2>1, <2>2, <2>3 DEF SetupTypes, Crosperf
  <1>13. CASE Abandon(e)
    <2> DEFINE n == Len(remote[e])
               last == remote[e][n]
    <2>1. e \in Autolock /\ remote[e] \in Seq(Machines) /\ remote[e] # <<>>
      BY <1>0, <1>13, OfAutolock DEF Abandon
    <2>2. n \in Nat /\ n > 0 /\ last \in Machines
      BY <2>1
    <2>3. /\ Unlock(last) \/ UNCHANGED lockVars
          /\ leaked' = leaked \/ leaked' = [leaked EXCEPT ![e] = @ \cup {last}]
          /\ remote' = [remote EXCEPT ![e] = SubSeq(remote[e], 1, n - 1)]
      BY <1>13 DEF Abandon
    <2>4. SubSeq(remote[e], 1, n - 1) \in Seq(Machines)
      BY <2>1, <2>2
    <2>5. fileLock' \in Locks /\ lease' \in Locks
      BY <1>0, <2>2, <2>3, LockTypes
    <2>6. leaked' \in [Experiments -> SUBSET Machines]
      <3>1. leaked \in [Experiments -> SUBSET Machines]
        BY <1>0
      <3> QED
        BY <2>2, <2>3, <3>1
    <2>7. pc[e] = "abandon" /\ UNCHANGED <<pc, todo, updated, lockMgr, lockedMachines, poolMachines, removed>>
      BY <1>13 DEF Abandon
    <2>8. \A f \in Autolock : /\ remote'[f] \in Seq(Machines)
                              /\ pc[f] = "ended" => remote'[f] = <<>>
      BY <1>0, <2>1, <2>3, <2>4, <2>7 DEF SetupTypes
    <2>9. DOMAIN remote' = Experiments
      BY <1>0, <2>3
    <2> QED
      BY <1>0, <2>5, <2>6, <2>7, <2>8, <2>9 DEF SetupTypes
  <1>14. CASE AutolockEnds(e)
    <2>1. e \in Autolock
      BY <1>0, <1>14, OfAutolock DEF AutolockEnds
    <2>2. pc' = [pc EXCEPT ![e] = "ended"] /\ "ended" \in PcValues /\ remote[e] = <<>>
      BY <1>14 DEF AutolockEnds, PcValues
    <2>3. UNCHANGED <<fileLock, lease, remote, todo, updated, lockMgr, lockedMachines,
                      poolMachines, removed, leaked>>
      BY <1>14 DEF AutolockEnds
    <2> QED
      BY <1>0, <2>1, <2>2, <2>3 DEF SetupTypes, Crosperf
  <1>15. ASSUME NEW n \in Machines, LeaseUnknown(e, n) PROVE SetupTypes'
    <2>1. fileLock' \in Locks /\ lease' \in Locks
      BY <1>0, <1>15, LockTypes DEF LeaseUnknown
    <2>2. e \in Autolock
      BY <1>0, <1>15, OfAutolock DEF LeaseUnknown
    <2>3. pc' = [pc EXCEPT ![e] = "abandon"] /\ "abandon" \in PcValues
      BY <1>15 DEF LeaseUnknown, PcValues
    <2>4. UNCHANGED <<remote, todo, updated, lockMgr, lockedMachines, poolMachines, removed>>
      BY <1>15 DEF LeaseUnknown
    <2>5. leaked' \in [Experiments -> SUBSET Machines]
      BY <1>0, <1>15 DEF LeaseUnknown
    <2>6. /\ pc' \in [Experiments -> PcValues]
          /\ \A f \in Autolock : pc'[f] = pc[f] \/ pc'[f] = "abandon"
          /\ \A f \in Crosperf : pc'[f] = pc[f]
      BY <1>0, <2>2, <2>3, SetupAssumption DEF Crosperf
    <2> QED
      BY <1>0, <2>1, <2>4, <2>5, <2>6 DEF SetupTypes
  <1>16. ASSUME NEW n \in Machines, RemoveMachine(e, n) PROVE SetupTypes'
    <2>1. fileLock' \in Locks /\ lease' = lease
      BY <1>0, <1>16 DEF RemoveMachine, Locks
    <2>2. /\ poolMachines' = [poolMachines EXCEPT ![e] = @ \ {n}]
          /\ removed' = [removed EXCEPT ![e] = @ \cup {n}]
          /\ leaked' = leaked \/ leaked' = [leaked EXCEPT ![e] = @ \cup {n}]
      BY <1>16 DEF RemoveMachine
    <2>3. poolMachines' \in [Experiments -> SUBSET Machines]
      BY <1>0, <2>2
    <2>4. removed' \in [Experiments -> SUBSET Machines]
      BY <1>0, <2>2
    <2>5. leaked' \in [Experiments -> SUBSET Machines]
      BY <1>0, <2>2
    <2> QED
      BY <1>0, <1>16, <2>1, <2>3, <2>4, <2>5 DEF RemoveMachine, SetupTypes
  <1> QED
    BY <1>1, <1>2, <1>3, <1>4, <1>5, <1>6, <1>7, <1>8, <1>9, <1>10, <1>11, <1>12, <1>13,
       <1>14, <1>15, <1>16 DEF Step

\* A process changes nothing of another one but its locks.
Kept(f) ==
    /\ pc'[f] = pc[f] /\ remote'[f] = remote[f]
    /\ todo'[f] = todo[f] /\ updated'[f] = updated[f]
    /\ lockMgr'[f] = lockMgr[f] /\ lockedMachines'[f] = lockedMachines[f]
    /\ poolMachines'[f] = poolMachines[f] /\ removed'[f] = removed[f]
    /\ leaked'[f] = leaked[f]

LEMMA OtherProcesses ==
    ASSUME SetupTypes, NEW e \in Experiments, Step(e), NEW f \in Experiments, f # e
    PROVE  Kept(f)
  <1>0. /\ DOMAIN remote = Experiments /\ DOMAIN pc = Experiments
        /\ DOMAIN todo = Experiments /\ DOMAIN updated = Experiments
        /\ DOMAIN lockMgr = Experiments /\ DOMAIN lockedMachines = Experiments
        /\ DOMAIN poolMachines = Experiments /\ DOMAIN removed = Experiments
        /\ DOMAIN leaked = Experiments
    BY DEF SetupTypes
  <1> USE DEF Kept, Goto, lockVars, listVars, sumVars, cleanVars
  <1>1. CASE Add(e)
    <2>1. \E v : remote' = [remote EXCEPT ![e] = v]
      <3>1. PICK up \in SUBSET Elements(Remote[e]) :
               remote' = [remote EXCEPT ![e] = Filtered(@, up)]
        BY <1>1 DEF Add
      <3> QED
        BY <3>1
    <2>2. \E v : pc' = [pc EXCEPT ![e] = v]
      <3>1. PICK v \in {"lock", "ended"} : pc' = [pc EXCEPT ![e] = v]
        BY <1>1 DEF Add
      <3> QED
        BY <3>1
    <2>3. /\ \E v : todo' = [todo EXCEPT ![e] = v]
          /\ UNCHANGED <<updated, lockMgr, lockedMachines, poolMachines, removed, leaked>>
      BY <1>1 DEF Add
    <2> QED
      BY <1>0, <2>1, <2>2, <2>3
  <1>2. CASE AllLocked(e)
    <2>1. /\ remote' = [remote EXCEPT ![e] = KeepLocked(@, updated[e])]
          /\ lockMgr' = [lockMgr EXCEPT ![e] = updated[e]]
          /\ lockedMachines' = [lockedMachines EXCEPT ![e] = updated[e]]
          /\ updated' = [updated EXCEPT ![e] = {}]
          /\ UNCHANGED <<todo, poolMachines, removed, leaked>>
      BY <1>2 DEF AllLocked
    <2>2. \E v \in {"clean pool", "checksums"} : pc' = [pc EXCEPT ![e] = v]
      BY <1>2 DEF AllLocked
    <2> QED
      BY <1>0, <2>1, <2>2
  <1>3. CASE SetCheckSum(e)
    <2>1. UNCHANGED <<remote, todo, updated, lockMgr, lockedMachines, poolMachines, removed, leaked>>
      BY <1>3 DEF SetCheckSum
    <2>2. \E v \in {"run", "checksums"} : pc' = [pc EXCEPT ![e] = v]
      BY <1>3 DEF SetCheckSum
    <2> QED
      BY <1>0, <2>1, <2>2
  <1>4. CASE SetCheckSumRaises(e) \/ RunsEnd(e) \/ Interrupt(e)
    BY <1>0, <1>4 DEF SetCheckSumRaises, RunsEnd, Interrupt
  <1>5. CASE CleanPool(e)
    <2>1. UNCHANGED <<remote, updated, lockMgr, lockedMachines, poolMachines, removed>>
      BY <1>5 DEF CleanPool
    <2>2. /\ \E v : leaked' = [leaked EXCEPT ![e] = v]
          /\ \E v : todo' = [todo EXCEPT ![e] = v]
          /\ \E v : pc' = [pc EXCEPT ![e] = v]
      BY <1>5 DEF CleanPool
    <2> QED
      BY <1>0, <2>1, <2>2
  <1>6. CASE AllUnlocked(e)
    BY <1>0, <1>6 DEF AllUnlocked
  <1>7. CASE LeaseFails(e) \/ RunWithLeases(e) \/ AutolockEnds(e)
    BY <1>0, <1>7 DEF LeaseFails, RunWithLeases, AutolockEnds
  <1>8. CASE Abandon(e)
    <2>1. UNCHANGED <<pc, todo, updated, lockMgr, lockedMachines, poolMachines, removed>>
      BY <1>8 DEF Abandon
    <2>2. \E v : leaked' = [leaked EXCEPT ![e] = v] \/ leaked' = leaked
      BY <1>8 DEF Abandon
    <2>3. \E v : remote' = [remote EXCEPT ![e] = v]
      BY <1>8 DEF Abandon
    <2> QED
      BY <1>0, <2>1, <2>2, <2>3
  <1>9. ASSUME NEW n \in Machines, LockOne(e, n) \/ TryToLockMachine(e, n) \/ Lease(e, n)
        PROVE  Kept(f)
    BY <1>0, <1>9 DEF LockOne, TryToLockMachine, Lease
  <1>10. ASSUME NEW n \in Machines, UnlockOne(e, n)
         PROVE  Kept(f)
    BY <1>0, <1>10 DEF UnlockOne
  <1>11. ASSUME NEW n \in Machines, RemoveMachine(e, n) \/ LeaseUnknown(e, n)
         PROVE  Kept(f)
    BY <1>0, <1>11 DEF RemoveMachine, LeaseUnknown
  <1> QED
    BY <1>1, <1>2, <1>3, <1>4, <1>5, <1>6, <1>7, <1>8, <1>9, <1>10, <1>11 DEF Step

\* A process takes locks for itself, and releases some.
LEMMA LocksGo ==
    ASSUME SetupTypes, NEW e \in Experiments, Step(e), NEW m \in Machines
    PROVE  lease'[m] \in {lease[m], None, e} /\ fileLock'[m] \in {fileLock[m], None, e}
  <1>0. fileLock \in Locks /\ lease \in Locks
    BY DEF SetupTypes
  <1> USE DEF lockVars, Locks
  <1>1. CASE Add(e)
    BY <1>1 DEF Add
  <1>2. CASE AllLocked(e)
    BY <1>2 DEF AllLocked
  <1>3. CASE SetCheckSum(e)
    BY <1>3 DEF SetCheckSum
  <1>4. CASE SetCheckSumRaises(e) \/ RunsEnd(e) \/ Interrupt(e) \/ AllUnlocked(e)
    BY <1>4 DEF SetCheckSumRaises, RunsEnd, Interrupt, AllUnlocked
  <1>5. CASE CleanPool(e)
    <2>1. PICK failed \in SUBSET poolMachines[e] :
             fileLock' = [n \in Machines |->
                 IF n \in poolMachines[e] \ failed THEN None ELSE fileLock[n]]
      BY <1>5 DEF CleanPool
    <2>2. lease' = lease
      BY <1>5 DEF CleanPool
    <2> QED
      BY <2>1, <2>2
  <1>6. CASE LeaseFails(e) \/ RunWithLeases(e) \/ AutolockEnds(e)
    BY <1>6 DEF LeaseFails, RunWithLeases, AutolockEnds
  <1>7. CASE Abandon(e)
    <2>1. PICK n : Unlock(n) \/ UNCHANGED lockVars
      BY <1>7 DEF Abandon
    <2> QED
      BY <1>0, <2>1 DEF Unlock
  <1>8. ASSUME NEW n \in Machines, Lock(e, n) \/ Unlock(n) \/ UNCHANGED lockVars
        PROVE  lease'[m] \in {lease[m], None, e} /\ fileLock'[m] \in {fileLock[m], None, e}
    BY <1>0, <1>8 DEF Lock, Unlock
  <1>9. ASSUME NEW n \in Machines,
               LockOne(e, n) \/ UnlockOne(e, n) \/ Lease(e, n) \/ LeaseUnknown(e, n)
        PROVE  lease'[m] \in {lease[m], None, e} /\ fileLock'[m] \in {fileLock[m], None, e}
    <2>1. Lock(e, n) \/ Unlock(n) \/ UNCHANGED lockVars
      BY <1>9 DEF LockOne, UnlockOne, Lease, LeaseUnknown
    <2> QED
      BY <1>8, <2>1
  <1>10. ASSUME NEW n \in Machines, TryToLockMachine(e, n) \/ RemoveMachine(e, n)
         PROVE  lease'[m] \in {lease[m], None, e} /\ fileLock'[m] \in {fileLock[m], None, e}
    BY <1>0, <1>10 DEF TryToLockMachine, RemoveMachine
  <1> QED
    BY <1>1, <1>2, <1>3, <1>4, <1>5, <1>6, <1>7, <1>9, <1>10 DEF Step

LEMMA ListsAgreeStep ==
    ASSUME SetupInv, NEW e \in Experiments, Step(e)
    PROVE  ListsAgree'
  <1>0. /\ SetupTypes /\ ListsAgreeFor(e) /\ pc[e] \in PcValues
        /\ DOMAIN pc = Experiments
        /\ todo \in [Experiments -> SUBSET Machines]
        /\ updated \in [Experiments -> SUBSET Machines]
        /\ lockMgr \in [Experiments -> (SUBSET Machines) \cup {None}]
        /\ lockedMachines \in [Experiments -> SUBSET Machines]
    BY DEF SetupInv, SetupTypes, ListsAgree
  <1>1. ASSUME NEW f \in Experiments, f # e
        PROVE  ListsAgreeFor(f)'
    <2>1. Kept(f) /\ ListsAgreeFor(f)
      BY <1>0, <1>1, OtherProcesses DEF SetupInv, ListsAgree
    <2> QED
      BY <2>1 DEF Kept, ListsAgreeFor
  <1>2. ListsAgreeFor(e)'
    <2> USE DEF ListsAgreeFor, Goto, cleanVars, UnlockSteps
    <2>1. CASE Add(e)
      <3>1. pc[e] = "add" /\ UNCHANGED <<updated, lockMgr, lockedMachines>>
        BY <2>1 DEF Add
      <3>2. PICK to \in {"lock", "ended"} : pc' = [pc EXCEPT ![e] = to]
        BY <2>1 DEF Add
      <3> QED
        BY <1>0, <3>1, <3>2
    <2>2. CASE AllLocked(e)
      <3>1. /\ lockMgr' = [lockMgr EXCEPT ![e] = updated[e]]
            /\ lockedMachines' = [lockedMachines EXCEPT ![e] = updated[e]]
            /\ updated' = [updated EXCEPT ![e] = {}]
        BY <2>2 DEF AllLocked
      <3>2. PICK to \in {"clean pool", "checksums"} : pc' = [pc EXCEPT ![e] = to]
        BY <2>2 DEF AllLocked
      <3> QED
        BY <1>0, <3>1, <3>2
    <2>3. CASE SetCheckSum(e)
      <3>1. pc[e] = "checksums" /\ UNCHANGED <<updated, lockMgr, lockedMachines>>
        BY <2>3 DEF SetCheckSum
      <3>2. PICK to \in {"run", "checksums"} : pc' = [pc EXCEPT ![e] = to]
        BY <2>3 DEF SetCheckSum
      <3> QED
        BY <1>0, <3>1, <3>2
    <2>4. CASE SetCheckSumRaises(e) \/ RunsEnd(e) \/ Interrupt(e)
      <3>1. /\ pc[e] \in {"lock", "checksums", "run"} /\ pc' = [pc EXCEPT ![e] = "clean pool"]
            /\ UNCHANGED <<updated, lockMgr, lockedMachines>>
        BY <2>4 DEF SetCheckSumRaises, RunsEnd, Interrupt
      <3> QED
        BY <1>0, <3>1
    <2>5. CASE CleanPool(e)
      <3>1. pc[e] \in {"clean pool", "exit"} /\ UNCHANGED <<updated, lockMgr, lockedMachines>>
        BY <2>5 DEF CleanPool
      <3>2. \/ /\ lockMgr[e] # None /\ todo' = [todo EXCEPT ![e] = lockMgr[e]]
               /\ pc' = [pc EXCEPT ![e] = AfterPool(pc[e])]
            \/ pc' = [pc EXCEPT ![e] = AfterUnlock(AfterPool(pc[e]))]
        BY <2>5 DEF CleanPool, ToUnlock
      <3>3. AfterPool(pc[e]) \in UnlockSteps /\ AfterUnlock(AfterPool(pc[e])) \in {"exit", "ended"}
        BY DEF AfterPool, AfterUnlock
      <3> QED
        BY <1>0, <3>1, <3>2, <3>3
    <2>6. CASE AllUnlocked(e)
      <3>1. /\ pc[e] \in UnlockSteps /\ lockMgr'[e] \in {None, updated[e]} /\ updated'[e] = {}
            /\ lockedMachines' = lockedMachines
        BY <1>0, <2>6 DEF AllUnlocked, LockMgrAfter
      <3>2. PICK to \in {"exit", "ended"} : pc' = [pc EXCEPT ![e] = to]
        BY <2>6 DEF AllUnlocked, AfterUnlock
      <3> QED
        BY <1>0, <3>1, <3>2
    <2>7. CASE LeaseFails(e) \/ RunWithLeases(e) \/ AutolockEnds(e)
      <3>1. /\ pc[e] \in {"lease", "abandon"}
            /\ UNCHANGED <<updated, lockMgr, lockedMachines>>
        BY <2>7 DEF LeaseFails, RunWithLeases, AutolockEnds
      <3>2. PICK to \in {"abandon", "ended"} : pc' = [pc EXCEPT ![e] = to]
        BY <2>7 DEF LeaseFails, RunWithLeases, AutolockEnds
      <3> QED
        BY <1>0, <3>1, <3>2
    <2>8. CASE Abandon(e)
      BY <1>0, <2>8 DEF Abandon
    <2>9. ASSUME NEW n \in Machines,
                 TryToLockMachine(e, n) \/ RemoveMachine(e, n) \/ Lease(e, n)
          PROVE  ListsAgreeFor(e)'
      BY <1>0, <2>9 DEF TryToLockMachine, RemoveMachine, Lease
    <2>10. ASSUME NEW n \in Machines, LockOne(e, n)
           PROVE  ListsAgreeFor(e)'
      BY <1>0, <2>10 DEF LockOne
    <2>11. ASSUME NEW n \in Machines, UnlockOne(e, n)
           PROVE  ListsAgreeFor(e)'
      <3>1. /\ pc[e] \in UnlockSteps /\ n \in todo[e]
            /\ todo'[e] = todo[e] \ {n} /\ updated'[e] \subseteq updated[e] \cup {n}
            /\ UNCHANGED <<pc, lockMgr, lockedMachines>>
        BY <1>0, <2>11 DEF UnlockOne
      <3> QED
        BY <1>0, <3>1
    <2>12. ASSUME NEW n \in Machines, LeaseUnknown(e, n)
           PROVE  ListsAgreeFor(e)'
      <3>1. /\ pc[e] = "lease" /\ pc' = [pc EXCEPT ![e] = "abandon"]
            /\ UNCHANGED <<updated, lockMgr, lockedMachines>>
        BY <2>12 DEF LeaseUnknown
      <3> QED
        BY <1>0, <3>1
    <2> QED
      BY <2>1, <2>2, <2>3, <2>4, <2>5, <2>6, <2>7, <2>8, <2>9, <2>10, <2>11, <2>12 DEF Step
  <1> QED
    BY <1>1, <1>2 DEF ListsAgree

\* What crosperf has locked stays due, step by step.
LEMMA DueStep ==
    ASSUME SetupInv, NEW e \in Experiments, e \in Crosperf, Step(e)
    PROVE  DueForCrosperf(e)'
  <1>0. /\ SetupTypes /\ ListsAgreeFor(e) /\ DueForCrosperf(e) /\ pc[e] \in PcValues
        /\ pc[e] \notin LeaseSteps /\ DOMAIN pc = Experiments
        /\ fileLock \in Locks /\ lease \in Locks
        /\ todo \in [Experiments -> SUBSET Machines]
        /\ updated \in [Experiments -> SUBSET Machines]
        /\ lockMgr \in [Experiments -> (SUBSET Machines) \cup {None}]
        /\ lockedMachines \in [Experiments -> SUBSET Machines]
        /\ poolMachines \in [Experiments -> SUBSET Machines]
        /\ leaked \in [Experiments -> SUBSET Machines]
        /\ e # None /\ \A S \in SUBSET Machines : S # None
    BY LocksAssumption, SetupAssumption DEF SetupInv, SetupTypes, ListsAgree, LocksAreDue
  <1> USE DEF Goto, lockVars, cleanVars
  <1>1. ASSUME lockVars' = lockVars, Due(e) \cup leaked[e] \subseteq Due(e)' \cup leaked'[e],
               PoolDue(e) \cup leaked[e] \subseteq PoolDue(e)' \cup leaked'[e]
        PROVE  DueForCrosperf(e)'
    BY <1>0, <1>1 DEF DueForCrosperf
  <1>2. CASE Add(e)
    <2>1. pc[e] = "add" /\ UNCHANGED <<lockVars, leaked>>
      BY <1>2 DEF Add
    <2> QED
      BY <1>1, <2>1 DEF Due, PoolDue
  <1>3. CASE AllLocked(e)
    <2>1. pc[e] = "lock" /\ UNCHANGED <<lockVars, leaked>> /\ lockMgr'[e] = updated[e]
      BY <1>0, <1>3 DEF AllLocked
    <2>2. pc'[e] \in {"clean pool", "checksums"}
      BY <1>0, <1>3 DEF AllLocked
    <2>3. Due(e) = updated[e] /\ PoolDue(e) = {}
      BY <2>1 DEF Due, PoolDue
    <2>4. Due(e)' = updated[e]
      BY <1>0, <2>1, <2>2 DEF Due
    <2> QED
      BY <1>1, <2>1, <2>3, <2>4
  <1>4. CASE SetCheckSum(e) \/ SetCheckSumRaises(e) \/ RunsEnd(e)
    <2>1. /\ pc[e] \in {"checksums", "run"} /\ UNCHANGED <<lockVars, leaked, lockMgr, poolMachines>>
          /\ pc[e] = "run" => pc'[e] = "clean pool"
      BY <1>0, <1>4 DEF SetCheckSum, SetCheckSumRaises, RunsEnd
    <2>2. pc'[e] \in {"checksums", "run", "clean pool"}
      <3>1. CASE SetCheckSum(e)
        <4>1. PICK to \in {"run", "checksums"} : pc' = [pc EXCEPT ![e] = to]
          BY <3>1 DEF SetCheckSum
        <4> QED
          BY <1>0, <4>1
      <3>2. CASE SetCheckSumRaises(e) \/ RunsEnd(e)
        BY <1>0, <3>2 DEF SetCheckSumRaises, RunsEnd
      <3> QED
        BY <1>4, <3>1, <3>2
    <2>3. Due(e)' = Due(e)
      BY <2>1, <2>2 DEF Due
    <2>4. PoolDue(e) \subseteq PoolDue(e)'
      BY <2>1, <2>2 DEF PoolDue
    <2> QED
      BY <1>1, <2>1, <2>3, <2>4
  <1>5. CASE Interrupt(e)
    <2>1. /\ pc[e] \in {"lock", "checksums"} /\ pc'[e] = "clean pool"
          /\ UNCHANGED <<lockVars, lockMgr, poolMachines>>
          /\ leaked'[e] = leaked[e] \cup updated[e]
      BY <1>0, <1>5 DEF Interrupt
    <2>2. Due(e) \subseteq Due(e)' \cup updated[e]
      BY <2>1 DEF Due
    <2>3. PoolDue(e) = {}
      BY <2>1 DEF PoolDue
    <2> QED
      BY <1>1, <2>1, <2>2, <2>3
  <1>6. CASE CleanPool(e)
    <2>1. PICK failed \in SUBSET poolMachines[e] :
             /\ fileLock' = [n \in Machines |->
                    IF n \in poolMachines[e] \ failed THEN None ELSE fileLock[n]]
             /\ leaked'[e] = leaked[e] \cup failed
      BY <1>0, <1>6 DEF CleanPool
    <2>2. pc[e] \in {"clean pool", "exit"} /\ lease' = lease
      BY <1>6 DEF CleanPool
    <2>3. \/ /\ todo'[e] = lockMgr[e] /\ pc'[e] = AfterPool(pc[e])
             /\ lockMgr[e] # None
          \/ lockMgr[e] = None \/ lockedMachines[e] = {}
      BY <1>0, <1>6 DEF CleanPool, ToUnlock
    <2>4. Due(e) \subseteq Due(e)'
      <3>1. CASE pc[e] = "exit"
        BY <3>1 DEF Due
      <3>2. CASE pc[e] = "clean pool" /\ lockMgr[e] # None /\ lockedMachines[e] # {}
        BY <2>3, <3>2 DEF Due, AfterPool
      <3>3. CASE pc[e] = "clean pool" /\ (lockMgr[e] = None \/ lockedMachines[e] = {})
        <4>1. lockMgr[e] # None => lockMgr[e] = lockedMachines[e]
          BY <1>0, <3>3 DEF ListsAgreeFor
        <4> QED
          BY <3>3, <4>1 DEF Due
      <3> QED
        BY <2>2, <3>1, <3>2, <3>3
    <2>5. \A n \in Machines : fileLock'[n] = e /\ n \in PoolDue(e) => n \in leaked'[e]
      <3> SUFFICES ASSUME NEW n \in Machines, fileLock'[n] = e, n \in PoolDue(e)
                   PROVE  n \in leaked'[e]
        OBVIOUS
      <3>1. n \in poolMachines[e]
        BY DEF PoolDue
      <3> QED
        BY <1>0, <2>1, <3>1
    <2>6. \A n \in Machines : fileLock'[n] = e => fileLock[n] = e
      BY <1>0, <2>1
    <2>7. leaked[e] \subseteq leaked'[e]
      BY <2>1
    <2> QED
      BY <1>0, <2>2, <2>4, <2>5, <2>6, <2>7 DEF DueForCrosperf
  <1>7. CASE AllUnlocked(e)
    <2>1. /\ pc[e] \in UnlockSteps /\ todo[e] = {}
          /\ UNCHANGED <<lockVars, leaked>>
      BY <1>7 DEF AllUnlocked, UnlockSteps
    <2>2. Due(e) = {} /\ PoolDue(e) = {}
      BY <2>1 DEF Due, PoolDue, UnlockSteps
    <2> QED
      BY <1>1, <2>1, <2>2
  <1>8. CASE LeaseFails(e) \/ RunWithLeases(e) \/ AutolockEnds(e) \/ Abandon(e)
    BY <1>0, <1>8 DEF LeaseFails, RunWithLeases, AutolockEnds, Abandon, LeaseSteps
  <1>9. ASSUME NEW n \in Machines, LockOne(e, n)
        PROVE  DueForCrosperf(e)'
    <2>1. /\ pc[e] = "lock" /\ UNCHANGED pc
          /\ updated[e] \subseteq updated'[e] /\ leaked[e] \subseteq leaked'[e]
      BY <1>0, <1>9 DEF LockOne
    <2>2. Due(e) = updated[e] /\ Due(e)' = updated'[e] /\ PoolDue(e) = {}
      BY <2>1 DEF Due, PoolDue
    <2>3. CASE UNCHANGED lockVars
      BY <1>1, <2>1, <2>2, <2>3
    <2>4. CASE Lock(e, n) /\ n \in updated'[e] \cup leaked'[e]
      BY <1>0, <2>1, <2>2, <2>4 DEF DueForCrosperf, Lock, Locks
    <2> QED
      BY <1>0, <1>9, <2>3, <2>4 DEF LockOne
  <1>10. ASSUME NEW n \in Machines, TryToLockMachine(e, n)
         PROVE  DueForCrosperf(e)'
    <2>1. /\ pc[e] = "run" /\ UNCHANGED <<pc, lease, leaked, lockMgr>>
          /\ fileLock' = [fileLock EXCEPT ![n] = e]
          /\ poolMachines'[e] = poolMachines[e] \cup {n}
      BY <1>0, <1>10 DEF TryToLockMachine
    <2>2. Due(e)' = Due(e) /\ PoolDue(e)' = PoolDue(e) \cup {n}
      BY <2>1 DEF Due, PoolDue
    <2> QED
      BY <1>0, <2>1, <2>2 DEF DueForCrosperf, Locks
  <1>11. ASSUME NEW n \in Machines, UnlockOne(e, n)
         PROVE  DueForCrosperf(e)'
    <2>1. /\ pc[e] \in UnlockSteps /\ UNCHANGED pc /\ todo'[e] = todo[e] \ {n}
          /\ leaked[e] \subseteq leaked'[e]
          /\ Unlock(n) \/ (UNCHANGED lockVars /\ leaked'[e] = leaked[e] \cup {n})
      <3>1. /\ pc[e] \in UnlockSteps /\ UNCHANGED pc /\ todo' = [todo EXCEPT ![e] = @ \ {n}]
            /\ \/ Unlock(n) /\ leaked' = leaked
               \/ /\ Unlock(n) \/ UNCHANGED lockVars
                  /\ leaked' = [leaked EXCEPT ![e] = @ \cup {n}]
        BY <1>11 DEF UnlockOne, UnlockSteps
      <3>2. \/ leaked'[e] = leaked[e] /\ Unlock(n)
            \/ leaked'[e] = leaked[e] \cup {n} /\ (Unlock(n) \/ UNCHANGED lockVars)
        BY <1>0, <3>1
      <3>3. todo'[e] = todo[e] \ {n}
        BY <1>0, <3>1
      <3> QED
        BY <3>1, <3>2, <3>3
    <2>2. Due(e) \subseteq Due(e)' \cup {n} /\ PoolDue(e) = {} /\ PoolDue(e)' = {}
      BY <2>1 DEF Due, PoolDue, UnlockSteps
    <2>3. CASE UNCHANGED lockVars /\ leaked'[e] = leaked[e] \cup {n}
      BY <1>1, <2>2, <2>3
    <2>4. CASE Unlock(n)
      BY <1>0, <2>1, <2>2, <2>4 DEF DueForCrosperf, Unlock, Locks
    <2> QED
      BY <2>1, <2>3, <2>4
  <1>12. ASSUME NEW n \in Machines, Lease(e, n) \/ LeaseUnknown(e, n)
         PROVE  DueForCrosperf(e)'
    BY <1>0, <1>12 DEF Lease, LeaseUnknown, LeaseSteps
  <1>13. ASSUME NEW n \in Machines, RemoveMachine(e, n)
         PROVE  DueForCrosperf(e)'
    <2>1. /\ pc[e] = "run" /\ UNCHANGED <<pc, lease, lockMgr>>
          /\ poolMachines'[e] = poolMachines[e] \ {n}
          /\ leaked[e] \subseteq leaked'[e]
          /\ \/ fileLock' = [fileLock EXCEPT ![n] = None]
             \/ fileLock' = fileLock /\ n \in leaked'[e]
      BY <1>0, <1>13 DEF RemoveMachine
    <2>2. Due(e)' = Due(e) /\ PoolDue(e) \subseteq PoolDue(e)' \cup {n}
      BY <2>1 DEF Due, PoolDue
    <2>3. CASE fileLock' = [fileLock EXCEPT ![n] = None]
      BY <1>0, <2>1, <2>2, <2>3 DEF DueForCrosperf, Locks
    <2>4. CASE fileLock' = fileLock /\ n \in leaked'[e]
      BY <1>0, <2>1, <2>2, <2>4 DEF DueForCrosperf
    <2> QED
      BY <2>1, <2>3, <2>4
  <1> QED
    BY <1>2, <1>3, <1>4, <1>5, <1>6, <1>7, <1>8, <1>9, <1>10, <1>11, <1>12, <1>13 DEF Step

\* The machines of crosperf_autolock stay in its list until they are abandoned.
LEMMA LeasesStep ==
    ASSUME SetupInv, NEW e \in Experiments, e \in Autolock, Step(e)
    PROVE  DueForAutolock(e)'
  <1>0. /\ SetupTypes /\ DueForAutolock(e)
        /\ pc[e] \in LeaseSteps \cup {"ended"} /\ remote[e] \in Seq(Machines)
        /\ DOMAIN remote = Experiments
        /\ fileLock \in Locks /\ lease \in Locks
        /\ leaked \in [Experiments -> SUBSET Machines]
        /\ e # None
    BY LocksAssumption DEF SetupInv, SetupTypes, LocksAreDue
  <1> USE DEF Goto, lockVars, cleanVars, LeaseSteps
  <1>1. CASE LeaseFails(e) \/ RunWithLeases(e) \/ AutolockEnds(e)
    BY <1>0, <1>1 DEF LeaseFails, RunWithLeases, AutolockEnds, DueForAutolock, listVars
  <1>2. ASSUME NEW n \in Machines, Lease(e, n)
        PROVE  DueForAutolock(e)'
    <2>1. remote'[e] = Append(remote[e], n) /\ leaked' = leaked /\ n \in Crosfleet
      BY <1>0, <1>2 DEF Lease
    <2>2. lease' = [lease EXCEPT ![n] = e] /\ fileLock' = fileLock
      BY <1>2 DEF Lease, Lock
    <2>3. Elements(remote[e]) \cup {n} \subseteq Elements(remote'[e])
      <3>1. /\ \A i \in 1 .. Len(remote[e]) : remote'[e][i] = remote[e][i]
            /\ remote'[e][Len(remote[e]) + 1] = n
            /\ DOMAIN remote'[e] = 1 .. Len(remote[e]) + 1
            /\ DOMAIN remote[e] = 1 .. Len(remote[e]) /\ Len(remote[e]) \in Nat
        BY <1>0, <2>1
      <3> QED
        BY <3>1 DEF Elements
    <2> QED
      BY <1>0, <2>1, <2>2, <2>3 DEF DueForAutolock, Locks
  <1>3. CASE Abandon(e)
    <2> DEFINE n == Len(remote[e])
               last == remote[e][n]
    <2>1. n \in Nat /\ n > 0 /\ last \in Machines
      BY <1>0, <1>3 DEF Abandon
    <2>2. /\ \/ Unlock(last) /\ leaked[e] \subseteq leaked'[e]
             \/ leaked' = [leaked EXCEPT ![e] = @ \cup {last}] /\ UNCHANGED lockVars
          /\ remote' = [remote EXCEPT ![e] = SubSeq(remote[e], 1, n - 1)]
      BY <1>0, <1>3 DEF Abandon
    <2>3. Elements(remote[e]) \subseteq Elements(remote'[e]) \cup {last}
      <3>1. /\ \A i \in 1 .. n - 1 : remote'[e][i] = remote[e][i]
            /\ DOMAIN remote'[e] = 1 .. n - 1 /\ DOMAIN remote[e] = 1 .. n
        BY <1>0, <2>1, <2>2
      <3>2. \A i \in 1 .. n : i \in 1 .. n - 1 \/ i = n
        BY <2>1
      <3> HIDE DEF n, last
      <3> QED
        BY <2>1, <3>1, <3>2 DEF Elements, last
    <2> HIDE DEF n, last
    <2>4. CASE Unlock(last) /\ leaked[e] \subseteq leaked'[e]
      BY <1>0, <2>1, <2>3, <2>4 DEF DueForAutolock, Unlock, Locks
    <2>5. CASE leaked' = [leaked EXCEPT ![e] = @ \cup {last}] /\ UNCHANGED lockVars
      BY <1>0, <2>1, <2>3, <2>5 DEF DueForAutolock
    <2> QED
      BY <2>2, <2>4, <2>5
  <1>4. ASSUME NEW n \in Machines, LeaseUnknown(e, n)
        PROVE  DueForAutolock(e)'
    <2>1. /\ remote' = remote /\ n \in Crosfleet
          /\ leaked'[e] = leaked[e] \cup {n}
      BY <1>0, <1>4 DEF LeaseUnknown, listVars
    <2>2. lease' = [lease EXCEPT ![n] = e] /\ fileLock' = fileLock
      BY <1>4 DEF LeaseUnknown, Lock
    <2> QED
      BY <1>0, <2>1, <2>2 DEF DueForAutolock, Locks
  <1> QED
    BY <1>0, <1>1, <1>2, <1>3, <1>4 DEF Step, Add, AllLocked, SetCheckSum, SetCheckSumRaises,
       RunsEnd, Interrupt, CleanPool, AllUnlocked, LockOne, TryToLockMachine, RemoveMachine,
       UnlockOne

LEMMA LocksAreDueStep ==
    ASSUME SetupInv, NEW e \in Experiments, Step(e)
    PROVE  LocksAreDue'
  <1>0. SetupTypes /\ LocksAreDue /\ Crosperf \subseteq Experiments /\ Autolock \subseteq Experiments
    BY SetupAssumption DEF SetupInv, Crosperf
  <1>1. ASSUME NEW f \in Experiments, f # e
        PROVE  /\ Kept(f)
               /\ \A m \in Machines : /\ lease'[m] = f => lease[m] = f
                                      /\ fileLock'[m] = f => fileLock[m] = f
    BY <1>0, <1>1, OtherProcesses, LocksGo, LocksAssumption
  <1>2. ASSUME NEW f \in Crosperf PROVE DueForCrosperf(f)'
    <2>1. CASE f = e
      BY <1>2, <2>1, DueStep
    <2>2. CASE f # e
      <3>1. DueForCrosperf(f) /\ Kept(f)
        BY <1>0, <1>1, <2>2 DEF LocksAreDue
      <3>2. Due(f)' = Due(f) /\ PoolDue(f)' = PoolDue(f)
        BY <3>1 DEF Kept, Due, PoolDue
      <3>3. leaked'[f] = leaked[f]
        BY <3>1 DEF Kept
      <3> QED
        BY <1>0, <1>1, <2>2, <3>1, <3>2, <3>3 DEF DueForCrosperf
    <2> QED
      BY <2>1, <2>2
  <1>3. ASSUME NEW f \in Autolock PROVE DueForAutolock(f)'
    <2>1. CASE f = e
      BY <1>3, <2>1, LeasesStep
    <2>2. CASE f # e
      <3>1. DueForAutolock(f) /\ Kept(f)
        BY <1>0, <1>1, <2>2 DEF LocksAreDue
      <3> QED
        BY <1>0, <1>1, <2>2, <3>1 DEF DueForAutolock, Kept, Elements
    <2> QED
      BY <2>1, <2>2
  <1> QED
    BY <1>2, <1>3 DEF LocksAreDue

\* Who has had a machine has had it from then on.
LEMMA HadOnce ==
    ASSUME SetupInv, NEW e \in Experiments, Step(e), NEW f \in Experiments, NEW m \in Machines,
           HasHad(f, m)
    PROVE  HasHad(f, m)'
  <1>0. /\ SetupTypes /\ ListsAgreeFor(e) /\ DOMAIN pc = Experiments
        /\ poolMachines \in [Experiments -> SUBSET Machines]
        /\ removed \in [Experiments -> SUBSET Machines]
        /\ \A g \in Autolock : pc[g] \in LeaseSteps \cup {"ended"}
    BY DEF SetupInv, SetupTypes, ListsAgree
  <1>1. CASE f # e
    <2>1. Kept(f)
      BY <1>0, <1>1, OtherProcesses
    <2> QED
      BY <2>1 DEF HasHad, Kept
  <1>2. CASE f = e
    <2> USE DEF lockVars, listVars, sumVars, cleanVars
    <2>1. lockedMachines[e] \subseteq lockedMachines'[e]
      <3>1. CASE AllLocked(e)
        BY <1>0, <3>1 DEF AllLocked, ListsAgreeFor
      <3> QED
        BY <3>1 DEF Step, Add, SetCheckSum, SetCheckSumRaises, RunsEnd, Interrupt, CleanPool,
           AllUnlocked, LeaseFails, RunWithLeases, Abandon, AutolockEnds, LockOne,
           TryToLockMachine, RemoveMachine, UnlockOne, Lease, LeaseUnknown
    <2>2. poolMachines[e] \cup removed[e] \subseteq poolMachines'[e] \cup removed'[e]
      <3>1. ASSUME NEW n \in Machines, TryToLockMachine(e, n) \/ RemoveMachine(e, n)
            PROVE  poolMachines[e] \cup removed[e] \subseteq poolMachines'[e] \cup removed'[e]
        BY <1>0, <3>1 DEF TryToLockMachine, RemoveMachine
      <3> QED
        BY <3>1 DEF Step, Add, AllLocked, SetCheckSum, SetCheckSumRaises, RunsEnd, Interrupt,
           CleanPool, AllUnlocked, LeaseFails, RunWithLeases, Abandon, AutolockEnds, LockOne,
           UnlockOne, Lease, LeaseUnknown
    <2>3. e \in Autolock /\ pc[e] \in {"abandon", "ended"} => pc'[e] \in {"abandon", "ended"}
      BY <1>0 DEF Step, Add, AllLocked, SetCheckSum, SetCheckSumRaises, RunsEnd, Interrupt,
         CleanPool, AllUnlocked, LeaseFails, RunWithLeases, Abandon, AutolockEnds, LockOne,
         TryToLockMachine, RemoveMachine, UnlockOne, Lease, LeaseUnknown, Goto
    <2> QED
      BY <1>2, <2>1, <2>2, <2>3 DEF HasHad
  <1> QED
    BY <1>1, <1>2

\* A lock that a step takes from another process has been its own process's.
LEMMA TakenByHolders ==
    ASSUME SetupInv, NEW e \in Experiments, Step(e), NEW f \in Experiments, f # e,
           NEW m \in Machines, Holder(m) = f, Holder(m)' # f
    PROVE  HasHad(e, m)
  <1>0. /\ SetupTypes /\ ListsAgreeFor(e) /\ fileLock \in Locks /\ lease \in Locks /\ f # None
    BY LocksAssumption DEF SetupInv, SetupTypes, ListsAgree
  <1> USE DEF lockVars, listVars, sumVars, cleanVars
  <1>1. ~UNCHANGED lockVars
    BY DEF Holder
  <1>2. ~\E n \in Machines : Lock(e, n)
    BY <1>0 DEF Lock, Holder, Locks
  <1>3. ASSUME NEW n, Unlock(n) PROVE n = m
    BY <1>0, <1>3 DEF Unlock, Holder, Locks
  <1>4. CASE CleanPool(e)
    <2>1. PICK failed \in SUBSET poolMachines[e] :
             fileLock' = [n \in Machines |->
                 IF n \in poolMachines[e] \ failed THEN None ELSE fileLock[n]]
      BY <1>4 DEF CleanPool
    <2>2. lease' = lease
      BY <1>4 DEF CleanPool
    <2>3. m \in poolMachines[e]
      BY <2>1, <2>2 DEF Holder
    <2> QED
      BY <2>3 DEF HasHad
  <1>5. ASSUME NEW n \in Machines, UnlockOne(e, n) PROVE HasHad(e, m)
    <2>1. n = m
      BY <1>1, <1>3, <1>5 DEF UnlockOne
    <2>2. n \in lockedMachines[e]
      BY <1>0, <1>5 DEF UnlockOne, ListsAgreeFor, UnlockSteps
    <2> QED
      BY <2>1, <2>2 DEF HasHad
  <1>6. CASE Abandon(e)
    <2>1. pc[e] = "abandon" /\ e \in Autolock
      BY <1>0, <1>6, OfAutolock DEF Abandon, LeaseSteps
    <2> QED
      BY <2>1 DEF HasHad
  <1>7. ASSUME NEW n \in Machines, TryToLockMachine(e, n) PROVE FALSE
    BY <1>0, <1>7 DEF TryToLockMachine, Takeable, Holder, Locks
  <1>8. ASSUME NEW n \in Machines, RemoveMachine(e, n) PROVE HasHad(e, m)
    <2>1. /\ n \in poolMachines[e] /\ lease' = lease
          /\ fileLock' = [fileLock EXCEPT ![n] = None] \/ fileLock' = fileLock
      BY <1>8 DEF RemoveMachine
    <2>2. n = m
      BY <1>0, <1>1, <2>1 DEF Holder, Locks
    <2> QED
      BY <2>1, <2>2 DEF HasHad
  <1> QED
    BY <1>1, <1>2, <1>4, <1>5, <1>6, <1>7, <1>8 DEF Step, Add, AllLocked, SetCheckSum,
       SetCheckSumRaises, RunsEnd, Interrupt, AllUnlocked, LeaseFails, RunWithLeases,
       AutolockEnds, LockOne, Lease, LeaseUnknown

\* The machines that a step of e adds to those it has locked so far are its
\* own; it releases none of these.
LEMMA OwnLocksStep ==
    ASSUME SetupInv, NEW e \in Experiments, e \in Crosperf, Step(e)
    PROVE  HeldOrFormerlyFor(e)'
  <1>0. /\ SetupTypes /\ ListsAgreeFor(e) /\ HeldOrFormerlyFor(e)
        /\ pc[e] \in PcValues \ LeaseSteps /\ DOMAIN pc = Experiments
        /\ fileLock \in Locks /\ lease \in Locks
        /\ updated \in [Experiments -> SUBSET Machines]
        /\ lockMgr \in [Experiments -> (SUBSET Machines) \cup {None}]
        /\ lockedMachines \in [Experiments -> SUBSET Machines]
        /\ removed \in [Experiments -> SUBSET Machines]
    BY DEF SetupInv, SetupTypes, ListsAgree, HeldOrFormerly
  <1> USE DEF Goto, lockVars, cleanVars
  <1>1. ASSUME LockedSoFar(e)' = {} PROVE HeldOrFormerlyFor(e)'
    BY <1>1 DEF HeldOrFormerlyFor
  <1>2. ASSUME NEW m \in Machines, Formerly(e, m) PROVE Formerly(e, m)'
    BY <1>2, HadOnce DEF Formerly
  <1>3. ASSUME UNCHANGED <<lockVars, removed>>, LockedSoFar(e)' \subseteq LockedSoFar(e)
        PROVE  HeldOrFormerlyFor(e)'
    <2>1. LockedSoFar(e) \subseteq Machines
      BY <1>0 DEF LockedSoFar
    <2> QED
      BY <1>0, <1>2, <1>3, <2>1 DEF HeldOrFormerlyFor, Holder
  <1>4. CASE Add(e)
    <2>1. pc[e] = "add" /\ updated' = updated
      BY <1>4 DEF Add
    <2>2. PICK to \in {"lock", "ended"} : pc' = [pc EXCEPT ![e] = to]
      BY <1>4 DEF Add
    <2>3. updated'[e] = {}
      BY <1>0, <2>1 DEF ListsAgreeFor
    <2> QED
      BY <1>0, <1>1, <2>2, <2>3 DEF LockedSoFar
  <1>5. CASE AllLocked(e)
    <2>1. /\ pc[e] = "lock" /\ UNCHANGED <<lockVars, removed>>
          /\ lockedMachines' = [lockedMachines EXCEPT ![e] = updated[e]]
      BY <1>5 DEF AllLocked
    <2>2. pc'[e] \in {"clean pool", "checksums"}
      BY <1>0, <1>5 DEF AllLocked
    <2>3. LockedSoFar(e) = updated[e] /\ LockedSoFar(e)' \subseteq updated[e]
      BY <1>0, <2>1, <2>2 DEF LockedSoFar
    <2> QED
      BY <1>3, <2>1, <2>3
  <1>6. CASE SetCheckSum(e)
    <2>1. pc[e] = "checksums" /\ UNCHANGED <<lockVars, lockedMachines, removed>>
      BY <1>6 DEF SetCheckSum
    <2>2. PICK to \in {"run", "checksums"} : pc' = [pc EXCEPT ![e] = to]
      BY <1>6 DEF SetCheckSum
    <2>3. LockedSoFar(e)' = LockedSoFar(e)
      BY <1>0, <2>1, <2>2 DEF LockedSoFar
    <2> QED
      BY <1>3, <2>1, <2>3
  <1>7. CASE SetCheckSumRaises(e) \/ RunsEnd(e) \/ Interrupt(e)
    <2>1. pc'[e] = "clean pool"
      BY <1>0, <1>7 DEF SetCheckSumRaises, RunsEnd, Interrupt
    <2> QED
      BY <1>1, <2>1 DEF LockedSoFar
  <1>8. CASE CleanPool(e)
    <2>1. pc'[e] \in {"unlock", "unlock at exit", "exit", "ended"}
      BY <1>0, <1>8 DEF CleanPool, AfterPool, AfterUnlock
    <2> QED
      BY <1>1, <2>1 DEF LockedSoFar
  <1>9. CASE AllUnlocked(e)
    <2>1. pc'[e] \in {"exit", "ended"}
      BY <1>0, <1>9 DEF AllUnlocked, AfterUnlock
    <2> QED
      BY <1>1, <2>1 DEF LockedSoFar
  <1>10. ASSUME NEW n \in Machines, UnlockOne(e, n) PROVE HeldOrFormerlyFor(e)'
    <2>1. pc'[e] \in {"unlock", "unlock at exit"}
      BY <1>10 DEF UnlockOne
    <2> QED
      BY <1>1, <2>1 DEF LockedSoFar
  <1>11. ASSUME NEW n \in Machines, LockOne(e, n) PROVE HeldOrFormerlyFor(e)'
    <2>1. pc[e] = "lock" /\ UNCHANGED <<pc, removed>>
      BY <1>11 DEF LockOne
    <2>2. LockedSoFar(e) = updated[e] /\ LockedSoFar(e)' = updated'[e]
      BY <2>1 DEF LockedSoFar
    <2>3. CASE UNCHANGED <<lockVars, updated>>
      BY <1>3, <2>1, <2>2, <2>3
    <2>4. CASE Lock(e, n)
      <3>1. \A m \in updated[e] : Holder(m) = e => Holder(m)' = e
        BY <1>0, <2>4 DEF Lock, Holder, Locks
      <3>2. Holder(n)' = e
        BY <1>0, <2>4 DEF Lock, Holder, Locks
      <3>3. updated'[e] \subseteq updated[e] \cup {n} /\ updated[e] \subseteq Machines
        BY <1>0, <1>11 DEF LockOne
      <3> QED
        BY <1>0, <1>2, <2>1, <2>2, <3>1, <3>2, <3>3 DEF HeldOrFormerlyFor
    <2> QED
      BY <1>11, <2>3, <2>4 DEF LockOne
  <1>12. ASSUME NEW n \in Machines, TryToLockMachine(e, n) PROVE HeldOrFormerlyFor(e)'
    <2>1. /\ pc[e] = "run" /\ UNCHANGED <<pc, lockedMachines, lease>>
          /\ fileLock' = [fileLock EXCEPT ![n] = e]
          /\ removed'[e] = removed[e] \ {n}
      BY <1>0, <1>12 DEF TryToLockMachine
    <2>2. LockedSoFar(e) = lockedMachines[e] /\ LockedSoFar(e)' = lockedMachines[e]
      BY <2>1 DEF LockedSoFar
    <2>3. \A m \in Machines : Holder(m) = e => Holder(m)' = e
      BY <1>0, <2>1 DEF Holder, Locks
    <2>4. n \notin Crosfleet => Holder(n)' = e
      BY <1>0, <2>1 DEF Holder, Locks
    <2>5. lockedMachines[e] \subseteq Machines
      BY <1>0
    <2> QED
      BY <1>0, <1>2, <2>1, <2>2, <2>3, <2>4, <2>5 DEF HeldOrFormerlyFor
  <1>13. ASSUME NEW n \in Machines, RemoveMachine(e, n) PROVE HeldOrFormerlyFor(e)'
    <2>1. /\ pc[e] = "run" /\ UNCHANGED <<pc, lockedMachines, lease>>
          /\ fileLock' = [fileLock EXCEPT ![n] = None] \/ fileLock' = fileLock
          /\ removed'[e] = removed[e] \cup {n}
      BY <1>0, <1>13 DEF RemoveMachine
    <2>2. LockedSoFar(e) = lockedMachines[e] /\ LockedSoFar(e)' = lockedMachines[e]
      BY <2>1 DEF LockedSoFar
    <2>3. \A m \in Machines : Holder(m) = e => Holder(m)' = e \/ (m = n /\ n \notin Crosfleet)
      BY <1>0, <2>1 DEF Holder, Locks
    <2>4. lockedMachines[e] \subseteq Machines
      BY <1>0
    <2> QED
      BY <1>0, <1>2, <2>1, <2>2, <2>3, <2>4 DEF HeldOrFormerlyFor
  <1> QED
    BY <1>0, <1>4, <1>5, <1>6, <1>7, <1>8, <1>9, <1>10, <1>11, <1>12, <1>13 DEF Step, LeaseFails,
       RunWithLeases, Abandon, AutolockEnds, Lease, LeaseUnknown, LeaseSteps

LEMMA HeldOrFormerlyStep ==
    ASSUME SetupInv, NEW e \in Experiments, Step(e)
    PROVE  HeldOrFormerly'
  <1> SUFFICES ASSUME NEW f \in Crosperf PROVE HeldOrFormerlyFor(f)'
    BY DEF HeldOrFormerly
  <1>0. f \in Experiments /\ SetupTypes /\ HeldOrFormerlyFor(f)
    BY DEF SetupInv, Crosperf, HeldOrFormerly
  <1>1. CASE f = e
    BY <1>1, OwnLocksStep
  <1>2. CASE f # e
    <2>1. Kept(f)
      BY <1>0, <1>2, OtherProcesses
    <2>2. LockedSoFar(f)' = LockedSoFar(f)
      BY <2>1 DEF Kept, LockedSoFar
    <2>3. LockedSoFar(f) \subseteq Machines
      BY <1>0 DEF LockedSoFar, SetupTypes
    <2> SUFFICES ASSUME NEW m \in LockedSoFar(f)
                 PROVE  Holder(m)' = f \/ m \in removed'[f] \ Crosfleet \/ Formerly(f, m)'
      BY <2>2 DEF HeldOrFormerlyFor
    <2>4. m \in Machines
      BY <2>3
    <2>5. CASE Formerly(f, m)
      BY <2>4, <2>5, HadOnce DEF Formerly
    <2>6. CASE Holder(m) = f /\ Holder(m)' # f
      <3>1. HasHad(e, m)
        BY <1>0, <1>2, <2>4, <2>6, TakenByHolders
      <3>2. HasHad(e, m)'
        BY <2>4, <3>1, HadOnce
      <3> QED
        BY <1>2, <3>2 DEF Formerly
    <2> QED
      BY <1>0, <2>1, <2>5, <2>6 DEF HeldOrFormerlyFor, Kept
  <1> QED
    BY <1>1, <1>2

LEMMA SetupInvariant == Spec => []SetupInv
  <1>1. ASSUME SetupInv, [Next]_vars PROVE SetupInv'
    <2>1. ASSUME NEW e \in Experiments, Step(e) PROVE SetupInv'
      BY <1>1, <2>1, SetupTypesStep, ListsAgreeStep, LocksAreDueStep, HeldOrFormerlyStep
         DEF SetupInv
    <2>2. CASE UNCHANGED vars
      <3>1. UNCHANGED <<fileLock, lease, pc, remote, todo, updated, lockMgr, lockedMachines,
                        poolMachines, removed, leaked>>
        BY <2>2 DEF vars, lockVars, listVars, cleanVars
      <3>2. SetupTypes'
        BY <1>1, <3>1 DEF SetupInv, SetupTypes
      <3>3. ListsAgree'
        BY <1>1, <3>1 DEF SetupInv, ListsAgree, ListsAgreeFor
      <3>4. LocksAreDue'
        BY <1>1, <3>1 DEF SetupInv, LocksAreDue, DueForCrosperf, DueForAutolock, Due, PoolDue
      <3>5. HeldOrFormerly'
        BY <1>1, <3>1 DEF SetupInv, HeldOrFormerly, HeldOrFormerlyFor, LockedSoFar, Holder,
           Formerly, HasHad
      <3> QED
        BY <3>2, <3>3, <3>4, <3>5 DEF SetupInv
    <2> QED
      BY <1>1, <2>1, <2>2 DEF Next, Ended
  <1> QED
    BY <1>1, SetupInitInv, PTL DEF Spec

\* A process that has ended has no machine but those whose lock it could not
\* know of: the command that leased or unlocked it was reported to have failed,
\* or the process was interrupted while it locked.  _Run's finally, the clean-up
\* at exit and the contexts of crosperf_autolock reach all else.
THEOREM NothingIsLeftLocked == Spec => []NothingLeftLocked
  <1>1. SetupInv => NothingLeftLocked
    <2> SUFFICES ASSUME SetupInv, NEW e \in Experiments, NEW m \in Machines, pc[e] = "ended",
                        e \in {fileLock[m], lease[m]}
                 PROVE  m \in leaked[e]
      BY DEF NothingLeftLocked
    <2>1. CASE e \in Crosperf
      <3>1. Due(e) = {} /\ PoolDue(e) = {}
        BY DEF Due, PoolDue
      <3> QED
        BY <2>1, <3>1 DEF SetupInv, LocksAreDue, DueForCrosperf
    <2>2. CASE e \in Autolock
      <3>1. remote[e] = <<>>
        BY <2>2 DEF SetupInv, SetupTypes
      <3>2. Elements(remote[e]) = {}
        BY <3>1 DEF Elements
      <3> QED
        BY <2>2, <3>2 DEF SetupInv, LocksAreDue, DueForAutolock
    <2> QED
      BY <2>1, <2>2 DEF Crosperf
  <1> QED
    BY <1>1, SetupInvariant, PTL

\* While an experiment runs, it loses a machine that it locked only because a
\* benchmark run of its own has given up the machine and its lock file, or to a
\* process that has had the machine itself: Cleanup and UpdateMachines go
\* through nothing but what was locked before.
THEOREM LosesToFormerHolders == Spec => []LosesLocksOnlyToFormerHolders
  <1>1. SetupInv => LosesLocksOnlyToFormerHolders
    BY DEF SetupInv, HeldOrFormerly, HeldOrFormerlyFor, LockedSoFar, Formerly, HasHad,
       LosesLocksOnlyToFormerHolders
  <1> QED
    BY <1>1, SetupInvariant, PTL

-----------------------------------------------------------------------------
(* Lists that lose machines *)

LEMMA LeastNat ==
    ASSUME NEW T, T \subseteq Nat, T # {}
    PROVE  \E x \in T : \A y \in T : x <= y
  <1> DEFINE Less == {ss \in Nat \X Nat : ss[1] < ss[2]}
  <1>1. IsWellFoundedOn(Less, Nat)
    BY NatLessThanWellFounded DEF OpToRel
  <1>2. PICK x \in T : \A y \in T : ~ (<<y, x>> \in Less)
    BY <1>1, WFMin
  <1>3. \A y \in T : ~ (y < x)
    BY <1>2
  <1> QED
    BY <1>3

LEMMA InductiveSet ==
    ASSUME NEW T, T \subseteq Nat, 0 \in T, \A n \in T : n + 1 \in T
    PROVE  T = Nat
  <1> SUFFICES ASSUME Nat \ T # {} PROVE FALSE
    OBVIOUS
  <1>1. PICK x \in Nat \ T : \A y \in Nat \ T : x <= y
    BY LeastNat
  <1>2. x # 0 /\ x - 1 \in Nat /\ ~(x <= x - 1)
    BY <1>1
  <1>3. x - 1 \in T
    BY <1>1, <1>2
  <1>4. (x - 1) + 1 = x
    BY <1>1
  <1> QED
    BY <1>1, <1>3, <1>4

\* A finite set of numbers has an n-th one for each n up to its size.
LEMMA EveryRank ==
    ASSUME NEW P, P \subseteq Nat, IsFiniteSet(P), NEW j \in 1 .. Cardinality(P)
    PROVE  \E i \in P : Cardinality({k \in P : k <= i}) = j
  <1> DEFINE Below(i) == {k \in P : k <= i}
             T == {n \in Nat : n >= Cardinality(P) \/ \E i \in P : Cardinality(Below(i)) = n + 1}
  <1>1. Cardinality(P) \in Nat
    BY FS_CardinalityType
  <1>2. 0 \in T
    <2>1. CASE P = {}
      BY <2>1, FS_EmptySet
    <2>2. CASE P # {}
      <3>1. PICK x \in P : \A y \in P : x <= y
        BY <2>2, LeastNat
      <3>2. Below(x) = {x}
        <4>1. x \in Nat /\ \A k \in P : k \in Nat
          OBVIOUS
        <4>2. \A k \in P : k <= x <=> k = x
          BY <3>1, <4>1
        <4> QED
          BY <4>2
      <3>3. Cardinality(Below(x)) = 1
        BY <3>2, FS_Singleton
      <3> QED
        BY <3>1, <3>3
    <2> QED
      BY <2>1, <2>2
  <1>3. ASSUME NEW n \in T
        PROVE  n + 1 \in T
    <2>1. CASE n + 1 >= Cardinality(P)
      BY <2>1
    <2>2. CASE n + 1 < Cardinality(P)
      <3>1. PICK i \in P : Cardinality(Below(i)) = n + 1
        BY <1>1, <1>3, <2>2
      <3>2. Below(i) \subseteq P /\ IsFiniteSet(Below(i)) /\ Below(i) # P
        BY <1>1, <2>2, <3>1, FS_Subset
      <3>3. P \ Below(i) # {} /\ P \ Below(i) \subseteq Nat
        <4> HIDE DEF Below
        <4> QED
          BY <3>2
      <3>4. PICK x \in P \ Below(i) : \A y \in P \ Below(i) : x <= y
        <4> HIDE DEF Below
        <4> QED
          BY <3>3, LeastNat
      <3>5. Below(x) = Below(i) \cup {x} /\ x \notin Below(i)
        <4>1. x \in Nat /\ i \in Nat /\ \A k \in P : k \in Nat
          OBVIOUS
        <4>2. x > i /\ \A k \in P : ~(k <= i) => x <= k
          BY <3>4, <4>1
        <4>3. \A k \in P : k <= x <=> k <= i \/ k = x
          BY <4>1, <4>2
        <4> QED
          BY <4>2, <4>3
      <3>6. Cardinality(Below(x)) = Cardinality(Below(i)) + 1
        <4> HIDE DEF Below
        <4> QED
          BY <3>2, <3>5, FS_AddElement
      <3>7. n \in Nat /\ x \in P
        BY <3>4
      <3>8. Cardinality(Below(x)) = (n + 1) + 1
        BY <3>1, <3>6, <3>7
      <3> HIDE DEF Below
      <3> QED
        BY <3>7, <3>8
    <2> QED
      BY <1>1, <1>3, <2>1, <2>2
  <1>4. T = Nat
    <2>1. T \subseteq Nat
      OBVIOUS
    <2> HIDE DEF T
    <2> QED
      BY <1>2, <1>3, <2>1, InductiveSet
  <1>5. j - 1 \in T /\ j - 1 < Cardinality(P)
    BY <1>1, <1>4
  <1> QED
    BY <1>1, <1>5

Listed(s) == \E n \in Nat : DOMAIN s = 1 .. n

\* A subsequence is a list of elements of the list, with a first one if there
\* is any.
LEMMA SubsequenceOf ==
    ASSUME NEW s, Listed(s), NEW P, P \subseteq DOMAIN s
    PROVE  /\ Listed(Subsequence(s, P))
           /\ \A j \in DOMAIN Subsequence(s, P) : \E i \in P : Subsequence(s, P)[j] = s[i]
           /\ Elements(Subsequence(s, P)) \subseteq Elements(s)
           /\ Elements(Subsequence(s, P)) # {} => 1 \in DOMAIN Subsequence(s, P)
  <1>1. P \subseteq Nat /\ IsFiniteSet(P) /\ Cardinality(P) \in Nat
    <2>1. PICK n \in Nat : DOMAIN s = 1 .. n
      BY DEF Listed
    <2>2. IsFiniteSet(1 .. n)
      BY FS_Interval
    <2> QED
      BY <2>1, <2>2, FS_Subset, FS_CardinalityType
  <1>2. DOMAIN Subsequence(s, P) = 1 .. Cardinality(P)
    BY DEF Subsequence
  <1>3. ASSUME NEW j \in 1 .. Cardinality(P)
        PROVE  \E i \in P : Subsequence(s, P)[j] = s[i]
    <2>1. \E i \in P : Cardinality({k \in P : k <= i}) = j
      BY <1>1, EveryRank
    <2> QED
      BY <2>1 DEF Subsequence
  <1>4. Elements(Subsequence(s, P)) \subseteq Elements(s)
    BY <1>2, <1>3 DEF Elements
  <1>5. Elements(Subsequence(s, P)) # {} => 1 \in DOMAIN Subsequence(s, P)
    BY <1>1, <1>2 DEF Elements
  <1> QED
    BY <1>1, <1>2, <1>3, <1>4, <1>5 DEF Listed

LEMMA FilteredOf ==
    ASSUME NEW s, Listed(s), NEW keep
    PROVE  /\ Listed(Filtered(s, keep))
           /\ Elements(Filtered(s, keep)) \subseteq Elements(s) \cap keep
           /\ Elements(Filtered(s, keep)) # {} => 1 \in DOMAIN Filtered(s, keep)
  <1> DEFINE P == {i \in DOMAIN s : s[i] \in keep}
  <1>1. /\ Listed(Subsequence(s, P))
        /\ \A j \in DOMAIN Subsequence(s, P) : \E i \in P : Subsequence(s, P)[j] = s[i]
        /\ Elements(Subsequence(s, P)) \subseteq Elements(s)
        /\ Elements(Subsequence(s, P)) # {} => 1 \in DOMAIN Subsequence(s, P)
    <2>1. P \subseteq DOMAIN s
      OBVIOUS
    <2> QED
      BY <2>1, SubsequenceOf
  <1>2. Filtered(s, keep) = Subsequence(s, P)
    BY DEF Filtered
  <1>3. Elements(Subsequence(s, P)) \subseteq keep
    BY <1>1 DEF Elements
  <1> QED
    BY <1>1, <1>2, <1>3

LEMMA KeptOf ==
    ASSUME NEW s, Listed(s), NEW keep
    PROVE  /\ Listed(KeepLocked(s, keep))
           /\ Elements(KeepLocked(s, keep)) \subseteq Elements(s)
  <1>1. PICK P \in SUBSET DOMAIN s : KeepLocked(s, keep) = Subsequence(s, P)
    BY DEF KeepLocked, RemovedInLoop
  <1> QED
    BY <1>1, SubsequenceOf

-----------------------------------------------------------------------------
(* The checksums of the labels *)

SumTypes ==
    /\ pc \in [Experiments -> PcValues]
    /\ DOMAIN remote = Experiments /\ DOMAIN labelRemote = Experiments
    /\ DOMAIN common = Experiments /\ DOMAIN checksum = Experiments
    /\ \A e \in Experiments : DOMAIN labelRemote[e] = Labels /\ DOMAIN common[e] = Labels

\* Label l has had its turn.
Given(e, l) == common[e][l] # None

\* Its machines are still the experiment's, and report its checksum unless a
\* label that came later has taken one of them.
Agreed(e, l) ==
    /\ Elements(labelRemote[e][l]) # {}
    /\ Elements(labelRemote[e][l]) \subseteq Elements(remote[e])
    /\ \A k \in Labels : k < l => Given(e, k)
    /\ (\A k \in Labels : k > l /\ Given(e, k) =>
            Elements(labelRemote[e][k]) \cap Elements(labelRemote[e][l]) = {}) =>
       \A m \in Elements(labelRemote[e][l]) : checksum[e][m] = common[e][l]

SumsFor(e) ==
    /\ pc[e] \in {"add", "lock"} => \A l \in Labels : ~Given(e, l)
    /\ pc[e] \in {"add", "lock", "checksums", "run"} => \A l \in Labels : Listed(labelRemote[e][l])
    /\ pc[e] \in {"lock", "checksums", "run"} =>
          /\ \A l \in Labels : Elements(labelRemote[e][l]) \subseteq DOMAIN checksum[e]
          /\ \A m \in DOMAIN checksum[e] : checksum[e][m] \in Hardware
    /\ pc[e] \in {"checksums", "run"} => \A l \in Labels : Given(e, l) => Agreed(e, l)
    /\ pc[e] = "checksums" => Labels = {} \/ \E l \in Labels : ~Given(e, l)
    /\ pc[e] = "run" => \A l \in Labels : Given(e, l)

SumsInv == SumTypes /\ \A e \in Experiments : SumsFor(e)

LEMMA SumsInit ==
    ASSUME Init
    PROVE  SumsInv
  <1>1. SumTypes
    BY SetupAssumption DEF Init, SumTypes, PcValues
  <1>2. ASSUME NEW e \in Experiments
        PROVE  SumsFor(e)
    <2>1. /\ pc[e] \in {"lease", "add"} /\ labelRemote[e] = LabelRemote[e]
          /\ \A l \in Labels : common[e][l] = None
      BY DEF Init
    <2>2. ASSUME NEW l \in Labels
          PROVE  Listed(LabelRemote[e][l])
      <3>1. LabelRemote[e][l] \in Seq(Machines)
        BY SetupAssumption
      <3> QED
        BY <3>1 DEF Listed
    <2> QED
      BY <2>1, <2>2 DEF SumsFor, Given
  <1> QED
    BY <1>1, <1>2 DEF SumsInv

\* What a process knows does not change by a step of another one, or by its own
\* steps after the set-up.
LEMMA SumsFrame ==
    ASSUME SumsInv, NEW e \in Experiments, NEW to, to \in PcValues,
           pc' = [pc EXCEPT ![e] = to],
           to = pc[e] \/ to \notin {"add", "lock", "checksums", "run"},
           UNCHANGED <<labelRemote, common, checksum>>,
           DOMAIN remote' = Experiments,
           \A f \in Experiments : remote'[f] = remote[f] \/ (f = e /\ pc[e] \in LeaseSteps)
    PROVE  SumsInv'
  <1>1. SumTypes /\ SumTypes'
    BY DEF SumsInv, SumTypes
  <1>2. ASSUME NEW f \in Experiments
        PROVE  SumsFor(f)'
    <2>1. /\ SumsFor(f)
          /\ \/ pc'[f] = pc[f] /\ remote'[f] = remote[f]
             \/ pc'[f] \notin {"add", "lock", "checksums", "run"}
      BY <1>1 DEF SumsInv, SumTypes, LeaseSteps
    <2>2. \A l : Given(f, l)' <=> Given(f, l)
      BY DEF Given
    <2>3. CASE pc'[f] = pc[f] /\ remote'[f] = remote[f]
      <3>1. \A l : Agreed(f, l)' <=> Agreed(f, l)
        BY <2>2, <2>3 DEF Agreed
      <3> QED
        BY <2>1, <2>2, <2>3, <3>1 DEF SumsFor
    <2>4. CASE pc'[f] \notin {"add", "lock", "checksums", "run"}
      BY <2>4 DEF SumsFor
    <2> QED
      BY <2>1, <2>3, <2>4
  <1> QED
    BY <1>1, <1>2 DEF SumsInv

\* Nor does it by the set-up of another one.
LEMMA SumsOfOthers ==
    ASSUME SumsInv, NEW e \in Experiments, SumTypes', SumsFor(e)',
           \A f \in Experiments \ {e} :
              /\ pc'[f] = pc[f] /\ remote'[f] = remote[f] /\ labelRemote'[f] = labelRemote[f]
              /\ common'[f] = common[f] /\ checksum'[f] = checksum[f]
    PROVE  SumsInv'
  <1>1. ASSUME NEW f \in Experiments \ {e}
        PROVE  SumsFor(f)'
    <2>1. SumsFor(f)
      BY DEF SumsInv
    <2>2. \A l : Given(f, l)' <=> Given(f, l)
      BY DEF Given
    <2>3. \A l : Agreed(f, l)' <=> Agreed(f, l)
      BY <2>2 DEF Agreed
    <2> QED
      BY <2>1, <2>2, <2>3 DEF SumsFor
  <1> QED
    BY <1>1 DEF SumsInv

LEMMA AddSums ==
    ASSUME SumsInv, NEW e \in Experiments, Add(e)
    PROVE  SumsInv'
  <1>1. SumTypes /\ SumsFor(e) /\ pc[e] = "add" /\ UNCHANGED common
    BY DEF Add, SumsInv
  <1>2. PICK up, sums, to :
            /\ sums \in [up -> Hardware] /\ to \in {"lock", "ended"}
            /\ remote' = [remote EXCEPT ![e] = Filtered(remote[e], up)]
            /\ labelRemote' = [labelRemote EXCEPT ![e] =
                   [l \in Labels |-> Filtered(labelRemote[e][l], up)]]
            /\ checksum' = [checksum EXCEPT ![e] = sums]
            /\ pc' = [pc EXCEPT ![e] = to]
    BY DEF Add, Goto
  <1>3. /\ pc'[e] = to /\ checksum'[e] = sums
        /\ DOMAIN labelRemote'[e] = Labels
        /\ \A l \in Labels : labelRemote'[e][l] = Filtered(labelRemote[e][l], up)
        /\ \A f \in Experiments \ {e} :
              /\ pc'[f] = pc[f] /\ remote'[f] = remote[f] /\ labelRemote'[f] = labelRemote[f]
              /\ common'[f] = common[f] /\ checksum'[f] = checksum[f]
    BY <1>1, <1>2 DEF SumTypes
  <1>4. SumTypes'
    <2>1. pc' \in [Experiments -> PcValues]
      BY <1>1, <1>2 DEF SumTypes, PcValues
    <2>2. /\ DOMAIN remote' = Experiments /\ DOMAIN labelRemote' = Experiments
          /\ DOMAIN checksum' = Experiments
      BY <1>1, <1>2 DEF SumTypes
    <2> QED
      BY <1>1, <1>3, <2>1, <2>2 DEF SumTypes
  <1>5. SumsFor(e)'
    <2>1. ASSUME NEW l \in Labels
          PROVE  /\ Listed(labelRemote'[e][l]) /\ Elements(labelRemote'[e][l]) \subseteq up
                 /\ ~Given(e, l)'
      <3>1. Listed(labelRemote[e][l]) /\ ~Given(e, l)
        BY <1>1 DEF SumsFor
      <3>2. /\ Listed(Filtered(labelRemote[e][l], up))
            /\ Elements(Filtered(labelRemote[e][l], up)) \subseteq up
        BY <3>1, FilteredOf
      <3>3. labelRemote'[e][l] = Filtered(labelRemote[e][l], up)
        BY <1>3
      <3>4. ~Given(e, l)'
        BY <1>1, <3>1 DEF Given
      <3> QED
        BY <3>2, <3>3, <3>4
    <2>2. DOMAIN checksum'[e] = up /\ \A m \in up : checksum'[e][m] \in Hardware
      BY <1>2, <1>3
    <2>3. (\A l \in Labels : Listed(labelRemote[e][l]))'
      BY <2>1 DEF Listed
    <2>4. \A l \in Labels : Elements(labelRemote'[e][l]) \subseteq DOMAIN checksum'[e]
      BY <2>1, <2>2
    <2>5. \A m \in DOMAIN checksum'[e] : checksum'[e][m] \in Hardware
      BY <2>2
    <2> QED
      BY <1>2, <1>3, <2>1, <2>3, <2>4, <2>5 DEF SumsFor
  <1> QED
    BY <1>3, <1>4, <1>5, SumsOfOthers

LEMMA AllLockedSums ==
    ASSUME SumsInv, NEW e \in Experiments, AllLocked(e)
    PROVE  SumsInv'
  <1>1. SumTypes /\ SumsFor(e) /\ pc[e] = "lock" /\ UNCHANGED <<common, checksum>>
    BY DEF AllLocked, SumsInv, sumVars
  <1>2. PICK to \in {"clean pool", "checksums"} :
            /\ remote' = [remote EXCEPT ![e] = KeepLocked(remote[e], updated[e])]
            /\ labelRemote' = [labelRemote EXCEPT ![e] =
                   [l \in Labels |-> KeepLocked(labelRemote[e][l], updated[e])]]
            /\ pc' = [pc EXCEPT ![e] = to]
    BY DEF AllLocked, Goto
  <1>3. /\ pc'[e] = to
        /\ DOMAIN labelRemote'[e] = Labels
        /\ \A l \in Labels : labelRemote'[e][l] = KeepLocked(labelRemote[e][l], updated[e])
        /\ \A f \in Experiments \ {e} :
              /\ pc'[f] = pc[f] /\ remote'[f] = remote[f] /\ labelRemote'[f] = labelRemote[f]
              /\ common'[f] = common[f] /\ checksum'[f] = checksum[f]
    BY <1>1, <1>2 DEF SumTypes
  <1>4. SumTypes'
    <2>1. pc' \in [Experiments -> PcValues]
      BY <1>1, <1>2 DEF SumTypes, PcValues
    <2>2. DOMAIN remote' = Experiments /\ DOMAIN labelRemote' = Experiments
      BY <1>1, <1>2 DEF SumTypes
    <2> QED
      BY <1>1, <1>3, <2>1, <2>2 DEF SumTypes
  <1>5. SumsFor(e)'
    <2>1. ASSUME NEW l \in Labels
          PROVE  /\ Listed(labelRemote'[e][l])
                 /\ Elements(labelRemote'[e][l]) \subseteq DOMAIN checksum'[e]
                 /\ ~Given(e, l)'
      <3>1. /\ Listed(labelRemote[e][l]) /\ ~Given(e, l)
            /\ Elements(labelRemote[e][l]) \subseteq DOMAIN checksum[e]
        BY <1>1 DEF SumsFor
      <3>2. /\ Listed(labelRemote'[e][l])
            /\ Elements(labelRemote'[e][l]) \subseteq Elements(labelRemote[e][l])
        <4>1. /\ Listed(KeepLocked(labelRemote[e][l], updated[e]))
              /\ Elements(KeepLocked(labelRemote[e][l], updated[e])) \subseteq Elements(labelRemote[e][l])
          BY <3>1, KeptOf
        <4>2. labelRemote'[e][l] = KeepLocked(labelRemote[e][l], updated[e])
          BY <1>3
        <4> QED
          BY <4>1, <4>2
      <3> QED
        BY <1>1, <3>1, <3>2 DEF Given
    <2>2. \A m \in DOMAIN checksum'[e] : checksum'[e][m] \in Hardware
      BY <1>1 DEF SumsFor
    <2>3. (\A l \in Labels : Listed(labelRemote[e][l]))'
      BY <2>1 DEF Listed
    <2> QED
      BY <1>3, <2>1, <2>2, <2>3 DEF SumsFor
  <1> QED
    BY <1>3, <1>4, <1>5, SumsOfOthers

LEMMA SetCheckSumSums ==
    ASSUME SumsInv, NEW e \in Experiments, SetCheckSum(e)
    PROVE  SumsInv'
  <1> DEFINE next == CHOOSE k \in Unseen(e) : \A j \in Unseen(e) : k <= j
             left == Filtered(labelRemote[e][next], Elements(remote[e]))
  <1>1. SumTypes /\ SumsFor(e) /\ pc[e] = "checksums" /\ UNCHANGED remote
    BY DEF SetCheckSum, SumsInv
  <1>2. PICK l, kept, S :
        /\ l = next
        /\ kept = Filtered(labelRemote[e][l], Elements(remote[e]))
        /\ S = Elements(kept) /\ S # {}
        /\ labelRemote' = [labelRemote EXCEPT ![e][l] = kept]
        /\ \/ ~Differ(checksum[e], S) /\ checksum' = checksum
           \/ \E sums \in Imaged(S) : checksum' = [checksum EXCEPT ![e] =
                  [m \in DOMAIN checksum[e] |-> IF m \in S THEN sums[m] ELSE checksum[e][m]]]
        /\ common' = [common EXCEPT ![e][l] = checksum'[e][kept[1]]]
        /\ pc' = [pc EXCEPT ![e] = IF Unseen(e) = {l} THEN "run" ELSE "checksums"]
    <2>1. /\ Elements(left) # {}
          /\ labelRemote' = [labelRemote EXCEPT ![e][next] = left]
          /\ \/ ~Differ(checksum[e], Elements(left)) /\ checksum' = checksum
             \/ \E sums \in Imaged(Elements(left)) : checksum' = [checksum EXCEPT ![e] =
                    [m \in DOMAIN checksum[e] |->
                        IF m \in Elements(left) THEN sums[m] ELSE checksum[e][m]]]
          /\ common' = [common EXCEPT ![e][next] = checksum'[e][left[1]]]
          /\ pc' = [pc EXCEPT ![e] = IF Unseen(e) = {next} THEN "run" ELSE "checksums"]
      BY DEF SetCheckSum, Goto
    <2>2. left = Filtered(labelRemote[e][next], Elements(remote[e]))
      OBVIOUS
    <2> HIDE DEF next, left
    <2> QED
      BY <2>1, <2>2
  <1>3. PICK to \in {"run", "checksums"} :
            /\ pc' = [pc EXCEPT ![e] = to]
            /\ to = "run" <=> Unseen(e) = {l}
    BY <1>2
  <1>4. /\ pc'[e] = to
        /\ DOMAIN labelRemote'[e] = Labels /\ DOMAIN common'[e] = Labels
        /\ \A k \in Labels : k # l => /\ labelRemote'[e][k] = labelRemote[e][k]
                                      /\ common'[e][k] = common[e][k]
        /\ l \in Labels => labelRemote'[e][l] = kept /\ common'[e][l] = checksum'[e][kept[1]]
    BY <1>1, <1>2, <1>3 DEF SumTypes
  <1>5. /\ DOMAIN checksum' = Experiments
        /\ \A f \in Experiments \ {e} : checksum'[f] = checksum[f]
        /\ DOMAIN checksum'[e] = DOMAIN checksum[e]
        /\ \A m \in DOMAIN checksum[e] :
              /\ checksum'[e][m] \in Hardware
              /\ m \notin S => checksum'[e][m] = checksum[e][m]
              /\ \A n \in DOMAIN checksum[e] : m \in S /\ n \in S => checksum'[e][m] = checksum'[e][n]
    <2>1. \A m \in DOMAIN checksum[e] : checksum[e][m] \in Hardware
      BY <1>1 DEF SumsFor
    <2>2. CASE ~Differ(checksum[e], S) /\ checksum' = checksum
      BY <1>1, <2>1, <2>2 DEF SumTypes, Differ
    <2>3. CASE \E sums \in Imaged(S) : checksum' = [checksum EXCEPT ![e] =
                  [m \in DOMAIN checksum[e] |-> IF m \in S THEN sums[m] ELSE checksum[e][m]]]
      <3>1. PICK sums \in Imaged(S) : checksum' = [checksum EXCEPT ![e] =
                  [m \in DOMAIN checksum[e] |-> IF m \in S THEN sums[m] ELSE checksum[e][m]]]
        BY <2>3
      <3>2. (\A m \in S : sums[m] \in Hardware) /\ \A m, n \in S : sums[m] = sums[n]
        BY DEF Imaged
      <3>3. /\ DOMAIN checksum' = Experiments
            /\ \A f \in Experiments \ {e} : checksum'[f] = checksum[f]
            /\ checksum'[e] = [m \in DOMAIN checksum[e] |-> IF m \in S THEN sums[m] ELSE checksum[e][m]]
        BY <1>1, <3>1 DEF SumTypes
      <3> QED
        BY <2>1, <3>2, <3>3
    <2> QED
      BY <1>2, <2>2, <2>3
  <1>6. /\ SumTypes'
        /\ \A f \in Experiments \ {e} :
              /\ pc'[f] = pc[f] /\ remote'[f] = remote[f] /\ labelRemote'[f] = labelRemote[f]
              /\ common'[f] = common[f] /\ checksum'[f] = checksum[f]
    <2>1. pc' \in [Experiments -> PcValues] /\ \A f \in Experiments \ {e} : pc'[f] = pc[f]
      BY <1>1, <1>3 DEF SumTypes, PcValues
    <2>2. /\ DOMAIN labelRemote' = Experiments /\ DOMAIN common' = Experiments
          /\ \A f \in Experiments \ {e} : labelRemote'[f] = labelRemote[f] /\ common'[f] = common[f]
      BY <1>1, <1>2 DEF SumTypes
    <2> QED
      BY <1>1, <1>4, <1>5, <2>1, <2>2 DEF SumTypes
  <1>7. CASE Labels = {}
    <2>1. \A m \in DOMAIN checksum'[e] : checksum'[e][m] \in Hardware
      BY <1>5
    <2>2. SumsFor(e)'
      BY <1>7, <2>1 DEF SumsFor
    <2> QED
      BY <1>6, <2>2, SumsOfOthers
  <1>8. CASE Labels # {}
    <2>1. /\ Labels \subseteq Nat /\ Unseen(e) \subseteq Labels /\ Unseen(e) # {}
          /\ \A k \in Labels : k \notin Unseen(e) <=> Given(e, k)
      <3>1. Labels \subseteq Nat
        BY SetupAssumption, FS_CardinalityType
      <3> QED
        BY <1>1, <1>8, <3>1 DEF SumsFor, Unseen, Given
    <2>2. l \in Labels /\ ~Given(e, l) /\ \A j \in Labels : ~Given(e, j) => l <= j
      <3>1. \E k \in Unseen(e) : \A j \in Unseen(e) : k <= j
        BY <2>1, LeastNat
      <3>2. l \in Unseen(e) /\ \A j \in Unseen(e) : l <= j
        BY <1>2, <3>1
      <3> QED
        BY <2>1, <3>2
    <2>3. /\ Listed(kept) /\ S \subseteq Elements(labelRemote[e][l]) /\ S \subseteq Elements(remote[e])
          /\ kept[1] \in S /\ S \subseteq DOMAIN checksum[e]
      <3>1. Listed(labelRemote[e][l]) /\ Elements(labelRemote[e][l]) \subseteq DOMAIN checksum[e]
        BY <1>1, <2>2 DEF SumsFor
      <3>2. /\ Listed(kept) /\ S \subseteq Elements(labelRemote[e][l]) \cap Elements(remote[e])
            /\ S # {} => 1 \in DOMAIN kept
        BY <1>2, <3>1, FilteredOf
      <3>3. kept[1] \in S
        <4>1. 1 \in DOMAIN kept /\ S = {kept[i] : i \in DOMAIN kept}
          BY <1>2, <3>2 DEF Elements
        <4> QED
          BY <4>1
      <3> QED
        BY <3>1, <3>2, <3>3
    <2>4. /\ \A k \in Labels : Given(e, k)' <=> k = l \/ Given(e, k)
          /\ labelRemote'[e][l] = kept
          /\ \A m \in S : checksum'[e][m] = common'[e][l]
      <3>1. common'[e][l] = checksum'[e][kept[1]] /\ labelRemote'[e][l] = kept
        BY <1>4, <2>2
      <3>2. common'[e][l] # None
        BY <1>5, <2>3, <3>1, SetupAssumption
      <3>3. \A m \in S : checksum'[e][m] = checksum'[e][kept[1]]
        BY <1>5, <2>3
      <3> QED
        BY <1>4, <3>1, <3>2, <3>3 DEF Given
    <2>5. Agreed(e, l)'
      <3>1. \A k \in Labels : k < l => Given(e, k)'
        BY <2>1, <2>2, <2>4
      <3>2. Elements(labelRemote'[e][l]) = S /\ remote'[e] = remote[e]
        BY <1>1, <1>2, <2>4
      <3>3. \A m \in Elements(labelRemote'[e][l]) : checksum'[e][m] = common'[e][l]
        BY <2>4, <3>2
      <3> QED
        BY <1>2, <2>3, <3>1, <3>2, <3>3 DEF Agreed
    <2>6. ASSUME NEW k \in Labels, k # l, Given(e, k)
          PROVE  Agreed(e, k)'
      <3>1. Agreed(e, k) /\ l > k /\ labelRemote'[e][k] = labelRemote[e][k] /\ common'[e][k] = common[e][k]
        <4>1. Agreed(e, k)
          BY <1>1, <2>6 DEF SumsFor
        <4>2. ~(l < k)
          BY <2>2, <4>1 DEF Agreed
        <4> QED
          BY <1>4, <2>1, <2>2, <2>6, <4>1, <4>2
      <3>2. ASSUME \A j \in Labels : j > k /\ Given(e, j)' =>
                      Elements(labelRemote'[e][j]) \cap Elements(labelRemote'[e][k]) = {},
                   NEW m \in Elements(labelRemote'[e][k])
            PROVE  checksum'[e][m] = common'[e][k]
        <4>1. m \notin S
          BY <1>2, <2>2, <2>4, <3>1, <3>2
        <4>2. \A j \in Labels : j > k /\ Given(e, j) =>
                  Elements(labelRemote[e][j]) \cap Elements(labelRemote[e][k]) = {}
          BY <1>4, <2>2, <2>4, <3>1, <3>2
        <4>3. checksum[e][m] = common[e][k] /\ m \in DOMAIN checksum[e]
          BY <1>1, <2>6, <3>1, <3>2, <4>2 DEF Agreed, SumsFor
        <4> QED
          BY <1>5, <3>1, <4>1, <4>3
      <3> QED
        BY <1>1, <2>4, <3>1, <3>2 DEF Agreed
    <2>7. SumsFor(e)'
      <3>1. ASSUME NEW k \in Labels
            PROVE  Listed(labelRemote'[e][k]) /\ Elements(labelRemote'[e][k]) \subseteq DOMAIN checksum'[e]
        <4>1. k = l \/ labelRemote'[e][k] = labelRemote[e][k]
          BY <1>4
        <4>2. Listed(labelRemote[e][k]) /\ Elements(labelRemote[e][k]) \subseteq DOMAIN checksum[e]
          BY <1>1 DEF SumsFor
        <4> QED
          BY <1>2, <1>5, <2>3, <2>4, <4>1, <4>2
      <3>2. (\A k \in Labels : Listed(labelRemote[e][k]))'
        BY <3>1 DEF Listed
      <3>3. to = "run" => \A k \in Labels : Given(e, k)'
        BY <1>3, <2>1, <2>4
      <3>4. to = "checksums" => \E k \in Labels : ~Given(e, k)'
        BY <1>3, <2>1, <2>2, <2>4
      <3>5. \A m \in DOMAIN checksum'[e] : checksum'[e][m] \in Hardware
        BY <1>5
      <3>6. \A k \in Labels : Given(e, k)' => Agreed(e, k)'
        BY <2>4, <2>5, <2>6
      <3>7. (\A k \in Labels : Given(e, k) => Agreed(e, k))'
        BY <3>6
      <3>8. pc'[e] = to /\ to \in {"run", "checksums"}
        BY <1>4
      <3> QED
        BY <3>1, <3>2, <3>3, <3>4, <3>5, <3>7, <3>8 DEF SumsFor
    <2> QED
      BY <1>6, <2>7, SumsOfOthers
  <1> QED
    BY <1>7, <1>8

LEMMA SumsStep ==
    ASSUME SumsInv, NEW e \in Experiments, Step(e)
    PROVE  SumsInv'
  <1>0. SumTypes /\ pc[e] \in PcValues /\ pc = [pc EXCEPT ![e] = pc[e]]
    BY DEF SumsInv, SumTypes
  <1>1. ASSUME UNCHANGED <<labelRemote, common, checksum>>,
               \/ UNCHANGED pc
               \/ \E to \in PcValues \ {"add", "lock", "checksums", "run"} : pc' = [pc EXCEPT ![e] = to],
               \/ UNCHANGED remote
               \/ pc[e] \in LeaseSteps /\ \E v : remote' = [remote EXCEPT ![e] = v]
        PROVE  SumsInv'
    <2>1. PICK to \in PcValues : /\ pc' = [pc EXCEPT ![e] = to]
                                 /\ to = pc[e] \/ to \notin {"add", "lock", "checksums", "run"}
      BY <1>0, <1>1
    <2>2. /\ DOMAIN remote' = Experiments
          /\ \A f \in Experiments : remote'[f] = remote[f] \/ (f = e /\ pc[e] \in LeaseSteps)
      BY <1>0, <1>1 DEF SumTypes
    <2> QED
      BY <1>1, <2>1, <2>2, SumsFrame
  <1> USE DEF Goto, listVars, sumVars, cleanVars, lockVars
  <1>2. CASE RunsEnd(e) \/ Interrupt(e) \/ SetCheckSumRaises(e)
    <2>1. pc' = [pc EXCEPT ![e] = "clean pool"] /\ UNCHANGED <<labelRemote, common, checksum, remote>>
      BY <1>2 DEF RunsEnd, Interrupt, SetCheckSumRaises
    <2> QED
      BY <1>1, <2>1 DEF PcValues
  <1>3. CASE CleanPool(e)
    <2>1. PICK to \in {"unlock", "unlock at exit", "exit", "ended"} : pc' = [pc EXCEPT ![e] = to]
      BY <1>3 DEF CleanPool, AfterPool, AfterUnlock
    <2>2. UNCHANGED <<labelRemote, common, checksum, remote>>
      BY <1>3 DEF CleanPool
    <2> QED
      BY <1>1, <2>1, <2>2 DEF PcValues
  <1>4. CASE AllUnlocked(e)
    <2>1. PICK to \in {"exit", "ended"} : pc' = [pc EXCEPT ![e] = to]
      BY <1>4 DEF AllUnlocked, AfterUnlock
    <2>2. UNCHANGED <<labelRemote, common, checksum, remote>>
      BY <1>4 DEF AllUnlocked
    <2> QED
      BY <1>1, <2>1, <2>2 DEF PcValues
  <1>5. CASE LeaseFails(e) \/ RunWithLeases(e) \/ AutolockEnds(e)
    <2>1. PICK to \in {"abandon", "ended"} : pc' = [pc EXCEPT ![e] = to]
      BY <1>5 DEF LeaseFails, RunWithLeases, AutolockEnds
    <2>2. UNCHANGED <<labelRemote, common, checksum, remote>>
      BY <1>5 DEF LeaseFails, RunWithLeases, AutolockEnds
    <2> QED
      BY <1>1, <2>1, <2>2 DEF PcValues
  <1>6. CASE Abandon(e)
    <2>1. /\ pc[e] \in LeaseSteps /\ UNCHANGED <<labelRemote, common, checksum, pc>>
          /\ \E v : remote' = [remote EXCEPT ![e] = v]
      BY <1>6 DEF Abandon, LeaseSteps
    <2> QED
      BY <1>1, <2>1
  <1>7. ASSUME NEW m \in Machines, Lease(e, m)
        PROVE  SumsInv'
    <2>1. /\ pc[e] \in LeaseSteps /\ UNCHANGED <<labelRemote, common, checksum, pc>>
          /\ \E v : remote' = [remote EXCEPT ![e] = v]
      BY <1>7 DEF Lease, LeaseSteps
    <2> QED
      BY <1>1, <2>1
  <1>8. ASSUME NEW m \in Machines,
               LockOne(e, m) \/ TryToLockMachine(e, m) \/ RemoveMachine(e, m) \/ UnlockOne(e, m)
        PROVE  SumsInv'
    <2>1. UNCHANGED <<labelRemote, common, checksum, remote, pc>>
      BY <1>8 DEF LockOne, TryToLockMachine, RemoveMachine, UnlockOne
    <2> QED
      BY <1>1, <2>1
  <1>9. ASSUME NEW m \in Machines, LeaseUnknown(e, m)
        PROVE  SumsInv'
    <2>1. pc' = [pc EXCEPT ![e] = "abandon"] /\ UNCHANGED <<labelRemote, common, checksum, remote>>
      BY <1>9 DEF LeaseUnknown
    <2> QED
      BY <1>1, <2>1 DEF PcValues
  <1> QED
    BY <1>2, <1>3, <1>4, <1>5, <1>6, <1>7, <1>8, <1>9, AddSums, AllLockedSums, SetCheckSumSums DEF Step

\* When the runs start, every label has a machine that is the experiment's, and
\* its machines report the checksum of the label unless a later one has imaged
\* them: SetCheckSums goes through the labels in their order, and images the
\* machines of a label until they agree.
THEOREM LabelsAreReady == Spec => []EveryLabelIsReady
  <1>1. SumsInv /\ [Next]_vars => SumsInv'
    <2> SUFFICES ASSUME SumsInv, [Next]_vars
                 PROVE  SumsInv'
      OBVIOUS
    <2>1. CASE UNCHANGED vars
      <3>1. UNCHANGED <<pc, remote, labelRemote, common, checksum>>
        BY <2>1 DEF vars, listVars, sumVars
      <3> QED
        BY <3>1 DEF SumsInv, SumTypes, SumsFor, Agreed, Given, Listed
    <2> QED
      BY <2>1, SumsStep DEF Next, Ended
  <1>2. SumsInv => EveryLabelIsReady
    <2> SUFFICES ASSUME SumsInv, NEW e \in Crosperf, NEW l \in Labels, pc[e] = "run"
                 PROVE  /\ Elements(labelRemote[e][l]) \cap Elements(remote[e]) # {}
                        /\ Undisturbed(e, l) =>
                              \A m \in Elements(labelRemote[e][l]) : checksum[e][m] = common[e][l]
      BY DEF EveryLabelIsReady
    <2>1. Agreed(e, l)
      BY DEF SumsInv, SumsFor, Crosperf
    <2> QED
      BY <2>1 DEF Agreed, Undisturbed
  <1> QED
    BY <1>1, <1>2, SumsInit, PTL DEF Spec
=============================================================================
