---------------------------- MODULE MachineLocks -----------------------------
(***************************************************************************)
(* lock_machine.py: the locks that keep two experiments off one machine.   *)
(* A machine of the lab is leased from crosfleet, a local machine has a    *)
(* lock file.                                                              *)
(*                                                                         *)
(* Both know users, not processes, and the experiments here are of one     *)
(* user: an experiment can unlock what another one has locked.  Locking    *)
(* and unlocking are commands that may fail.                               *)
(***************************************************************************)
EXTENDS Naturals, Sequences, FiniteSets

CONSTANTS
    Experiments, \* processes of crosperf and of crosperf_autolock
    Machines,
    Crosfleet,   \* the machines in the lab
    None

ASSUME LocksAssumption == Crosfleet \subseteq Machines /\ None \notin Experiments

VARIABLES
    fileLock, \* fileLock[m]: who has the lock file of m
    lease     \* lease[m]: who has leased m

lockVars == <<fileLock, lease>>

Locks == [Machines -> Experiments \cup {None}]

InitLocks ==
    /\ fileLock = [m \in Machines |-> None]
    /\ lease = [m \in Machines |-> None]

\* Who keeps the others off m.
Holder(m) == IF m \in Crosfleet THEN lease[m] ELSE fileLock[m]

\* Whose lock file a process may (still) take.
Takeable(e, m) == fileLock[m] \in {None, e}

\* LeaseCrosfleetMachine and UpdateFileLock(True), when they succeed.
Lock(e, m) ==
    /\ Holder(m) = None
    /\ IF m \in Crosfleet
       THEN lease' = [lease EXCEPT ![m] = e] /\ UNCHANGED fileLock
       ELSE fileLock' = [fileLock EXCEPT ![m] = e] /\ UNCHANGED lease

\* Mutant: lock files are left to the machine manager.
UnlockLease(m) ==
    IF m \in Crosfleet
    THEN lease' = [lease EXCEPT ![m] = None] /\ UNCHANGED fileLock
    ELSE UNCHANGED <<fileLock, lease>>

\* ReleaseCrosfleetMachine and UpdateFileLock(False), when they succeed.
Unlock(m) ==
    IF m \in Crosfleet
    THEN lease' = [lease EXCEPT ![m] = None] /\ UNCHANGED fileLock
    ELSE fileLock' = [fileLock EXCEPT ![m] = None] /\ UNCHANGED lease

Elements(s) == {s[i] : i \in DOMAIN s}

\* The subsequence of s at the positions P.
Subsequence(s, P) ==
    LET Place(j) == CHOOSE i \in P : Cardinality({k \in P : k <= i}) = j
    IN  [j \in 1 .. Cardinality(P) |-> s[Place(j)]]

\* The elements of s that are in keep.
Filtered(s, keep) == Subsequence(s, {i \in DOMAIN s : s[i] \in keep})

\* What a loop that removes the elements that are not in keep from the very
\* list it iterates leaves: it passes over the successor of each one removed.
RemovedInLoop(s, keep) ==
    LET met[i \in Nat] == i = 1 \/ (i > 1 /\ ~(met[i - 1] /\ s[i - 1] \notin keep))
    IN  Subsequence(s, {i \in DOMAIN s : s[i] \in keep \/ ~met[i]})
=============================================================================
