--------------------------- MODULE LlvmBisection ----------------------------
(***************************************************************************)
(* auto_llvm_bisection.py: a loop that polls the tryjobs of the status     *)
(* file and runs llvm_bisection.main, which launches tryjobs for the       *)
(* revisions that are left, until the bad revision is known.  It may be    *)
(* interrupted, killed and started again.  At the same time the user may   *)
(* change the status file with update_tryjob_status.py and                 *)
(* modify_a_tryjob.py, each of which reads it, takes its time and writes   *)
(* all of it back.                                                         *)
(*                                                                         *)
(* A tryjob fails exactly when its revision is firstBad or a later one,    *)
(* and the user who says good or bad is right.  Writing a file is one      *)
(* step; a tryjob whose launch fails has not been launched.                *)
(***************************************************************************)
EXTENDS Integers, FiniteSets, FiniteSetsExt

CONSTANTS
    End,            \* --end_rev; --start_rev is 0
    Parallel,       \* --parallel
    Attempts,       \* BISECTION_ATTEMPTS
    MaxEdits,       \* bound on the changes by the user
    MaxRestarts     \* bound on the starts after the first one

ASSUME LlvmAssumption ==
    /\ End \in Nat \ {0} /\ Parallel \in Nat \ {0} /\ Attempts \in Nat \ {0}
    /\ MaxEdits \in Nat /\ MaxRestarts \in Nat

Revs == 1 .. (End - 1)

VARIABLES
    firstBad,   \* the first bad revision
    exists,     \* the status file exists
    file,       \* status of the tryjob of each revision in it, or "none"
    build,      \* what the builders have of each revision's latest tryjob
    auto,       \* auto_llvm_bisection: pc, the jobs in memory, todo, cur_try
    reported,   \* the bad revision it has printed, or 0
    user,       \* the change the user is making
    edits, restarts,
    raced       \* a change and a cycle overlapped, or a launch was not recorded

llvmVars == <<firstBad, exists, file, build, auto, reported, user, edits, restarts, raced>>

NoJobs == [r \in Revs |-> "none"]
\* The program when it starts; jobs and todo are like this whenever what they
\* held will not be read again.
Started == [pc |-> "read", jobs |-> NoJobs, todo |-> {}, try |-> 1]
NoChange == [op |-> "none", rev |-> 0, jobs |-> NoJobs]

Verdict(r) == IF r < firstBad THEN "good" ELSE "bad"

LlvmInit ==
    /\ firstBad \in 1 .. End
    /\ exists = FALSE /\ file = NoJobs
    /\ build = [r \in Revs |-> "none"]
    /\ auto = Started /\ reported = 0 /\ user = NoChange
    /\ edits = 0 /\ restarts = 0 /\ raced = FALSE

-----------------------------------------------------------------------------
(* llvm_bisection *)

Having(jobs, status) == {r \in Revs : jobs[r] = status}

GoodRev(jobs) == Max({0} \union Having(jobs, "good"))

BadRev(jobs) == Min({End} \union Having(jobs, "bad"))

\* The pending or the skipped revisions in the remaining range.
Within(jobs, status) ==
    {r \in Having(jobs, status) : GoodRev(jobs) < r /\ r < BadRev(jobs)}

\* GetCommitsBetween: every index_step-th revision of the range without those
\* pending or skipped.
RevisionsToLaunch(jobs) ==
    LET start == GoodRev(jobs) + 1
        step == Max({1, (BadRev(jobs) - start) \div (Parallel + 1)})
    IN  {r \in start .. (BadRev(jobs) - 1) : (r - start) % step = 0}
            \ (Within(jobs, "pending") \union Within(jobs, "skip"))

\* Mutant: the search is over although tryjobs of the range are pending.
RefusesRange(jobs, revisions) ==
    GoodRev(jobs) >= BadRev(jobs) \/ \E r \in revisions : jobs[r] # "none"

\* main and Bisect raise when the range is empty, when all that is left is
\* pending, and when a revision has a tryjob already.
Refuses(jobs, revisions) ==
    \/ GoodRev(jobs) >= BadRev(jobs)
    \/ revisions = {} /\ Within(jobs, "pending") # {}
    \/ \E r \in revisions : jobs[r] # "none"

-----------------------------------------------------------------------------
(* auto_llvm_bisection *)

\* Mutant: every attempt is the first one.
RaisedAgain(a) == [Started EXCEPT !.pc = "main"]

\* The attempt raises: another one after a pause, or the program exits.
Raised(a) ==
    IF a.try = Attempts THEN [Started EXCEPT !.pc = "failed"]
                        ELSE [Started EXCEPT !.pc = "main", !.try = a.try + 1]

Read ==
    /\ auto.pc = "read"
    /\ auto' = [auto EXCEPT !.jobs = file, !.try = 1, !.pc = IF exists THEN "poll" ELSE "main"]
    /\ UNCHANGED <<firstBad, exists, file, build, reported, user, edits, restarts, raced>>

\* One round over the pending tryjobs.  A running build counts as an answer,
\* and its answer is pending.
Poll ==
    LET pending == Having(auto.jobs, "pending")
        answered == {r \in pending : build[r] # "waiting"}
    IN  /\ auto.pc = "poll"
        /\ auto' = [auto EXCEPT
                      !.jobs = [r \in Revs |->
                          IF r \in pending /\ build[r] = "ended" THEN Verdict(r) ELSE @[r]],
                      !.pc = IF answered = pending THEN "save" ELSE "poll"]
        /\ UNCHANGED <<firstBad, exists, file, build, reported, user, edits, restarts, raced>>

\* POLLING_LIMIT_SECS is over, or the builders cannot be asked.
PollFails ==
    /\ auto.pc = "poll" /\ Having(auto.jobs, "pending") # {}
    /\ auto' = [Started EXCEPT !.pc = "failed"]
    /\ UNCHANGED <<firstBad, exists, file, build, reported, user, edits, restarts, raced>>

Save ==
    /\ auto.pc = "save"
    /\ file' = auto.jobs
    /\ auto' = [Started EXCEPT !.pc = "main"]
    /\ UNCHANGED <<firstBad, exists, build, reported, user, edits, restarts, raced>>

\* llvm_bisection.main up to the first tryjob of Bisect.
Main ==
    LET revisions == RevisionsToLaunch(file)
    IN  /\ auto.pc = "main"
        /\ \/ /\ Refuses(file, revisions)
              /\ auto' = Raised(auto) /\ UNCHANGED reported
           \/ /\ ~ Refuses(file, revisions) /\ revisions = {}
              /\ auto' = [Started EXCEPT !.pc = "done"] /\ reported' = BadRev(file)
           \/ /\ ~ Refuses(file, revisions) /\ revisions # {}
              /\ auto' = [auto EXCEPT !.pc = "add", !.jobs = file, !.todo = revisions]
              /\ UNCHANGED reported
        /\ UNCHANGED <<firstBad, exists, file, build, user, edits, restarts, raced>>

AddTryjob ==
    LET r == Min(auto.todo)
    IN  /\ auto.pc = "add" /\ auto.todo # {}
        /\ build' = [build EXCEPT ![r] = "waiting"]
        /\ auto' = [auto EXCEPT !.jobs[r] = "pending", !.todo = @ \ {r}]
        /\ UNCHANGED <<firstBad, exists, file, reported, user, edits, restarts, raced>>

\* Mutant: an exception loses the tryjobs that have been launched.
RecordWhenComplete ==
    IF auto.todo = {} THEN file' = auto.jobs /\ exists' = TRUE ELSE UNCHANGED <<file, exists>>

\* "Do not want to lose progress if there is an exception."
RecordJobs == file' = auto.jobs /\ exists' = TRUE

BisectEnds ==
    /\ auto.pc = "add" /\ auto.todo = {}
    /\ RecordJobs
    /\ auto' = Started
    /\ UNCHANGED <<firstBad, build, reported, user, edits, restarts, raced>>

BisectRaises ==
    /\ auto.pc = "add" /\ auto.todo # {}
    /\ RecordJobs
    /\ auto' = Raised(auto)
    /\ UNCHANGED <<firstBad, build, reported, user, edits, restarts, raced>>

\* The repository or the network is not there.
MainRaises ==
    /\ auto.pc = "main"
    /\ auto' = Raised(auto)
    /\ UNCHANGED <<firstBad, exists, file, build, reported, user, edits, restarts, raced>>

\* Ctrl-C is no Exception: nothing catches it, but the jobs are recorded.
Interrupt ==
    /\ auto.pc = "add" /\ restarts < MaxRestarts
    /\ RecordJobs
    /\ auto' = Started /\ restarts' = restarts + 1
    /\ UNCHANGED <<firstBad, build, reported, user, edits, raced>>

\* The program is killed, or has failed, and is started again.
Restart ==
    /\ auto.pc # "done" /\ restarts < MaxRestarts
    /\ auto' = Started /\ restarts' = restarts + 1
    /\ raced' = (raced \/ (auto.pc = "add" /\ auto.jobs # file))
    /\ UNCHANGED <<firstBad, exists, file, build, reported, user, edits>>

-----------------------------------------------------------------------------
(* update_tryjob_status, modify_a_tryjob, the builders *)

\* The status that a change gives to its tryjob, and whether it launches one.
Changed(op, r) ==
    CASE op = "update" -> {Verdict(r), "skip", "pending"}
      [] op = "remove" -> {"none"}
      [] op \in {"relaunch", "add"} -> {"pending"}

\* Only "add" is for a revision without a tryjob.
StartChange(op, r) ==
    /\ user.op = "none" /\ exists /\ edits < MaxEdits
    /\ (op = "add") <=> (file[r] = "none")
    /\ user' = [op |-> op, rev |-> r, jobs |-> file]
    /\ edits' = edits + 1
    /\ UNCHANGED <<firstBad, exists, file, build, auto, reported, restarts, raced>>

EndChange ==
    /\ user.op # "none"
    /\ \E status \in Changed(user.op, user.rev) :
          file' = [user.jobs EXCEPT ![user.rev] = status]
    /\ build' = IF user.op \in {"relaunch", "add"}
                THEN [build EXCEPT ![user.rev] = "waiting"] ELSE build
    /\ raced' = (raced \/ user.jobs # file \/ user.op = "remove"
                    \/ auto.pc \in {"poll", "save", "add"})
    /\ user' = NoChange
    /\ UNCHANGED <<firstBad, exists, auto, reported, edits, restarts>>

BuildRuns(r) ==
    /\ \/ build[r] = "waiting" /\ build' = [build EXCEPT ![r] = "running"]
       \/ build[r] = "running" /\ build' = [build EXCEPT ![r] = "ended"]
    /\ UNCHANGED <<firstBad, exists, file, auto, reported, user, edits, restarts, raced>>

\* The program has ended.
LlvmEnded == auto.pc \in {"done", "failed"} /\ UNCHANGED llvmVars

AutoCycle == Read \/ Poll \/ PollFails \/ Save \/ Main \/ MainRaises \/ AddTryjob \/ BisectEnds \/ BisectRaises

LlvmNext ==
    \/ AutoCycle \/ Interrupt \/ Restart \/ EndChange \/ LlvmEnded
    \/ \E r \in Revs : BuildRuns(r)
    \/ \E r \in Revs, op \in {"update", "remove", "relaunch", "add"} : StartChange(op, r)

LlvmSpec == LlvmInit /\ [][LlvmNext]_llvmVars /\ WF_llvmVars(AutoCycle)

-----------------------------------------------------------------------------
\* When a revision is reported it is the first bad one, unless revisions of the
\* remaining range are skipped; then the first bad one is at most the reported
\* one and above every good one.  This holds whatever updates of the status
\* file are lost, since each tryjob of the file keeps its own verdict.
ReportsFirstBad ==
    [][reported' # reported =>
          /\ GoodRev(file) < firstBad /\ firstBad <= reported'
          /\ Within(file, "skip") = {} => reported' = firstBad]_llvmVars

\* "The intent is to not launch tryjobs between 'good_rev' and 'bad_rev' that
\* have already been launched": no second tryjob for a revision, however many
\* attempts raise and whatever is interrupted, unless a change of the user
\* raced with a cycle or a kill came between a launch and its record.
NeverLaunchedTwice ==
    [][\A r \in Revs : r \in auto.todo \ auto'.todo /\ auto'.jobs[r] = "pending" /\ auto.jobs[r] = "none"
          => build[r] = "none" \/ raced]_llvmVars

\* The loop comes to its end, however slow the builders are: each cycle
\* launches a tryjob for a revision that had none, or fails.
AutoEnds == auto.pc # "read" ~> auto.pc \in {"done", "failed"}
=============================================================================
