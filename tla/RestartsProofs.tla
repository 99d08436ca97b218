--------------------------- MODULE RestartsProofs ---------------------------
(***************************************************************************)
(* Proofs about the tools that keep what they have done in a file: that    *)
(* afdo_prof_analysis goes by true answers, for any seeds, statuses and    *)
(* numbers of questions and analyses; and that the automatic bisection of  *)
(* LLVM reports the first bad revision and launches no tryjob twice, for   *)
(* any range of revisions; and that rust_uprev leaves the overlay it was   *)
(* asked for, for any number of versions and of invocations.               *)
(***************************************************************************)
EXTENDS AfdoDecider, LlvmBisection, RustUprev, SequenceTheorems, WellFoundedInduction,
        NaturalsInduction, TLAPS

-----------------------------------------------------------------------------
(* AfdoDecider: the answers are true *)

Answers == Seq(Statuses)

\* The decider and its file have their types; an analysis that does not run
\* has nothing left to replay.
AfdoTypes ==
    /\ decider \in [pc : {"off", "run", "done"}, seed : Seeds, saved : Answers,
                    accumulated : Answers, checks : Nat]
    /\ stateFile = NoFile \/ stateFile \in [seed : Seeds, accumulated : Answers]

AfdoInv == AfdoTypes /\ AnswersAreTrue

\* Truthful for what the decider says in t.
TruthfulIn(t, seed, answers) ==
    \A k \in 1 .. Len(answers) :
        LET question == <<seed, SubSeq(answers, 1, k - 1)>>
        IN  question \in DOMAIN t /\ t[question] = answers[k]

LEMMA TruthfulNow ==
    /\ AnswersAreTrue <=>
          /\ TruthfulIn(truth, decider.seed, decider.accumulated \o decider.saved)
          /\ stateFile # NoFile => TruthfulIn(truth, stateFile.seed, stateFile.accumulated)
    /\ AnswersAreTrue' <=>
          /\ TruthfulIn(truth', decider'.seed, decider'.accumulated \o decider'.saved)
          /\ stateFile' # NoFile => TruthfulIn(truth', stateFile'.seed, stateFile'.accumulated)
  BY DEF AnswersAreTrue, Truthful, TruthfulIn

\* The answers that have been given so far are true when all the answers are.
LEMMA TruePrefix ==
    ASSUME NEW t, NEW seed, NEW a \in Answers, NEW b \in Answers,
           TruthfulIn(t, seed, a \o b)
    PROVE  TruthfulIn(t, seed, a)
  <1> SUFFICES ASSUME NEW k \in 1 .. Len(a)
               PROVE  /\ <<seed, SubSeq(a, 1, k - 1)>> \in DOMAIN t
                      /\ t[<<seed, SubSeq(a, 1, k - 1)>>] = a[k]
    BY DEF TruthfulIn
  <1>1. Len(a) \in Nat /\ Len(b) \in Nat
    BY LenProperties DEF Answers
  <1>2. k \in 1 .. Len(a \o b) /\ (a \o b)[k] = a[k]
    BY <1>1, ConcatProperties DEF Answers
  <1>3. SubSeq(a \o b, 1, k - 1) = SubSeq(a, 1, k - 1)
    <2>1. CASE k = 1
      BY <2>1, SubSeqEmpty
    <2>2. CASE k # 1
      BY <2>2, <1>1, SubSeqOfConcat1 DEF Answers
    <2> QED
      BY <2>1, <2>2
  <1> QED
    BY <1>2, <1>3 DEF TruthfulIn

\* One more answer to the question that comes next is true.
LEMMA TrueAppend ==
    ASSUME NEW t, NEW seed, NEW a \in Answers, NEW status \in Statuses,
           TruthfulIn(t, seed, a), <<seed, a>> \in DOMAIN t, t[<<seed, a>>] = status
    PROVE  TruthfulIn(t, seed, Append(a, status))
  <1> DEFINE b == Append(a, status)
  <1> SUFFICES ASSUME NEW k \in 1 .. Len(b)
               PROVE  /\ <<seed, SubSeq(b, 1, k - 1)>> \in DOMAIN t
                      /\ t[<<seed, SubSeq(b, 1, k - 1)>>] = b[k]
    BY DEF TruthfulIn
  <1>1. Len(a) \in Nat /\ Len(b) = Len(a) + 1 /\ b = a \o <<status>>
    BY LenProperties, AppendProperties, AppendIsConcat DEF Answers
  <1>2. CASE k = Len(b)
    <2>1. SubSeq(b, 1, k - 1) = a
      <3>1. \A i \in 1 .. Len(a) : b[i] = a[i] /\ b[i] \in Statuses
        BY AppendProperties, ElementOfSeq DEF Answers
      <3>2. /\ SubSeq(b, 1, Len(a)) \in Answers /\ Len(SubSeq(b, 1, Len(a))) = Len(a)
            /\ \A i \in 1 .. Len(a) : SubSeq(b, 1, Len(a))[i] = a[i]
        BY <1>1, <3>1, SubSeqProperties DEF Answers
      <3> QED
        BY <1>1, <1>2, <3>2, SeqEqual DEF Answers
    <2> QED
      BY <1>1, <1>2, <2>1, AppendProperties DEF Answers
  <1>3. CASE k # Len(b)
    <2>1. k \in 1 .. Len(a) /\ b[k] = a[k]
      BY <1>1, <1>3, AppendProperties DEF Answers
    <2>2. SubSeq(b, 1, k - 1) = SubSeq(a, 1, k - 1)
      BY <1>1, <2>1
    <2> QED
      BY <2>1, <2>2 DEF TruthfulIn
  <1> QED
    BY <1>2, <1>3

\* One answer moved from those to replay to those given changes nothing.
LEMMA ReplayedAnswers ==
    ASSUME NEW a \in Answers, NEW b \in Answers, b # <<>>
    PROVE  /\ Append(a, Head(b)) \in Answers /\ Tail(b) \in Answers
           /\ Append(a, Head(b)) \o Tail(b) = a \o b
  <1> USE DEF Answers
  <1> DEFINE c == Append(a, Head(b)) \o Tail(b)
  <1>1. Len(a) \in Nat /\ Len(b) \in Nat
    BY LenProperties
  <1>2. /\ Head(b) \in Statuses /\ Tail(b) \in Seq(Statuses) /\ Len(Tail(b)) = Len(b) - 1
        /\ \A i \in 1 .. Len(Tail(b)) : Tail(b)[i] = b[i + 1]
    BY HeadTailProperties
  <1>3. /\ Append(a, Head(b)) \in Seq(Statuses) /\ Len(Append(a, Head(b))) = Len(a) + 1
        /\ \A i \in 1 .. Len(a) : Append(a, Head(b))[i] = a[i]
        /\ Append(a, Head(b))[Len(a) + 1] = Head(b)
    BY <1>2, AppendProperties
  <1>4. c \in Seq(Statuses) /\ a \o b \in Seq(Statuses) /\ Len(c) = Len(a \o b)
    BY <1>1, <1>2, <1>3, ConcatProperties
  <1>5. ASSUME NEW i \in 1 .. Len(c) PROVE c[i] = (a \o b)[i]
    <2>1. c[i] = IF i <= Len(a) + 1 THEN Append(a, Head(b))[i] ELSE Tail(b)[i - (Len(a) + 1)]
      BY <1>1, <1>2, <1>3, <1>4, ConcatProperties
    <2>2. (a \o b)[i] = IF i <= Len(a) THEN a[i] ELSE b[i - Len(a)]
      BY <1>1, <1>4, ConcatProperties
    <2>3. Len(c) = Len(a) + Len(b) /\ b # <<>> /\ Head(b) = b[1]
      BY <1>1, <1>4, ConcatProperties
    <2> QED
      BY <1>1, <1>2, <1>3, <2>1, <2>2, <2>3
  <1> QED
    BY <1>2, <1>3, <1>4, <1>5, SeqEqual

\* True answers stay true when the decider gives one more.
LEMMA TruthGrows ==
    ASSUME NEW t, NEW u, NEW seed, NEW a, TruthfulIn(t, seed, a),
           DOMAIN t \subseteq DOMAIN u, \A q \in DOMAIN t : u[q] = t[q]
    PROVE  TruthfulIn(u, seed, a)
  BY DEF TruthfulIn

\* Without answers there is nothing untrue.
LEMMA NoAnswers ==
    /\ <<>> \in Answers
    /\ \A t, seed : TruthfulIn(t, seed, <<>> \o <<>>) /\ TruthfulIn(t, seed, <<>>)
  <1>1. <<>> \in Seq(Statuses) /\ Len(<<>>) = 0
    BY EmptySeq
  <1>2. <<>> \o <<>> = <<>>
    BY <1>1, ConcatEmptySeq
  <1> QED
    BY <1>1, <1>2 DEF Answers, TruthfulIn

LEMMA AfdoInitInv == AfdoInit => AfdoInv
  <1> SUFFICES ASSUME AfdoInit PROVE AfdoInv
    OBVIOUS
  <1>1. (CHOOSE s \in Seeds : TRUE) \in Seeds
    BY AfdoAssumption
  <1>2. AfdoTypes
    BY <1>1, NoAnswers DEF AfdoInit, AfdoTypes, Idle
  <1>3. AnswersAreTrue
    BY NoAnswers, TruthfulNow DEF AfdoInit, Idle
  <1> QED
    BY <1>2, <1>3 DEF AfdoInv

\* Every step of an analysis keeps the types and the truth of the answers.
LEMMA AfdoStepInv ==
    ASSUME AfdoInv, [AfdoNext]_afdoVars
    PROVE  AfdoInv'
  <1> DEFINE accumulated == decider.accumulated
             saved == decider.saved
             True(seed, answers) == TruthfulIn(truth, seed, answers)
  <1>0. /\ accumulated \in Answers /\ saved \in Answers /\ decider.seed \in Seeds
        /\ AfdoTypes /\ AnswersAreTrue
    BY DEF AfdoInv, AfdoTypes
  <1>t. /\ True(decider.seed, accumulated \o saved) /\ True(decider.seed, accumulated)
        /\ stateFile # NoFile => True(stateFile.seed, stateFile.accumulated)
    BY <1>0, TruePrefix, TruthfulNow
  <1>i. Idle \in [pc : {"off", "run", "done"}, seed : Seeds, saved : Answers,
                  accumulated : Answers, checks : Nat]
    <2>1. (CHOOSE s \in Seeds : TRUE) \in Seeds
      BY AfdoAssumption
    <2> QED
      BY <2>1, NoAnswers DEF Idle
  <1> HIDE DEF accumulated, saved, True
  <1>1. ASSUME NEW no_resume \in BOOLEAN, StartAnalysis(no_resume) PROVE AfdoInv'
    <2>1. PICK seed \in Seeds :
              LET loaded == IF no_resume THEN [seed |-> seed, saved |-> <<>>] ELSE LoadState(seed)
              IN  decider' = [Idle EXCEPT !.pc = "run", !.seed = loaded.seed, !.saved = loaded.saved]
      BY <1>1 DEF StartAnalysis
    <2> DEFINE loaded == IF no_resume THEN [seed |-> seed, saved |-> <<>>] ELSE LoadState(seed)
    <2>2. /\ loaded \in [seed : Seeds, saved : Answers]
          /\ loaded.saved = <<>> \/ True(loaded.seed, loaded.saved)
      BY <1>0, <1>t, NoAnswers DEF LoadState, AfdoTypes, True
    <2>3. truth' = truth /\ stateFile' = stateFile
      BY <1>1 DEF StartAnalysis
    <2>4. /\ decider' = [Idle EXCEPT !.pc = "run", !.seed = loaded.seed, !.saved = loaded.saved]
      BY <2>1
    <2> HIDE DEF loaded
    <2>5. /\ decider'.accumulated = <<>> /\ decider'.saved = loaded.saved
          /\ decider'.seed = loaded.seed /\ AfdoTypes'
      BY <1>0, <1>i, <2>2, <2>3, <2>4 DEF Idle, AfdoTypes
    <2>6. <<>> \o loaded.saved = loaded.saved
      BY <2>2, ConcatEmptySeq DEF Answers
    <2>7. True(loaded.seed, <<>> \o loaded.saved)
      BY <2>2, <2>6, NoAnswers DEF True
    <2> QED
      BY <1>t, <2>3, <2>5, <2>7, TruthfulNow DEF AfdoInv, True
  <1>2. CASE Check
    <2>1. /\ truth' = truth /\ stateFile' = [seed |-> decider.seed, accumulated |-> accumulated]
          /\ decider' = [decider EXCEPT !.checks = @ + 1]
      BY <1>2 DEF Check, SaveState, accumulated
    <2>2. AfdoTypes' /\ decider'.seed = decider.seed /\ decider'.saved = saved
          /\ decider'.accumulated = accumulated
      BY <1>0, <2>1 DEF AfdoTypes, saved, accumulated
    <2> QED
      BY <1>t, <2>1, <2>2, TruthfulNow DEF AfdoInv, True
  <1>3. CASE Replay
    <2> DEFINE next == Append(accumulated, Head(saved))
    <2>1. /\ truth' = truth /\ stateFile' = [seed |-> decider.seed, accumulated |-> next]
          /\ decider' = [decider EXCEPT !.saved = Tail(@), !.accumulated = next]
          /\ saved # <<>>
      BY <1>3 DEF Replay, SaveState, accumulated, saved
    <2>2. next \in Answers /\ Tail(saved) \in Answers /\ next \o Tail(saved) = accumulated \o saved
      BY <1>0, <2>1, ReplayedAnswers
    <2>3. True(decider.seed, next \o Tail(saved)) /\ True(decider.seed, next)
      BY <1>t, <2>2, TruePrefix DEF True
    <2> HIDE DEF next
    <2>4. AfdoTypes' /\ decider'.seed = decider.seed /\ decider'.saved = Tail(saved)
          /\ decider'.accumulated = next
      BY <1>0, <2>1, <2>2 DEF AfdoTypes, saved
    <2> QED
      BY <2>1, <2>3, <2>4, TruthfulNow DEF AfdoInv, True
  <1>4. CASE Ask
    <2> DEFINE question == <<decider.seed, accumulated>>
               next(status) == Append(accumulated, status)
    <2>1. PICK status \in Statuses :
              /\ question \in DOMAIN truth => truth[question] = status
              /\ truth' = [q \in DOMAIN truth \union {question} |->
                              IF q = question THEN status ELSE truth[q]]
              /\ decider' = [decider EXCEPT !.accumulated = next(status)]
              /\ stateFile' = [seed |-> decider.seed, accumulated |-> next(status)]
              /\ saved = <<>>
      BY <1>4 DEF Ask, SaveState, saved, accumulated
    <2>2. next(status) \in Answers /\ next(status) \o saved = next(status)
      BY <1>0, <2>1, AppendProperties, ConcatEmptySeq DEF Answers
    <2>3. /\ DOMAIN truth \subseteq DOMAIN truth' /\ question \in DOMAIN truth'
          /\ \A q \in DOMAIN truth : truth'[q] = truth[q]
          /\ truth'[question] = status
      BY <2>1
    <2>4. TruthfulIn(truth', decider.seed, accumulated)
      BY <1>t, <2>3, TruthGrows DEF True
    <2>5. TruthfulIn(truth', decider.seed, next(status))
      BY <1>0, <2>3, <2>4, TrueAppend
    <2> HIDE DEF next
    <2>6. AfdoTypes' /\ decider'.seed = decider.seed /\ decider'.saved = saved
          /\ decider'.accumulated = next(status)
      BY <1>0, <2>1, <2>2 DEF AfdoTypes, saved
    <2> QED
      BY <2>1, <2>2, <2>5, <2>6, TruthfulNow DEF AfdoInv
  <1>5. CASE Complete
    <2>1. /\ truth' = truth /\ stateFile' = NoFile /\ decider' = [decider EXCEPT !.pc = "done"]
      BY <1>5 DEF Complete
    <2>2. AfdoTypes' /\ decider'.seed = decider.seed /\ decider'.saved = saved
          /\ decider'.accumulated = accumulated
      BY <1>0, <2>1 DEF AfdoTypes, saved, accumulated
    <2> QED
      BY <1>t, <2>1, <2>2, TruthfulNow DEF AfdoInv, True
  <1>6. CASE Stop
    <2>1. truth' = truth /\ stateFile' = stateFile /\ decider' = Idle
      BY <1>6 DEF Stop
    <2>2. AfdoTypes' /\ decider'.saved = <<>> /\ decider'.accumulated = <<>>
      BY <1>0, <1>i, <2>1 DEF AfdoTypes, Idle
    <2> QED
      BY <1>t, <2>1, <2>2, NoAnswers, TruthfulNow DEF AfdoInv, True
  <1>7. CASE UNCHANGED afdoVars
    BY <1>7, <1>0, TruthfulNow DEF afdoVars, AfdoInv, AfdoTypes
  <1> QED
    BY <1>1, <1>2, <1>3, <1>4, <1>5, <1>6, <1>7 DEF AfdoNext, AfdoEnded

\* Through interruptions, resumptions and fresh starts an analysis goes only by
\* answers that the decider gave to the questions it asks (DeciderState.run,
\* save_state and load_state).
THEOREM TrueAnswers == AfdoSpec => []AnswersAreTrue
  <1>1. AfdoInv => AnswersAreTrue
    BY DEF AfdoInv
  <1> QED
    BY AfdoInitInv, AfdoStepInv, <1>1, PTL DEF AfdoSpec

-----------------------------------------------------------------------------
(* Least and greatest elements *)

LEMMA LeastNat ==
    ASSUME NEW T, T \subseteq Nat, T # {}
    PROVE  \E x \in T : \A y \in T : x <= y
  <1> DEFINE Less == {ss \in Nat \X Nat : ss[1] < ss[2]}
  <1>1. IsWellFoundedOn(Less, Nat)
    BY NatLessThanWellFounded DEF OpToRel
  <1>2. PICK x \in T : \A y \in T : ~ (<<y, x>> \in Less)
    BY <1>1, WFMin
  <1>3. \A y \in T : ~ (y < x)
    BY <1>2
  <1> QED
    BY <1>3

LEMMA MinIsLeast ==
    ASSUME NEW T, T \subseteq Nat, T # {}
    PROVE  Min(T) \in T /\ \A y \in T : Min(T) <= y
  BY LeastNat DEF Min

LEMMA MaxIsGreatest ==
    ASSUME NEW n \in Nat, NEW T, T \subseteq 0 .. n, T # {}
    PROVE  Max(T) \in T /\ \A y \in T : y <= Max(T)
  <1> DEFINE U == {n - x : x \in T}
  <1>1. U \subseteq Nat /\ U # {}
    <2>1. \A x \in T : n - x \in Nat
      OBVIOUS
    <2>2. PICK x \in T : TRUE
      OBVIOUS
    <2>3. n - x \in U
      BY <2>2
    <2> QED
      BY <2>1, <2>3
  <1>2. PICK u \in U : \A v \in U : u <= v
    BY <1>1, LeastNat
  <1>3. PICK x \in T : u = n - x
    BY <1>2
  <1>4. \A y \in T : x >= y
    <2> TAKE y \in T
    <2>1. n - y \in U
      OBVIOUS
    <2>2. n - x <= n - y
      BY <1>2, <1>3, <2>1
    <2> QED
      BY <2>2
  <1>5. Max(T) \in T /\ \A y \in T : Max(T) >= y
    BY <1>4 DEF Max
  <1> QED
    BY <1>5

-----------------------------------------------------------------------------
(* LlvmBisection *)

JobStatus == {"none", "pending", "skip", "good", "bad"}
Jobs == [Revs -> JobStatus]

LlvmTypes ==
    /\ firstBad \in 1 .. End /\ exists \in BOOLEAN /\ raced \in BOOLEAN
    /\ file \in Jobs
    /\ build \in [Revs -> {"none", "waiting", "running", "ended"}]
    /\ auto \in [pc : {"read", "poll", "save", "main", "add", "done", "failed"},
                 jobs : Jobs, todo : SUBSET Revs, try : Nat]
    /\ auto.pc # "add" => auto.todo = {}
    /\ user = NoChange \/ user \in [op : {"update", "remove", "relaunch", "add"},
                                    rev : Revs, jobs : Jobs]

\* A verdict that is written down is the verdict of its revision.
TrueVerdicts(jobs) ==
    \A r \in Revs : /\ jobs[r] = "good" => r < firstBad
                    /\ jobs[r] = "bad" => firstBad <= r

VerdictsAreTrue == TrueVerdicts(file) /\ TrueVerdicts(auto.jobs) /\ TrueVerdicts(user.jobs)

\* What has no tryjob in the status file has not been launched, except by the
\* cycle that is going on; unless something raced.
LaunchedIsRecorded ==
    ~ raced => \A r \in Revs :
        /\ auto.pc = "add" => (auto.jobs[r] = "none" => build[r] = "none")
        /\ auto.pc \in {"poll", "save"} => (auto.jobs[r] = "none" => build[r] = "none")
        /\ auto.pc # "add" => (file[r] = "none" => build[r] = "none")

LlvmInv == LlvmTypes /\ VerdictsAreTrue /\ LaunchedIsRecorded

LEMMA StartedType ==
    /\ NoJobs \in Jobs /\ TrueVerdicts(NoJobs)
    /\ Started.jobs = NoJobs /\ Started.todo = {} /\ Started.pc = "read"
    /\ Started \in [pc : {"read", "poll", "save", "main", "add", "done", "failed"},
                    jobs : Jobs, todo : SUBSET Revs, try : Nat]
  <1>1. NoJobs \in Jobs /\ TrueVerdicts(NoJobs)
    BY DEF NoJobs, Jobs, JobStatus, TrueVerdicts
  <1> QED
    BY <1>1 DEF Started

\* The good and the bad end of the remaining range.
LEMMA RangeEnds ==
    ASSUME NEW jobs \in Jobs
    PROVE  /\ GoodRev(jobs) \in 0 .. (End - 1)
           /\ GoodRev(jobs) = 0 \/ jobs[GoodRev(jobs)] = "good"
           /\ BadRev(jobs) \in 1 .. End
           /\ BadRev(jobs) = End \/ jobs[BadRev(jobs)] = "bad"
  <1>1. {0} \union Having(jobs, "good") \subseteq 0 .. (End - 1) /\ End \in Nat /\ End - 1 \in Nat
    BY LlvmAssumption DEF Having, Revs
  <1>2. {End} \union Having(jobs, "bad") \subseteq 1 .. End
    BY LlvmAssumption DEF Having, Revs
  <1>3. GoodRev(jobs) \in {0} \union Having(jobs, "good")
    BY <1>1, MaxIsGreatest DEF GoodRev
  <1>4. {End} \union Having(jobs, "bad") \subseteq Nat
    BY <1>2
  <1>5. BadRev(jobs) \in {End} \union Having(jobs, "bad")
    BY <1>4, MinIsLeast DEF BadRev
  <1> QED
    BY <1>1, <1>2, <1>3, <1>5 DEF Having

LEMMA LaunchesRevs ==
    ASSUME NEW jobs \in Jobs
    PROVE  RevisionsToLaunch(jobs) \subseteq Revs
  BY RangeEnds, LlvmAssumption DEF RevisionsToLaunch, Revs

\* When nothing is left to launch, and nothing pending or skipped, the range is
\* down to one revision: the step of GetCommitsBetween starts next to the good end.
LEMMA NothingLeft ==
    ASSUME NEW jobs \in Jobs, RevisionsToLaunch(jobs) = {},
           Within(jobs, "pending") = {}, Within(jobs, "skip") = {},
           GoodRev(jobs) < BadRev(jobs)
    PROVE  BadRev(jobs) = GoodRev(jobs) + 1
  <1> DEFINE start == GoodRev(jobs) + 1
             step == Max({1, (BadRev(jobs) - start) \div (Parallel + 1)})
  <1>1. GoodRev(jobs) \in Nat /\ BadRev(jobs) \in Nat /\ start \in Nat
    BY RangeEnds, LlvmAssumption
  <1>2. step \in Nat \ {0}
    <2>1. (BadRev(jobs) - start) \div (Parallel + 1) \in Nat
      BY <1>1, LlvmAssumption
    <2> DEFINE q == (BadRev(jobs) - start) \div (Parallel + 1)
    <2>2. {1, q} \subseteq 0 .. (q + 1) /\ q + 1 \in Nat
      BY <2>1
    <2> HIDE DEF q
    <2>3. Max({1, q}) \in {1, q} /\ 1 <= Max({1, q})
      BY <2>2, MaxIsGreatest
    <2>4. Max({1, q}) \in Nat \ {0}
      BY <2>1, <2>3 DEF q
    <2> QED
      BY <2>4 DEF q
  <1> HIDE DEF step
  <1>3. (start - start) % step = 0
    BY <1>1, <1>2
  <1>4. start \notin start .. (BadRev(jobs) - 1)
    BY <1>3 DEF RevisionsToLaunch, step
  <1> QED
    BY <1>1, <1>4

LEMMA LlvmInitInv == LlvmInit => LlvmInv
  <1> SUFFICES ASSUME LlvmInit PROVE LlvmInv
    OBVIOUS
  <1>1. LlvmTypes
    BY StartedType DEF LlvmInit, LlvmTypes
  <1>2. VerdictsAreTrue
    BY StartedType DEF LlvmInit, VerdictsAreTrue, Started, NoChange
  <1>3. LaunchedIsRecorded
    BY DEF LlvmInit, LaunchedIsRecorded, Started
  <1> QED
    BY <1>1, <1>2, <1>3 DEF LlvmInv

\* What a round of polling makes of the jobs in memory.
Polled(jobs) ==
    [r \in Revs |-> IF jobs[r] = "pending" /\ build[r] = "ended" THEN Verdict(r) ELSE jobs[r]]

LEMMA PolledJobs ==
    ASSUME NEW jobs \in Jobs, TrueVerdicts(jobs), firstBad \in 1 .. End
    PROVE  /\ Polled(jobs) \in Jobs /\ TrueVerdicts(Polled(jobs))
           /\ \A r \in Revs : Polled(jobs)[r] = "none" <=> jobs[r] = "none"
  BY DEF Polled, Jobs, JobStatus, TrueVerdicts, Verdict, Revs

\* The steps of auto_llvm_bisection, one kind after the other.
LEMMA AutoStep ==
    ASSUME LlvmInv, AutoCycle \/ Interrupt \/ Restart
    PROVE  LlvmInv'
  <1>0. /\ LlvmTypes /\ TrueVerdicts(file) /\ TrueVerdicts(auto.jobs) /\ TrueVerdicts(user.jobs)
        /\ firstBad \in 1 .. End /\ file \in Jobs /\ auto.jobs \in Jobs /\ auto.todo \subseteq Revs
        /\ auto \in [pc : {"read", "poll", "save", "main", "add", "done", "failed"},
                    jobs : Jobs, todo : SUBSET Revs, try : Nat]
        /\ LaunchedIsRecorded
        /\ build \in [Revs -> {"none", "waiting", "running", "ended"}]
        /\ exists \in BOOLEAN /\ raced \in BOOLEAN
    BY DEF LlvmInv, LlvmTypes, VerdictsAreTrue
  <1> DEFINE AutoRecord == [pc : {"read", "poll", "save", "main", "add", "done", "failed"},
                            jobs : Jobs, todo : SUBSET Revs, try : Nat]
  \* The program starts anew, or another attempt, with what the file holds.
  <1>1. ASSUME auto'.pc \in {"read", "main", "done", "failed"}, auto'.jobs = NoJobs,
               auto'.todo = {}, auto' \in AutoRecord, firstBad' = firstBad, user' = user, build' = build,
               exists' \in BOOLEAN, raced' \in BOOLEAN, raced => raced',
               \/ file' = file
               \/ file' = auto.jobs /\ auto.pc \in {"save", "add"},
               ~ raced' /\ auto.pc = "add" => file' = auto.jobs
        PROVE  LlvmInv'
    <2>1. file' \in Jobs /\ TrueVerdicts(file)'
      BY <1>0, <1>1 DEF TrueVerdicts
    <2>2. LlvmTypes'
      BY <1>0, <1>1, <2>1 DEF LlvmTypes
    <2>3. VerdictsAreTrue'
      BY <1>0, <1>1, <2>1, StartedType DEF VerdictsAreTrue, TrueVerdicts
    <2>4. LaunchedIsRecorded'
      BY <1>0, <1>1 DEF LaunchedIsRecorded
    <2> QED
      BY <2>2, <2>3, <2>4 DEF LlvmInv
  <1>2. Started.jobs = NoJobs /\ Started.todo = {} /\ Started \in AutoRecord /\ Started.pc = "read"
    BY StartedType
  <1>3. /\ Raised(auto) \in AutoRecord /\ Raised(auto).jobs = NoJobs
        /\ Raised(auto).todo = {} /\ Raised(auto).pc \in {"main", "failed"}
    <2>1. CASE auto.try = Attempts
      BY <1>2, <2>1 DEF Raised
    <2>2. CASE auto.try # Attempts
      <3>1. Raised(auto) = [Started EXCEPT !.pc = "main", !.try = auto.try + 1]
        BY <2>2 DEF Raised
      <3>2. auto.try + 1 \in Nat
        BY <1>0
      <3> QED
        BY <1>2, <3>1, <3>2
    <2> QED
      BY <2>1, <2>2
  <1>4. CASE Read
    <2>1. /\ auto' = [auto EXCEPT !.jobs = file, !.try = 1,
                                  !.pc = IF exists THEN "poll" ELSE "main"]
          /\ auto.pc = "read"
          /\ UNCHANGED <<firstBad, exists, file, build, user, raced>>
      BY <1>4 DEF Read
    <2>2. /\ auto' \in AutoRecord /\ auto'.jobs = file /\ auto'.pc \in {"poll", "main"}
          /\ auto'.todo = {}
      BY <1>0, <2>1 DEF LlvmTypes
    <2>3. LlvmTypes' /\ VerdictsAreTrue'
      BY <1>0, <2>1, <2>2 DEF LlvmTypes, VerdictsAreTrue, TrueVerdicts
    <2>4. LaunchedIsRecorded'
      BY <1>0, <2>1, <2>2 DEF LaunchedIsRecorded
    <2> QED
      BY <2>3, <2>4 DEF LlvmInv
  <1>5. CASE Poll
    <2>1. /\ auto' = [auto EXCEPT !.jobs = Polled(auto.jobs),
                  !.pc = IF {r \in Having(auto.jobs, "pending") : build[r] # "waiting"}
                              = Having(auto.jobs, "pending") THEN "save" ELSE "poll"]
          /\ auto.pc = "poll"
          /\ UNCHANGED <<firstBad, exists, file, build, user, raced>>
      BY <1>5 DEF Poll, Polled, Having
    <2>2. Polled(auto.jobs) \in Jobs /\ TrueVerdicts(Polled(auto.jobs))
          /\ \A r \in Revs : Polled(auto.jobs)[r] = "none" <=> auto.jobs[r] = "none"
      BY <1>0, PolledJobs
    <2>3. /\ auto' \in AutoRecord /\ auto'.jobs = Polled(auto.jobs)
          /\ auto'.pc \in {"poll", "save"} /\ auto'.todo = {}
      BY <1>0, <2>1, <2>2 DEF LlvmTypes
    <2>4. LlvmTypes' /\ VerdictsAreTrue'
      BY <1>0, <2>1, <2>2, <2>3 DEF LlvmTypes, VerdictsAreTrue, TrueVerdicts
    <2>5. LaunchedIsRecorded'
      BY <1>0, <2>1, <2>2, <2>3 DEF LaunchedIsRecorded
    <2> QED
      BY <2>4, <2>5 DEF LlvmInv
  <1>6. CASE PollFails
    <2>1. /\ auto' = [Started EXCEPT !.pc = "failed"] /\ auto.pc = "poll"
          /\ UNCHANGED <<firstBad, exists, file, build, user, raced>>
      BY <1>6 DEF PollFails
    <2>2. auto' \in AutoRecord /\ auto'.jobs = NoJobs /\ auto'.todo = {} /\ auto'.pc = "failed"
      BY <1>2, <2>1 DEF Started
    <2> QED
      BY <1>0, <1>1, <2>1, <2>2
  <1>7. CASE Save
    <2>1. /\ auto' = [Started EXCEPT !.pc = "main"] /\ auto.pc = "save" /\ file' = auto.jobs
          /\ UNCHANGED <<firstBad, exists, build, user, raced>>
      BY <1>7 DEF Save
    <2>2. auto' \in AutoRecord /\ auto'.jobs = NoJobs /\ auto'.todo = {} /\ auto'.pc = "main"
      BY <1>2, <2>1 DEF Started
    <2> QED
      BY <1>0, <1>1, <2>1, <2>2
  <1>8. CASE Main
    <2>1. auto.pc = "main" /\ UNCHANGED <<firstBad, exists, file, build, user, raced>>
      BY <1>8 DEF Main
    <2>2. CASE auto' = Raised(auto) \/ auto' = [Started EXCEPT !.pc = "done"]
      <3>1. /\ auto' \in AutoRecord /\ auto'.jobs = NoJobs
            /\ auto'.todo = {} /\ auto'.pc \in {"main", "failed", "done"}
        BY <1>2, <1>3, <2>2 DEF Started
      <3> QED
        BY <1>0, <1>1, <2>1, <3>1
    <2>3. CASE auto' = [auto EXCEPT !.pc = "add", !.jobs = file, !.todo = RevisionsToLaunch(file)]
      <3>1. auto' \in AutoRecord /\ auto'.jobs = file /\ auto'.pc = "add"
        BY <1>0, <2>3, LaunchesRevs DEF LlvmTypes
      <3>2. LlvmTypes' /\ VerdictsAreTrue'
        BY <1>0, <2>1, <3>1 DEF LlvmTypes, VerdictsAreTrue, TrueVerdicts
      <3>3. LaunchedIsRecorded'
        BY <1>0, <2>1, <3>1 DEF LaunchedIsRecorded
      <3> QED
        BY <3>2, <3>3 DEF LlvmInv
    <2> QED
      BY <1>8, <2>2, <2>3 DEF Main
  <1>9. CASE MainRaises
    <2>1. /\ auto' = Raised(auto) /\ auto.pc = "main"
          /\ UNCHANGED <<firstBad, exists, file, build, user, raced>>
      BY <1>9 DEF MainRaises
    <2> QED
      BY <1>0, <1>1, <1>3, <2>1
  <1>10. CASE AddTryjob
    <2> DEFINE r == Min(auto.todo)
    <2>1. /\ auto.pc = "add"
          /\ build' = [build EXCEPT ![r] = "waiting"]
          /\ auto' = [auto EXCEPT !.jobs[r] = "pending", !.todo = @ \ {r}]
          /\ UNCHANGED <<firstBad, exists, file, user, raced>>
      BY <1>10 DEF AddTryjob
    <2>2. r \in Revs
      <3>1. Revs \subseteq Nat
        BY LlvmAssumption DEF Revs
      <3>2. auto.todo \subseteq Nat /\ auto.todo # {}
        BY <1>0, <1>10, <3>1 DEF AddTryjob
      <3>3. r \in auto.todo
        BY <3>2, MinIsLeast
      <3> QED
        BY <1>0, <3>3
    <2> HIDE DEF r
    <2>3. /\ auto' \in AutoRecord /\ auto'.pc = "add"
          /\ auto'.jobs = [auto.jobs EXCEPT ![r] = "pending"]
      BY <1>0, <2>1, <2>2 DEF LlvmTypes, Jobs, JobStatus
    <2>4. LlvmTypes'
      BY <1>0, <2>1, <2>2, <2>3 DEF LlvmTypes
    <2>5. VerdictsAreTrue'
      BY <1>0, <2>1, <2>2, <2>3 DEF VerdictsAreTrue, TrueVerdicts, Jobs
    <2>6. LaunchedIsRecorded'
      BY <1>0, <2>1, <2>2, <2>3 DEF LaunchedIsRecorded, Jobs
    <2> QED
      BY <2>4, <2>5, <2>6 DEF LlvmInv
  <1>11. CASE BisectEnds
    <2>1. /\ auto' = Started /\ auto.pc = "add" /\ file' = auto.jobs /\ exists' = TRUE
          /\ UNCHANGED <<firstBad, build, user, raced>>
      BY <1>11 DEF BisectEnds, RecordJobs
    <2> QED
      BY <1>0, <1>1, <1>2, <2>1
  <1>12. CASE BisectRaises
    <2>1. /\ auto' = Raised(auto) /\ auto.pc = "add" /\ file' = auto.jobs /\ exists' = TRUE
          /\ UNCHANGED <<firstBad, build, user, raced>>
      BY <1>12 DEF BisectRaises, RecordJobs
    <2> QED
      BY <1>0, <1>1, <1>3, <2>1
  <1>13. CASE Interrupt
    <2>1. /\ auto' = Started /\ auto.pc = "add" /\ file' = auto.jobs /\ exists' = TRUE
          /\ UNCHANGED <<firstBad, build, user, raced>>
      BY <1>13 DEF Interrupt, RecordJobs
    <2> QED
      BY <1>0, <1>1, <1>2, <2>1
  <1>14. CASE Restart
    <2>1. /\ auto' = Started /\ UNCHANGED <<firstBad, exists, file, build, user>>
          /\ raced' = (raced \/ (auto.pc = "add" /\ auto.jobs # file))
      BY <1>14 DEF Restart
    <2>2. raced' \in BOOLEAN /\ (raced => raced')
          /\ (~ raced' /\ auto.pc = "add" => file' = auto.jobs)
      BY <1>0, <2>1
    <2> QED
      BY <1>0, <1>1, <1>2, <2>1, <2>2
  <1> QED
    BY <1>4, <1>5, <1>6, <1>7, <1>8, <1>9, <1>10, <1>11, <1>12, <1>13, <1>14 DEF AutoCycle

\* The changes of the user and the builders.
LEMMA UserStep ==
    ASSUME LlvmInv,
           \/ EndChange \/ LlvmEnded \/ UNCHANGED llvmVars
           \/ \E r \in Revs : BuildRuns(r)
           \/ \E r \in Revs, op \in {"update", "remove", "relaunch", "add"} : StartChange(op, r)
    PROVE  LlvmInv'
  <1>0. /\ LlvmTypes /\ TrueVerdicts(file) /\ TrueVerdicts(auto.jobs) /\ TrueVerdicts(user.jobs)
        /\ firstBad \in 1 .. End /\ file \in Jobs /\ LaunchedIsRecorded
        /\ build \in [Revs -> {"none", "waiting", "running", "ended"}]
        /\ raced \in BOOLEAN
    BY DEF LlvmInv, LlvmTypes, VerdictsAreTrue
  <1>1. ASSUME NEW r \in Revs, NEW op \in {"update", "remove", "relaunch", "add"},
               StartChange(op, r)
        PROVE  LlvmInv'
    <2>1. /\ user' = [op |-> op, rev |-> r, jobs |-> file]
          /\ UNCHANGED <<firstBad, exists, file, build, auto, raced>>
      BY <1>1 DEF StartChange
    <2>2. LlvmTypes' /\ VerdictsAreTrue'
      BY <1>0, <2>1 DEF LlvmTypes, VerdictsAreTrue, TrueVerdicts
    <2>3. LaunchedIsRecorded'
      BY <1>0, <2>1 DEF LaunchedIsRecorded
    <2> QED
      BY <2>2, <2>3 DEF LlvmInv
  <1>2. CASE EndChange
    <2> DEFINE rev == user.rev
    <2>1. /\ user \in [op : {"update", "remove", "relaunch", "add"}, rev : Revs, jobs : Jobs]
      BY <1>0, <1>2 DEF EndChange, LlvmTypes, NoChange
    <2>2. PICK status \in Changed(user.op, rev) : file' = [user.jobs EXCEPT ![rev] = status]
      BY <1>2 DEF EndChange
    <2>3. /\ build' = IF user.op \in {"relaunch", "add"}
                      THEN [build EXCEPT ![rev] = "waiting"] ELSE build
          /\ raced' = (raced \/ user.jobs # file \/ user.op = "remove"
                          \/ auto.pc \in {"poll", "save", "add"})
          /\ user' = NoChange /\ UNCHANGED <<firstBad, exists, auto>>
      BY <1>2 DEF EndChange
    <2>4. /\ status \in {Verdict(rev), "skip", "pending", "none"}
          /\ status = "none" => user.op = "remove"
      BY <2>1, <2>2 DEF Changed, Verdict
    <2>5. status \in JobStatus /\ file' \in Jobs /\ TrueVerdicts(file)'
      BY <1>0, <2>1, <2>2, <2>3, <2>4 DEF Verdict, JobStatus, Jobs, TrueVerdicts, Revs
    <2>6. build' \in [Revs -> {"none", "waiting", "running", "ended"}]
      BY <1>0, <2>1, <2>3
    <2>7. LlvmTypes'
      BY <1>0, <2>3, <2>5, <2>6 DEF LlvmTypes
    <2>8. VerdictsAreTrue'
      BY <1>0, <2>3, <2>5, StartedType DEF VerdictsAreTrue, TrueVerdicts, NoChange
    <2>9. LaunchedIsRecorded'
      <3> SUFFICES ASSUME ~ raced', NEW r \in Revs, file'[r] = "none"
                   PROVE  build'[r] = "none"
        BY <2>3 DEF LaunchedIsRecorded
      <3>1. ~ raced /\ user.jobs = file /\ user.op # "remove"
            /\ auto.pc \notin {"poll", "save", "add"}
        BY <2>3
      <3>2. r # rev /\ file[r] = "none"
        BY <2>1, <2>2, <2>4, <3>1 DEF Jobs
      <3> QED
        BY <1>0, <2>1, <2>3, <3>1, <3>2 DEF LaunchedIsRecorded
    <2> QED
      BY <2>7, <2>8, <2>9 DEF LlvmInv
  <1>3. ASSUME NEW r \in Revs, BuildRuns(r) PROVE LlvmInv'
    <2>1. /\ build[r] # "none"
          /\ \E b \in {"running", "ended"} : build' = [build EXCEPT ![r] = b]
          /\ UNCHANGED <<firstBad, exists, file, auto, user, raced>>
      BY <1>3 DEF BuildRuns
    <2>2. LlvmTypes' /\ VerdictsAreTrue'
      BY <1>0, <2>1 DEF LlvmTypes, VerdictsAreTrue, TrueVerdicts
    <2>3. LaunchedIsRecorded'
      BY <1>0, <2>1 DEF LaunchedIsRecorded
    <2> QED
      BY <2>2, <2>3 DEF LlvmInv
  <1>4. CASE LlvmEnded \/ UNCHANGED llvmVars
    <2>1. UNCHANGED llvmVars
      BY <1>4 DEF LlvmEnded
    <2> QED
      BY <1>0, <2>1 DEF llvmVars, LlvmInv, LlvmTypes, VerdictsAreTrue, TrueVerdicts,
                        LaunchedIsRecorded
  <1> QED
    BY <1>1, <1>2, <1>3, <1>4

LEMMA LlvmInvariance == LlvmSpec => []LlvmInv
  <1>1. LlvmInv /\ [LlvmNext]_llvmVars => LlvmInv'
    BY AutoStep, UserStep DEF LlvmNext
  <1> QED
    BY LlvmInitInv, <1>1, PTL DEF LlvmSpec

\* Whatever is lost and whoever interrupts, the revision that the loop prints
\* is the first bad one, or skipped revisions stand between the two
\* (llvm_bisection.main, GetRemainingRange and GetCommitsBetween).
THEOREM FirstBadReported == LlvmSpec => ReportsFirstBad
  <1> DEFINE Right == reported' # reported =>
                /\ GoodRev(file) < firstBad /\ firstBad <= reported'
                /\ Within(file, "skip") = {} => reported' = firstBad
  <1>1. LlvmInv /\ [LlvmNext]_llvmVars => [Right]_llvmVars
    <2> SUFFICES ASSUME LlvmInv, LlvmNext, reported' # reported PROVE Right
      BY DEF llvmVars
    <2>1. Main
      BY DEF LlvmNext, AutoCycle, Read, Poll, PollFails, Save, MainRaises, AddTryjob, BisectEnds,
             BisectRaises, Interrupt, Restart, EndChange, LlvmEnded, BuildRuns, StartChange,
             llvmVars
    <2>2. /\ ~ Refuses(file, RevisionsToLaunch(file)) /\ RevisionsToLaunch(file) = {}
          /\ reported' = BadRev(file)
      BY <2>1 DEF Main
    <2>3. GoodRev(file) < BadRev(file) /\ Within(file, "pending") = {}
      <3>1. file \in Jobs
        BY DEF LlvmInv, LlvmTypes
      <3>2. GoodRev(file) \in Nat /\ BadRev(file) \in Nat
        BY <3>1, RangeEnds, LlvmAssumption
      <3> QED
        BY <2>2, <3>2 DEF Refuses
    <2>4. file \in Jobs /\ TrueVerdicts(file) /\ firstBad \in 1 .. End
      BY DEF LlvmInv, LlvmTypes, VerdictsAreTrue
    <2>5. GoodRev(file) < firstBad /\ firstBad <= BadRev(file)
      BY <2>4, RangeEnds, LlvmAssumption DEF TrueVerdicts, Revs
    <2>6. Within(file, "skip") = {} => BadRev(file) = firstBad
      <3>1. Within(file, "skip") = {} => BadRev(file) = GoodRev(file) + 1
        BY <2>2, <2>3, <2>4, NothingLeft
      <3> QED
        BY <2>4, <2>5, <3>1, RangeEnds, LlvmAssumption
    <2> QED
      BY <2>2, <2>5, <2>6
  <1> QED
    BY LlvmInvariance, <1>1, PTL DEF LlvmSpec, ReportsFirstBad

\* No revision gets a second tryjob, however many attempts raise and whatever
\* is interrupted, unless something raced (Bisect's finally clause).
THEOREM LaunchedOnce == LlvmSpec => NeverLaunchedTwice
  <1> DEFINE Once == \A r \in Revs :
                r \in auto.todo \ auto'.todo /\ auto'.jobs[r] = "pending" /\ auto.jobs[r] = "none"
                    => build[r] = "none" \/ raced
  <1>1. LlvmInv /\ [LlvmNext]_llvmVars => [Once]_llvmVars
    <2> SUFFICES ASSUME LlvmInv, LlvmNext, NEW r \in Revs, r \in auto.todo \ auto'.todo,
                        auto'.jobs[r] = "pending", auto.jobs[r] = "none"
                 PROVE  build[r] = "none" \/ raced
      BY DEF llvmVars
    <2>1. auto \in [pc : {"read", "poll", "save", "main", "add", "done", "failed"},
                    jobs : Jobs, todo : SUBSET Revs, try : Nat]
      BY DEF LlvmInv, LlvmTypes
    <2>2. auto'.jobs # NoJobs /\ auto.pc = "add"
      BY DEF NoJobs, LlvmInv, LlvmTypes
    <2>3. Started.jobs = NoJobs /\ Raised(auto).jobs = NoJobs
      BY DEF Raised, Started
    <2>4. auto'.todo # auto.todo
      OBVIOUS
    <2>5. CASE Read \/ Poll \/ Save \/ PollFails
      BY <2>2, <2>5 DEF Read, Poll, Save, PollFails
    <2>6. CASE Main \/ MainRaises
      BY <2>2, <2>6 DEF Main, MainRaises
    <2>7. CASE AddTryjob
      BY <2>7 DEF AddTryjob, LlvmInv, LaunchedIsRecorded
    <2>8. CASE BisectEnds \/ BisectRaises \/ Interrupt \/ Restart
      BY <2>2, <2>3, <2>8 DEF BisectEnds, BisectRaises, Interrupt, Restart
    <2>9. CASE ~ AutoCycle /\ ~ Interrupt /\ ~ Restart
      BY <2>4, <2>9 DEF LlvmNext, EndChange, LlvmEnded, BuildRuns, StartChange, llvmVars
    <2> QED
      BY <2>5, <2>6, <2>7, <2>8, <2>9 DEF AutoCycle
  <1> QED
    BY LlvmInvariance, <1>1, PTL DEF LlvmSpec, NeverLaunchedTwice

-----------------------------------------------------------------------------
(* RustUprev: the order of the steps *)

Positions == 1 .. 21

LEMMA OrderDomain == DOMAIN Order = Positions
  BY DEF Order, Positions

\* Where each step is in the order.
LEMMA PlaceOfStep ==
    /\ Order[1] = "create new repo" /\ Order[2] = "build cross compiler"
    /\ Order[3] = "prepare uprev" /\ Order[4] = "mirror and fetch sources"
    /\ Order[5] = "update bootstrap version" /\ Order[6] = "turn off profile data"
    /\ Order[7] = "create rust-host ebuild" /\ Order[8] = "create rust ebuild"
    /\ Order[9] = "make profile data" /\ Order[10] = "turn on profile data"
    /\ Order[11] = "build packages" /\ Order[12] = "insert host version"
    /\ Order[13] = "insert target version" /\ Order[14] = "upgrade virtual/rust"
    /\ Order[15] = "find version to delete" /\ Order[16] = "remove rust-host ebuild"
    /\ Order[17] = "remove rust ebuild" /\ Order[18] = "remove target version"
    /\ Order[19] = "remove host version" /\ Order[20] = "remove virtual/rust"
    /\ Order[21] = "create CL"
  BY DEF Order

\* Every step has one place.
LEMMA NoStepTwice ==
    ASSUME NEW i \in Positions, NEW j \in Positions, Order[i] = Order[j]
    PROVE  i = j
  <1> DEFINE Place(x) ==
             IF x = "create new repo" THEN 1 ELSE IF x = "build cross compiler" THEN 2 ELSE
             IF x = "prepare uprev" THEN 3 ELSE
             IF x = "mirror and fetch sources" THEN 4 ELSE
             IF x = "update bootstrap version" THEN 5 ELSE
             IF x = "turn off profile data" THEN 6 ELSE
             IF x = "create rust-host ebuild" THEN 7 ELSE
             IF x = "create rust ebuild" THEN 8 ELSE IF x = "make profile data" THEN 9 ELSE
             IF x = "turn on profile data" THEN 10 ELSE
             IF x = "build packages" THEN 11 ELSE IF x = "insert host version" THEN 12 ELSE
             IF x = "insert target version" THEN 13 ELSE
             IF x = "upgrade virtual/rust" THEN 14 ELSE
             IF x = "find version to delete" THEN 15 ELSE
             IF x = "remove rust-host ebuild" THEN 16 ELSE
             IF x = "remove rust ebuild" THEN 17 ELSE
             IF x = "remove target version" THEN 18 ELSE
             IF x = "remove host version" THEN 19 ELSE
             IF x = "remove virtual/rust" THEN 20 ELSE 21
  <1>1. /\ Place(Order[1]) = 1 /\ Place(Order[2]) = 2 /\ Place(Order[3]) = 3 /\ Place(Order[4]) = 4
        /\ Place(Order[5]) = 5 /\ Place(Order[6]) = 6 /\ Place(Order[7]) = 7
    BY PlaceOfStep
  <1>2. /\ Place(Order[8]) = 8 /\ Place(Order[9]) = 9 /\ Place(Order[10]) = 10 /\ Place(Order[11]) = 11
        /\ Place(Order[12]) = 12 /\ Place(Order[13]) = 13 /\ Place(Order[14]) = 14
    BY PlaceOfStep
  <1>3. /\ Place(Order[15]) = 15 /\ Place(Order[16]) = 16 /\ Place(Order[17]) = 17 /\ Place(Order[18]) = 18
        /\ Place(Order[19]) = 19 /\ Place(Order[20]) = 20 /\ Place(Order[21]) = 21
    BY PlaceOfStep
  <1> HIDE DEF Place
  <1>4. ASSUME NEW k \in Positions PROVE Place(Order[k]) = k
    <2>1. k \in {1, 2, 3, 4, 5, 6, 7, 8, 9, 10, 11, 12, 13, 14, 15, 16, 17, 18, 19, 20, 21}
      BY DEF Positions
    <2> QED
      BY <1>1, <1>2, <1>3, <2>1
  <1> QED
    BY <1>4

\* The steps by name.
LEMMA StepSets ==
    /\ CreateSteps = {"mirror and fetch sources", "update bootstrap version", "turn off profile data",
                      "create rust-host ebuild", "create rust ebuild", "make profile data",
                      "turn on profile data", "build packages", "insert host version",
                      "insert target version", "upgrade virtual/rust"}
    /\ RemoveSteps = {"find version to delete", "remove rust-host ebuild", "remove rust ebuild",
                      "remove target version", "remove host version", "remove virtual/rust"}
  <1>1. \A i \in 4 .. 14 : i \in {4, 5, 6, 7, 8, 9, 10, 11, 12, 13, 14}
    OBVIOUS
  <1>2. \A i \in 15 .. 20 : i \in {15, 16, 17, 18, 19, 20}
    OBVIOUS
  <1>3. CreateSteps = {Order[4], Order[5], Order[6], Order[7], Order[8], Order[9], Order[10],
                       Order[11], Order[12], Order[13], Order[14]}
    BY <1>1 DEF CreateSteps
  <1>4. RemoveSteps = {Order[15], Order[16], Order[17], Order[18], Order[19], Order[20]}
    BY <1>2 DEF RemoveSteps
  <1> QED
    BY <1>3, <1>4, PlaceOfStep

\* perform_step comes to the first step that is not completed.
LEMMA FirstOfRemaining ==
    ASSUME NEW f, Remaining(f) # {}
    PROVE  \E k \in Remaining(f) : /\ NextStep(f) = Order[k]
                                   /\ \A j \in Remaining(f) : k <= j
  <1>1. Remaining(f) \subseteq Nat
    BY OrderDomain DEF Remaining, Positions
  <1>2. \E k \in Remaining(f) : \A j \in Remaining(f) : k <= j
    BY <1>1, LeastNat
  <1> QED
    BY <1>2 DEF NextStep

\* It is a step to do, and the command's earlier ones are done.
LEMMA EarlierIsCompleted ==
    ASSUME NEW f, Remaining(f) # {}
    PROVE  /\ NextStep(f) \in Steps(f) /\ NextStep(f) \notin DOMAIN f
           /\ \A i, j \in Positions :
                 i < j /\ Order[j] = NextStep(f) /\ Order[i] \in Steps(f) => Order[i] \in DOMAIN f
  <1>1. PICK k \in Remaining(f) : NextStep(f) = Order[k] /\ \A j \in Remaining(f) : k <= j
    BY FirstOfRemaining
  <1>2. k \in Positions /\ Order[k] \in Steps(f) /\ Order[k] \notin DOMAIN f
    BY <1>1, OrderDomain DEF Remaining
  <1>3. ASSUME NEW i \in Positions, NEW j \in Positions,
               i < j, Order[j] = NextStep(f), Order[i] \in Steps(f), Order[i] \notin DOMAIN f
        PROVE  FALSE
    <2>1. j = k
      BY <1>1, <1>2, <1>3, NoStepTwice
    <2>2. i \in Remaining(f)
      BY <1>3, OrderDomain DEF Remaining
    <2> QED
      BY <1>1, <1>3, <2>1, <2>2 DEF Positions
  <1> QED
    BY <1>1, <1>2, <1>3

-----------------------------------------------------------------------------
(* RustUprev: what has been recorded, and what has been done *)

\* The template that prepare_uprev records, 0 when the new version is not newer.
Prepared == IF uprev = NVersions + 1 THEN NVersions ELSE 0

\* The state file has steps of the command in their order, and the right
\* template and version to delete.
Recorded ==
    /\ DOMAIN completed \subseteq Steps(completed)
    /\ \A i, j \in Positions :
          i < j /\ Order[i] \in Steps(completed) /\ Order[j] \in DOMAIN completed
             => Order[i] \in DOMAIN completed
    /\ "prepare uprev" \in DOMAIN completed => completed["prepare uprev"] = Prepared
    /\ "find version to delete" \in DOMAIN completed => completed["find version to delete"] = 1

\* The versions after the steps done, of which add adds the new one, and remove
\* removes the oldest.
With(done, add, remove) ==
    (1 .. NVersions \union (IF add \in done THEN {uprev} ELSE {}))
        \ (IF remove \in done THEN {1} ELSE {})

Listed(t, p) == {v \in Versions : t.provided[p][v] > 0}

\* The overlay t is what the steps done make of it.
Agrees(t, done) ==
    /\ t.ebuilds["rust-host"] = With(done, "create rust-host ebuild", "remove rust-host ebuild")
    /\ t.ebuilds["rust"] = With(done, "create rust ebuild", "remove rust ebuild")
    /\ Listed(t, "rust-host") = With(done, "insert host version", "remove host version")
    /\ Listed(t, "rust") = With(done, "insert target version", "remove target version")
    /\ t.virtual = With(done, "upgrade virtual/rust", "remove virtual/rust")
    /\ t.profdata <=> ("turn off profile data" \in done => "turn on profile data" \in done)
    /\ "update bootstrap version" \in done => t.bootstrap = NVersions

\* The recorded steps and the one whose effect may have come before its record.
InFlight == DOMAIN completed \union {NextStep(completed)}

\* The tool has not been killed between an effect and its record.
Undisturbed == runs = 0 \/ (runs = 1 /\ uprevRun.pc \in {"run", "done"})

Effects ==
    \/ Agrees(tree, DOMAIN completed) /\ uprevRun.pc # "record"
    \/ Remaining(completed) # {} /\ Agrees(tree, InFlight) /\ ~Undisturbed

\* The running process has read the file, and has the template to prepare with.
Running ==
    /\ uprevRun.steps = completed /\ runs # 0
    /\ "prepare uprev" \notin DOMAIN completed => uprevRun.template = NVersions
    /\ uprevRun.pc = "record" =>
          /\ Remaining(completed) # {}
          /\ NextStep(completed) = "prepare uprev" => uprevRun.result = Prepared
          /\ NextStep(completed) = "find version to delete" => uprevRun.result = 1
    /\ uprevRun.pc = "done" => Remaining(completed) = {}

\* In its first run the tool inserts no line twice.
OneLineEach == runs <= 1 => \A p \in RustPackages, v \in Versions : tree.provided[p][v] <= 1

Trees == [ebuilds : [RustPackages -> SUBSET Versions], provided : [RustPackages -> [Versions -> Nat]],
          virtual : SUBSET Versions, bootstrap : Nat, profdata : BOOLEAN, dirty : BOOLEAN]

UprevTypes ==
    /\ command \in {"create", "remove", "roll"} /\ uprev \in Uprevs /\ tree \in Trees
    /\ runs \in Nat
    /\ uprevRun \in [pc : {"off", "run", "record", "done"}, steps : {uprevRun.steps},
                     template : Nat, result : Nat]

\* Nothing is claimed of an overlay on which --restart has been used.
UprevInv ==
    ~restarted => /\ UprevTypes /\ Recorded /\ Effects /\ OneLineEach
                  /\ uprevRun.pc # "off" => Running

\* What the step knows that comes next, or the steps that are recorded.
Sound(done) ==
    /\ \A step \in CreateSteps \cap done :
          /\ command # "remove" /\ "prepare uprev" \in done
    /\ \A step \in RemoveSteps \cap done :
          /\ command # "create" /\ "find version to delete" \in done
          /\ command # "remove" => "prepare uprev" \in done
    /\ "turn on profile data" \in done => "turn off profile data" \in done

\* Which commands have which steps.
LEMMA StepsOfCommand ==
    ASSUME command \in {"create", "remove", "roll"}, NEW step, step \in Steps(completed)
    PROVE  /\ step \in CreateSteps =>
                 /\ command # "remove" /\ "prepare uprev" \in Steps(completed)
                 /\ "prepare uprev" \in DOMAIN completed => completed["prepare uprev"] # 0
                 /\ CreateSteps \subseteq Steps(completed)
           /\ step \in RemoveSteps =>
                 /\ command # "create" /\ RemoveSteps \subseteq Steps(completed)
                 /\ command # "remove" => "prepare uprev" \in Steps(completed)
                 /\ command # "remove" /\ "prepare uprev" \in DOMAIN completed
                       /\ completed["prepare uprev"] # 0 => CreateSteps \subseteq Steps(completed)
  BY StepSets DEF Steps

\* The steps done are the first of the command's.
Closed(done) ==
    /\ done \subseteq Steps(completed)
    /\ \A i, j \in Positions :
          i < j /\ Order[i] \in Steps(completed) /\ Order[j] \in done => Order[i] \in done

LEMMA ClosedIsSound ==
    ASSUME NEW done, Closed(done), command \in {"create", "remove", "roll"}
    PROVE  /\ Sound(done)
           /\ \A step \in RemoveSteps \cap done :
                 "prepare uprev" \in DOMAIN completed /\ completed["prepare uprev"] # 0 /\ command # "remove"
                    => CreateSteps \subseteq done
  <1>1. ASSUME NEW step \in CreateSteps \cap done
        PROVE  command # "remove" /\ "prepare uprev" \in done
    <2>1. step \in Steps(completed) /\ "prepare uprev" \in Steps(completed) /\ command # "remove"
      BY StepsOfCommand DEF Closed
    <2>2. PICK j \in 4 .. 14 : Order[j] = step
      BY DEF CreateSteps
    <2>3. j \in Positions /\ 3 \in Positions /\ 3 < j
      BY DEF Positions
    <2> QED
      BY <2>1, <2>2, <2>3, PlaceOfStep DEF Closed
  <1>2. ASSUME NEW step \in RemoveSteps \cap done
        PROVE  /\ command # "create" /\ "find version to delete" \in done
               /\ command # "remove" => "prepare uprev" \in done
               /\ "prepare uprev" \in DOMAIN completed /\ completed["prepare uprev"] # 0 /\ command # "remove"
                     => CreateSteps \subseteq done
    <2>1. /\ step \in Steps(completed) /\ command # "create" /\ "find version to delete" \in Steps(completed)
          /\ command # "remove" => "prepare uprev" \in Steps(completed)
      BY StepsOfCommand, StepSets DEF Closed
    <2>2. PICK j \in 15 .. 20 : Order[j] = step
      BY DEF RemoveSteps
    <2>3. /\ j \in Positions /\ 3 \in Positions /\ 3 < j
          /\ 15 \in Positions /\ (j = 15 \/ 15 < j)
          /\ \A i \in 4 .. 14 : i \in Positions /\ i < j
      BY DEF Positions
    <2>4. command # "remove" /\ "prepare uprev" \in DOMAIN completed /\ completed["prepare uprev"] # 0
             => CreateSteps \subseteq Steps(completed)
      BY <2>1, StepsOfCommand DEF Closed
    <2>5. ASSUME command # "remove", "prepare uprev" \in DOMAIN completed, completed["prepare uprev"] # 0,
                 NEW other \in CreateSteps
          PROVE  other \in done
      <3>1. PICK i \in 4 .. 14 : Order[i] = other
        BY DEF CreateSteps
      <3> QED
        BY <2>2, <2>3, <2>4, <2>5, <3>1 DEF Closed
    <2>6. Order[3] = "prepare uprev" /\ Order[15] = "find version to delete"
      BY PlaceOfStep
    <2> QED
      BY <2>1, <2>2, <2>3, <2>5, <2>6 DEF Closed
  <1>3. ASSUME "turn on profile data" \in done PROVE "turn off profile data" \in done
    <2>1. "turn off profile data" \in Steps(completed)
      BY <1>3, StepsOfCommand, StepSets DEF Closed
    <2>2. 6 \in Positions /\ 10 \in Positions /\ 6 < 10
      BY DEF Positions
    <2> QED
      BY <1>3, <2>1, <2>2, PlaceOfStep DEF Closed
  <1> QED
    BY <1>1, <1>2, <1>3 DEF Sound

LEMMA RecordedIsClosed ==
    ASSUME Recorded
    PROVE  /\ Closed(DOMAIN completed)
           /\ Remaining(completed) # {} => Closed(InFlight)
  <1>1. Closed(DOMAIN completed)
    BY DEF Closed, Recorded
  <1>2. ASSUME Remaining(completed) # {} PROVE Closed(InFlight)
    BY <1>1, <1>2, EarlierIsCompleted DEF Closed, InFlight
  <1> QED
    BY <1>1, <1>2

\* The step that comes next has what it needs, and is the first of its kind.
LEMMA NextIsPrepared ==
    ASSUME UprevTypes, Recorded, Remaining(completed) # {}, NEW step, step = NextStep(completed)
    PROVE  /\ step \in Steps(completed) /\ step \notin DOMAIN completed
           /\ step \in CreateSteps =>
                 /\ "prepare uprev" \in DOMAIN completed
                 /\ completed["prepare uprev"] = NVersions /\ uprev = NVersions + 1
                 /\ RemoveSteps \cap DOMAIN completed = {}
           /\ step \in RemoveSteps \ {"find version to delete"} =>
                 "find version to delete" \in DOMAIN completed /\ completed["find version to delete"] = 1
           /\ step = "turn on profile data" => "turn off profile data" \in DOMAIN completed
           /\ step = "turn off profile data" => "turn on profile data" \notin DOMAIN completed
           /\ step = "find version to delete" => RemoveSteps \cap DOMAIN completed = {}
  <1>0. command \in {"create", "remove", "roll"}
    BY DEF UprevTypes
  <1>1. step \in Steps(completed) /\ step \notin DOMAIN completed
    BY EarlierIsCompleted
  <1>2. Sound(InFlight) /\ Sound(DOMAIN completed)
    BY <1>0, RecordedIsClosed, ClosedIsSound
  <1>3. ASSUME step \in CreateSteps
        PROVE  /\ "prepare uprev" \in DOMAIN completed
               /\ completed["prepare uprev"] = NVersions /\ uprev = NVersions + 1
               /\ RemoveSteps \cap DOMAIN completed = {}
    <2>1. step # "prepare uprev" /\ command # "remove" /\ "prepare uprev" \in InFlight
      BY <1>2, <1>3, StepSets DEF Sound, InFlight
    <2>2. "prepare uprev" \in DOMAIN completed
      BY <2>1 DEF InFlight
    <2>3. completed["prepare uprev"] # 0 /\ completed["prepare uprev"] = Prepared
      <3>1. completed["prepare uprev"] # 0
        BY <1>0, <1>1, <1>3, <2>2, StepsOfCommand
      <3> QED
        BY <2>2, <3>1 DEF Recorded
    <2>4. RemoveSteps \cap DOMAIN completed = {}
      <3> SUFFICES ASSUME NEW r \in RemoveSteps \cap DOMAIN completed PROVE FALSE
        OBVIOUS
      <3>1. command # "create"
        BY <1>2 DEF Sound
      <3>2. CreateSteps \subseteq DOMAIN completed
        BY <1>0, <2>1, <2>2, <2>3, <3>1, RecordedIsClosed, ClosedIsSound
      <3> QED
        BY <1>1, <1>3, <3>2
    <2> QED
      BY <2>2, <2>3, <2>4 DEF Prepared
  <1>4. step \in RemoveSteps \ {"find version to delete"} =>
           "find version to delete" \in DOMAIN completed /\ completed["find version to delete"] = 1
    BY <1>2 DEF Sound, InFlight, Recorded
  <1>5. /\ step = "turn on profile data" => "turn off profile data" \in DOMAIN completed
        /\ step = "turn off profile data" => "turn on profile data" \notin DOMAIN completed
        /\ step = "find version to delete" => RemoveSteps \cap DOMAIN completed = {}
    BY <1>1, <1>2 DEF Sound, InFlight
  <1> QED
    BY <1>1, <1>3, <1>4, <1>5

\* Effect, step by step.
LEMMA EffectOfStep ==
    /\ Effect("create new repo") \subseteq {tree}
    /\ Effect("prepare uprev") \subseteq {tree}
    /\ Effect("update bootstrap version") = {[tree EXCEPT !.bootstrap = Template, !.dirty = TRUE]}
    /\ Effect("turn off profile data") =
          IF tree.profdata THEN {[tree EXCEPT !.profdata = FALSE, !.dirty = TRUE]} ELSE {}
    /\ Effect("turn on profile data") =
          IF tree.profdata THEN {} ELSE {[tree EXCEPT !.profdata = TRUE, !.dirty = TRUE]}
    /\ Effect("create rust-host ebuild") = Created("rust-host")
    /\ Effect("create rust ebuild") = Created("rust")
    /\ Effect("insert host version") = Inserted("rust-host")
    /\ Effect("insert target version") = Inserted("rust")
    /\ Effect("upgrade virtual/rust") \subseteq
          {[tree EXCEPT !.virtual = @ \union {uprev}, !.dirty = TRUE]}
    /\ Effect("find version to delete") \subseteq {tree}
  BY DEF Effect

LEMMA EffectOfOtherStep ==
    /\ Effect("remove rust-host ebuild") =
          {[tree EXCEPT !.ebuilds["rust-host"] = @ \ {DeleteVersion}, !.dirty = TRUE]}
    /\ Effect("remove rust ebuild") =
          {[tree EXCEPT !.ebuilds["rust"] = @ \ {DeleteVersion}, !.dirty = TRUE]}
    /\ Effect("remove host version") = Removed("rust-host")
    /\ Effect("remove target version") = Removed("rust")
    /\ Effect("remove virtual/rust") =
          {[tree EXCEPT !.virtual = @ \ {DeleteVersion}, !.dirty = TRUE]}
    /\ Effect("create CL") \subseteq {[tree EXCEPT !.dirty = FALSE]}
    /\ Effect("build cross compiler") = {tree} /\ Effect("mirror and fetch sources") = {tree}
    /\ Effect("make profile data") = {tree} /\ Effect("build packages") = {tree}
  BY DEF Effect

\* The versions after a step, when they were S before.
After(S, step, add, remove) ==
    (S \union (IF step = add THEN {uprev} ELSE {})) \ (IF step = remove THEN {1} ELSE {})

\* The overlay t is the one that step leaves, as far as anybody asks.
Leaves(step, t) ==
    /\ t.ebuilds["rust-host"] = After(tree.ebuilds["rust-host"], step,
                                     "create rust-host ebuild", "remove rust-host ebuild")
    /\ t.ebuilds["rust"] = After(tree.ebuilds["rust"], step, "create rust ebuild", "remove rust ebuild")
    /\ Listed(t, "rust-host") = After(Listed(tree, "rust-host"), step,
                                     "insert host version", "remove host version")
    /\ Listed(t, "rust") = After(Listed(tree, "rust"), step,
                                "insert target version", "remove target version")
    /\ t.virtual = After(tree.virtual, step, "upgrade virtual/rust", "remove virtual/rust")
    /\ t.profdata <=> \/ step = "turn on profile data"
                      \/ tree.profdata /\ step # "turn off profile data"
    /\ t.bootstrap = IF step = "update bootstrap version" THEN NVersions ELSE tree.bootstrap

\* A step that is done again changes nothing more.
LEMMA AgreesAfter ==
    ASSUME NEW done, NEW t, NEW step, Agrees(tree, done), Leaves(step, t),
           step \in CreateSteps => uprev # 1,
           step = "turn off profile data" => "turn on profile data" \notin done
    PROVE  Agrees(t, done \union {step})
  <1>1. t.ebuilds["rust-host"]
           = With(done \union {step}, "create rust-host ebuild", "remove rust-host ebuild")
    <2>1. tree.ebuilds["rust-host"] = With(done, "create rust-host ebuild", "remove rust-host ebuild")
      BY DEF Agrees
    <2>2. t.ebuilds["rust-host"] = After(tree.ebuilds["rust-host"], step,
                                         "create rust-host ebuild", "remove rust-host ebuild")
      BY DEF Leaves
    <2> QED
      BY <2>1, <2>2, StepSets DEF With, After
  <1>4. t.ebuilds["rust"] = With(done \union {step}, "create rust ebuild", "remove rust ebuild")
    <2>1. tree.ebuilds["rust"] = With(done, "create rust ebuild", "remove rust ebuild")
      BY DEF Agrees
    <2>2. t.ebuilds["rust"] = After(tree.ebuilds["rust"], step, "create rust ebuild", "remove rust ebuild")
      BY DEF Leaves
    <2> QED
      BY <2>1, <2>2, StepSets DEF With, After
  <1>5. Listed(t, "rust-host") = With(done \union {step}, "insert host version", "remove host version")
    <2>1. Listed(tree, "rust-host") = With(done, "insert host version", "remove host version")
      BY DEF Agrees
    <2>2. Listed(t, "rust-host") = After(Listed(tree, "rust-host"), step,
                                         "insert host version", "remove host version")
      BY DEF Leaves
    <2> QED
      BY <2>1, <2>2, StepSets DEF With, After
  <1>6. Listed(t, "rust") = With(done \union {step}, "insert target version", "remove target version")
    <2>1. Listed(tree, "rust") = With(done, "insert target version", "remove target version")
      BY DEF Agrees
    <2>2. Listed(t, "rust") = After(Listed(tree, "rust"), step,
                                    "insert target version", "remove target version")
      BY DEF Leaves
    <2> QED
      BY <2>1, <2>2, StepSets DEF With, After
  <1>7. t.virtual = With(done \union {step}, "upgrade virtual/rust", "remove virtual/rust")
    <2>1. tree.virtual = With(done, "upgrade virtual/rust", "remove virtual/rust")
      BY DEF Agrees
    <2>2. t.virtual = After(tree.virtual, step, "upgrade virtual/rust", "remove virtual/rust")
      BY DEF Leaves
    <2> QED
      BY <2>1, <2>2, StepSets DEF With, After
  <1>2. t.profdata <=> ("turn off profile data" \in done \union {step}
                            => "turn on profile data" \in done \union {step})
    BY DEF Agrees, Leaves
  <1>3. "update bootstrap version" \in done \union {step} => t.bootstrap = NVersions
    BY DEF Agrees, Leaves
  <1> QED
    BY <1>1, <1>2, <1>3, <1>4, <1>5, <1>6, <1>7 DEF Agrees

LEMMA NewestIs ==
    ASSUME NEW v \in Nat, NEW S, S \subseteq Nat, v \in S, \A w \in S : w <= v
    PROVE  Newest(S) = v
  <1>1. Newest(S) \in S /\ \A w \in S : w <= Newest(S)
    BY DEF Newest
  <1>2. Newest(S) \in Nat /\ Newest(S) <= v /\ v <= Newest(S)
    BY <1>1
  <1> QED
    BY <1>2

LEMMA OldestIs ==
    ASSUME NEW v \in Nat, NEW S, S \subseteq Nat, v \in S, \A w \in S : v <= w
    PROVE  Oldest(S) = v
  <1>1. Oldest(S) \in S /\ \A w \in S : Oldest(S) <= w
    BY DEF Oldest
  <1>2. Oldest(S) \in Nat /\ Oldest(S) <= v /\ v <= Oldest(S)
    BY <1>1
  <1> QED
    BY <1>2

\* The oldest version is there until it is removed, and the current one is the
\* newest until a version is added.
LEMMA WithVersions ==
    ASSUME NEW done, NEW add, NEW remove, uprev \in Uprevs
    PROVE  /\ With(done, add, remove) \subseteq Versions
           /\ remove \notin done => 1 \in With(done, add, remove) /\ NVersions \in With(done, add, remove)
           /\ add \notin done => \A v \in With(done, add, remove) : v <= NVersions
  BY UprevAssumption DEF With, Versions

\* A line is inserted after that of the newest version.
LEMMA InsertedLines ==
    ASSUME NEW p \in RustPackages, tree \in Trees, uprev = NVersions + 1, NEW t \in Inserted(p),
           Listed(tree, p) \subseteq Versions, NVersions \in Listed(tree, p)
    PROVE  /\ t \in Trees /\ Listed(t, p) = Listed(tree, p) \union {uprev}
           /\ \A q \in RustPackages \ {p} : t.provided[q] = tree.provided[q]
           /\ t.ebuilds = tree.ebuilds /\ t.virtual = tree.virtual
           /\ t.bootstrap = tree.bootstrap /\ t.profdata = tree.profdata
           /\ (\A v \in Versions : tree.provided[p][v] <= 1) /\ uprev \notin Listed(tree, p)
                 => \A v \in Versions : t.provided[p][v] <= 1
  <1> DEFINE last == Newest({v \in Versions : tree.provided[p][v] > 0})
             lines == [tree.provided[p] EXCEPT ![uprev] = @ + tree.provided[p][last]]
  <1>1. NVersions \in Nat \ {0} /\ uprev \in Versions /\ Versions \subseteq Nat
    BY UprevAssumption DEF Versions
  <1>2. last \in Versions /\ tree.provided[p][last] > 0
    <2>1. CASE uprev \in Listed(tree, p)
      <3>1. Newest(Listed(tree, p)) = uprev
        BY <1>1, <2>1, NewestIs DEF Versions
      <3> QED
        BY <1>1, <2>1, <3>1 DEF Listed
    <2>2. CASE uprev \notin Listed(tree, p)
      <3>1. \A w \in Listed(tree, p) : w <= NVersions
        BY <1>1, <2>2 DEF Versions
      <3>2. Newest(Listed(tree, p)) = NVersions
        BY <1>1, <3>1, NewestIs
      <3> QED
        BY <1>1, <3>2 DEF Listed
    <2> QED
      BY <2>1, <2>2
  <1>3. tree.provided \in [RustPackages -> [Versions -> Nat]] /\ tree.provided[p] \in [Versions -> Nat]
    BY DEF Trees
  <1>4. t = [tree EXCEPT !.provided = [@ EXCEPT ![p] = lines], !.dirty = TRUE]
    BY <1>1, <1>3 DEF Inserted, Trees
  <1> HIDE DEF last
  <1>5. lines \in [Versions -> Nat]
    BY <1>1, <1>2, <1>3
  <1>6. lines[uprev] > 0 /\ \A v \in Versions \ {uprev} : lines[v] = tree.provided[p][v]
    BY <1>1, <1>2, <1>3
  <1>7. (\A v \in Versions : tree.provided[p][v] <= 1) /\ uprev \notin Listed(tree, p)
           => \A v \in Versions : lines[v] <= 1
    <2> SUFFICES ASSUME \A v \in Versions : tree.provided[p][v] <= 1, uprev \notin Listed(tree, p)
                 PROVE  lines[uprev] <= 1
      BY <1>6
    <2>1. tree.provided[p][uprev] = 0 /\ tree.provided[p][last] <= 1
      BY <1>1, <1>2, <1>3 DEF Listed
    <2> QED
      BY <1>1, <1>2, <1>3, <2>1
  <1> HIDE DEF lines
  <1>8. t \in Trees /\ t.provided = [tree.provided EXCEPT ![p] = lines]
    BY <1>3, <1>4, <1>5 DEF Trees
  <1>9. Listed(t, p) = Listed(tree, p) \union {uprev}
    BY <1>1, <1>3, <1>6, <1>8 DEF Listed
  <1> QED
    BY <1>3, <1>4, <1>7, <1>8, <1>9 DEF Trees

\* All the lines of the version to delete go.
LEMMA RemovedLines ==
    ASSUME NEW p \in RustPackages, tree \in Trees, DeleteVersion = 1, NEW t \in Removed(p)
    PROVE  /\ t \in Trees /\ Listed(t, p) = Listed(tree, p) \ {1}
           /\ \A q \in RustPackages \ {p} : t.provided[q] = tree.provided[q]
           /\ t.ebuilds = tree.ebuilds /\ t.virtual = tree.virtual
           /\ t.bootstrap = tree.bootstrap /\ t.profdata = tree.profdata
           /\ (\A v \in Versions : tree.provided[p][v] <= 1) => \A v \in Versions : t.provided[p][v] <= 1
  <1> DEFINE lines == [tree.provided[p] EXCEPT ![1] = 0]
  <1>1. 1 \in Versions /\ Versions \subseteq Nat
    BY UprevAssumption DEF Versions
  <1>2. tree.provided \in [RustPackages -> [Versions -> Nat]] /\ tree.provided[p] \in [Versions -> Nat]
    BY DEF Trees
  <1>3. t = [tree EXCEPT !.provided = [@ EXCEPT ![p] = lines], !.dirty = TRUE]
    BY <1>1, <1>2 DEF Removed, Trees
  <1>4. /\ lines \in [Versions -> Nat] /\ lines[1] = 0
        /\ \A v \in Versions \ {1} : lines[v] = tree.provided[p][v]
    BY <1>1, <1>2
  <1> HIDE DEF lines
  <1>5. t \in Trees /\ t.provided = [tree.provided EXCEPT ![p] = lines]
    BY <1>2, <1>3, <1>4 DEF Trees
  <1>6. Listed(t, p) = Listed(tree, p) \ {1}
    <2>1. t.provided[p] = lines
      BY <1>2, <1>5
    <2>2. \A v \in Versions : lines[v] > 0 <=> v # 1 /\ tree.provided[p][v] > 0
      BY <1>1, <1>2, <1>4
    <2> QED
      BY <2>1, <2>2 DEF Listed
  <1> QED
    BY <1>1, <1>2, <1>3, <1>4, <1>5, <1>6 DEF Trees

\* What each step makes of an overlay in which the recorded steps are done, and
\* perhaps the step itself.
LEMMA EffectLeaves ==
    ASSUME UprevTypes, Recorded, Remaining(completed) # {}, uprevRun.steps = completed,
           NEW done, done = DOMAIN completed \/ done = InFlight, Agrees(tree, done),
           NEW step, step = NextStep(completed), NEW t \in Effect(step)
    PROVE  /\ Leaves(step, t) /\ t \in Trees
           /\ (\A p \in RustPackages, v \in Versions : tree.provided[p][v] <= 1) /\ step \notin done
                 => \A p \in RustPackages, v \in Versions : t.provided[p][v] <= 1
  <1> DEFINE Known == /\ step \in CreateSteps =>
                            /\ Template = NVersions /\ uprev = NVersions + 1
                            /\ RemoveSteps \cap done = {}
                      /\ step \in RemoveSteps \ {"find version to delete"} => DeleteVersion = 1
             Single(u) == (\A p \in RustPackages, v \in Versions : tree.provided[p][v] <= 1)
                             => \A p \in RustPackages, v \in Versions : u.provided[p][v] <= 1
  <1>1. /\ tree \in Trees /\ uprev \in Uprevs /\ uprev \in Nat /\ NVersions \in Nat \ {0}
        /\ command \in {"create", "remove", "roll"} /\ uprev \in Versions
    BY UprevAssumption DEF UprevTypes, Versions
  <1>2. Known
    BY NextIsPrepared, StepSets DEF Template, DeleteVersion, InFlight
  <1>3. step \in {Order[k] : k \in Positions}
    BY FirstOfRemaining, OrderDomain DEF Remaining
  <1>4. CASE step \in {"create new repo", "prepare uprev", "build cross compiler", "create CL",
                       "find version to delete", "mirror and fetch sources", "make profile data",
                       "build packages"}
    <2>1. t = tree \/ t = [tree EXCEPT !.dirty = FALSE]
      <3>1. CASE step \in {"create new repo", "prepare uprev", "find version to delete"}
        <4>1. t \in Effect(step) /\ Effect(step) \subseteq {tree}
          BY <3>1, EffectOfStep
        <4> QED
          BY <4>1
      <3>2. CASE step \in {"build cross compiler", "mirror and fetch sources", "make profile data",
                          "build packages"}
        <4>1. t \in Effect(step) /\ Effect(step) = {tree}
          BY <3>2, EffectOfOtherStep
        <4> QED
          BY <4>1
      <3>3. CASE step = "create CL"
        BY <3>3, EffectOfOtherStep
      <3> QED
        BY <1>4, <3>1, <3>2, <3>3
    <2>2. /\ t \in Trees /\ t.ebuilds = tree.ebuilds /\ t.provided = tree.provided /\ t.virtual = tree.virtual
          /\ t.bootstrap = tree.bootstrap /\ t.profdata = tree.profdata
      BY <1>1, <2>1 DEF Trees
    <2>3. Leaves(step, t)
      BY <1>4, <2>2 DEF Leaves, After, Listed
    <2> QED
      BY <2>2, <2>3
  <1>5. CASE step \in {"update bootstrap version", "turn off profile data", "turn on profile data"}
    <2>1. /\ t \in Trees /\ t.ebuilds = tree.ebuilds /\ t.provided = tree.provided /\ t.virtual = tree.virtual
          /\ t.bootstrap = IF step = "update bootstrap version" THEN NVersions ELSE tree.bootstrap
          /\ t.profdata <=> \/ step = "turn on profile data"
                            \/ tree.profdata /\ step # "turn off profile data"
      <3>1. CASE step = "update bootstrap version"
        <4>1. t = [tree EXCEPT !.bootstrap = NVersions, !.dirty = TRUE]
          BY <1>2, <3>1, EffectOfStep, StepSets
        <4> QED
          BY <1>1, <3>1, <4>1 DEF Trees
      <3>2. CASE step = "turn off profile data"
        <4>1. t = [tree EXCEPT !.profdata = FALSE, !.dirty = TRUE]
          BY <3>2, EffectOfStep
        <4> QED
          BY <1>1, <3>2, <4>1 DEF Trees
      <3>3. CASE step = "turn on profile data"
        <4>1. t = [tree EXCEPT !.profdata = TRUE, !.dirty = TRUE]
          BY <3>3, EffectOfStep
        <4> QED
          BY <1>1, <3>3, <4>1 DEF Trees
      <3> QED
        BY <1>5, <3>1, <3>2, <3>3
    <2>2. Leaves(step, t)
      BY <1>5, <2>1 DEF Leaves, After, Listed
    <2> QED
      BY <2>1, <2>2
  <1>6. CASE step \in {"create rust-host ebuild", "create rust ebuild",
                       "remove rust-host ebuild", "remove rust ebuild"}
    <2> DEFINE p == IF step \in {"create rust-host ebuild", "remove rust-host ebuild"}
                    THEN "rust-host" ELSE "rust"
               S == IF step \in CreateSteps THEN tree.ebuilds[p] \union {uprev} ELSE tree.ebuilds[p] \ {1}
    <2>1. p \in RustPackages /\ tree.ebuilds \in [RustPackages -> SUBSET Versions] /\ S \in SUBSET Versions
      BY <1>1 DEF Trees, RustPackages
    <2>2. t = [tree EXCEPT !.ebuilds[p] = S, !.dirty = TRUE]
      <3>1. CASE step \in {"create rust-host ebuild", "create rust ebuild"}
        BY <3>1, <1>2, EffectOfStep, StepSets DEF Created
      <3>2. CASE step = "remove rust-host ebuild"
        BY <3>2, <1>2, EffectOfOtherStep, StepSets
      <3>3. CASE step = "remove rust ebuild"
        BY <3>3, <1>2, EffectOfOtherStep, StepSets
      <3> QED
        BY <1>6, <3>1, <3>2, <3>3
    <2>3. S = After(tree.ebuilds[p], step,
                    IF p = "rust-host" THEN "create rust-host ebuild" ELSE "create rust ebuild",
                    IF p = "rust-host" THEN "remove rust-host ebuild" ELSE "remove rust ebuild")
      BY <1>6, StepSets DEF After
    <2>4. /\ t \in Trees /\ t.ebuilds = [tree.ebuilds EXCEPT ![p] = S] /\ t.provided = tree.provided
          /\ t.virtual = tree.virtual /\ t.bootstrap = tree.bootstrap /\ t.profdata = tree.profdata
      BY <1>1, <2>1, <2>2 DEF Trees
    <2>5. Leaves(step, t)
      <3>1. CASE p = "rust-host"
        BY <1>6, <2>1, <2>3, <2>4, <3>1 DEF Leaves, After, Listed, RustPackages
      <3>2. CASE p = "rust"
        BY <1>6, <2>1, <2>3, <2>4, <3>2 DEF Leaves, After, Listed, RustPackages
      <3> QED
        BY <3>1, <3>2
    <2> QED
      BY <2>4, <2>5
  <1>7. CASE step \in {"upgrade virtual/rust", "remove virtual/rust"}
    <2> DEFINE S == IF step \in CreateSteps THEN tree.virtual \union {uprev} ELSE tree.virtual \ {1}
    <2>1. t = [tree EXCEPT !.virtual = S, !.dirty = TRUE]
      <3>1. CASE step = "upgrade virtual/rust"
        <4>1. t = [tree EXCEPT !.virtual = @ \union {uprev}, !.dirty = TRUE]
          BY <3>1, EffectOfStep
        <4>2. step \in CreateSteps
          BY <3>1, StepSets
        <4> QED
          BY <4>1, <4>2
      <3>2. CASE step = "remove virtual/rust"
        <4>1. t = [tree EXCEPT !.virtual = @ \ {DeleteVersion}, !.dirty = TRUE]
          BY <3>2, EffectOfOtherStep
        <4>2. step \notin CreateSteps /\ step \in RemoveSteps \ {"find version to delete"}
          BY <3>2, StepSets
        <4> QED
          BY <1>2, <4>1, <4>2
      <3> QED
        BY <1>7, <3>1, <3>2
    <2>2. S = After(tree.virtual, step, "upgrade virtual/rust", "remove virtual/rust")
      BY <1>7, StepSets DEF After
    <2>3. S \in SUBSET Versions
      BY <1>1 DEF Trees
    <2> HIDE DEF S
    <2>4. /\ t \in Trees /\ t.ebuilds = tree.ebuilds /\ t.provided = tree.provided
          /\ t.virtual = S /\ t.bootstrap = tree.bootstrap /\ t.profdata = tree.profdata
      BY <1>1, <2>1, <2>3 DEF Trees
    <2>5. Leaves(step, t)
      BY <1>7, <2>2, <2>4 DEF Leaves, After, Listed
    <2> QED
      BY <2>4, <2>5
  <1>8. CASE step \in {"insert host version", "insert target version"}
    <2> DEFINE p == IF step = "insert host version" THEN "rust-host" ELSE "rust"
               q == IF step = "insert host version" THEN "rust" ELSE "rust-host"
    <2>1. p \in RustPackages /\ RustPackages \ {p} = {q} /\ t \in Inserted(p)
      BY <1>8, EffectOfStep DEF RustPackages
    <2>2. uprev = NVersions + 1 /\ RemoveSteps \cap done = {}
      BY <1>2, <1>8, StepSets
    <2>3. /\ Listed(tree, p) \subseteq Versions /\ NVersions \in Listed(tree, p)
          /\ step \notin done => uprev \notin Listed(tree, p)
      <3>1. CASE step = "insert host version"
        <4>1. Listed(tree, p) = With(done, "insert host version", "remove host version")
          BY <3>1 DEF Agrees
        <4>2. "remove host version" \notin done
          BY <2>2, StepSets
        <4>3. /\ With(done, "insert host version", "remove host version") \subseteq Versions
              /\ NVersions \in With(done, "insert host version", "remove host version")
          BY <1>1, <4>2, WithVersions
        <4>4. "insert host version" \notin done
                 => \A v \in With(done, "insert host version", "remove host version") : v <= NVersions
          BY <1>1, WithVersions
        <4>5. ~ (uprev <= NVersions)
          BY <1>1, <2>2
        <4>6. step \notin done => uprev \notin Listed(tree, p)
          BY <3>1, <4>1, <4>4, <4>5
        <4> QED
          BY <4>1, <4>3, <4>6
      <3>2. CASE step = "insert target version"
        <4>1. Listed(tree, p) = With(done, "insert target version", "remove target version")
          BY <3>2 DEF Agrees
        <4>2. "remove target version" \notin done
          BY <2>2, StepSets
        <4>3. /\ With(done, "insert target version", "remove target version") \subseteq Versions
              /\ NVersions \in With(done, "insert target version", "remove target version")
          BY <1>1, <4>2, WithVersions
        <4>4. "insert target version" \notin done
                 => \A v \in With(done, "insert target version", "remove target version") : v <= NVersions
          BY <1>1, WithVersions
        <4>5. ~ (uprev <= NVersions)
          BY <1>1, <2>2
        <4>6. step \notin done => uprev \notin Listed(tree, p)
          BY <3>2, <4>1, <4>4, <4>5
        <4> QED
          BY <4>1, <4>3, <4>6
      <3> QED
        BY <1>8, <3>1, <3>2
    <2>4. /\ t \in Trees /\ Listed(t, p) = Listed(tree, p) \union {uprev} /\ t.provided[q] = tree.provided[q]
          /\ t.ebuilds = tree.ebuilds /\ t.virtual = tree.virtual
          /\ t.bootstrap = tree.bootstrap /\ t.profdata = tree.profdata
          /\ (\A v \in Versions : tree.provided[p][v] <= 1) /\ uprev \notin Listed(tree, p)
                => \A v \in Versions : t.provided[p][v] <= 1
      <3>1. q \in RustPackages \ {p}
        BY <2>1
      <3> HIDE DEF p, q
      <3> QED
        BY <1>1, <2>1, <2>2, <2>3, <3>1, InsertedLines
    <2>5. Leaves(step, t)
      <3>1. CASE step = "insert host version"
        BY <2>4, <3>1 DEF Leaves, After, Listed
      <3>2. CASE step = "insert target version"
        BY <2>4, <3>2 DEF Leaves, After, Listed
      <3> QED
        BY <1>8, <3>1, <3>2
    <2> QED
      BY <2>1, <2>3, <2>4, <2>5
  <1>9. CASE step \in {"remove host version", "remove target version"}
    <2> DEFINE p == IF step = "remove host version" THEN "rust-host" ELSE "rust"
               q == IF step = "remove host version" THEN "rust" ELSE "rust-host"
    <2>1. p \in RustPackages /\ RustPackages \ {p} = {q} /\ t \in Removed(p)
      BY <1>9, EffectOfOtherStep DEF RustPackages
    <2>2. DeleteVersion = 1
      BY <1>2, <1>9, StepSets
    <2>3. /\ t \in Trees /\ Listed(t, p) = Listed(tree, p) \ {1} /\ t.provided[q] = tree.provided[q]
          /\ t.ebuilds = tree.ebuilds /\ t.virtual = tree.virtual
          /\ t.bootstrap = tree.bootstrap /\ t.profdata = tree.profdata
          /\ (\A v \in Versions : tree.provided[p][v] <= 1) => \A v \in Versions : t.provided[p][v] <= 1
      <3>1. q \in RustPackages \ {p}
        BY <2>1
      <3> HIDE DEF p, q
      <3> QED
        BY <1>1, <2>1, <2>2, <3>1, RemovedLines
    <2>4. Leaves(step, t)
      <3>1. CASE step = "remove host version"
        BY <2>3, <3>1 DEF Leaves, After, Listed
      <3>2. CASE step = "remove target version"
        BY <2>3, <3>2 DEF Leaves, After, Listed
      <3> QED
        BY <1>9, <3>1, <3>2
    <2> QED
      BY <2>1, <2>3, <2>4
  <1>10. \/ step \in {"create new repo", "prepare uprev", "build cross compiler", "create CL",
                      "find version to delete", "mirror and fetch sources", "make profile data",
                      "build packages"}
         \/ step \in {"update bootstrap version", "turn off profile data", "turn on profile data"}
         \/ step \in {"create rust-host ebuild", "create rust ebuild",
                      "remove rust-host ebuild", "remove rust ebuild"}
         \/ step \in {"upgrade virtual/rust", "remove virtual/rust"}
         \/ step \in {"insert host version", "insert target version"}
         \/ step \in {"remove host version", "remove target version"}
    <2>1. PICK k \in Positions : step = Order[k]
      BY <1>3
    <2>2. \/ k \in {1, 2, 3, 4}
          \/ k \in {9, 11, 15, 21}
          \/ k \in {5, 6, 10}
          \/ k \in {7, 8, 16, 17}
          \/ k \in {14, 20}
          \/ k \in {12, 13}
          \/ k \in {18, 19}
      BY DEF Positions
    <2>3. CASE k \in {1, 2, 3, 4}
      <3>1. /\ Order[1] = "create new repo" /\ Order[2] = "build cross compiler"
            /\ Order[3] = "prepare uprev" /\ Order[4] = "mirror and fetch sources"
        BY PlaceOfStep
      <3>2. step \in {"create new repo", "build cross compiler", "prepare uprev", "mirror and fetch sources"}
        BY <2>1, <2>3, <3>1
      <3> QED
        BY <3>2
    <2>4. CASE k \in {9, 11, 15, 21}
      <3>1. /\ Order[9] = "make profile data" /\ Order[11] = "build packages"
            /\ Order[15] = "find version to delete" /\ Order[21] = "create CL"
        BY PlaceOfStep
      <3>2. step \in {"make profile data", "build packages", "find version to delete", "create CL"}
        BY <2>1, <2>4, <3>1
      <3> QED
        BY <3>2
    <2>5. CASE k \in {5, 6, 10}
      <3>1. /\ Order[5] = "update bootstrap version" /\ Order[6] = "turn off profile data"
            /\ Order[10] = "turn on profile data"
        BY PlaceOfStep
      <3>2. step \in {"update bootstrap version", "turn off profile data", "turn on profile data"}
        BY <2>1, <2>5, <3>1
      <3> QED
        BY <3>2
    <2>6. CASE k \in {7, 8, 16, 17}
      <3>1. /\ Order[7] = "create rust-host ebuild" /\ Order[8] = "create rust ebuild"
            /\ Order[16] = "remove rust-host ebuild" /\ Order[17] = "remove rust ebuild"
        BY PlaceOfStep
      <3>2. step \in {"create rust-host ebuild", "create rust ebuild", "remove rust-host ebuild", "remove rust ebuild"}
        BY <2>1, <2>6, <3>1
      <3> QED
        BY <3>2
    <2>7. CASE k \in {14, 20}
      <3>1. Order[14] = "upgrade virtual/rust" /\ Order[20] = "remove virtual/rust"
        BY PlaceOfStep
      <3>2. step \in {"upgrade virtual/rust", "remove virtual/rust"}
        BY <2>1, <2>7, <3>1
      <3> QED
        BY <3>2
    <2>8. CASE k \in {12, 13}
      <3>1. Order[12] = "insert host version" /\ Order[13] = "insert target version"
        BY PlaceOfStep
      <3>2. step \in {"insert host version", "insert target version"}
        BY <2>1, <2>8, <3>1
      <3> QED
        BY <3>2
    <2>9. CASE k \in {18, 19}
      <3>1. Order[18] = "remove target version" /\ Order[19] = "remove host version"
        BY PlaceOfStep
      <3>2. step \in {"remove target version", "remove host version"}
        BY <2>1, <2>9, <3>1
      <3> QED
        BY <3>2
    <2> QED
      BY <2>2, <2>3, <2>4, <2>5, <2>6, <2>7, <2>8, <2>9
  <1> QED
    BY <1>4, <1>5, <1>6, <1>7, <1>8, <1>9, <1>10

-----------------------------------------------------------------------------
(* RustUprev: the invariant *)

\* Nothing is done and the overlay has the old versions.
LEMMA RustUprevInit ==
    ASSUME UprevInit
    PROVE  UprevInv
  <1>1. /\ command \in {"create", "remove", "roll"} /\ uprev \in Uprevs
        /\ NVersions \in Nat \ {0} /\ 1 .. NVersions \subseteq Versions
        /\ completed = <<>> /\ DOMAIN completed = {} /\ uprevRun = Off /\ runs = 0
    BY UprevAssumption DEF UprevInit, Versions
  <1>2. /\ tree.ebuilds = [p \in RustPackages |-> 1 .. NVersions]
        /\ tree.provided = [p \in RustPackages |-> [v \in Versions |-> IF v <= NVersions THEN 1 ELSE 0]]
        /\ tree.virtual = 1 .. NVersions /\ tree.profdata = TRUE /\ tree.bootstrap = 0
    BY DEF UprevInit
  <1>3. tree \in Trees
    <2>1. tree.ebuilds \in [RustPackages -> SUBSET Versions]
      BY <1>1, <1>2
    <2>2. tree.provided \in [RustPackages -> [Versions -> Nat]]
      BY <1>2
    <2> QED
      BY <1>1, <2>1, <2>2 DEF UprevInit, Trees
  <1>4. \A p \in RustPackages, v \in Versions :
           tree.provided[p][v] = IF v <= NVersions THEN 1 ELSE 0
    BY <1>2
  <1>5. ASSUME NEW p \in RustPackages PROVE Listed(tree, p) = 1 .. NVersions
    BY <1>1, <1>4 DEF Listed, Versions
  <1>6. Agrees(tree, DOMAIN completed)
    <2>1. "rust" \in RustPackages /\ "rust-host" \in RustPackages
      BY DEF RustPackages
    <2> QED
      BY <1>1, <1>2, <1>5, <2>1 DEF Agrees, With
  <1>7. UprevTypes
    BY <1>1, <1>3 DEF UprevTypes, Off
  <1>8. Recorded
    BY <1>1 DEF Recorded
  <1>9. OneLineEach
    BY <1>4 DEF OneLineEach
  <1> QED
    BY <1>1, <1>6, <1>7, <1>8, <1>9 DEF UprevInv, Effects, Off

\* A step that leaves the state file alone leaves what remains alone.
LEMMA SameRecord ==
    ASSUME UNCHANGED <<command, uprev, completed>>
    PROVE  /\ Recorded => Recorded'
           /\ Remaining(completed)' = Remaining(completed) /\ NextStep(completed)' = NextStep(completed)
           /\ InFlight' = InFlight /\ Prepared' = Prepared
  <1>1. Steps(completed)' = Steps(completed)
    BY DEF Steps
  <1>2. Remaining(completed)' = Remaining(completed)
    BY <1>1 DEF Remaining
  <1>3. NextStep(completed)' = NextStep(completed)
    BY <1>2 DEF NextStep
  <1>4. InFlight' = InFlight
    BY <1>3 DEF InFlight
  <1>5. Prepared' = Prepared
    BY DEF Prepared
  <1>6. ASSUME Recorded PROVE Recorded'
    <2>1. DOMAIN completed' \subseteq Steps(completed)'
      BY <1>1, <1>6 DEF Recorded
    <2>2. \A i, j \in Positions :
             i < j /\ Order[i] \in Steps(completed)' /\ Order[j] \in DOMAIN completed'
                => Order[i] \in DOMAIN completed'
      BY <1>1, <1>6 DEF Recorded
    <2>3. /\ "prepare uprev" \in DOMAIN completed' => completed'["prepare uprev"] = Prepared'
          /\ "find version to delete" \in DOMAIN completed'
                => completed'["find version to delete"] = 1
      BY <1>5, <1>6 DEF Recorded
    <2> QED
      BY <2>1, <2>2, <2>3 DEF Recorded
  <1> QED
    BY <1>2, <1>3, <1>4, <1>5, <1>6

LEMMA SameOverlay ==
    ASSUME UNCHANGED <<command, uprev, completed, tree>>
    PROVE  /\ Agrees(tree, DOMAIN completed) => Agrees(tree, DOMAIN completed)'
           /\ Agrees(tree, InFlight) => Agrees(tree, InFlight)'
  <1>1. ASSUME Agrees(tree, DOMAIN completed) PROVE Agrees(tree, DOMAIN completed)'
    BY <1>1 DEF Agrees, With, Listed
  <1>2. InFlight' = InFlight
    BY SameRecord
  <1>3. ASSUME Agrees(tree, InFlight) PROVE Agrees(tree, InFlight)'
    BY <1>2, <1>3 DEF Agrees, With, Listed
  <1> QED
    BY <1>1, <1>3

\* Only --restart forgets steps.  The template that roll finds itself is the old one
\* as long as it is needed.
LEMMA StartUprevStep ==
    ASSUME UprevInv, ~restarted, NEW restart \in BOOLEAN, StartUprev(restart), ~restarted'
    PROVE  UprevInv'
  <1>1. /\ UprevTypes /\ Recorded /\ Effects /\ OneLineEach
        /\ ~restart /\ UNCHANGED <<command, uprev, tree, completed>>
        /\ uprevRun.pc = "off" /\ runs \in Nat /\ runs' = runs + 1
    BY DEF UprevInv, UprevTypes, StartUprev
  <1>2. PICK template \in {NVersions} \union {v \in tree.ebuilds["rust"] :
                              command = "roll" /\ v = Newest(tree.ebuilds["rust"])} :
           uprevRun' = [Off EXCEPT !.pc = "run", !.template = template, !.steps = completed]
    BY <1>1 DEF StartUprev, LoadSteps
  <1>3. /\ uprevRun'.pc = "run" /\ uprevRun'.template = template /\ uprevRun'.steps = completed'
        /\ uprevRun'.result = 0
    BY <1>1, <1>2 DEF Off
  <1>4. command \in {"create", "remove", "roll"} /\ NVersions \in Nat \ {0} /\ Versions \subseteq Nat
        /\ tree \in Trees /\ uprev \in Uprevs
    BY <1>1, UprevAssumption DEF UprevTypes, Versions
  <1>5. template \in Nat
    BY <1>2, <1>4 DEF Trees, RustPackages
  <1>6. ASSUME "prepare uprev" \notin DOMAIN completed PROVE template = NVersions
    <2>1. CASE template = NVersions
      BY <2>1
    <2>2. CASE command = "roll" /\ template = Newest(tree.ebuilds["rust"])
      <3>1. Sound(DOMAIN completed) /\ (Remaining(completed) # {} => Sound(InFlight))
        BY <1>1, <1>4, RecordedIsClosed, ClosedIsSound
      <3>2. "create rust ebuild" \in CreateSteps /\ "remove rust ebuild" \in RemoveSteps
            /\ "prepare uprev" # "create rust ebuild" /\ "prepare uprev" # "remove rust ebuild"
        BY StepSets
      <3>3. "create rust ebuild" \notin DOMAIN completed /\ "remove rust ebuild" \notin DOMAIN completed
        BY <1>6, <2>2, <3>1, <3>2 DEF Sound
      <3>4. Remaining(completed) # {} =>
               "create rust ebuild" \notin InFlight /\ "remove rust ebuild" \notin InFlight
        BY <1>6, <2>2, <3>1, <3>2, <3>3 DEF Sound, InFlight
      <3>5. tree.ebuilds["rust"] = 1 .. NVersions
        BY <1>1, <1>4, <3>3, <3>4 DEF Effects, Agrees, With
      <3> QED
        BY <1>4, <2>2, <3>5, NewestIs
    <2> QED
      BY <1>2, <2>1, <2>2
  <1>7. UprevTypes'
    <2>1. runs' \in Nat
      BY <1>1
    <2>2. uprevRun' = [pc |-> "run", steps |-> completed, template |-> template, result |-> 0]
      BY <1>2 DEF Off
    <2>3. 0 \in Nat
      OBVIOUS
    <2>4. uprevRun' \in [pc : {"off", "run", "record", "done"}, steps : {uprevRun'.steps},
                        template : Nat, result : Nat]
      BY <1>5, <2>2, <2>3
    <2> QED
      BY <1>1, <1>4, <2>1, <2>4 DEF UprevTypes, Trees
  <1>8. Effects'
    <2>1. CASE Agrees(tree, DOMAIN completed)
      BY <1>1, <1>3, <2>1, SameOverlay DEF Effects
    <2>2. CASE Remaining(completed) # {} /\ Agrees(tree, InFlight) /\ ~Undisturbed
      <3>1. runs' # 0 /\ runs' # 1
        BY <1>1, <2>2 DEF Undisturbed
      <3> QED
        BY <1>1, <2>2, <3>1, SameOverlay, SameRecord DEF Effects, Undisturbed
    <2> QED
      BY <1>1, <2>1, <2>2 DEF Effects
  <1>9. OneLineEach'
    BY <1>1 DEF OneLineEach
  <1>10. Running'
    <2>1. runs' # 0
      BY <1>1
    <2>2. "prepare uprev" \notin DOMAIN completed' => uprevRun'.template = NVersions
      BY <1>1, <1>3, <1>6
    <2>3. uprevRun'.steps = completed' /\ uprevRun'.pc # "record" /\ uprevRun'.pc # "done"
      BY <1>3
    <2> QED
      BY <2>1, <2>2, <2>3 DEF Running
  <1> QED
    BY <1>1, <1>7, <1>8, <1>9, <1>10, SameRecord DEF UprevInv

LEMMA FinishStep ==
    ASSUME UprevInv, ~restarted, Finish
    PROVE  UprevInv'
  <1>1. /\ UprevTypes /\ Recorded /\ Effects /\ OneLineEach /\ Running
        /\ UNCHANGED <<command, uprev, tree, completed, runs>>
        /\ uprevRun.pc = "run" /\ Remaining(completed) = {}
    BY DEF UprevInv, Finish, Running
  <1>2. uprevRun' = [uprevRun EXCEPT !.pc = "done"]
    BY DEF Finish
  <1>3. UprevTypes' /\ uprevRun'.pc = "done" /\ uprevRun'.steps = uprevRun.steps
        /\ uprevRun'.template = uprevRun.template
    BY <1>1, <1>2 DEF UprevTypes
  <1>4. Effects'
    BY <1>1, <1>3, SameOverlay DEF Effects
  <1>5. Running' /\ OneLineEach'
    BY <1>1, <1>3, SameRecord DEF Running, OneLineEach
  <1> QED
    BY <1>1, <1>3, <1>4, <1>5, SameRecord DEF UprevInv

LEMMA AbortStep ==
    ASSUME UprevInv, ~restarted, Abort
    PROVE  UprevInv'
  <1>1. /\ UprevTypes /\ Recorded /\ Effects /\ OneLineEach
        /\ UNCHANGED <<command, uprev, tree, completed, runs>>
        /\ uprevRun' = Off
    BY DEF UprevInv, Abort
  <1>2. UprevTypes' /\ uprevRun'.pc = "off"
    BY <1>1 DEF UprevTypes, Off
  <1>3. Effects'
    BY <1>1, <1>2, SameOverlay, SameRecord DEF Effects, Undisturbed
  <1>4. OneLineEach'
    BY <1>1 DEF OneLineEach
  <1> QED
    BY <1>1, <1>2, <1>3, <1>4, SameRecord DEF UprevInv

\* The effect of the next step, done for the first time or once more.
LEMMA RunStepStep ==
    ASSUME UprevInv, ~restarted, RunStep
    PROVE  UprevInv'
  <1> DEFINE step == NextStep(completed)
  <1>1. /\ UprevTypes /\ Recorded /\ Effects /\ OneLineEach /\ Running
        /\ UNCHANGED <<command, uprev, completed, runs>>
        /\ uprevRun.pc = "run" /\ uprevRun.steps = completed /\ Remaining(completed) # {}
    BY DEF UprevInv, RunStep, Running
  <1>2. PICK t \in Effect(step) :
           /\ tree' = t
           /\ uprevRun' = [uprevRun EXCEPT !.pc = "record", !.result = Result(step)]
    BY <1>1 DEF RunStep
  <1>3. /\ uprevRun'.pc = "record" /\ uprevRun'.result = Result(step)
        /\ uprevRun'.steps = uprevRun.steps /\ uprevRun'.template = uprevRun.template
    BY <1>1, <1>2 DEF UprevTypes
  <1>4. /\ command \in {"create", "remove", "roll"} /\ NVersions \in Nat \ {0} /\ Versions \subseteq Nat
        /\ tree \in Trees /\ uprev \in Uprevs /\ uprev \in 1 .. (NVersions + 1)
        /\ runs \in Nat /\ uprevRun.template \in Nat
    BY <1>1, UprevAssumption DEF UprevTypes, Versions
  <1>5. PICK done : /\ done = DOMAIN completed \/ done = InFlight
                    /\ Agrees(tree, done)
                    /\ Undisturbed => done = DOMAIN completed
    BY <1>1 DEF Effects
  <1>6. /\ step \notin DOMAIN completed
        /\ step \in CreateSteps => uprev # 1
        /\ step = "turn off profile data" => "turn on profile data" \notin done
        /\ step = "find version to delete" => "remove rust ebuild" \notin done
    <2>1. /\ step \notin DOMAIN completed
          /\ step \in CreateSteps => uprev = NVersions + 1
          /\ step = "turn off profile data" => "turn on profile data" \notin DOMAIN completed
          /\ step = "find version to delete" => RemoveSteps \cap DOMAIN completed = {}
      BY <1>1, NextIsPrepared
    <2>2. NVersions + 1 # 1
      BY <1>4
    <2>3. "remove rust ebuild" \in RemoveSteps
      BY StepSets
    <2> QED
      BY <1>5, <2>1, <2>2, <2>3 DEF InFlight
  <1>7. /\ Leaves(step, t) /\ t \in Trees
        /\ (\A p \in RustPackages, v \in Versions : tree.provided[p][v] <= 1) /\ step \notin done
              => \A p \in RustPackages, v \in Versions : t.provided[p][v] <= 1
    BY <1>1, <1>2, <1>5, EffectLeaves
  <1>8. done \union {step} = InFlight
    BY <1>5 DEF InFlight
  <1>9. Agrees(t, InFlight)
    BY <1>5, <1>6, <1>7, <1>8, AgreesAfter
  <1>10. Effects'
    <2>1. Agrees(tree, InFlight)'
      BY <1>1, <1>2, <1>9, SameRecord DEF Agrees, With, Listed
    <2>2. runs' # 0
      BY <1>1 DEF Running
    <2> QED
      BY <1>1, <1>3, <2>1, <2>2, SameRecord DEF Effects, Undisturbed
  <1>11. OneLineEach'
    <2>1. ASSUME runs <= 1
          PROVE  \A p \in RustPackages, v \in Versions : t.provided[p][v] <= 1
      <3>1. runs = 1
        <4>1. runs # 0
          BY <1>1 DEF Running
        <4> QED
          BY <1>4, <2>1, <4>1
      <3>2. step \notin done
        BY <1>1, <1>5, <1>6, <3>1 DEF Undisturbed
      <3> QED
        BY <1>1, <1>7, <2>1, <3>2 DEF OneLineEach
    <2> QED
      BY <1>1, <1>2, <2>1 DEF OneLineEach
  <1>12. (uprev = NVersions + 1 <=> ~ (uprev <= NVersions)) /\ \A v \in Versions : 1 <= v
    <2>1. NVersions \in Nat /\ uprev \in 1 .. (NVersions + 1)
      BY <1>4
    <2>2. uprev = NVersions + 1 <=> ~ (uprev <= NVersions)
      BY <2>1
    <2>3. \A v \in Versions : 1 <= v
      BY <2>1 DEF Versions
    <2> QED
      BY <2>2, <2>3
  <1>13. step = "prepare uprev" => Result(step) = Prepared
    <2> SUFFICES ASSUME step = "prepare uprev" PROVE Result("prepare uprev") = Prepared
      OBVIOUS
    <2>1. Result("prepare uprev") = IF uprev <= uprevRun.template THEN 0 ELSE uprevRun.template
      BY DEF Result
    <2>2. uprevRun.template = NVersions
      BY <1>1, <1>6 DEF Running
    <2>3. Result("prepare uprev") = IF uprev <= NVersions THEN 0 ELSE NVersions
      BY <2>1, <2>2
    <2> QED
      BY <1>12, <2>3 DEF Prepared
  <1>14. step = "find version to delete" => Result(step) = 1
    <2> SUFFICES ASSUME step = "find version to delete" PROVE Result("find version to delete") = 1
      OBVIOUS
    <2>1. Result("find version to delete") = Oldest(tree.ebuilds["rust"])
      BY DEF Result
    <2>2. tree.ebuilds["rust"] = With(done, "create rust ebuild", "remove rust ebuild")
      BY <1>5 DEF Agrees
    <2>3. /\ With(done, "create rust ebuild", "remove rust ebuild") \subseteq Versions
          /\ 1 \in With(done, "create rust ebuild", "remove rust ebuild")
      BY <1>4, <1>6, WithVersions
    <2>4. Oldest(With(done, "create rust ebuild", "remove rust ebuild")) = 1
      BY <1>4, <1>12, <2>3, OldestIs
    <2> QED
      BY <2>1, <2>2, <2>4
  <1>15. Result(step) \in Nat
    <2>1. step # "prepare uprev" /\ step # "find version to delete" => Result(step) = 0
      BY DEF Result
    <2>2. Prepared \in Nat
      BY <1>4 DEF Prepared
    <2>3. 0 \in Nat /\ 1 \in Nat
      OBVIOUS
    <2> QED
      BY <1>13, <1>14, <2>1, <2>2, <2>3
  <1>16. UprevTypes'
    <2>1. uprevRun' \in [pc : {"off", "run", "record", "done"}, steps : {uprevRun'.steps},
                        template : Nat, result : Nat]
      BY <1>1, <1>2, <1>3, <1>15 DEF UprevTypes
    <2> QED
      BY <1>1, <1>2, <1>4, <1>7, <2>1 DEF UprevTypes, Trees
  <1>17. Running'
    <2>1. uprevRun'.steps = completed' /\ runs' # 0 /\ uprevRun'.pc # "done"
      BY <1>1, <1>3 DEF Running
    <2>2. "prepare uprev" \notin DOMAIN completed' => uprevRun'.template = NVersions
      BY <1>1, <1>3 DEF Running
    <2>3. /\ Remaining(completed)' # {}
          /\ NextStep(completed)' = "prepare uprev" => uprevRun'.result = Prepared'
          /\ NextStep(completed)' = "find version to delete" => uprevRun'.result = 1
      BY <1>1, <1>3, <1>13, <1>14, SameRecord
    <2> QED
      BY <2>1, <2>2, <2>3 DEF Running
  <1> QED
    BY <1>1, <1>10, <1>11, <1>16, <1>17, SameRecord DEF UprevInv

\* The step in flight is recorded.
LEMMA RecordStepStep ==
    ASSUME UprevInv, ~restarted, RecordStep
    PROVE  UprevInv'
  <1> DEFINE step == NextStep(completed)
  <1>1. /\ UprevTypes /\ Recorded /\ Effects /\ OneLineEach /\ Running
        /\ UNCHANGED <<command, uprev, tree, runs>>
        /\ uprevRun.pc = "record" /\ uprevRun.steps = completed /\ Remaining(completed) # {}
    BY DEF UprevInv, RecordStep, Running
  <1>2. /\ completed' = [s \in DOMAIN completed \union {step} |->
                            IF s = step THEN uprevRun.result ELSE completed[s]]
        /\ uprevRun' = [uprevRun EXCEPT !.pc = "run", !.steps = completed', !.result = 0]
    BY <1>1 DEF RecordStep
  <1>3. /\ uprevRun'.pc = "run" /\ uprevRun'.steps = completed' /\ uprevRun'.result = 0
        /\ uprevRun'.template = uprevRun.template
    BY <1>1, <1>2 DEF UprevTypes
  <1>4. DOMAIN completed' = InFlight
    BY <1>2 DEF InFlight
  <1>5. /\ step \notin DOMAIN completed
        /\ \A s \in DOMAIN completed : completed'[s] = completed[s]
        /\ completed'[step] = uprevRun.result
    BY <1>1, <1>2, EarlierIsCompleted
  <1>6. Closed(InFlight) /\ Sound(DOMAIN completed)
    BY <1>1, RecordedIsClosed, ClosedIsSound DEF UprevTypes
  <1>7. command \in {"create", "remove", "roll"} /\ command' = command
    BY <1>1 DEF UprevTypes
  <1>8. InFlight \subseteq Steps(completed)' /\ Steps(completed)' \subseteq Steps(completed)
    <2>1. CASE step = "prepare uprev"
      <3>1. CreateSteps \cap InFlight = {}
        BY <1>5, <1>6, <2>1, StepSets DEF Sound, InFlight
      <3>2. "prepare uprev" \notin DOMAIN completed
        BY <1>5, <2>1
      <3> QED
        BY <1>6, <1>7, <3>1, <3>2 DEF Closed, Steps
    <2>2. CASE step # "prepare uprev"
      <3>1. "prepare uprev" \in DOMAIN completed' <=> "prepare uprev" \in DOMAIN completed
        BY <1>4, <2>2 DEF InFlight
      <3>2. "prepare uprev" \in DOMAIN completed
               => completed'["prepare uprev"] = completed["prepare uprev"]
        BY <1>5
      <3>3. Steps(completed)' = Steps(completed)
        BY <1>7, <3>1, <3>2 DEF Steps
      <3> QED
        BY <1>6, <3>3 DEF Closed
    <2> QED
      BY <2>1, <2>2
  <1>9. "prepare uprev" \in DOMAIN completed' => completed'["prepare uprev"] = Prepared'
    <2>1. Prepared' = Prepared
      BY <1>1 DEF Prepared
    <2>2. CASE step = "prepare uprev"
      BY <1>1, <1>5, <2>1, <2>2 DEF Running
    <2>3. CASE step # "prepare uprev"
      BY <1>1, <1>4, <1>5, <2>1, <2>3 DEF Recorded, InFlight
    <2> QED
      BY <2>2, <2>3
  <1>10. "find version to delete" \in DOMAIN completed' => completed'["find version to delete"] = 1
    <2>1. CASE step = "find version to delete"
      BY <1>1, <1>5, <2>1 DEF Running
    <2>2. CASE step # "find version to delete"
      BY <1>1, <1>4, <1>5, <2>2 DEF Recorded, InFlight
    <2> QED
      BY <2>1, <2>2
  <1>11. Recorded'
    BY <1>4, <1>6, <1>8, <1>9, <1>10 DEF Recorded, Closed
  <1>12. Effects'
    <2>1. Agrees(tree, InFlight)
      BY <1>1 DEF Effects
    <2>2. Agrees(tree, DOMAIN completed)'
      BY <1>1, <1>4, <2>1 DEF Agrees, With, Listed
    <2> QED
      BY <1>3, <2>2 DEF Effects
  <1>13. UprevTypes'
    <2>1. uprevRun' \in [pc : {"off", "run", "record", "done"}, steps : {uprevRun'.steps},
                        template : Nat, result : Nat]
      BY <1>1, <1>2, <1>3 DEF UprevTypes
    <2> QED
      BY <1>1, <2>1 DEF UprevTypes
  <1>14. Running'
    <2>1. "prepare uprev" \notin DOMAIN completed' => uprevRun'.template = NVersions
      BY <1>1, <1>3, <1>4 DEF Running, InFlight
    <2> QED
      BY <1>1, <1>3, <2>1 DEF Running
  <1>15. OneLineEach'
    BY <1>1 DEF OneLineEach
  <1> QED
    BY <1>11, <1>12, <1>13, <1>14, <1>15 DEF UprevInv

LEMMA UprevInvInductive == UprevInv /\ [UprevNext]_uprevVars => UprevInv'
  <1> SUFFICES ASSUME UprevInv, [UprevNext]_uprevVars, ~restarted'
               PROVE  UprevInv'
    BY DEF UprevInv
  <1>1. CASE \E restart \in BOOLEAN : StartUprev(restart)
    BY <1>1, StartUprevStep DEF StartUprev
  <1>2. CASE RunStep
    BY <1>2, RunStepStep DEF RunStep
  <1>3. CASE RecordStep
    BY <1>3, RecordStepStep DEF RecordStep
  <1>4. CASE Finish
    BY <1>4, FinishStep DEF Finish
  <1>5. CASE Abort
    BY <1>5, AbortStep DEF Abort
  <1>6. CASE UNCHANGED uprevVars
    <2>1. ~restarted /\ UNCHANGED <<command, uprev, tree, completed, uprevRun, runs>>
      BY <1>6 DEF uprevVars
    <2>2. UprevTypes /\ Recorded /\ Effects /\ OneLineEach /\ (uprevRun.pc # "off" => Running)
      BY <2>1 DEF UprevInv
    <2>3. UprevTypes' /\ OneLineEach'
      BY <2>1, <2>2 DEF UprevTypes, OneLineEach
    <2>4. Effects'
      BY <2>1, <2>2, SameOverlay, SameRecord DEF Effects, Undisturbed
    <2>5. uprevRun'.pc # "off" => Running'
      BY <2>1, <2>2, SameRecord DEF Running
    <2> QED
      BY <2>1, <2>2, <2>3, <2>4, <2>5, SameRecord DEF UprevInv
  <1> QED
    BY <1>1, <1>2, <1>3, <1>4, <1>5, <1>6 DEF UprevNext, UprevEnded

\* When no step remains all of the command's are recorded.
LEMMA NothingRemains ==
    ASSUME Recorded, Remaining(completed) = {}, command \in {"create", "remove", "roll"}
    PROVE  DOMAIN completed = Steps(completed)
  <1>1. ASSUME NEW step \in Steps(completed) PROVE \E i \in Positions : Order[i] = step
    <2>1. CASE step \in CreateSteps
      <3>1. PICK i \in 4 .. 14 : Order[i] = step
        BY <2>1 DEF CreateSteps
      <3>2. i \in Positions
        BY DEF Positions
      <3> QED
        BY <3>1, <3>2
    <2>2. CASE step \in RemoveSteps
      <3>1. PICK i \in 15 .. 20 : Order[i] = step
        BY <2>2 DEF RemoveSteps
      <3>2. i \in Positions
        BY DEF Positions
      <3> QED
        BY <3>1, <3>2
    <2>3. CASE step \in {"create new repo", "build cross compiler", "prepare uprev", "create CL"}
      <3>1. 1 \in Positions /\ 2 \in Positions /\ 3 \in Positions /\ 21 \in Positions
        BY DEF Positions
      <3> QED
        BY <2>3, <3>1, PlaceOfStep
    <2> QED
      BY <1>1, <2>1, <2>2, <2>3 DEF Steps
  <1>2. Steps(completed) \subseteq DOMAIN completed
    BY <1>1, OrderDomain DEF Remaining
  <1> QED
    BY <1>2 DEF Recorded

LEMMA UprevInvSuffices == UprevInv => UprevResult
  <1> SUFFICES ASSUME UprevInv, uprevRun.pc = "done", ~restarted PROVE UprevResult
    BY DEF UprevResult
  <1> DEFINE created == IF command # "remove" /\ Template # 0 THEN {uprev} ELSE {}
             deleted == IF command # "create" THEN {1} ELSE {}
             expected == (1 .. NVersions \union created) \ deleted
             done == DOMAIN completed
  <1>1. UprevTypes /\ Recorded /\ OneLineEach /\ Running /\ Effects
    BY DEF UprevInv
  <1>2. /\ Remaining(completed) = {} /\ uprevRun.steps = completed
        /\ Agrees(tree, done) /\ command \in {"create", "remove", "roll"}
    BY <1>1 DEF Running, Effects, UprevTypes
  <1>3. done = Steps(completed)
    BY <1>1, <1>2, NothingRemains
  <1>4. command # "remove" => "prepare uprev" \in done /\ Template = Prepared
    <2>1. command # "remove" => "prepare uprev" \in done
      BY <1>2, <1>3 DEF Steps
    <2> QED
      BY <1>1, <1>2, <2>1 DEF Recorded, Template
  <1>5. ASSUME NEW add \in CreateSteps PROVE add \in done <=> command # "remove" /\ Template # 0
    <2>1. add \notin RemoveSteps /\ add \notin {"prepare uprev", "create new repo",
                                               "build cross compiler", "create CL"}
      BY StepSets
    <2> QED
      BY <1>2, <1>3, <1>4, <2>1 DEF Steps, Template
  <1>6. ASSUME NEW remove \in RemoveSteps PROVE remove \in done <=> command # "create"
    <2>1. remove \notin CreateSteps /\ remove \notin {"prepare uprev"}
      BY StepSets
    <2> QED
      BY <1>2, <1>3, <2>1 DEF Steps
  <1>7. ASSUME NEW add \in CreateSteps, NEW remove \in RemoveSteps
        PROVE  With(done, add, remove) = expected
    BY <1>5, <1>6 DEF With
  <1>8. /\ {"create rust-host ebuild", "create rust ebuild", "insert host version",
            "insert target version", "upgrade virtual/rust", "turn off profile data",
            "turn on profile data", "update bootstrap version"} \subseteq CreateSteps
        /\ {"remove rust-host ebuild", "remove rust ebuild", "remove host version",
            "remove target version", "remove virtual/rust"} \subseteq RemoveSteps
    BY StepSets
  <1> HIDE DEF expected, done
  <1>9. tree.ebuilds["rust-host"] = expected /\ tree.ebuilds["rust"] = expected
    BY <1>2, <1>7, <1>8 DEF Agrees
  <1>10. Listed(tree, "rust-host") = expected /\ Listed(tree, "rust") = expected
    BY <1>2, <1>7, <1>8 DEF Agrees
  <1>11. tree.virtual = expected
    BY <1>2, <1>7, <1>8 DEF Agrees
  <1>12. tree.profdata
    BY <1>2, <1>5, <1>8 DEF Agrees
  <1>13. created # {} => tree.bootstrap = NVersions
    BY <1>2, <1>5, <1>8 DEF Agrees
  <1>14. runs = 1 => \A p \in RustPackages, v \in Versions : tree.provided[p][v] <= 1
    BY <1>1 DEF OneLineEach
  <1>15. \A p \in RustPackages : /\ tree.ebuilds[p] = expected
                                /\ {v \in Versions : tree.provided[p][v] > 0} = expected
    BY <1>9, <1>10 DEF Listed, RustPackages
  <1> QED
    BY <1>11, <1>12, <1>13, <1>14, <1>15 DEF UprevResult, expected

\* However often rust_uprev is killed, between any two steps or between the effect
\* of a step and its record, and continued, the overlay it leaves when it is done
\* is the one asked for: for any number of versions and of invocations.
THEOREM UprevLeavesResult == UprevSpec => []UprevResult
  <1>1. UprevInit => UprevInv
    BY RustUprevInit
  <1>2. UprevInv /\ [UprevNext]_uprevVars => UprevInv'
    BY UprevInvInductive
  <1>3. UprevInv => UprevResult
    BY UprevInvSuffices
  <1> QED
    BY <1>1, <1>2, <1>3, PTL DEF UprevSpec
=============================================================================
