---------------------------- MODULE AfdoDecider -----------------------------
(***************************************************************************)
(* DeciderState of afdo_prof_analysis.py: the answers of the external      *)
(* decider are saved after every question, and an analysis that has been   *)
(* interrupted is resumed by replaying them.                               *)
(*                                                                         *)
(* What is asked next is determined by the seed and the answers so far, so *)
(* a question is the pair of the two; the search that asks is left out.    *)
(***************************************************************************)
EXTENDS Naturals, Sequences

CONSTANTS
    Seeds,          \* what time.time() or --seed may give
    Statuses,       \* the answers that do not end the analysis
    Questions,      \* how many recorded questions an analysis has
    MaxAnalyses     \* bound on the invocations

ASSUME AfdoAssumption ==
    /\ Seeds # {} /\ Statuses # {} /\ Questions \in Nat /\ MaxAnalyses \in Nat

\* The profiles that bisect_profiles_wrapper tests before the bisection, whose
\* answers are not recorded (save_run=False).
Checks == 2

VARIABLES
    truth,      \* what the decider says of each question it has been asked
    stateFile,  \* the file: seed and accumulated_results, or NoFile
    decider,    \* the DeciderState of the running analysis, with its progress
    analyses    \* invocations so far

afdoVars == <<truth, stateFile, decider, analyses>>

NoFile == <<>>
Idle == [pc |-> "off", seed |-> CHOOSE s \in Seeds : TRUE, saved |-> <<>>, accumulated |-> <<>>, checks |-> 0]

AfdoInit == truth = <<>> /\ stateFile = NoFile /\ decider = Idle /\ analyses = 0

\* Mutant: the answers are restored without the seed they belong to.
LoadAnswers(seed) ==
    [seed |-> seed, saved |-> IF stateFile = NoFile THEN <<>> ELSE stateFile.accumulated]

\* load_state: the seed and the answers of the file, if there is one.
LoadState(seed) ==
    IF stateFile = NoFile THEN [seed |-> seed, saved |-> <<>>]
    ELSE [seed |-> stateFile.seed, saved |-> stateFile.accumulated]

StartAnalysis(no_resume) ==
    /\ decider.pc \in {"off", "done"} /\ analyses < MaxAnalyses
    /\ \E seed \in Seeds :
          LET loaded == IF no_resume THEN [seed |-> seed, saved |-> <<>>] ELSE LoadState(seed)
          IN  decider' = [Idle EXCEPT !.pc = "run", !.seed = loaded.seed, !.saved = loaded.saved]
    /\ analyses' = analyses + 1
    /\ UNCHANGED <<truth, stateFile>>

SaveState(accumulated) ==
    stateFile' = [seed |-> decider.seed, accumulated |-> accumulated]

\* run with save_run=False: the decider is asked even when there are answers to
\* replay, and the state is saved although nothing has been replayed.
Check ==
    /\ decider.pc = "run" /\ decider.checks < Checks
    /\ SaveState(decider.accumulated)
    /\ decider' = [decider EXCEPT !.checks = @ + 1]
    /\ UNCHANGED <<truth, analyses>>

\* run with an answer left to replay.
Replay ==
    LET accumulated == Append(decider.accumulated, Head(decider.saved))
    IN  /\ decider.pc = "run" /\ decider.checks = Checks /\ decider.saved # <<>>
        /\ decider' = [decider EXCEPT !.saved = Tail(@), !.accumulated = accumulated]
        /\ SaveState(accumulated)
        /\ UNCHANGED <<truth, analyses>>

\* run with the external decider, which answers the same question alike.
Ask ==
    LET question == <<decider.seed, decider.accumulated>>
    IN  /\ decider.pc = "run" /\ decider.checks = Checks
        /\ decider.saved = <<>> /\ Len(decider.accumulated) < Questions
        /\ \E status \in Statuses :
              LET accumulated == Append(decider.accumulated, status)
              IN  /\ question \in DOMAIN truth => truth[question] = status
                  /\ truth' = [q \in DOMAIN truth \union {question} |->
                                  IF q = question THEN status ELSE truth[q]]
                  /\ decider' = [decider EXCEPT !.accumulated = accumulated]
                  /\ SaveState(accumulated)
        /\ UNCHANGED analyses

\* The results are written and the state file is removed, or renamed away.
Complete ==
    /\ decider.pc = "run" /\ decider.checks = Checks
    /\ Len(decider.accumulated) = Questions
    /\ decider' = [decider EXCEPT !.pc = "done"]
    /\ stateFile' = NoFile
    /\ UNCHANGED <<truth, analyses>>

\* A check fails, the decider answers PROBLEM_STATUS or something unknown, or
\* the analysis is interrupted.
Stop ==
    /\ decider.pc = "run"
    /\ decider' = Idle
    /\ UNCHANGED <<truth, stateFile, analyses>>

AfdoEnded == decider.pc # "run" /\ analyses = MaxAnalyses /\ UNCHANGED afdoVars

AfdoNext ==
    \/ \E no_resume \in BOOLEAN : StartAnalysis(no_resume)
    \/ Check \/ Replay \/ Ask \/ Complete \/ Stop \/ AfdoEnded

AfdoSpec == AfdoInit /\ [][AfdoNext]_afdoVars

-----------------------------------------------------------------------------
\* answers are what the decider says of each question on the way of a seed.
Truthful(seed, answers) ==
    \A k \in 1 .. Len(answers) :
        LET question == <<seed, SubSeq(answers, 1, k - 1)>>
        IN  question \in DOMAIN truth /\ truth[question] = answers[k]

\* Through any interruptions, resumptions and fresh starts an analysis only goes
\* by answers that the decider has given to the very questions it asks, and so
\* do the state file and what is left to replay.
AnswersAreTrue ==
    /\ Truthful(decider.seed, decider.accumulated \o decider.saved)
    /\ stateFile # NoFile => Truthful(stateFile.seed, stateFile.accumulated)
=============================================================================
