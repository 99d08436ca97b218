------------------------- MODULE BinarySearchState --------------------------
(***************************************************************************)
(* binary_search_tool/binary_search_state.py: the search for bad items     *)
(* (object files, packages) and for the bad pass of one bad item, with the *)
(* state file that lets a killed tool resume.                              *)
(*                                                                         *)
(* bss is the BinarySearchState object of the running tool, state the copy *)
(* of it in the state file.  The switch scripts set the items of world     *)
(* good or bad; the test script fails when a bad item is set to bad, or,   *)
(* for passes, when the limits let the bad transformation of the bad pass  *)
(* run.  pc is the next statement that reads or writes something outside   *)
(* the object.                                                             *)
(***************************************************************************)
EXTENDS BinarySearcher

CONSTANTS
    N,                  \* the number of items of get_initial_items
    Options,            \* the options a bisection may be started with
    Iterations,         \* --iterations
    PruneIterations,    \* --prune_iterations
    Passes, Transforms, \* what a build of the bad item counts: its passes, and the
                        \* transformations of the pass that is named
    MaxStarts,          \* bound on the invocations of the tool
    MaxSkips            \* bound on the tests that answer 125

Items == 1 .. N

ASSUME ItemAssumption ==
    N \in Nat \ {0} /\ Iterations \in Nat /\ PruneIterations \in Nat
    /\ MaxStarts \in Nat \ {0} /\ MaxSkips \in Nat

ASSUME PassAssumption == Passes \in Nat \ {0} /\ Transforms \in Nat \ {0}

\* --prune and --pass_bisect exclude each other.
ASSUME OptionAssumption ==
    /\ Options \subseteq [prune : BOOLEAN, pass : BOOLEAN,
                          incremental : BOOLEAN, verify : BOOLEAN]
    /\ \A o \in Options : ~(o.prune /\ o.pass)

VARIABLES
    \* the environment
    bad,        \* the items that make the test fail when they are set to bad
    world,      \* how every item is set
    badPass,    \* the last limit of the passes that keeps the bad pass off
    badTrans,   \* the last limit of its transformations that keeps the bad one off
    skips,      \* tests that may still answer 125
    \* the file system
    state,      \* the object in the state file, or NoState
    tempLink,   \* the temporary link of SaveState exists
    starts,     \* invocations of the tool that are left
    \* the process
    pc, bss,
    passArg,    \* --pass_bisect of this invocation
    phase,      \* what is bisected: "items", "pass" or "transform"
    index,      \* local variable of DoBinarySearchBadPass
    report      \* the numbers of the bad pass and transformation, at the end

limitVars == <<badPass, badTrans>>
envVars == <<bad, limitVars>>
fileVars == <<state, tempLink>>
passVars == <<passArg, phase, index, report>>
vars == <<envVars, world, skips, fileVars, starts, pc, bss, passVars>>

NoState == [mode |-> "none"]

\* A new object, after PopulateItemsUsingCommand.
NewState(o) ==
    [opts |-> o, mode |-> "items",
     all |-> [i \in 1 .. N |-> i], bs |-> NewSearcher(N),
     search |-> 0, pruned |-> 0, found |-> {}, known |-> {},
     good |-> {}, bad |-> {}, resumed |-> FALSE]

Init ==
    /\ bad \in (SUBSET Items) \ {{}}
    /\ badPass = 0 /\ badTrans = 0
    /\ world \in {[i \in Items |-> Good], [i \in Items |-> Bad]}
    /\ skips = MaxSkips
    /\ state = NoState /\ tempLink = FALSE
    /\ starts = MaxStarts - 1
    /\ \E o \in Options : bss = NewState(o) /\ passArg = o.pass
    /\ pc = "verifygood"
    /\ phase = "items" /\ index = 0 /\ report = <<>>

Goto(step) == pc' = step

\* all_items as a set, up to and including index i, and after it.
UpTo(i) == {bss.all[j] : j \in 1 .. (i + 1)}
After(i) == {bss.all[j] : j \in (i + 2) .. Len(bss.all)}

\* The sets of GetNextItems for the index under test.
BadItems == UpTo(bss.bs.current)
GoodItems == After(bss.bs.current) \cup bss.known

-----------------------------------------------------------------------------
(* SwitchToGood and SwitchToBad *)

ToSwitch(items, current) == IF bss.opts.incremental THEN items \ current ELSE items

Switched(items, status) ==
    [i \in Items |-> IF i \in items THEN status ELSE world[i]]

SwitchToGood(items) ==
    LET s == ToSwitch(items, bss.good) IN
    /\ world' = Switched(s, Good)
    /\ bss' = [bss EXCEPT !.good = @ \cup s, !.bad = @ \ s]

SwitchToBad(items) ==
    LET s == ToSwitch(items, bss.bad) IN
    /\ world' = Switched(s, Bad)
    /\ bss' = [bss EXCEPT !.bad = @ \cup s, !.good = @ \ s]

\* What the test script answers for the items.
ItemStatus == IF \E i \in bad : world[i] = Bad THEN Bad ELSE Good

-----------------------------------------------------------------------------
(* DoVerify: the items all good must pass, all bad must fail *)

\* A test that cannot tell fails the verification.
Verified(next) ==
    \/ Goto(next) /\ UNCHANGED skips
    \/ Goto("raised") /\ skips > 0 /\ skips' = skips - 1

VerifyGood ==
    /\ pc = "verifygood"
    /\ \/ /\ bss.opts.verify
          /\ SwitchToGood(Items)
          /\ Verified("verifybad")
       \/ /\ ~bss.opts.verify
          /\ Goto("outer")
          /\ UNCHANGED <<world, bss, skips>>
    /\ UNCHANGED <<envVars, fileVars, starts, passVars>>

VerifyBad ==
    /\ pc = "verifybad"
    /\ SwitchToBad(Items)
    /\ Verified("outer")
    /\ UNCHANGED <<envVars, fileVars, starts, passVars>>

-----------------------------------------------------------------------------
(* DoSearchBadItems, DoBinarySearchBadItems and the loop they share with   *)
(* DoBinarySearchBadPass                                                   *)

\* Mutant: the resumed flag stays.
EnterSearchStillResumed(b) == [b EXCEPT !.search = IF b.resumed THEN @ ELSE 0]

\* "If in resume mode don't reset search_cycles."
EnterSearch(b) ==
    [b EXCEPT !.search = IF b.resumed THEN @ ELSE 0, !.resumed = FALSE]

\* The condition of the outer loop.
Outer ==
    /\ pc = "outer"
    /\ \/ /\ Len(bss.all) > 1 /\ bss.pruned < PruneIterations
          /\ bss' = EnterSearch(bss)
          /\ Goto("iterate")
       \/ /\ ~(Len(bss.all) > 1 /\ bss.pruned < PruneIterations)
          /\ Goto("command")
          /\ UNCHANGED bss
    /\ UNCHANGED <<envVars, world, skips, fileVars, starts, passVars>>

\* The condition of the inner loop.
Iterate ==
    /\ pc = "iterate"
    /\ IF bss.search < Iterations
       THEN Goto("save") /\ UNCHANGED bss
       ELSE IF phase = "items"
       THEN /\ Goto("command")
            /\ bss' = [bss EXCEPT !.pruned = @ + 1]
       ELSE Goto("passdone") /\ UNCHANGED bss
    /\ UNCHANGED <<envVars, world, skips, fileVars, starts, passVars>>

\* SaveState: the data file is new, the link to it is made under another
\* name; os.symlink raises when that name exists.
Save ==
    /\ pc = "save"
    /\ \/ ~tempLink /\ tempLink' = TRUE /\ Goto("rename")
       \/ tempLink /\ Goto("raised") /\ UNCHANGED tempLink
    /\ UNCHANGED <<envVars, world, skips, state, starts, bss, passVars>>

\* Mutant: a state file that exists is left alone.
RenameOnce ==
    /\ pc = "rename"
    /\ state' = IF state = NoState THEN bss ELSE state
    /\ tempLink' = FALSE
    /\ Goto("next")
    /\ UNCHANGED <<envVars, world, skips, starts, bss, passVars>>

\* ... and renamed over the state file.
Rename ==
    /\ pc = "rename"
    /\ state' = bss
    /\ tempLink' = FALSE
    /\ Goto("next")
    /\ UNCHANGED <<envVars, world, skips, starts, bss, passVars>>

\* GetNextItems; all_items.index raises on the number that the searcher of a
\* resumed pass bisection returns.
NextItem ==
    /\ pc = "next" /\ phase = "items"
    /\ bss' = [bss EXCEPT
           !.search = @ + 1,
           !.bs = IF bss.mode = "items" THEN GetNext(@) ELSE @]
    /\ Goto(IF bss.mode = "items" THEN "good" ELSE "raised")
    /\ UNCHANGED <<envVars, world, skips, fileVars, starts, passVars>>

SwitchGoodItems ==
    /\ pc = "good"
    /\ SwitchToGood(GoodItems)
    /\ Goto("bad")
    /\ UNCHANGED <<envVars, skips, fileVars, starts, passVars>>

SwitchBadItems ==
    /\ pc = "bad"
    /\ SwitchToBad(BadItems)
    /\ Goto("test")
    /\ UNCHANGED <<envVars, skips, fileVars, starts, passVars>>

\* The test answers, or says that it cannot tell.
Answers(status, real) ==
    \/ status = real /\ UNCHANGED skips
    \/ status = Skip /\ skips > 0 /\ skips' = skips - 1

TestItems ==
    /\ pc = "test" /\ phase = "items"
    /\ \E status \in {Good, Bad, Skip} :
          /\ Answers(status, ItemStatus)
          /\ LET bs == SetStatus(bss.bs, status) IN
             /\ bss' = [bss EXCEPT !.bs = bs]
             /\ Goto(IF Terminated(bs) THEN "prune" ELSE "iterate")
    /\ UNCHANGED <<envVars, world, fileVars, starts, passVars>>

\* Mutant: the item that has been found is dropped from the list.
PrunedAway(i) ==
    LET all == SubSeq(bss.all, i + 2, Len(bss.all)) IN
    [bss EXCEPT !.pruned = @ + 1,
                !.found = @ \cup {bss.all[i + 1]},
                !.known = @ \cup {bss.all[j] : j \in 1 .. i},
                !.all = all,
                !.bs = NewSearcher(Len(all))]

\* "Move prune item to the end of the list"; "everything below newly found
\* bad item is now known to be a good item".
Pruned(i) ==
    LET all == SubSeq(bss.all, i + 2, Len(bss.all)) \o <<bss.all[i + 1]>> IN
    [bss EXCEPT !.pruned = @ + 1,
                !.found = @ \cup {bss.all[i + 1]},
                !.known = @ \cup {bss.all[j] : j \in 1 .. i},
                !.all = all,
                !.bs = NewSearcher(Len(all))]

\* The rest of the loop of DoSearchBadItems.
Prune ==
    LET i == bss.bs.current
        item == bss.all[i + 1]
        last == i = Len(bss.all) - 1
        seen == item \in bss.found
    IN  /\ pc = "prune"
        /\ \/ /\ last \/ seen \/ ~bss.opts.prune
              /\ bss' = [bss EXCEPT
                    !.pruned = @ + 1,
                    !.found = @ \cup {item},
                    !.known = IF last \/ seen THEN @
                              ELSE @ \cup {bss.all[j] : j \in 1 .. i}]
              /\ Goto("command")
           \/ /\ ~(last \/ seen) /\ bss.opts.prune
              /\ bss' = Pruned(i)
              /\ Goto("outer")
        /\ UNCHANGED <<envVars, world, skips, fileVars, starts, passVars>>

\* GenerateBadCommandScript wants exactly one bad item, and its script may
\* fail.  Run goes on with its own argument, not with the option that has been
\* saved; without the script that the option generates there is nothing to
\* build.
Command ==
    /\ pc = "command"
    /\ \/ /\ ~bss.opts.pass
          /\ Goto(IF passArg THEN "raised" ELSE "remove")
       \/ /\ bss.opts.pass /\ Cardinality(bss.found) = 1
          /\ Goto(IF passArg THEN "passes" ELSE "remove")
       \/ /\ bss.opts.pass
          /\ Goto("raised")
    /\ UNCHANGED <<envVars, world, skips, fileVars, starts, bss, passVars>>

-----------------------------------------------------------------------------
(* DoSearchBadPass *)

\* A new searcher for the passes; the total has been counted.
StartPhase(p) ==
    /\ phase' = p
    /\ index' = 0
    /\ bss' = [EnterSearch(bss) EXCEPT !.mode = p, !.bs = NewPassSearcher]
    /\ Goto("iterate")

\* Which limits are bad is a fact about the item that has been found.
StartPasses ==
    /\ pc = "passes"
    /\ StartPhase("pass")
    /\ badPass' \in 0 .. Passes - 1 /\ badTrans' \in 0 .. Transforms - 1
    /\ UNCHANGED <<bad, world, skips, fileVars, starts, passArg, report>>

Total == IF phase = "pass" THEN Passes ELSE Transforms

\* GetNext, and the build with that limit.
NextPass ==
    /\ pc = "next" /\ phase # "items"
    /\ bss' = [bss EXCEPT !.search = @ + 1, !.bs = GetNextPass(@, Total)]
    /\ index' = bss'.bs.current
    /\ Goto("test")
    /\ UNCHANGED <<envVars, world, skips, fileVars, starts, passArg, phase, report>>

\* Passes above their limit do not run.  The limit of the transformations is
\* that of the last pass that runs under the reported limit: the bad pass, or,
\* when that limit keeps the bad pass off, an earlier one.
PassStatus ==
    LET runs == (IF phase = "pass" THEN index ELSE report[1]) > badPass IN
    IF runs /\ (phase = "transform" => index > badTrans) THEN Bad ELSE Good

TestPass ==
    /\ pc = "test" /\ phase # "items"
    /\ \E status \in {Good, Bad, Skip} :
          /\ Answers(status, PassStatus)
          /\ LET bs == SetStatusPass(bss.bs, status) IN
             /\ bss' = [bss EXCEPT !.bs = bs]
             /\ Goto(IF TerminatedPass(bs) THEN "passdone" ELSE "iterate")
    /\ UNCHANGED <<envVars, world, fileVars, starts, passVars>>

\* An index of 0 "cannot reproduce good result"; otherwise it is the number
\* that is reported, of the pass and then of its transformation.  A pass without a
\* name in pass_mapping, or without a debug counter, has no second phase.
PassDone ==
    /\ pc = "passdone"
    /\ \/ /\ index = 0
          /\ Goto("raised")
          /\ UNCHANGED <<bss, phase, index, report>>
       \/ /\ index # 0
          /\ report' = Append(report, index)
          /\ \/ phase = "pass" /\ StartPhase("transform")
             \/ phase = "pass" /\ Goto("raised") /\ UNCHANGED <<bss, phase, index>>
             \/ phase = "transform" /\ Goto("remove") /\ UNCHANGED <<bss, phase, index>>
    /\ UNCHANGED <<envVars, world, skips, fileVars, starts, passArg>>

-----------------------------------------------------------------------------
(* The end of Run, and the invocations of the tool *)

RemoveState ==
    /\ pc = "remove"
    /\ state' = NoState
    /\ Goto("done")
    /\ UNCHANGED <<envVars, world, skips, tempLink, starts, bss, passVars>>

Ends == {"done", "raised", "killed", "refused"}

\* What the switch script that is running still has to switch.
Switching ==
    [verifygood |-> Items, verifybad |-> Items,
     good |-> ToSwitch(GoodItems, bss.good), bad |-> ToSwitch(BadItems, bss.bad)]

\* The tool is killed; a switch script may have switched some of its items.
Killed ==
    /\ pc \notin Ends /\ starts > 0
    /\ Goto("killed")
    /\ \/ UNCHANGED world
       \/ /\ pc \in DOMAIN Switching
          /\ \E part \in SUBSET Switching[pc] :
                world' = Switched(part, IF pc \in {"good", "verifygood"}
                                        THEN Good ELSE Bad)
    /\ UNCHANGED <<envVars, skips, fileVars, starts, bss, passVars>>

\* Mutant: the sets of the switched items are kept as they were saved.
LoadedAsSaved(s) == [s EXCEPT !.resumed = TRUE]

\* The object LoadState makes of the saved one s.
Loaded(s) == [s EXCEPT !.resumed = TRUE, !.good = {}, !.bad = {}]

\* Between two invocations "the environment changes, the user makes manual
\* changes, or a previous switch_script corrupted the environment".
Disturbed ==
    \/ UNCHANGED world
    \/ \E status \in {Good, Bad} : world' = [i \in Items |-> status]

\* --resume: "ignoring given options and loading saved options instead".
Resume ==
    /\ pc \in Ends \ {"done"} /\ starts > 0
    /\ starts' = starts - 1
    /\ passArg' \in BOOLEAN
    /\ phase' = "items" /\ index' = 0 /\ report' = <<>>
    /\ \/ state = NoState /\ Goto("refused") /\ UNCHANGED bss
       \/ state # NoState /\ bss' = Loaded(state) /\ Goto("outer")
    /\ Disturbed
    /\ UNCHANGED <<envVars, skips, fileVars>>

\* A bisection that starts again from the beginning.
StartAgain ==
    /\ pc \in Ends \ {"done"} /\ starts > 0
    /\ starts' = starts - 1
    /\ \E o \in Options : bss' = NewState(o) /\ passArg' = o.pass
    /\ phase' = "items" /\ index' = 0 /\ report' = <<>>
    /\ Goto("verifygood")
    /\ Disturbed
    /\ UNCHANGED <<envVars, skips, fileVars>>

\* Nothing more is started.
Ended == pc \in Ends /\ (starts = 0 \/ pc = "done") /\ UNCHANGED vars

Next ==
    \/ VerifyGood \/ VerifyBad \/ Outer \/ Iterate \/ Save \/ Rename
    \/ NextItem \/ SwitchGoodItems \/ SwitchBadItems \/ TestItems \/ Prune
    \/ Command \/ StartPasses \/ NextPass \/ TestPass \/ PassDone \/ RemoveState
    \/ Killed \/ Resume \/ StartAgain \/ Ended

Spec == Init /\ [][Next]_vars

-----------------------------------------------------------------------------
(* Properties *)

Permutes(seq) == \A i, j \in 1 .. Len(seq) : seq[i] = seq[j] => i = j

Object ==
    [opts : Options, mode : {"items", "pass", "transform"}, all : Seq(Items),
     bs : Searcher, search : Nat, pruned : Nat, found : SUBSET Items,
     known : SUBSET Items, good : SUBSET Items, bad : SUBSET Items,
     resumed : BOOLEAN]

\* Every variable has its type; the list of the items has no item twice, and
\* when pruning every item is either in it or known to be good.
TypeOK ==
    /\ bad \in SUBSET Items /\ world \in [Items -> {Good, Bad}]
    /\ badPass \in Nat /\ badTrans \in Nat /\ skips \in Nat /\ starts \in Nat
    /\ bss \in Object /\ state \in Object \cup {NoState}
    /\ Permutes(bss.all)
    /\ bss.opts.prune => bss.known = Items \ {bss.all[i] : i \in 1 .. Len(bss.all)}
    /\ tempLink \in BOOLEAN /\ passArg \in BOOLEAN
    /\ pc \in Ends \cup {"verifygood", "verifybad", "outer", "iterate", "save",
                         "rename", "next", "good", "bad", "test", "prune",
                         "command", "passes", "passdone", "remove"}
    /\ phase \in {"items", "pass", "transform"}
    /\ index \in Nat /\ report \in Seq(Nat)

NoSkip == skips = MaxSkips

\* The test sees the sets that were asked for: exactly the first half of the
\* list is set to bad, and all the other items, those that earlier rounds have
\* taken out of the list included, are set to good.  Incremental switching
\* only switches differences, and an earlier invocation may have been killed
\* inside a switch script.
SetsApplied ==
    pc = "test" /\ phase = "items" =>
        \A i \in Items : world[i] = IF i \in BadItems THEN Bad ELSE Good

\* As long as no test is skipped, an item that is reported is bad and
\* "everything below newly found bad item is now known to be a good item"; and
\* with --prune all the bad items are found, killed and resumed or not.
FindsTheBad ==
    NoSkip =>
        /\ bss.found \subseteq bad /\ bss.known \cap bad = {}
        /\ pc \in {"remove", "done"} /\ bss.opts.prune /\ N > 1 => bss.found = bad

\* The search only goes on while there is an index that it can test: GetNext
\* neither takes the logarithm of 0 nor splits intervals for ever, looking for
\* an index that has not been skipped.
SearchCanGoOn ==
    pc = "next" /\ phase = "items" /\ bss.mode = "items" =>
        bss.bs.lo < bss.bs.hi /\ Untested(bss.bs) # {}

\* "Resume from the last completed iteration": while the items are switched
\* and tested, the state file has the search of this very iteration.
ResumePoint ==
    pc \in {"good", "bad", "test"} /\ phase = "items" =>
        /\ state # NoState
        /\ \A f \in {"all", "found", "known", "pruned"} : state[f] = bss[f]
        /\ GetNext(state.bs) = bss.bs

\* The number of the bad pass that is reported is the last limit that passes
\* the test or the first that fails it; and so is the number of the bad
\* transformation when the bad pass runs under the limit that is reported.
PassWithinOne ==
    NoSkip => \A i \in 1 .. Len(report) :
        i = 1 \/ report[1] > badPass =>
            report[i] - (IF i = 1 THEN badPass ELSE badTrans) \in {0, 1}
=============================================================================
