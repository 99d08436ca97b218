---------------------------- MODULE BisectDriver ----------------------------
(***************************************************************************)
(* binary_search_tool/bisect_driver.py, the compiler wrapper that fills a  *)
(* cache with the object files of a good build and one with those of a bad *)
(* build, and then builds from both as the sets of the binary search tool  *)
(* ask it to; with the switch scripts of sysroot_wrapper and android.      *)
(*                                                                         *)
(* Make runs the compilations of a build in parallel.  The contents of a   *)
(* file are the build it comes from, "new" for one that was compiled while *)
(* bisecting, or "part" while it is being written.                         *)
(***************************************************************************)
EXTENDS Naturals, Sequences, FiniteSets

CONSTANTS
    Compilations,   \* the invocations of the compiler in a build
    ObjectOf,       \* ObjectOf[c]: full_obj_path of one
    DriverOptions,  \* the settings, see DriverAssumption
    MaxSwitches,    \* bound on the tests of the binary search tool
    MaxKills        \* bound on the builds that are killed

Objects == {ObjectOf[c] : c \in Compilations}
Caches == {"good", "bad"}

\* What a build compiles, BISECT_CONTINUE_ON_REDUNDANCY,
\* BISECT_CONTINUE_ON_MISSING, BISECT_WRAPPER_SAFE_MODE, and the scripts, those
\* of android or of sysroot_wrapper.
ASSUME DriverAssumption ==
    /\ DriverOptions \subseteq [build : SUBSET Compilations, redundancy : BOOLEAN,
                                missing : BOOLEAN, safe : BOOLEAN, android : BOOLEAN]
    /\ MaxSwitches \in Nat /\ MaxKills \in Nat

\* The object file and its side effect, the .d or .dwo file.
Files == Objects \X {"o", "d"}
Obj(c) == <<ObjectOf[c], "o">>
Dep(c) == <<ObjectOf[c], "d">>

VARIABLES
    driverOption,
    stage,      \* BISECT_STAGE, or between builds: "built" as it was asked for,
                \* "ready" for the tool without that, "over" for good
    at,         \* at[c]: what compilation c is about to do
    file,       \* file[c]: the file that it caches or restores
    tree,       \* the files of the build
    cache,      \* bisect_dir/good and bisect_dir/bad
    list,       \* their files _LIST
    badSet,     \* BISECT_BAD_SET
    switched,   \* the objects that the tool has switched already
    switches, kills,    \* what is left of the bounds
    torn        \* history: a build was killed while it filled a cache

settings == <<driverOption, badSet, switched, switches, kills, torn>>
driverVars == <<settings, stage, at, file, tree, cache, list>>

Populating == stage \in Caches
Clean == [f \in Files |-> "none"]
Exists(f) == tree[f] # "none"

\* Make runs what is missing.
Needed(t) == {c \in driverOption.build : t[Obj(c)] = "none"}

Start(cs, t) ==
    /\ at' = [c \in Compilations |-> IF c \in cs THEN "start" ELSE "end"]
    /\ file' = [c \in Compilations |-> Obj(c)]
    /\ tree' = t

DriverInit ==
    /\ driverOption \in DriverOptions
    /\ stage = "good"
    /\ at = [c \in Compilations |-> IF c \in driverOption.build THEN "start" ELSE "end"]
    /\ file = [c \in Compilations |-> Obj(c)]
    /\ tree = Clean
    /\ cache = [k \in Caches |-> Clean] /\ list = [k \in Caches |-> {}]
    /\ badSet = {} /\ switched = {} /\ torn = FALSE
    /\ switches = MaxSwitches /\ kills = MaxKills

Go(c, step) == at' = [at EXCEPT ![c] = step]
Write(f, contents) == tree' = [tree EXCEPT ![f] = contents]

-----------------------------------------------------------------------------
(* bisect_populate *)

\* The compiler fails, or it writes both files, or reports a success although
\* it has written neither.
CompileToCache(c) ==
    /\ Populating /\ at[c] = "start"
    /\ \/ Go(c, "fail") /\ UNCHANGED tree
       \/ /\ tree' = [tree EXCEPT ![Obj(c)] = stage, ![Dep(c)] = stage]
          /\ Go(c, "cache")
       \/ Go(c, "cache") /\ UNCHANGED tree
    /\ UNCHANGED <<settings, stage, file, cache, list>>

\* After the object comes the list, after the side effect the end.
AfterCaching(c) == IF file[c] = Obj(c) THEN "list" ELSE "end"

\* cache_file up to the copy: another compilation of the file may have cached
\* it, or be about to.
CacheFile(c) ==
    /\ at[c] = "cache"
    /\ Go(c, IF ~Exists(file[c]) THEN "end"
             ELSE IF cache[stage][file[c]] = "none" THEN "opencopy"
             ELSE IF driverOption.redundancy THEN AfterCaching(c)
             ELSE "fail")
    /\ UNCHANGED <<settings, stage, file, tree, cache, list>>

\* shutil.copy2 in two steps; a file that is complete is read-only.
OpenCopy(c) ==
    /\ at[c] = "opencopy"
    /\ IF cache[stage][file[c]] \in Caches
       THEN Go(c, "fail") /\ UNCHANGED cache
       ELSE Go(c, "copy") /\ cache' = [cache EXCEPT ![stage][file[c]] = "part"]
    /\ UNCHANGED <<settings, stage, file, tree, list>>

EndCopy(c) ==
    /\ at[c] = "copy"
    /\ cache' = [cache EXCEPT ![stage][file[c]] = tree[file[c]]]
    /\ Go(c, AfterCaching(c))
    /\ UNCHANGED <<settings, stage, file, tree, list>>

AppendToList(c) ==
    /\ at[c] = "list"
    /\ list' = [list EXCEPT ![stage] = @ \union {ObjectOf[c]}]
    /\ file' = [file EXCEPT ![c] = Dep(c)]
    /\ Go(c, "cache")
    /\ UNCHANGED <<settings, stage, tree, cache>>

-----------------------------------------------------------------------------
(* bisect_triage *)

\* The common.sh of android gives BISECT_BAD_SET, which the tool has exported
\* with the name of its set, the name of the list of the bad build.
WhichCache(o) ==
    IF o \in (IF driverOption.android THEN list["bad"] ELSE badSet) THEN "bad" ELSE "good"

Triage(c) ==
    /\ stage = "triage" /\ at[c] = "start"
    /\ \/ /\ ObjectOf[c] \notin list["good"] /\ ~driverOption.missing
          /\ Go(c, "fail")
          /\ UNCHANGED <<file, tree>>
       \/ /\ ObjectOf[c] \notin list["good"] /\ driverOption.missing
          /\ tree' = [tree EXCEPT ![Obj(c)] = "new", ![Dep(c)] = "new"]
          /\ Go(c, "end")
          /\ UNCHANGED file
       \/ /\ ObjectOf[c] \in list["good"] => driverOption.safe
          /\ driverOption.missing \/ ObjectOf[c] \in list["good"]
          /\ Go(c, "fail")
          /\ UNCHANGED <<file, tree>>
       \/ /\ ObjectOf[c] \in list["good"] /\ driverOption.safe
          /\ tree' = [tree EXCEPT ![Obj(c)] = "none", ![Dep(c)] = "new"]
          /\ Go(c, "restore")
          /\ UNCHANGED file
       \/ /\ ObjectOf[c] \in list["good"] /\ ~driverOption.safe
          /\ file' = [file EXCEPT ![c] = Dep(c)]
          /\ Go(c, "restore")
          /\ UNCHANGED tree
    /\ UNCHANGED <<settings, stage, cache, list>>

\* restore_file up to the copy.
RestoreFile(c) ==
    /\ stage = "triage" /\ at[c] = "restore"
    /\ IF cache[WhichCache(ObjectOf[c])][file[c]] = "none"
       THEN Go(c, "fail") /\ UNCHANGED tree
       ELSE Go(c, "copyback") /\ Write(file[c], "part")
    /\ UNCHANGED <<settings, stage, file, cache, list>>

\* The end of the copy; after the side effect the object, if it is not there.
CopyBack(c) ==
    /\ stage = "triage" /\ at[c] = "copyback"
    /\ Write(file[c], cache[WhichCache(ObjectOf[c])][file[c]])
    /\ IF file[c] = Dep(c) /\ ~Exists(Obj(c))
       THEN Go(c, "restore") /\ file' = [file EXCEPT ![c] = Obj(c)]
       ELSE Go(c, "end") /\ UNCHANGED file
    /\ UNCHANGED <<settings, stage, cache, list>>

-----------------------------------------------------------------------------
(* The builds *)

\* Make starts nothing new when something has failed.
Finished ==
    /\ \A c \in Compilations : at[c] \in {"start", "end", "fail"}
    /\ (\E c \in Compilations : at[c] = "start") => \E c \in Compilations : at[c] = "fail"

Failed == \E c \in Compilations : at[c] = "fail"

\* The setup.sh of android refuses lists that differ.
MayBisect == driverOption.android => list["good"] = list["bad"]

PopulateEnds ==
    /\ Populating /\ Finished
    /\ IF stage = "good" /\ ~Failed
       THEN stage' = "bad" /\ Start(driverOption.build, Clean)
       ELSE /\ stage' = IF Failed \/ ~MayBisect THEN "over" ELSE "ready"
            /\ UNCHANGED <<at, file, tree>>
    /\ UNCHANGED <<settings, cache, list>>

TriageEnds ==
    /\ stage = "triage" /\ Finished
    /\ stage' = IF Failed THEN "ready" ELSE "built"
    /\ UNCHANGED <<settings, at, file, tree, cache, list>>

\* The objects that the switch scripts are called with: those that change sides
\* and those that have not been switched yet.
Changing(new) == {o \in list["good"] : o \notin switched \/ (o \in new) # (o \in badSet)}

\* The scripts remove the objects, or make them links into the cache; what is
\* missing is built, and whatever else make takes to be out of date.
Switch ==
    /\ stage \in {"built", "ready"} /\ switches > 0
    /\ \E new \in SUBSET list["good"], stale \in SUBSET driverOption.build :
          LET Linked(o) == cache[IF o \in new THEN "bad" ELSE "good"][<<o, "o">>]
              t == [f \in Files |-> IF f[2] = "d" \/ f[1] \notin Changing(new) THEN tree[f]
                                    ELSE IF driverOption.android THEN Linked(f[1]) ELSE "none"]
          IN  Start(Needed(t) \union stale, t) /\ badSet' = new
    /\ switched' = list["good"]
    /\ stage' = "triage" /\ switches' = switches - 1
    /\ UNCHANGED <<driverOption, kills, torn, cache, list>>

\* Mutant: the tool is resumed with the sets that it had switched.
SwitchedAsSaved == switched

\* A resumed tool switches all items again.
SwitchedAfterResume == {}

\* A build is killed.  A build that fills a cache is started again on what it
\* has built, in the hope of the best.
Kill ==
    /\ stage \in {"good", "bad", "triage"} /\ kills > 0
    /\ kills' = kills - 1
    /\ IF Populating
       THEN Start(Needed(tree), tree) /\ torn' = TRUE /\ UNCHANGED <<stage, switched>>
       ELSE stage' = "ready" /\ switched' = SwitchedAfterResume /\ UNCHANGED <<at, file, tree, torn>>
    /\ UNCHANGED <<driverOption, badSet, switches, cache, list>>

DriverEnded ==
    /\ stage = "over" \/ (stage \in {"built", "ready"} /\ switches = 0)
    /\ UNCHANGED driverVars

DriverNext ==
    \/ \E c \in Compilations :
          \/ CompileToCache(c) \/ CacheFile(c) \/ OpenCopy(c) \/ EndCopy(c) \/ AppendToList(c)
          \/ Triage(c) \/ RestoreFile(c) \/ CopyBack(c)
    \/ PopulateEnds \/ TriageEnds \/ Switch \/ Kill \/ DriverEnded

DriverSpec == DriverInit /\ [][DriverNext]_driverVars

-----------------------------------------------------------------------------
\* A build that ends without an error holds every object file of the bisection
\* as the sets of the tool ask for it, and so do, for removed objects and
\* without the safe mode, its dependency files: through any switches of some of
\* the items, failed builds, and builds killed while they copied.  A cache that
\* was torn is not told from a whole one, unless redundant compilations are
\* errors and the two lists are compared.
BuildIsAsAsked ==
    stage = "built" =>
        LET Asked(o) == IF o \in badSet THEN "bad" ELSE "good"
        IN  /\ ~torn \/ (driverOption.android /\ ~driverOption.redundancy) =>
                  \A o \in list["good"] : tree[<<o, "o">>] = Asked(o)
            /\ ~torn /\ ~driverOption.android /\ ~driverOption.safe =>
                  \A o \in list["good"] : tree[<<o, "d">>] = Asked(o)
=============================================================================
