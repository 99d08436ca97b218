---------------------------- MODULE ResultsCache ----------------------------
(***************************************************************************)
(* crosperf/results_cache.py: the directories in which benchmark runs keep *)
(* their results and look for those of earlier ones.  The runs of several  *)
(* experiments use them at the same time, and there is no lock.            *)
(*                                                                         *)
(* The runs here are of one test on one image; what the names of their     *)
(* directories differ in is the machine.  Every command takes its steps on *)
(* its own: rm file by file, mv at once or, between file systems, file by  *)
(* file.  A file that is being copied counts as missing.                   *)
(***************************************************************************)
EXTENDS Naturals, FiniteSets

CONSTANTS
    CacheRuns,      \* the benchmark runs
    Hosts,           \* the machines, label.remote
    FirstHost,       \* label.remote[0]
    CacheOptions,   \* the cache_conditions that an experiment may have
    NoRun           \* no benchmark run

\* FALSE (rerun), RUN_SUCCEEDED and SAME_MACHINE_MATCH; and the temporary
\* directory is on the file system of the cache.
ASSUME CacheAssumption ==
    /\ FirstHost \in Hosts /\ NoRun \notin CacheRuns
    /\ CacheOptions \subseteq [rerun : BOOLEAN, succeeded : BOOLEAN, same : BOOLEAN]

VARIABLES
    sameFs,     \* os.rename works between the temporary directory and the cache
    condition,  \* cache_conditions
    doing,      \* doing[r]: the next step of r
    ranOn,        \* cache.machine, NoRun before there is one
    ok,         \* ok[r]: the retval of its test is 0
    dir,        \* dir[d]: the cache directory of the results on d
    target,     \* target[r]: the directory that r reads or writes
    got,        \* got[r]: the runs that stored what r has read
    stored,     \* history: the run that stored dir[d] and that nobody has disturbed
    expected    \* history: what r reads is of this run, or r itself while it is
                \* alone on the directory it changes; NoRun once it is disturbed

cacheVars == <<sameFs, condition, doing, ranOn, ok, dir, target, got, stored, expected>>

\* The pickled results, the tarball, and a directory moved inside.
CacheFiles == {"results", "tarball", "nested"}
NoFiles == [f \in CacheFiles |-> NoRun]
NoDir == [f \in {} |-> NoRun]
IsDir(d) == dir[d] # NoDir
IsEmpty(d) == dir[d] = NoFiles

\* What StoreToCacheDir has put into its temporary directory.
TempFiles(r) == [f \in CacheFiles |-> IF f = "nested" THEN NoRun ELSE r]

CacheInit ==
    /\ sameFs \in BOOLEAN
    /\ condition \in [CacheRuns -> CacheOptions]
    /\ doing = [r \in CacheRuns |-> IF condition[r].rerun THEN "clear" ELSE "glob"]
    /\ ranOn = [r \in CacheRuns |-> NoRun]
    /\ ok = [r \in CacheRuns |-> TRUE]
    /\ dir = [d \in Hosts |-> NoDir]
    /\ target = [r \in CacheRuns |-> FirstHost]
    /\ got = [r \in CacheRuns |-> NoFiles]
    /\ stored = [d \in Hosts |-> NoRun]
    /\ expected = [r \in CacheRuns |-> NoRun]

Do(r, step) == doing' = [doing EXCEPT ![r] = step]

\* r has a command at work on the directory of d.
Writing(r, d) == target[r] = d /\ doing[r] \in {"rmtree", "rmclear", "rm", "mv", "copy"}

\* r begins to change the directory of d.
Disturb(r, d) ==
    /\ stored' = [stored EXCEPT ![d] = NoRun]
    /\ expected' = [x \in CacheRuns |->
           IF x = r THEN IF \E w \in CacheRuns \ {r} : Writing(w, d) THEN NoRun ELSE r
           ELSE IF target[x] = d THEN NoRun ELSE expected[x]]

-----------------------------------------------------------------------------
(* Removing a directory *)

RemoveFile(d, f) == dir' = [dir EXCEPT ![d][f] = NoRun]

\* One step of a recursive removal: of a file, or of the directory when the
\* files are gone.  A directory that was moved inside in the meantime may be
\* overlooked, and the directory stays.
RemoveOne(r, next) ==
    LET d == target[r] IN
    \/ /\ IsDir(d) /\ \E f \in CacheFiles : dir[d][f] # NoRun /\ RemoveFile(d, f)
       /\ UNCHANGED doing
    \/ IsDir(d) /\ IsEmpty(d) /\ dir' = [dir EXCEPT ![d] = NoDir] /\ Do(r, next)
    \/ IsDir(d) /\ dir[d]["nested"] # NoRun /\ expected[r] = NoRun /\ UNCHANGED dir /\ Do(r, next)
    \/ ~IsDir(d) /\ UNCHANGED dir /\ Do(r, next)

\* _ClearCacheEntries of the experiment: no machine is assigned yet, so that
\* the directory is that of the label's first one.
Clear(r) ==
    /\ doing[r] = "clear"
    /\ IF IsDir(FirstHost)
       THEN Disturb(r, FirstHost) /\ Do(r, "rmtree")
       ELSE Do(r, "rmresult") /\ UNCHANGED <<stored, expected>>
    /\ UNCHANGED <<sameFs, condition, ranOn, ok, dir, target, got>>

\* shutil.rmtree, which raises when somebody else removes things.
RmTree(r) ==
    /\ doing[r] = "rmtree"
    /\ \/ RemoveOne(r, "rmresult") /\ IsDir(FirstHost)
       \/ ~IsDir(FirstHost) /\ Do(r, "raised") /\ UNCHANGED dir
    /\ UNCHANGED <<sameFs, condition, ranOn, ok, target, got, stored, expected>>

\* ReadResult with CacheConditions.FALSE.
ClearResult(r) ==
    /\ doing[r] = "rmresult"
    /\ Disturb(r, FirstHost) /\ Do(r, "rmclear")
    /\ UNCHANGED <<sameFs, condition, ranOn, ok, dir, target, got>>

RmClear(r) ==
    /\ doing[r] = "rmclear"
    /\ RemoveOne(r, "test")
    /\ UNCHANGED <<sameFs, condition, ranOn, ok, target, got, stored, expected>>

-----------------------------------------------------------------------------
(* ReadResult *)

MatchingDirs(r) == {d \in Hosts : IsDir(d) /\ (condition[r].same => d = FirstHost)}

\* GetCacheDirForRead takes the first of the directories found.
FindDir(r) ==
    /\ doing[r] = "glob"
    /\ \/ MatchingDirs(r) = {} /\ Do(r, "test") /\ UNCHANGED <<target, expected>>
       \/ \E d \in MatchingDirs(r) :
             /\ target' = [target EXCEPT ![r] = d]
             /\ expected' = [expected EXCEPT ![r] =
                    IF \E w \in CacheRuns : Writing(w, d) THEN NoRun ELSE stored[d]]
             /\ Do(r, "isdir")
    /\ UNCHANGED <<sameFs, condition, ranOn, ok, dir, got, stored>>

TestDir(r) ==
    /\ doing[r] = "isdir"
    /\ Do(r, IF IsDir(target[r]) THEN "readresults" ELSE "test")
    /\ UNCHANGED <<sameFs, condition, ranOn, ok, dir, target, got, stored, expected>>

Has(r, f) == IsDir(target[r]) /\ dir[target[r]][f] # NoRun

\* PopulateFromCacheDir.  Results that are missing are no RuntimeError: what
\* is raised ends the run.
ReadResults(r) ==
    /\ doing[r] = "readresults"
    /\ IF Has(r, "results")
       THEN /\ got' = [got EXCEPT ![r]["results"] = dir[target[r]]["results"]]
            /\ Do(r, "untar")
       ELSE Do(r, "readraised") /\ UNCHANGED got
    /\ UNCHANGED <<sameFs, condition, ranOn, ok, dir, target, stored, expected>>

\* Mutant: the return value of tar is not looked at.
UntarIfThere(r) == TRUE

Untars(r) == Has(r, "tarball")

ReadTarball(r) ==
    LET retval0 == ok[got[r]["results"]] IN
    /\ doing[r] = "untar"
    /\ got' = [got EXCEPT ![r]["tarball"] = IF Has(r, "tarball") THEN dir[target[r]]["tarball"] ELSE NoRun]
    /\ Do(r, IF Untars(r) /\ (condition[r].succeeded => retval0) THEN "hit" ELSE "missed")
    /\ UNCHANGED <<sameFs, condition, ranOn, ok, dir, target, stored, expected>>

-----------------------------------------------------------------------------
(* The test, and StoreResult *)

\* The machine is acquired and the test is run; an exception ends the run, also
\* that of a test that has left no results directory.
Test(r) ==
    /\ doing[r] \in {"test", "missed"}
    /\ \/ /\ \E d \in Hosts : ranOn' = [ranOn EXCEPT ![r] = d] /\ target' = [target EXCEPT ![r] = d]
          /\ \E retval0 \in BOOLEAN : ok' = [ok EXCEPT ![r] = retval0]
          /\ Do(r, "exists")
       \/ Do(r, "raised") /\ UNCHANGED <<ranOn, target, ok>>
    /\ got' = [got EXCEPT ![r] = NoFiles]
    /\ expected' = [expected EXCEPT ![r] = NoRun]
    /\ UNCHANGED <<sameFs, condition, dir, stored>>

\* Mutant: what is in the cache directory is left there.
MoveAtOnce(r) == "mv"

IfExists(r) == IF IsDir(target[r]) THEN "rm" ELSE "mv"

StartStore(r) ==
    /\ doing[r] = "exists"
    /\ Disturb(r, target[r]) /\ Do(r, IfExists(r))
    /\ UNCHANGED <<sameFs, condition, ranOn, ok, dir, target, got>>

RmOld(r) ==
    /\ doing[r] = "rm"
    /\ RemoveOne(r, "mv")
    /\ UNCHANGED <<sameFs, condition, ranOn, ok, target, got, stored, expected>>

\* mv: into a directory that is there, else by renaming or by copying.
Move(r) ==
    LET d == target[r] IN
    /\ doing[r] = "mv"
    /\ \/ /\ IsDir(d) \/ sameFs
          /\ dir' = [dir EXCEPT ![d] = IF IsDir(d) THEN [@ EXCEPT !["nested"] = r] ELSE TempFiles(r)]
          /\ Do(r, "stored")
          /\ stored' = [stored EXCEPT ![d] = expected[r]]
       \/ /\ ~IsDir(d) /\ ~sameFs
          /\ dir' = [dir EXCEPT ![d] = NoFiles]
          /\ Do(r, "copy")
          /\ UNCHANGED stored
    /\ UNCHANGED <<sameFs, condition, ranOn, ok, target, got, expected>>

\* mv between file systems: the next file, or the end; it fails when the
\* directory has been removed.
CopyOne(r) ==
    LET d == target[r]
        Todo == {f \in CacheFiles : TempFiles(r)[f] = r /\ ~(IsDir(d) /\ dir[d][f] = r)}
    IN  /\ doing[r] = "copy"
        /\ \/ /\ IsDir(d) /\ \E f \in Todo : dir' = [dir EXCEPT ![d][f] = r]
              /\ UNCHANGED <<doing, stored>>
           \/ /\ IsDir(d) /\ Todo = {}
              /\ Do(r, "stored")
              /\ stored' = [stored EXCEPT ![d] = expected[r]]
              /\ UNCHANGED dir
           \/ ~IsDir(d) /\ Do(r, "raised") /\ UNCHANGED <<dir, stored>>
        /\ UNCHANGED <<sameFs, condition, ranOn, ok, target, got, expected>>

CacheEnds == {"hit", "stored", "raised", "readraised", "killed"}

\* crosperf is killed, or the experiment is interrupted and ends: what the run
\* knew is gone.
CacheKill(r) ==
    /\ doing[r] \notin CacheEnds
    /\ \A x \in CacheRuns : doing[x] # "killed"   \* bound: one run is killed
    /\ Do(r, "killed")
    /\ target' = [target EXCEPT ![r] = FirstHost]
    /\ got' = [got EXCEPT ![r] = NoFiles]
    /\ expected' = [expected EXCEPT ![r] = NoRun]
    /\ UNCHANGED <<sameFs, condition, ranOn, ok, dir, stored>>

CacheStep(r) ==
    \/ Clear(r) \/ RmTree(r) \/ ClearResult(r) \/ RmClear(r)
    \/ FindDir(r) \/ TestDir(r) \/ ReadResults(r) \/ ReadTarball(r)
    \/ Test(r) \/ StartStore(r) \/ RmOld(r) \/ Move(r) \/ CopyOne(r)
    \/ CacheKill(r)

CacheEnded == (\A r \in CacheRuns : doing[r] \in CacheEnds) /\ UNCHANGED cacheVars

CacheNext == (\E r \in CacheRuns : CacheStep(r)) \/ CacheEnded

CacheSpec == CacheInit /\ [][CacheNext]_cacheVars

-----------------------------------------------------------------------------
\* A run that was alone on a directory from its first look at it to the end of
\* its mv has left there exactly what it stored, whatever was there before; and
\* with mv a rename, runs that store at the same time, find each other's
\* directories and remove each other's files never mix the files of two.
StoredIsWhole ==
    \A d \in Hosts :
        /\ stored[d] # NoRun => dir[d] = TempFiles(stored[d])
        /\ sameFs /\ IsDir(d) /\ dir[d]["results"] # NoRun /\ dir[d]["tarball"] # NoRun =>
              dir[d]["results"] = dir[d]["tarball"]

\* A read that nobody disturbs, of what was stored undisturbed, raises nothing,
\* takes all files from that store, and is a hit exactly when the conditions allow
\* its return value.  Whatever disturbs
\* it, a read never takes results of another machine or of a failed test when
\* the conditions forbid it.
ReadsAreSound ==
    \A r \in CacheRuns :
        LET s == expected[r]
            c == condition[r]
            hits == c.succeeded => ok[s]
        IN  /\ ~c.rerun /\ s # NoRun =>
                  /\ doing[r] \notin {"readraised", "test"}
                  /\ doing[r] = "missed" => ~hits
                  /\ doing[r] = "hit" =>
                        hits /\ got[r]["results"] = s /\ got[r]["tarball"] = s
            /\ doing[r] = "hit" =>
                  /\ got[r]["results"] # NoRun /\ got[r]["tarball"] # NoRun
                  /\ c.succeeded => ok[got[r]["results"]]
                  /\ c.same => ranOn[got[r]["results"]] = FirstHost /\ ranOn[got[r]["tarball"]] = FirstHost
=============================================================================
