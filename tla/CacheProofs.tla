----------------------------- MODULE CacheProofs -----------------------------
(***************************************************************************)
(* Proofs about ResultsCache for any benchmark runs, machines and options: *)
(* what a run stores undisturbed is whole, and what the others read of it  *)
(* is what it stored.                                                      *)
(***************************************************************************)
EXTENDS ResultsCache, TLAPS

ClearSteps == {"clear", "rmtree", "rmresult", "rmclear"}
ReadSteps == {"isdir", "readresults", "untar"}
StoreSteps == {"exists", "rm", "mv", "copy"}
WriteSteps == {"rmtree", "rmclear", "rm", "mv", "copy"}
Doings == ClearSteps \cup ReadSteps \cup StoreSteps \cup CacheEnds
          \cup {"glob", "test", "missed"}

\* Where a run is that has put files into the cache.
Wrote == {"copy", "stored", "raised", "killed"}

Files == [CacheFiles -> CacheRuns \cup {NoRun}]

CacheTypes ==
    /\ sameFs \in BOOLEAN
    /\ condition \in [CacheRuns -> CacheOptions]
    /\ doing \in [CacheRuns -> Doings]
    /\ DOMAIN ranOn = CacheRuns
    /\ ok \in [CacheRuns -> BOOLEAN]
    /\ dir \in [Hosts -> Files \cup {NoDir}]
    /\ target \in [CacheRuns -> Hosts]
    /\ got \in [CacheRuns -> Files]
    /\ stored \in [Hosts -> CacheRuns \cup {NoRun}]
    /\ expected \in [CacheRuns -> CacheRuns \cup {NoRun}]

\* The directory that a run is at.
TargetFits(r) ==
    /\ doing[r] \in ClearSteps => condition[r].rerun /\ target[r] = FirstHost
    /\ doing[r] \in StoreSteps => ranOn[r] = target[r]
    /\ doing[r] \in ReadSteps /\ condition[r].same => target[r] = FirstHost
    /\ doing[r] = "copy" => ~sameFs

\* A run that is alone on its directory finds there what it has left.
WritesAlone(r) ==
    doing[r] \in WriteSteps =>
        /\ expected[r] \in {r, NoRun}
        /\ expected[r] = r =>
              /\ \A w \in CacheRuns \ {r} : ~Writing(w, target[r])
              /\ doing[r] = "mv" => ~IsDir(target[r])
              /\ doing[r] = "copy" => /\ IsDir(target[r])
                                      /\ \A f \in CacheFiles :
                                            dir[target[r]][f] \in {NoRun, TempFiles(r)[f]}

\* Nobody is at work on what was stored undisturbed.
StoredAlone(d) ==
    stored[d] # NoRun =>
        doing[stored[d]] = "stored" /\ \A w \in CacheRuns : ~Writing(w, d)

FilesKnown(d) ==
    IsDir(d) => \A f \in CacheFiles :
        dir[d][f] # NoRun => doing[dir[d][f]] \in Wrote /\ ranOn[dir[d][f]] = d

GotKnown(r) ==
    /\ \A f \in CacheFiles : got[r][f] # NoRun =>
          /\ doing[got[r][f]] \in Wrote
          /\ condition[r].same => ranOn[got[r][f]] = FirstHost
    /\ doing[r] \in {"untar", "hit", "missed"} => got[r]["results"] # NoRun

\* What a run expects to read is there.
ExpectsStored(r) ==
    /\ doing[r] = "glob" => expected[r] = NoRun
    /\ doing[r] \in ReadSteps /\ expected[r] # NoRun =>
          /\ stored[target[r]] = expected[r]
          /\ doing[r] = "untar" => got[r]["results"] = expected[r]
    /\ doing[r] \in {"hit", "missed"} /\ expected[r] # NoRun => doing[expected[r]] = "stored"

CacheInv ==
    /\ CacheTypes
    /\ \A r \in CacheRuns : TargetFits(r) /\ WritesAlone(r) /\ GotKnown(r) /\ ExpectsStored(r)
    /\ \A d \in Hosts : StoredAlone(d) /\ FilesKnown(d)
    /\ StoredIsWhole /\ ReadsAreSound

-----------------------------------------------------------------------------
(* The initial states, and the types *)

LEMMA CacheInitInv == CacheInit => CacheInv
  <1> SUFFICES ASSUME CacheInit PROVE CacheInv
    OBVIOUS
  <1>1. NoFiles \in Files /\ NoDir \notin Files
    BY DEF NoFiles, NoDir, Files, CacheFiles
  <1>2. CacheTypes
    BY <1>1, CacheAssumption
       DEF CacheInit, CacheTypes, Doings, ClearSteps, ReadSteps, StoreSteps, CacheEnds
  <1>3. ASSUME NEW r \in CacheRuns
        PROVE  TargetFits(r) /\ WritesAlone(r) /\ GotKnown(r) /\ ExpectsStored(r)
    <2>1. /\ doing[r] = IF condition[r].rerun THEN "clear" ELSE "glob"
          /\ target[r] = FirstHost /\ expected[r] = NoRun /\ got[r] = NoFiles
      BY <1>3 DEF CacheInit
    <2> QED
      BY <2>1 DEF TargetFits, WritesAlone, GotKnown, ExpectsStored, NoFiles, CacheFiles,
         ClearSteps, ReadSteps, StoreSteps, WriteSteps
  <1>4. ASSUME NEW d \in Hosts PROVE dir[d] = NoDir /\ stored[d] = NoRun
    BY <1>4 DEF CacheInit
  <1>5. \A d \in Hosts : StoredAlone(d) /\ FilesKnown(d)
    BY <1>4 DEF StoredAlone, FilesKnown, IsDir
  <1>6. StoredIsWhole
    BY <1>4 DEF StoredIsWhole, IsDir
  <1>7. ReadsAreSound
    BY DEF CacheInit, ReadsAreSound
  <1> QED
    BY <1>2, <1>3, <1>5, <1>6, <1>7 DEF CacheInv

LEMMA FileTypes ==
    /\ NoFiles \in Files /\ NoDir \notin Files
    /\ \A r \in CacheRuns : TempFiles(r) \in Files
    /\ \A F \in Files, f \in CacheFiles, v \in CacheRuns \cup {NoRun} :
          [F EXCEPT ![f] = v] \in Files
  BY DEF NoFiles, NoDir, Files, CacheFiles, TempFiles

\* A run begins to change a directory.
LEMMA DisturbTypes ==
    ASSUME CacheTypes, NEW r \in CacheRuns, NEW d \in Hosts, Disturb(r, d)
    PROVE  /\ stored' \in [Hosts -> CacheRuns \cup {NoRun}]
           /\ expected' \in [CacheRuns -> CacheRuns \cup {NoRun}]
           /\ stored'[d] = NoRun
           /\ \A c \in Hosts \ {d} : stored'[c] = stored[c]
           /\ expected'[r] = IF \E w \in CacheRuns \ {r} : Writing(w, d) THEN NoRun ELSE r
           /\ \A x \in CacheRuns \ {r} :
                 expected'[x] = IF target[x] = d THEN NoRun ELSE expected[x]
  BY DEF CacheTypes, Disturb

\* A removal leaves files or nothing.
LEMMA RemoveTypes ==
    ASSUME CacheTypes, NEW r \in CacheRuns, NEW next \in Doings, RemoveOne(r, next)
    PROVE  /\ dir' \in [Hosts -> Files \cup {NoDir}] /\ doing' \in [CacheRuns -> Doings]
           /\ \A d \in Hosts \ {target[r]} : dir'[d] = dir[d]
           /\ \A x \in CacheRuns \ {r} : doing'[x] = doing[x]
           /\ dir'[target[r]] # NoDir =>
                 /\ dir[target[r]] # NoDir
                 /\ \A f \in CacheFiles : dir'[target[r]][f] \in {dir[target[r]][f], NoRun}
           /\ \/ doing' = doing
              \/ doing'[r] = next /\ (dir'[target[r]] = NoDir \/ expected[r] = NoRun)
  <1> DEFINE d == target[r]
  <1>1. /\ d \in Hosts /\ dir[d] \in Files \cup {NoDir}
        /\ dir \in [Hosts -> Files \cup {NoDir}] /\ doing \in [CacheRuns -> Doings]
    BY DEF CacheTypes
  <1>2. CASE \E f \in CacheFiles : IsDir(d) /\ RemoveFile(d, f) /\ UNCHANGED doing
    <2>1. PICK f \in CacheFiles : IsDir(d) /\ RemoveFile(d, f) /\ UNCHANGED doing
      BY <1>2
    <2>2. dir[d] \in Files /\ dir' = [dir EXCEPT ![d] = [dir[d] EXCEPT ![f] = NoRun]]
      BY <1>1, <2>1 DEF IsDir, RemoveFile
    <2>3. [dir[d] EXCEPT ![f] = NoRun] \in Files
      BY <2>2, FileTypes
    <2>4. \A g \in CacheFiles : [dir[d] EXCEPT ![f] = NoRun][g] \in {dir[d][g], NoRun}
      BY <2>2 DEF Files
    <2> QED
      BY <1>1, <2>1, <2>2, <2>3, <2>4, FileTypes
  <1>3. CASE dir' = [dir EXCEPT ![d] = NoDir] /\ Do(r, next)
    BY <1>1, <1>3 DEF Do
  <1>4. CASE UNCHANGED dir /\ Do(r, next) /\ (expected[r] = NoRun \/ dir[d] = NoDir)
    BY <1>1, <1>4 DEF Do
  <1> QED
    BY <1>2, <1>3, <1>4 DEF RemoveOne, IsDir

-----------------------------------------------------------------------------
(* What a step of r changes *)

Disturbed(r, d) ==
    /\ stored'[d] = NoRun
    /\ \A x \in CacheRuns \ {r} : target[x] = d => expected'[x] = NoRun

Stores(r, d) ==
    /\ doing[r] \in {"mv", "copy"} /\ target[r] = d
    /\ doing'[r] = "stored" /\ stored'[d] = expected[r]

Frame(r) ==
    /\ UNCHANGED <<sameFs, condition>>
    /\ \A x \in CacheRuns \ {r} :
          /\ doing'[x] = doing[x] /\ target'[x] = target[x] /\ ranOn'[x] = ranOn[x]
          /\ ok'[x] = ok[x] /\ got'[x] = got[x] /\ expected'[x] \in {expected[x], NoRun}
    /\ \A d \in Hosts :
          /\ Writing(r, d)' /\ ~Writing(r, d) => Disturbed(r, d)
          /\ dir'[d] # dir[d] => Writing(r, d)
          /\ stored'[d] # stored[d] => Disturbed(r, d) \/ Stores(r, d)
    /\ doing[r] # "stored"
    /\ doing[r] \in Wrote => doing'[r] \in Wrote /\ ranOn'[r] = ranOn[r] /\ ok'[r] = ok[r]

LEMMA FrameStep ==
    ASSUME CacheTypes, NEW r \in CacheRuns, TargetFits(r), CacheStep(r)
    PROVE  CacheTypes' /\ Frame(r)
  <1>0. /\ sameFs \in BOOLEAN
        /\ condition \in [CacheRuns -> CacheOptions]
        /\ doing \in [CacheRuns -> Doings]
        /\ DOMAIN ranOn = CacheRuns
        /\ ok \in [CacheRuns -> BOOLEAN]
        /\ dir \in [Hosts -> Files \cup {NoDir}]
        /\ target \in [CacheRuns -> Hosts]
        /\ got \in [CacheRuns -> Files]
        /\ stored \in [Hosts -> CacheRuns \cup {NoRun}]
        /\ expected \in [CacheRuns -> CacheRuns \cup {NoRun}]
        /\ FirstHost \in Hosts
        /\ doing[r] \in ClearSteps => target[r] = FirstHost
    BY CacheAssumption DEF CacheTypes, TargetFits
  <1> USE DEF Writing, Wrote
  <1>1. CASE Clear(r)
    <2>3. target[r] = FirstHost
      BY <1>0, <1>1 DEF Clear, ClearSteps
    <2>1. CASE Disturb(r, FirstHost) /\ Do(r, "rmtree")
      BY <1>0, <1>1, <2>1, <2>3, DisturbTypes
         DEF Clear, Do, CacheTypes, Frame, Disturbed, Doings, ClearSteps
    <2>2. CASE Do(r, "rmresult") /\ UNCHANGED <<stored, expected>>
      BY <1>0, <1>1, <2>2 DEF Clear, Do, CacheTypes, Frame, Doings, ClearSteps
    <2> QED
      BY <1>1, <2>1, <2>2 DEF Clear
  <1>2. CASE RmTree(r)
    <2>1. doing[r] = "rmtree" /\ UNCHANGED <<sameFs, condition, ranOn, ok, target, got, stored, expected>>
      BY <1>2 DEF RmTree
    <2>2. CASE RemoveOne(r, "rmresult")
      <3>1. "rmresult" \in Doings
        BY DEF Doings, ClearSteps
      <3> QED
        BY <1>0, <2>1, <2>2, <3>1, RemoveTypes DEF CacheTypes, Frame
    <2>3. CASE Do(r, "raised") /\ UNCHANGED dir
      BY <1>0, <2>1, <2>3 DEF Do, CacheTypes, Frame, Doings, CacheEnds
    <2> QED
      BY <1>2, <2>2, <2>3 DEF RmTree
  <1>3. CASE ClearResult(r)
    <2>1. target[r] = FirstHost
      BY <1>0, <1>3 DEF ClearResult, ClearSteps
    <2> QED
      BY <1>0, <1>3, <2>1, DisturbTypes
         DEF ClearResult, Do, CacheTypes, Frame, Disturbed, Doings, ClearSteps
  <1>4. CASE RmClear(r)
    <2>1. "test" \in Doings
      BY DEF Doings
    <2> QED
      BY <1>0, <1>4, <2>1, RemoveTypes DEF RmClear, CacheTypes, Frame
  <1>5. CASE FindDir(r)
    <2>1. /\ doing[r] = "glob" /\ UNCHANGED <<sameFs, condition, ranOn, ok, dir, got, stored>>
          /\ doing'[r] \in {"test", "isdir"} /\ doing' = [doing EXCEPT ![r] = doing'[r]]
      BY <1>0, <1>5 DEF FindDir, Do
    <2>2. /\ target' \in [CacheRuns -> Hosts]
          /\ expected' \in [CacheRuns -> CacheRuns \cup {NoRun}]
          /\ \A x \in CacheRuns \ {r} : target'[x] = target[x] /\ expected'[x] = expected[x]
      <3>1. CASE UNCHANGED <<target, expected>>
        BY <1>0, <3>1
      <3>2. ASSUME NEW d \in MatchingDirs(r), target' = [target EXCEPT ![r] = d],
                   expected' = [expected EXCEPT ![r] =
                       IF \E w \in CacheRuns : Writing(w, d) THEN NoRun ELSE stored[d]]
            PROVE  /\ target' \in [CacheRuns -> Hosts]
                   /\ expected' \in [CacheRuns -> CacheRuns \cup {NoRun}]
                   /\ \A x \in CacheRuns \ {r} : target'[x] = target[x] /\ expected'[x] = expected[x]
        <4>1. d \in Hosts
          BY <3>2 DEF MatchingDirs
        <4> QED
          BY <1>0, <3>2, <4>1
      <3> QED
        BY <1>5, <3>1, <3>2 DEF FindDir
    <2>3. doing' \in [CacheRuns -> Doings]
      BY <1>0, <2>1 DEF Doings, ReadSteps
    <2> QED
      BY <1>0, <2>1, <2>2, <2>3 DEF CacheTypes, Frame
  <1>6. CASE TestDir(r)
    BY <1>0, <1>6 DEF TestDir, Do, CacheTypes, Frame, Doings, ReadSteps
  <1>7. CASE ReadResults(r)
    <2>1. /\ doing[r] = "readresults"
          /\ UNCHANGED <<sameFs, condition, ranOn, ok, dir, target, stored, expected>>
          /\ Do(r, "untar") \/ Do(r, "readraised")
      BY <1>7 DEF ReadResults
    <2>2. got' \in [CacheRuns -> Files] /\ \A x \in CacheRuns \ {r} : got'[x] = got[x]
      <3>1. CASE got' = got
        BY <1>0, <3>1
      <3>2. CASE Has(r, "results") /\ got' = [got EXCEPT ![r]["results"] = dir[target[r]]["results"]]
        BY <1>0, <3>2 DEF Has, IsDir, Files, CacheFiles
      <3> QED
        BY <1>7, <3>1, <3>2 DEF ReadResults
    <2> QED
      BY <1>0, <2>1, <2>2 DEF Do, CacheTypes, Frame, Doings, ReadSteps, CacheEnds
  <1>8. CASE ReadTarball(r)
    <2>1. /\ doing[r] = "untar"
          /\ UNCHANGED <<sameFs, condition, ranOn, ok, dir, target, stored, expected>>
          /\ Do(r, "hit") \/ Do(r, "missed")
      BY <1>8 DEF ReadTarball
    <2>2. PICK v \in CacheRuns \cup {NoRun} : got' = [got EXCEPT ![r]["tarball"] = v]
      <3>1. Has(r, "tarball") => dir[target[r]]["tarball"] \in CacheRuns \cup {NoRun}
        BY <1>0 DEF Has, IsDir, Files, CacheFiles
      <3> QED
        BY <1>8, <3>1 DEF ReadTarball
    <2>3. got' \in [CacheRuns -> Files] /\ \A x \in CacheRuns \ {r} : got'[x] = got[x]
      BY <1>0, <2>2 DEF Files, CacheFiles
    <2> QED
      BY <1>0, <2>1, <2>3 DEF Do, CacheTypes, Frame, Doings, CacheEnds
  <1>9. CASE Test(r)
    BY <1>0, <1>9, FileTypes DEF Test, Do, CacheTypes, Frame, Doings, StoreSteps, CacheEnds
  <1>10. CASE StartStore(r)
    <2>1. IfExists(r) \in {"rm", "mv"}
      BY DEF IfExists
    <2> QED
      BY <1>0, <1>10, <2>1, DisturbTypes
         DEF StartStore, Do, CacheTypes, Frame, Disturbed, Doings, StoreSteps
  <1>11. CASE RmOld(r)
    <2>1. "mv" \in Doings
      BY DEF Doings, StoreSteps
    <2> QED
      BY <1>0, <1>11, <2>1, RemoveTypes DEF RmOld, CacheTypes, Frame
  <1>12. CASE Move(r)
    <2> DEFINE d == target[r]
    <2>1. /\ doing[r] = "mv" /\ UNCHANGED <<sameFs, condition, ranOn, ok, target, got, expected>>
          /\ \/ Do(r, "stored") /\ stored' = [stored EXCEPT ![d] = expected[r]]
             \/ Do(r, "copy") /\ UNCHANGED stored
      BY <1>12 DEF Move
    <2>2. PICK F \in Files : dir' = [dir EXCEPT ![d] = F]
      <3>1. IsDir(d) => [dir[d] EXCEPT !["nested"] = r] \in Files
        BY <1>0, FileTypes DEF IsDir, CacheFiles
      <3> QED
        BY <1>0, <1>12, <3>1, FileTypes DEF Move
    <2> QED
      BY <1>0, <2>1, <2>2 DEF Do, CacheTypes, Frame, Stores, Doings, StoreSteps, CacheEnds
  <1>13. CASE CopyOne(r)
    <2> DEFINE d == target[r]
    <2>1. /\ doing[r] = "copy" /\ UNCHANGED <<sameFs, condition, ranOn, ok, target, got, expected>>
          /\ \/ Do(r, "stored") /\ stored' = [stored EXCEPT ![d] = expected[r]]
             \/ Do(r, "raised") /\ UNCHANGED stored
             \/ UNCHANGED <<doing, stored>>
      BY <1>13 DEF CopyOne
    <2>2. dir' = dir \/ \E F \in Files : dir' = [dir EXCEPT ![d] = F]
      <3>1. ASSUME NEW f \in CacheFiles, IsDir(d), dir' = [dir EXCEPT ![d][f] = r]
            PROVE  \E F \in Files : dir' = [dir EXCEPT ![d] = F]
        <4>1. [dir[d] EXCEPT ![f] = r] \in Files
          BY <1>0, <3>1, FileTypes DEF IsDir
        <4> QED
          BY <3>1, <4>1
      <3> QED
        BY <1>13, <3>1 DEF CopyOne
    <2> QED
      BY <1>0, <2>1, <2>2 DEF Do, CacheTypes, Frame, Stores, Doings, CacheEnds
  <1>14. CASE CacheKill(r)
    BY <1>0, <1>14, FileTypes DEF CacheKill, Do, CacheTypes, Frame, Doings, CacheEnds
  <1> QED
    BY <1>1, <1>2, <1>3, <1>4, <1>5, <1>6, <1>7, <1>8, <1>9, <1>10, <1>11, <1>12, <1>13, <1>14
       DEF CacheStep

-----------------------------------------------------------------------------
(* What the other runs know *)

\* The facts of the invariant that the lemmas below start from.
LEMMA Facts ==
    ASSUME CacheInv, NEW r \in CacheRuns, CacheStep(r)
    PROVE  /\ CacheTypes /\ CacheTypes' /\ Frame(r)
           /\ target \in [CacheRuns -> Hosts] /\ DOMAIN ranOn = CacheRuns
           /\ doing \in [CacheRuns -> Doings] /\ ok \in [CacheRuns -> BOOLEAN]
           /\ expected \in [CacheRuns -> CacheRuns \cup {NoRun}]
           /\ stored \in [Hosts -> CacheRuns \cup {NoRun}]
           /\ dir \in [Hosts -> Files \cup {NoDir}] /\ got \in [CacheRuns -> Files]
           /\ condition' = condition
           /\ NoRun \notin CacheRuns
           /\ \A x \in CacheRuns : TargetFits(x) /\ WritesAlone(x) /\ GotKnown(x) /\ ExpectsStored(x)
           /\ \A d \in Hosts : StoredAlone(d) /\ FilesKnown(d)
           /\ StoredIsWhole /\ ReadsAreSound
  BY FrameStep, CacheAssumption DEF CacheInv, CacheTypes, Frame

\* Whoever has written stays at the end of its steps, on its machine and with
\* its return value.
LEMMA WroteOnce ==
    ASSUME CacheInv, NEW r \in CacheRuns, CacheStep(r), NEW x \in CacheRuns, doing[x] \in Wrote
    PROVE  /\ doing'[x] \in Wrote /\ ranOn'[x] = ranOn[x] /\ ok'[x] = ok[x]
           /\ doing[x] = "stored" => doing'[x] = "stored"
  BY Facts DEF Frame

\* Nothing happens on a directory that another run is alone on, or that it
\* expects to read.
LEMMA OthersDirectory ==
    ASSUME CacheInv, NEW r \in CacheRuns, CacheStep(r), NEW x \in CacheRuns \ {r},
           expected'[x] # NoRun, ~Writing(r, target[x])
    PROVE  /\ ~Writing(r, target[x])' /\ dir'[target[x]] = dir[target[x]]
           /\ stored'[target[x]] = stored[target[x]]
           /\ expected'[x] = expected[x]
  <1>1. target[x] \in Hosts /\ Frame(r)
    BY Facts
  <1>2. ~Disturbed(r, target[x])
    BY <1>1 DEF Disturbed
  <1>3. ~Stores(r, target[x])
    BY DEF Stores, Writing
  <1> QED
    BY <1>1, <1>2, <1>3 DEF Frame

LEMMA OthersStep ==
    ASSUME CacheInv, NEW r \in CacheRuns, CacheStep(r), NEW x \in CacheRuns \ {r}
    PROVE  TargetFits(x)' /\ WritesAlone(x)' /\ GotKnown(x)' /\ ExpectsStored(x)'
  <1>0. /\ TargetFits(x) /\ WritesAlone(x) /\ GotKnown(x) /\ ExpectsStored(x)
        /\ doing'[x] = doing[x] /\ target'[x] = target[x] /\ ranOn'[x] = ranOn[x]
        /\ got'[x] = got[x] /\ expected'[x] \in {expected[x], NoRun}
        /\ condition' = condition /\ sameFs' = sameFs /\ NoRun \notin CacheRuns
        /\ target[x] \in Hosts /\ got[x] \in Files
    BY Facts DEF Frame
  <1>1. TargetFits(x)'
    BY <1>0 DEF TargetFits
  <1>2. WritesAlone(x)'
    <2> SUFFICES ASSUME doing[x] \in WriteSteps, expected'[x] = x
                 PROVE  /\ \A w \in CacheRuns \ {x} : ~Writing(w, target[x])'
                        /\ doing[x] = "mv" => ~IsDir(target[x])'
                        /\ doing[x] = "copy" =>
                              /\ IsDir(target[x])'
                              /\ \A f \in CacheFiles : dir'[target[x]][f] \in {NoRun, TempFiles(x)[f]}
      BY <1>0 DEF WritesAlone, TempFiles
    <2>1. expected[x] = x
      BY <1>0
    <2>2. \A w \in CacheRuns \ {x} : ~Writing(w, target[x])
      BY <1>0, <2>1 DEF WritesAlone
    <2>3. ~Writing(r, target[x])' /\ dir'[target[x]] = dir[target[x]]
      BY <1>0, <2>1, <2>2, OthersDirectory
    <2>4. \A w \in CacheRuns \ {x, r} : Writing(w, target[x])' = Writing(w, target[x])
      BY <1>0, Facts DEF Writing, Frame
    <2> QED
      BY <1>0, <2>1, <2>2, <2>3, <2>4 DEF WritesAlone, IsDir
  <1>3. GotKnown(x)'
    <2>1. \A f \in CacheFiles : got[x][f] # NoRun =>
             got[x][f] \in CacheRuns /\ doing[got[x][f]] \in Wrote
      BY <1>0 DEF GotKnown, Files
    <2>2. \A f \in CacheFiles : got[x][f] # NoRun =>
             doing'[got[x][f]] \in Wrote /\ ranOn'[got[x][f]] = ranOn[got[x][f]]
      BY <2>1, WroteOnce
    <2> QED
      BY <1>0, <2>2 DEF GotKnown
  <1>4. ExpectsStored(x)'
    <2>1. CASE expected'[x] = NoRun
      BY <2>1 DEF ExpectsStored
    <2>2. CASE expected'[x] # NoRun
      <3>1. expected'[x] = expected[x] /\ expected[x] \in CacheRuns
        BY <1>0, <2>2, Facts
      <3>2. CASE doing[x] \in ReadSteps
        <4>1. stored[target[x]] = expected[x]
          BY <1>0, <3>1, <3>2 DEF ExpectsStored
        <4>2. ~Writing(r, target[x])
          BY <1>0, <3>1, <4>1, Facts DEF StoredAlone
        <4>3. stored'[target[x]] = stored[target[x]]
          BY <2>2, <4>2, OthersDirectory
        <4> QED
          BY <1>0, <3>1, <3>2, <4>1, <4>3 DEF ExpectsStored, ReadSteps
      <3>3. CASE doing[x] \in {"hit", "missed"}
        <4>1. doing[expected[x]] = "stored"
          BY <1>0, <3>1, <3>3 DEF ExpectsStored
        <4>2. doing'[expected[x]] = "stored"
          BY <3>1, <4>1, WroteOnce DEF Wrote
        <4> QED
          BY <1>0, <3>1, <3>3, <4>2 DEF ExpectsStored, ReadSteps
      <3>4. CASE doing[x] \notin ReadSteps \cup {"hit", "missed"}
        BY <1>0, <3>1, <3>4 DEF ExpectsStored
      <3> QED
        BY <3>2, <3>3, <3>4
    <2> QED
      BY <2>1, <2>2
  <1> QED
    BY <1>1, <1>2, <1>3, <1>4

-----------------------------------------------------------------------------
(* What r itself knows *)

LEMMA OwnTarget ==
    ASSUME CacheInv, NEW r \in CacheRuns, CacheStep(r)
    PROVE  TargetFits(r)'
  <1>0. /\ TargetFits(r) /\ condition' = condition /\ sameFs' = sameFs
        /\ doing \in [CacheRuns -> Doings] /\ target \in [CacheRuns -> Hosts]
        /\ DOMAIN ranOn = CacheRuns
    BY Facts DEF Frame
  <1> USE DEF TargetFits, ClearSteps, ReadSteps, StoreSteps, Do
  <1>1. CASE Clear(r) \/ ClearResult(r)
    BY <1>0, <1>1 DEF Clear, ClearResult
  <1>2. CASE RmTree(r) \/ RmClear(r) \/ RmOld(r)
    <2>1. /\ UNCHANGED <<ranOn, target>> /\ doing[r] \in {"rmtree", "rmclear", "rm"}
          /\ doing'[r] \in {doing[r], "rmresult", "raised", "test", "mv"}
          /\ doing'[r] = "rmresult" => doing[r] = "rmtree"
          /\ doing'[r] = "mv" => doing[r] = "rm"
      BY <1>0, <1>2 DEF RmTree, RmClear, RmOld, RemoveOne
    <2> QED
      BY <1>0, <2>1
  <1>3. CASE FindDir(r)
    <2>1. CASE MatchingDirs(r) = {} /\ Do(r, "test")
      BY <1>0, <2>1
    <2>2. ASSUME NEW d \in MatchingDirs(r), target' = [target EXCEPT ![r] = d], Do(r, "isdir")
          PROVE  TargetFits(r)'
      BY <1>0, <2>2 DEF MatchingDirs
    <2> QED
      BY <1>3, <2>1, <2>2 DEF FindDir
  <1>4. CASE TestDir(r) \/ ReadResults(r) \/ ReadTarball(r)
    BY <1>0, <1>4 DEF TestDir, ReadResults, ReadTarball
  <1>5. CASE Test(r)
    BY <1>0, <1>5 DEF Test
  <1>6. CASE StartStore(r)
    BY <1>0, <1>6 DEF StartStore, IfExists
  <1>7. CASE Move(r)
    <2>1. /\ doing[r] = "mv" /\ UNCHANGED <<ranOn, target>>
          /\ doing'[r] \in {"stored", "copy"} /\ (doing'[r] = "copy" => ~sameFs)
      BY <1>0, <1>7 DEF Move
    <2> QED
      BY <1>0, <2>1
  <1>8. CASE CopyOne(r)
    <2>1. doing[r] = "copy" /\ UNCHANGED <<ranOn, target>> /\ doing'[r] \in {"copy", "stored", "raised"}
      BY <1>0, <1>8 DEF CopyOne
    <2> QED
      BY <1>0, <2>1
  <1>9. CASE CacheKill(r)
    BY <1>0, <1>9 DEF CacheKill
  <1> QED
    BY <1>1, <1>2, <1>3, <1>4, <1>5, <1>6, <1>7, <1>8, <1>9 DEF CacheStep

LEMMA OwnGot ==
    ASSUME CacheInv, NEW r \in CacheRuns, CacheStep(r)
    PROVE  GotKnown(r)'
  <1>0. /\ GotKnown(r) /\ TargetFits(r) /\ condition' = condition /\ NoRun \notin CacheRuns
        /\ doing \in [CacheRuns -> Doings] /\ target \in [CacheRuns -> Hosts]
        /\ dir \in [Hosts -> Files \cup {NoDir}] /\ got \in [CacheRuns -> Files]
        /\ \A d \in Hosts : FilesKnown(d)
    BY Facts
  <1>1. ASSUME NEW f \in CacheFiles, NEW x \in CacheRuns, doing[x] \in Wrote,
               condition[r].same => ranOn[x] = FirstHost
        PROVE  doing'[x] \in Wrote /\ (condition'[r].same => ranOn'[x] = FirstHost)
    BY <1>0, <1>1, WroteOnce
  <1>2. \A f \in CacheFiles : got[r][f] # NoRun =>
           /\ got[r][f] \in CacheRuns /\ doing'[got[r][f]] \in Wrote
           /\ condition'[r].same => ranOn'[got[r][f]] = FirstHost
    BY <1>0, <1>1 DEF GotKnown, Files
  <1>3. doing[r] \in ReadSteps => \A f \in CacheFiles : Has(r, f) =>
           LET x == dir[target[r]][f]
           IN  /\ x \in CacheRuns /\ doing'[x] \in Wrote
               /\ condition'[r].same => ranOn'[x] = FirstHost
    BY <1>0, <1>1 DEF Has, FilesKnown, TargetFits, Files, IsDir
  <1>4. CASE got'[r] = got[r] /\ doing'[r] \notin {"untar", "hit", "missed"}
    BY <1>2, <1>4 DEF GotKnown
  <1>5. CASE got'[r] = NoFiles /\ doing'[r] \notin {"untar", "hit", "missed"}
    BY <1>5 DEF GotKnown, NoFiles
  <1>6. CASE ReadResults(r)
    <2>1. CASE Has(r, "results")
      <3>1. /\ got' = [got EXCEPT ![r]["results"] = dir[target[r]]["results"]]
            /\ doing[r] \in ReadSteps
        BY <1>6, <2>1 DEF ReadResults, ReadSteps
      <3>2. /\ got'[r]["results"] = dir[target[r]]["results"]
            /\ \A f \in CacheFiles \ {"results"} : got'[r][f] = got[r][f]
        BY <1>0, <3>1 DEF Files, CacheFiles
      <3> QED
        BY <1>0, <1>2, <1>3, <2>1, <3>1, <3>2 DEF GotKnown, CacheFiles
    <2>2. CASE ~Has(r, "results")
      <3>1. got' = got /\ doing'[r] = "readraised"
        BY <1>0, <1>6, <2>2 DEF ReadResults, Do
      <3> QED
        BY <1>4, <3>1
    <2> QED
      BY <2>1, <2>2
  <1>7. CASE ReadTarball(r)
    <2>1. doing[r] = "untar" /\ got[r]["results"] # NoRun
      BY <1>0, <1>7 DEF ReadTarball, GotKnown
    <2>2. PICK v : /\ got' = [got EXCEPT ![r]["tarball"] = v]
                   /\ v = NoRun \/ (Has(r, "tarball") /\ v = dir[target[r]]["tarball"])
      BY <1>7 DEF ReadTarball
    <2>3. got'[r]["tarball"] = v /\ \A f \in CacheFiles \ {"tarball"} : got'[r][f] = got[r][f]
      BY <1>0, <2>2 DEF Files, CacheFiles
    <2>4. v # NoRun => /\ v \in CacheRuns /\ doing'[v] \in Wrote
                       /\ condition'[r].same => ranOn'[v] = FirstHost
      BY <1>3, <2>1, <2>2 DEF ReadSteps, CacheFiles
    <2> QED
      BY <1>0, <1>2, <2>1, <2>3, <2>4 DEF GotKnown, CacheFiles
  <1>8. CASE RmTree(r) \/ RmClear(r) \/ RmOld(r)
    BY <1>0, <1>4, <1>8 DEF RmTree, RmClear, RmOld, RemoveOne, Do
  <1>9. CASE Clear(r) \/ ClearResult(r) \/ FindDir(r) \/ TestDir(r) \/ StartStore(r)
    BY <1>0, <1>4, <1>9 DEF Clear, ClearResult, FindDir, TestDir, StartStore, IfExists, Do
  <1>10. CASE Move(r) \/ CopyOne(r)
    <2>1. got' = got /\ doing'[r] \in {"copy", "stored", "raised"}
      BY <1>0, <1>10 DEF Move, CopyOne, Do
    <2> QED
      BY <1>4, <2>1
  <1>11. CASE Test(r) \/ CacheKill(r)
    BY <1>0, <1>5, <1>11 DEF Test, CacheKill, Do
  <1> QED
    BY <1>6, <1>7, <1>8, <1>9, <1>10, <1>11 DEF CacheStep

LEMMA OwnExpects ==
    ASSUME CacheInv, NEW r \in CacheRuns, CacheStep(r)
    PROVE  ExpectsStored(r)'
  <1>0. /\ ExpectsStored(r) /\ NoRun \notin CacheRuns
        /\ doing \in [CacheRuns -> Doings] /\ target \in [CacheRuns -> Hosts]
        /\ expected \in [CacheRuns -> CacheRuns \cup {NoRun}] /\ got \in [CacheRuns -> Files]
        /\ stored \in [Hosts -> CacheRuns \cup {NoRun}]
        /\ \A d \in Hosts : StoredAlone(d) /\ (stored[d] # NoRun => dir[d] = TempFiles(stored[d]))
    BY Facts DEF StoredIsWhole
  <1> USE DEF ReadSteps, Do
  <1>1. CASE doing'[r] \notin ReadSteps \cup {"glob", "hit", "missed"}
    BY <1>1 DEF ExpectsStored
  <1>2. CASE Clear(r) \/ ClearResult(r) \/ Test(r) \/ StartStore(r) \/ CacheKill(r)
    BY <1>0, <1>1, <1>2 DEF Clear, ClearResult, Test, StartStore, IfExists, CacheKill
  <1>3. CASE RmTree(r) \/ RmClear(r) \/ RmOld(r)
    BY <1>0, <1>1, <1>3 DEF RmTree, RmClear, RmOld, RemoveOne
  <1>4. CASE Move(r) \/ CopyOne(r)
    <2>1. doing'[r] \in {"copy", "stored", "raised"}
      BY <1>0, <1>4 DEF Move, CopyOne
    <2> QED
      BY <1>1, <2>1
  <1>5. CASE FindDir(r)
    <2>1. CASE Do(r, "test")
      BY <1>0, <1>1, <1>5, <2>1
    <2>2. ASSUME NEW d \in Hosts, target' = [target EXCEPT ![r] = d], Do(r, "isdir"),
                 expected' = [expected EXCEPT ![r] =
                     IF \E w \in CacheRuns : Writing(w, d) THEN NoRun ELSE stored[d]],
                 stored' = stored
          PROVE  ExpectsStored(r)'
      BY <1>0, <2>2 DEF ExpectsStored
    <2> QED
      BY <1>5, <2>1, <2>2 DEF FindDir, MatchingDirs
  <1>6. CASE TestDir(r)
    BY <1>0, <1>6 DEF TestDir, ExpectsStored
  <1>7. CASE ReadResults(r)
    <2>1. CASE expected[r] = NoRun
      BY <1>0, <1>7, <2>1 DEF ReadResults, ExpectsStored
    <2>2. CASE expected[r] # NoRun
      <3>1. stored[target[r]] = expected[r] /\ doing[r] = "readresults"
        BY <1>0, <1>7, <2>2 DEF ReadResults, ExpectsStored
      <3>2. dir[target[r]] = TempFiles(expected[r])
        BY <1>0, <2>2, <3>1
      <3>3. dir[target[r]]["results"] = expected[r]
        BY <3>2 DEF TempFiles, CacheFiles
      <3>4. CASE Has(r, "results")
        <4>1. /\ got' = [got EXCEPT ![r]["results"] = expected[r]] /\ doing'[r] = "untar"
              /\ UNCHANGED <<expected, stored, target>>
          BY <1>0, <1>7, <3>3, <3>4 DEF ReadResults
        <4>2. got'[r]["results"] = expected[r]
          BY <1>0, <4>1 DEF Files, CacheFiles
        <4> QED
          BY <1>0, <3>1, <4>1, <4>2 DEF ExpectsStored
      <3>5. CASE ~Has(r, "results")
        BY <1>0, <1>1, <1>7, <3>5 DEF ReadResults
      <3> QED
        BY <3>4, <3>5
    <2> QED
      BY <2>1, <2>2
  <1>8. CASE ReadTarball(r)
    <2>1. doing[r] = "untar" /\ doing'[r] \in {"hit", "missed"} /\ expected' = expected
      BY <1>0, <1>8 DEF ReadTarball
    <2>2. ASSUME expected[r] # NoRun PROVE doing[expected[r]] = "stored"
      BY <1>0, <2>1, <2>2 DEF ExpectsStored, StoredAlone
    <2>3. ASSUME expected[r] # NoRun PROVE doing'[expected[r]] = "stored"
      <3>1. expected[r] \in CacheRuns
        BY <1>0, <2>3
      <3> QED
        BY <2>2, <2>3, <3>1, WroteOnce DEF Wrote
    <2> QED
      BY <2>1, <2>3 DEF ExpectsStored
  <1> QED
    BY <1>2, <1>3, <1>4, <1>5, <1>6, <1>7, <1>8 DEF CacheStep

\* A run that changes a directory is alone on it, or does not expect to be.
LEMMA OwnWrites ==
    ASSUME CacheInv, NEW r \in CacheRuns, CacheStep(r)
    PROVE  WritesAlone(r)'
  <1>0. /\ WritesAlone(r) /\ TargetFits(r) /\ NoRun \notin CacheRuns
        /\ CacheTypes /\ Frame(r)
        /\ doing \in [CacheRuns -> Doings] /\ target \in [CacheRuns -> Hosts]
        /\ dir \in [Hosts -> Files \cup {NoDir}]
        /\ expected \in [CacheRuns -> CacheRuns \cup {NoRun}]
    BY Facts
  <1> USE DEF WriteSteps, Do
  <1>1. CASE doing'[r] \notin WriteSteps
    BY <1>1 DEF WritesAlone
  <1>2. ASSUME target'[r] = target[r]
        PROVE  \A w \in CacheRuns \ {r} : Writing(w, target[r])' = Writing(w, target[r])
    BY <1>0, <1>2 DEF Frame, Writing
  <1>3. ASSUME NEW d \in Hosts, Disturb(r, d), target[r] = d, target'[r] = d,
               doing'[r] \in {"rmtree", "rmclear", "rm", "mv"},
               doing'[r] = "mv" => ~IsDir(d), dir' = dir
        PROVE  WritesAlone(r)'
    <2>1. expected'[r] = IF \E w \in CacheRuns \ {r} : Writing(w, d) THEN NoRun ELSE r
      BY <1>0, <1>3, DisturbTypes
    <2> QED
      BY <1>0, <1>2, <1>3, <2>1 DEF WritesAlone, IsDir
  <1>4. CASE Clear(r) \/ ClearResult(r)
    <2>1. target[r] = FirstHost /\ target' = target /\ dir' = dir /\ FirstHost \in Hosts
      BY <1>0, <1>4, CacheAssumption DEF Clear, ClearResult, TargetFits, ClearSteps
    <2>2. CASE doing'[r] = "rmresult"
      BY <1>1, <2>2
    <2>3. CASE Disturb(r, FirstHost) /\ doing'[r] \in {"rmtree", "rmclear"}
      BY <1>3, <2>1, <2>3
    <2> QED
      BY <1>0, <1>4, <2>2, <2>3 DEF Clear, ClearResult
  <1>5. CASE StartStore(r)
    <2>1. /\ doing'[r] = IF IsDir(target[r]) THEN "rm" ELSE "mv"
          /\ target' = target /\ dir' = dir /\ Disturb(r, target[r]) /\ target[r] \in Hosts
      BY <1>0, <1>5 DEF StartStore, IfExists
    <2> QED
      BY <1>3, <2>1
  <1>6. CASE RmTree(r) \/ RmClear(r)
    <2>1. /\ UNCHANGED <<target, expected>> /\ doing[r] \in {"rmtree", "rmclear"}
          /\ doing'[r] \in {doing[r], "rmresult", "raised", "test"}
      BY <1>0, <1>6 DEF RmTree, RmClear, RemoveOne
    <2> QED
      BY <1>0, <1>1, <1>2, <2>1 DEF WritesAlone
  <1>7. CASE RmOld(r)
    <2>1. UNCHANGED <<target, expected>> /\ doing[r] = "rm" /\ RemoveOne(r, "mv")
      BY <1>7 DEF RmOld
    <2>2. \/ doing' = doing
          \/ doing'[r] = "mv" /\ (dir'[target[r]] = NoDir \/ expected[r] = NoRun)
      <3>1. "mv" \in Doings
        BY DEF Doings, StoreSteps
      <3> QED
        BY <1>0, <2>1, <3>1, RemoveTypes
    <2> QED
      BY <1>0, <1>2, <2>1, <2>2 DEF WritesAlone, IsDir
  <1>8. CASE Move(r)
    <2>1. doing[r] = "mv" /\ UNCHANGED <<target, expected>> /\ doing'[r] \in {"stored", "copy"}
      BY <1>0, <1>8 DEF Move
    <2>2. CASE doing'[r] = "stored"
      BY <1>1, <2>2
    <2>3. CASE doing'[r] = "copy"
      <3>1. dir' = [dir EXCEPT ![target[r]] = NoFiles]
        BY <1>0, <1>8, <2>3 DEF Move
      <3>2. dir'[target[r]] = NoFiles /\ NoFiles # NoDir
        BY <1>0, <3>1, FileTypes
      <3> QED
        BY <1>0, <1>2, <2>1, <2>3, <3>2 DEF WritesAlone, IsDir, NoFiles
    <2> QED
      BY <2>1, <2>2, <2>3
  <1>9. CASE CopyOne(r)
    <2>1. doing[r] = "copy" /\ UNCHANGED <<target, expected>> /\ doing'[r] \in {"copy", "stored", "raised"}
      BY <1>0, <1>9 DEF CopyOne
    <2>2. CASE doing'[r] # "copy"
      BY <1>1, <2>1, <2>2
    <2>3. CASE doing'[r] = "copy"
      <3>1. PICK f \in CacheFiles : /\ TempFiles(r)[f] = r /\ IsDir(target[r])
                                    /\ dir' = [dir EXCEPT ![target[r]][f] = r]
        BY <1>0, <1>9, <2>3 DEF CopyOne
      <3>2. /\ dir[target[r]] \in Files
            /\ dir'[target[r]] = [dir[target[r]] EXCEPT ![f] = r]
        BY <1>0, <3>1 DEF IsDir
      <3>3. dir'[target[r]] # NoDir
        BY <3>2, FileTypes
      <3>4. \A g \in CacheFiles : dir'[target[r]][g] = IF g = f THEN r ELSE dir[target[r]][g]
        BY <3>2 DEF Files
      <3> QED
        BY <1>0, <1>2, <2>1, <2>3, <3>1, <3>3, <3>4 DEF WritesAlone, IsDir, TempFiles
    <2> QED
      BY <2>2, <2>3
  <1>10. CASE FindDir(r) \/ TestDir(r) \/ ReadResults(r) \/ ReadTarball(r) \/ Test(r) \/ CacheKill(r)
    BY <1>0, <1>1, <1>10 DEF FindDir, TestDir, ReadResults, ReadTarball, Test, CacheKill
  <1> QED
    BY <1>4, <1>5, <1>6, <1>7, <1>8, <1>9, <1>10 DEF CacheStep

-----------------------------------------------------------------------------
(* The directories *)

\* A step puts a file of its own run into a directory, or none.
LEMMA NewFiles ==
    ASSUME CacheInv, NEW r \in CacheRuns, CacheStep(r), NEW d \in Hosts, IsDir(d)'
    PROVE  \/ IsDir(d) /\ dir'[d] = dir[d]
           \/ IsDir(d) /\ \A f \in CacheFiles : dir'[d][f] \in {dir[d][f], NoRun}
           \/ /\ d = target[r] /\ doing[r] \in {"mv", "copy"} /\ doing'[r] \in {"copy", "stored"}
              /\ \/ IsDir(d) /\ doing[r] = "mv" /\ dir'[d] = [dir[d] EXCEPT !["nested"] = r]
                 \/ ~IsDir(d) /\ dir'[d] = TempFiles(r)
                 \/ ~IsDir(d) /\ dir'[d] = NoFiles
                 \/ IsDir(d) /\ ~sameFs /\ \E f \in CacheFiles : dir'[d] = [dir[d] EXCEPT ![f] = r]
  <1>0. /\ CacheTypes /\ doing \in [CacheRuns -> Doings] /\ target \in [CacheRuns -> Hosts]
        /\ dir \in [Hosts -> Files \cup {NoDir}] /\ Frame(r) /\ TargetFits(r)
    BY Facts
  <1>1. CASE dir'[d] = dir[d]
    BY <1>1 DEF IsDir
  <1>2. CASE dir'[d] # dir[d]
    <2>1. d = target[r] /\ doing[r] \in WriteSteps
      BY <1>0, <1>2 DEF Frame, Writing, WriteSteps
    <2>2. ASSUME NEW next \in Doings, RemoveOne(r, next)
          PROVE  IsDir(d) /\ \A f \in CacheFiles : dir'[d][f] \in {dir[d][f], NoRun}
      BY <1>0, <2>1, <2>2, RemoveTypes DEF IsDir
    <2>3. CASE RmTree(r) \/ RmClear(r) \/ RmOld(r)
      BY <1>2, <2>2, <2>3 DEF RmTree, RmClear, RmOld, Doings, ClearSteps, StoreSteps
    <2>4. CASE Move(r)
      BY <1>0, <2>1, <2>4 DEF Move, Do
    <2>5. CASE CopyOne(r)
      <3>1. PICK f \in CacheFiles : dir' = [dir EXCEPT ![d][f] = r] /\ IsDir(d) /\ doing' = doing
        BY <1>2, <2>1, <2>5 DEF CopyOne
      <3>2. doing[r] = "copy" /\ ~sameFs
        BY <1>0, <2>5 DEF CopyOne, TargetFits
      <3> QED
        BY <1>0, <2>1, <3>1, <3>2
    <2> QED
      BY <1>2, <2>3, <2>4, <2>5 DEF CacheStep, Clear, ClearResult, FindDir, TestDir, ReadResults,
         ReadTarball, Test, StartStore, CacheKill
  <1> QED
    BY <1>1, <1>2

LEMMA FilesKnownStep ==
    ASSUME CacheInv, NEW r \in CacheRuns, CacheStep(r), NEW d \in Hosts
    PROVE  FilesKnown(d)'
  <1> SUFFICES ASSUME IsDir(d)', NEW f \in CacheFiles, dir'[d][f] # NoRun
               PROVE  doing'[dir'[d][f]] \in Wrote /\ ranOn'[dir'[d][f]] = d
    BY DEF FilesKnown
  <1>0. /\ doing \in [CacheRuns -> Doings] /\ dir \in [Hosts -> Files \cup {NoDir}]
        /\ TargetFits(r) /\ FilesKnown(d)
    BY Facts
  <1>1. CASE IsDir(d) /\ dir'[d][f] = dir[d][f]
    <2>1. dir[d][f] \in CacheRuns /\ doing[dir[d][f]] \in Wrote /\ ranOn[dir[d][f]] = d
      BY <1>0, <1>1 DEF FilesKnown, Files, IsDir
    <2> QED
      BY <1>1, <2>1, WroteOnce
  <1>2. CASE /\ dir'[d][f] = r /\ d = target[r] /\ doing[r] \in {"mv", "copy"}
             /\ doing'[r] \in {"copy", "stored"}
    <2>1. ranOn[r] = d
      BY <1>0, <1>2 DEF TargetFits, StoreSteps
    <2>2. ranOn' = ranOn
      BY <1>2 DEF CacheStep, Clear, RmTree, ClearResult, RmClear, FindDir, TestDir, ReadResults,
         ReadTarball, Test, StartStore, RmOld, Move, CopyOne, CacheKill
    <2> QED
      BY <1>2, <2>1, <2>2 DEF Wrote
  <1>3. IsDir(d) => dir[d] \in Files
    BY <1>0 DEF IsDir
  <1>4. "nested" \in CacheFiles
    BY DEF CacheFiles
  <1>5. IsDir(d) => \A g \in CacheFiles : [dir[d] EXCEPT ![g] = r][f] \in {r, dir[d][f]}
    BY <1>3 DEF Files
  <1>6. TempFiles(r)[f] \in {r, NoRun} /\ NoFiles[f] = NoRun
    BY DEF TempFiles, NoFiles
  <1>7. \/ IsDir(d) /\ dir'[d][f] = dir[d][f]
        \/ /\ dir'[d][f] = r /\ d = target[r] /\ doing[r] \in {"mv", "copy"}
           /\ doing'[r] \in {"copy", "stored"}
    <2>1. CASE IsDir(d) /\ dir'[d] = dir[d]
      BY <2>1
    <2>2. CASE IsDir(d) /\ \A g \in CacheFiles : dir'[d][g] \in {dir[d][g], NoRun}
      BY <2>2
    <2>3. ASSUME \/ IsDir(d) /\ dir'[d] = [dir[d] EXCEPT !["nested"] = r]
                 \/ ~IsDir(d) /\ dir'[d] = TempFiles(r)
                 \/ ~IsDir(d) /\ dir'[d] = NoFiles
                 \/ IsDir(d) /\ \E g \in CacheFiles : dir'[d] = [dir[d] EXCEPT ![g] = r]
          PROVE  dir'[d][f] = r \/ (IsDir(d) /\ dir'[d][f] = dir[d][f])
      BY <1>4, <1>5, <1>6, <2>3
    <2> QED
      BY <2>1, <2>2, <2>3, NewFiles
  <1> QED
    BY <1>1, <1>2, <1>7

\* What is stored is what the run that has stored it expects to leave.
LEMMA StoredNow ==
    ASSUME CacheInv, NEW r \in CacheRuns, CacheStep(r), NEW d \in Hosts,
           stored'[d] # stored[d], stored'[d] # NoRun
    PROVE  /\ stored'[d] = r /\ expected[r] = r /\ target[r] = d /\ doing'[r] = "stored"
           /\ Move(r) \/ CopyOne(r)
           /\ \A w \in CacheRuns \ {r} : ~Writing(w, d)
           /\ dir'[d] = TempFiles(r)
  <1>0. /\ doing \in [CacheRuns -> Doings] /\ target \in [CacheRuns -> Hosts]
        /\ dir \in [Hosts -> Files \cup {NoDir}]
        /\ WritesAlone(r) /\ TargetFits(r) /\ Frame(r)
    BY Facts
  <1>1. Stores(r, d)
    BY <1>0 DEF Frame, Disturbed
  <1>2. expected[r] = r /\ \A w \in CacheRuns \ {r} : ~Writing(w, d)
    BY <1>0, <1>1 DEF Stores, WritesAlone, WriteSteps
  <1>3. Move(r) \/ CopyOne(r)
    BY <1>0, <1>1 DEF Stores, CacheStep, Clear, RmTree, ClearResult, RmClear, FindDir, TestDir,
       ReadResults, ReadTarball, Test, StartStore, RmOld, CacheKill
  <1>4. CASE Move(r)
    <2>1. ~IsDir(d)
      BY <1>0, <1>1, <1>2, <1>4 DEF Stores, Move, WritesAlone, WriteSteps
    <2>2. dir' = [dir EXCEPT ![d] = TempFiles(r)]
      BY <1>0, <1>1, <1>4, <2>1 DEF Stores, Move, Do
    <2> QED
      BY <1>0, <1>1, <1>2, <1>4, <2>2 DEF Stores
  <1>5. CASE CopyOne(r)
    <2>1. doing[r] = "copy" /\ doing'[r] # doing[r]
      BY <1>1, <1>5 DEF Stores, CopyOne
    <2>2. /\ IsDir(d) /\ dir' = dir
          /\ \A f \in CacheFiles : TempFiles(r)[f] = r => dir[d][f] = r
      BY <1>0, <1>1, <1>5, <2>1 DEF Stores, CopyOne, Do
    <2>3. \A f \in CacheFiles : dir[d][f] \in {NoRun, TempFiles(r)[f]}
      BY <1>0, <1>1, <1>2, <2>1 DEF Stores, WritesAlone, WriteSteps
    <2>4. dir[d] \in Files
      BY <1>0, <2>2 DEF IsDir
    <2>5. \A f \in CacheFiles : dir[d][f] = TempFiles(r)[f]
      BY <2>2, <2>3 DEF TempFiles
    <2>6. dir[d] = TempFiles(r)
      BY <2>4, <2>5 DEF TempFiles, Files
    <2> QED
      BY <1>1, <1>2, <1>5, <2>2, <2>6 DEF Stores
  <1> QED
    BY <1>3, <1>4, <1>5

LEMMA StoredAloneStep ==
    ASSUME CacheInv, NEW r \in CacheRuns, CacheStep(r), NEW d \in Hosts
    PROVE  StoredAlone(d)'
  <1> SUFFICES ASSUME stored'[d] # NoRun
               PROVE  doing'[stored'[d]] = "stored" /\ \A w \in CacheRuns : ~Writing(w, d)'
    BY DEF StoredAlone
  <1>0. Frame(r) /\ StoredAlone(d) /\ stored \in [Hosts -> CacheRuns \cup {NoRun}]
    BY Facts
  <1>1. \A w \in CacheRuns \ {r} : Writing(w, d)' = Writing(w, d)
    BY <1>0 DEF Frame, Writing
  <1>2. CASE stored'[d] = stored[d]
    <2>1. doing[stored[d]] = "stored" /\ stored[d] \in CacheRuns /\ \A w \in CacheRuns : ~Writing(w, d)
      BY <1>0, <1>2 DEF StoredAlone
    <2>2. doing'[stored[d]] = "stored"
      BY <2>1, WroteOnce DEF Wrote
    <2>3. ~Writing(r, d)'
      BY <1>0, <2>1 DEF Frame, Disturbed
    <2> QED
      BY <1>1, <1>2, <2>1, <2>2, <2>3
  <1>3. CASE stored'[d] # stored[d]
    <2>1. stored'[d] = r /\ doing'[r] = "stored" /\ \A w \in CacheRuns \ {r} : ~Writing(w, d)
      BY <1>3, StoredNow
    <2> QED
      BY <1>1, <2>1 DEF Writing
  <1> QED
    BY <1>2, <1>3

LEMMA StoredIsWholeStep ==
    ASSUME CacheInv, NEW r \in CacheRuns, CacheStep(r)
    PROVE  StoredIsWhole'
  <1>0. /\ Frame(r) /\ StoredIsWhole /\ dir \in [Hosts -> Files \cup {NoDir}]
        /\ \A d \in Hosts : StoredAlone(d)
        /\ stored \in [Hosts -> CacheRuns \cup {NoRun}] /\ sameFs' = sameFs
    BY Facts DEF Frame
  <1>1. ASSUME NEW d \in Hosts, stored'[d] # NoRun
        PROVE  dir'[d] = TempFiles(stored'[d])
    <2>1. CASE stored'[d] = stored[d]
      <3>1. ~Writing(r, d) /\ dir[d] = TempFiles(stored[d])
        BY <1>0, <1>1, <2>1 DEF StoredAlone, StoredIsWhole
      <3> QED
        BY <1>0, <2>1, <3>1 DEF Frame
    <2>2. CASE stored'[d] # stored[d]
      BY <1>1, <2>2, StoredNow
    <2> QED
      BY <2>1, <2>2
  <1>2. ASSUME NEW d \in Hosts, sameFs, IsDir(d)', dir'[d]["results"] # NoRun,
               dir'[d]["tarball"] # NoRun
        PROVE  dir'[d]["results"] = dir'[d]["tarball"]
    <2>1. "results" \in CacheFiles /\ "tarball" \in CacheFiles
      BY DEF CacheFiles
    <2>2. /\ IsDir(d) /\ dir[d]["results"] # NoRun /\ dir[d]["tarball"] # NoRun =>
                dir[d]["results"] = dir[d]["tarball"]
          /\ IsDir(d) => dir[d] \in Files
      BY <1>0, <1>2 DEF StoredIsWhole, IsDir
    <2>3. IsDir(d) => LET F == [dir[d] EXCEPT !["nested"] = r]
                      IN  F["results"] = dir[d]["results"] /\ F["tarball"] = dir[d]["tarball"]
      BY <2>1, <2>2 DEF Files
    <2>4. /\ TempFiles(r)["results"] = r /\ TempFiles(r)["tarball"] = r
          /\ NoFiles["results"] = NoRun
      BY <2>1 DEF TempFiles, NoFiles
    <2> QED
      BY <1>2, <2>1, <2>2, <2>3, <2>4, NewFiles
  <1>3. \A d \in Hosts : TempFiles(stored[d])' = TempFiles(stored'[d])
    BY DEF TempFiles
  <1> QED
    BY <1>0, <1>1, <1>2, <1>3 DEF StoredIsWhole

-----------------------------------------------------------------------------
(* What is read *)

\* ReadsAreSound for one run.
ExpectedIsRead(r) ==
    ~condition[r].rerun /\ expected[r] # NoRun =>
        /\ doing[r] \notin {"readraised", "test"}
        /\ doing[r] = "missed" => ~(condition[r].succeeded => ok[expected[r]])
        /\ doing[r] = "hit" => /\ condition[r].succeeded => ok[expected[r]]
                               /\ got[r]["results"] = expected[r]
                               /\ got[r]["tarball"] = expected[r]

HitIsSound(r) ==
    doing[r] = "hit" =>
        /\ got[r]["results"] # NoRun /\ got[r]["tarball"] # NoRun
        /\ condition[r].succeeded => ok[got[r]["results"]]
        /\ condition[r].same => /\ ranOn[got[r]["results"]] = FirstHost
                                /\ ranOn[got[r]["tarball"]] = FirstHost

LEMMA SoundByRun ==
    ReadsAreSound <=> \A r \in CacheRuns : ExpectedIsRead(r) /\ HitIsSound(r)
  BY DEF ReadsAreSound, ExpectedIsRead, HitIsSound

LEMMA OthersSound ==
    ASSUME CacheInv, NEW r \in CacheRuns, CacheStep(r), NEW x \in CacheRuns \ {r}
    PROVE  ExpectedIsRead(x)' /\ HitIsSound(x)'
  <1>0. /\ ExpectedIsRead(x) /\ HitIsSound(x) /\ GotKnown(x) /\ ExpectsStored(x)
        /\ doing'[x] = doing[x] /\ got'[x] = got[x] /\ expected'[x] \in {expected[x], NoRun}
        /\ condition' = condition /\ NoRun \notin CacheRuns
        /\ expected[x] \in CacheRuns \cup {NoRun} /\ got[x] \in Files
    BY Facts, SoundByRun DEF Frame
  <1>1. ExpectedIsRead(x)'
    <2> SUFFICES ASSUME expected'[x] # NoRun, ~condition[x].rerun PROVE ExpectedIsRead(x)'
      BY <1>0 DEF ExpectedIsRead
    <2>1. CASE doing[x] \in {"hit", "missed"}
      <3>1. doing[expected[x]] = "stored" /\ expected[x] \in CacheRuns
        BY <1>0, <2>1 DEF ExpectsStored
      <3>2. ok'[expected[x]] = ok[expected[x]]
        BY <3>1, WroteOnce DEF Wrote
      <3> QED
        BY <1>0, <3>2 DEF ExpectedIsRead
    <2>2. CASE doing[x] \notin {"hit", "missed"}
      BY <1>0, <2>2 DEF ExpectedIsRead
    <2> QED
      BY <2>1, <2>2
  <1>2. HitIsSound(x)'
    <2> SUFFICES ASSUME doing[x] = "hit" PROVE HitIsSound(x)'
      BY <1>0 DEF HitIsSound
    <2>1. "results" \in CacheFiles /\ "tarball" \in CacheFiles
      BY DEF CacheFiles
    <2>2. /\ got[x]["results"] \in CacheRuns /\ got[x]["tarball"] \in CacheRuns
          /\ doing[got[x]["results"]] \in Wrote /\ doing[got[x]["tarball"]] \in Wrote
      BY <1>0, <2>1 DEF HitIsSound, GotKnown, Files
    <2>3. /\ ok'[got[x]["results"]] = ok[got[x]["results"]]
          /\ ranOn'[got[x]["results"]] = ranOn[got[x]["results"]]
          /\ ranOn'[got[x]["tarball"]] = ranOn[got[x]["tarball"]]
      BY <2>2, WroteOnce
    <2> QED
      BY <1>0, <2>3 DEF HitIsSound
  <1> QED
    BY <1>1, <1>2

LEMMA OwnSound ==
    ASSUME CacheInv, NEW r \in CacheRuns, CacheStep(r)
    PROVE  ExpectedIsRead(r)' /\ HitIsSound(r)'
  <1>0. /\ ExpectedIsRead(r) /\ HitIsSound(r) /\ GotKnown(r) /\ ExpectsStored(r) /\ TargetFits(r)
        /\ condition' = condition /\ NoRun \notin CacheRuns
        /\ doing \in [CacheRuns -> Doings] /\ target \in [CacheRuns -> Hosts]
        /\ dir \in [Hosts -> Files \cup {NoDir}] /\ got \in [CacheRuns -> Files]
        /\ expected \in [CacheRuns -> CacheRuns \cup {NoRun}]
        /\ \A d \in Hosts : stored[d] # NoRun => dir[d] = TempFiles(stored[d])
        /\ \A F \in Files : F # NoDir
    BY Facts, SoundByRun, FileTypes DEF StoredIsWhole
  <1> USE DEF Do
  <1>1. CASE doing'[r] \notin {"readraised", "test", "missed", "hit"}
    BY <1>1 DEF ExpectedIsRead, HitIsSound
  <1>2. CASE doing'[r] = "test" /\ (condition[r].rerun \/ expected'[r] = NoRun)
    BY <1>0, <1>2 DEF ExpectedIsRead, HitIsSound
  <1>3. CASE Clear(r) \/ ClearResult(r) \/ Test(r) \/ StartStore(r) \/ CacheKill(r)
    BY <1>0, <1>1, <1>3 DEF Clear, ClearResult, Test, StartStore, IfExists, CacheKill
  <1>4. CASE RmTree(r) \/ RmOld(r)
    BY <1>0, <1>1, <1>4 DEF RmTree, RmOld, RemoveOne
  <1>5. CASE RmClear(r)
    BY <1>0, <1>1, <1>2, <1>5 DEF RmClear, RemoveOne, TargetFits, ClearSteps
  <1>6. CASE Move(r) \/ CopyOne(r)
    <2>1. doing'[r] \in {"copy", "stored", "raised"}
      BY <1>0, <1>6 DEF Move, CopyOne
    <2> QED
      BY <1>1, <2>1
  <1>7. CASE FindDir(r)
    <2>1. CASE Do(r, "test") /\ UNCHANGED expected
      BY <1>0, <1>2, <1>7, <2>1 DEF FindDir, ExpectsStored
    <2>2. CASE Do(r, "isdir")
      BY <1>0, <1>1, <2>2
    <2> QED
      BY <1>7, <2>1, <2>2 DEF FindDir
  \* What r expects is at its target.
  <1>8. ASSUME doing[r] \in ReadSteps, expected[r] # NoRun
        PROVE  IsDir(target[r]) /\ dir[target[r]] = TempFiles(expected[r])
    <2>1. stored[target[r]] = expected[r] /\ expected[r] \in CacheRuns
      BY <1>0, <1>8 DEF ExpectsStored
    <2> QED
      BY <1>0, <2>1, FileTypes DEF IsDir
  <1>9. CASE TestDir(r)
    BY <1>0, <1>1, <1>2, <1>8, <1>9 DEF TestDir, ReadSteps
  <1>10. CASE ReadResults(r)
    <2>1. CASE expected[r] # NoRun
      <3>1. doing[r] \in ReadSteps
        BY <1>10 DEF ReadResults, ReadSteps
      <3>2. Has(r, "results")
        BY <1>8, <2>1, <3>1 DEF Has, TempFiles, CacheFiles
      <3> QED
        BY <1>0, <1>1, <1>10, <3>2 DEF ReadResults
    <2>2. CASE expected[r] = NoRun
      BY <1>0, <1>1, <1>10, <2>2 DEF ReadResults, ExpectedIsRead, HitIsSound
    <2> QED
      BY <2>1, <2>2
  <1>11. CASE ReadTarball(r)
    <2> DEFINE first == got[r]["results"]
               v == IF Has(r, "tarball") THEN dir[target[r]]["tarball"] ELSE NoRun
    <2>1. /\ doing[r] = "untar" /\ UNCHANGED <<condition, ranOn, ok, target, expected>>
          /\ got' = [got EXCEPT ![r]["tarball"] = v]
          /\ doing'[r] = IF Has(r, "tarball") /\ (condition[r].succeeded => ok[first])
                         THEN "hit" ELSE "missed"
      BY <1>0, <1>11 DEF ReadTarball, Untars
    <2>2. got'[r]["results"] = first /\ got'[r]["tarball"] = v
      BY <1>0, <2>1 DEF Files, CacheFiles
    <2>3. Has(r, "tarball") => v # NoRun
      BY DEF Has
    <2>4. first # NoRun
      BY <1>0, <2>1 DEF GotKnown
    <2>5. ExpectedIsRead(r)'
      <3> SUFFICES ASSUME expected[r] # NoRun PROVE ExpectedIsRead(r)'
        BY <2>1 DEF ExpectedIsRead
      <3>1. first = expected[r]
        BY <1>0, <2>1 DEF ExpectsStored, ReadSteps
      <3>2. Has(r, "tarball") /\ v = expected[r]
        BY <1>8, <2>1 DEF Has, TempFiles, CacheFiles, ReadSteps
      <3> HIDE DEF first, v
      <3> QED
        BY <2>1, <2>2, <3>1, <3>2 DEF ExpectedIsRead
    <2>6. HitIsSound(r)'
      <3>1. GotKnown(r)'
        BY OwnGot
      <3>2. "results" \in CacheFiles /\ "tarball" \in CacheFiles
        BY DEF CacheFiles
      <3> HIDE DEF first, v
      <3> QED
        BY <2>1, <2>2, <2>3, <2>4, <3>1, <3>2 DEF HitIsSound, GotKnown
    <2> QED
      BY <2>5, <2>6
  <1> QED
    BY <1>3, <1>4, <1>5, <1>6, <1>7, <1>9, <1>10, <1>11 DEF CacheStep

LEMMA CacheInvariant == CacheSpec => []CacheInv
  <1>1. ASSUME CacheInv, [CacheNext]_cacheVars PROVE CacheInv'
    <2>1. ASSUME NEW r \in CacheRuns, CacheStep(r) PROVE CacheInv'
      <3>1. CacheTypes' /\ StoredIsWhole'
        BY <1>1, <2>1, Facts, StoredIsWholeStep
      <3>2. \A x \in CacheRuns : TargetFits(x)' /\ WritesAlone(x)' /\ GotKnown(x)' /\ ExpectsStored(x)'
        BY <1>1, <2>1, OthersStep, OwnTarget, OwnWrites, OwnGot, OwnExpects
      <3>3. \A d \in Hosts : StoredAlone(d)' /\ FilesKnown(d)'
        BY <1>1, <2>1, StoredAloneStep, FilesKnownStep
      <3>4. ReadsAreSound'
        <4>1. \A x \in CacheRuns : ExpectedIsRead(x)' /\ HitIsSound(x)'
          BY <1>1, <2>1, OthersSound, OwnSound
        <4> QED
          BY <4>1 DEF ReadsAreSound, ExpectedIsRead, HitIsSound
      <3> QED
        BY <3>1, <3>2, <3>3, <3>4 DEF CacheInv
    <2>2. CASE UNCHANGED cacheVars
      BY <1>1, <2>2 DEF cacheVars, CacheInv, CacheTypes, TargetFits, WritesAlone, GotKnown,
         ExpectsStored, StoredAlone, FilesKnown, StoredIsWhole, ReadsAreSound, Writing, IsDir,
         TempFiles
    <2> QED
      BY <1>1, <2>1, <2>2 DEF CacheNext, CacheEnded
  <1> QED
    BY <1>1, CacheInitInv, PTL DEF CacheSpec

\* What a run stores while it is alone on the directory is there afterwards,
\* whole; and where mv renames, no directory mixes the files of two runs,
\* however many store, find and remove at the same time (StoreToCacheDir).
THEOREM StoredWhole == CacheSpec => []StoredIsWhole
  BY CacheInvariant, PTL DEF CacheInv

\* An undisturbed read of an undisturbed store raises nothing, takes all files
\* from that store and hits as the conditions say; and no hit at all goes
\* against the conditions (ReadResult, PopulateFromCacheDir).
THEOREM SoundReads == CacheSpec => []ReadsAreSound
  BY CacheInvariant, PTL DEF CacheInv
=============================================================================
