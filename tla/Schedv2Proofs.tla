--------------------------- MODULE Schedv2Proofs ----------------------------
(***************************************************************************)
(* Proofs about Schedv2 for every number of labels, DUTs and benchmark     *)
(* runs and every setting of the flags: type correctness, no benchmark run *)
(* in two places, the right image under every test, and what the locks of  *)
(* the lists are good for.                                                 *)
(***************************************************************************)
EXTENDS Schedv2, SequenceTheorems, TLAPS

\* The steps at which a worker has a br in its hands.
BrSteps == {"runcached", "execute", "activate", "start", "running", "finishbr",
            "raised"}

\* The steps at which dut.label, or the allocated label, is dereferenced.
LabelSteps == {"lookup", "newlock", "check", "pop"}
ChoiceSteps == {"record", "reimage", "imagelock", "imaging"}

\* What a worker has in its hands at each of its steps.
HandInv ==
    \A d \in Duts :
        /\ pc[d] \in BrSteps <=> br[d] # None
        /\ pc[d] \in LabelSteps => label[d] # NoLabel
        /\ pc[d] \in ChoiceSteps => choice[d] # NoLabel
        /\ br[d] # None /\ ~At(d, "runcached") => LabelOf[br[d]] = label[d]

\* The lists have the right brs in them, and only fresh ones.
ListInv ==
    /\ \A l \in Labels : \A b \in todo[l] :
           LabelOf[b] = l /\ owner[b] = NoDut /\ b \notin cached

\* A worker that is still at work knows what its DUT carries: its label, its
\* checksum and its checksum file, when they are set, are those of the image.
ImageInv ==
    ~KeepStateful =>
        \A d \in Duts : pc[d] \notin {"finally", "done"} =>
            /\ label[d] # NoLabel => image[d] = label[d]
            /\ checksum[d] # NoLabel => image[d] = checksum[d]
            /\ ckfile[d] # NoLabel => image[d] = ckfile[d]

\* Two workers at the list of one label hold two locks, and a worker that finds
\* the list empty after its check owes that to two locks.
Apart(d, e) ==
    /\ At(d, "pop") /\ At(e, "pop")
    /\ label[d] = label[e] /\ lock[d] = lock[e]
    => d = e

Guarded(d) ==
    /\ pc[d] \in {"check", "pop"} => lock[d] \in made[label[d]]
    /\ At(d, "pop") => todo[label[d]] # {} \/ Raced(label[d])

LockInv ==
    /\ \A l \in Labels : lockOf[l] # NoDut => lockOf[l] \in made[l]
    /\ \A d \in Duts : Guarded(d)
    /\ \A d, e \in Duts : Apart(d, e)

IInv == TypeOK /\ HandInv /\ ListInv /\ EachBrOnce /\ ImageInv /\ LockInv

\* Labels and DUTs are numbered from 1.
LEMMA NoneIsNone == NoLabel \notin Labels /\ NoDut \notin Duts
  BY DEF NoLabel, NoDut, Labels, Duts

\* Planning keeps the cells of the matrix.
LEMMA PlanType == InitialAllocation(BlankMatrix(Remote)) \in Matrix
  <1>1. BlankMatrix(Remote) \in Matrix
    BY DEF BlankMatrix, Matrix, Cells
  <1>2. ASSUME NEW m \in Matrix PROVE InitialAllocation(m) \in Matrix
    BY <1>2 DEF InitialAllocation, Matrix, Cells
  <1> QED
    BY <1>1, <1>2

\* What allocate returns is a label.
LEMMA LabelForType ==
    ASSUME NEW m, NEW d, NEW i, NEW p
    PROVE  LabelFor(m, d, i, p) \subseteq Labels
  BY DEF LabelFor, LeastImaged, Wanted

\* A worker only ever goes to one of its steps.
LEMMA GotoType ==
    ASSUME TypeOK, NEW d, NEW s \in Steps, Goto(d, s)
    PROVE  pc' \in [Duts -> Steps]
  BY DEF TypeOK, Goto

\* What a worker is told to do after allocate_label.
LEMMA AllocatedLabel ==
    ASSUME TypeOK, NEW d \in Duts, AllocateLabel(d)
    PROVE  \/ /\ choice' \in {[choice EXCEPT ![d] = l] : l \in Labels}
              /\ pc' = [pc EXCEPT ![d] = "record"]
           \/ choice' = choice /\ pc' = [pc EXCEPT ![d] = "finally"]
  <1> DEFINE pending == [l \in Labels |-> Cardinality(todo[l])]
             labels == IF terminated THEN {} ELSE LabelFor(matrix, d, imaged, pending)
  <1>1. labels \subseteq Labels
    BY LabelForType
  <1>2. CASE /\ \E l \in labels : choice' = [choice EXCEPT ![d] = l]
             /\ Goto(d, "record")
    BY <1>1, <1>2 DEF Goto
  <1>3. CASE labels = {} /\ Goto(d, "finally") /\ UNCHANGED choice
    BY <1>3 DEF Goto
  <1> QED
    BY <1>2, <1>3 DEF AllocateLabel

\* Removing an element keeps the type of the list of workers.
LEMMA FinishedType ==
    ASSUME active \in Seq(Duts), NEW d \in Duts, DutWorkerFinished(d)
    PROVE  active' \in Seq(Duts)
  <1>1. PICK i \in 1 .. Len(active) :
            active' = SubSeq(active, 1, i - 1) \o SubSeq(active, i + 1, Len(active))
    BY DEF DutWorkerFinished
  <1>2. \A j \in 1 .. Len(active) : active[j] \in Duts
    BY ElementOfSeq
  <1>3. SubSeq(active, 1, i - 1) \in Seq(Duts)
    BY <1>2, SubSeqProperties
  <1>4. SubSeq(active, i + 1, Len(active)) \in Seq(Duts)
    BY <1>2, SubSeqProperties
  <1> QED
    BY <1>1, <1>3, <1>4, ConcatProperties

\* The types of what the workers have in their hands, of the DUTs, of the
\* lists and of the rest.
HandTypes ==
    /\ pc \in [Duts -> Steps]
    /\ br \in [Duts -> Brs \cup {None}]
    /\ choice \in [Duts -> Labels \cup {NoLabel}]
    /\ lock \in [Duts -> Duts \cup {NoDut}]
    /\ stopped \in [Duts -> Stops]

DutTypes ==
    /\ label \in [Duts -> Labels \cup {NoLabel}]
    /\ checksum \in [Duts -> Labels \cup {NoLabel}]
    /\ image \in [Duts -> Labels \cup {NoLabel}]
    /\ ckfile \in [Duts -> LocalLabels \cup {NoLabel}]
    /\ imageLock \in Duts \cup {NoDut}

ListTypes ==
    /\ todo \in [Labels -> SUBSET Brs]
    /\ cached \subseteq Brs
    /\ lockOf \in [Labels -> Duts \cup {NoDut}]
    /\ made \in [Labels -> SUBSET Duts]

RestTypes ==
    /\ matrix \in Matrix
    /\ imaged \in [Labels -> Nat]
    /\ wTerminated \in [Duts -> BOOLEAN]
    /\ activeBr \in [Duts -> Brs \cup {None}]
    /\ owner \in [Brs -> Duts \cup {NoDut}]
    /\ brTerminated \subseteq Brs /\ executed \subseteq Brs
    /\ terminated \in BOOLEAN
    /\ active \in Seq(Duts)
    /\ main \in {"poll", "terminate", "cleanup", "end"}
    /\ index \in Nat \ {0}
    /\ terminating \in Duts \cup {NoDut}

LEMMA TypeParts == TypeOK => HandTypes /\ DutTypes /\ ListTypes /\ RestTypes
  BY DEF TypeOK, HandTypes, DutTypes, ListTypes, RestTypes

LEMMA TypeWhole ==
    ASSUME HandTypes', DutTypes', ListTypes', RestTypes'
    PROVE  TypeOK'
  BY DEF TypeOK, HandTypes, DutTypes, ListTypes, RestTypes

\* Imaging a DUT with a label keeps the types.
LEMMA ImagedTypes ==
    ASSUME DutTypes, NEW d \in Duts, choice[d] \in Labels, Imaged(d)
    PROVE  DutTypes'
  <1> USE DEF DutTypes, Imaged
  <1>1. label' \in [Duts -> Labels \cup {NoLabel}]
    OBVIOUS
  <1>2. checksum' \in [Duts -> Labels \cup {NoLabel}]
    BY DEF Checksum
  <1>3. image' \in [Duts -> Labels \cup {NoLabel}]
    OBVIOUS
  <1>4. ckfile' \in [Duts -> LocalLabels \cup {NoLabel}]
    <2>1. FlashedFile(d) \in LocalLabels \cup {NoLabel}
      BY DEF FlashedFile
    <2> QED
      BY <2>1
  <1> QED
    BY <1>1, <1>2, <1>3, <1>4

\* Every step of a worker keeps the types.
LEMMA WorkerTypes ==
    ASSUME TypeOK, HandInv, NEW d \in Duts, WorkerStep(d)
    PROVE  TypeOK'
  <1>t. HandTypes /\ DutTypes /\ ListTypes /\ RestTypes
    BY TypeParts
  <1> USE DEF At, Goto, Steps, Stops
  <1>a. /\ pc[d] \in BrSteps => br[d] \in Brs
        /\ pc[d] \in LabelSteps => label[d] \in Labels
        /\ pc[d] \in ChoiceSteps => choice[d] \in Labels
    BY <1>t DEF HandInv, HandTypes, DutTypes
  <1>1. CASE GetCached(d)
    <2>1. HandTypes'
      BY <1>t, <1>1 DEF GetCached, HandTypes, ListTypes
    <2>2. DutTypes'
      BY <1>t, <1>a, <1>1 DEF GetCached, DutTypes, dutVars
    <2>3. ListTypes'
      BY <1>t, <1>a, <1>1 DEF GetCached, ListTypes, listVars
    <2>4. RestTypes'
      BY <1>t, <1>a, <1>1 DEF GetCached, RestTypes, mimVars,
         brVars, termVars, mainVars
    <2> QED
      BY <2>1, <2>2, <2>3, <2>4, TypeWhole
  <1>2. CASE RunCached(d)
    BY <1>a, <1>2 DEF TypeOK, RunCached, BrSteps, LabelSteps, ChoiceSteps,
         mimVars, listVars, workerVars, dutVars, brVars, termVars, mainVars
  <1>3. CASE SetupDutLabel(d)
    <2>1. HandTypes'
      BY <1>t, <1>a, <1>3 DEF SetupDutLabel, HandTypes, workerVars
    <2>2. DutTypes'
      BY <1>t, <1>3, BrAssumption DEF SetupDutLabel, DutTypes
    <2>3. ListTypes'
      BY <1>t, <1>a, <1>3 DEF SetupDutLabel, ListTypes, listVars
    <2>4. RestTypes'
      BY <1>t, <1>a, <1>3 DEF SetupDutLabel, RestTypes, mimVars,
         brVars, termVars, mainVars
    <2> QED
      BY <2>1, <2>2, <2>3, <2>4, TypeWhole
  <1>4. CASE Loop(d)
    BY <1>a, <1>4 DEF TypeOK, Loop, BrSteps, LabelSteps, ChoiceSteps,
         mimVars, listVars, workerVars, dutVars, brVars, termVars, mainVars
  <1>5. CASE LookUpLock(d)
    <2>1. HandTypes'
      BY <1>t, <1>a, <1>5 DEF LookUpLock, LabelSteps, HandTypes, ListTypes
    <2>2. DutTypes'
      BY <1>t, <1>a, <1>5 DEF LookUpLock, LabelSteps, DutTypes, dutVars
    <2>3. ListTypes'
      BY <1>t, <1>a, <1>5 DEF LookUpLock, LabelSteps, ListTypes, listVars
    <2>4. RestTypes'
      BY <1>t, <1>a, <1>5 DEF LookUpLock, LabelSteps, RestTypes, mimVars,
         brVars, termVars, mainVars
    <2> QED
      BY <2>1, <2>2, <2>3, <2>4, TypeWhole
  <1>6. CASE NewLock(d)
    BY <1>a, <1>6 DEF TypeOK, NewLock, BrSteps, LabelSteps, ChoiceSteps,
         mimVars, listVars, workerVars, dutVars, brVars, termVars, mainVars
  <1>7. CASE CheckList(d)
    BY <1>a, <1>7 DEF TypeOK, CheckList, Locked, BrSteps, LabelSteps, ChoiceSteps,
         mimVars, listVars, workerVars, dutVars, brVars, termVars, mainVars
  <1>8. CASE Pop(d)
    <2>1. label[d] \in Labels
      BY <1>a, <1>8 DEF Pop, LabelSteps
    <2>4. DutTypes' /\ RestTypes'
      BY <1>t, <1>8 DEF Pop, DutTypes, RestTypes, mimVars, dutVars, brVars,
         termVars, mainVars
    <2>2. CASE Take(d) /\ pc' = [pc EXCEPT ![d] = "execute"]
      <3>1. PICK b \in todo[label[d]] :
                /\ br' = [br EXCEPT ![d] = b]
                /\ todo' = [todo EXCEPT ![label[d]] = @ \ {b}]
        BY <2>2 DEF Take
      <3>2. b \in Brs
        BY <1>t, <2>1 DEF ListTypes
      <3>3. todo' \in [Labels -> SUBSET Brs]
        BY <1>t, <2>1, <3>1 DEF ListTypes
      <3>4. HandTypes' /\ ListTypes'
        BY <1>t, <1>8, <2>2, <3>1, <3>2, <3>3 DEF Pop, HandTypes, ListTypes
      <3> QED
        BY <3>4, <2>4, TypeWhole
    <2>3. CASE pc' = [pc EXCEPT ![d] = "finally"] /\ UNCHANGED <<br, todo>>
      <3>1. HandTypes' /\ ListTypes'
        BY <1>t, <1>8, <2>3 DEF Pop, HandTypes, ListTypes
      <3> QED
        BY <3>1, <2>4, TypeWhole
    <2> QED
      BY <1>8, <2>2, <2>3 DEF Pop
  <1>9. CASE Execute(d)
    <2>1. HandTypes'
      BY <1>t, <1>a, <1>9 DEF Execute, BrSteps, HandTypes, workerVars
    <2>2. DutTypes'
      BY <1>t, <1>a, <1>9 DEF Execute, BrSteps, DutTypes, dutVars
    <2>3. ListTypes'
      BY <1>t, <1>a, <1>9 DEF Execute, BrSteps, ListTypes, listVars
    <2>4. RestTypes'
      BY <1>t, <1>a, <1>9 DEF Execute, BrSteps, RestTypes, mimVars,
         brVars, termVars, mainVars
    <2> QED
      BY <2>1, <2>2, <2>3, <2>4, TypeWhole
  <1>10. CASE Activate(d)
    BY <1>a, <1>10 DEF TypeOK, Activate, BrSteps, LabelSteps, ChoiceSteps,
         mimVars, listVars, workerVars, dutVars, brVars, termVars, mainVars
  <1>11. CASE StartBr(d)
    BY <1>a, <1>11 DEF TypeOK, StartBr, BrSteps, LabelSteps, ChoiceSteps,
         mimVars, listVars, workerVars, dutVars, brVars, termVars, mainVars
  <1>12. CASE BrEnds(d)
    <2>1. pc' \in [Duts -> Steps]
      BY <1>t, <1>12 DEF HandTypes, BrEnds
    <2>2. executed' \subseteq Brs
      BY <1>a, <1>12 DEF TypeOK, BrEnds, BrSteps
    <2> QED
      BY <1>12, <2>1, <2>2 DEF TypeOK, BrEnds, mimVars, listVars, workerVars, dutVars,
         termVars, mainVars
  <1>13. CASE FinishBr(d)
    <2>1. HandTypes'
      BY <1>t, <1>a, <1>13 DEF FinishBr, HandTypes, workerVars
    <2>2. DutTypes'
      BY <1>t, <1>a, <1>13 DEF FinishBr, DutTypes, dutVars
    <2>3. ListTypes'
      BY <1>t, <1>a, <1>13 DEF FinishBr, ListTypes, listVars
    <2>4. RestTypes'
      BY <1>t, <1>a, <1>13 DEF FinishBr, RestTypes, mimVars,
         brVars, termVars, mainVars
    <2> QED
      BY <2>1, <2>2, <2>3, <2>4, TypeWhole
  <1>14. CASE AllocateLabel(d)
    <2>1. HandTypes'
      <3>1. choice' \in [Duts -> Labels \cup {NoLabel}] /\ pc' \in [Duts -> Steps]
        <4>1. CASE \E l \in Labels : /\ choice' = [choice EXCEPT ![d] = l]
                                     /\ pc' = [pc EXCEPT ![d] = "record"]
          BY <1>t, <4>1 DEF HandTypes
        <4>2. CASE choice' = choice /\ pc' = [pc EXCEPT ![d] = "finally"]
          BY <1>t, <4>2 DEF HandTypes
        <4> QED
          BY <1>14, <4>1, <4>2, AllocatedLabel
      <3> QED
        BY <1>t, <1>14, <3>1 DEF AllocateLabel, HandTypes
    <2>2. DutTypes'
      BY <1>t, <1>a, <1>14 DEF AllocateLabel, DutTypes, dutVars
    <2>3. ListTypes'
      BY <1>t, <1>a, <1>14 DEF AllocateLabel, ListTypes, listVars
    <2>4. RestTypes'
      BY <1>t, <1>a, <1>14 DEF AllocateLabel, RestTypes, mimVars,
         brVars, termVars, mainVars
    <2> QED
      BY <2>1, <2>2, <2>3, <2>4, TypeWhole
  <1>15. CASE RecordAllocation(d)
    <2>1. choice[d] \in Labels
      BY <1>a, <1>15 DEF TypeOK, RecordAllocation, ChoiceSteps
    <2>2. matrix' \in Matrix
      BY <2>1, <1>15 DEF TypeOK, RecordAllocation, Matrix, Cells
    <2>3. imaged' \in [Labels -> Nat]
      BY <2>1, <1>15 DEF TypeOK, RecordAllocation
    <2> QED
      BY <1>15, <2>2, <2>3 DEF TypeOK, RecordAllocation, listVars, workerVars, dutVars,
         brVars, termVars, mainVars
  <1>16. CASE Reimage(d)
    <2>1. HandTypes'
      BY <1>t, <1>a, <1>16 DEF Reimage, HandTypes, workerVars
    <2>2. DutTypes'
      BY <1>t, <1>a, <1>16 DEF Reimage, ChoiceSteps, DutTypes
    <2>3. ListTypes'
      BY <1>t, <1>a, <1>16 DEF Reimage, ListTypes, listVars
    <2>4. RestTypes'
      BY <1>t, <1>a, <1>16 DEF Reimage, RestTypes, mimVars,
         brVars, termVars, mainVars
    <2> QED
      BY <2>1, <2>2, <2>3, <2>4, TypeWhole
  <1>17. CASE TakeImageLock(d)
    BY <1>a, <1>17 DEF TypeOK, TakeImageLock, BrSteps, LabelSteps, ChoiceSteps,
         mimVars, listVars, workerVars, dutVars, brVars, termVars, mainVars
  <1>18. CASE ImageOk(d)
    <2>1. HandTypes'
      BY <1>t, <1>a, <1>18 DEF ImageOk, HandTypes, workerVars
    <2>2. DutTypes'
      BY <1>t, <1>a, <1>18, ImagedTypes DEF ImageOk, ChoiceSteps
    <2>3. ListTypes'
      BY <1>t, <1>a, <1>18 DEF ImageOk, ListTypes, listVars
    <2>4. RestTypes'
      BY <1>t, <1>a, <1>18 DEF ImageOk, RestTypes, mimVars,
         brVars, termVars, mainVars
    <2> QED
      BY <2>1, <2>2, <2>3, <2>4, TypeWhole
  <1>19. CASE ImageFails(d)
    <2>1. HandTypes'
      BY <1>t, <1>a, <1>19 DEF ImageFails, AfterFailure, HandTypes, workerVars
    <2>2. DutTypes'
      <3>1. choice[d] \in Labels
        BY <1>a, <1>19 DEF ImageFails, ChoiceSteps
      <3>2. image' \in [Duts -> Labels \cup {NoLabel}]
        BY <1>t, <1>19, <3>1 DEF ImageFails, FlashFails, DutTypes
      <3>3. ckfile' \in [Duts -> LocalLabels \cup {NoLabel}]
        BY <1>t, <1>19, <3>1 DEF ImageFails, FlashFails, DutTypes
      <3> QED
        BY <1>t, <1>19, <3>2, <3>3 DEF ImageFails, DutTypes
    <2>3. ListTypes'
      BY <1>t, <1>a, <1>19 DEF ImageFails, AfterFailure, ListTypes, listVars
    <2>4. RestTypes'
      BY <1>t, <1>a, <1>19 DEF ImageFails, AfterFailure, RestTypes, mimVars,
         brVars, termVars, mainVars
    <2> QED
      BY <2>1, <2>2, <2>3, <2>4, TypeWhole
  <1>20. CASE Finally(d)
    BY FinishedType, <1>a, <1>20 DEF TypeOK, Finally, DutWorkerFinished, BrSteps,
         LabelSteps, ChoiceSteps,
         mimVars, listVars, workerVars, dutVars, brVars, termVars, mainVars
  <1>21. CASE VersionFails(d)
    <2>1. HandTypes'
      BY <1>t, <1>a, <1>21 DEF VersionFails, HandTypes, workerVars
    <2>2. DutTypes'
      BY <1>t, <1>a, <1>21, ImagedTypes DEF VersionFails, ChoiceSteps
    <2>3. ListTypes'
      BY <1>t, <1>a, <1>21 DEF VersionFails, ListTypes, listVars
    <2>4. RestTypes'
      BY <1>t, <1>a, <1>21 DEF VersionFails, RestTypes, mimVars,
         brVars, termVars, mainVars
    <2> QED
      BY <2>1, <2>2, <2>3, <2>4, TypeWhole
  <1> QED
    BY <1>1, <1>2, <1>3, <1>4, <1>5, <1>6, <1>7, <1>8, <1>9, <1>10,
         <1>11, <1>12, <1>13, <1>14, <1>15, <1>16, <1>17, <1>18, <1>19, <1>20,
         <1>21 DEF WorkerStep

\* So do the steps of the main thread.
LEMMA MainTypes ==
    ASSUME TypeOK, MainStep
    PROVE  TypeOK'
  <1> USE BrAssumption DEF TypeOK, At, Goto, Steps
  <1>1. CASE IsComplete
    BY <1>1 DEF IsComplete, mimVars, listVars, workerVars, dutVars,
         brVars, termVars, mainVars
  <1>2. CASE Interrupt
    BY <1>2 DEF Interrupt, mimVars, listVars, workerVars, dutVars,
         brVars, termVars, mainVars
  <1>3. CASE TerminateWorker
    BY ElementOfSeq, <1>3 DEF TerminateWorker, mimVars, listVars,
         workerVars, dutVars, brVars, termVars, mainVars
  <1>4. CASE TerminateBr
    BY <1>4 DEF TerminateBr, TerminatedBrs, mimVars, listVars,
         workerVars, dutVars, brVars, termVars, mainVars
  <1>5. CASE AllTerminated
    BY <1>5 DEF AllTerminated, mimVars, listVars, workerVars, dutVars,
         brVars, termVars, mainVars
  <1>6. CASE CleanUp
    BY <1>6 DEF CleanUp, mimVars, listVars, workerVars, dutVars, brVars,
         termVars, mainVars
  <1> QED
    BY <1>1, <1>2, <1>3, <1>4, <1>5, <1>6 DEF MainStep

\* A step of one worker leaves the other workers and their DUTs alone.
LEMMA Frame ==
    ASSUME TypeOK, NEW d \in Duts, WorkerStep(d), NEW e \in Duts, e # d
    PROVE  /\ pc'[e] = pc[e] /\ br'[e] = br[e] /\ choice'[e] = choice[e]
           /\ label'[e] = label[e] /\ checksum'[e] = checksum[e]
           /\ image'[e] = image[e] /\ ckfile'[e] = ckfile[e] /\ lock'[e] = lock[e]
  <1> USE DEF TypeOK, Goto, workerVars, dutVars
  <1>1. CASE GetCached(d)
    BY <1>1 DEF GetCached
  <1>2. CASE RunCached(d)
    BY <1>2 DEF RunCached
  <1>3. CASE SetupDutLabel(d)
    BY <1>3 DEF SetupDutLabel
  <1>4. CASE Loop(d)
    BY <1>4 DEF Loop
  <1>5. CASE LookUpLock(d)
    BY <1>5 DEF LookUpLock
  <1>6. CASE NewLock(d)
    BY <1>6 DEF NewLock
  <1>7. CASE CheckList(d)
    BY <1>7 DEF CheckList, Locked
  <1>8. CASE Pop(d)
    BY <1>8 DEF Pop, Take
  <1>9. CASE Execute(d)
    BY <1>9 DEF Execute
  <1>10. CASE Activate(d)
    BY <1>10 DEF Activate
  <1>11. CASE StartBr(d)
    BY <1>11 DEF StartBr
  <1>12. CASE BrEnds(d)
    BY <1>12 DEF BrEnds
  <1>13. CASE FinishBr(d)
    BY <1>13 DEF FinishBr
  <1>14. CASE AllocateLabel(d)
    BY AllocatedLabel, <1>14 DEF AllocateLabel
  <1>15. CASE RecordAllocation(d)
    BY <1>15 DEF RecordAllocation
  <1>16. CASE Reimage(d)
    BY <1>16 DEF Reimage, AlreadyImaged
  <1>17. CASE TakeImageLock(d)
    BY <1>17 DEF TakeImageLock
  <1>18. CASE ImageOk(d)
    BY <1>18 DEF ImageOk, Imaged
  <1>19. CASE ImageFails(d)
    BY <1>19 DEF ImageFails, FlashFails, AfterFailure
  <1>20. CASE Finally(d)
    BY <1>20 DEF Finally, DutWorkerFinished
  <1>21. CASE VersionFails(d)
    BY <1>21 DEF VersionFails, Imaged
  <1> QED
    BY <1>1, <1>2, <1>3, <1>4, <1>5, <1>6, <1>7, <1>8, <1>9, <1>10,
         <1>11, <1>12, <1>13, <1>14, <1>15, <1>16, <1>17, <1>18, <1>19, <1>20,
         <1>21 DEF WorkerStep

\* HandInv of one worker.
HandOf(d) ==
    /\ pc[d] \in BrSteps <=> br[d] # None
    /\ pc[d] \in LabelSteps => label[d] # NoLabel
    /\ pc[d] \in ChoiceSteps => choice[d] # NoLabel
    /\ br[d] # None /\ ~At(d, "runcached") => LabelOf[br[d]] = label[d]

\* A worker goes on with what its steps need.
LEMMA HandStep ==
    ASSUME TypeOK, HandInv, ListInv, NEW d \in Duts, WorkerStep(d)
    PROVE  HandInv'
  <1> USE DEF TypeOK, At, Goto, HandOf, BrSteps, LabelSteps, ChoiceSteps
  <1>a. HandOf(d)
    BY DEF HandInv
  <1>b. ASSUME HandOf(d)' PROVE HandInv'
    <2>1. ASSUME NEW e \in Duts PROVE HandOf(e)'
      <3>1. CASE e = d
        BY <3>1, <1>b
      <3>2. CASE e # d
        BY <3>2, Frame DEF HandInv
      <3> QED
        BY <3>1, <3>2
    <2> QED
      BY <2>1 DEF HandInv
  <1>1. ASSUME GetCached(d) PROVE HandOf(d)'
    BY <1>a, <1>1, BrAssumption DEF GetCached, dutVars
  <1>2. ASSUME RunCached(d) PROVE HandOf(d)'
    BY <1>a, <1>2 DEF RunCached, workerVars, dutVars
  <1>3. ASSUME SetupDutLabel(d) PROVE HandOf(d)'
    BY <1>a, <1>3 DEF SetupDutLabel, workerVars, dutVars
  <1>4. ASSUME Loop(d) PROVE HandOf(d)'
    BY <1>a, <1>4 DEF Loop, workerVars, dutVars
  <1>5. ASSUME LookUpLock(d) PROVE HandOf(d)'
    BY <1>a, <1>5 DEF LookUpLock, workerVars, dutVars
  <1>6. ASSUME NewLock(d) PROVE HandOf(d)'
    BY <1>a, <1>6 DEF NewLock, workerVars, dutVars
  <1>7. ASSUME CheckList(d) PROVE HandOf(d)'
    BY <1>a, <1>7 DEF CheckList, Locked, workerVars, dutVars
  <1>8. ASSUME Pop(d) PROVE HandOf(d)'
    <2>1. CASE Take(d) /\ pc' = [pc EXCEPT ![d] = "execute"]
      <3>1. label[d] \in Labels
        BY <1>a, <1>8 DEF Pop
      <3>2. PICK b \in todo[label[d]] : br' = [br EXCEPT ![d] = b]
        BY <2>1 DEF Take
      <3>3. b \in Brs /\ LabelOf[b] = label[d]
        BY <3>1, <3>2 DEF ListInv
      <3> QED
        BY <1>a, <1>8, <2>1, <3>2, <3>3, BrAssumption DEF Pop, dutVars
    <2>2. CASE pc' = [pc EXCEPT ![d] = "finally"] /\ UNCHANGED br
      BY <1>a, <1>8, <2>2 DEF Pop, dutVars
    <2> QED
      BY <1>8, <2>1, <2>2 DEF Pop
  <1>9. ASSUME Execute(d) PROVE HandOf(d)'
    BY <1>a, <1>9 DEF Execute, workerVars, dutVars
  <1>10. ASSUME Activate(d) PROVE HandOf(d)'
    BY <1>a, <1>10 DEF Activate, workerVars, dutVars
  <1>11. ASSUME StartBr(d) PROVE HandOf(d)'
    BY <1>a, <1>11 DEF StartBr, workerVars, dutVars
  <1>12. ASSUME BrEnds(d) PROVE HandOf(d)'
    BY <1>a, <1>12 DEF BrEnds, workerVars, dutVars
  <1>13. ASSUME FinishBr(d) PROVE HandOf(d)'
    BY <1>a, <1>13 DEF FinishBr, workerVars, dutVars
  <1>14. ASSUME AllocateLabel(d) PROVE HandOf(d)'
    <2>1. br' = br /\ label' = label /\ br[d] = None
      BY <1>a, <1>14 DEF AllocateLabel, dutVars
    <2>2. CASE /\ choice' \in {[choice EXCEPT ![d] = l] : l \in Labels}
               /\ pc' = [pc EXCEPT ![d] = "record"]
      BY <2>1, <2>2, NoneIsNone
    <2>3. CASE choice' = choice /\ pc' = [pc EXCEPT ![d] = "finally"]
      BY <2>1, <2>3
    <2> QED
      BY <1>14, <2>2, <2>3, AllocatedLabel
  <1>15. ASSUME RecordAllocation(d) PROVE HandOf(d)'
    BY <1>a, <1>15 DEF RecordAllocation, workerVars, dutVars
  <1>16. ASSUME Reimage(d) PROVE HandOf(d)'
    BY <1>a, <1>16 DEF Reimage, AlreadyImaged, workerVars, dutVars
  <1>17. ASSUME TakeImageLock(d) PROVE HandOf(d)'
    BY <1>a, <1>17 DEF TakeImageLock, workerVars, dutVars
  <1>18. ASSUME ImageOk(d) PROVE HandOf(d)'
    BY <1>a, <1>18 DEF ImageOk, Imaged, workerVars, dutVars
  <1>19. ASSUME ImageFails(d) PROVE HandOf(d)'
    BY <1>a, <1>19 DEF ImageFails, FlashFails, AfterFailure, workerVars, dutVars
  <1>20. ASSUME Finally(d) PROVE HandOf(d)'
    BY <1>a, <1>20 DEF Finally, DutWorkerFinished, workerVars, dutVars
  <1>21. ASSUME VersionFails(d) PROVE HandOf(d)'
    BY <1>a, <1>21 DEF VersionFails, Imaged, workerVars, dutVars
  <1> QED
    BY <1>b, <1>1, <1>2, <1>3, <1>4, <1>5, <1>6, <1>7, <1>8, <1>9, <1>10,
         <1>11, <1>12, <1>13, <1>14, <1>15, <1>16, <1>17, <1>18, <1>19, <1>20,
         <1>21 DEF WorkerStep

\* The brs stay in one place when a worker takes a step.
LEMMA PlaceStep ==
    ASSUME TypeOK, HandInv, ListInv, EachBrOnce, NEW d \in Duts, WorkerStep(d)
    PROVE  ListInv' /\ EachBrOnce'
  <1> USE DEF TypeOK, At, Goto
  <1>a. \A e \in Duts : e # d => pc'[e] = pc[e] /\ br'[e] = br[e]
    BY Frame
  <1>b. ASSUME UNCHANGED <<todo, cached, owner>>, br'[d] \in {br[d], None},
               pc'[d] # "execute"
        PROVE  ListInv' /\ EachBrOnce'
    <2>1. ListInv'
      BY <1>b DEF ListInv
    <2>2. \A e \in Duts : br'[e] = br[e] \/ br'[e] = None
      BY <1>a, <1>b
    <2>3. \A e \in Duts : pc'[e] = "execute" => pc[e] = "execute" /\ br'[e] = br[e]
      BY <1>a, <1>b
    <2>4. None \notin cached /\ \A l \in Labels : None \notin todo[l]
      BY BrAssumption
    <2>5. \A e \in Duts : At(e, "execute")' => owner'[br'[e]] = NoDut
      BY <1>b, <2>3 DEF EachBrOnce
    <2>6. \A e, f \in Duts : br'[e] # None /\ br'[e] = br'[f] => e = f
      BY <2>2 DEF EachBrOnce
    <2>7. \A e \in Duts : br'[e] \notin cached'
      BY <1>b, <2>2, <2>4 DEF EachBrOnce
    <2>8. ASSUME NEW e \in Duts, NEW l \in Labels PROVE br'[e] \notin todo'[l]
      <3>1. todo'[l] = todo[l] /\ None \notin todo[l] /\ br[e] \notin todo[l]
        BY <1>b, <2>4 DEF EachBrOnce
      <3> QED
        BY <2>2, <3>1
    <2> QED
      BY <2>1, <2>5, <2>6, <2>7, <2>8 DEF EachBrOnce
  <1>1. CASE GetCached(d)
    <2>1. CASE cached = {} /\ UNCHANGED <<cached, br>>
      BY <1>b, <1>1, <2>1 DEF GetCached, brVars
    <2>2. ASSUME NEW b \in cached, cached' = cached \ {b}, br' = [br EXCEPT ![d] = b]
          PROVE  ListInv' /\ EachBrOnce'
      <3>1. UNCHANGED <<todo, owner>> /\ pc'[d] = "runcached"
        BY <1>1, <2>2 DEF GetCached, brVars
      <3>2. ListInv'
        BY <2>2, <3>1 DEF ListInv
      <3>3. \A e \in Duts : br[e] # b
        BY <2>2 DEF EachBrOnce
      <3>4. br'[d] = b /\ b \notin cached' /\ \A l \in Labels : b \notin todo[l]
        BY <2>2 DEF ListInv
      <3>5. \A e \in Duts : pc'[e] = "execute" => e # d
        BY <3>1
      <3> QED
        BY <1>a, <2>2, <3>1, <3>2, <3>3, <3>4, <3>5 DEF EachBrOnce
    <2> QED
      BY <1>1, <2>1, <2>2 DEF GetCached
  <1>2. CASE Pop(d)
    <2>1. CASE Take(d) /\ pc' = [pc EXCEPT ![d] = "execute"]
      <3>1. label[d] \in Labels
        BY <1>2 DEF HandInv, Pop, LabelSteps
      <3>2. PICK b \in todo[label[d]] :
                /\ br' = [br EXCEPT ![d] = b]
                /\ todo' = [todo EXCEPT ![label[d]] = @ \ {b}]
        BY <2>1 DEF Take
      <3>3. UNCHANGED <<cached, owner>>
        BY <1>2 DEF Pop, brVars
      <3>4. \A l \in Labels : todo'[l] \subseteq todo[l] /\ b \notin todo'[l]
        BY <3>1, <3>2 DEF ListInv
      <3>5. ListInv'
        BY <3>3, <3>4 DEF ListInv
      <3>6. owner[b] = NoDut /\ b \notin cached /\ br'[d] = b
        BY <3>1, <3>2 DEF ListInv
      <3>7. \A e \in Duts : br[e] # b
        BY <3>1, <3>2 DEF EachBrOnce
      <3>8. \A e \in Duts : At(e, "execute")' => owner'[br'[e]] = NoDut
        BY <1>a, <3>3, <3>6 DEF EachBrOnce
      <3>9. \A e, f \in Duts : br'[e] # None /\ br'[e] = br'[f] => e = f
        BY <1>a, <3>6, <3>7 DEF EachBrOnce
      <3>10. \A e \in Duts : br'[e] \notin cached' /\ \A l \in Labels : br'[e] \notin todo'[l]
        BY <1>a, <3>3, <3>4, <3>6 DEF EachBrOnce
      <3> QED
        BY <3>5, <3>8, <3>9, <3>10 DEF EachBrOnce
    <2>2. CASE pc' = [pc EXCEPT ![d] = "finally"] /\ UNCHANGED <<br, todo>>
      BY <1>b, <1>2, <2>2 DEF Pop, brVars
    <2> QED
      BY <1>2, <2>1, <2>2 DEF Pop
  <1>3. CASE Execute(d)
    <2>1. CASE wTerminated[d]
      BY <1>b, <1>3, <2>1 DEF Execute, listVars
    <2>2. CASE ~wTerminated[d]
      <3>1. /\ UNCHANGED <<todo, cached, br>> /\ pc'[d] = "activate"
            /\ owner' = [owner EXCEPT ![br[d]] = d]
        BY <1>3, <2>2 DEF Execute, listVars
      <3>2. br[d] # None /\ br[d] \in Brs
        BY <1>3 DEF HandInv, Execute, BrSteps
      <3>3. \A b \in Brs : b # br[d] => owner'[b] = owner[b]
        BY <3>1
      <3>4. ListInv'
        BY <3>1, <3>3 DEF ListInv, EachBrOnce
      <3>5. ASSUME NEW e \in Duts, pc'[e] = "execute" PROVE owner'[br'[e]] = NoDut
        <4>1. e # d /\ pc[e] = "execute" /\ br'[e] = br[e]
          BY <1>a, <3>1, <3>5
        <4>2. br[e] # None /\ br[e] \in Brs
          BY <4>1 DEF HandInv, BrSteps
        <4>3. br[e] # br[d]
          BY <3>2, <4>1 DEF EachBrOnce
        <4> QED
          BY <3>3, <4>1, <4>2, <4>3 DEF EachBrOnce
      <3> QED
        BY <3>1, <3>4, <3>5 DEF EachBrOnce
    <2> QED
      BY <2>1, <2>2
  <1>4. CASE RunCached(d)
    BY <1>b, <1>4 DEF RunCached,
         listVars, workerVars, brVars
  <1>5. CASE SetupDutLabel(d)
    BY <1>b, <1>5 DEF SetupDutLabel,
         listVars, workerVars, brVars
  <1>6. CASE Loop(d)
    BY <1>b, <1>6 DEF Loop,
         listVars, workerVars, brVars
  <1>7. CASE LookUpLock(d)
    BY <1>b, <1>7 DEF LookUpLock,
         listVars, workerVars, brVars
  <1>8. CASE NewLock(d)
    BY <1>b, <1>8 DEF NewLock,
         listVars, workerVars, brVars
  <1>9. CASE CheckList(d)
    BY <1>b, <1>9 DEF CheckList, Locked,
         listVars, workerVars, brVars
  <1>10. CASE Activate(d)
    BY <1>b, <1>10 DEF Activate,
         listVars, workerVars, brVars
  <1>11. CASE StartBr(d)
    BY <1>b, <1>11 DEF StartBr,
         listVars, workerVars, brVars
  <1>12. CASE BrEnds(d)
    BY <1>b, <1>12 DEF BrEnds,
         listVars, workerVars, brVars
  <1>13. CASE FinishBr(d)
    BY <1>b, <1>13 DEF FinishBr,
         listVars, workerVars, brVars
  <1>14. CASE AllocateLabel(d)
    BY <1>b, AllocatedLabel, <1>14 DEF AllocateLabel,
         listVars, workerVars, brVars
  <1>15. CASE RecordAllocation(d)
    BY <1>b, <1>15 DEF RecordAllocation,
         listVars, workerVars, brVars
  <1>16. CASE Reimage(d)
    BY <1>b, <1>16 DEF Reimage, AlreadyImaged,
         listVars, workerVars, brVars
  <1>17. CASE TakeImageLock(d)
    BY <1>b, <1>17 DEF TakeImageLock,
         listVars, workerVars, brVars
  <1>18. CASE ImageOk(d)
    BY <1>b, <1>18 DEF ImageOk, Imaged,
         listVars, workerVars, brVars
  <1>19. CASE ImageFails(d)
    BY <1>b, <1>19 DEF ImageFails, FlashFails, AfterFailure,
         listVars, workerVars, brVars
  <1>20. CASE Finally(d)
    BY <1>b, <1>20 DEF Finally, DutWorkerFinished,
         listVars, workerVars, brVars
  <1>21. CASE VersionFails(d)
    BY <1>b, <1>21 DEF VersionFails, Imaged,
         listVars, workerVars, brVars
  <1> QED
    BY <1>1, <1>2, <1>3, <1>4, <1>5, <1>6, <1>7, <1>8, <1>9, <1>10,
         <1>11, <1>12, <1>13, <1>14, <1>15, <1>16, <1>17, <1>18, <1>19, <1>20,
         <1>21 DEF WorkerStep

\* ImageInv of one worker.
ImageOf(d) ==
    pc[d] \notin {"finally", "done"} =>
        /\ label[d] # NoLabel => image[d] = label[d]
        /\ checksum[d] # NoLabel => image[d] = checksum[d]
        /\ ckfile[d] # NoLabel => image[d] = ckfile[d]

\* Only the worker of a DUT changes what the DUT carries, and it stops when
\* it does not know the outcome.
LEMMA ImageStep ==
    ASSUME TypeOK, HandInv, ImageInv, NEW d \in Duts, WorkerStep(d)
    PROVE  ImageInv'
  <1> SUFFICES ASSUME ~KeepStateful
               PROVE  \A e \in Duts : ImageOf(e)'
    BY DEF ImageInv, ImageOf
  <1> USE DEF TypeOK, At, Goto, ImageOf
  <1>a. ImageOf(d)
    BY DEF ImageInv
  <1>b. ASSUME ImageOf(d)', NEW e \in Duts PROVE ImageOf(e)'
    <2>1. CASE e = d
      BY <2>1, <1>b
    <2>2. CASE e # d
      BY <2>2, Frame DEF ImageInv
    <2> QED
      BY <2>1, <2>2
  <1>1. ASSUME GetCached(d) PROVE ImageOf(d)'
    BY <1>a, <1>1 DEF GetCached, dutVars
  <1>2. ASSUME RunCached(d) PROVE ImageOf(d)'
    BY <1>a, <1>2 DEF RunCached, dutVars
  <1>3. ASSUME SetupDutLabel(d) PROVE ImageOf(d)'
    BY <1>a, <1>3 DEF SetupDutLabel, dutVars
  <1>4. ASSUME Loop(d) PROVE ImageOf(d)'
    BY <1>a, <1>4 DEF Loop, dutVars
  <1>5. ASSUME LookUpLock(d) PROVE ImageOf(d)'
    BY <1>a, <1>5 DEF LookUpLock, dutVars
  <1>6. ASSUME NewLock(d) PROVE ImageOf(d)'
    BY <1>a, <1>6 DEF NewLock, dutVars
  <1>7. ASSUME CheckList(d) PROVE ImageOf(d)'
    BY <1>a, <1>7 DEF CheckList, Locked, dutVars
  <1>8. ASSUME Pop(d) PROVE ImageOf(d)'
    BY <1>a, <1>8 DEF Pop, Take, dutVars
  <1>9. ASSUME Execute(d) PROVE ImageOf(d)'
    BY <1>a, <1>9 DEF Execute, dutVars
  <1>10. ASSUME Activate(d) PROVE ImageOf(d)'
    BY <1>a, <1>10 DEF Activate, dutVars
  <1>11. ASSUME StartBr(d) PROVE ImageOf(d)'
    BY <1>a, <1>11 DEF StartBr, dutVars
  <1>12. ASSUME BrEnds(d) PROVE ImageOf(d)'
    BY <1>a, <1>12 DEF BrEnds, dutVars
  <1>13. ASSUME FinishBr(d) PROVE ImageOf(d)'
    BY <1>a, <1>13 DEF FinishBr, dutVars
  <1>14. ASSUME AllocateLabel(d) PROVE ImageOf(d)'
    BY <1>a, AllocatedLabel, <1>14 DEF AllocateLabel, dutVars
  <1>15. ASSUME RecordAllocation(d) PROVE ImageOf(d)'
    BY <1>a, <1>15 DEF RecordAllocation, dutVars
  <1>16. ASSUME Reimage(d) PROVE ImageOf(d)'
    BY <1>a, <1>16 DEF Reimage, AlreadyImaged, Checksum, dutVars
  <1>17. ASSUME TakeImageLock(d) PROVE ImageOf(d)'
    BY <1>a, <1>17 DEF TakeImageLock, dutVars
  <1>18. ASSUME ImageOk(d) PROVE ImageOf(d)'
    BY <1>a, <1>18 DEF ImageOk, Imaged, FlashSkipped, FlashedFile,
         Checksum, dutVars
  <1>19. ASSUME ImageFails(d) PROVE ImageOf(d)'
    BY <1>a, <1>19 DEF ImageFails, FlashFails, AfterFailure, dutVars
  <1>20. ASSUME Finally(d) PROVE ImageOf(d)'
    BY <1>a, <1>20 DEF Finally, DutWorkerFinished, dutVars
  <1>21. ASSUME VersionFails(d) PROVE ImageOf(d)'
    BY <1>a, <1>21 DEF VersionFails, Imaged, FlashSkipped, FlashedFile,
         Checksum, dutVars
  <1> QED
    BY <1>b, <1>1, <1>2, <1>3, <1>4, <1>5, <1>6, <1>7, <1>8, <1>9, <1>10,
         <1>11, <1>12, <1>13, <1>14, <1>15, <1>16, <1>17, <1>18, <1>19, <1>20,
         <1>21 DEF WorkerStep

\* A worker that is not the only one at a list of brs shares it under two
\* locks.
LEMMA LockStep ==
    ASSUME TypeOK, HandInv, LockInv, NEW d \in Duts, WorkerStep(d)
    PROVE  LockInv'
  <1> USE DEF TypeOK, At, Goto
  <1>a. /\ \A l \in Labels : lockOf[l] # NoDut => lockOf[l] \in made[l]
        /\ \A e \in Duts : Guarded(e)
        /\ \A e, f \in Duts : Apart(e, f)
    BY DEF LockInv
  <1>b. \A e \in Duts : pc[e] \in {"check", "pop"} => label[e] \in Labels
    BY DEF HandInv, LabelSteps
  <1>c. \A e \in Duts : e # d =>
            pc'[e] = pc[e] /\ label'[e] = label[e] /\ lock'[e] = lock[e]
    BY Frame
  <1>d. ASSUME UNCHANGED <<lockOf, made, todo>>, Guarded(d)',
               \A e \in Duts : e # d => Apart(d, e)' /\ Apart(e, d)'
        PROVE  LockInv'
    <2>1. \A e \in Duts : e # d => Guarded(e)'
      BY <1>a, <1>c, <1>d DEF Guarded, Raced
    <2>2. \A e, f \in Duts : e # d /\ f # d => Apart(e, f)'
      BY <1>a, <1>c DEF Apart
    <2>3. Apart(d, d)'
      BY DEF Apart
    <2> HIDE DEF TypeOK
    <2> QED
      BY <1>a, <1>d, <2>1, <2>2, <2>3 DEF LockInv
  <1>e. ASSUME UNCHANGED <<lockOf, made, todo>>, pc'[d] \notin {"check", "pop"}
        PROVE  LockInv'
    BY <1>d, <1>e DEF Guarded, Apart
  <1>1. CASE LookUpLock(d)
    <2>1. UNCHANGED <<lockOf, made, todo, label>>
      BY <1>1 DEF LookUpLock, listVars, dutVars
    <2>2. CASE pc'[d] = "newlock"
      BY <1>e, <2>1, <2>2
    <2>3. CASE pc'[d] = "check" /\ lock'[d] = lockOf[label[d]] /\ lockOf[label[d]] # NoDut
      <3>1. label[d] \in Labels
        BY <1>1 DEF HandInv, LookUpLock, LabelSteps
      <3>2. Guarded(d)'
        BY <1>a, <2>1, <2>3, <3>1 DEF Guarded
      <3> QED
        BY <1>d, <2>1, <2>3, <3>2 DEF Apart
    <2>4. pc'[d] = "newlock" \/ (/\ pc'[d] = "check" /\ lock'[d] = lockOf[label[d]]
                                 /\ lockOf[label[d]] # NoDut)
      BY <1>1 DEF LookUpLock
    <2> QED
      BY <2>2, <2>3, <2>4
  <1>2. CASE NewLock(d)
    <2>1. label[d] \in Labels /\ UNCHANGED <<todo, label>>
      BY <1>2 DEF HandInv, NewLock, LabelSteps, dutVars
    <2>2. pc'[d] = "check" /\ lock'[d] = d
      BY <1>2 DEF NewLock
    <2>3. /\ lockOf' = [lockOf EXCEPT ![label[d]] = d]
          /\ made' = [made EXCEPT ![label[d]] = @ \cup {d}]
      BY <1>2 DEF NewLock
    <2>4. \A l \in Labels : made[l] \subseteq made'[l]
      BY <2>1, <2>3
    <2>5. d \in made'[label[d]]
      BY <2>1, <2>3
    <2>6. \A l \in Labels : lockOf'[l] # NoDut => lockOf'[l] \in made'[l]
      BY <1>a, <2>1, <2>3, <2>4, <2>5
    <2>7. ASSUME NEW e \in Duts PROVE Guarded(e)'
      <3>1. CASE e = d
        BY <2>1, <2>2, <2>5, <3>1 DEF Guarded
      <3>2. CASE e # d /\ pc[e] \in {"check", "pop"}
        <4>1. label[e] \in Labels /\ made[label[e]] \subseteq made'[label[e]]
          BY <1>b, <2>4, <3>2
        <4>2. pc'[e] = pc[e] /\ label'[e] = label[e] /\ lock'[e] = lock[e]
          BY <1>c, <3>2
        <4> HIDE DEF TypeOK
        <4> QED
          BY <1>a, <2>1, <3>2, <4>1, <4>2 DEF Guarded, Raced
      <3>3. CASE e # d /\ pc[e] \notin {"check", "pop"}
        BY <1>c, <3>3 DEF Guarded
      <3> QED
        BY <3>1, <3>2, <3>3
    <2>8. ASSUME NEW e \in Duts, NEW f \in Duts PROVE Apart(e, f)'
      BY <1>a, <1>c, <2>2 DEF Apart
    <2> HIDE DEF TypeOK
    <2> QED
      BY <2>6, <2>7, <2>8 DEF LockInv
  <1>3. CASE CheckList(d)
    <2>1. UNCHANGED <<todo, lockOf, made, label, lock>> /\ pc[d] = "check"
      BY <1>3 DEF CheckList, listVars, workerVars, dutVars
    <2>2. CASE todo[label[d]] = {}
      BY <1>e, <1>3, <2>1, <2>2 DEF CheckList
    <2>3. CASE todo[label[d]] # {}
      <3>1. pc'[d] = "pop"
        BY <1>3, <2>3 DEF CheckList
      <3>2. Guarded(d)'
        BY <1>a, <2>1, <2>3, <3>1 DEF Guarded
      <3>3. \A e \in Duts : ~(At(e, "pop") /\ label[e] = label[d] /\ lock[e] = lock[d])
        BY <1>3 DEF CheckList, Locked
      <3>4. \A e \in Duts : e # d => Apart(d, e)' /\ Apart(e, d)'
        BY <1>c, <2>1, <3>3 DEF Apart
      <3> QED
        BY <1>d, <2>1, <3>2, <3>4
    <2> QED
      BY <2>2, <2>3
  <1>4. CASE Pop(d)
    <2>1. label[d] \in Labels /\ pc[d] = "pop"
      BY <1>4 DEF HandInv, Pop, LabelSteps
    <2>2. /\ UNCHANGED <<lockOf, made, label, lock>>
          /\ pc'[d] \in {"execute", "finally"}
      BY <1>4 DEF Pop, dutVars
    <2>3. \A l \in Labels : l # label[d] => todo'[l] = todo[l]
      BY <1>4, <2>1 DEF Pop, Take
    <2>4. ASSUME NEW e \in Duts, e # d, At(e, "pop"), label[e] = label[d]
          PROVE  Raced(label[d])
      <3>1. lock[e] # lock[d]
        BY <1>a, <2>1, <2>4 DEF Apart
      <3>2. lock[d] \in made[label[d]] /\ lock[e] \in made[label[d]]
        BY <1>a, <2>1, <2>4 DEF Guarded
      <3> QED
        BY <3>1, <3>2 DEF Raced
    <2>5. ASSUME NEW e \in Duts PROVE Guarded(e)'
      <3>1. CASE e = d
        BY <2>2, <3>1 DEF Guarded
      <3>2. CASE e # d /\ At(e, "pop") /\ label[e] = label[d]
        <4>1. Raced(label[d]) /\ made' = made /\ label'[e] = label[d]
          BY <1>c, <2>2, <2>4, <3>2
        <4>2. lock'[e] \in made'[label'[e]]
          BY <1>a, <1>c, <2>2, <3>2 DEF Guarded
        <4> QED
          BY <4>1, <4>2 DEF Guarded, Raced
      <3>3. CASE e # d /\ At(e, "pop") /\ label[e] # label[d]
        <4>1. todo'[label[e]] = todo[label[e]]
          BY <1>b, <2>3, <3>3
        <4> QED
          BY <1>a, <1>c, <2>2, <3>3, <4>1 DEF Guarded, Raced
      <3>4. CASE e # d /\ ~At(e, "pop")
        BY <1>a, <1>c, <2>2, <3>4 DEF Guarded
      <3> QED
        BY <3>1, <3>2, <3>3, <3>4
    <2> HIDE DEF TypeOK
    <2>6. \A e, f \in Duts : Apart(e, f)'
      BY <1>a, <1>c, <2>2 DEF Apart
    <2> QED
      BY <1>a, <2>2, <2>5, <2>6 DEF LockInv
  <1>5. CASE GetCached(d)
    BY <1>e, <1>5 DEF GetCached, listVars
  <1>6. CASE RunCached(d)
    BY <1>e, <1>6 DEF RunCached, listVars
  <1>7. CASE SetupDutLabel(d)
    BY <1>e, <1>7 DEF SetupDutLabel, listVars
  <1>8. CASE Loop(d)
    BY <1>e, <1>8 DEF Loop, listVars
  <1>9. CASE Execute(d)
    BY <1>e, <1>9 DEF Execute, listVars
  <1>10. CASE Activate(d)
    BY <1>e, <1>10 DEF Activate, listVars
  <1>11. CASE StartBr(d)
    BY <1>e, <1>11 DEF StartBr, listVars
  <1>12. CASE BrEnds(d)
    BY <1>e, <1>12 DEF BrEnds, listVars
  <1>13. CASE FinishBr(d)
    BY <1>e, <1>13 DEF FinishBr, listVars
  <1>14. CASE AllocateLabel(d)
    BY <1>e, AllocatedLabel, <1>14 DEF AllocateLabel, listVars
  <1>15. CASE RecordAllocation(d)
    BY <1>e, <1>15 DEF RecordAllocation, listVars
  <1>16. CASE Reimage(d)
    BY <1>e, <1>16 DEF Reimage, AlreadyImaged, listVars
  <1>17. CASE TakeImageLock(d)
    BY <1>e, <1>17 DEF TakeImageLock, listVars
  <1>18. CASE ImageOk(d)
    BY <1>e, <1>18 DEF ImageOk, Imaged, listVars
  <1>19. CASE ImageFails(d)
    BY <1>e, <1>19 DEF ImageFails, FlashFails, AfterFailure, listVars
  <1>20. CASE Finally(d)
    BY <1>e, <1>20 DEF Finally, DutWorkerFinished, listVars
  <1>21. CASE VersionFails(d)
    BY <1>e, <1>21 DEF VersionFails, Imaged, listVars
  <1> QED
    BY <1>1, <1>2, <1>3, <1>4, <1>5, <1>6, <1>7, <1>8, <1>9, <1>10,
         <1>11, <1>12, <1>13, <1>14, <1>15, <1>16, <1>17, <1>18, <1>19, <1>20,
         <1>21 DEF WorkerStep

\* The invariant holds when the scheduler has been built.
LEMMA InitInv == Init => IInv
  <1> SUFFICES ASSUME Init PROVE IInv
    OBVIOUS
  <1>a. InitialDuts
    BY DEF Init
  <1>1. TypeOK
    <2>1. matrix \in Matrix
      BY PlanType DEF Init
    <2>2. active \in Seq(Duts)
      BY SizeAssumption DEF Init, Duts
    <2>3. todo \in [Labels -> SUBSET Brs] /\ cached \subseteq Brs
      BY DEF Init
    <2>4. checksum \in [Duts -> Labels \cup {NoLabel}]
      BY <1>a, BrAssumption DEF InitialDuts, Checksum
    <2>5. /\ imaged \in [Labels -> Nat]
          /\ lockOf \in [Labels -> Duts \cup {NoDut}]
          /\ made \in [Labels -> SUBSET Duts]
          /\ owner \in [Brs -> Duts \cup {NoDut}]
      BY DEF Init
    <2>6. /\ pc \in [Duts -> Steps] /\ br \in [Duts -> Brs \cup {None}]
          /\ choice \in [Duts -> Labels \cup {NoLabel}]
          /\ lock \in [Duts -> Duts \cup {NoDut}]
          /\ stopped \in [Duts -> Stops]
      BY DEF Init, Steps, Stops
    <2>7. /\ wTerminated \in [Duts -> BOOLEAN]
          /\ activeBr \in [Duts -> Brs \cup {None}]
      BY DEF Init
    <2>8. /\ label \in [Duts -> Labels \cup {NoLabel}]
          /\ image \in [Duts -> Labels \cup {NoLabel}]
          /\ ckfile \in [Duts -> LocalLabels \cup {NoLabel}]
      BY <1>a DEF InitialDuts
    <2>9. /\ imageLock \in Duts \cup {NoDut} /\ terminating \in Duts \cup {NoDut}
          /\ brTerminated \subseteq Brs /\ executed \subseteq Brs
          /\ main \in {"poll", "terminate", "cleanup", "end"}
          /\ index \in Nat \ {0}
      BY DEF Init
    <2>10. terminated \in BOOLEAN
      BY Zenon DEF Init
    <2> QED
      BY <2>1, <2>2, <2>3, <2>4, <2>5, <2>6, <2>7, <2>8, <2>9, <2>10 DEF TypeOK
  <1>2. HandInv
    BY DEF Init, HandInv, BrSteps, LabelSteps, ChoiceSteps
  <1>3. ListInv
    BY DEF Init, ListInv
  <1>4. EachBrOnce
    <2>1. None \notin cached /\ \A l \in Labels : None \notin todo[l]
      BY <1>1, BrAssumption DEF TypeOK
    <2> QED
      BY <2>1 DEF Init, EachBrOnce, At
  <1>5. ImageInv
    BY <1>a DEF InitialDuts, Checksum, ImageInv
  <1>6. LockInv
    BY DEF Init, LockInv, Guarded, Apart, At
  <1> QED
    BY <1>1, <1>2, <1>3, <1>4, <1>5, <1>6 DEF IInv

\* It holds after every step.
LEMMA StepInv == IInv /\ [Next]_vars => IInv'
  <1> SUFFICES ASSUME IInv, [Next]_vars PROVE IInv'
    OBVIOUS
  <1>1. CASE \E d \in Duts : WorkerStep(d)
    <2>1. PICK d \in Duts : WorkerStep(d)
      BY <1>1
    <2> QED
      BY <2>1, WorkerTypes, HandStep, PlaceStep, ImageStep, LockStep DEF IInv
  <1>2. CASE MainStep
    <2>1. UNCHANGED <<pc, br, choice, lock, label, checksum, image, ckfile, todo,
                      cached, owner, lockOf, made>>
      BY <1>2 DEF MainStep, IsComplete, Interrupt, TerminateWorker, TerminateBr,
         AllTerminated, CleanUp, listVars, workerVars, dutVars, brVars
    <2>2. TypeOK'
      BY <1>2, MainTypes DEF IInv
    <2> QED
      BY <2>1, <2>2 DEF IInv, HandInv, ListInv, EachBrOnce, ImageInv,
           LockInv, Guarded, Apart, Raced, At
  <1>3. CASE Ended \/ UNCHANGED vars
    <2>1. UNCHANGED vars
      BY <1>3 DEF Ended
    <2>2. UNCHANGED <<pc, br, choice, lock, label, checksum, image, ckfile, todo,
                      cached, owner, lockOf, made>>
      BY <2>1 DEF vars, listVars, workerVars, dutVars, brVars
    <2>3. TypeOK'
      BY <2>1 DEF IInv, TypeOK, vars, mimVars, listVars, workerVars, dutVars,
         brVars, termVars, mainVars
    <2> QED
      BY <2>2, <2>3 DEF IInv, HandInv, ListInv, EachBrOnce, ImageInv, LockInv,
         Guarded, Apart, Raced, At
  <1> QED
    BY <1>1, <1>2, <1>3 DEF Next

THEOREM Invariance == Spec => []IInv
  BY InitInv, StepInv, PTL DEF Spec

\* Every variable keeps its type: the workers only ever hold brs and labels
\* of the experiment.
THEOREM TypeCorrect == Spec => []TypeOK
  <1>1. IInv => TypeOK
    BY DEF IInv
  <1> QED
    BY Invariance, <1>1, PTL

\* No br is executed twice or by two workers: get_benchmark_run,
\* get_cached_benchmark_run and "assert br.owner_thread is None".
THEOREM NeverTwice == Spec => []EachBrOnce
  <1>1. IInv => EachBrOnce
    BY DEF IInv
  <1> QED
    BY Invariance, <1>1, PTL

\* "Machine image is guarenteed": a br executes on its own label's image
\* although _execute_benchmark_run never looks at it; whatever fails, and
\* without --keep_stateful, after which DoImage and _setup_dut_label may trust
\* the checksum file of another image.
THEOREM ImageGuaranteed ==
    ASSUME ~KeepStateful
    PROVE  Spec => []RightImage
  <1>1. IInv => RightImage
    <2> SUFFICES ASSUME IInv, NEW d \in Duts, At(d, "running")
                 PROVE  image[d] = LabelOf[br[d]]
      BY DEF RightImage
    <2>1. br[d] \in Brs /\ LabelOf[br[d]] = label[d]
      BY DEF IInv, HandInv, TypeOK, BrSteps, At
    <2>2. label[d] # NoLabel
      BY <2>1, BrAssumption, NoneIsNone
    <2> QED
      BY <2>1, <2>2 DEF IInv, ImageInv, At
  <1> QED
    BY Invariance, <1>1, PTL

\* get_benchmark_run only ever pops from an empty list when two workers have
\* made a lock for its label in _lock_map.
THEOREM LockedPop == Spec => []PopFindsBr
  <1>1. IInv => PopFindsBr
    BY DEF IInv, LockInv, Guarded, PopFindsBr
  <1> QED
    BY Invariance, <1>1, PTL
=============================================================================
