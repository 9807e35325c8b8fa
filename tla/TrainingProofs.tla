---------------------------- MODULE TrainingProofs ----------------------------
(***************************************************************************)
(* Theorems about training, for any number of blocks, steps, threads, clusters, *)
(* contents and ids, any interval, lookahead, threshold and length of queue,   *)
(* whatever fails and whenever the process dies: the loop with its window of   *)
(* pinned blocks (TrainingLoop), the threads that export what changes          *)
(* (ArteryPulsar) and those that fetch what comes next (VeinPrefetcher).        *)
(***************************************************************************)
EXTENDS TrainingLoop, ArteryPulsar, VeinPrefetcher, FiniteSetTheorems, TLAPS

-----------------------------------------------------------------------------
(***************************************************************************)
(* The loop.  What is pinned is the window; without a return to an old          *)
(* checkpoint and a torn step the moments are exactly those of the weights.    *)
(***************************************************************************)
Gradients == Seq(Nat)
Moments == [Blocks -> Gradients]
MainPlaces == {"rest", "load", "block", "update", "store", "pin", "flush", "stale", "drain", "external", "save"}
Job == [at : {"none", "queued", "done", "failed"}, blocks : SUBSET Blocks]
MainCall == [pc : MainPlaces, active : SUBSET Blocks, todo : SUBSET Blocks, fresh : SUBSET Blocks, loaded : Moments]
SavedState == [step : Nat, learned : Moments, ahead : SUBSET Blocks, torn : SUBSET Blocks]
Advanced ==
  [stored : SUBSET Blocks, flushed : SUBSET Blocks, missing : SUBSET Blocks, lost : SUBSET Blocks]

TypeInv ==
  /\ options \in [async : BOOLEAN, batch : BOOLEAN]
  /\ stepIndex \in Nat /\ stepsBegun \in Nat
  /\ learned \in Moments /\ seen \in Moments /\ durable \in Moments
  /\ {dirty, window, previous, ahead, torn} \subseteq SUBSET Blocks
  /\ flushJob \in Job /\ main \in MainCall /\ saved \in SavedState /\ advanced \in Advanced

(***************************************************************************)
(* The pins: between its pin and its end, a step has the window it opened    *)
(* itself, so nothing that it takes for stale is in it.                       *)
(***************************************************************************)
PinInv ==
  /\ pinned = window
  /\ Cardinality(window) <= PinLimit
  /\ main.pc \in {"flush", "stale"} => window = PinTarget(main.active)

(***************************************************************************)
(* The moments: where a step has come to, and what it has to store yet.       *)
(***************************************************************************)
Kept == Blocks \ (torn \cup ahead)

\* Blocks whose loaded moments are the ones the step will add a gradient to.
Ready ==
  IF options.batch
  THEN IF main.pc = "block" THEN main.todo ELSE {}
  ELSE IF main.pc = "update" THEN {b \in Blocks : First(b)} ELSE {}

ProgressInv ==
  /\ main.pc \notin {"block", "store"} => main.fresh = {}
  /\ ~ options.batch /\ main.pc = "block" => main.fresh = {}
  /\ main.pc \in {"update", "store"} => ~ options.batch
  /\ main.todo \cap main.fresh = {}
  /\ main.pc = "load" => options.batch /\ main.active = main.todo
  /\ options.batch /\ main.pc = "block" => main.active = main.todo \cup main.fresh

MomentInv ==
  \A b \in Kept :
    /\ b \in main.fresh => main.loaded[b] = learned[b]
    /\ b \notin main.fresh => seen[b] = learned[b]
    /\ b \in Ready => main.loaded[b] = seen[b]

(***************************************************************************)
(* The checkpoint: a block that has not been stored since has the moments it  *)
(* names, and one that has not been flushed since has them after a restart,    *)
(* unless no flush had saved them when the checkpoint was saved.              *)
(***************************************************************************)
SavedKept == Blocks \ (saved.torn \cup saved.ahead \cup advanced.lost)

CheckpointInv ==
  /\ advanced.flushed \subseteq advanced.stored
  /\ \A b \in SavedKept \ advanced.stored : seen[b] = saved.learned[b]
  /\ \A b \in SavedKept \ (advanced.flushed \cup advanced.missing) : durable[b] = saved.learned[b]
  /\ main.pc = "save" => dirty = {}

LoopInv == TypeInv /\ PinInv /\ ProgressInv /\ MomentInv /\ CheckpointInv
----------------------------------------------------------------------------
(* Types.                                                                   *)
LEMMA FlushTypes ==
  ASSUME TypeInv, NEW ks \in SUBSET Blocks, FlushBlocks(ks)
  PROVE  /\ seen' \in Moments /\ durable' \in Moments
         /\ dirty' \in SUBSET Blocks /\ advanced' \in Advanced
BY DEF TypeInv, FlushBlocks, Moments, Advanced

LEMMA FlushFailsTypes ==
  ASSUME TypeInv, NEW ks, NEW marked, FlushFails(ks, marked)
  PROVE  UNCHANGED <<seen, durable, pinned, advanced>> /\ dirty' \in SUBSET dirty
BY DEF FlushFails

LEMMA BlocksFailTypes ==
  ASSUME TypeInv, NEW ks, FlushBlocksFails(ks)
  PROVE  UNCHANGED <<seen, durable, pinned, advanced>> /\ dirty' \in SUBSET dirty
BY FlushFailsTypes DEF FlushBlocksFails

LEMMA StoreKeepsTypes ==
  ASSUME TypeInv, NEW ks \in SUBSET Blocks, NEW saves \in SUBSET Blocks, NEW marked,
         StoreBlocks(ks, main.loaded, saves, marked)
  PROVE  /\ seen' \in Moments /\ durable' \in Moments
         /\ dirty' \in SUBSET Blocks /\ advanced' \in Advanced
BY DEF TypeInv, StoreBlocks, Moments, Advanced, MainCall

LEMMA SavedWithBlocks ==
  ASSUME TypeInv, NEW ks \in SUBSET Blocks
  PROVE  SavedWith(ks) \in SUBSET Blocks
BY DEF TypeInv, SavedWith

LEMMA NothingTyped == NoGradients \in Moments /\ NoJob \in Job
<1>1. <<>> \in Gradients
  BY DEF Gradients
<1> QED
  BY <1>1 DEF NoGradients, Moments, NoJob, Job

LEMMA RestTypes == AtRest \in MainCall
BY NothingTyped DEF AtRest, MainCall, MainPlaces

LEMMA MainToTypes ==
  ASSUME TypeInv, NEW pc \in MainPlaces, MainTo(pc)
  PROVE  main' \in MainCall
BY DEF TypeInv, MainTo, MainCall

LEMMA InitTypes == TrainingInit => TypeInv
<1> SUFFICES ASSUME TrainingInit PROVE TypeInv
  OBVIOUS
<1>1. saved \in SavedState
  BY NothingTyped DEF TrainingInit, SavedState
<1>2. advanced \in Advanced
  BY DEF TrainingInit, Advanced
<1> QED
  BY <1>1, <1>2, RestTypes, NothingTyped DEF TrainingInit, TypeInv

LEMMA StepTypes ==
  ASSUME TypeInv, [TrainingNext]_trainingVars
  PROVE  TypeInv'
<1> USE DEF TypeInv, stateVars, resumeVars
<1>1. ASSUME NEW active \in SUBSET Blocks, BeginStep(active) PROVE TypeInv'
  <2>1. main' \in MainCall
    BY <1>1, RestTypes DEF BeginStep, MainCall, MainPlaces
  <2> QED
    BY <1>1, <2>1 DEF BeginStep
<1>2. CASE LoadStates
  <2>1. [b \in Blocks |-> IF b \in main.active THEN seen[b] ELSE <<>>] \in Moments
    BY NothingTyped DEF Moments, NoGradients, Gradients
  <2>2. main' \in MainCall
    BY <1>2, <2>1 DEF LoadStates, MainCall, MainPlaces
  <2> QED
    BY <1>2, <2>2 DEF LoadStates
<1>3. ASSUME NEW b \in Blocks, LoadState(b) PROVE TypeInv'
  <2>1. seen[b] \in Gradients
    BY DEF Moments
  <2>2. main' \in MainCall
    BY <1>3, <2>1 DEF LoadState, MainCall, MainPlaces, Moments
  <2> QED
    BY <1>3, <2>2 DEF LoadState
<1>4. ASSUME NEW b \in Blocks, UpdateBlock(b) PROVE TypeInv'
  <2>1. Append(learned[b], stepsBegun) \in Gradients /\ Append(main.loaded[b], stepsBegun) \in Gradients
    BY DEF Gradients, Moments, MainCall, MainPlaces
  <2>2. learned' \in Moments
    BY <1>4, <2>1 DEF UpdateBlock, Moments
  <2>3. [main.loaded EXCEPT ![b] = Append(@, stepsBegun)] \in Moments
    BY <2>1 DEF Moments, MainCall, MainPlaces
  <2>4. main' \in MainCall
    BY <1>4, <2>3 DEF UpdateBlock, MainCall, MainPlaces
  <2> QED
    BY <1>4, <2>2, <2>4 DEF UpdateBlock
<1>5. ASSUME NEW ks \in SUBSET Blocks, StoreStates(ks) PROVE TypeInv'
  <2>1. main' \in MainCall
    BY <1>5, NothingTyped DEF StoreStates, MainCall, MainPlaces
  <2> QED
    BY <1>5, <2>1, StoreKeepsTypes, SavedWithBlocks DEF StoreStates, Storing
<1>6. ASSUME NEW ks \in SUBSET Blocks, StoreRaises(ks) PROVE TypeInv'
  <2>1. PICK saves \in SUBSET Blocks, marked \in SUBSET Blocks : StoreBlocks(ks, main.loaded, saves, marked)
    BY <1>6, SavedWithBlocks DEF StoreRaises
  <2> QED
    BY <1>6, <2>1, StoreKeepsTypes, RestTypes DEF StoreRaises, Storing
<1>7. CASE PinStep
  <2>1. main.active \in SUBSET Blocks
    BY DEF MainCall, MainPlaces
  <2>2. window' \in SUBSET Blocks
    BY <1>7, <2>1 DEF PinStep, UpdatePinWindow, PinTarget
  <2> QED
    BY <1>7, <2>2, MainToTypes DEF PinStep, MainPlaces
<1>8. CASE ScheduleFlush
  <2>1. main.active \in SUBSET Blocks
    BY DEF MainCall, MainPlaces
  <2>2. [at |-> "queued", blocks |-> main.active] \in Job
    BY <2>1 DEF Job
  <2>3. main' \in MainCall
    BY <1>8, MainToTypes DEF ScheduleFlush, MainPlaces
  <2> QED
    BY <1>8, <2>1, <2>2, <2>3, FlushTypes DEF ScheduleFlush
<1>9. CASE FlushRaises
  <2>1. main.active \in SUBSET Blocks
    BY DEF MainCall, MainPlaces
  <2> QED
    BY <1>9, <2>1, FlushTypes, BlocksFailTypes, RestTypes, NothingTyped DEF FlushRaises
<1>10. CASE UnpinStale
  <2>1. main.active \in SUBSET Blocks
    BY DEF MainCall, MainPlaces
  <2> QED
    BY <1>10, <2>1, RestTypes DEF UnpinStale
<1>11. CASE StepRaises
  <2>1. main.fresh \in SUBSET Blocks
    BY DEF MainCall, MainPlaces
  <2> QED
    BY <1>11, <2>1, RestTypes DEF StepRaises
<1>12. CASE WorkerFlushes
  <2>1. flushJob.blocks \in SUBSET Blocks
    BY DEF Job
  <2>2. flushJob' \in Job
    BY <1>12 DEF WorkerFlushes, Job
  <2> QED
    BY <1>12, <2>1, <2>2, FlushTypes, BlocksFailTypes DEF WorkerFlushes
<1>13. CASE BeginCheckpoint
  BY <1>13, MainToTypes DEF BeginCheckpoint, MainPlaces
<1>14. CASE DrainFlush
  BY <1>14, MainToTypes, RestTypes, NothingTyped DEF DrainFlush, MainPlaces
<1>15. CASE FlushOrigin
  <2>1. main' \in MainCall
    BY <1>15, MainToTypes DEF FlushOrigin, MainPlaces
  <2> QED
    BY <1>15, <2>1, FlushTypes DEF FlushOrigin
<1>16. CASE SaveTraining
  <2>1. saved' \in SavedState
    BY <1>16 DEF SaveTraining, SavedState
  <2>2. advanced' \in Advanced
    BY <1>16 DEF SaveTraining, Advanced, Unsaved
  <2> QED
    BY <1>16, <2>1, <2>2, RestTypes DEF SaveTraining
<1>17. CASE CheckpointRaises
  BY <1>17, RestTypes, FlushTypes, FlushFailsTypes DEF CheckpointRaises
<1>18. CASE LoadCheckpoint
  <2>1. stepIndex' \in Nat /\ learned' \in Moments /\ {ahead', torn'} \subseteq SUBSET Blocks
    BY <1>18 DEF LoadCheckpoint, GoBack, SavedState, Advanced
  <2> QED
    BY <1>18, <2>1, NothingTyped DEF LoadCheckpoint, GoBack
<1>19. CASE LoadRaises
  BY <1>19, NothingTyped DEF LoadRaises
<1>20. CASE DieAndResume
  <2>1. stepIndex' \in Nat /\ learned' \in Moments /\ {ahead', torn'} \subseteq SUBSET Blocks
    BY <1>20 DEF DieAndResume, GoBack, SavedState, Advanced
  <2>2. advanced' \in Advanced
    BY <1>20 DEF DieAndResume, Advanced
  <2> QED
    BY <1>20, <2>1, <2>2, RestTypes, NothingTyped DEF DieAndResume, GoBack
<1>21. ASSUME NEW b \in Blocks, DropUnsaved(b) PROVE TypeInv'
  <2>1. durable[b] \in Gradients
    BY DEF Moments
  <2>2. seen' \in Moments
    BY <1>21, <2>1 DEF DropUnsaved, Moments
  <2>3. advanced' \in Advanced
    BY <1>21 DEF DropUnsaved, Advanced
  <2> QED
    BY <1>21, <2>2, <2>3 DEF DropUnsaved, optimizerVars
<1>22. CASE UNCHANGED trainingVars
  BY <1>22 DEF trainingVars, optimizerVars
<1> QED
  BY <1>1, <1>2, <1>3, <1>4, <1>5, <1>6, <1>7, <1>8, <1>9, <1>10, <1>11, <1>12, <1>13, <1>14,
     <1>15, <1>16, <1>17, <1>18, <1>19, <1>20, <1>21, <1>22 DEF TrainingNext

----------------------------------------------------------------------------
(* Pins.  A window has at most PinLimit blocks: the number of blocks of the    *)
(* step before a block tells the blocks of the window apart.                  *)
LEMMA LimitType == PinLimit \in Nat /\ PinLimit >= 1
BY TrainingAssumption DEF PinLimit

LEMMA BlocksFinite ==
  ASSUME NEW ks \in SUBSET Blocks
  PROVE  IsFiniteSet(ks) /\ Cardinality(ks) \in Nat
<1>1. IsFiniteSet(Blocks)
  BY TrainingAssumption, FS_Interval DEF Blocks
<1> QED
  BY <1>1, FS_Subset, FS_CardinalityType

LEMMA TargetBounded ==
  ASSUME NEW touched \in SUBSET Blocks
  PROVE  PinTarget(touched) \in SUBSET touched /\ Cardinality(PinTarget(touched)) <= PinLimit
<1> DEFINE before(b) == {c \in touched : c < b}
           target == PinTarget(touched)
           rank == [b \in target |-> Cardinality(before(b))]
<1>1. target \in SUBSET touched /\ \A b \in target : Cardinality(before(b)) < PinLimit
  BY DEF PinTarget
<1>2. \A b \in touched : before(b) \in SUBSET Blocks /\ b \in Nat
  <2>1. Blocks \subseteq Nat
    BY TrainingAssumption DEF Blocks
  <2> QED
    BY <2>1
<1>3. ASSUME NEW b1 \in touched, NEW b2 \in touched, b1 < b2
      PROVE  Cardinality(before(b1)) < Cardinality(before(b2))
  <2>1. before(b1) \in SUBSET before(b2) /\ b1 \in before(b2) /\ b1 \notin before(b1)
    BY <1>2, <1>3, TrainingAssumption DEF Blocks
  <2>2. IsFiniteSet(before(b2))
    BY <1>2, BlocksFinite
  <2>3. Cardinality(before(b1)) <= Cardinality(before(b2)) /\ Cardinality(before(b1)) # Cardinality(before(b2))
    BY <2>1, <2>2, FS_Subset
  <2> QED
    BY <1>2, <2>3, BlocksFinite
<1>4. rank \in [target -> 0..(PinLimit - 1)]
  BY <1>1, <1>2, BlocksFinite, LimitType
<1>5. IsFiniteSet(0..(PinLimit - 1)) /\ Cardinality(0..(PinLimit - 1)) = PinLimit
  BY LimitType, FS_Interval
<1>6. IsFiniteSet(target) /\ Cardinality(target) \in Nat
  BY <1>1, BlocksFinite
<1>7. ~ PinLimit < Cardinality(target)
  <2> SUFFICES ASSUME PinLimit < Cardinality(target) PROVE FALSE
    OBVIOUS
  <2>1. PICK b1 \in target, b2 \in target : b1 # b2 /\ rank[b1] = rank[b2]
    <3> HIDE DEF target, rank
    <3> QED
      BY <1>4, <1>5, <1>6, FS_PigeonHole
  <2>2. Cardinality(before(b1)) = Cardinality(before(b2)) /\ Cardinality(before(b1)) \in Nat
    BY <1>1, <1>2, <2>1, BlocksFinite
  <2>3. b1 < b2 \/ b2 < b1
    BY <1>1, <1>2, <2>1
  <2> QED
    BY <1>1, <1>3, <2>2, <2>3
<1> QED
  BY <1>1, <1>6, <1>7, LimitType

LEMMA EmptyBounded == Cardinality({}) <= PinLimit
BY LimitType, FS_EmptySet

LEMMA InitPins == TrainingInit => PinInv
BY EmptyBounded DEF TrainingInit, PinInv, AtRest

LEMMA StepPins ==
  ASSUME TypeInv, PinInv, [TrainingNext]_trainingVars
  PROVE  PinInv'
<1> DEFINE Unpinned == UNCHANGED <<pinned, window>> /\ main' \in MainCall
                       /\ (main'.pc \in {"flush", "stale"} =>
                             main.pc \in {"flush", "stale"} /\ main'.active = main.active)
<1>1. CASE Unpinned
  BY <1>1 DEF PinInv
<1>2. CASE PinStep
  <2>1. main.active \in SUBSET Blocks /\ main' = [main EXCEPT !.pc = "flush"]
    BY <1>2 DEF PinStep, MainTo, TypeInv, MainCall
  <2>2. main'.pc = "flush" /\ main'.active = main.active
    BY <2>1 DEF TypeInv, MainCall
  <2>3. window' = PinTarget(main.active) /\ pinned' = window'
    BY <1>2 DEF PinStep, UpdatePinWindow, PinInv
  <2> QED
    BY <2>1, <2>2, <2>3, TargetBounded DEF PinInv
<1>3. CASE UnpinStale
  <2>1. main.active \in SUBSET Blocks
    BY DEF TypeInv, MainCall
  <2>2. window \cap StaleBlocks = {}
    BY <1>3, <2>1, TargetBounded DEF UnpinStale, MainAt, PinInv, StaleBlocks
  <2> QED
    BY <1>3, <2>2 DEF UnpinStale, PinInv, AtRest
<1>4. CASE LoadCheckpoint
  BY <1>4, EmptyBounded DEF LoadCheckpoint, GoBack, PinInv, MainAt
<1>5. CASE DieAndResume
  BY <1>5, EmptyBounded DEF DieAndResume, GoBack, PinInv, AtRest
<1>6. ASSUME TrainingNext, ~ PinStep, ~ UnpinStale, ~ LoadCheckpoint, ~ DieAndResume
      PROVE  Unpinned
  <2> USE StepTypes DEF MainAt, MainTo, TypeInv, stateVars, resumeVars
  <2>1. main' \in MainCall
    BY StepTypes
  <2>2. ASSUME NEW active \in SUBSET Blocks, BeginStep(active) PROVE Unpinned
    BY <2>1, <2>2 DEF BeginStep, AtRest
  <2>3. CASE LoadStates
    BY <2>1, <2>3 DEF LoadStates, MainCall
  <2>4. ASSUME NEW b \in Blocks, LoadState(b) PROVE Unpinned
    BY <2>1, <2>4 DEF LoadState, MainCall
  <2>5. ASSUME NEW b \in Blocks, UpdateBlock(b) PROVE Unpinned
    BY <2>1, <2>5 DEF UpdateBlock, MainCall
  <2>6. ASSUME NEW ks \in SUBSET Blocks, StoreStates(ks) \/ StoreRaises(ks) PROVE Unpinned
    <3>1. UNCHANGED <<pinned, window>>
      BY <2>6 DEF StoreStates, StoreRaises, Storing, StoreBlocks
    <3>2. main'.pc \in {"pin", "block", "rest"}
      <4>1. CASE StoreStates(ks)
        BY <4>1 DEF StoreStates, MainCall
      <4>2. CASE StoreRaises(ks)
        BY <4>2 DEF StoreRaises, AtRest
      <4> QED
        BY <2>6, <4>1, <4>2
    <3> QED
      BY <2>1, <3>1, <3>2
  <2>7. CASE ScheduleFlush
    <3>1. UNCHANGED <<pinned, window>>
      BY <2>7 DEF ScheduleFlush, FlushBlocks
    <3>2. main.pc = "flush" /\ main'.active = main.active
      BY <2>7 DEF ScheduleFlush, MainCall
    <3> QED
      BY <2>1, <3>1, <3>2
  <2>8. CASE FlushRaises
    BY <2>1, <2>8, BlocksFailTypes DEF FlushRaises, FlushBlocks, AtRest
  <2>9. CASE StepRaises
    BY <2>1, <2>9 DEF StepRaises, AtRest
  <2>10. CASE WorkerFlushes
    BY <2>1, <2>10, BlocksFailTypes DEF WorkerFlushes, FlushBlocks
  <2>11. CASE BeginCheckpoint \/ DrainFlush
    BY <2>1, <2>11 DEF BeginCheckpoint, DrainFlush, AtRest, MainCall
  <2>12. CASE FlushOrigin
    BY <2>1, <2>12 DEF FlushOrigin, FlushBlocks, MainCall
  <2>13. CASE SaveTraining \/ LoadRaises
    BY <2>1, <2>13 DEF SaveTraining, LoadRaises, AtRest
  <2>14. CASE CheckpointRaises
    BY <2>1, <2>14, FlushFailsTypes DEF CheckpointRaises, FlushBlocks, AtRest
  <2>15. ASSUME NEW b \in Blocks, DropUnsaved(b) PROVE Unpinned
    BY <2>1, <2>15 DEF DropUnsaved, optimizerVars
  <2> QED
    BY <1>6, <2>2, <2>3, <2>4, <2>5, <2>6, <2>7, <2>8, <2>9, <2>10, <2>11, <2>12, <2>13, <2>14, <2>15
    DEF TrainingNext
<1>7. CASE UNCHANGED trainingVars
  BY <1>7 DEF trainingVars, optimizerVars, stateVars, PinInv
<1> QED
  BY <1>1, <1>2, <1>3, <1>4, <1>5, <1>6, <1>7

----------------------------------------------------------------------------
(* Moments.  Most steps leave them alone, or what a load will return of them.   *)
LEMMA MainToFields ==
  ASSUME TypeInv, NEW pc \in MainPlaces, MainTo(pc)
  PROVE  /\ main'.pc = pc
         /\ main'.active = main.active /\ main'.todo = main.todo
         /\ main'.fresh = main.fresh /\ main'.loaded = main.loaded
BY DEF TypeInv, MainCall, MainTo

LEMMA RestFields ==
  ASSUME main' = AtRest
  PROVE  main'.pc = "rest" /\ main'.todo = {} /\ main'.fresh = {}
BY DEF AtRest

LEMMA InitMoments == TrainingInit => ProgressInv /\ MomentInv
BY DEF TrainingInit, ProgressInv, MomentInv, Kept, Ready, AtRest, NoGradients

LEMMA StepProgress ==
  ASSUME TypeInv, ProgressInv, [TrainingNext]_trainingVars
  PROVE  ProgressInv'
<1> USE DEF ProgressInv, MainAt
<1>1. ASSUME NEW active \in SUBSET Blocks, BeginStep(active) PROVE ProgressInv'
  <2>1. /\ main'.pc = (IF options.batch THEN "load" ELSE "block")
        /\ main'.active = active /\ main'.todo = active /\ main'.fresh = {}
    BY <1>1 DEF BeginStep, AtRest
  <2> QED
    BY <1>1, <2>1 DEF BeginStep, TypeInv
<1>2. CASE LoadStates
  <2>1. main'.pc = "block" /\ main'.active = main.active /\ main'.todo = main.todo /\ main'.fresh = main.fresh
    BY <1>2 DEF LoadStates, TypeInv, MainCall
  <2> QED
    BY <1>2, <2>1 DEF LoadStates
<1>3. ASSUME NEW b \in Blocks, LoadState(b) PROVE ProgressInv'
  <2>1. main'.pc = "update" /\ main'.active = main.active /\ main'.todo = main.todo /\ main'.fresh = main.fresh
    BY <1>3 DEF LoadState, TypeInv, MainCall
  <2> QED
    BY <1>3, <2>1 DEF LoadState
<1>4. ASSUME NEW b \in Blocks, UpdateBlock(b) PROVE ProgressInv'
  <2>1. /\ main'.pc = (IF options.batch THEN "block" ELSE "store")
        /\ main'.active = main.active
        /\ main'.todo = main.todo \ {b} /\ main'.fresh = main.fresh \cup {b}
    BY <1>4 DEF UpdateBlock, TypeInv, MainCall
  <2>2. b \in main.todo
    BY <1>4 DEF UpdateBlock, First
  <2> QED
    BY <1>4, <2>1, <2>2 DEF UpdateBlock, TypeInv
<1>5. ASSUME NEW ks \in SUBSET Blocks, StoreStates(ks) PROVE ProgressInv'
  <2>1. /\ main'.pc = (IF main.todo = {} THEN "pin" ELSE "block") /\ main'.fresh = {}
        /\ main'.todo = main.todo
    BY <1>5 DEF StoreStates, TypeInv, MainCall
  <2>2. options' = options /\ (options.batch => main.todo = {})
    BY <1>5 DEF StoreStates, Storing
  <2> QED
    BY <2>1, <2>2
<1>6. ASSUME NEW ks \in SUBSET Blocks, StoreRaises(ks) PROVE ProgressInv'
  BY <1>6, RestFields DEF StoreRaises
<1>7. CASE PinStep
  <2>1. MainTo("flush") /\ "flush" \in MainPlaces
    BY <1>7 DEF PinStep, MainPlaces
  <2> QED
    BY <1>7, <2>1, MainToFields DEF PinStep
<1>8. CASE ScheduleFlush
  <2>1. MainTo("stale") /\ "stale" \in MainPlaces
    BY <1>8 DEF ScheduleFlush, MainPlaces
  <2> QED
    BY <1>8, <2>1, MainToFields DEF ScheduleFlush
<1>9. CASE FlushRaises \/ UnpinStale \/ StepRaises \/ SaveTraining \/ CheckpointRaises \/ DieAndResume
  BY <1>9, RestFields DEF FlushRaises, UnpinStale, StepRaises, SaveTraining, CheckpointRaises, DieAndResume
<1>10. CASE WorkerFlushes \/ LoadCheckpoint \/ LoadRaises
  BY <1>10 DEF WorkerFlushes, LoadCheckpoint, GoBack, LoadRaises
<1>11. CASE BeginCheckpoint
  <2>1. MainTo("drain") /\ "drain" \in MainPlaces
    BY <1>11 DEF BeginCheckpoint, MainPlaces
  <2> QED
    BY <1>11, <2>1, MainToFields DEF BeginCheckpoint
<1>12. CASE DrainFlush
  <2>1. main' = AtRest \/ (MainTo("external") /\ "external" \in MainPlaces)
    BY <1>12 DEF DrainFlush, MainPlaces
  <2> QED
    BY <1>12, <2>1, RestFields, MainToFields DEF DrainFlush
<1>13. CASE FlushOrigin
  <2>1. MainTo("save") /\ "save" \in MainPlaces
    BY <1>13 DEF FlushOrigin, MainPlaces
  <2> QED
    BY <1>13, <2>1, MainToFields DEF FlushOrigin
<1>14. ASSUME NEW b \in Blocks, DropUnsaved(b) PROVE ProgressInv'
  BY <1>14 DEF DropUnsaved, optimizerVars
<1>15. CASE UNCHANGED trainingVars
  BY <1>15 DEF trainingVars, optimizerVars
<1> QED
  BY <1>1, <1>2, <1>3, <1>4, <1>5, <1>6, <1>7, <1>8, <1>9, <1>10, <1>11, <1>12, <1>13, <1>14, <1>15
  DEF TrainingNext

\* What a step leaves alone of what MomentInv is about.
SameMoments == UNCHANGED <<options, learned, seen, ahead>> /\ torn \subseteq torn'

\* A step that ends with no blocks ready and none fresh, but for torn ones.
LEMMA SettledMoments ==
  ASSUME TypeInv, MomentInv, SameMoments, NEW pc \in MainPlaces \ {"block", "update"},
         main'.pc = pc, main'.fresh = {}, main.fresh \subseteq torn'
  PROVE  MomentInv'
BY DEF MomentInv, SameMoments, Kept, Ready

LEMMA StepMoments ==
  ASSUME TypeInv, ProgressInv, MomentInv, CheckpointInv, [TrainingNext]_trainingVars
  PROVE  MomentInv'
<1> USE DEF MainAt
<1>1. ASSUME NEW active \in SUBSET Blocks, BeginStep(active) PROVE MomentInv'
  <2>1. main'.pc = (IF options.batch THEN "load" ELSE "block") /\ main'.fresh = {}
    BY <1>1 DEF BeginStep, AtRest
  <2> QED
    BY <1>1, <2>1 DEF BeginStep, MomentInv, ProgressInv, Kept, Ready, stateVars
<1>2. CASE LoadStates
  <2>1. /\ main'.pc = "block" /\ main'.todo = main.todo /\ main'.fresh = main.fresh
        /\ main.fresh = {} /\ \A b \in main.todo : main'.loaded[b] = seen[b]
    BY <1>2 DEF LoadStates, TypeInv, MainCall, ProgressInv
  <2> QED
    BY <1>2, <2>1 DEF LoadStates, MomentInv, ProgressInv, Kept, Ready, stateVars, resumeVars
<1>3. ASSUME NEW b \in Blocks, LoadState(b) PROVE MomentInv'
  <2>1. /\ main'.pc = "update" /\ main'.todo = main.todo /\ main'.fresh = main.fresh
        /\ main'.loaded[b] = seen[b]
    BY <1>3 DEF LoadState, TypeInv, MainCall, Moments
  <2>2. \A c \in Blocks : First(c)' => c = b
    <3>1. Blocks \subseteq Nat
      BY TrainingAssumption DEF Blocks
    <3> QED
      BY <1>3, <2>1, <3>1 DEF LoadState, First
  <2> QED
    BY <1>3, <2>1, <2>2 DEF LoadState, MomentInv, ProgressInv, Kept, Ready, stateVars, resumeVars
<1>4. ASSUME NEW b \in Blocks, UpdateBlock(b) PROVE MomentInv'
  <2>1. /\ main'.pc = (IF options.batch THEN "block" ELSE "store")
        /\ main'.todo = main.todo \ {b} /\ main'.fresh = main.fresh \cup {b}
        /\ main'.loaded = [main.loaded EXCEPT ![b] = Append(@, stepsBegun)]
    BY <1>4 DEF UpdateBlock, TypeInv, MainCall
  <2>2. /\ main'.loaded[b] = Append(main.loaded[b], stepsBegun)
        /\ \A c \in Blocks \ {b} : main'.loaded[c] = main.loaded[c]
    BY <2>1 DEF TypeInv, MainCall, Moments
  <2>3. /\ learned'[b] = Append(learned[b], stepsBegun)
        /\ \A c \in Blocks \ {b} : learned'[c] = learned[c]
    BY <1>4 DEF UpdateBlock, TypeInv, Moments
  <2>4. b \in Ready /\ b \notin main.fresh
    BY <1>4 DEF UpdateBlock, First, Ready, ProgressInv
  <2>5. /\ b \in Kept => main'.loaded[b] = learned'[b]
        /\ b \notin Ready' /\ Ready' \subseteq Ready /\ Kept' = Kept
    BY <1>4, <2>1, <2>2, <2>3, <2>4 DEF UpdateBlock, MomentInv, Ready, Kept, resumeVars
  <2> QED
    BY <1>4, <2>1, <2>2, <2>3, <2>5 DEF UpdateBlock, MomentInv, Kept, stateVars
<1>5. ASSUME NEW ks \in SUBSET Blocks, StoreStates(ks) \/ StoreRaises(ks) PROVE MomentInv'
  <2>1. /\ main'.fresh = {} /\ main'.pc \in {"rest", "pin", "block"}
        /\ main'.pc = "block" => ~ options.batch
    <3>1. CASE StoreStates(ks)
      BY <3>1 DEF StoreStates, Storing, TypeInv, MainCall
    <3>2. CASE StoreRaises(ks)
      BY <3>2, RestFields DEF StoreRaises
    <3> QED
      BY <1>5, <3>1, <3>2
  <2>2. ks = main.fresh
    BY <1>5 DEF StoreStates, StoreRaises, Storing, ProgressInv
  <2>3. UNCHANGED <<options, learned, ahead, torn>>
    BY <1>5 DEF StoreStates, StoreRaises, Storing
  <2>4. \A b \in Blocks : seen'[b] = IF b \in ks THEN main.loaded[b] ELSE seen[b]
    BY <1>5 DEF StoreStates, StoreRaises, StoreBlocks
  <2> QED
    BY <2>1, <2>2, <2>3, <2>4 DEF MomentInv, Kept, Ready
<1>6. CASE PinStep \/ UnpinStale
  <2>1. main'.fresh = {} /\ main.fresh = {} /\ main'.pc \in {"flush", "rest"}
    <3>1. CASE PinStep
      BY <3>1 DEF PinStep, MainTo, TypeInv, MainCall, ProgressInv
    <3>2. CASE UnpinStale
      BY <3>2, RestFields DEF UnpinStale, ProgressInv
    <3> QED
      BY <1>6, <3>1, <3>2
  <2>2. SameMoments
    BY <1>6 DEF PinStep, UnpinStale, SameMoments, resumeVars
  <2> QED
    BY <2>1, <2>2, SettledMoments DEF MainPlaces
<1>7. CASE ScheduleFlush \/ FlushRaises \/ FlushOrigin \/ CheckpointRaises
  <2>1. main'.fresh = {} /\ main.fresh = {} /\ main'.pc \in {"stale", "rest", "save"}
    <3>1. CASE ScheduleFlush
      BY <3>1 DEF ScheduleFlush, MainTo, TypeInv, MainCall, ProgressInv
    <3>2. CASE FlushRaises
      BY <3>2, RestFields DEF FlushRaises, ProgressInv
    <3>3. CASE FlushOrigin
      BY <3>3 DEF FlushOrigin, MainTo, TypeInv, MainCall, ProgressInv
    <3>4. CASE CheckpointRaises
      BY <3>4, RestFields DEF CheckpointRaises, ProgressInv
    <3> QED
      BY <1>7, <3>1, <3>2, <3>3, <3>4
  <2>2. SameMoments
    BY <1>7, BlocksFailTypes, FlushFailsTypes
    DEF ScheduleFlush, FlushRaises, FlushOrigin, CheckpointRaises, FlushBlocks, SameMoments, stateVars
  <2> QED
    BY <2>1, <2>2, SettledMoments DEF MainPlaces
<1>8. CASE StepRaises
  BY <1>8, RestFields, SettledMoments DEF StepRaises, SameMoments, stateVars, MainPlaces
<1>9. CASE WorkerFlushes
  BY <1>9, BlocksFailTypes DEF WorkerFlushes, FlushBlocks, MomentInv, Kept, Ready, First
<1>10. CASE BeginCheckpoint \/ DrainFlush
  <2>1. main'.fresh = {} /\ main.fresh = {} /\ main'.pc \in {"drain", "rest", "external"}
    <3>1. CASE BeginCheckpoint
      BY <3>1 DEF BeginCheckpoint, MainTo, TypeInv, MainCall, ProgressInv
    <3>2. CASE DrainFlush
      BY <3>2, RestFields DEF DrainFlush, MainTo, TypeInv, MainCall, ProgressInv
    <3> QED
      BY <1>10, <3>1, <3>2
  <2>2. SameMoments
    BY <1>10 DEF BeginCheckpoint, DrainFlush, SameMoments, stateVars, resumeVars
  <2> QED
    BY <2>1, <2>2, SettledMoments DEF MainPlaces
<1>11. CASE SaveTraining
  BY <1>11, RestFields, SettledMoments DEF SaveTraining, SameMoments, ProgressInv, stateVars, MainPlaces
<1>12. CASE LoadCheckpoint
  <2>1. main'.fresh = {} /\ main'.pc = "rest"
    BY <1>12 DEF LoadCheckpoint, ProgressInv
  <2>2. Kept' = SavedKept \ advanced.stored /\ learned' = saved.learned /\ seen' = seen
    BY <1>12 DEF LoadCheckpoint, GoBack, Kept, SavedKept
  <2> QED
    BY <2>1, <2>2 DEF MomentInv, Ready, CheckpointInv
<1>13. CASE LoadRaises
  BY <1>13 DEF LoadRaises, MomentInv, Kept, Ready, First, stateVars, resumeVars
<1>14. CASE DieAndResume
  <2>1. main'.fresh = {} /\ main'.pc = "rest"
    BY <1>14, RestFields DEF DieAndResume
  <2>2. /\ Kept' = SavedKept \ (advanced.flushed \cup advanced.missing)
        /\ learned' = saved.learned /\ seen' = durable
    BY <1>14 DEF DieAndResume, GoBack, Kept, SavedKept
  <2> QED
    BY <2>1, <2>2 DEF MomentInv, Ready, CheckpointInv
<1>15. ASSUME NEW b \in Blocks, DropUnsaved(b) PROVE MomentInv'
  <2>1. /\ Kept' = Kept \ {b} /\ \A c \in Blocks \ {b} : seen'[c] = seen[c]
        /\ UNCHANGED <<main, options, learned>>
    BY <1>15 DEF DropUnsaved, Kept, optimizerVars, TypeInv, Moments
  <2>2. Ready' = Ready
    BY <2>1 DEF Ready, First
  <2> QED
    BY <2>1, <2>2 DEF MomentInv, Kept
<1>16. CASE UNCHANGED trainingVars
  BY <1>16 DEF trainingVars, optimizerVars, stateVars, resumeVars, MomentInv, Kept, Ready, First
<1> QED
  BY <1>1, <1>2, <1>3, <1>4, <1>5, <1>6, <1>7, <1>8, <1>9, <1>10, <1>11, <1>12, <1>13, <1>14, <1>15, <1>16
  DEF TrainingNext

----------------------------------------------------------------------------
(* The checkpoint.  What is stored or flushed since it was saved is recorded    *)
(* in advanced, so the rest is as the checkpoint names it.                     *)
LEMMA InitCheckpoint == TrainingInit => CheckpointInv
BY DEF TrainingInit, CheckpointInv, SavedKept, AtRest

LEMMA FlushKeepsCheckpoint ==
  ASSUME TypeInv, CheckpointInv, NEW ks \in SUBSET Blocks, FlushBlocks(ks), UNCHANGED saved,
         main'.pc = "save" => main.pc = "save" \/ ks = Blocks
  PROVE  CheckpointInv'
<1> DEFINE saves == ks \cap dirty
<1>1. /\ \A b \in Blocks : durable'[b] = IF b \in saves THEN seen[b] ELSE durable[b]
      /\ seen' = seen /\ dirty' = dirty \ ks
  BY DEF FlushBlocks
<1>2. /\ advanced'.stored = advanced.stored /\ advanced'.flushed = advanced.flushed \cup (saves \cap advanced.stored)
      /\ advanced'.missing = advanced.missing \ saves /\ SavedKept' = SavedKept
  BY DEF FlushBlocks, TypeInv, Advanced, SavedKept
<1>3. main'.pc = "save" => dirty' = {}
  BY <1>1 DEF CheckpointInv, TypeInv
<1> QED
  BY <1>1, <1>2, <1>3 DEF CheckpointInv, SavedKept

LEMMA StoreKeepsCheckpoint ==
  ASSUME TypeInv, CheckpointInv, NEW ks \in SUBSET Blocks, NEW saves \in SUBSET Blocks, NEW marked,
         StoreBlocks(ks, main.loaded, saves, marked), UNCHANGED saved, main'.pc # "save"
  PROVE  CheckpointInv'
<1>1. /\ \A b \in Blocks : seen'[b] = IF b \in ks THEN main.loaded[b] ELSE seen[b]
      /\ \A b \in Blocks : durable'[b] = IF b \in saves THEN seen'[b] ELSE durable[b]
  BY DEF StoreBlocks
<1>2. /\ advanced'.stored = advanced.stored \cup ks
      /\ advanced'.flushed = advanced.flushed \cup (saves \cap advanced'.stored)
      /\ advanced'.missing = advanced.missing \ saves /\ SavedKept' = SavedKept
  BY DEF StoreBlocks, TypeInv, Advanced, SavedKept
<1> QED
  BY <1>1, <1>2 DEF CheckpointInv, SavedKept

LEMMA CheckpointKept ==
  ASSUME CheckpointInv, UNCHANGED <<seen, durable, saved, advanced>>, dirty' \subseteq dirty,
         main'.pc = "save" => main.pc = "save"
  PROVE  CheckpointInv'
BY DEF CheckpointInv, SavedKept

\* The cache drops a block that no flush has saved: what a restart finds shows.
LEMMA DropKeepsCheckpoint ==
  ASSUME TypeInv, CheckpointInv, NEW b \in Blocks, DropUnsaved(b)
  PROVE  CheckpointInv'
<1>1. /\ advanced'.stored = advanced.stored \ ({b} \ advanced.flushed) /\ advanced'.flushed = advanced.flushed
      /\ advanced'.missing = advanced.missing \ {b}
      /\ advanced'.lost = advanced.lost \cup ({b} \cap advanced.missing)
  BY DEF DropUnsaved, TypeInv, Advanced
<1>2. seen'[b] = durable[b] /\ \A c \in Blocks \ {b} : seen'[c] = seen[c]
  BY DEF DropUnsaved, TypeInv, Moments
<1>3. UNCHANGED <<main, dirty, durable, saved>>
  BY DEF DropUnsaved, optimizerVars
<1>4. SavedKept' = SavedKept \ ({b} \cap advanced.missing)
  BY <1>1, <1>3 DEF SavedKept
<1> QED
  BY <1>1, <1>2, <1>3, <1>4 DEF CheckpointInv, SavedKept

LEMMA StepCheckpoint ==
  ASSUME TypeInv, ProgressInv, MomentInv, CheckpointInv, [TrainingNext]_trainingVars
  PROVE  CheckpointInv'
<1> USE DEF MainAt
<1>1. ASSUME NEW active \in SUBSET Blocks, BeginStep(active) PROVE CheckpointInv'
  BY <1>1, CheckpointKept DEF BeginStep, AtRest, stateVars
<1>2. CASE LoadStates
  <2>1. main'.pc = "block"
    BY <1>2 DEF LoadStates, TypeInv, MainCall
  <2> QED
    BY <1>2, <2>1, CheckpointKept DEF LoadStates, stateVars, resumeVars
<1>3. ASSUME NEW b \in Blocks, LoadState(b) \/ UpdateBlock(b) PROVE CheckpointInv'
  <2>1. main'.pc \in {"update", "block", "store"}
    BY <1>3 DEF LoadState, UpdateBlock, TypeInv, MainCall
  <2> QED
    BY <1>3, <2>1, CheckpointKept DEF LoadState, UpdateBlock, stateVars, resumeVars
<1>4. ASSUME NEW ks \in SUBSET Blocks, StoreStates(ks) \/ StoreRaises(ks) PROVE CheckpointInv'
  <2>1. main'.pc # "save" /\ saved' = saved
    <3>1. CASE StoreStates(ks)
      BY <3>1 DEF StoreStates, Storing, TypeInv, MainCall
    <3>2. CASE StoreRaises(ks)
      BY <3>2, RestFields DEF StoreRaises, Storing
    <3> QED
      BY <1>4, <3>1, <3>2
  <2>2. PICK saves \in SUBSET Blocks, marked \in SUBSET Blocks : StoreBlocks(ks, main.loaded, saves, marked)
    BY <1>4, SavedWithBlocks DEF StoreStates, StoreRaises
  <2> QED
    BY <2>1, <2>2, StoreKeepsCheckpoint
<1>5. CASE PinStep \/ UnpinStale \/ BeginCheckpoint \/ DrainFlush
  <2>1. main'.pc # "save"
    <3>1. CASE PinStep
      BY <3>1 DEF PinStep, MainTo, TypeInv, MainCall
    <3>2. CASE UnpinStale
      BY <3>2, RestFields DEF UnpinStale
    <3>3. CASE BeginCheckpoint
      BY <3>3 DEF BeginCheckpoint, MainTo, TypeInv, MainCall
    <3>4. CASE DrainFlush
      BY <3>4, RestFields DEF DrainFlush, MainTo, TypeInv, MainCall
    <3> QED
      BY <1>5, <3>1, <3>2, <3>3, <3>4
  <2> QED
    BY <1>5, <2>1, CheckpointKept
    DEF PinStep, UnpinStale, BeginCheckpoint, DrainFlush, stateVars, resumeVars
<1>6. CASE ScheduleFlush \/ FlushRaises \/ CheckpointRaises
  <2>1. main'.pc # "save" /\ saved' = saved
    <3>1. CASE ScheduleFlush
      BY <3>1 DEF ScheduleFlush, MainTo, TypeInv, MainCall
    <3>2. CASE FlushRaises
      BY <3>2, RestFields DEF FlushRaises
    <3>3. CASE CheckpointRaises
      BY <3>3, RestFields DEF CheckpointRaises
    <3> QED
      BY <1>6, <3>1, <3>2, <3>3
  <2>2. \/ FlushBlocks(main.active) \/ FlushBlocks(Blocks)
        \/ UNCHANGED <<seen, durable, advanced>> /\ dirty' \subseteq dirty
    BY <1>6, FlushFailsTypes, BlocksFailTypes DEF ScheduleFlush, FlushRaises, CheckpointRaises, stateVars
  <2>3. main.active \in SUBSET Blocks
    BY DEF TypeInv, MainCall
  <2> QED
    BY <2>1, <2>2, <2>3, FlushKeepsCheckpoint, CheckpointKept
<1>7. CASE WorkerFlushes
  <2>1. flushJob.blocks \in SUBSET Blocks
    BY DEF TypeInv, Job
  <2> QED
    BY <1>7, <2>1, FlushKeepsCheckpoint, CheckpointKept, BlocksFailTypes DEF WorkerFlushes
<1>8. CASE FlushOrigin
  BY <1>8, FlushKeepsCheckpoint DEF FlushOrigin
<1>9. CASE SaveTraining
  <2>1. main.fresh = {} /\ \A b \in Blocks \ Unsaved : durable[b] = seen[b]
    BY <1>9 DEF SaveTraining, ProgressInv, CheckpointInv, Unsaved
  <2>2. SavedKept' = Kept /\ saved'.learned = learned /\ seen' = seen /\ durable' = durable
    BY <1>9 DEF SaveTraining, SavedKept, Kept, stateVars
  <2>3. advanced'.flushed = {} /\ advanced'.stored = {} /\ advanced'.missing = Unsaved /\ main'.pc = "rest"
    BY <1>9, RestFields DEF SaveTraining
  <2> QED
    BY <2>1, <2>2, <2>3 DEF CheckpointInv, MomentInv, Kept
<1>10. CASE StepRaises
  BY <1>10, RestFields, CheckpointKept DEF StepRaises, stateVars
<1>11. CASE LoadCheckpoint \/ LoadRaises
  BY <1>11, CheckpointKept DEF LoadCheckpoint, LoadRaises, GoBack, stateVars, resumeVars
<1>12. CASE DieAndResume
  <2>1. main'.pc = "rest" /\ seen' = durable /\ durable' = durable /\ saved' = saved
    BY <1>12, RestFields DEF DieAndResume, GoBack
  <2>2. /\ advanced'.flushed = advanced.flushed /\ advanced'.stored = advanced.stored \cap advanced.flushed
        /\ advanced'.missing = {} /\ advanced'.lost = advanced.lost \cup advanced.missing
    BY <1>12 DEF DieAndResume, TypeInv, Advanced
  <2> QED
    BY <2>1, <2>2 DEF CheckpointInv, SavedKept
<1>13. ASSUME NEW b \in Blocks, DropUnsaved(b) PROVE CheckpointInv'
  BY <1>13, DropKeepsCheckpoint
<1>14. CASE UNCHANGED trainingVars
  BY <1>14, CheckpointKept DEF trainingVars, optimizerVars, stateVars, resumeVars
<1> QED
  BY <1>1, <1>2, <1>3, <1>4, <1>5, <1>6, <1>7, <1>8, <1>9, <1>10, <1>11, <1>12, <1>13, <1>14
  DEF TrainingNext

----------------------------------------------------------------------------
(* The gradients.  Steps are numbered, so that a block still to be updated has    *)
(* only earlier ones, and nothing a step does takes a gradient away: neither     *)
(* from what the store returns, nor from what a restart or a checkpoint finds.   *)
Under(gradients, n) == \A i \in DOMAIN gradients : gradients[i] < n
Numbered(gradients) == InStepOrder(gradients) /\ Under(gradients, stepsBegun + 1)

Covering(b) ==
  /\ Numbered(learned[b]) /\ Numbered(seen[b]) /\ Numbered(durable[b]) /\ Numbered(saved.learned[b])
  /\ ToSet(durable[b]) \subseteq ToSet(seen[b])
  /\ b \in main.todo => Under(learned[b], stepsBegun) /\ Under(seen[b], stepsBegun)
  /\ b \in Ready => /\ InStepOrder(main.loaded[b]) /\ Under(main.loaded[b], stepsBegun)
                     /\ ToSet(seen[b]) \subseteq ToSet(main.loaded[b])
  /\ b \in main.fresh => Numbered(main.loaded[b]) /\ ToSet(seen[b]) \subseteq ToSet(main.loaded[b])
  /\ b \notin torn => ToSet(learned[b]) \subseteq ToSet(IF b \in main.fresh THEN main.loaded[b] ELSE seen[b])
  /\ b \notin saved.torn \cup advanced.lost =>
       /\ ToSet(saved.learned[b]) \subseteq ToSet(seen[b])
       /\ b \notin advanced.missing => ToSet(saved.learned[b]) \subseteq ToSet(durable[b])

CoverInv == (MainAt("rest") => main.todo = {}) /\ \A b \in Blocks : Covering(b)

LEMMA OneGradientMore ==
  ASSUME NEW g \in Gradients, NEW n \in Nat, InStepOrder(g), Under(g, n)
  PROVE  /\ InStepOrder(Append(g, n)) /\ Under(Append(g, n), n + 1)
         /\ ToSet(Append(g, n)) = ToSet(g) \cup {n}
<1> DEFINE m == Len(g)
           more == Append(g, n)
<1>1. /\ m \in Nat /\ DOMAIN g = 1..m /\ DOMAIN more = 1..m + 1 /\ more[m + 1] = n
      /\ \A i \in 1..m : more[i] = g[i] /\ g[i] \in Nat /\ g[i] < n
  BY DEF Gradients, Under
<1> HIDE DEF m, more
<1>2. 1..m + 1 = (1..m) \cup {m + 1}
  BY <1>1
<1>3. {more[i] : i \in DOMAIN more} = {g[i] : i \in DOMAIN g} \cup {n}
  BY <1>1, <1>2
<1>4. ASSUME NEW i \in 1..m + 1, NEW j \in 1..m + 1, i < j
      PROVE  more[i] < more[j]
  <2>1. CASE j = m + 1
    BY <1>1, <1>4, <2>1
  <2>2. CASE j \in 1..m
    <3>1. i \in 1..m
      BY <1>1, <1>4, <2>2
    <3>2. g[i] < g[j]
      BY <1>1, <1>4, <2>2, <3>1 DEF InStepOrder
    <3>3. QED
      BY <1>1, <2>2, <3>1, <3>2
  <2>3. QED
    BY <1>2, <2>1, <2>2
<1>5. ASSUME NEW i \in 1..m + 1
      PROVE  more[i] < n + 1
  BY <1>1, <1>2
<1>6. QED
  BY <1>1, <1>3, <1>4, <1>5 DEF InStepOrder, Under, ToSet, more

LEMMA MoreSteps ==
  ASSUME NEW g \in Gradients, NEW n \in Nat, Under(g, n)
  PROVE  Under(g, n + 1)
<1>1. \A i \in DOMAIN g : g[i] \in Nat
  BY DEF Gradients
<1>2. QED
  BY <1>1 DEF Under

LEMMA FewerUnder ==
  ASSUME NEW g \in Gradients, NEW h \in Gradients, NEW n \in Nat, ToSet(g) \subseteq ToSet(h), Under(h, n)
  PROVE  Under(g, n)
<1> SUFFICES ASSUME NEW i \in DOMAIN g PROVE g[i] < n
  BY DEF Under
<1>1. g[i] \in ToSet(h)
  BY DEF ToSet
<1>2. PICK j \in DOMAIN h : h[j] = g[i]
  BY <1>1 DEF ToSet
<1> QED
  BY <1>2 DEF Under

LEMMA MomentsOf ==
  ASSUME TypeInv, NEW b \in Blocks
  PROVE  /\ learned[b] \in Gradients /\ seen[b] \in Gradients /\ durable[b] \in Gradients
         /\ saved.learned[b] \in Gradients /\ main.loaded[b] \in Gradients /\ stepsBegun \in Nat
  BY DEF TypeInv, Moments, SavedState, MainCall

LEMMA InitCover == TrainingInit => CoverInv
<1> SUFFICES ASSUME TrainingInit, NEW b \in Blocks PROVE main.todo = {} /\ Covering(b)
  BY DEF CoverInv, TrainingInit, AtRest
<1>1. /\ learned[b] = <<>> /\ seen[b] = <<>> /\ durable[b] = <<>> /\ saved.learned[b] = <<>>
      /\ main.todo = {} /\ main.fresh = {} /\ main.pc = "rest"
  BY DEF TrainingInit, NoGradients, AtRest
<1>2. InStepOrder(<<>>) /\ Under(<<>>, stepsBegun + 1)
  BY DEF InStepOrder, Under
<1>3. Ready = {}
  BY <1>1 DEF Ready
<1>4. QED
  BY <1>1, <1>2, <1>3 DEF Covering, Numbered

\* What a step saves is what the store returns, and is missing no more.
SavesSeen ==
  /\ advanced'.lost = advanced.lost /\ advanced'.missing \subseteq advanced.missing
  /\ \A b \in Blocks : \/ durable'[b] = durable[b] /\ (b \in advanced.missing => b \in advanced'.missing)
                       \/ durable'[b] = seen[b]

\* A step that touches neither weights nor what the store returns.
LEMMA QuietCover ==
  ASSUME CoverInv, UNCHANGED <<learned, seen, saved, stepsBegun>>, torn \subseteq torn', SavesSeen,
         main'.todo \subseteq main.todo, main'.fresh \subseteq main.fresh, main.fresh \subseteq torn' \cup main'.fresh,
         Ready' \subseteq Ready, main'.pc = "rest" => main'.todo = {},
         main'.fresh \cup Ready' = {} \/ main'.loaded = main.loaded
  PROVE  CoverInv'
<1> SUFFICES ASSUME NEW b \in Blocks PROVE Covering(b)'
  BY DEF CoverInv, MainAt
<1>1. Covering(b)
  BY DEF CoverInv
<1>2. durable'[b] = durable[b] \/ durable'[b] = seen[b]
  BY DEF SavesSeen
<1>3. /\ Numbered(durable[b])' /\ Numbered(learned[b])' /\ Numbered(seen[b])' /\ Numbered(saved.learned[b])'
  BY <1>1, <1>2 DEF Covering, Numbered
<1>4. b \in main'.fresh => /\ main'.loaded[b] = main.loaded[b] /\ b \in main.fresh
                           /\ InStepOrder(main'.loaded[b]) /\ Under(main'.loaded[b], stepsBegun' + 1)
  BY <1>1 DEF Covering, Numbered
<1>5. b \in Ready' => /\ InStepOrder(main'.loaded[b]) /\ Under(main'.loaded[b], stepsBegun)
                      /\ ToSet(seen'[b]) \subseteq ToSet(main'.loaded[b])
  BY <1>1 DEF Covering
<1>6. b \notin torn' => (b \in main'.fresh <=> b \in main.fresh) /\ b \notin torn
  OBVIOUS
<1>7. /\ ToSet(durable'[b]) \subseteq ToSet(seen'[b])
      /\ b \notin saved'.torn \cup advanced'.lost =>
           /\ ToSet(saved'.learned[b]) \subseteq ToSet(seen'[b])
           /\ b \notin advanced'.missing => ToSet(saved'.learned[b]) \subseteq ToSet(durable'[b])
  BY <1>1 DEF Covering, SavesSeen
<1>8. QED
  BY <1>1, <1>3, <1>4, <1>5, <1>6, <1>7 DEF Covering, Numbered

\* A step that ends with nothing under way.
LEMMA EndedCover ==
  ASSUME CoverInv, UNCHANGED <<learned, seen, saved, stepsBegun>>, torn \subseteq torn', SavesSeen,
         main.fresh \subseteq torn', main' = AtRest
  PROVE  CoverInv'
<1>1. main'.pc = "rest" /\ main'.todo = {} /\ main'.fresh = {}
  BY RestFields
<1>2. Ready' = {}
  BY <1>1 DEF Ready
<1>3. QED
  BY <1>1, <1>2, QuietCover

\* One that goes from one place to the next.
LEMMA GoneOnCover ==
  ASSUME TypeInv, CoverInv, UNCHANGED <<learned, seen, saved, stepsBegun>>, torn \subseteq torn', SavesSeen,
         NEW pc \in MainPlaces \ {"rest", "block", "update"}, MainTo(pc)
  PROVE  CoverInv'
<1>1. main'.pc = pc /\ main'.todo = main.todo /\ main'.fresh = main.fresh /\ main'.loaded = main.loaded
  BY MainToFields
<1>2. Ready' = {}
  BY <1>1 DEF Ready
<1>3. QED
  BY <1>1, <1>2, QuietCover

LEMMA FlushedDurable ==
  ASSUME TypeInv, NEW ks, FlushBlocks(ks)
  PROVE  SavesSeen /\ seen' = seen
<1>1. advanced'.missing = advanced.missing \ (ks \cap dirty) /\ advanced'.lost = advanced.lost
  BY DEF FlushBlocks, TypeInv, Advanced
<1> QED
  BY <1>1 DEF FlushBlocks, SavesSeen

LEMMA NothingSaved ==
  ASSUME UNCHANGED <<durable, advanced>>
  PROVE  SavesSeen
BY DEF SavesSeen

\* The update of a block: the gradient is later than all it has.
LEMMA UpdateCovers ==
  ASSUME TypeInv, ProgressInv, CoverInv, NEW b \in Blocks, UpdateBlock(b)
  PROVE  CoverInv'
<1> USE DEF MainAt
<1>1. /\ main'.pc = (IF options.batch THEN "block" ELSE "store")
      /\ main'.todo = main.todo \ {b} /\ main'.fresh = main.fresh \cup {b}
      /\ main'.loaded = [main.loaded EXCEPT ![b] = Append(@, stepsBegun)]
  BY DEF UpdateBlock, TypeInv, MainCall
<1>2. /\ main'.loaded[b] = Append(main.loaded[b], stepsBegun)
      /\ \A c \in Blocks \ {b} : main'.loaded[c] = main.loaded[c]
  BY <1>1 DEF TypeInv, MainCall, Moments
<1>3. /\ learned'[b] = Append(learned[b], stepsBegun)
      /\ \A c \in Blocks \ {b} : learned'[c] = learned[c]
  BY DEF UpdateBlock, TypeInv, Moments
<1>4. b \in Ready /\ b \in main.todo /\ b \notin main.fresh
  BY DEF UpdateBlock, First, Ready, ProgressInv
<1>5. UNCHANGED <<options, seen, durable, saved, stepsBegun, torn, advanced>>
  BY DEF UpdateBlock, stateVars, resumeVars
<1>6. b \notin Ready' /\ Ready' \subseteq Ready
  <2>1. CASE options.batch
    <3>1. Ready' = main'.todo /\ Ready = main.todo
      BY <1>1, <1>5, <2>1 DEF Ready, UpdateBlock
    <3>2. QED
      BY <1>1, <3>1
  <2>2. CASE ~ options.batch
    <3>1. Ready' = {}
      BY <1>1, <1>5, <2>2 DEF Ready
    <3>2. QED
      BY <3>1
  <2>3. QED
    BY <2>1, <2>2
<1>7. Covering(b)'
  <2>1. /\ learned[b] \in Gradients /\ seen[b] \in Gradients /\ stepsBegun \in Nat /\ Covering(b)
        /\ main.loaded[b] \in Gradients /\ InStepOrder(main.loaded[b]) /\ Under(main.loaded[b], stepsBegun)
        /\ Under(learned[b], stepsBegun) /\ InStepOrder(learned[b]) /\ ToSet(seen[b]) \subseteq ToSet(main.loaded[b])
    BY <1>4, MomentsOf DEF CoverInv, Covering, Numbered
  <2>2. /\ InStepOrder(learned'[b]) /\ Under(learned'[b], stepsBegun + 1)
        /\ ToSet(learned'[b]) = ToSet(learned[b]) \cup {stepsBegun}
    BY <1>3, <2>1, OneGradientMore
  <2>3. /\ InStepOrder(main'.loaded[b]) /\ Under(main'.loaded[b], stepsBegun + 1)
        /\ ToSet(main'.loaded[b]) = ToSet(main.loaded[b]) \cup {stepsBegun}
    BY <1>2, <2>1, OneGradientMore
  <2>4. b \notin torn => ToSet(learned'[b]) \subseteq ToSet(main'.loaded[b])
    BY <1>4, <2>1, <2>2, <2>3 DEF Covering
  <2>5. b \in main'.fresh /\ b \notin main'.todo
    BY <1>1
  <2>6. QED
    BY <1>5, <1>6, <2>1, <2>2, <2>3, <2>4, <2>5 DEF Covering, Numbered
<1>8. ASSUME NEW c \in Blocks \ {b}
      PROVE  Covering(c)'
  <2>1. Covering(c)
    BY DEF CoverInv
  <2>2. learned'[c] = learned[c] /\ main'.loaded[c] = main.loaded[c]
    BY <1>2, <1>3
  <2>3. (c \in main'.fresh <=> c \in main.fresh) /\ (c \in main'.todo => c \in main.todo)
    BY <1>1
  <2>4. QED
    BY <1>5, <1>6, <2>1, <2>2, <2>3 DEF Covering, Numbered
<1>9. main'.pc # "rest"
  BY <1>1
<1>10. QED
  BY <1>7, <1>8, <1>9 DEF CoverInv

\* The store of blocks takes the gradients over.
LEMMA StoreCovers ==
  ASSUME TypeInv, ProgressInv, CoverInv, NEW ks \in SUBSET Blocks, StoreStates(ks) \/ StoreRaises(ks)
  PROVE  CoverInv'
<1> USE DEF MainAt
<1>1. ks = main.fresh
  BY DEF StoreStates, StoreRaises, Storing, ProgressInv
<1>2. /\ main'.fresh = {} /\ main'.todo \subseteq main.todo /\ (main'.pc = "rest" => main'.todo = {})
      /\ main'.pc \in {"rest", "pin", "block"} /\ (main'.pc = "block" => ~ options.batch)
  <2>1. CASE StoreStates(ks)
    BY <2>1 DEF StoreStates, Storing, TypeInv, MainCall
  <2>2. CASE StoreRaises(ks)
    BY <2>2, RestFields DEF StoreRaises
  <2>3. QED
    BY <2>1, <2>2
<1>3. UNCHANGED <<options, learned, torn, saved, stepsBegun>>
  BY DEF StoreStates, StoreRaises, Storing
<1>4. PICK saves, marked : StoreBlocks(ks, main.loaded, saves, marked)
  BY DEF StoreStates, StoreRaises
<1>5. /\ \A b \in Blocks : seen'[b] = IF b \in ks THEN main.loaded[b] ELSE seen[b]
      /\ \A b \in Blocks : durable'[b] = IF b \in saves THEN seen'[b] ELSE durable[b]
      /\ advanced'.lost = advanced.lost /\ advanced'.missing = advanced.missing \ saves
  BY <1>4 DEF StoreBlocks, TypeInv, Advanced
<1>6. Ready' = {}
  BY <1>2, <1>3 DEF Ready
<1>7. ASSUME NEW b \in Blocks
      PROVE  Covering(b)'
  <2>1. Covering(b)
    BY DEF CoverInv
  <2>2. CASE b \in main.fresh
    <3>1. seen'[b] = main.loaded[b] /\ b \notin main'.todo
      BY <1>1, <1>2, <1>5, <2>2 DEF ProgressInv
    <3>2. QED
      BY <1>2, <1>3, <1>5, <1>6, <2>1, <2>2, <3>1 DEF Covering, Numbered
  <2>3. CASE b \notin main.fresh
    <3>1. seen'[b] = seen[b]
      BY <1>1, <1>5, <2>3
    <3>2. QED
      BY <1>2, <1>3, <1>5, <1>6, <2>1, <2>3, <3>1 DEF Covering, Numbered
  <2>4. QED
    BY <2>2, <2>3
<1>8. QED
  BY <1>2, <1>7 DEF CoverInv

\* A block dropped unsaved is torn, and has what a restart would have found.
LEMMA DropCovers ==
  ASSUME TypeInv, CoverInv, NEW b \in Blocks, DropUnsaved(b)
  PROVE  CoverInv'
<1>1. /\ seen'[b] = durable[b] /\ \A c \in Blocks \ {b} : seen'[c] = seen[c]
      /\ torn' = torn \cup {b}
  BY DEF DropUnsaved, TypeInv, Moments
<1>2. /\ advanced'.missing = advanced.missing \ {b}
      /\ advanced'.lost = advanced.lost \cup ({b} \cap advanced.missing)
  BY DEF DropUnsaved, TypeInv, Advanced
<1>3. UNCHANGED <<main, options, learned, durable, saved, stepsBegun>>
  BY DEF DropUnsaved, optimizerVars
<1>4. Ready' = Ready
  BY <1>3 DEF Ready, First
<1>5. Covering(b)'
  <2>1. Covering(b) /\ ToSet(durable[b]) \subseteq ToSet(seen[b])
    BY DEF CoverInv, Covering
  <2>2. b \in main.todo => Under(durable[b], stepsBegun)
    BY <2>1, MomentsOf, FewerUnder DEF Covering
  <2>3. b \in torn' /\ b \notin advanced'.missing /\ (b \notin advanced'.lost => b \notin advanced.lost \cup advanced.missing)
    BY <1>1, <1>2
  <2> QED
    BY <1>1, <1>3, <1>4, <2>1, <2>2, <2>3 DEF Covering, Numbered
<1>6. ASSUME NEW c \in Blocks \ {b} PROVE Covering(c)'
  <2>1. Covering(c)
    BY DEF CoverInv
  <2>2. /\ c \in torn' <=> c \in torn
        /\ c \in advanced'.missing <=> c \in advanced.missing
        /\ c \in advanced'.lost <=> c \in advanced.lost
    BY <1>1, <1>2
  <2> QED
    BY <1>1, <1>3, <1>4, <2>1, <2>2 DEF Covering, Numbered
<1> QED
  BY <1>3, <1>5, <1>6 DEF CoverInv, MainAt

LEMMA StepCover ==
  ASSUME TypeInv, ProgressInv, CheckpointInv, CoverInv, [TrainingNext]_trainingVars
  PROVE  CoverInv'
<1> USE DEF MainAt
<1>1. ASSUME NEW active \in SUBSET Blocks, BeginStep(active) PROVE CoverInv'
  <2>1. main'.pc = (IF options.batch THEN "load" ELSE "block") /\ main'.fresh = {}
    BY <1>1 DEF BeginStep, AtRest
  <2>2. /\ UNCHANGED <<options, learned, seen, durable, saved, torn, advanced>> /\ stepsBegun' = stepsBegun + 1
    BY <1>1 DEF BeginStep, stateVars
  <2>3. Ready' = {} /\ main.fresh = {}
    BY <1>1, <2>1, <2>2 DEF Ready, BeginStep, ProgressInv
  <2>4. ASSUME NEW b \in Blocks PROVE Covering(b)'
    <3>1. /\ learned[b] \in Gradients /\ seen[b] \in Gradients /\ durable[b] \in Gradients
          /\ saved.learned[b] \in Gradients /\ stepsBegun \in Nat /\ stepsBegun + 1 \in Nat
      BY MomentsOf
    <3>2. Covering(b)
      BY DEF CoverInv
    <3>3. \A g \in {learned[b], seen[b], durable[b], saved.learned[b]} :
            InStepOrder(g) /\ Under(g, stepsBegun + 1) /\ Under(g, (stepsBegun + 1) + 1)
      BY <3>1, <3>2, MoreSteps DEF Covering, Numbered
    <3>4. QED
      BY <2>1, <2>2, <2>3, <3>2, <3>3 DEF Covering, Numbered
  <2>5. QED
    BY <2>1, <2>4 DEF CoverInv
<1>2. CASE LoadStates
  <2>1. /\ main'.pc = "block" /\ main'.todo = main.todo /\ main'.fresh = main.fresh
        /\ main.fresh = {} /\ \A b \in main.todo : main'.loaded[b] = seen[b]
    BY <1>2 DEF LoadStates, TypeInv, MainCall, ProgressInv
  <2>2. UNCHANGED <<options, learned, seen, durable, saved, torn, stepsBegun, advanced>>
    BY <1>2 DEF LoadStates, stateVars, resumeVars
  <2>3. Ready' \subseteq main.todo
    BY <1>2, <2>1, <2>2 DEF Ready, LoadStates, ProgressInv
  <2>4. QED
    BY <2>1, <2>2, <2>3 DEF CoverInv, Covering, Numbered
<1>3. ASSUME NEW b \in Blocks, LoadState(b) PROVE CoverInv'
  <2>1. /\ main'.pc = "update" /\ main'.todo = main.todo /\ main'.fresh = main.fresh
        /\ main'.loaded[b] = seen[b] /\ main.fresh = {}
    BY <1>3 DEF LoadState, TypeInv, MainCall, Moments, ProgressInv
  <2>2. \A c \in Blocks : First(c)' => c = b
    <3>1. Blocks \subseteq Nat
      BY TrainingAssumption DEF Blocks
    <3> QED
      BY <1>3, <2>1, <3>1 DEF LoadState, First
  <2>3. UNCHANGED <<options, learned, seen, durable, saved, torn, stepsBegun, advanced>>
    BY <1>3 DEF LoadState, stateVars, resumeVars
  <2>4. \A c \in Ready' : c = b /\ b \in main.todo
    BY <1>3, <2>1, <2>2, <2>3 DEF Ready, LoadState, First
  <2>5. QED
    BY <2>1, <2>3, <2>4 DEF CoverInv, Covering, Numbered
<1>4. ASSUME NEW b \in Blocks, UpdateBlock(b) PROVE CoverInv'
  BY <1>4, UpdateCovers
<1>5. ASSUME NEW ks \in SUBSET Blocks, StoreStates(ks) \/ StoreRaises(ks) PROVE CoverInv'
  BY <1>5, StoreCovers
<1>6. CASE PinStep
  BY <1>6, NothingSaved, GoneOnCover DEF PinStep, resumeVars, MainPlaces
<1>7. CASE ScheduleFlush
  <2>1. /\ MainTo("stale") /\ UNCHANGED <<learned, saved, stepsBegun, torn>>
        /\ FlushBlocks(main.active) \/ UNCHANGED <<seen, durable, advanced>>
    BY <1>7 DEF ScheduleFlush, stateVars
  <2>2. QED
    BY <2>1, FlushedDurable, NothingSaved, GoneOnCover DEF MainPlaces
<1>8. CASE FlushRaises \/ CheckpointRaises
  <2>1. main' = AtRest /\ UNCHANGED <<learned, saved, stepsBegun, torn>> /\ main.fresh = {}
    BY <1>8 DEF FlushRaises, CheckpointRaises, ProgressInv
  <2>2. \/ FlushBlocks(main.active) \/ FlushBlocks(Blocks)
        \/ UNCHANGED <<seen, durable, advanced>>
    BY <1>8, FlushFailsTypes, BlocksFailTypes DEF FlushRaises, CheckpointRaises, stateVars
  <2>3. QED
    BY <2>1, <2>2, FlushedDurable, NothingSaved, EndedCover
<1>9. CASE UnpinStale
  <2>1. /\ main' = AtRest /\ UNCHANGED <<learned, saved, stepsBegun, torn, seen, durable, advanced>> /\ main.fresh = {}
    BY <1>9 DEF UnpinStale, resumeVars, ProgressInv
  <2>2. QED
    BY <2>1, NothingSaved, EndedCover
<1>10. CASE StepRaises
  BY <1>10, NothingSaved, EndedCover DEF StepRaises, stateVars
<1>11. CASE WorkerFlushes
  <2>1. /\ main' = main /\ UNCHANGED <<options, learned, saved, stepsBegun, torn>>
        /\ FlushBlocks(flushJob.blocks) \/ UNCHANGED <<seen, durable, advanced>>
    BY <1>11, BlocksFailTypes DEF WorkerFlushes
  <2>2. Ready' = Ready
    BY <2>1 DEF Ready, First
  <2>3. QED
    BY <2>1, <2>2, FlushedDurable, NothingSaved, QuietCover DEF CoverInv
<1>12. CASE BeginCheckpoint
  BY <1>12, NothingSaved, GoneOnCover DEF BeginCheckpoint, stateVars, resumeVars, MainPlaces
<1>13. CASE DrainFlush
  <2>1. /\ main' = AtRest \/ (MainTo("external") /\ "external" \in MainPlaces \ {"rest", "block", "update"})
        /\ UNCHANGED <<learned, saved, stepsBegun, torn, seen, durable, advanced>> /\ main.fresh = {}
    BY <1>13 DEF DrainFlush, stateVars, resumeVars, ProgressInv, MainPlaces
  <2>2. QED
    BY <2>1, NothingSaved, EndedCover, GoneOnCover
<1>14. CASE FlushOrigin
  <2>1. /\ MainTo("save") /\ UNCHANGED <<learned, saved, stepsBegun, torn>> /\ FlushBlocks(Blocks)
    BY <1>14 DEF FlushOrigin
  <2>2. QED
    BY <2>1, FlushedDurable, GoneOnCover DEF MainPlaces
<1>15. CASE SaveTraining
  <2>1. main.fresh = {} /\ \A b \in Blocks \ Unsaved : durable[b] = seen[b]
    BY <1>15 DEF SaveTraining, ProgressInv, CheckpointInv, Unsaved
  <2>2. /\ saved'.learned = learned /\ saved'.torn = torn /\ advanced'.missing = Unsaved /\ advanced'.lost = {}
        /\ UNCHANGED <<learned, seen, durable, torn, stepsBegun>>
    BY <1>15 DEF SaveTraining, stateVars
  <2>3. main'.pc = "rest" /\ main'.todo = {} /\ main'.fresh = {} /\ Ready' = {}
    BY <1>15, RestFields DEF SaveTraining, Ready
  <2>4. QED
    BY <2>1, <2>2, <2>3 DEF CoverInv, Covering, Numbered
<1>16. CASE LoadCheckpoint
  <2>1. main.fresh = {} /\ main' = main /\ Ready' = {}
    BY <1>16 DEF LoadCheckpoint, ProgressInv, Ready
  <2>2. /\ learned' = saved.learned /\ torn' = saved.torn \cup advanced.lost
        /\ UNCHANGED <<seen, durable, saved, stepsBegun, advanced>>
    BY <1>16 DEF LoadCheckpoint, GoBack
  <2>3. ASSUME NEW b \in Blocks PROVE Covering(b)'
    <3>1. Covering(b)
      BY DEF CoverInv
    <3>2. b \notin main.todo
      BY <1>16 DEF LoadCheckpoint, CoverInv
    <3>3. QED
      BY <2>1, <2>2, <3>1, <3>2 DEF Covering, Numbered
  <2>4. QED
    BY <2>1, <2>3 DEF CoverInv
<1>17. CASE LoadRaises
  <2>1. /\ main' = main /\ UNCHANGED <<options, learned, seen, durable, saved, stepsBegun, torn, advanced>>
    BY <1>17 DEF LoadRaises, stateVars, resumeVars
  <2>2. Ready' = Ready
    BY <2>1 DEF Ready, First
  <2>3. QED
    BY <2>1, <2>2, NothingSaved, QuietCover DEF CoverInv
<1>18. CASE DieAndResume
  <2>1. main'.pc = "rest" /\ main'.todo = {} /\ main'.fresh = {} /\ Ready' = {}
    BY <1>18, RestFields DEF DieAndResume, Ready
  <2>2. /\ learned' = saved.learned /\ torn' = saved.torn \cup advanced.lost \cup advanced.missing
        /\ seen' = durable /\ durable' = durable
        /\ advanced'.missing = {} /\ advanced'.lost = advanced.lost \cup advanced.missing
        /\ UNCHANGED <<saved, stepsBegun>>
    BY <1>18 DEF DieAndResume, GoBack, TypeInv, Advanced
  <2>3. QED
    BY <2>1, <2>2 DEF CoverInv, Covering, Numbered
<1>19. ASSUME NEW b \in Blocks, DropUnsaved(b) PROVE CoverInv'
  BY <1>19, DropCovers
<1>20. CASE UNCHANGED trainingVars
  <2>1. /\ main' = main /\ UNCHANGED <<options, learned, seen, durable, saved, stepsBegun, torn, advanced>>
    BY <1>20 DEF trainingVars, optimizerVars, stateVars, resumeVars
  <2>2. Ready' = Ready
    BY <2>1 DEF Ready, First
  <2>3. QED
    BY <2>1, <2>2, NothingSaved, QuietCover DEF CoverInv
<1> QED
  BY <1>1, <1>2, <1>3, <1>4, <1>5, <1>6, <1>7, <1>8, <1>9, <1>10, <1>11, <1>12, <1>13, <1>14, <1>15,
     <1>16, <1>17, <1>18, <1>19, <1>20 DEF TrainingNext

----------------------------------------------------------------------------
LEMMA LoopInvariant == TrainingSpec => []LoopInv
<1>1. TrainingInit => LoopInv
  BY InitTypes, InitPins, InitMoments, InitCheckpoint DEF LoopInv
<1>2. LoopInv /\ [TrainingNext]_trainingVars => LoopInv'
  BY StepTypes, StepPins, StepProgress, StepMoments, StepCheckpoint DEF LoopInv
<1> QED
  BY <1>1, <1>2, PTL DEF TrainingSpec

(* However often steps raise, flushes fail and training goes back to its          *)
(* checkpoint, what SODLAdamW has pinned in the store is its window, and that is  *)
(* never more than prefetch_lookahead blocks, or one.                          *)
THEOREM PinsBounded == TrainingSpec => []OnlyWindowPinned
<1>1. LoopInv => OnlyWindowPinned
  BY DEF LoopInv, PinInv, OnlyWindowPinned
<1> QED
  BY <1>1, LoopInvariant, PTL

(* Between calls, the moments that the store returns for a block have taken in    *)
(* every gradient of its weights, once and in the same order, and are exactly those *)
(* of the weights unless training went back to a checkpoint older than the stored  *)
(* moments: for every number of blocks, whichever way and whenever they are       *)
(* flushed.  Excepted is a block over which a step was torn, between its update    *)
(* and its store, and one that a failed flush marked clean and did not save, when  *)
(* the cache has dropped it since or the process died and went on from a          *)
(* checkpoint saved in between.                                               *)
THEOREM MomentsStayWithWeights == TrainingSpec => []MomentsFollowWeights
<1>1. TrainingInit => CoverInv
  BY InitCover
<1>2. LoopInv /\ CoverInv /\ [TrainingNext]_trainingVars => CoverInv'
  BY StepCover DEF LoopInv
<1>3. LoopInv => MomentsExact
  BY DEF LoopInv, MomentInv, ProgressInv, Kept, MomentsExact, MainAt
<1>4. LoopInv /\ CoverInv => GradientsCovered
  <2> SUFFICES ASSUME LoopInv, CoverInv, MainAt("rest"), NEW b \in Blocks \ torn
               PROVE  /\ ToSet(learned[b]) \subseteq ToSet(seen[b])
                      /\ InStepOrder(learned[b]) /\ InStepOrder(seen[b])
    BY DEF GradientsCovered
  <2>1. Covering(b) /\ b \notin main.fresh
    BY DEF CoverInv, LoopInv, ProgressInv, MainAt
  <2>2. QED
    BY <2>1 DEF Covering, Numbered
<1>5. LoopInv /\ CoverInv => MomentsFollowWeights
  BY <1>3, <1>4 DEF MomentsFollowWeights
<1> QED
  BY <1>1, <1>2, <1>5, LoopInvariant, PTL DEF TrainingSpec

-----------------------------------------------------------------------------
(***************************************************************************)
(* The threads: ArteryPulsar first, then VeinPrefetcher.                       *)
(***************************************************************************)
Maps == [Tensors -> Values \cup {Unset}]
PulserPlaces == {"unborn", "idle", "asleep", "take", "export", "write", "gone"}
Pulser == [pc : PulserPlaces, held : Maps, updated : BOOLEAN, list : Maps]

PulserTypes ==
  /\ {dirtyMap, blobIds, named, newest} \subseteq Maps
  /\ pulser \in [Pulsers -> Pulser]

(* A thread holds clusters only while it exports them.                         *)
EmptyHanded == \A p \in Pulsers : ~ Is(p, "export") => pulser[p].held = NoTensors

(* Where the newest content of a cluster is, as long as no two pulses have held    *)
(* it and no failed export was put back over a newer mark: in the map of dirty    *)
(* clusters, else with the one pulse that holds the cluster, else under the id it  *)
(* was exported to.                                                         *)
Accounted(x) ==
  /\ \A p, q \in Pulsers : Holds(p, x) /\ Holds(q, x) => p = q
  /\ dirtyMap[x] # Unset => dirtyMap[x] = newest[x]
  /\ dirtyMap[x] = Unset => \A p \in Pulsers : Holds(p, x) => pulser[p].held[x] = newest[x]
  /\ dirtyMap[x] = Unset /\ (\A p \in Pulsers : ~ Holds(p, x)) => blobIds[x] = newest[x]

PulseInv == PulserTypes /\ EmptyHanded /\ \A x \in Tensors \ crossed : Accounted(x)

----------------------------------------------------------------------------
(* The threads start with empty hands, and nothing is marked.                   *)
LEMMA PulseInit == PulsarInit => PulseInv
<1> SUFFICES ASSUME PulsarInit PROVE PulseInv
  OBVIOUS
<1>1. NoTensors \in Maps
  BY DEF NoTensors, Maps
<1>2. PulserTypes
  BY <1>1 DEF PulsarInit, PulserTypes, Pulser, Placed, PulserPlaces, Pulsers
<1>3. \A p \in Pulsers : pulser[p].held = NoTensors
  BY DEF PulsarInit, Placed
<1>4. \A x \in Tensors : Accounted(x)
  BY <1>3 DEF PulsarInit, Accounted, Holds, NoTensors
<1> QED
  BY <1>2, <1>3, <1>4 DEF PulseInv, EmptyHanded

(* What a thread holds: nothing, once it is put somewhere by Goes.               *)
LEMMA GoesEmptyHanded ==
  ASSUME PulseInv, NEW p \in Pulsers, NEW pc \in PulserPlaces, ~ Is(p, "export"), Goes(p, pc)
  PROVE  /\ pulser' \in [Pulsers -> Pulser]
         /\ EmptyHanded'
         /\ \A q \in Pulsers : pulser'[q].held = pulser[q].held
<1>1. Placed(pc) \in Pulser /\ Placed(pc).held = NoTensors
  BY DEF Placed, Pulser, NoTensors, Maps
<1>2. pulser' \in [Pulsers -> Pulser]
  BY <1>1 DEF PulseInv, PulserTypes, Goes
<1>3. pulser'[p] = Placed(pc) /\ \A q \in Pulsers \ {p} : pulser'[q] = pulser[q]
  BY DEF PulseInv, PulserTypes, Goes
<1>4. pulser[p].held = NoTensors
  BY DEF PulseInv, EmptyHanded
<1> QED
  BY <1>1, <1>2, <1>3, <1>4 DEF PulseInv, EmptyHanded, Is

(* A step that leaves the contents and what the threads hold alone.               *)
LEMMA PulseFrame ==
  ASSUME PulseInv, pulser' \in [Pulsers -> Pulser], EmptyHanded',
         \A q \in Pulsers : pulser'[q].held = pulser[q].held,
         named' \in Maps, UNCHANGED <<dirtyMap, blobIds, newest, crossed>>
  PROVE  PulseInv'
<1>1. PulserTypes'
  BY DEF PulseInv, PulserTypes
<1>2. ASSUME NEW x \in Tensors \ crossed PROVE Accounted(x)'
  <2>1. Accounted(x)
    BY DEF PulseInv
  <2>2. \A q \in Pulsers : pulser'[q].held[x] = pulser[q].held[x]
    OBVIOUS
  <2> QED
    BY <2>1, <2>2 DEF Accounted, Holds
<1> QED
  BY <1>1, <1>2 DEF PulseInv

(* A mark makes the map of dirty clusters the place of the newest content.         *)
LEMMA MarkKeeps ==
  ASSUME PulseInv, NEW x \in Tensors, NEW v \in Values, MarkDirty(x, v)
  PROVE  PulseInv'
<1> USE DEF MarkDirty
<1>1. PulserTypes' /\ EmptyHanded'
  BY DEF PulseInv, PulserTypes, EmptyHanded, Is, Maps
<1>2. dirtyMap' = [dirtyMap EXCEPT ![x] = v] /\ newest' = [newest EXCEPT ![x] = v]
      /\ dirtyMap \in Maps /\ newest \in Maps
  BY DEF PulseInv, PulserTypes
<1>3. ASSUME NEW y \in Tensors \ crossed' PROVE Accounted(y)'
  <2>1. CASE y = x
    <3>1. dirtyMap'[y] = v /\ newest'[y] = v /\ v # Unset
      BY <1>2, <2>1, PulsarAssumption DEF Maps
    <3>2. \A p, q \in Pulsers : Holds(p, y) /\ Holds(q, y) => p = q
      <4>1. CASE \E p \in Pulsers : Holds(p, x)
        BY <4>1, <2>1 DEF PulseInv, Accounted
      <4>2. CASE ~ \E p \in Pulsers : Holds(p, x)
        BY <4>2, <2>1
      <4> QED
        BY <4>1, <4>2
    <3> QED
      BY <3>1, <3>2 DEF Accounted, Holds
  <2>2. CASE y # x
    <3>1. dirtyMap'[y] = dirtyMap[y] /\ newest'[y] = newest[y] /\ y \in Tensors \ crossed
      BY <1>2, <2>2 DEF Maps
    <3> QED
      BY <3>1 DEF PulseInv, Accounted, Holds
  <2> QED
    BY <2>1, <2>2
<1> QED
  BY <1>1, <1>3 DEF PulseInv

(* A pulse takes over what is dirty; a cluster that another pulse still holds is     *)
(* crossed from then on.                                                    *)
LEMMA TakeKeeps ==
  ASSUME PulseInv, NEW p \in Pulsers, TakeDirty(p)
  PROVE  PulseInv'
<1> USE DEF TakeDirty
<1>1. /\ dirtyMap \in Maps /\ NoTensors \in Maps
      /\ dirtyMap' = NoTensors
  BY DEF PulseInv, PulserTypes, NoTensors, Maps
<1> DEFINE taken == [Placed("export") EXCEPT !.held = dirtyMap]
<1>2. taken \in Pulser /\ taken.held = dirtyMap /\ taken.pc = "export"
  BY <1>1 DEF Placed, Pulser, PulserPlaces
<1>3. pulser' \in [Pulsers -> Pulser]
      /\ pulser'[p] = taken /\ \A q \in Pulsers \ {p} : pulser'[q] = pulser[q]
  <2>1. pulser' = [pulser EXCEPT ![p] = taken]
    OBVIOUS
  <2> QED
    BY <1>2, <2>1 DEF PulseInv, PulserTypes
<1>4. PulserTypes'
  BY <1>1, <1>3 DEF PulseInv, PulserTypes
<1>5. EmptyHanded'
  BY <1>2, <1>3 DEF PulseInv, EmptyHanded, Is
<1>6. pulser[p].held = NoTensors
  BY DEF PulseInv, EmptyHanded, Is
<1>7. ASSUME NEW x \in Tensors \ crossed' PROVE Accounted(x)'
  <2>1. x \in Tensors \ crossed /\ Accounted(x)
    BY DEF PulseInv
  <2>2. ~ Holds(p, x) /\ dirtyMap'[x] = Unset
    BY <1>1, <1>6 DEF Holds, NoTensors
  <2>3. Holds(p, x)' <=> dirtyMap[x] # Unset
    BY <1>2, <1>3 DEF Holds
  <2>4. \A q \in Pulsers \ {p} : (Holds(q, x)' <=> Holds(q, x)) /\ pulser'[q].held[x] = pulser[q].held[x]
    BY <1>3 DEF Holds
  <2>5. CASE dirtyMap[x] # Unset
    <3>1. \A q \in Pulsers \ {p} : ~ Holds(q, x)
      BY <2>5 DEF Filled
    <3>2. pulser'[p].held[x] = newest'[x]
      BY <1>2, <1>3, <2>1, <2>5 DEF Accounted
    <3> QED
      BY <2>2, <2>3, <2>4, <2>5, <3>1, <3>2 DEF Accounted
  <2>6. CASE dirtyMap[x] = Unset
    BY <2>1, <2>2, <2>3, <2>4, <2>6 DEF Accounted
  <2> QED
    BY <2>5, <2>6
<1> QED
  BY <1>4, <1>5, <1>7 DEF PulseInv

(* An export ends with the cluster under the id of what was stored.               *)
LEMMA ExportKeeps ==
  ASSUME PulseInv, NEW p \in Pulsers, NEW x \in Tensors, ExportTensor(p, x)
  PROVE  PulseInv'
<1> USE DEF ExportTensor
<1> DEFINE mine == pulser[p].held[x]
<1>1. mine \in Values /\ pulser \in [Pulsers -> Pulser] /\ blobIds \in Maps
  BY DEF PulseInv, PulserTypes, Pulser, Maps, Holds
<1>2. /\ pulser' \in [Pulsers -> Pulser]
      /\ pulser'[p].pc = pulser[p].pc
      /\ pulser'[p].held = [pulser[p].held EXCEPT ![x] = Unset]
      /\ \A q \in Pulsers \ {p} : pulser'[q] = pulser[q]
  BY <1>1 DEF Pulser, Maps
<1>3. blobIds' \in Maps /\ blobIds'[x] = mine /\ \A y \in Tensors \ {x} : blobIds'[y] = blobIds[y]
  BY <1>1 DEF Maps
<1>4. PulserTypes'
  BY <1>2, <1>3 DEF PulseInv, PulserTypes
<1>5. EmptyHanded'
  BY <1>2 DEF PulseInv, EmptyHanded, Is
<1>6. ASSUME NEW y \in Tensors \ crossed' PROVE Accounted(y)'
  <2>1. y \in Tensors \ crossed /\ Accounted(y)
    BY DEF PulseInv
  <2>2. CASE y = x
    <3>1. \A q \in Pulsers : ~ Holds(q, y)'
      BY <1>1, <1>2, <2>1, <2>2 DEF Accounted, Holds, Pulser, Maps
    <3>2. dirtyMap[y] = Unset => blobIds'[y] = newest[y]
      BY <1>3, <2>1, <2>2 DEF Accounted
    <3> QED
      BY <2>1, <3>1, <3>2 DEF Accounted
  <2>3. CASE y # x
    <3>1. \A q \in Pulsers : pulser'[q].held[y] = pulser[q].held[y]
      BY <1>1, <1>2, <2>3 DEF Pulser, Maps
    <3> QED
      BY <1>3, <2>1, <2>3, <3>1 DEF Accounted, Holds
  <2> QED
    BY <2>2, <2>3
<1> QED
  BY <1>4, <1>5, <1>6 DEF PulseInv

(* A failed export puts the cluster back; over a newer mark it is crossed.          *)
LEMMA FailKeeps ==
  ASSUME PulseInv, NEW p \in Pulsers, NEW x \in Tensors, ExportFails(p, x)
  PROVE  PulseInv'
<1> USE DEF ExportFails, PutBack
<1> DEFINE mine == pulser[p].held[x]
<1>1. mine \in Values /\ mine # Unset /\ pulser \in [Pulsers -> Pulser] /\ dirtyMap \in Maps
  BY PulsarAssumption DEF PulseInv, PulserTypes, Pulser, Maps, Holds
<1>2. /\ pulser' \in [Pulsers -> Pulser]
      /\ pulser'[p].pc = pulser[p].pc
      /\ pulser'[p].held = [pulser[p].held EXCEPT ![x] = Unset]
      /\ \A q \in Pulsers \ {p} : pulser'[q] = pulser[q]
  BY <1>1 DEF Pulser, Maps
<1>3. dirtyMap' \in Maps /\ dirtyMap'[x] = mine /\ \A y \in Tensors \ {x} : dirtyMap'[y] = dirtyMap[y]
  BY <1>1 DEF Maps
<1>4. PulserTypes'
  BY <1>2, <1>3 DEF PulseInv, PulserTypes
<1>5. EmptyHanded'
  BY <1>2 DEF PulseInv, EmptyHanded, Is
<1>6. ASSUME NEW y \in Tensors \ crossed' PROVE Accounted(y)'
  <2>1. y \in Tensors \ crossed /\ Accounted(y)
    BY DEF PulseInv
  <2>2. CASE y = x
    <3>1. dirtyMap[y] \in {Unset, mine}
      BY <2>2
    <3>2. dirtyMap'[y] = newest'[y] /\ dirtyMap'[y] # Unset
      BY <1>1, <1>3, <2>1, <2>2, <3>1 DEF Accounted
    <3>3. \A q \in Pulsers : ~ Holds(q, y)'
      BY <1>1, <1>2, <2>1, <2>2 DEF Accounted, Holds, Pulser, Maps
    <3> QED
      BY <3>2, <3>3 DEF Accounted
  <2>3. CASE y # x
    <3>1. \A q \in Pulsers : pulser'[q].held[y] = pulser[q].held[y]
      BY <1>1, <1>2, <2>3 DEF Pulser, Maps
    <3> QED
      BY <1>3, <2>1, <2>3, <3>1 DEF Accounted, Holds
  <2> QED
    BY <2>2, <2>3
<1> QED
  BY <1>4, <1>5, <1>6 DEF PulseInv

(* When a pulse has nothing left it makes the list of the manifest.                *)
LEMMA ExportedKeeps ==
  ASSUME PulseInv, NEW p \in Pulsers, Exported(p)
  PROVE  PulseInv'
<1> USE DEF Exported
<1> DEFINE listing == [Placed("write") EXCEPT !.list = blobIds]
<1>1. pulser[p].held = NoTensors /\ blobIds \in Maps /\ NoTensors \in Maps
  BY DEF PulseInv, PulserTypes, Pulser, Maps, Holds, NoTensors
<1>2. listing \in Pulser /\ listing.held = NoTensors /\ listing.pc = "write"
  BY <1>1 DEF Placed, Pulser, PulserPlaces
<1>3. Placed("idle") \in Pulser /\ Placed("asleep") \in Pulser /\ Placed("gone") \in Pulser
  BY <1>1 DEF Placed, Pulser, PulserPlaces
<1>4. PICK next \in Pulser : /\ pulser' = [pulser EXCEPT ![p] = next]
                             /\ next.held = NoTensors /\ next.pc # "export"
  <2>1. CASE pulser[p].updated
    BY <1>2, <2>1
  <2>2. CASE ~ pulser[p].updated
    BY <1>3, <2>2 DEF Returns, Goes, Placed
  <2> QED
    BY <2>1, <2>2
<1>5. /\ pulser' \in [Pulsers -> Pulser]
      /\ pulser'[p] = next /\ \A q \in Pulsers \ {p} : pulser'[q] = pulser[q]
  BY <1>4 DEF PulseInv, PulserTypes
<1>6. EmptyHanded'
  BY <1>4, <1>5 DEF PulseInv, EmptyHanded, Is
<1>7. \A q \in Pulsers : pulser'[q].held = pulser[q].held
  BY <1>1, <1>4, <1>5
<1>8. named' \in Maps /\ UNCHANGED <<dirtyMap, blobIds, newest, crossed>>
  BY DEF PulseInv, PulserTypes, pulseHistory
<1> QED
  BY <1>5, <1>6, <1>7, <1>8, PulseFrame

(* Where a pulse returns to.                                                  *)
LEMMA ReturnsIsGoes ==
  ASSUME NEW p \in Pulsers, Returns(p)
  PROVE  \E pc \in PulserPlaces : Goes(p, pc)
BY DEF Returns, PulserPlaces

(* Sleeping, waking, starting, stopping and writing the manifest move a thread that  *)
(* holds nothing.                                                           *)
LEMMA MoveKeeps ==
  ASSUME PulseInv, NEW p \in Pulsers, NEW pc \in PulserPlaces, ~ Is(p, "export"), Goes(p, pc),
         named' \in Maps, UNCHANGED <<dirtyMap, blobIds, newest, crossed>>
  PROVE  PulseInv'
BY GoesEmptyHanded, PulseFrame

(* Every step keeps the newest content of every cluster somewhere.                 *)
LEMMA PulseStep == PulseInv /\ [PulsarNext]_pulsarVars => PulseInv'
<1> SUFFICES ASSUME PulseInv, [PulsarNext]_pulsarVars PROVE PulseInv'
  OBVIOUS
<1>a. named \in Maps /\ Trainer \in Pulsers /\ Workers \subseteq Pulsers
  BY DEF PulseInv, PulserTypes, Pulsers
<1>b. \A p \in Pulsers : pulser[p].list \in Maps
  BY DEF PulseInv, PulserTypes, Pulser
<1>c. \A pc \in {"idle", "asleep", "take", "gone"} : pc \in PulserPlaces
  BY DEF PulserPlaces
<1>1. ASSUME NEW x \in Tensors, NEW v \in Values, MarkDirty(x, v) PROVE PulseInv'
  BY <1>1, MarkKeeps
<1>2. CASE StopPulsar \/ FlushPulsar
  <2>1. ~ Is(Trainer, "export") /\ Goes(Trainer, "take") /\ named' = named
        /\ UNCHANGED <<dirtyMap, blobIds, newest, crossed>>
    BY <1>2 DEF StopPulsar, FlushPulsar, pulseHistory, Is
  <2> QED
    BY <1>a, <1>c, <2>1, MoveKeeps
<1>3. ASSUME NEW w \in Workers, StartPulsar(w) \/ Wake(w) PROVE PulseInv'
  <2>1. ~ Is(w, "export") /\ named' = named /\ UNCHANGED <<dirtyMap, blobIds, newest, crossed>>
        /\ \E pc \in {"asleep", "take", "gone"} : Goes(w, pc)
    BY <1>3 DEF StartPulsar, Wake, pulseHistory, Is
  <2> QED
    BY <1>a, <1>c, <2>1, MoveKeeps
<1>4. ASSUME NEW p \in Pulsers, TakeDirty(p) PROVE PulseInv'
  BY <1>4, TakeKeeps
<1>5. ASSUME NEW p \in Pulsers, TakeNothing(p) PROVE PulseInv'
  <2>1. ~ Is(p, "export") /\ named' = named /\ UNCHANGED <<dirtyMap, blobIds, newest, crossed>>
    BY <1>5 DEF TakeNothing, pulseHistory, Is
  <2>2. \E pc \in PulserPlaces : Goes(p, pc)
    BY <1>5, ReturnsIsGoes DEF TakeNothing
  <2> QED
    BY <1>a, <2>1, <2>2, MoveKeeps
<1>6. ASSUME NEW p \in Pulsers, Exported(p) PROVE PulseInv'
  BY <1>6, ExportedKeeps
<1>7. ASSUME NEW p \in Pulsers, WritePulse(p) PROVE PulseInv'
  <2>1. ~ Is(p, "export") /\ named' \in Maps /\ UNCHANGED <<dirtyMap, blobIds, newest, crossed>>
    BY <1>7, <1>b DEF WritePulse, Replace, Is
  <2>2. \E pc \in PulserPlaces : Goes(p, pc)
    BY <1>7, ReturnsIsGoes DEF WritePulse
  <2> QED
    BY <2>1, <2>2, MoveKeeps
<1>8. ASSUME NEW p \in Pulsers, WriteFails(p) PROVE PulseInv'
  <2>1. ~ Is(p, "export") /\ named' \in Maps /\ UNCHANGED <<dirtyMap, blobIds, newest, crossed>>
    BY <1>8, <1>a, <1>b DEF WriteFails, Replace, Is
  <2>2. \E pc \in PulserPlaces : Goes(p, pc)
    BY <1>8, <1>c DEF WriteFails
  <2> QED
    BY <2>1, <2>2, MoveKeeps
<1>9. ASSUME NEW p \in Pulsers, NEW x \in Tensors, ExportTensor(p, x) PROVE PulseInv'
  BY <1>9, ExportKeeps
<1>10. ASSUME NEW p \in Pulsers, NEW x \in Tensors, ExportFails(p, x) PROVE PulseInv'
  BY <1>10, FailKeeps
<1>11. CASE UNCHANGED pulsarVars
  <2>1. UNCHANGED <<dirtyMap, blobIds, newest, crossed, named, pulser>>
    BY <1>11 DEF pulsarVars, pulseHistory
  <2> QED
    BY <1>a, <2>1, PulseFrame DEF PulseInv, PulserTypes, EmptyHanded, Is
<1> QED
  BY <1>1, <1>2, <1>3, <1>4, <1>5, <1>6, <1>7, <1>8, <1>9, <1>10, <1>11 DEF PulsarNext

----------------------------------------------------------------------------
(* What is named or to be named is stored: replacing the manifest by the newest    *)
(* list deletes nothing the list names, and by an older one it is on record.        *)
LEMMA ReplaceKeepsStored ==
  ASSUME NamedStored, NEW p \in Pulsers, NEW gone \in SUBSET Unnamed(p), Replace(p, gone),
         UNCHANGED blobIds
  PROVE  NamedStored'
<1> USE DEF Replace, Unnamed, NamedStored
<1>1. CASE pulser[p].list = blobIds
  <2>1. BlobsOf(blobIds)' = BlobsOf(blobIds) /\ BlobsOf(named)' = BlobsOf(blobIds)
    BY <1>1 DEF BlobsOf, Filled
  <2> QED
    BY <1>1, <2>1
<1>2. CASE pulser[p].list # blobIds
  <2>1. BlobsOf(blobIds)' = BlobsOf(blobIds)
    BY DEF BlobsOf, Filled
  <2> QED
    BY <1>2, <2>1
<1> QED
  BY <1>1, <1>2

(* An export stores the blob before its id is noted.                             *)
LEMMA ExportKeepsStored ==
  ASSUME PulseInv, NamedStored, NEW p \in Pulsers, NEW x \in Tensors, ExportTensor(p, x)
  PROVE  NamedStored'
<1> USE DEF ExportTensor
<1> DEFINE mine == pulser[p].held[x]
<1>1. pulsed \cup snatched \cup {<<x, mine>>} \subseteq (pulsed \cup snatched)'
  OBVIOUS
<1>2. blobIds' = [blobIds EXCEPT ![x] = mine] /\ blobIds \in Maps
  BY DEF PulseInv, PulserTypes
<1>3. BlobsOf(blobIds)' \subseteq BlobsOf(blobIds) \cup {<<x, mine>>}
  BY <1>2 DEF BlobsOf, Filled, Maps
<1>4. BlobsOf(named)' = BlobsOf(named)
  BY DEF BlobsOf, Filled
<1> QED
  BY <1>1, <1>3, <1>4 DEF NamedStored

(* Every other step leaves what is stored and named alone.                          *)
LEMMA StoredStep == PulseInv /\ NamedStored /\ [PulsarNext]_pulsarVars => NamedStored'
<1> SUFFICES ASSUME PulseInv, NamedStored, [PulsarNext]_pulsarVars PROVE NamedStored'
  OBVIOUS
<1>1. ASSUME UNCHANGED <<blobIds, named, pulsed, snatched, outdated>> PROVE NamedStored'
  BY <1>1 DEF NamedStored, BlobsOf, Filled
<1>2. ASSUME NEW p \in Pulsers, WritePulse(p) PROVE NamedStored'
  BY <1>2, ReplaceKeepsStored DEF WritePulse
<1>3. ASSUME NEW p \in Pulsers, WriteFails(p) PROVE NamedStored'
  <2>1. CASE UNCHANGED <<named, pulsed, outdated, snatched>>
    BY <1>1, <1>3, <2>1 DEF WriteFails
  <2>2. CASE \E gone \in SUBSET Unnamed(p) : Replace(p, gone)
    BY <1>3, <2>2, ReplaceKeepsStored DEF WriteFails
  <2> QED
    BY <1>3, <2>1, <2>2 DEF WriteFails
<1>4. ASSUME NEW p \in Pulsers, NEW x \in Tensors, ExportTensor(p, x) PROVE NamedStored'
  BY <1>4, ExportKeepsStored
<1>5. CASE UNCHANGED pulsarVars
  BY <1>1, <1>5 DEF pulsarVars, pulseHistory
<1>6. ASSUME NEW x \in Tensors, NEW v \in Values, MarkDirty(x, v) PROVE NamedStored'
  BY <1>1, <1>6 DEF MarkDirty
<1>7. CASE StopPulsar \/ FlushPulsar
  BY <1>1, <1>7 DEF StopPulsar, FlushPulsar, pulseHistory
<1>8. ASSUME NEW w \in Workers, StartPulsar(w) \/ Wake(w) PROVE NamedStored'
  BY <1>1, <1>8 DEF StartPulsar, Wake, pulseHistory
<1>9. ASSUME NEW p \in Pulsers, TakeDirty(p) \/ TakeNothing(p) \/ Exported(p) PROVE NamedStored'
  BY <1>1, <1>9 DEF TakeDirty, TakeNothing, Exported, pulseHistory
<1>10. ASSUME NEW p \in Pulsers, NEW x \in Tensors, ExportFails(p, x) PROVE NamedStored'
  BY <1>1, <1>10 DEF ExportFails
<1> QED
  BY <1>2, <1>3, <1>4, <1>5, <1>6, <1>7, <1>8, <1>9, <1>10 DEF PulsarNext

----------------------------------------------------------------------------
(* The newest content of a cluster is dirty, held by a pulse, or under the id the     *)
(* next manifest will name, and what is named or to be named is stored, but for what *)
(* the history variables record.                                             *)
THEOREM PulsesLoseNothing == PulsarSpec => []PulsesKeepNewest
<1>1. PulsarInit => PulseInv /\ NamedStored
  <2>1. PulsarInit => NamedStored
    BY DEF PulsarInit, NamedStored, BlobsOf, Filled, NoTensors
  <2> QED
    BY <2>1, PulseInit
<1>2. PulseInv /\ NamedStored /\ [PulsarNext]_pulsarVars => (PulseInv /\ NamedStored)'
  BY PulseStep, StoredStep
<1>3. PulseInv /\ NamedStored => PulsesKeepNewest
  <2> SUFFICES ASSUME PulseInv, NEW x \in Filled(newest) \ crossed
               PROVE  \/ newest[x] \in {dirtyMap[x], blobIds[x]}
                      \/ \E p \in Pulsers : pulser[p].held[x] = newest[x]
    BY DEF PulsesKeepNewest, NewestNotDropped
  <2>1. x \in Tensors \ crossed /\ Accounted(x)
    BY DEF PulseInv, Filled
  <2> QED
    BY <2>1 DEF Accounted
<1> QED
  BY <1>1, <1>2, <1>3, PTL DEF PulsarSpec

----------------------------------------------------------------------------
(* VeinPrefetcher.                                                           *)

IdMaps == [Wanted -> Editions \cup {Missing}]
Tasks == {"unborn", "check", "get", "look", "load", "fetch", "gone"}
Task == [pc : Tasks, request : SUBSET Wanted, ids : IdMaps]

QueueEntries == (SUBSET Wanted) \cup {Sentinel}

VeinTypes ==
  /\ editions \in [Wanted -> Editions] /\ veinCache \in IdMaps
  /\ reader.pc \in {"idle", "sentinel", "fetch"} /\ reader.ids \in IdMaps
  /\ loader \in [Loaders -> Task]
  /\ requests \in Seq(QueueEntries)

(* What is cached of a cluster, or about to be, is its newest id.                  *)
Current(x) ==
  /\ veinCache[x] \in {Missing, editions[x]}
  /\ reader.ids[x] \in {Missing, editions[x]}
  /\ \A w \in Loaders : loader[w].ids[x] \in {Missing, editions[x]}

CurrentInv == \A x \in Wanted \ superseded : Current(x)

Serving(w) == loader[w].pc \notin {"unborn", "gone"}

(* While the prefetcher runs nobody puts a sentinel, and unless the start found one *)
(* there is none in the queue for a thread to end on.                            *)
ServedInv ==
  flowing =>
    /\ reader.pc # "sentinel"
    /\ leftover \/ ((\A i \in 1..Len(requests) : requests[i] # Sentinel) /\ \E w \in Loaders : Serving(w))

VeinInv == VeinTypes /\ CurrentInv /\ ServedInv

LoaderTurn(w) ==
  \/ CheckRunning(w) \/ GetRequest(w) \/ GetTimesOut(w) \/ LookUpIds(w)
  \/ InsertWanted(w) \/ LoadFails(w) \/ RequestDone(w) \/ \E x \in Wanted : PickWanted(w, x)

(* What a turn of thread w may do, t being what the thread does then.              *)
Turned(w, t) ==
  /\ loader' = [loader EXCEPT ![w] = t]
  /\ \A x \in Wanted : t.ids[x] \in {Missing, loader[w].ids[x], editions[x]}
  /\ veinCache' \in IdMaps
  /\ \A x \in Wanted : veinCache'[x] \in {veinCache[x], loader[w].ids[x]}
  /\ requests' = requests \/ (requests # <<>> /\ requests' = Tail(requests))
  /\ t.pc \in {"unborn", "gone"} => ~ flowing \/ (requests # <<>> /\ Head(requests) = Sentinel)
  /\ UNCHANGED <<flowing, reader, editions, superseded, leftover>>

(* Taking from the queue, and adding to it, brings no sentinel that was not there.   *)
LEMMA TakeEntry ==
  ASSUME NEW s \in Seq(QueueEntries), s # <<>>
  PROVE  /\ Tail(s) \in Seq(QueueEntries) /\ Head(s) \in QueueEntries
         /\ (\A i \in 1..Len(s) : s[i] # Sentinel)
              => Head(s) # Sentinel /\ \A i \in 1..Len(Tail(s)) : Tail(s)[i] # Sentinel
<1>1. Len(s) \in Nat \ {0} /\ Head(s) = s[1] /\ s[1] \in QueueEntries
  OBVIOUS
<1>2. Tail(s) \in Seq(QueueEntries) /\ Len(Tail(s)) = Len(s) - 1 /\ \A i \in 1..Len(s) - 1 : Tail(s)[i] = s[i + 1]
  OBVIOUS
<1> QED
  BY <1>1, <1>2

LEMMA AddEntry ==
  ASSUME NEW s \in Seq(QueueEntries), NEW e \in QueueEntries
  PROVE  /\ Append(s, e) \in Seq(QueueEntries)
         /\ (\A i \in 1..Len(s) : s[i] # Sentinel) /\ e # Sentinel
              => \A i \in 1..Len(Append(s, e)) : Append(s, e)[i] # Sentinel
OBVIOUS

(* A thread that is put somewhere by Stage has looked nothing up.                   *)
LEMMA IdleTask ==
  ASSUME NEW pc \in Tasks
  PROVE  /\ Stage(pc) \in Task /\ Stage(pc).pc = pc
         /\ \A x \in Wanted : Stage(pc).ids[x] = Missing
BY DEF Stage, Task, NoIds, IdMaps

(* A thread ends only when it sees the stop or takes the sentinel.                  *)
LEMMA TurnsAllowed ==
  ASSUME VeinTypes, NEW w \in Loaders, LoaderTurn(w)
  PROVE  \E t \in Task : Turned(w, t)
<1>a. loader \in [Loaders -> Task] /\ loader[w] \in Task /\ veinCache \in IdMaps /\ editions \in [Wanted -> Editions]
  BY DEF VeinTypes
<1>b. \A pc \in {"check", "get", "gone"} : pc \in Tasks
  BY DEF Tasks
<1>c. ASSUME UNCHANGED <<requests, veinCache>>, UNCHANGED <<flowing, reader, editions, superseded, leftover>>,
             NEW t \in Task, loader' = [loader EXCEPT ![w] = t],
             \A x \in Wanted : t.ids[x] \in {Missing, loader[w].ids[x], editions[x]},
             t.pc \in {"unborn", "gone"} => ~ flowing
      PROVE  Turned(w, t)
  BY <1>a, <1>c DEF Turned
<1>1. CASE CheckRunning(w)
  <2>1. PICK pc \in {"get", "gone"} : Moves(w, pc) /\ (pc = "gone" => ~ flowing)
    BY <1>1 DEF CheckRunning
  <2>2. Stage(pc) \in Task /\ Stage(pc).pc = pc /\ \A x \in Wanted : Stage(pc).ids[x] = Missing
    BY <1>b, IdleTask
  <2>3. UNCHANGED <<requests, veinCache>> /\ UNCHANGED <<flowing, reader, editions, superseded, leftover>>
    BY <1>1 DEF CheckRunning, veinHistory
  <2>4. Turned(w, Stage(pc))
    BY <1>c, <2>1, <2>2, <2>3 DEF Moves
  <2> QED
    BY <2>2, <2>4
<1>2. CASE GetRequest(w) /\ Head(requests) = Sentinel
  <2>1. Turned(w, Stage("gone"))
    BY <1>2, <1>a, <1>b, IdleTask DEF GetRequest, Turned, veinHistory
  <2> QED
    BY <1>b, <2>1, IdleTask
<1>3. CASE GetRequest(w) /\ Head(requests) # Sentinel
  <2> DEFINE t == [Stage("look") EXCEPT !.request = Head(requests)]
  <2>1. requests # <<>> /\ requests \in Seq(QueueEntries)
    BY <1>3 DEF GetRequest, VeinTypes
  <2>2. Head(requests) \in SUBSET Wanted
    BY <1>3, <2>1, TakeEntry DEF QueueEntries
  <2>3. t \in Task /\ t.pc = "look" /\ \A x \in Wanted : t.ids[x] = Missing
    BY <2>2 DEF Stage, Task, Tasks, NoIds, IdMaps
  <2>4. Turned(w, t)
    BY <1>3, <1>a, <2>1, <2>3 DEF GetRequest, Turned, veinHistory
  <2> QED
    BY <2>3, <2>4
<1>4. CASE GetTimesOut(w) \/ LoadFails(w) \/ RequestDone(w)
  <2>1. Stage("check") \in Task /\ Stage("check").pc = "check" /\ \A x \in Wanted : Stage("check").ids[x] = Missing
    BY <1>b, IdleTask
  <2>2. UNCHANGED <<requests, veinCache>> /\ UNCHANGED <<flowing, reader, editions, superseded, leftover>>
        /\ loader' = [loader EXCEPT ![w] = Stage("check")]
    BY <1>4 DEF GetTimesOut, LoadFails, RequestDone, Moves, veinHistory
  <2>3. Turned(w, Stage("check"))
    BY <1>c, <2>1, <2>2
  <2> QED
    BY <2>1, <2>3
<1>5. CASE LookUpIds(w)
  <2> DEFINE found == [x \in Wanted |-> IF x \in loader[w].request /\ veinCache[x] = Missing
                                          THEN editions[x] ELSE Missing]
             t == [Stage("load") EXCEPT !.ids = found]
  <2>1. t \in Task /\ t.pc = "load" /\ t.ids = found
    BY <1>a DEF Stage, Task, Tasks, NoIds, IdMaps
  <2>2. loader' = [loader EXCEPT ![w] = t]
    BY <1>5 DEF LookUpIds
  <2>3. UNCHANGED <<requests, veinCache>> /\ UNCHANGED <<flowing, reader, editions, superseded, leftover>>
    BY <1>5 DEF LookUpIds, veinHistory
  <2>4. \A x \in Wanted : t.ids[x] \in {Missing, loader[w].ids[x], editions[x]}
    BY <2>1
  <2> HIDE DEF t
  <2>5. Turned(w, t)
    BY <1>c, <2>1, <2>2, <2>3, <2>4
  <2> QED
    BY <2>1, <2>5
<1>6. ASSUME NEW y \in Wanted, PickWanted(w, y) PROVE \E t \in Task : Turned(w, t)
  <2> DEFINE t == [loader[w] EXCEPT !.pc = "fetch", !.request = {y}]
  <2>1. t \in Task /\ t.pc = "fetch" /\ t.ids = loader[w].ids
    BY <1>a DEF Task, Tasks
  <2>2. loader' = [loader EXCEPT ![w] = t]
    BY <1>6, <1>a DEF PickWanted, Task
  <2>3. UNCHANGED <<requests, veinCache>> /\ UNCHANGED <<flowing, reader, editions, superseded, leftover>>
    BY <1>6 DEF PickWanted, veinHistory
  <2> HIDE DEF t
  <2>4. Turned(w, t)
    BY <1>c, <2>1, <2>2, <2>3
  <2> QED
    BY <2>1, <2>4
<1>7. CASE InsertWanted(w)
  <2> DEFINE rest == [x \in Wanted |-> IF x \in loader[w].request THEN Missing ELSE loader[w].ids[x]]
             t == [loader[w] EXCEPT !.pc = "load", !.request = {}, !.ids = rest]
  <2>1. rest \in IdMaps /\ t \in Task /\ t.pc = "load" /\ t.ids = rest
    BY <1>a DEF Task, Tasks, IdMaps
  <2>2. loader' = [loader EXCEPT ![w] = t]
    BY <1>7, <1>a DEF InsertWanted, Task
  <2>3. veinCache' \in IdMaps /\ \A x \in Wanted : veinCache'[x] \in {veinCache[x], loader[w].ids[x]}
    BY <1>7, <1>a DEF InsertWanted, Task, IdMaps
  <2>4. UNCHANGED <<requests, flowing, reader, editions, superseded, leftover>>
    BY <1>7 DEF InsertWanted, veinHistory
  <2>5. \A x \in Wanted : t.ids[x] \in {Missing, loader[w].ids[x], editions[x]}
    BY <2>1
  <2> HIDE DEF t
  <2>6. Turned(w, t)
    BY <2>1, <2>2, <2>3, <2>4, <2>5 DEF Turned
  <2> QED
    BY <2>1, <2>6
<1> QED
  BY <1>1, <1>2, <1>3, <1>4, <1>5, <1>6, <1>7 DEF LoaderTurn

(* The turns of the threads.                                                  *)
LEMMA LoaderKeeps ==
  ASSUME VeinInv, NEW w \in Loaders, LoaderTurn(w)
  PROVE  VeinInv'
<1>1. PICK t \in Task : Turned(w, t)
  BY TurnsAllowed DEF VeinInv
<1>2. /\ loader' \in [Loaders -> Task]
      /\ loader'[w] = t /\ \A v \in Loaders \ {w} : loader'[v] = loader[v]
  BY <1>1 DEF Turned, VeinInv, VeinTypes
<1>3. requests \in Seq(QueueEntries) /\ requests' \in Seq(QueueEntries)
  BY <1>1, TakeEntry DEF Turned, VeinInv, VeinTypes
<1>4. VeinTypes'
  BY <1>1, <1>2, <1>3 DEF Turned, VeinInv, VeinTypes, Sentinel
<1>5. CurrentInv'
  BY <1>1, <1>2 DEF Turned, VeinInv, CurrentInv, Current
<1>6. ServedInv'
  <2> SUFFICES ASSUME flowing, ~ leftover
               PROVE  (\A i \in 1..Len(requests') : requests'[i] # Sentinel) /\ \E v \in Loaders : Serving(v)'
    BY <1>1 DEF Turned, VeinInv, ServedInv, Sentinel
  <2>1. (\A i \in 1..Len(requests) : requests[i] # Sentinel) /\ \E v \in Loaders : Serving(v)
    BY DEF VeinInv, ServedInv
  <2>2. \A i \in 1..Len(requests') : requests'[i] # Sentinel
    BY <1>1, <1>3, <2>1, TakeEntry DEF Turned
  <2>3. requests # <<>> => Head(requests) # Sentinel
    BY <1>3, <2>1, TakeEntry
  <2>4. t.pc \notin {"unborn", "gone"}
    BY <1>1, <2>3 DEF Turned
  <2> QED
    BY <1>2, <2>2, <2>4 DEF Serving
<1> QED
  BY <1>4, <1>5, <1>6 DEF VeinInv

(* start: the thread it makes will look for requests.                            *)
LEMMA StartKeeps ==
  ASSUME VeinInv, NEW w \in Loaders, StartVein(w)
  PROVE  VeinInv'
<1> USE DEF StartVein
<1>1. /\ loader' \in [Loaders -> Task]
      /\ loader'[w] = Stage("check") /\ \A v \in Loaders \ {w} : loader'[v] = loader[v]
  BY IdleTask DEF Moves, VeinInv, VeinTypes, Tasks
<1>2. Stage("check").pc = "check" /\ \A x \in Wanted : Stage("check").ids[x] = Missing
  BY IdleTask DEF Tasks
<1>3. requests \in Seq(QueueEntries)
  BY DEF VeinInv, VeinTypes
<1>4. VeinTypes'
  BY <1>1 DEF VeinInv, VeinTypes, Sentinel
<1>5. CurrentInv'
  BY <1>1, <1>2 DEF VeinInv, CurrentInv, Current
<1>6. ServedInv'
  <2>1. leftover' \/ \A i \in 1..Len(requests) : requests[i] # Sentinel
    <3> SUFFICES ASSUME ~ leftover', NEW i \in 1..Len(requests) PROVE requests[i] # Sentinel
      OBVIOUS
    <3>1. Sentinel \notin ToSet(requests)
      BY Zenon
    <3>2. requests[i] \in ToSet(requests)
      BY <1>3 DEF ToSet
    <3> QED
      BY <3>1, <3>2
  <2>2. Serving(w)'
    BY <1>1, <1>2 DEF Serving
  <2> QED
    BY <2>1, <2>2 DEF ServedInv, Sentinel
<1> QED
  BY <1>4, <1>5, <1>6 DEF VeinInv

(* stop, and its sentinel.                                                     *)
LEMMA StopKeeps ==
  ASSUME VeinInv, StopVein \/ PutSentinel
  PROVE  VeinInv'
<1> USE DEF StopVein, PutSentinel
<1>1. reader'.pc \in {"idle", "sentinel"} /\ reader'.ids \in IdMaps /\ \A x \in Wanted : reader'.ids[x] = Missing
  BY DEF Stage, NoIds, IdMaps
<1>2. UNCHANGED <<loader, editions, veinCache, superseded>>
  BY DEF veinHistory
<1>3. requests' \in Seq(QueueEntries)
  <2>1. requests \in Seq(QueueEntries)
    BY DEF VeinInv, VeinTypes
  <2>2. Append(requests, Sentinel) \in Seq(QueueEntries)
    BY <2>1, AddEntry DEF QueueEntries
  <2> QED
    BY <2>1, <2>2
<1>4. VeinTypes'
  BY <1>1, <1>2, <1>3 DEF VeinInv, VeinTypes, Sentinel
<1>5. CurrentInv'
  BY <1>1, <1>2 DEF VeinInv, CurrentInv, Current
<1>6. ~ flowing'
  BY DEF VeinInv, ServedInv
<1> QED
  BY <1>4, <1>5, <1>6 DEF VeinInv, ServedInv

(* A request is a set of clusters, which is not the sentinel.                      *)
LEMMA RequestKeeps ==
  ASSUME VeinInv, NEW clusters \in SUBSET Wanted, RequestPrefetch(clusters)
  PROVE  VeinInv'
<1> USE DEF RequestPrefetch
<1>1. UNCHANGED <<flowing, reader, loader, editions, veinCache, superseded, leftover>>
  BY DEF veinHistory
<1>2. clusters # Sentinel
  BY PrefetchAssumption DEF Sentinel
<1>3. requests \in Seq(QueueEntries)
  BY DEF VeinInv, VeinTypes
<1>4. /\ requests' \in Seq(QueueEntries)
      /\ (\A i \in 1..Len(requests) : requests[i] # Sentinel)
           => \A i \in 1..Len(requests') : requests'[i] # Sentinel
  <2>1. CASE requests' = requests
    BY <1>3, <2>1
  <2>2. CASE requests' = Append(requests, clusters)
    BY <1>2, <1>3, <2>2, AddEntry DEF QueueEntries
  <2> QED
    BY <2>1, <2>2
<1>5. VeinTypes'
  BY <1>1, <1>4 DEF VeinInv, VeinTypes, Sentinel
<1>6. CurrentInv'
  BY <1>1 DEF VeinInv, CurrentInv, Current
<1>7. ServedInv'
  BY <1>1, <1>4 DEF VeinInv, ServedInv, Serving, Sentinel
<1> QED
  BY <1>5, <1>6, <1>7 DEF VeinInv

(* A new id supersedes what is cached or in flight.                              *)
LEMMA UpdateKeeps ==
  ASSUME VeinInv, NEW x \in Wanted, NEW e \in Editions, UpdateBlobId(x, e)
  PROVE  VeinInv'
<1> USE DEF UpdateBlobId
<1>1. editions \in [Wanted -> Editions] /\ editions' = [editions EXCEPT ![x] = e]
  BY DEF VeinInv, VeinTypes
<1>2. VeinTypes'
  BY <1>1 DEF VeinInv, VeinTypes, Sentinel
<1>3. ASSUME NEW y \in Wanted \ superseded' PROVE Current(y)'
  <2>1. y \in Wanted \ superseded /\ Current(y)
    BY DEF VeinInv, CurrentInv
  <2>2. CASE y = x
    <3>1. veinCache[x] = Missing /\ reader.ids[x] = Missing /\ \A w \in Loaders : loader[w].ids[x] = Missing
      BY <2>2 DEF InFlight
    <3> QED
      BY <2>2, <3>1 DEF Current
  <2>3. CASE y # x
    <3>1. editions'[y] = editions[y]
      BY <1>1, <2>3
    <3> QED
      BY <2>1, <3>1 DEF Current
  <2> QED
    BY <2>2, <2>3
<1>4. ServedInv'
  BY DEF VeinInv, ServedInv, Serving, Sentinel
<1> QED
  BY <1>2, <1>3, <1>4 DEF VeinInv, CurrentInv

(* The trainer loads a cluster itself.                                          *)
LEMMA ReadKeeps ==
  ASSUME VeinInv, (\E x \in Wanted : MissCluster(x)) \/ FetchCluster
  PROVE  VeinInv'
<1>a. editions \in [Wanted -> Editions] /\ veinCache \in IdMaps /\ reader.ids \in IdMaps
  BY DEF VeinInv, VeinTypes
<1>1. UNCHANGED <<flowing, requests, loader, editions, superseded, leftover>>
  BY DEF MissCluster, FetchCluster, veinHistory
<1>2. /\ reader'.pc \in {"idle", "fetch"} /\ reader'.ids \in IdMaps
      /\ \A y \in Wanted : reader'.ids[y] \in {Missing, editions[y]}
  <2>1. ASSUME NEW x \in Wanted, MissCluster(x)
        PROVE  /\ reader'.pc = "fetch" /\ reader'.ids = [NoIds EXCEPT ![x] = editions[x]]
    BY <2>1 DEF MissCluster, Stage
  <2>2. ASSUME FetchCluster
        PROVE  reader'.pc = "idle" /\ reader'.ids = NoIds
    BY <2>2 DEF FetchCluster, Stage
  <2> QED
    BY <1>a, <2>1, <2>2 DEF NoIds, IdMaps
<1>3. veinCache' \in IdMaps /\ \A y \in Wanted : veinCache'[y] \in {veinCache[y], reader.ids[y]}
  <2>1. WithFetched(reader.ids) \in IdMaps
        /\ \A y \in Wanted : WithFetched(reader.ids)[y] \in {veinCache[y], reader.ids[y]}
    BY <1>a DEF WithFetched, IdMaps
  <2>2. veinCache' \in {veinCache, WithFetched(reader.ids)}
    BY DEF MissCluster, FetchCluster
  <2> QED
    BY <1>a, <2>1, <2>2
<1>4. VeinTypes'
  BY <1>1, <1>2, <1>3 DEF VeinInv, VeinTypes, Sentinel
<1>5. CurrentInv'
  BY <1>1, <1>2, <1>3 DEF VeinInv, CurrentInv, Current
<1>6. ServedInv'
  BY <1>1, <1>2 DEF VeinInv, ServedInv, Serving, Sentinel
<1> QED
  BY <1>4, <1>5, <1>6 DEF VeinInv

(* Clearing the cache redeems what is not in flight.                              *)
LEMMA ClearKeeps ==
  ASSUME VeinInv, ClearCache
  PROVE  VeinInv'
<1> USE DEF ClearCache
<1>1. NoIds \in IdMaps /\ \A x \in Wanted : NoIds[x] = Missing
  BY DEF NoIds, IdMaps
<1>2. VeinTypes'
  BY <1>1 DEF VeinInv, VeinTypes, Sentinel
<1>3. ASSUME NEW x \in Wanted \ superseded' PROVE Current(x)'
  <2>1. CASE x \in superseded
    BY <1>1, <2>1 DEF InFlight, Current
  <2>2. CASE x \notin superseded
    BY <1>1, <2>2 DEF VeinInv, CurrentInv, Current
  <2> QED
    BY <2>1, <2>2
<1>4. ServedInv'
  BY DEF VeinInv, ServedInv, Serving, Sentinel
<1> QED
  BY <1>2, <1>3, <1>4 DEF VeinInv, CurrentInv

(* Every step of the prefetcher keeps both halves of the invariant.                 *)
LEMMA VeinStep == VeinInv /\ [VeinNext]_veinVars => VeinInv'
<1> SUFFICES ASSUME VeinInv, [VeinNext]_veinVars PROVE VeinInv'
  OBVIOUS
<1>1. ASSUME NEW w \in Loaders, StartVein(w) PROVE VeinInv'
  BY <1>1, StartKeeps
<1>2. CASE StopVein \/ PutSentinel
  BY <1>2, StopKeeps
<1>3. ASSUME NEW clusters \in SUBSET Wanted, RequestPrefetch(clusters) PROVE VeinInv'
  BY <1>3, RequestKeeps
<1>4. ASSUME NEW x \in Wanted, NEW e \in Editions, UpdateBlobId(x, e) PROVE VeinInv'
  BY <1>4, UpdateKeeps
<1>5. CASE FetchCluster
  BY <1>5, ReadKeeps
<1>6. ASSUME NEW x \in Wanted, MissCluster(x) PROVE VeinInv'
  BY <1>6, ReadKeeps
<1>7. CASE ClearCache
  BY <1>7, ClearKeeps
<1>8. ASSUME NEW w \in Loaders, LoaderTurn(w) PROVE VeinInv'
  BY <1>8, LoaderKeeps
<1>9. CASE UNCHANGED veinVars
  BY <1>9 DEF veinVars, veinHistory, VeinInv, VeinTypes, CurrentInv, Current, ServedInv, Serving, Sentinel
<1> QED
  BY <1>1, <1>2, <1>3, <1>4, <1>5, <1>6, <1>7, <1>8, <1>9 DEF VeinNext, LoaderTurn

LEMMA VeinStart == VeinInit => VeinInv
<1> SUFFICES ASSUME VeinInit PROVE VeinInv
  OBVIOUS
<1>1. \A pc \in {"unborn", "idle"} : Stage(pc).pc = pc /\ Stage(pc).ids = NoIds /\ Stage(pc).request = {}
  BY DEF Stage
<1>2. NoIds \in IdMaps /\ \A x \in Wanted : NoIds[x] = Missing
  BY DEF NoIds, IdMaps
<1>3. Stage("unborn") \in Task
  BY IdleTask DEF Tasks
<1>4. VeinTypes
  BY <1>1, <1>2, <1>3 DEF VeinInit, VeinTypes
<1>5. CurrentInv
  BY <1>1, <1>2 DEF VeinInit, CurrentInv, Current
<1>6. ServedInv
  BY DEF VeinInit, ServedInv
<1> QED
  BY <1>4, <1>5, <1>6 DEF VeinInv

(* While the prefetcher runs some thread serves its requests, and what is cached is   *)
(* current, but for what the history variables record.                          *)
THEOREM PrefetcherSound == VeinSpec => []PrefetchSound
<1>1. VeinInv => PrefetchSound
  BY DEF VeinInv, ServedInv, CurrentInv, Current, Serving, PrefetchSound, RequestsServed, CacheCurrent
<1> QED
  BY <1>1, VeinStart, VeinStep, PTL DEF VeinSpec

(* What the state looks like, for SideProofs.  The loop: steps are numbered from    *)
(* one, and the step trained next is never ahead of the steps begun.             *)
StepNumbers == Seq(1..MaxSteps)
Numbers == [Blocks -> StepNumbers]
Working == {"load", "block", "update", "store"}

BoundInv ==
  /\ stepIndex <= stepsBegun /\ saved.step <= stepsBegun /\ stepsBegun <= MaxSteps
  /\ returns \in 0..MaxReturns
  /\ main.pc \in Working => stepsBegun >= 1
  /\ {learned, seen, durable, main.loaded, saved.learned} \subseteq Numbers

LEMMA NoNumbers == NoGradients \in Numbers /\ AtRest.loaded = NoGradients /\ AtRest.pc = "rest"
<1>1. <<>> \in StepNumbers
  BY DEF StepNumbers
<1>2. QED
  BY <1>1 DEF NoGradients, Numbers, AtRest

LEMMA BoundsInit == TrainingInit => BoundInv
<1> SUFFICES ASSUME TrainingInit PROVE BoundInv
  OBVIOUS
<1>1. {learned, seen, durable, main.loaded, saved.learned} \subseteq Numbers
  BY NoNumbers DEF TrainingInit
<1>2. QED
  BY <1>1, NoNumbers, TrainingAssumption DEF TrainingInit, BoundInv, Working

LEMMA BlocksFlushed ==
  ASSUME BoundInv, NEW ks, FlushBlocks(ks)
  PROVE  seen' \in Numbers /\ durable' \in Numbers
BY DEF BoundInv, FlushBlocks, Numbers

LEMMA BlocksStored ==
  ASSUME BoundInv, NEW ks, NEW saves, NEW marked, StoreBlocks(ks, main.loaded, saves, marked)
  PROVE  seen' \in Numbers /\ durable' \in Numbers
<1>1. seen' \in Numbers
  BY DEF BoundInv, StoreBlocks, Numbers
<1>2. durable' \in Numbers
  BY <1>1 DEF BoundInv, StoreBlocks, Numbers
<1>3. QED
  BY <1>1, <1>2

\* A step that begins nothing, updates nothing and does not go back.
LEMMA BoundFrame ==
  ASSUME BoundInv, UNCHANGED <<stepIndex, learned, saved, stepsBegun, returns>>,
         seen' \in Numbers, durable' \in Numbers, main'.loaded \in Numbers,
         main'.pc \in Working => main.pc \in Working
  PROVE  BoundInv'
BY DEF BoundInv, Working

LEMMA BoundsStep ==
  ASSUME TypeInv, BoundInv, [TrainingNext]_trainingVars
  PROVE  BoundInv'
<1> USE DEF stateVars, resumeVars
<1>a. seen \in Numbers /\ durable \in Numbers /\ main.loaded \in Numbers /\ learned \in Numbers
  BY DEF BoundInv
<1>b. main \in MainCall
  BY DEF TypeInv
<1>c. AtRest.loaded \in Numbers /\ AtRest.pc \notin Working
  BY NoNumbers DEF Working
<1>d. ASSUME NEW pc, MainTo(pc)
      PROVE  main'.pc = pc /\ main'.loaded = main.loaded
  BY <1>b, <1>d DEF MainTo, MainCall
<1>1. ASSUME NEW active \in SUBSET Blocks, BeginStep(active) PROVE BoundInv'
  <2>1. main'.loaded = NoGradients
    BY <1>1 DEF BeginStep, AtRest
  <2>2. stepsBegun \in Nat /\ stepIndex \in Nat /\ saved.step \in Nat /\ MaxSteps \in Nat
    BY TrainingAssumption DEF TypeInv, SavedState
  <2>3. stepsBegun' = stepsBegun + 1 /\ stepIndex' = stepIndex + 1 /\ stepsBegun < MaxSteps
        /\ UNCHANGED <<learned, seen, durable, saved, returns>>
    BY <1>1 DEF BeginStep
  <2>4. /\ stepIndex' <= stepsBegun' /\ saved'.step <= stepsBegun' /\ stepsBegun' <= MaxSteps
        /\ stepsBegun' >= 1
    BY <2>2, <2>3 DEF BoundInv
  <2>5. QED
    BY <2>1, <2>3, <2>4, NoNumbers DEF BoundInv
<1>2. CASE LoadStates
  <2>1. /\ main'.loaded = [b \in Blocks |-> IF b \in main.active THEN seen[b] ELSE <<>>] /\ main.pc = "load"
        /\ UNCHANGED <<stepIndex, learned, saved, stepsBegun, returns, seen, durable>>
    BY <1>2, <1>b DEF LoadStates, MainCall, MainAt
  <2>2. main'.loaded \in Numbers
    BY <1>a, <2>1, NoNumbers DEF Numbers, NoGradients, StepNumbers
  <2>3. QED
    BY <1>a, <2>1, <2>2, BoundFrame DEF Working
<1>3. ASSUME NEW b \in Blocks, LoadState(b) PROVE BoundInv'
  <2>1. /\ main'.loaded = [main.loaded EXCEPT ![b] = seen[b]] /\ main.pc = "block"
        /\ UNCHANGED <<stepIndex, learned, saved, stepsBegun, returns, seen, durable>>
    BY <1>3, <1>b DEF LoadState, MainCall, MainAt
  <2>2. main'.loaded \in Numbers
    BY <1>a, <2>1 DEF Numbers
  <2>3. QED
    BY <1>a, <2>1, <2>2, BoundFrame DEF Working
<1>4. ASSUME NEW b \in Blocks, UpdateBlock(b) PROVE BoundInv'
  <2>1. /\ main'.loaded = [main.loaded EXCEPT ![b] = Append(@, stepsBegun)] /\ main.pc \in {"block", "update"}
        /\ UNCHANGED <<stepIndex, saved, stepsBegun, returns, seen, durable>>
        /\ learned' = [learned EXCEPT ![b] = Append(@, stepsBegun)]
    BY <1>4, <1>b DEF UpdateBlock, MainCall, MainAt
  <2>2. stepsBegun \in 1..MaxSteps
    BY <2>1, TrainingAssumption DEF BoundInv, TypeInv, Working
  <2>3. ASSUME NEW f \in Numbers
        PROVE  [f EXCEPT ![b] = Append(@, stepsBegun)] \in Numbers
    <3>1. Append(f[b], stepsBegun) \in StepNumbers
      BY <2>2 DEF Numbers, StepNumbers
    <3>2. QED
      BY <3>1 DEF Numbers
  <2>4. main'.loaded \in Numbers /\ learned' \in Numbers
    BY <1>a, <2>1, <2>3
  <2>5. QED
    BY <2>1, <2>2, <2>4 DEF BoundInv
<1>5. ASSUME NEW ks \in SUBSET Blocks, StoreStates(ks) PROVE BoundInv'
  <2>1. main'.loaded = NoGradients /\ main.pc \in Working /\ UNCHANGED <<stepIndex, learned, saved, stepsBegun, returns>>
    BY <1>5, <1>b DEF StoreStates, Storing, MainCall, MainAt, Working
  <2>2. seen' \in Numbers /\ durable' \in Numbers
    BY <1>5, BlocksStored DEF StoreStates
  <2>3. QED
    BY <2>1, <2>2, NoNumbers, BoundFrame
<1>6. ASSUME NEW ks \in SUBSET Blocks, StoreRaises(ks) PROVE BoundInv'
  <2>1. main' = AtRest /\ UNCHANGED <<stepIndex, learned, saved, stepsBegun, returns>>
    BY <1>6 DEF StoreRaises, Storing
  <2>2. seen' \in Numbers /\ durable' \in Numbers
    BY <1>6, BlocksStored DEF StoreRaises
  <2>3. QED
    BY <1>c, <2>1, <2>2, BoundFrame
<1>7. CASE PinStep
  <2>1. main'.pc = "flush" /\ main'.loaded = main.loaded /\ UNCHANGED <<stepIndex, learned, saved, stepsBegun, returns, seen, durable>>
    BY <1>7, <1>d DEF PinStep
  <2>2. QED
    BY <1>a, <2>1, BoundFrame DEF Working
<1>8. CASE ScheduleFlush
  <2>1. main'.pc = "stale" /\ main'.loaded = main.loaded /\ UNCHANGED <<stepIndex, learned, saved, stepsBegun, returns>>
    BY <1>8, <1>d DEF ScheduleFlush
  <2>2. seen' \in Numbers /\ durable' \in Numbers
    BY <1>8, <1>a, BlocksFlushed DEF ScheduleFlush
  <2>3. QED
    BY <1>a, <2>1, <2>2, BoundFrame DEF Working
<1>9. CASE FlushRaises
  <2>1. main' = AtRest /\ UNCHANGED <<stepIndex, learned, saved, stepsBegun, returns>>
    BY <1>9 DEF FlushRaises
  <2>2. seen' \in Numbers /\ durable' \in Numbers
    BY <1>9, <1>a, BlocksFlushed, BlocksFailTypes DEF FlushRaises
  <2>3. QED
    BY <1>c, <2>1, <2>2, BoundFrame
<1>10. CASE UnpinStale \/ StepRaises \/ CheckpointRaises
  <2>1. main' = AtRest /\ UNCHANGED <<stepIndex, learned, saved, stepsBegun, returns>>
    BY <1>10 DEF UnpinStale, StepRaises, CheckpointRaises
  <2>2. seen' \in Numbers /\ durable' \in Numbers
    BY <1>10, <1>a, BlocksFlushed, FlushFailsTypes DEF UnpinStale, StepRaises, CheckpointRaises
  <2>3. QED
    BY <1>c, <2>1, <2>2, BoundFrame
<1>11. CASE WorkerFlushes
  <2>1. main' = main /\ UNCHANGED <<stepIndex, learned, saved, stepsBegun, returns>>
    BY <1>11 DEF WorkerFlushes
  <2>2. seen' \in Numbers /\ durable' \in Numbers
    BY <1>11, <1>a, BlocksFlushed, BlocksFailTypes DEF WorkerFlushes
  <2>3. QED
    BY <1>a, <2>1, <2>2, BoundFrame
<1>12. CASE BeginCheckpoint
  <2>1. main'.pc = "drain" /\ main'.loaded = main.loaded /\ UNCHANGED <<stepIndex, learned, saved, stepsBegun, returns, seen, durable>>
    BY <1>12, <1>d DEF BeginCheckpoint
  <2>2. QED
    BY <1>a, <2>1, BoundFrame DEF Working
<1>13. CASE DrainFlush
  <2>1. UNCHANGED <<stepIndex, learned, saved, stepsBegun, returns, seen, durable>>
    BY <1>13 DEF DrainFlush
  <2>2. main' = AtRest \/ MainTo("external")
    BY <1>13 DEF DrainFlush
  <2>3. main'.loaded \in Numbers /\ main'.pc \notin Working
    BY <1>a, <1>c, <1>d, <2>2 DEF Working
  <2>4. QED
    BY <1>a, <2>1, <2>3, BoundFrame
<1>14. CASE FlushOrigin
  <2>1. main'.pc = "save" /\ main'.loaded = main.loaded /\ UNCHANGED <<stepIndex, learned, saved, stepsBegun, returns>>
    BY <1>14, <1>d DEF FlushOrigin
  <2>2. seen' \in Numbers /\ durable' \in Numbers
    BY <1>14, BlocksFlushed DEF FlushOrigin
  <2>3. QED
    BY <1>a, <2>1, <2>2, BoundFrame DEF Working
<1>15. CASE SaveTraining
  <2>1. main' = AtRest /\ UNCHANGED <<stepIndex, learned, stepsBegun, returns, seen, durable>>
        /\ saved'.step = stepIndex /\ saved'.learned = learned
    BY <1>15 DEF SaveTraining
  <2>2. QED
    BY <1>a, <1>c, <2>1 DEF BoundInv
<1>16. ASSUME NEW further, NEW lost, GoBack(further, lost), main' = main \/ main' = AtRest, main.pc = "rest" \/ main' = AtRest,
              seen' \in {seen, durable}, durable' = durable
       PROVE  BoundInv'
  <2>1. stepIndex' = saved.step /\ learned' = saved.learned /\ UNCHANGED <<saved, stepsBegun>>
        /\ returns < MaxReturns /\ returns' = returns + 1
    BY <1>16 DEF GoBack
  <2>2. returns' \in 0..MaxReturns
    BY <2>1, TrainingAssumption DEF BoundInv
  <2>3. main'.loaded \in Numbers /\ main'.pc \notin Working
    BY <1>a, <1>c, <1>16 DEF Working
  <2>4. QED
    BY <1>a, <1>16, <2>1, <2>2, <2>3 DEF BoundInv
<1>17. CASE LoadCheckpoint
  <2>1. GoBack(advanced.stored, advanced.lost) /\ main' = main /\ main.pc = "rest" /\ seen' = seen /\ durable' = durable
    BY <1>17 DEF LoadCheckpoint, MainAt
  <2>2. QED
    BY <1>16, <2>1
<1>18. CASE DieAndResume
  <2>1. GoBack(advanced.flushed, advanced.lost \cup advanced.missing) /\ main' = AtRest /\ seen' = durable /\ durable' = durable
    BY <1>18 DEF DieAndResume
  <2>2. QED
    BY <1>16, <2>1
<1>19. CASE LoadRaises \/ UNCHANGED trainingVars
  <2>1. main' = main /\ UNCHANGED <<stepIndex, learned, saved, stepsBegun, returns, seen, durable>>
    BY <1>19 DEF LoadRaises, trainingVars, optimizerVars
  <2>2. QED
    BY <1>a, <2>1, BoundFrame
<1>20. ASSUME NEW b \in Blocks, DropUnsaved(b) PROVE BoundInv'
  <2>1. seen' = [seen EXCEPT ![b] = durable[b]] /\ main' = main
        /\ UNCHANGED <<stepIndex, learned, saved, stepsBegun, returns, durable>>
    BY <1>20 DEF DropUnsaved, optimizerVars
  <2>2. seen' \in Numbers
    BY <1>a, <2>1 DEF Numbers
  <2>3. QED
    BY <1>a, <2>1, <2>2, BoundFrame
<1>21. QED
  BY <1>1, <1>2, <1>3, <1>4, <1>5, <1>6, <1>7, <1>8, <1>9, <1>10, <1>11, <1>12, <1>13, <1>14, <1>15,
     <1>17, <1>18, <1>19, <1>20 DEF TrainingNext

LoopTypes == TypeInv /\ PinInv /\ BoundInv

LEMMA LoopTypesInit == TrainingInit => LoopTypes
BY InitTypes, InitPins, BoundsInit DEF LoopTypes

LEMMA LoopTypesStep == LoopTypes /\ [TrainingNext]_trainingVars => LoopTypes'
BY StepTypes, StepPins, BoundsStep DEF LoopTypes

LEMMA LoopTypesImply == LoopTypes => TrainingTypeOK
<1> SUFFICES ASSUME LoopTypes PROVE TrainingTypeOK
  OBVIOUS
<1>1. stepsBegun \in 0..MaxSteps /\ stepIndex \in 0..MaxSteps /\ returns \in 0..MaxReturns
  BY TrainingAssumption DEF LoopTypes, TypeInv, BoundInv
<1>2. \A moments \in {learned, seen, durable} : \A b \in Blocks : moments[b] \in Seq(1..MaxSteps)
  BY DEF LoopTypes, BoundInv, Numbers, StepNumbers
<1>3. {dirty, pinned, window, previous, ahead, torn, advanced.missing, main.active, main.fresh} \subseteq SUBSET Blocks
  BY DEF LoopTypes, TypeInv, PinInv, MainCall, Advanced
<1>4. QED
  BY <1>1, <1>2, <1>3, Zenon DEF TrainingTypeOK

\* The pulsar: what is stored or was snatched is a cluster with a content.
PulseTypes == PulseInv /\ PulsarTypeOK

LEMMA PulseTypesInit == PulsarInit => PulseTypes
<1> SUFFICES ASSUME PulsarInit PROVE PulseTypes
  OBVIOUS
<1>1. NoTensors \in Maps
  BY DEF NoTensors, Maps
<1>2. \A map \in {dirtyMap, blobIds, named, newest} : map \in [Tensors -> Values \cup {Unset}]
  BY <1>1, Zenon DEF PulsarInit, Maps
<1>3. /\ pulsed \cup snatched \subseteq Tensors \X Values /\ crossed \subseteq Tensors
      /\ marks \in 0..MaxMarks
  BY PulsarAssumption DEF PulsarInit
<1>4. {pulsing, outdated} \subseteq BOOLEAN
  BY DEF PulsarInit
<1>5. QED
  BY <1>2, <1>3, <1>4, PulseInit DEF PulseTypes, PulsarTypeOK

\* Clusters with a content, of a map and of what a pulse replaces.
LEMMA BlobsTyped ==
  ASSUME NEW map \in Maps
  PROVE  BlobsOf(map) \subseteq Tensors \X Values
BY DEF BlobsOf, Filled, Maps

LEMMA ReplaceTyped ==
  ASSUME PulseTypes, NEW p \in Pulsers, NEW gone \in SUBSET Unnamed(p), Replace(p, gone)
  PROVE  pulsed' \cup snatched' \subseteq Tensors \X Values /\ outdated' \in BOOLEAN
<1>1. named \in Maps
  BY DEF PulseTypes, PulseInv, PulserTypes
<1>2. gone \subseteq Tensors \X Values
  BY <1>1, BlobsTyped DEF Unnamed
<1>3. QED
  BY <1>2 DEF Replace, PulseTypes, PulsarTypeOK

LEMMA PulseTypesStep == PulseTypes /\ [PulsarNext]_pulsarVars => PulseTypes'
<1> SUFFICES ASSUME PulseTypes, [PulsarNext]_pulsarVars PROVE PulseTypes'
  OBVIOUS
<1>1. PulseInv'
  BY PulseStep DEF PulseTypes
<1>2. \A map \in {dirtyMap', blobIds', named', newest'} : map \in [Tensors -> Values \cup {Unset}]
  BY <1>1 DEF PulseInv, PulserTypes, Maps
<1> DEFINE Rest ==
             /\ pulsed' \cup snatched' \subseteq Tensors \X Values /\ crossed' \subseteq Tensors
             /\ marks' \in 0..MaxMarks /\ {pulsing', outdated'} \subseteq BOOLEAN
<1>3. /\ pulsed \cup snatched \subseteq Tensors \X Values /\ crossed \subseteq Tensors
      /\ marks \in 0..MaxMarks /\ {pulsing, outdated} \subseteq BOOLEAN
  BY DEF PulseTypes, PulsarTypeOK
<1>4. Rest
  <2>1. ASSUME NEW x \in Tensors, NEW v \in Values, MarkDirty(x, v) PROVE Rest
    <3>1. marks' \in 0..MaxMarks
      BY <1>3, <2>1, PulsarAssumption DEF MarkDirty
    <3>2. QED
      BY <1>3, <2>1, <3>1 DEF MarkDirty
  <2>2. CASE StopPulsar \/ FlushPulsar
    BY <1>3, <2>2 DEF StopPulsar, FlushPulsar, pulseHistory
  <2>3. ASSUME NEW w \in Workers, StartPulsar(w) \/ Wake(w) PROVE Rest
    BY <1>3, <2>3 DEF StartPulsar, Wake, pulseHistory
  <2>4. ASSUME NEW p \in Pulsers, TakeDirty(p) PROVE Rest
    BY <1>3, <2>4 DEF TakeDirty, Filled
  <2>5. ASSUME NEW p \in Pulsers, TakeNothing(p) \/ Exported(p) PROVE Rest
    BY <1>3, <2>5 DEF TakeNothing, Exported, pulseHistory
  <2>6. ASSUME NEW p \in Pulsers, WritePulse(p) PROVE Rest
    <3>1. pulsed' \cup snatched' \subseteq Tensors \X Values /\ outdated' \in BOOLEAN
      BY <2>6, ReplaceTyped DEF WritePulse
    <3>2. QED
      BY <1>3, <2>6, <3>1 DEF WritePulse
  <2>7. ASSUME NEW p \in Pulsers, WriteFails(p) PROVE Rest
    <3>1. pulsed' \cup snatched' \subseteq Tensors \X Values /\ outdated' \in BOOLEAN
      BY <1>3, <2>7, ReplaceTyped DEF WriteFails
    <3>2. QED
      BY <1>3, <2>7, <3>1 DEF WriteFails
  <2>8. ASSUME NEW p \in Pulsers, NEW x \in Tensors, ExportTensor(p, x) PROVE Rest
    <3>1. pulser[p].held \in Maps /\ pulser[p].held[x] # Unset
      BY <2>8 DEF ExportTensor, Holds, PulseTypes, PulseInv, PulserTypes, Pulser
    <3>2. <<x, pulser[p].held[x]>> \in Tensors \X Values
      BY <3>1 DEF Maps
    <3>3. QED
      BY <1>3, <2>8, <3>2 DEF ExportTensor
  <2>9. ASSUME NEW p \in Pulsers, NEW x \in Tensors, ExportFails(p, x) PROVE Rest
    BY <1>3, <2>9 DEF ExportFails
  <2>10. CASE UNCHANGED pulsarVars
    BY <1>3, <2>10 DEF pulsarVars, pulseHistory
  <2>11. QED
    BY <2>1, <2>2, <2>3, <2>4, <2>5, <2>6, <2>7, <2>8, <2>9, <2>10 DEF PulsarNext
<1>5. QED
  BY <1>1, <1>2, <1>4 DEF PulseTypes, PulsarTypeOK

\* The prefetcher: the queue is no longer than it may be.
PrefetchTypes == VeinInv /\ VeinTypeOK

LEMMA PrefetchTypesInit == VeinInit => PrefetchTypes
<1> SUFFICES ASSUME VeinInit PROVE PrefetchTypes
  OBVIOUS
<1>1. NoIds \in IdMaps
  BY DEF NoIds, IdMaps
<1>2. Stage("idle").ids = NoIds
  BY DEF Stage
<1>3. QED
  BY <1>1, <1>2, VeinStart, PrefetchAssumption DEF VeinInit, PrefetchTypes, VeinTypeOK, IdMaps

LEMMA PrefetchTypesStep == PrefetchTypes /\ [VeinNext]_veinVars => PrefetchTypes'
<1> SUFFICES ASSUME PrefetchTypes, [VeinNext]_veinVars PROVE PrefetchTypes'
  OBVIOUS
<1>1. VeinInv'
  BY VeinStep DEF PrefetchTypes
<1>2. \A ids \in {veinCache', reader'.ids} : ids \in [Wanted -> Editions \cup {Missing}]
  BY <1>1 DEF VeinInv, VeinTypes, IdMaps
<1>3. requests \in Seq(QueueEntries) /\ Len(requests) \in Nat /\ Len(requests) <= QueueSize /\ QueueSize \in Nat
      /\ asked \in 0..MaxAsked /\ superseded \subseteq Wanted
  BY PrefetchAssumption DEF PrefetchTypes, VeinTypeOK, VeinInv, VeinTypes
<1>4. ASSUME Ask
      PROVE  asked' \in 0..MaxAsked
  BY <1>3, <1>4, PrefetchAssumption DEF Ask
<1>5. ASSUME NEW e \in QueueEntries, Len(requests) < QueueSize
      PROVE  Len(Append(requests, e)) <= QueueSize
  BY <1>3, <1>5
<1> DEFINE Rest == Len(requests') <= QueueSize /\ asked' \in 0..MaxAsked /\ superseded' \subseteq Wanted
<1>6. Rest
  <2>1. CASE \E w \in Loaders : StartVein(w)
    BY <1>3, <2>1 DEF StartVein
  <2>2. CASE StopVein \/ FetchCluster \/ ClearCache
    BY <1>3, <2>2 DEF StopVein, FetchCluster, ClearCache, veinHistory
  <2>3. CASE PutSentinel
    BY <1>3, <1>5, <2>3 DEF PutSentinel, QueueEntries, veinHistory
  <2>4. ASSUME NEW clusters \in SUBSET Wanted, RequestPrefetch(clusters) PROVE Rest
    BY <1>3, <1>4, <1>5, <2>4 DEF RequestPrefetch, QueueEntries, veinHistory
  <2>5. ASSUME NEW x \in Wanted, NEW e \in Editions, UpdateBlobId(x, e) PROVE Rest
    BY <1>3, <1>4, <2>5 DEF UpdateBlobId
  <2>6. CASE \E x \in Wanted : MissCluster(x)
    BY <1>3, <2>6 DEF MissCluster, veinHistory
  <2>7. ASSUME NEW w \in Loaders, GetRequest(w) PROVE Rest
    <3>1. requests # <<>> /\ requests' = Tail(requests)
      BY <2>7 DEF GetRequest
    <3>2. Len(Tail(requests)) = Len(requests) - 1
      BY <1>3, <3>1
    <3>3. Len(requests') <= QueueSize
      BY <1>3, <3>1, <3>2
    <3>4. QED
      BY <1>3, <2>7, <3>3 DEF GetRequest, veinHistory
  <2>8. ASSUME NEW w \in Loaders,
               \/ CheckRunning(w) \/ GetTimesOut(w) \/ LookUpIds(w) \/ InsertWanted(w)
               \/ LoadFails(w) \/ RequestDone(w) \/ \E x \in Wanted : PickWanted(w, x)
        PROVE  Rest
    BY <1>3, <2>8 DEF CheckRunning, GetTimesOut, LookUpIds, InsertWanted, LoadFails, RequestDone,
       PickWanted, veinHistory
  <2>9. CASE UNCHANGED veinVars
    BY <1>3, <2>9 DEF veinVars, veinHistory
  <2>10. QED
    BY <2>1, <2>2, <2>3, <2>4, <2>5, <2>6, <2>7, <2>8, <2>9 DEF VeinNext
<1>7. QED
  BY <1>1, <1>2, <1>6 DEF PrefetchTypes, VeinTypeOK
=============================================================================
