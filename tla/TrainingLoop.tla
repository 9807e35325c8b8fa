----------------------------- MODULE TrainingLoop -----------------------------
(***************************************************************************)
(* SODLAdamW: an optimizer whose moments live, block by block, in the         *)
(* optimizer-state store, while the weights they belong to are in the memory  *)
(* of the training process and in its checkpoints.  A step loads the moments  *)
(* of the blocks that have gradients, updates the weights, stores the moments, *)
(* moves the window of pinned blocks and from time to time flushes, possibly   *)
(* through a worker thread.  The process may die between any two calls.      *)
(*                                                                         *)
(* The store is what OptimizerState makes of it, as this one thread and its       *)
(* worker see it: what a load returns, what a restart finds, the threshold at   *)
(* which it flushes by itself, and what a flush that fails leaves behind.  A     *)
(* call is one step, since it keeps the interpreter lock.                      *)
(* Weights and moments are given by the gradients that went into them, and a   *)
(* gradient by the step it was made for, numbered across restarts.           *)
(***************************************************************************)
EXTENDS Naturals, Sequences, FiniteSets, SequencesExt

CONSTANTS
  BlockCount,        \* blocks of the layout, in its order
  FlushEvery,        \* flush_every
  Lookahead,         \* prefetch_lookahead
  WriteThreshold,    \* writeback_threshold of the store
  MaxSteps,          \* bound: steps begun
  MaxReturns         \* bound: times training goes back to its checkpoint

ASSUME TrainingAssumption ==
  /\ {BlockCount, Lookahead, MaxSteps, MaxReturns} \subseteq Nat
  /\ {FlushEvery, WriteThreshold} \subseteq Nat \ {0}

VARIABLES
  options,    \* async_writeback and use_batch_state_ops
  stepIndex,  \* _step_index
  learned,    \* weights of each block
  seen,       \* moments of each block, as a load returns them
  durable,    \* and as a restart finds them
  dirty,      \* blocks not flushed
  pinned,     \* blocks pinned in the store
  window,     \* _pinned_window
  previous,   \* _previous_step_blocks
  flushJob,   \* _pending_flush
  main,       \* how far the call of the training thread is
  saved,      \* the last checkpoint: weights, step, and the histories below
  stepsBegun, \* history: steps begun, for the bound and to number gradients
  returns,    \* bound counter
  advanced,   \* history: blocks stored, and flushed, since that checkpoint, those
              \* it is missing moments of on disk, and those of them lost since
  ahead,      \* history: blocks with such moments when training went back to it
  torn        \* history: blocks whose moments lack a gradient of their weights

optimizerVars == <<stepIndex, learned, window, previous, flushJob, main>>
stateVars == <<seen, durable, dirty, pinned>>
resumeVars == <<saved, stepsBegun, returns, advanced, ahead, torn>>
trainingVars == <<options, optimizerVars, stateVars, resumeVars>>

Blocks == 1..BlockCount
NoGradients == [b \in Blocks |-> <<>>]
NoJob == [at |-> "none", blocks |-> {}]
\* fresh: blocks updated and not yet stored.
AtRest == [pc |-> "rest", active |-> {}, todo |-> {}, fresh |-> {}, loaded |-> NoGradients]

TrainingInit ==
  /\ options \in [async : BOOLEAN, batch : BOOLEAN]
  /\ stepIndex = 0 /\ learned = NoGradients
  /\ seen = NoGradients /\ durable = NoGradients /\ dirty = {} /\ pinned = {}
  /\ window = {} /\ previous = {} /\ flushJob = NoJob /\ main = AtRest
  /\ saved = [step |-> 0, learned |-> NoGradients, ahead |-> {}, torn |-> {}]
  /\ stepsBegun = 0 /\ returns = 0
  /\ advanced = [stored |-> {}, flushed |-> {}, missing |-> {}, lost |-> {}]
  /\ ahead = {} /\ torn = {}

MainAt(pc) == main.pc = pc
MainTo(pc) == main' = [main EXCEPT !.pc = pc]

----------------------------------------------------------------------------
(* The store.  A flush saves the dirty blocks among those it is asked for, as    *)
(* the cache holds them when it runs.                                         *)
FlushBlocks(ks) ==
  LET saves == ks \cap dirty
  IN  /\ durable' = [b \in Blocks |-> IF b \in saves THEN seen[b] ELSE durable[b]]
      /\ dirty' = dirty \ ks
      /\ advanced' = [advanced EXCEPT !.flushed = @ \cup (saves \cap advanced.stored),
                                      !.missing = @ \ saves]
      /\ UNCHANGED <<seen, pinned>>

(* flush_keys marks block after block clean, and saves the manifest when it has   *)
(* been through all of them: a flush that fails leaves some blocks clean and     *)
(* saved nowhere.  No later flush looks at them, until they are stored again.    *)
FlushFails(ks, marked) ==
  /\ marked \subseteq ks \cap dirty
  /\ dirty' = dirty \ marked
  /\ UNCHANGED <<seen, durable, pinned, advanced>>

(* flush_blocks goes through them in the order it is given.                    *)
FlushBlocksFails(ks) == \E n \in 0..BlockCount : FlushFails(ks, {b \in ks \cap dirty : b <= n})

Unsaved == {b \in Blocks \ dirty : seen[b] # durable[b]}

(* A call that brings the cache back to its capacity, or evicts, may take any      *)
(* clean block that is not pinned; only of an unsaved one does it show.          *)
DropUnsaved(b) ==
  /\ b \in Unsaved \ pinned
  /\ seen' = [seen EXCEPT ![b] = durable[b]]
  /\ torn' = torn \cup {b}
  /\ advanced' = [advanced EXCEPT !.stored = @ \ ({b} \ advanced.flushed),
                                  !.missing = @ \ {b}, !.lost = @ \cup ({b} \cap advanced.missing)]
  /\ UNCHANGED <<options, optimizerVars, durable, dirty, pinned, saved, stepsBegun, returns, ahead>>

(* A store of blocks flushes the origin once WriteThreshold of them are dirty.  *)
SavedWith(ks) ==
  IF ks # {} /\ Cardinality(dirty \cup ks) >= WriteThreshold THEN dirty \cup ks ELSE {}

StoreBlocks(ks, moments, saves, marked) ==
  LET stored == advanced.stored \cup ks
  IN  /\ seen' = [b \in Blocks |-> IF b \in ks THEN moments[b] ELSE seen[b]]
      /\ durable' = [b \in Blocks |-> IF b \in saves THEN seen'[b] ELSE durable[b]]
      /\ dirty' = (dirty \cup ks) \ marked
      /\ advanced' = [advanced EXCEPT !.stored = stored, !.flushed = @ \cup (saves \cap stored),
                                      !.missing = @ \ saves]
      /\ UNCHANGED pinned

----------------------------------------------------------------------------
(* step(): the blocks with gradients are worked through in their order, with   *)
(* one load and one store for all of them, or one of each for every block.    *)
BeginStep(active) ==
  /\ MainAt("rest") /\ stepsBegun < MaxSteps
  /\ stepsBegun' = stepsBegun + 1
  /\ stepIndex' = stepIndex + 1
  /\ main' = [AtRest EXCEPT !.pc = IF options.batch THEN "load" ELSE "block", !.active = active, !.todo = active]
  /\ UNCHANGED <<options, learned, window, previous, flushJob, stateVars, saved, returns, advanced, ahead, torn>>

LoadStates ==
  /\ MainAt("load")
  /\ main' = [main EXCEPT !.pc = "block",
                          !.loaded = [b \in Blocks |-> IF b \in main.active THEN seen[b] ELSE <<>>]]
  /\ UNCHANGED <<options, stepIndex, learned, window, previous, flushJob, stateVars, resumeVars>>

First(b) == b \in main.todo /\ \A c \in main.todo : b <= c

LoadState(b) ==
  /\ MainAt("block") /\ ~ options.batch /\ First(b)
  /\ main' = [main EXCEPT !.pc = "update", !.loaded[b] = seen[b]]
  /\ UNCHANGED <<options, stepIndex, learned, window, previous, flushJob, stateVars, resumeVars>>

(* The update happens in the weights at once, and in a copy of the moments.   *)
UpdateBlock(b) ==
  /\ MainAt(IF options.batch THEN "block" ELSE "update") /\ First(b)
  /\ learned' = [learned EXCEPT ![b] = Append(@, stepsBegun)]
  /\ main' = [main EXCEPT !.pc = IF options.batch THEN "block" ELSE "store",
                          !.loaded[b] = Append(@, stepsBegun), !.todo = @ \ {b},
                          !.fresh = @ \cup {b}]
  /\ UNCHANGED <<options, stepIndex, window, previous, flushJob, stateVars, resumeVars>>

(* Storing ends the loop, or the turn of a block.                            *)
Storing(ks) ==
  /\ MainAt(IF options.batch THEN "block" ELSE "store")
  /\ options.batch => main.todo = {}
  /\ ks = IF options.batch THEN main.active ELSE main.fresh
  /\ UNCHANGED <<options, stepIndex, learned, window, previous, flushJob, saved, stepsBegun, returns, ahead, torn>>

StoreStates(ks) ==
  /\ Storing(ks)
  /\ StoreBlocks(ks, main.loaded, SavedWith(ks), SavedWith(ks))
  /\ main' = [main EXCEPT !.pc = IF main.todo = {} THEN "pin" ELSE "block",
                          !.fresh = {}, !.loaded = NoGradients]

(* The blocks are staged, but the flush of the origin they are due fails, in an     *)
(* order of blocks that is the cache's, at the manifest, or after it.           *)
StoreRaises(ks) ==
  /\ Storing(ks)
  /\ SavedWith(ks) # {}
  /\ \/ \E marked \in SUBSET SavedWith(ks) : StoreBlocks(ks, main.loaded, {}, marked)
     \/ StoreBlocks(ks, main.loaded, SavedWith(ks), SavedWith(ks))
  /\ main' = AtRest

(* The first blocks of the step stay pinned for the next one.                 *)
PinLimit == IF Lookahead > 1 THEN Lookahead ELSE 1

PinTarget(touched) ==
  {b \in touched : Cardinality({c \in touched : c < b}) < PinLimit}

UpdatePinWindow(touched) ==
  /\ pinned' = (pinned \ (window \ PinTarget(touched))) \cup (PinTarget(touched) \ window)
  /\ window' = PinTarget(touched)

PinStep ==
  /\ MainAt("pin") \/ (MainAt("block") /\ ~ options.batch /\ main.active = {})
  /\ UpdatePinWindow(main.active)
  /\ MainTo("flush")
  /\ UNCHANGED <<options, stepIndex, learned, previous, flushJob, seen, durable, dirty, resumeVars>>

FlushDue == main.active # {} /\ stepIndex % FlushEvery = 0

(* _schedule_flush waits for the flush before, which may have failed.          *)
ScheduleFlush ==
  /\ MainAt("flush")
  /\ MainTo("stale")
  /\ \/ ~ FlushDue /\ UNCHANGED <<flushJob, stateVars, advanced>>
     \/ /\ FlushDue /\ options.async /\ flushJob.at \in {"none", "done"}
        /\ flushJob' = [at |-> "queued", blocks |-> main.active]
        /\ UNCHANGED <<stateVars, advanced>>
     \/ /\ FlushDue /\ ~ options.async
        /\ FlushBlocks(main.active)
        /\ UNCHANGED flushJob
  /\ UNCHANGED <<options, stepIndex, learned, window, previous, saved, stepsBegun, returns, ahead, torn>>

(* If the flush before has failed, this step raises, and flushes nothing.  A     *)
(* flush of its own may fail before the manifest is saved, or after.           *)
FlushRaises ==
  /\ MainAt("flush") /\ FlushDue
  /\ main' = AtRest
  /\ flushJob' = NoJob
  /\ \/ flushJob.at = "failed" /\ UNCHANGED <<stateVars, advanced>>
     \/ ~ options.async /\ FlushBlocksFails(main.active)
     \/ ~ options.async /\ FlushBlocks(main.active)
  /\ UNCHANGED <<options, stepIndex, learned, window, previous, saved, stepsBegun, returns, ahead, torn>>

(* The last part of a step unpins what the step before touched and this one     *)
(* did not.                                                                 *)
StaleBlocks == previous \ main.active

UnpinStale ==
  /\ MainAt("stale")
  /\ pinned' = pinned \ StaleBlocks
  /\ previous' = main.active
  /\ main' = AtRest
  /\ UNCHANGED <<options, stepIndex, learned, window, flushJob, seen, durable, dirty, resumeVars>>

(* A load fails, or a gradient is sparse: the step raises, and leaves           *)
(* everything as far as it has come.                                          *)
StepRaises ==
  /\ main.pc \in {"load", "block", "update", "store"}
  /\ torn' = torn \cup main.fresh
  /\ main' = AtRest
  /\ UNCHANGED <<options, stepIndex, learned, window, previous, flushJob, stateVars, saved, stepsBegun, returns, advanced, ahead>>

(* The worker thread runs the flush when it comes to it.  A flush that fails     *)
(* may have saved the manifest before.                                       *)
WorkerFlushes ==
  /\ flushJob.at = "queued"
  /\ \/ FlushBlocks(flushJob.blocks) /\ flushJob' \in {[flushJob EXCEPT !.at = at] : at \in {"done", "failed"}}
     \/ FlushBlocksFails(flushJob.blocks) /\ flushJob' = [flushJob EXCEPT !.at = "failed"]
  /\ UNCHANGED <<options, stepIndex, learned, window, previous, main, saved, stepsBegun, returns, ahead, torn>>

----------------------------------------------------------------------------
(* save_checkpoint: external_state_dict waits for the worker and flushes the     *)
(* origin, then the weights are saved with the step it has come to.             *)
BeginCheckpoint ==
  /\ MainAt("rest")
  /\ MainTo("drain")
  /\ UNCHANGED <<options, stepIndex, learned, window, previous, flushJob, stateVars, resumeVars>>

DrainFlush ==
  /\ MainAt("drain") /\ flushJob.at # "queued"
  /\ flushJob' = NoJob
  /\ IF flushJob.at = "failed" THEN main' = AtRest ELSE MainTo("external")
  /\ UNCHANGED <<options, stepIndex, learned, window, previous, stateVars, resumeVars>>

\* A fault: what the last step has touched is flushed, not the origin.
FlushOrigin_Fault ==
  /\ MainAt("external")
  /\ FlushBlocks(previous)
  /\ MainTo("save")
  /\ UNCHANGED <<options, stepIndex, learned, window, previous, flushJob, saved, stepsBegun, returns, ahead, torn>>

FlushOrigin ==
  /\ MainAt("external")
  /\ FlushBlocks(Blocks)
  /\ MainTo("save")
  /\ UNCHANGED <<options, stepIndex, learned, window, previous, flushJob, saved, stepsBegun, returns, ahead, torn>>

SaveTraining ==
  /\ MainAt("save")
  /\ saved' = [step |-> stepIndex, learned |-> learned, ahead |-> ahead, torn |-> torn]
  /\ advanced' = [stored |-> {}, flushed |-> {}, missing |-> Unsaved, lost |-> {}]
  /\ main' = AtRest
  /\ UNCHANGED <<options, stepIndex, learned, window, previous, flushJob, stateVars, stepsBegun, returns, ahead, torn>>

(* The flush fails, or the file cannot be written.                           *)
CheckpointRaises ==
  /\ \/ MainAt("external") /\ \E marked \in SUBSET dirty : FlushFails(Blocks, marked)
     \/ MainAt("external") /\ FlushBlocks(Blocks)
     \/ MainAt("save") /\ UNCHANGED <<stateVars, advanced>>
  /\ main' = AtRest
  /\ UNCHANGED <<options, stepIndex, learned, window, previous, flushJob, saved, stepsBegun, returns, ahead, torn>>

(* load_state_dict sets the step back and unpins the window, and asks the store   *)
(* for nothing: the moments stay as they are there.                            *)
GoBack(further, lost) ==
  /\ returns < MaxReturns /\ returns' = returns + 1
  /\ stepIndex' = saved.step /\ learned' = saved.learned
  /\ ahead' = saved.ahead \cup further /\ torn' = saved.torn \cup lost
  /\ window' = {}
  /\ UNCHANGED <<options, saved, stepsBegun>>

(* In the same process, once the worker is done.                             *)
LoadCheckpoint ==
  /\ MainAt("rest") /\ flushJob.at \in {"none", "done"}
  /\ GoBack(advanced.stored, advanced.lost)
  /\ flushJob' = NoJob
  /\ pinned' = pinned \ window
  /\ UNCHANGED <<main, previous, seen, durable, dirty, advanced>>

(* It raises when the last flush has failed, and can be called again.          *)
LoadRaises ==
  /\ MainAt("rest") /\ flushJob.at = "failed"
  /\ flushJob' = NoJob
  /\ UNCHANGED <<options, stepIndex, learned, window, previous, main, stateVars, resumeVars>>

(* The process dies, and another one takes up the training.                   *)
DieAndResume ==
  /\ GoBack(advanced.flushed, advanced.lost \cup advanced.missing)
  /\ seen' = durable /\ dirty' = {} /\ pinned' = {}
  /\ previous' = {} /\ flushJob' = NoJob /\ main' = AtRest
  /\ advanced' = [advanced EXCEPT !.stored = @ \cap advanced.flushed,
                                  !.missing = {}, !.lost = @ \cup advanced.missing]
  /\ UNCHANGED durable

TrainingNext ==
  \/ \E active \in SUBSET Blocks : BeginStep(active)
  \/ LoadStates
  \/ \E b \in Blocks : LoadState(b) \/ UpdateBlock(b) \/ DropUnsaved(b)
  \/ \E ks \in SUBSET Blocks : StoreStates(ks) \/ StoreRaises(ks)
  \/ PinStep \/ ScheduleFlush \/ FlushRaises \/ UnpinStale \/ StepRaises \/ WorkerFlushes
  \/ BeginCheckpoint \/ DrainFlush \/ FlushOrigin \/ SaveTraining \/ CheckpointRaises
  \/ LoadCheckpoint \/ LoadRaises \/ DieAndResume

TrainingSpec == TrainingInit /\ [][TrainingNext]_trainingVars

----------------------------------------------------------------------------
TrainingTypeOK ==
  /\ stepsBegun \in 0..MaxSteps /\ stepIndex \in 0..MaxSteps /\ returns \in 0..MaxReturns
  /\ \A moments \in {learned, seen, durable} : \A b \in Blocks : moments[b] \in Seq(1..MaxSteps)
  /\ UNION {dirty, pinned, window, previous, ahead, torn, advanced.missing, main.active, main.fresh} \subseteq Blocks

(* Between calls, the moments of a block have taken in every gradient its        *)
(* weights have, once and in the same order (a gradient is the number of its     *)
(* step), whatever was flushed when and wherever the process died.  Two things     *)
(* leave moments without a gradient, and for good: a step that raised between     *)
(* the update of a block and its store; and a flush that failed with the block     *)
(* marked clean and not saved, when the cache has dropped the block since, or    *)
(* the process has died and goes on from a checkpoint saved in between.         *)
InStepOrder(gradients) == \A i, j \in DOMAIN gradients : i < j => gradients[i] < gradients[j]

GradientsCovered ==
  MainAt("rest") =>
    \A b \in Blocks \ torn :
      /\ ToSet(learned[b]) \subseteq ToSet(seen[b])
      /\ InStepOrder(learned[b]) /\ InStepOrder(seen[b])

(* And they hold just these, unless training has gone back to a checkpoint after  *)
(* the store had newer moments of the block: a checkpoint names the moments, it   *)
(* does not keep them.                                                       *)
MomentsExact ==
  MainAt("rest") => \A b \in Blocks \ (torn \cup ahead) : seen[b] = learned[b]

MomentsFollowWeights == GradientsCovered /\ MomentsExact

(* What is pinned in the store is the window, so a bounded number of blocks:      *)
(* unpinning stale blocks, steps that raise and loads of checkpoints neither      *)
(* open it nor leave anything pinned behind.                                  *)
OnlyWindowPinned ==
  pinned = window /\ Cardinality(window) <= PinLimit
=============================================================================
