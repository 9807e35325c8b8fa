----------------------------- MODULE ArteryPulsar -----------------------------
(***************************************************************************)
(* ArteryPulsar: the trainer marks weight clusters dirty; a background thread  *)
(* wakes now and then and exports what is dirty (a pulse), and so do flush and  *)
(* stop in the trainer's own thread.  A pulse takes all that is dirty under a    *)
(* lock, and then stores cluster by cluster and replaces the manifest without   *)
(* one, so that pulses interleave with marks and with each other.  stop waits   *)
(* for the thread for ten seconds and the thread sleeps for thirty: it may      *)
(* outlive the stop, and a start that follows, and then there are two.         *)
(*                                                                         *)
(* A cluster with its content stands for the blob they are stored as.  A call   *)
(* into the native manifest store is one step: it keeps the interpreter lock.  *)
(***************************************************************************)
EXTENDS Naturals, FiniteSets

CONSTANTS
  Workers,     \* threads that start may create
  Trainer,     \* the thread that marks, flushes, starts and stops
  Tensors,     \* clusters of weights
  Values,      \* contents a cluster can have
  Unset,       \* no content
  MinDirty,    \* min_dirty_clusters
  MaxMarks     \* bound: marks

ASSUME PulsarAssumption ==
  /\ Trainer \notin Workers /\ Unset \notin Values
  /\ MinDirty \in Nat /\ MaxMarks \in Nat

VARIABLES
  pulsing,    \* _running
  pulser,     \* what each thread is doing
  dirtyMap,   \* _dirty_clusters
  blobIds,    \* _cluster_blob_ids
  named,      \* what the manifest file names
  pulsed,     \* stored clusters
  marks,      \* bound counter
  newest,     \* history: the last content marked for each cluster
  crossed,    \* history: clusters two pulses held at once, or put back over a newer mark
  outdated,   \* history: the manifest was last replaced from an older list than another pulse's
  snatched    \* history: blobs deleted by a pulse with such a list

pulseHistory == <<newest, crossed, outdated, snatched>>
pulsarVars == <<pulsing, pulser, dirtyMap, blobIds, named, pulsed, marks, pulseHistory>>

Pulsers == Workers \cup {Trainer}
NoTensors == [x \in Tensors |-> Unset]
Filled(map) == {x \in Tensors : map[x] # Unset}
BlobsOf(map) == {<<x, map[x]>> : x \in Filled(map)}
Placed(pc) == [pc |-> pc, held |-> NoTensors, updated |-> FALSE, list |-> NoTensors]

PulsarInit ==
  /\ pulsing = FALSE
  /\ pulser = [p \in Pulsers |-> Placed(IF p = Trainer THEN "idle" ELSE "unborn")]
  /\ dirtyMap = NoTensors /\ blobIds = NoTensors /\ named = NoTensors
  /\ pulsed = {} /\ marks = 0
  /\ newest = NoTensors /\ crossed = {} /\ outdated = FALSE /\ snatched = {}

Is(p, pc) == pulser[p].pc = pc
Goes(p, pc) == pulser' = [pulser EXCEPT ![p] = Placed(pc)]
Holds(p, x) == pulser[p].held[x] # Unset

----------------------------------------------------------------------------
MarkDirty(x, v) ==
  /\ Is(Trainer, "idle") /\ marks < MaxMarks
  /\ marks' = marks + 1
  /\ dirtyMap' = [dirtyMap EXCEPT ![x] = v]
  /\ newest' = [newest EXCEPT ![x] = v]
  /\ crossed' = IF \E p \in Pulsers : Holds(p, x) THEN crossed ELSE crossed \ {x}
  /\ UNCHANGED <<pulsing, pulser, blobIds, named, pulsed, outdated, snatched>>

StartPulsar(w) ==
  /\ Is(Trainer, "idle") /\ ~ pulsing
  /\ Is(w, "unborn")
  /\ pulsing' = TRUE
  /\ Goes(w, "asleep")
  /\ UNCHANGED <<dirtyMap, blobIds, named, pulsed, marks, pulseHistory>>

(* stop, which pulses once the thread has ended or the wait for it has.        *)
StopPulsar ==
  /\ Is(Trainer, "idle")
  /\ pulsing' = FALSE
  /\ Goes(Trainer, "take")
  /\ UNCHANGED <<dirtyMap, blobIds, named, pulsed, marks, pulseHistory>>

FlushPulsar ==
  /\ Is(Trainer, "idle")
  /\ Goes(Trainer, "take")
  /\ UNCHANGED <<pulsing, dirtyMap, blobIds, named, pulsed, marks, pulseHistory>>

Wake(w) ==
  /\ Is(w, "asleep")
  /\ Goes(w, IF pulsing THEN "take" ELSE "gone")
  /\ UNCHANGED <<pulsing, dirtyMap, blobIds, named, pulsed, marks, pulseHistory>>

(* Where a thread goes after a pulse.                                        *)
Returns(p) == Goes(p, IF p = Trainer THEN "idle" ELSE IF pulsing THEN "asleep" ELSE "gone")

Worthwhile(p) ==
  Filled(dirtyMap) # {} /\ (p = Trainer \/ Cardinality(Filled(dirtyMap)) >= MinDirty)

TakeDirty(p) ==
  /\ Is(p, "take") /\ Worthwhile(p)
  /\ pulser' = [pulser EXCEPT ![p] = [Placed("export") EXCEPT !.held = dirtyMap]]
  /\ dirtyMap' = NoTensors
  /\ crossed' = crossed \cup {x \in Filled(dirtyMap) : \E q \in Pulsers \ {p} : Holds(q, x)}
  /\ UNCHANGED <<pulsing, blobIds, named, pulsed, marks, newest, outdated, snatched>>

TakeNothing(p) ==
  /\ Is(p, "take") /\ ~ Worthwhile(p)
  /\ Returns(p)
  /\ UNCHANGED <<pulsing, dirtyMap, blobIds, named, pulsed, marks, pulseHistory>>

ExportTensor(p, x) ==
  /\ Is(p, "export") /\ Holds(p, x)
  /\ pulsed' = pulsed \cup {<<x, pulser[p].held[x]>>}
  /\ snatched' = snatched \ {<<x, pulser[p].held[x]>>}
  /\ blobIds' = [blobIds EXCEPT ![x] = pulser[p].held[x]]
  /\ pulser' = [pulser EXCEPT ![p].held[x] = Unset, ![p].updated = TRUE]
  /\ UNCHANGED <<pulsing, dirtyMap, named, marks, newest, crossed, outdated>>

\* A fault: a cluster whose export failed is not put back.
PutBack_Fault(p, x) == dirtyMap

(* A cluster that could not be exported is dirty again, as it was then.        *)
PutBack(p, x) == [dirtyMap EXCEPT ![x] = pulser[p].held[x]]

ExportFails(p, x) ==
  /\ Is(p, "export") /\ Holds(p, x)
  /\ dirtyMap' = PutBack(p, x)
  /\ pulser' = [pulser EXCEPT ![p].held[x] = Unset]
  /\ crossed' = IF dirtyMap[x] \in {Unset, pulser[p].held[x]} THEN crossed ELSE crossed \cup {x}
  /\ UNCHANGED <<pulsing, blobIds, named, pulsed, marks, newest, outdated, snatched>>

Exported(p) ==
  /\ Is(p, "export") /\ \A x \in Tensors : ~ Holds(p, x)
  /\ IF pulser[p].updated
       THEN pulser' = [pulser EXCEPT ![p] = [Placed("write") EXCEPT !.list = blobIds]]
       ELSE Returns(p)
  /\ UNCHANGED <<pulsing, dirtyMap, blobIds, named, pulsed, marks, pulseHistory>>

(* The manifest is replaced, and what the one before named and this one does     *)
(* not is deleted.                                                          *)
Replace(p, gone) ==
  /\ named' = pulser[p].list
  /\ pulsed' = pulsed \ gone
  /\ outdated' = (pulser[p].list # blobIds)
  /\ snatched' = IF pulser[p].list = blobIds THEN snatched ELSE snatched \cup gone

Unnamed(p) == BlobsOf(named) \ BlobsOf(pulser[p].list)

WritePulse(p) ==
  /\ Is(p, "write")
  /\ Replace(p, Unnamed(p))
  /\ Returns(p)
  /\ UNCHANGED <<pulsing, dirtyMap, blobIds, marks, newest, crossed>>

(* If that fails, before or after the file is replaced, the exception ends the   *)
(* thread, or reaches the trainer.                                           *)
WriteFails(p) ==
  /\ Is(p, "write")
  /\ \/ UNCHANGED <<named, pulsed, outdated, snatched>>
     \/ \E gone \in SUBSET Unnamed(p) : Replace(p, gone)
  /\ Goes(p, IF p = Trainer THEN "idle" ELSE "gone")
  /\ UNCHANGED <<pulsing, dirtyMap, blobIds, marks, newest, crossed>>

PulsarNext ==
  \/ \E x \in Tensors, v \in Values : MarkDirty(x, v)
  \/ StopPulsar \/ FlushPulsar
  \/ \E w \in Workers : StartPulsar(w) \/ Wake(w)
  \/ \E p \in Pulsers : TakeDirty(p) \/ TakeNothing(p) \/ Exported(p) \/ WritePulse(p) \/ WriteFails(p)
  \/ \E p \in Pulsers, x \in Tensors : ExportTensor(p, x) \/ ExportFails(p, x)

PulsarSpec == PulsarInit /\ [][PulsarNext]_pulsarVars

----------------------------------------------------------------------------
PulsarTypeOK ==
  /\ \A map \in {dirtyMap, blobIds, named, newest} : map \in [Tensors -> Values \cup {Unset}]
  /\ pulsed \cup snatched \subseteq Tensors \X Values /\ crossed \subseteq Tensors
  /\ marks \in 0..MaxMarks /\ {pulsing, outdated} \subseteq BOOLEAN

(* The newest content marked for a cluster is waiting to be exported, held by a   *)
(* pulse, or what the next manifest will name, whatever exports fail and however  *)
(* often the pulsar is stopped and started.  What can lose it is a cluster two    *)
(* pulses hold at once, and a failed export put back over a newer mark.          *)
NewestNotDropped ==
  \A x \in Filled(newest) \ crossed :
    \/ newest[x] \in {dirtyMap[x], blobIds[x]}
    \/ \E p \in Pulsers : pulser[p].held[x] = newest[x]

(* What is to be named, and what the manifest names, is stored, through failed    *)
(* writes and returns to earlier contents.  Only a list older than what another   *)
(* pulse has exported meanwhile takes blobs that are needed, and names some that  *)
(* are gone.                                                                *)
NamedStored ==
  /\ BlobsOf(blobIds) \subseteq pulsed \cup snatched
  /\ ~ outdated => BlobsOf(named) \subseteq pulsed \cup snatched

PulsesKeepNewest == NewestNotDropped /\ NamedStored
=============================================================================
