---------------------------- MODULE WeightExports ----------------------------
(***************************************************************************)
(* How clusters get into the weight store: WeightBlobStore asks whether a     *)
(* blob exists and puts it if not, cluster after cluster; the service then   *)
(* adds to the model's num_clusters, and a model export puts a manifest that *)
(* names every cluster, to be resumed from later.  Blobs are shared and have *)
(* no reference count here: a deletion asks nobody.                         *)
(* One model; a shard stands for the blob id of a cluster.                   *)
(***************************************************************************)
EXTENDS Integers, Sequences, FiniteSets, SequencesExt

CONSTANTS
  Exporters,  \* threads that store clusters
  Shards,     \* clusters of weights
  MaxBatch,   \* bound: clusters of one call
  MaxCalls    \* bound: calls and deletions in a behaviour

ASSUME ExportAssumption == MaxBatch \in Nat \ {0} /\ MaxCalls \in Nat

VARIABLES
  shards,    \* the stored clusters
  exports,   \* the stored manifests, each the set of shards it names
  counted,   \* num_clusters of the model
  exporter,  \* the call each thread is in
  calls,     \* calls made, for the bound
  fresh,     \* history: puts that stored a cluster that was absent
  missed,    \* history: of these, by calls that failed before they counted
  erased     \* history: shards deleted and not put back

exportVars == <<shards, exports, counted, exporter, calls, fresh, missed, erased>>

Batches == {b \in SeqOf(Shards, MaxBatch) : b # <<>>}
NotExporting == [pc |-> "idle", op |-> "import", todo |-> <<>>, named |-> {}, size |-> 0, new |-> 0, stored |-> 0]

ExportInit ==
  /\ shards \in SUBSET Shards
  /\ exports = {}
  /\ counted = 0
  /\ exporter = [e \in Exporters |-> NotExporting]
  /\ calls = 0 /\ fresh = 0 /\ missed = 0
  /\ erased = {}

----------------------------------------------------------------------------
Doing(e, pc) == exporter[e].pc = pc
NextShard(e) == Head(exporter[e].todo)

StartExport(e, op, batch) ==
  /\ Doing(e, "idle")
  /\ calls < MaxCalls
  /\ calls' = calls + 1
  /\ exporter' = [exporter EXCEPT ![e] =
       [NotExporting EXCEPT !.pc = "look", !.op = op, !.todo = batch,
                       !.named = ToSet(batch), !.size = Len(batch)]]
  /\ UNCHANGED <<shards, exports, counted, fresh, missed, erased>>

StoreSingle(e, x)          == StartExport(e, "single", <<x>>)
ImportClusters(e, batch)     == StartExport(e, "import", batch)
StoreLayerClusters(e, batch) == StartExport(e, "layer", batch)
StoreModelLayers(e, batch)   == StartExport(e, "model", batch)

(* What follows the last cluster of a call.                                *)
Advance(e, new, stored) ==
  LET rest == Tail(exporter[e].todo)
      pc == IF rest # <<>> THEN "look" ELSE IF exporter[e].op = "model" THEN "manifest" ELSE "count"
  IN  exporter' = [exporter EXCEPT ![e].todo = rest, ![e].pc = pc,
                                   ![e].new = @ + new, ![e].stored = @ + stored]

(* WeightBlobStore::put asks first; a cluster that exists is left alone.     *)
LookForBlob(e) ==
  /\ Doing(e, "look")
  /\ IF NextShard(e) \in shards
       THEN Advance(e, 0, 0)
       ELSE exporter' = [exporter EXCEPT ![e].pc = "put"]
  /\ UNCHANGED <<shards, exports, counted, calls, fresh, missed, erased>>

PutBlob(e) ==
  LET new == IF NextShard(e) \in shards THEN 0 ELSE 1
  IN  /\ Doing(e, "put")
      /\ shards' = shards \cup {NextShard(e)}
      /\ erased' = erased \ {NextShard(e)}
      /\ fresh' = fresh + new
      /\ Advance(e, 1, new)
      /\ UNCHANGED <<exports, counted, calls, missed>>

(* A put fails, of a cluster or of the manifest: the call ends uncounted.    *)
PutFails(e) ==
  /\ exporter[e].pc \in {"put", "manifest"}
  /\ missed' = missed + exporter[e].stored
  /\ exporter' = [exporter EXCEPT ![e] = NotExporting]
  /\ UNCHANGED <<shards, exports, counted, calls, fresh, erased>>

PutManifest(e) ==
  /\ Doing(e, "manifest")
  /\ exports' = exports \cup {exporter[e].named}
  /\ exporter' = [exporter EXCEPT ![e].pc = "count"]
  /\ UNCHANGED <<shards, counted, calls, fresh, missed, erased>>

\* A fault: every call counts one cluster.
Counted_Fault(job) == 1

(* Single clusters and imports count what was not there, layers all they    *)
(* hold.                                                                   *)
Counted(job) == IF job.op \in {"layer", "model"} THEN job.size ELSE job.new

IncrementModel(e) ==
  /\ Doing(e, "count")
  /\ counted' = counted + Counted(exporter[e])
  /\ exporter' = [exporter EXCEPT ![e] = NotExporting]
  /\ UNCHANGED <<shards, exports, calls, fresh, missed, erased>>

(* WeightBlobStore::delete, whoever names the blob.                         *)
EraseShard(x) ==
  /\ calls < MaxCalls
  /\ calls' = calls + 1
  /\ x \in shards
  /\ shards' = shards \ {x}
  /\ erased' = erased \cup {x}
  /\ UNCHANGED <<exports, counted, exporter, fresh, missed>>

ExportStep(e) ==
  LookForBlob(e) \/ PutBlob(e) \/ PutFails(e) \/ PutManifest(e) \/ IncrementModel(e)

ExportNext ==
  \/ \E e \in Exporters, x \in Shards : StoreSingle(e, x)
  \/ \E e \in Exporters, batch \in Batches :
       ImportClusters(e, batch) \/ StoreLayerClusters(e, batch) \/ StoreModelLayers(e, batch)
  \/ \E e \in Exporters : ExportStep(e)
  \/ \E x \in Shards : EraseShard(x)

ExportSpec == ExportInit /\ [][ExportNext]_exportVars

----------------------------------------------------------------------------
ExportTypeOK ==
  /\ shards \subseteq Shards /\ erased \subseteq Shards
  /\ exports \subseteq SUBSET Shards
  /\ {counted, calls, fresh, missed} \subseteq Nat
  /\ \A e \in Exporters : exporter[e].todo \in SeqOf(Shards, MaxBatch)

(* load_multilayer_manifest and get_layer_shard read every cluster back.     *)
Loadable(manifest) == manifest \subseteq shards

(* A stored manifest can be resumed from: its clusters are there, whichever  *)
(* call stored them, unless one was deleted after; the manifest is put last, *)
(* and not at all when a cluster could not be put.                          *)
ExportsComplete == \A m \in exports : Loadable(m \ erased)

(* num_clusters is never less than the clusters the model's calls stored,    *)
(* those of calls that failed half-way apart.  It may be more: a layer also   *)
(* counts what was there already, and two calls that store one cluster at    *)
(* once both count it.                                                     *)
ClustersCounted ==
  (\A e \in Exporters : Doing(e, "idle")) => counted >= fresh - missed

(* What a model's calls have left behind, put after put, is whole and counted. *)
ExportsAccounted == ExportsComplete /\ ClustersCounted
=============================================================================
