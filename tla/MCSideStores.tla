----------------------------- MODULE MCSideStores -----------------------------
(***************************************************************************)
(* Instances for TLC of the stores beside the engine: weights, blob files and  *)
(* their transfer, replicas, metadata, payloads, proofs and chunks.  They share no *)
(* state, so a behaviour runs one of them, chosen at the start, from any of    *)
(* its initial states; the others rest in one.                               *)
(***************************************************************************)
EXTENDS WeightCache, WeightModels, WeightExports, BlobFiles, BlobTransfer, Replicas,
        MetadataStores, Payloads, ShareProofs, Chunking, TLC

CONSTANTS t1, t2, a, b, c, d, peer, edge, source

VARIABLE running  \* the component this behaviour is about

weightSide == <<weightVars, registryVars, exportVars>>
storeSide == <<fileVars, transferVars, replicaVars, storeVars>>
contentSide == <<payloadVars, proofVars, chunkVars>>
sideVars == <<running, weightSide, storeSide, contentSide>>

PeerList == <<peer>>
EdgeList == <<edge>>
SourceList == <<source>>

\* A gear table in which both bytes and some pairs of bytes cut.
GearTable == 0 :> 1 @@ 1 :> 2

\* The model values stand for threads, contents and names in turn.
Symmetry == Permutations({t1, t2}) \cup Permutations({a, b}) \cup Permutations({c, d})

ChunkRest == chunker = "fixed" /\ texts = <<<<>>, <<>>>> /\ heads = <<0, 0>> /\ ends = <<<<>>, <<>>>>

Components == {"cache", "models", "exports", "files", "transfer", "replicas", "metadata",
               "payloads", "proofs", "chunks"}

SideInit ==
  /\ running \in Components
  /\ WeightInit /\ (running # "cache" => stored = {})
  /\ RegistryInit
  /\ ExportInit /\ (running # "exports" => shards = {})
  /\ FileInit
  /\ TransferInit /\ (running # "transfer" => copy = [n \in Nodes |-> "absent"])
  /\ ReplicaInit /\ (running # "replicas" => holding = {})
  /\ StoreInit /\ (running # "metadata" => table = "counts")
  /\ PayloadInit /\ (running # "payloads" => cipher = "null")
  /\ ProofInit /\ (running # "proofs" => signer = Unsigned)
  /\ IF running = "chunks" THEN ChunkInit ELSE ChunkRest

SideNext ==
  \/ running = "cache" /\ WeightNext
     /\ UNCHANGED <<running, registryVars, exportVars, storeSide, contentSide>>
  \/ running = "models" /\ RegistryNext
     /\ UNCHANGED <<running, weightVars, exportVars, storeSide, contentSide>>
  \/ running = "exports" /\ ExportNext
     /\ UNCHANGED <<running, weightVars, registryVars, storeSide, contentSide>>
  \/ running = "files" /\ FileNext
     /\ UNCHANGED <<running, transferVars, replicaVars, storeVars, weightSide, contentSide>>
  \/ running = "transfer" /\ TransferNext
     /\ UNCHANGED <<running, fileVars, replicaVars, storeVars, weightSide, contentSide>>
  \/ running = "replicas" /\ ReplicaNext
     /\ UNCHANGED <<running, fileVars, transferVars, storeVars, weightSide, contentSide>>
  \/ running = "metadata" /\ StoreNext
     /\ UNCHANGED <<running, fileVars, transferVars, replicaVars, weightSide, contentSide>>
  \/ running = "payloads" /\ PayloadNext
     /\ UNCHANGED <<running, proofVars, chunkVars, weightSide, storeSide>>
  \/ running = "proofs" /\ ProofNext
     /\ UNCHANGED <<running, payloadVars, chunkVars, weightSide, storeSide>>
  \/ running = "chunks" /\ ChunkNext
     /\ UNCHANGED <<running, payloadVars, proofVars, weightSide, storeSide>>

SideSpec == SideInit /\ [][SideNext]_sideVars

(* The shape of the running component's state; in particular the recency list of the *)
(* weight cache holds every cached cluster exactly once.                      *)
SideTypeOK ==
  CASE running = "cache" -> WeightTypeOK
    [] running = "models" -> RegistryTypeOK
    [] running = "exports" -> ExportTypeOK
    [] running = "files" -> FileTypeOK
    [] running = "transfer" -> TransferTypeOK
    [] running = "replicas" -> ReplicaTypeOK
    [] running = "metadata" -> StoreTypeOK
    [] running = "payloads" -> PayloadTypeOK
    [] running = "proofs" -> ProofTypeOK
    [] running = "chunks" -> ChunkTypeOK
=============================================================================
