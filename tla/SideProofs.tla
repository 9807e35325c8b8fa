------------------------------ MODULE SideProofs ------------------------------
(***************************************************************************)
(* The components that one run explores side by side, whichever of them a      *)
(* behaviour runs: the shape of the running one's state, for every value of the  *)
(* constants.  What keeps the shape of each is in the module of its other proofs. *)
(***************************************************************************)
EXTENDS MCSideStores, MCLearning, WeightProofs, StoreSideProofs, TrainingProofs, ContentProofs

-----------------------------------------------------------------------------
(* The stores beside the engine.                                           *)

SideInv ==
  /\ running \in Components
  /\ running = "cache" => WeightTypes
  /\ running = "models" => RegistryTypes
  /\ running = "exports" => ExportTypes
  /\ running = "files" => FileTypes
  /\ running = "transfer" => TransferTypeOK
  /\ running = "replicas" => ReplicaTypes
  /\ running = "metadata" => StoreTypes
  /\ running = "payloads" => PayloadInv
  /\ running = "proofs" => ProofTypes
  /\ running = "chunks" => ChunkTypes

LEMMA SideStart == SideInit => SideInv
<1> SUFFICES ASSUME SideInit PROVE SideInv
  OBVIOUS
<1>1. running \in Components
  BY DEF SideInit
<1>2. running = "cache" => WeightTypes
  BY WeightTypesInit DEF SideInit
<1>3. running = "models" => RegistryTypes
  BY RegistryTypesInit DEF SideInit
<1>4. running = "exports" => ExportTypes
  BY ExportTypesInit DEF SideInit
<1>5. running = "files" => FileTypes
  BY FileTypesInit DEF SideInit
<1>6. running = "transfer" => TransferTypeOK
  BY TransferTypesInit DEF SideInit
<1>7. running = "replicas" => ReplicaTypes
  BY ReplicaTypesInit DEF SideInit
<1>8. running = "metadata" => StoreTypes
  BY StoreTypesInit DEF SideInit
<1>9. running = "payloads" => PayloadInv
  BY PayloadStart DEF SideInit
<1>10. running = "proofs" => ProofTypes
  BY ProofTypesInit DEF SideInit
<1>11. running = "chunks" => ChunkTypes
  BY ChunkTypesInit DEF SideInit
<1>12. QED
  BY <1>1, <1>2, <1>3, <1>4, <1>5, <1>6, <1>7, <1>8, <1>9, <1>10, <1>11 DEF SideInv

LEMMA SideKept == SideInv /\ [SideNext]_sideVars => SideInv'
<1> SUFFICES ASSUME SideInv, [SideNext]_sideVars PROVE SideInv'
  OBVIOUS
<1>1. ASSUME running = "cache", running' = running, [WeightNext]_weightVars PROVE SideInv'
  BY <1>1, WeightTypesStep DEF SideInv
<1>2. ASSUME running = "models", running' = running, [RegistryNext]_registryVars PROVE SideInv'
  BY <1>2, RegistryTypesStep DEF SideInv
<1>3. ASSUME running = "exports", running' = running, [ExportNext]_exportVars PROVE SideInv'
  BY <1>3, ExportTypesStep DEF SideInv
<1>4. ASSUME running = "files", running' = running, [FileNext]_fileVars PROVE SideInv'
  BY <1>4, FileTypesStep DEF SideInv
<1>5. ASSUME running = "transfer", running' = running, [TransferNext]_transferVars PROVE SideInv'
  BY <1>5, TransferTypesStep DEF SideInv
<1>6. ASSUME running = "replicas", running' = running, [ReplicaNext]_replicaVars PROVE SideInv'
  BY <1>6, ReplicaTypesStep DEF SideInv
<1>7. ASSUME running = "metadata", running' = running, [StoreNext]_storeVars PROVE SideInv'
  BY <1>7, StoreTypesStep DEF SideInv
<1>8. ASSUME running = "payloads", running' = running, [PayloadNext]_payloadVars PROVE SideInv'
  BY <1>8, PayloadKept DEF SideInv
<1>9. ASSUME running = "proofs", running' = running, [ProofNext]_proofVars PROVE SideInv'
  BY <1>9, ProofTypesStep DEF SideInv
<1>10. ASSUME running = "chunks", running' = running, [ChunkNext]_chunkVars PROVE SideInv'
  BY <1>10, ChunkTypesStep DEF SideInv
<1>11. CASE SideNext
  <2>1. running' = running
    BY <1>11 DEF SideNext
  <2>2. QED
    BY <1>11, <2>1, <1>1, <1>2, <1>3, <1>4, <1>5, <1>6, <1>7, <1>8, <1>9, <1>10 DEF SideNext
<1>12. CASE UNCHANGED sideVars
  <2>1. running' = running /\ UNCHANGED <<weightSide, storeSide, contentSide>>
    BY <1>12 DEF sideVars
  <2>2. UNCHANGED <<weightVars, registryVars, exportVars>>
    BY <2>1 DEF weightSide
  <2>3. UNCHANGED <<fileVars, transferVars, replicaVars, storeVars>>
    BY <2>1 DEF storeSide
  <2>4. UNCHANGED <<payloadVars, proofVars, chunkVars>>
    BY <2>1 DEF contentSide
  <2>5. running \in Components
    BY DEF SideInv
  <2>6. QED
    BY <2>1, <2>2, <2>3, <2>4, <2>5, <1>1, <1>2, <1>3, <1>4, <1>5, <1>6, <1>7, <1>8, <1>9, <1>10 DEF Components
<1>13. QED
  BY <1>11, <1>12

\* Whichever store runs, its state keeps its shape, with no use of a bound but where
\* the shape speaks of one: among the rest, the recency list of the weight cache holds
\* every cached cluster exactly once (WeightStore::insert_cached, touch_cached), and a
\* chunk is no longer than the longest the chunker may cut (FastCdcChunker::chunk).
THEOREM SideTypesHold == SideSpec => []SideTypeOK
<1>1. SideInv => SideTypeOK
  <2> SUFFICES ASSUME SideInv PROVE SideTypeOK
    OBVIOUS
  <2>1. CASE running = "cache"
    BY <2>1, WeightTypesImply DEF SideInv, SideTypeOK
  <2>2. CASE running = "models"
    BY <2>2, RegistryTypesImply DEF SideInv, SideTypeOK
  <2>3. CASE running = "exports"
    BY <2>3, ExportTypesImply DEF SideInv, SideTypeOK
  <2>4. CASE running = "files"
    BY <2>4, FileTypesImply DEF SideInv, SideTypeOK
  <2>5. CASE running = "transfer"
    BY <2>5 DEF SideInv, SideTypeOK
  <2>6. CASE running = "replicas"
    BY <2>6 DEF SideInv, SideTypeOK, ReplicaTypes
  <2>7. CASE running = "metadata"
    BY <2>7 DEF SideInv, SideTypeOK, StoreTypes
  <2>8. CASE running = "payloads"
    BY <2>8, PayloadTypesImply DEF SideInv, SideTypeOK
  <2>9. CASE running = "proofs"
    BY <2>9, ProofTypesImply DEF SideInv, SideTypeOK
  <2>10. CASE running = "chunks"
    BY <2>10 DEF SideInv, SideTypeOK, ChunkTypes
  <2>11. QED
    BY <2>1, <2>2, <2>3, <2>4, <2>5, <2>6, <2>7, <2>8, <2>9, <2>10 DEF SideInv, Components
<1>2. QED
  BY <1>1, SideStart, SideKept, PTL DEF SideSpec

-----------------------------------------------------------------------------
(* What a training runs on.                                                *)

LearnInv ==
  /\ learning \in LearnComponents
  /\ learning = "checkpoints" => CheckpointTypes
  /\ learning = "manifests" => ManifestFileTypes
  /\ learning = "training" => LoopTypes
  /\ learning = "pulses" => PulseTypes
  /\ learning = "prefetch" => PrefetchTypes
  /\ learning = "tokens" => BpeTypes
  /\ learning = "vectors" => QuantTypes

LEMMA LearnStart == LearnInit => LearnInv
<1> SUFFICES ASSUME LearnInit PROVE LearnInv
  OBVIOUS
<1>1. learning \in LearnComponents
  BY DEF LearnInit
<1>2. learning = "checkpoints" => CheckpointTypes
  BY CheckpointTypesInit DEF LearnInit
<1>3. learning = "manifests" => ManifestFileTypes
  BY ManifestTypesInit DEF LearnInit
<1>4. learning = "training" => LoopTypes
  BY LoopTypesInit DEF LearnInit
<1>5. learning = "pulses" => PulseTypes
  BY PulseTypesInit DEF LearnInit
<1>6. learning = "prefetch" => PrefetchTypes
  BY PrefetchTypesInit DEF LearnInit
<1>7. learning = "tokens" => BpeTypes
  BY BpeTypesInit DEF LearnInit
<1>8. learning = "vectors" => QuantTypes
  BY QuantTypesInit DEF LearnInit
<1>9. QED
  BY <1>1, <1>2, <1>3, <1>4, <1>5, <1>6, <1>7, <1>8 DEF LearnInv

LEMMA LearnKept == LearnInv /\ [LearnNext]_learnVars => LearnInv'
<1> SUFFICES ASSUME LearnInv, [LearnNext]_learnVars PROVE LearnInv'
  OBVIOUS
<1>1. ASSUME learning = "checkpoints", learning' = learning, [CheckpointNext]_checkpointVars PROVE LearnInv'
  BY <1>1, CheckpointTypesStep DEF LearnInv
<1>2. ASSUME learning = "manifests", learning' = learning, [ManifestNext]_manifestVars PROVE LearnInv'
  BY <1>2, ManifestTypesStep DEF LearnInv
<1>3. ASSUME learning = "training", learning' = learning, [TrainingNext]_trainingVars PROVE LearnInv'
  BY <1>3, LoopTypesStep DEF LearnInv
<1>4. ASSUME learning = "pulses", learning' = learning, [PulsarNext]_pulsarVars PROVE LearnInv'
  BY <1>4, PulseTypesStep DEF LearnInv
<1>5. ASSUME learning = "prefetch", learning' = learning, [VeinNext]_veinVars PROVE LearnInv'
  BY <1>5, PrefetchTypesStep DEF LearnInv
<1>6. ASSUME learning = "tokens", learning' = learning, [BpeNext]_bpeVars PROVE LearnInv'
  BY <1>6, BpeTypesStep DEF LearnInv
<1>7. ASSUME learning = "vectors", learning' = learning, [QuantNext]_quantVars PROVE LearnInv'
  BY <1>7, QuantTypesStep DEF LearnInv
<1>8. CASE LearnNext
  <2>1. learning' = learning
    BY <1>8 DEF LearnNext
  <2>2. QED
    BY <1>8, <2>1, <1>1, <1>2, <1>3, <1>4, <1>5, <1>6, <1>7 DEF LearnNext
<1>9. CASE UNCHANGED learnVars
  <2>1. learning' = learning /\ UNCHANGED <<savingSide, loopSide, inputSide>>
    BY <1>9 DEF learnVars
  <2>2. UNCHANGED <<checkpointVars, manifestVars>>
    BY <2>1 DEF savingSide
  <2>3. UNCHANGED <<trainingVars, pulsarVars, veinVars>>
    BY <2>1 DEF loopSide
  <2>4. UNCHANGED <<bpeVars, quantVars>>
    BY <2>1 DEF inputSide
  <2>5. learning \in LearnComponents
    BY DEF LearnInv
  <2>6. QED
    BY <2>1, <2>2, <2>3, <2>4, <2>5, <1>1, <1>2, <1>3, <1>4, <1>5, <1>6, <1>7 DEF LearnComponents
<1>10. QED
  BY <1>8, <1>9

\* Whichever part of a training runs, its state keeps its shape, again for any value of
\* the constants: no origin of a manifest is one not given yet (WeightService), a block is
\* updated only in a step that has begun (SODLAdamW.step), the queue of the prefetcher
\* keeps its bound (VeinPrefetcher), and every byte of a quantized vector is one
\* (PolarQuant::to_bytes).
THEOREM LearnTypesHold == LearnSpec => []LearnTypeOK
<1>1. LearnInv => LearnTypeOK
  <2> SUFFICES ASSUME LearnInv PROVE LearnTypeOK
    OBVIOUS
  <2>1. CASE learning = "checkpoints"
    BY <2>1, CheckpointTypesImply DEF LearnInv, LearnTypeOK
  <2>2. CASE learning = "manifests"
    BY <2>2, ManifestTypesImply DEF LearnInv, LearnTypeOK
  <2>3. CASE learning = "training"
    BY <2>3, LoopTypesImply DEF LearnInv, LearnTypeOK
  <2>4. CASE learning = "pulses"
    BY <2>4 DEF LearnInv, LearnTypeOK, PulseTypes
  <2>5. CASE learning = "prefetch"
    BY <2>5 DEF LearnInv, LearnTypeOK, PrefetchTypes
  <2>6. CASE learning = "tokens"
    BY <2>6, BpeTypesImply DEF LearnInv, LearnTypeOK
  <2>7. CASE learning = "vectors"
    BY <2>7, QuantTypesImply DEF LearnInv, LearnTypeOK
  <2>8. QED
    BY <2>1, <2>2, <2>3, <2>4, <2>5, <2>6, <2>7 DEF LearnInv, LearnComponents
<1>2. QED
  BY <1>1, LearnStart, LearnKept, PTL DEF LearnSpec
=============================================================================
