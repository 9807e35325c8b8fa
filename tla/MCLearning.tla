------------------------------ MODULE MCLearning ------------------------------
(***************************************************************************)
(* Instances for TLC of what a training runs on: checkpoints, manifests, the   *)
(* training loop, its background threads, the tokenizer and quantization.      *)
(* They share no state, so a behaviour runs one of them, chosen at the start,   *)
(* from any of its initial states; the others rest in one.                   *)
(***************************************************************************)
EXTENDS Checkpoints, WeightManifests, TrainingLoop, ArteryPulsar, VeinPrefetcher, Bpe,
        PolarQuant, TLC

CONSTANTS u1, u2, x, y, g, h

VARIABLE learning  \* the component this behaviour is about

savingSide == <<checkpointVars, manifestVars>>
loopSide == <<trainingVars, pulsarVars, veinVars>>
inputSide == <<bpeVars, quantVars>>
learnVars == <<learning, savingSide, loopSide, inputSide>>

\* Norms and angles around the ends of the scale, and around half steps.
NormLogs == {-520, -514, -513, -512, -511, -3, -2, -1, 0, 1, 2, 5, 507, 508, 509, 510, 600}
AngleTilts == {0, 1, 2, 3, 255, 256, 257, 510, 511, 512}

\* The model values stand for processes and threads, contents and names in turn.
Alike == Permutations({u1, u2}) \cup Permutations({x, y}) \cup Permutations({g, h})

VeinRest ==
  /\ flowing = FALSE /\ requests = <<>> /\ asked = 0 /\ superseded = {} /\ leftover = FALSE
  /\ loader = [w \in Loaders |-> Stage("unborn")] /\ reader = Stage("idle")
  /\ editions = NoIds /\ veinCache = NoIds

BpeRest ==
  /\ freq = PreTokenize(<<>>) /\ tokens = freq /\ merges = <<>>
  /\ vocab = [t \in Specials..Specials + ByteCount - 1 |-> <<t - Specials>>]

QuantRest ==
  vector = [log |-> 0, tilts |-> <<>>, negative |-> FALSE] /\ encoded = <<>> /\ restored = NotRead

LearnComponents ==
  {"checkpoints", "manifests", "training", "pulses", "prefetch", "tokens", "vectors"}

LearnInit ==
  /\ learning \in LearnComponents
  /\ CheckpointInit
  /\ ManifestInit
  /\ TrainingInit /\ (learning # "training" => options = [async |-> FALSE, batch |-> FALSE])
  /\ PulsarInit
  /\ IF learning = "prefetch" THEN VeinInit ELSE VeinRest
  /\ IF learning = "tokens" THEN BpeInit ELSE BpeRest
  /\ IF learning = "vectors" THEN QuantInit ELSE QuantRest

LearnNext ==
  \/ learning = "checkpoints" /\ CheckpointNext
     /\ UNCHANGED <<learning, manifestVars, loopSide, inputSide>>
  \/ learning = "manifests" /\ ManifestNext
     /\ UNCHANGED <<learning, checkpointVars, loopSide, inputSide>>
  \/ learning = "training" /\ TrainingNext
     /\ UNCHANGED <<learning, pulsarVars, veinVars, savingSide, inputSide>>
  \/ learning = "pulses" /\ PulsarNext
     /\ UNCHANGED <<learning, trainingVars, veinVars, savingSide, inputSide>>
  \/ learning = "prefetch" /\ VeinNext
     /\ UNCHANGED <<learning, trainingVars, pulsarVars, savingSide, inputSide>>
  \/ learning = "tokens" /\ BpeNext
     /\ UNCHANGED <<learning, quantVars, savingSide, loopSide>>
  \/ learning = "vectors" /\ QuantNext
     /\ UNCHANGED <<learning, bpeVars, savingSide, loopSide>>

LearnSpec == LearnInit /\ [][LearnNext]_learnVars

(* The shape of the running component's state; in particular no step of a training is *)
(* trained ahead of the steps begun, and every byte of a quantized vector is one. *)
LearnTypeOK ==
  CASE learning = "checkpoints" -> CheckpointTypeOK
    [] learning = "manifests" -> ManifestTypeOK
    [] learning = "training" -> TrainingTypeOK
    [] learning = "pulses" -> PulsarTypeOK
    [] learning = "prefetch" -> VeinTypeOK
    [] learning = "tokens" -> BpeTypeOK
    [] learning = "vectors" -> QuantTypeOK
=============================================================================
