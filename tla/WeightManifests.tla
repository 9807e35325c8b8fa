--------------------------- MODULE WeightManifests ---------------------------
(***************************************************************************)
(* WeightManifestStore: one manifest file per training directory names the    *)
(* weight clusters exported last and the origin they belong to; a training    *)
(* that resumes asks it under which origin to go on.  Writing a manifest      *)
(* deletes the clusters that the one before named and this one does not, in   *)
(* a blob store that other directories use too.  Nothing locks a file: a      *)
(* training interleaves with others between file operations, and can end      *)
(* after any of them.                                                       *)
(***************************************************************************)
EXTENDS Naturals, Sequences, FiniteSets

CONSTANTS
  Trainers,      \* processes
  Paths,         \* manifest files
  Tags,          \* values of checkpoint_origin, the name a training goes by
  Weights,       \* weight clusters; one stands for its blob id
  MaxTrainings   \* bound: trainings begun, which numbers new origins too

ASSUME ManifestAssumption == MaxTrainings \in Nat

VARIABLES
  weights,   \* stored clusters
  manifest,  \* the file at each path, or NoManifest
  trainer,   \* what each process does
  trainings, \* trainings begun
  taken,     \* history: clusters deleted while another manifest named them or another call ran
  owner,     \* history: the tag each origin was made for
  untold,    \* history: paths whose last write named no tag
  lent       \* history: origins another tag took from such a path

historyVars == <<owner, untold, lent>>
manifestVars == <<weights, manifest, trainer, trainings, taken, historyVars>>

Untagged == "untagged"
\* A manifest without a tag is told from every tagged one.
ASSUME TagAssumption == Untagged \notin Tags

NoManifest == [origin |-> 0, tag |-> Untagged, clusters |-> {}]
Away == [pc |-> "idle", path |-> "none", tag |-> Untagged, origin |-> 0, tells |-> TRUE,
         clusters |-> {}, before |-> NoManifest, stale |-> {}, alone |-> TRUE]

ManifestInit ==
  /\ weights = {}
  /\ manifest = [m \in Paths |-> NoManifest]
  /\ trainer = [t \in Trainers |-> Away]
  /\ trainings = 0
  /\ taken = {}
  /\ owner = <<>> /\ untold = {} /\ lent = {}

----------------------------------------------------------------------------
Training(t) == trainer[t].pc # "idle"
Reached(t, pc) == trainer[t].pc = pc
Leaves(t) == trainer' = [trainer EXCEPT ![t] = Away]

\* A fault: the manifest's tag is not looked at.
Resolve_Fault(m, tag, resumed) == IF resumed # 0 THEN resumed ELSE manifest[m].origin

(* resolve_origin_id: the origin of the resumed checkpoint's record, else the *)
(* manifest's unless it was written for a checkpoint origin that is not this  *)
(* one, else none.                                                          *)
Resolve(m, tag, resumed) ==
  IF resumed # 0 THEN resumed
  ELSE IF manifest[m].tag \in {Untagged, tag} THEN manifest[m].origin
  ELSE 0

(* The training takes the origin resolved, or a new one; its manifest may be  *)
(* written with metadata that names its tag, or without.                     *)
BeginTraining(t, m, tag, tells, resumed) ==
  LET found == Resolve(m, tag, resumed)
      origin == IF found = 0 THEN trainings + 1 ELSE found
  IN  /\ ~ Training(t)
      /\ trainings < MaxTrainings
      /\ trainings' = trainings + 1
      /\ trainer' = [u \in Trainers |->
           IF u = t THEN [Away EXCEPT !.pc = "export", !.path = m, !.tag = tag, !.tells = tells,
                            !.origin = origin, !.alone = \A v \in Trainers : ~ Training(v)]
           ELSE IF Training(u) THEN [trainer[u] EXCEPT !.alone = FALSE] ELSE trainer[u]]
      /\ owner' = Append(owner, tag)
      /\ lent' = IF found # 0 /\ m \in untold /\ owner[found] # tag THEN lent \cup {found} ELSE lent
      /\ UNCHANGED <<weights, manifest, taken, untold>>

(* export_token_clusters stores the clusters that the manifest will name.     *)
ExportWeights(t, clusters) ==
  /\ Reached(t, "export")
  /\ weights' = weights \cup clusters
  /\ taken' = taken \ clusters
  /\ trainer' = [trainer EXCEPT ![t].pc = "load", ![t].clusters = clusters]
  /\ UNCHANGED <<manifest, trainings, historyVars>>

(* write_manifest reads the file it will replace: what it names, and the      *)
(* metadata that the new one keeps where it brings none of its own.          *)
ReadManifest(t) ==
  /\ Reached(t, "load")
  /\ trainer' = [trainer EXCEPT ![t].pc = "write", ![t].before = manifest[trainer[t].path]]
  /\ UNCHANGED <<weights, manifest, trainings, taken, historyVars>>

Merged(job) == IF job.tells THEN job.tag ELSE job.before.tag
\* A fault: clusters that the new manifest names too are deleted.
Stale_Fault(job) == job.before.clusters

Stale(job) == job.before.clusters \ job.clusters

ReplaceManifest(t) ==
  LET job == trainer[t]
  IN  /\ Reached(t, "write")
      /\ manifest' = [manifest EXCEPT ![job.path] =
           [origin |-> job.origin, tag |-> Merged(job), clusters |-> job.clusters]]
      /\ untold' = IF job.tells THEN untold \ {job.path} ELSE untold \cup {job.path}
      /\ IF Stale(job) = {} THEN Leaves(t)
         ELSE trainer' = [trainer EXCEPT ![t].pc = "gc", ![t].stale = Stale(job)]
      /\ UNCHANGED <<weights, trainings, taken, owner, lent>>

(* No other manifest is asked before a stale cluster goes.                  *)
DeleteStale(t, x) ==
  LET job == trainer[t]
  IN  /\ Reached(t, "gc")
      /\ x \in job.stale
      /\ weights' = weights \ {x}
      /\ taken' = IF job.alone /\ ~ \E m \in Paths \ {job.path} : x \in manifest[m].clusters
                    THEN taken ELSE taken \cup {x}
      /\ IF job.stale = {x} THEN Leaves(t)
         ELSE trainer' = [trainer EXCEPT ![t].stale = @ \ {x}]
      /\ UNCHANGED <<manifest, trainings, historyVars>>

StopTraining(t) ==
  /\ Training(t)
  /\ Leaves(t)
  /\ UNCHANGED <<weights, manifest, trainings, taken, historyVars>>

ManifestStep(t) ==
  \/ \E clusters \in SUBSET Weights : ExportWeights(t, clusters)
  \/ ReadManifest(t) \/ ReplaceManifest(t) \/ StopTraining(t)
  \/ \E x \in Weights : DeleteStale(t, x)

ManifestNext ==
  \/ \E t \in Trainers, m \in Paths, tag \in Tags, tells \in BOOLEAN :
       \E resumed \in {0} \cup {o \in DOMAIN owner : owner[o] = tag} :
         BeginTraining(t, m, tag, tells, resumed)
  \/ \E t \in Trainers : ManifestStep(t)

ManifestSpec == ManifestInit /\ [][ManifestNext]_manifestVars

----------------------------------------------------------------------------
ManifestTypeOK ==
  /\ weights \subseteq Weights /\ taken \subseteq Weights
  /\ \A m \in Paths : manifest[m] \in [origin : 0..MaxTrainings, tag : Tags \cup {Untagged},
                                       clusters : SUBSET Weights]

(* What a manifest names is stored: stale clusters go only after the new      *)
(* manifest is in place, and none that it still names.  The exceptions are a   *)
(* cluster of two manifests, which either of them may take from the other, and *)
(* any that a training deletes which has run beside another one: until the     *)
(* cluster is exported again nothing is said of it.                           *)
ManifestClustersKept == \A m \in Paths : manifest[m].clusters \ weights \subseteq taken

(* A training that finds an origin in a manifest never goes on with another    *)
(* training's: the manifest's tag tells whose it is.  A write without a tag     *)
(* leaves the tag of the write before in place, so nothing is said of a path    *)
(* whose last write had none, nor of an origin that was taken from such a path. *)
ResumesOwnLineage ==
  \A m \in Paths \ untold, tag \in Tags :
    LET found == Resolve(m, tag, 0)
    IN  found = 0 \/ owner[found] = tag \/ found \in lent
=============================================================================
