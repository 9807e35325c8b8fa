------------------------------- MODULE SodlGc -------------------------------
(***************************************************************************)
(* Reclaiming bytes: GcPlanner and GcExecutor (crates/sodl-gc/src/lib.rs)  *)
(* and DELETE /v1/blobs/:id (crates/sodl-api/src/handlers.rs), composed    *)
(* with the engine of SodlService.                                         *)
(*                                                                         *)
(* Planning reads the counters one item at a time and executing deletes    *)
(* what the plan names without looking again, so both are sequences of     *)
(* steps between which requests may run.  The repository starts GC by hand *)
(* (the examples of sodl-service) and gives it no lock: a careful operator *)
(* runs it while no request is creating origins, which is the default      *)
(* here, and "gc_race" / "rm_race" in Permits lift that.                   *)
(***************************************************************************)
EXTENDS SodlService

CONSTANTS
  NoBlob,      \* "no blob"
  ScanZeros    \* TRUE: list_origins and list_blobs return every counter
               \* (MemIndex); FALSE: only those above zero (SqliteStore)

ASSUME GcAssumption == NoBlob \notin Blobs /\ ScanZeros \in BOOLEAN

VARIABLES
  gcPc,         \* where the collector is
  gcOrigins,    \* origins listed and not yet looked at
  gcAt,         \* an origin found at zero whose pins are read next
  gcBlobs,      \* blobs listed and not yet looked at
  planOrigins,  \* GcPlan.origin_tombstone
  planBlobs,    \* GcPlan.blob_delete
  gcTombs,      \* origins with a tombstone record written by the executor
  rmPc,         \* DELETE /v1/blobs/:id: its next store call
  rmBlob        \* and the blob it names

gcPlan == <<gcOrigins, gcAt, gcBlobs, planOrigins, planBlobs>>
gcVars == <<gcPc, gcPlan, gcTombs>>
rmVars == <<rmPc, rmBlob>>
allVars == <<vars, gcVars, rmVars>>

GcPhases == {"idle", "origins", "blobs", "execute"}
RmPhases == {"idle", "count", "delete"}

-----------------------------------------------------------------------------
(* What the counters' tables list.                                         *)

\* A row exists once something was counted or released.
HasOriginRow(o) ==
  \/ reps[o] > 0
  \/ \E r \in Refs : refOf[r] = o /\ ref[r] \notin {"unused", "recorded"}
  \/ \E t \in Slots : tombOf[t] = o /\ decReps[t] > 0

HasBlobRow_Fault(b) == b \in bytes  \* list the blob store, not the counters

HasBlobRow(b) ==
  \/ \E o \in Origins : \E i \in 1..incs[o] : Content[o][i] = b
  \/ \E t \in Slots : \E i \in 1..decs[t] : Content[tombOf[t]][i] = b

ListOrigins ==
  {o \in Origins : HasOriginRow(o) /\ (ScanZeros \/ originRefs[o] > 0)}
ListBlobs_Fault == {b \in Blobs : HasBlobRow(b) /\ blobRefs[b] > 0}

ListBlobs ==
  {b \in Blobs : HasBlobRow(b) /\ (ScanZeros \/ blobRefs[b] > 0)}

Busy(o) == pc[o] \notin {"idle", "done", "failed"}
GcRunning == gcPc # "idle"
RmRunning == rmPc # "idle"

-----------------------------------------------------------------------------
(* GcPlanner::plan.                                                        *)

GcStart ==
  /\ gcPc = "idle"
  /\ "gc_race" \in Permits \/ \A o \in Origins : ~Busy(o)
  /\ gcPc' = "origins"
  /\ gcOrigins' = ListOrigins
  /\ UNCHANGED <<vars, gcAt, gcBlobs, planOrigins, planBlobs, gcTombs, rmVars>>

\* get_origin: a referenced origin is left alone.
GcOriginRefs(o) ==
  /\ gcPc = "origins" /\ gcAt = NoOrigin
  /\ o \in gcOrigins
  /\ gcOrigins' = gcOrigins \ {o}
  /\ gcAt' = IF originRefs[o] = 0 THEN o ELSE NoOrigin
  /\ UNCHANGED <<vars, gcPc, gcBlobs, planOrigins, planBlobs, gcTombs, rmVars>>

\* list_pins_for_origin, then get_origin_policy, whose NotFound aborts plan.
\* (Origins of the API have no TTL, so expiry does not delay them.)
GcOriginPins ==
  /\ gcPc = "origins" /\ gcAt # NoOrigin
  /\ \/ /\ \E r \in Refs : ActivePin(r, gcAt)
        /\ UNCHANGED <<gcPc, gcOrigins, planOrigins>>
     \/ /\ \A r \in Refs : ~ActivePin(r, gcAt)
        /\ gcAt \in policies
        /\ planOrigins' = planOrigins \cup {gcAt}
        /\ UNCHANGED <<gcPc, gcOrigins>>
     \/ /\ \A r \in Refs : ~ActivePin(r, gcAt)
        /\ gcAt \notin policies
        /\ gcPc' = "idle" /\ gcOrigins' = {} /\ planOrigins' = {}
  /\ gcAt' = NoOrigin
  /\ UNCHANGED <<vars, gcBlobs, planBlobs, gcTombs, rmVars>>

GcListBlobs ==
  /\ gcPc = "origins" /\ gcAt = NoOrigin /\ gcOrigins = {}
  /\ gcPc' = "blobs"
  /\ gcBlobs' = ListBlobs
  /\ UNCHANGED <<vars, gcOrigins, gcAt, planOrigins, planBlobs, gcTombs, rmVars>>

GcBlobRefs_Fault(b) ==  \* off by one
  /\ gcPc = "blobs"
  /\ b \in gcBlobs
  /\ gcBlobs' = gcBlobs \ {b}
  /\ planBlobs' = IF blobRefs[b] <= 1 THEN planBlobs \cup {b} ELSE planBlobs
  /\ UNCHANGED <<vars, gcPc, gcOrigins, gcAt, planOrigins, gcTombs, rmVars>>

\* get_blob: plan every listed blob whose count is zero.
GcBlobRefs(b) ==
  /\ gcPc = "blobs"
  /\ b \in gcBlobs
  /\ gcBlobs' = gcBlobs \ {b}
  /\ planBlobs' = IF blobRefs[b] = 0 THEN planBlobs \cup {b} ELSE planBlobs
  /\ UNCHANGED <<vars, gcPc, gcOrigins, gcAt, planOrigins, gcTombs, rmVars>>

GcPlanned ==
  /\ gcPc = "blobs" /\ gcBlobs = {}
  /\ gcPc' = "execute"
  /\ UNCHANGED <<vars, gcPlan, gcTombs, rmVars>>

-----------------------------------------------------------------------------
(* GcExecutor::execute: origins first, then blobs.                         *)

\* A tombstone record only: the registry keeps the origin as it is.
GcTombOrigin(o) ==
  /\ gcPc = "execute"
  /\ o \in planOrigins
  /\ gcTombs' = gcTombs \cup {o}
  /\ planOrigins' = planOrigins \ {o}
  /\ UNCHANGED <<vars, gcPc, gcOrigins, gcAt, gcBlobs, planBlobs, rmVars>>

\* Tombstone record, then BlobStore::delete; the count is not read again.
GcDeleteBlob(b) ==
  /\ gcPc = "execute" /\ planOrigins = {}
  /\ b \in planBlobs
  /\ bytes' = bytes \ {b}
  /\ planBlobs' = planBlobs \ {b}
  /\ UNCHANGED <<creating, originRefs, blobRefs, holding, lineage, retiring,
                 gcPc, gcOrigins, gcAt, gcBlobs, planOrigins, gcTombs, rmVars>>

GcFinish ==
  /\ gcPc = "execute" /\ planOrigins = {} /\ planBlobs = {}
  /\ gcPc' = "idle"
  /\ UNCHANGED <<vars, gcPlan, gcTombs, rmVars>>

-----------------------------------------------------------------------------
(* DELETE /v1/blobs/:id.                                                   *)

RmHas(b) ==
  /\ rmPc = "idle"
  /\ "rm_race" \in Permits \/ \A o \in Origins : ~Busy(o)
  /\ b \in bytes
  /\ rmPc' = "count" /\ rmBlob' = b
  /\ UNCHANGED <<vars, gcVars>>

RmCount_Fault ==  \* the conflict leaves the request open
  /\ rmPc = "count"
  /\ \/ /\ blobRefs[rmBlob] > 0
        /\ rmPc' = "idle" /\ UNCHANGED rmBlob
     \/ /\ blobRefs[rmBlob] = 0
        /\ rmPc' = "delete" /\ UNCHANGED rmBlob
  /\ UNCHANGED <<vars, gcVars>>

\* 409 while the blob is referenced.
RmCount ==
  /\ rmPc = "count"
  /\ \/ /\ blobRefs[rmBlob] > 0
        /\ rmPc' = "idle" /\ rmBlob' = NoBlob
     \/ /\ blobRefs[rmBlob] = 0
        /\ rmPc' = "delete" /\ UNCHANGED rmBlob
  /\ UNCHANGED <<vars, gcVars>>

RmDelete ==
  /\ rmPc = "delete"
  /\ bytes' = bytes \ {rmBlob}
  /\ rmPc' = "idle" /\ rmBlob' = NoBlob
  /\ UNCHANGED <<creating, originRefs, blobRefs, holding, lineage, retiring,
                 gcVars>>

-----------------------------------------------------------------------------
\* While maintenance runs, a careful operator lets no creating request start.
MayCreate ==
  /\ GcRunning => "gc_race" \in Permits
  /\ RmRunning => "rm_race" \in Permits

Engine ==
  \/ \E o \in Origins : MayCreate /\ Create(o)
  \/ \E b \in Blobs : CreateBlob(b)
  \/ \E r \in Refs : Hold(r)
  \/ \E t \in Slots : Retire(t)

Gc ==
  \/ GcStart
  \/ \E o \in Origins : GcOriginRefs(o)
  \/ GcOriginPins
  \/ GcListBlobs
  \/ \E b \in Blobs : GcBlobRefs(b)
  \/ GcPlanned
  \/ \E o \in Origins : GcTombOrigin(o)
  \/ \E b \in Blobs : GcDeleteBlob(b)
  \/ GcFinish

Rm == (\E b \in Blobs : RmHas(b)) \/ RmCount \/ RmDelete

GcInit ==
  /\ Init
  /\ gcPc = "idle"
  /\ gcOrigins = {} /\ gcAt = NoOrigin /\ gcBlobs = {}
  /\ planOrigins = {} /\ planBlobs = {}
  /\ gcTombs = {}
  /\ rmPc = "idle" /\ rmBlob = NoBlob

GcNext ==
  \/ Engine /\ UNCHANGED <<gcVars, rmVars>>
  \/ Gc
  \/ Rm

GcSpec == GcInit /\ [][GcNext]_allVars

\* Requests run to their end (a thread of the server executes each), and the
\* operator runs the collector again and again.
Fairness ==
  /\ \A o \in Origins : WF_allVars(pc[o] # "idle" /\ MayCreate /\ Create(o) /\
                                      UNCHANGED <<gcVars, rmVars>>)
  /\ WF_allVars(Gc)

FairGcSpec == GcSpec /\ Fairness

\* Every origin the scan lists has a policy, so plan() never aborts with
\* NotFound, and a listed upload has a record, so GET /v1/origins, which fails
\* as a whole on the first origin without one, does not trip over uploads in
\* flight or cut short.
ListedOriginsKnown ==
  \A o \in Origins : HasOriginRow(o) =>
    o \in policies /\ (o \in Uploads => registry[o] # "absent")

\* The abstraction: an origin is published when its creating request ends and
\* retired when a tombstone request has read its record.
Acked   == {o \in Origins : pc[o] = "done"}
Retired == {o \in Origins : \E t \in Slots : tombOf[t] = o}
Needs   == [o \in Origins |-> {Content[o][i] : i \in DOMAIN Content[o]}]

R == INSTANCE Retention WITH live <- Acked, retired <- Retired, store <- bytes

\* The engine with its collector implements Retention: nothing that a
\* published, unretired origin needs is ever reclaimed.
ImplementsRetention == R!Spec

\* Bytes are deleted only when the blob's count is zero at that moment
\* (guides/STEP_10_GUIDE.md: "Bytes are deleted only when blob_refcount == 0").
DeletedOnlyAtZero ==
  [][\A b \in Blobs : b \in bytes /\ b \notin bytes' => blobRefs[b] = 0]_allVars

\* No bytes are deleted while an active pin is on an origin that needs them
\* (DURABILITY_SPEC.md: "SODL deletes bytes ONLY when ... No active pins").
PinnedBytesKept ==
  [][\A o \in Origins, r \in Refs : ActivePin(r, o) /\ o \in Acked =>
       \A b \in Needs[o] : b \in bytes => b \in bytes']_allVars

\* A blob that was counted, has no holder left and still has its bytes.
Garbage(b) == HasBlobRow(b) /\ blobRefs[b] = 0 /\ b \in bytes

\* If requests and the collector keep taking steps, garbage is collected
\* (tombstone_origin: "Bytes are deleted by policy-aware GC when blob refcount
\* reaches 0").
GarbageReclaimed == \A b \in Blobs : Garbage(b) ~> ~Garbage(b)

=============================================================================
