---------------------------- MODULE SodlGcProofs ----------------------------
(***************************************************************************)
(* Theorems about the engine composed with its garbage collector and with  *)
(* DELETE /v1/blobs/:id: with a careful operator, bytes go only when their *)
(* count is zero, and the composition implements Retention, so that every  *)
(* origin acknowledged and not tombstoned can be read back.                *)
(***************************************************************************)
EXTENDS SodlGc, SodlServiceProofs

\* A careful operator: neither the collector nor a deletion overlaps a creating
\* request.
NoRace     == "gc_race" \notin Permits /\ "rm_race" \notin Permits
Maintained == NoRace /\ Careful

-----------------------------------------------------------------------------
(* What the operator and the clients keep true.                            *)

\* The planner and the executor only name uncounted blobs, and nothing counts
\* blobs while they run.
PlanInv ==
  /\ gcPc \in GcPhases /\ rmPc \in RmPhases
  /\ GcRunning \/ RmRunning => \A o \in Origins : ~Busy(o)
  /\ planBlobs \subseteq Blobs
  /\ gcPc \in {"idle", "origins"} => planBlobs = {}
  /\ \A b \in planBlobs : blobRefs[b] = 0
  /\ RmRunning => rmBlob \in Blobs
  /\ rmPc = "delete" => blobRefs[rmBlob] = 0

\* How many blobs a creating request has stored or found, by its phase.
PutAt(o) ==
  IF o \in Uploads
  THEN pc[o] \in {"register", "inc_origin", "inc_blob", "edge"} => put[o] = Len0(o)
  ELSE /\ pc[o] = "inc_origin" => put[o] = End(o, reps[o] + 1)
       /\ pc[o] \in {"inc_blob", "edge"} => put[o] = End(o, reps[o])
       /\ pc[o] = "register" => put[o] = Len0(o)

\* The k-th blob a creating request stores or finds.
PutPlace(o, k) == IF o \in Uploads THEN PutIndex(o, k) ELSE k

\* What a creating request has stored or found stays until it ends, and what it
\* published stays until a tombstone request names it.
StoredAt(o) ==
  /\ Busy(o) => \A k \in 1..put[o] : Content[o][PutPlace(o, k)] \in bytes
  /\ o \in Acked \ Retired => \A i \in 1..Len0(o) : Content[o][i] \in bytes

StoreInv == \A o \in Origins : PutAt(o) /\ StoredAt(o)

\* Every origin named anywhere has a policy, and a record unless it is of the
\* API and still being counted.
KnownAt(o) ==
  /\ pc[o] # "idle" \/ registry[o] # "absent" => o \in policies
  /\ o \in Uploads =>
       (pc[o] \in {"inc_origin", "inc_blob", "edge", "done"} \/ reps[o] > 0
          => registry[o] # "absent")

KnownInv ==
  /\ \A o \in Origins : KnownAt(o)
  /\ \A r \in Refs : ref[r] # "unused" => registry[refOf[r]] # "absent"
  /\ \A t \in Slots : tombOf[t] # NoOrigin => registry[tombOf[t]] # "absent"

-----------------------------------------------------------------------------
(* What maintenance leaves alone: every part of the engine but the bytes.  *)

Quiet ==
  /\ UNCHANGED <<creating, originRefs, blobRefs, holding, lineage, retiring>>
  /\ bytes' \subseteq bytes

Deletes(b) == GcDeleteBlob(b) \/ (RmDelete /\ b = rmBlob)

\* A step is one of the engine, or one of maintenance that deletes a blob or
\* leaves the engine as it is.
LEMMA GcSteps ==
  ASSUME [GcNext]_allVars
  PROVE  \/ Engine /\ UNCHANGED <<gcVars, rmVars>>
         \/ Quiet /\ (UNCHANGED bytes \/ \E b \in Blobs \cup {rmBlob} : Deletes(b))
<1>1. CASE Gc
  <2>1. CASE \E b \in Blobs : GcDeleteBlob(b)
    BY <2>1 DEF GcDeleteBlob, Quiet, Deletes
  <2>2. CASE ~\E b \in Blobs : GcDeleteBlob(b)
    BY <1>1, <2>2 DEF Gc, GcStart, GcOriginRefs, GcOriginPins, GcListBlobs, GcBlobRefs,
       GcPlanned, GcTombOrigin, GcFinish, Quiet, vars
  <2>3. QED
    BY <2>1, <2>2
<1>2. CASE Rm
  <2>1. CASE RmDelete
    BY <2>1 DEF RmDelete, Quiet, Deletes
  <2>2. CASE ~RmDelete
    BY <1>2, <2>2 DEF Rm, RmHas, RmCount, Quiet, vars
  <2>3. QED
    BY <2>1, <2>2
<1>3. CASE UNCHANGED allVars
  BY <1>3 DEF allVars, vars, Quiet
<1>4. QED
  BY <1>1, <1>2, <1>3 DEF GcNext

\* An engine step of the composition is one of the engine on its own.
LEMMA EngineSteps == Engine => Next
BY DEF Engine, Next

LEMMA QuietTypes ==
  ASSUME TypeInv, Quiet
  PROVE  TypeInv'
<1> USE DEF Quiet, creating, holding, retiring, TypeInv
<1>1. bytes' \subseteq Blobs
  BY DEF TypeOK
<1>2. TypeOK'
  BY <1>1 DEF TypeOK
<1>3. DecsInv'
  BY DEF DecsInv
<1>4. QED
  BY <1>2, <1>3, CreateFrame

LEMMA GcTypes ==
  ASSUME TypeInv, [GcNext]_allVars
  PROVE  TypeInv'
BY GcSteps, EngineSteps, TypeStep, QuietTypes

\* The ledger and what it rests on are the engine's own, maintenance or not.
LEMMA GcLedger ==
  ASSUME Careful, WholeInv, LedgerInv, [GcNext]_allVars
  PROVE  WholeInv' /\ LedgerInv'
<1>1. ASSUME Quiet
      PROVE  WholeInv' /\ LedgerInv'
  <2>1. TombInv'
    BY <1>1 DEF WholeInv, TombInv, Releasing, Quiet, creating, retiring
  <2>2. LedgerInv'
    BY <1>1, LedgerFrame DEF Quiet, creating, retiring, Held, Released
  <2>3. QED
    BY <1>1, <2>1, <2>2, QuietTypes DEF WholeInv
<1>2. CASE Engine
  BY <1>2, EngineSteps, WholeStep, LedgerStep DEF Careful
<1>3. QED
  BY <1>1, <1>2, GcSteps

-----------------------------------------------------------------------------
(* Bytes go only when their count is zero.                                 *)

\* While maintenance runs no creating request moves, so the counts of blobs
\* only fall.
LEMMA CountsFall ==
  ASSUME NoRace, TypeInv, Engine, GcRunning \/ RmRunning
  PROVE  /\ UNCHANGED pc
         /\ \A b \in Blobs : blobRefs[b] = 0 => blobRefs'[b] = 0
<1> USE DEF creating, holding, retiring
<1>1. ~MayCreate
  BY DEF MayCreate, NoRace
<1>2. CASE UNCHANGED <<pc, blobRefs>>
  BY <1>2
<1>3. ASSUME NEW t \in Slots, Retire(t)
      PROVE  UNCHANGED pc /\ \A b \in Blobs : blobRefs[b] = 0 => blobRefs'[b] = 0
  <2>1. UNCHANGED pc
    BY <1>3, Frames
  <2>2. CASE TombDecBlob(t)
    BY <2>1, <2>2 DEF TombDecBlob, UncountBlob, Dec, TypeInv, TypeOK
  <2>3. CASE ~TombDecBlob(t)
    BY <1>3, <2>1, <2>3 DEF Retire, TombRead, TombDecOrigin, TombUpdate
  <2>4. QED
    BY <2>2, <2>3
<1>4. QED
  BY <1>1, <1>2, <1>3, Frames DEF Engine

LEMMA PlanStep ==
  ASSUME NoRace, TypeInv, PlanInv, [GcNext]_allVars
  PROVE  PlanInv'
<1> USE DEF GcRunning, RmRunning, GcPhases, RmPhases, Busy
<1>1. CASE Engine /\ UNCHANGED <<gcVars, rmVars>>
  <2>1. UNCHANGED <<gcPc, rmPc, planBlobs, rmBlob>>
    BY <1>1 DEF gcVars, gcPlan, rmVars
  <2>2. CASE GcRunning \/ RmRunning
    BY <1>1, <2>1, <2>2, CountsFall DEF PlanInv
  <2>3. CASE ~(GcRunning \/ RmRunning)
    BY <2>1, <2>3 DEF PlanInv
  <2>4. QED
    BY <2>2, <2>3
<1>2. CASE Gc
  <2>1. UNCHANGED <<pc, blobRefs, rmPc, rmBlob>>
    BY <1>2 DEF Gc, GcStart, GcOriginRefs, GcOriginPins, GcListBlobs, GcBlobRefs, GcPlanned,
       GcTombOrigin, GcDeleteBlob, GcFinish, vars, creating, rmVars
  <2>2. CASE GcStart
    BY <2>1, <2>2 DEF GcStart, PlanInv, NoRace
  <2>3. CASE (\E o \in Origins : GcOriginRefs(o)) \/ GcOriginPins
    BY <2>1, <2>3 DEF GcOriginRefs, GcOriginPins, PlanInv
  <2>4. CASE GcListBlobs \/ GcPlanned \/ \E o \in Origins : GcTombOrigin(o)
    BY <2>1, <2>4 DEF GcListBlobs, GcPlanned, GcTombOrigin, PlanInv, gcPlan
  <2>5. ASSUME NEW b \in Blobs, GcBlobRefs(b)
        PROVE  PlanInv'
    BY <2>1, <2>5 DEF GcBlobRefs, PlanInv
  <2>6. ASSUME NEW b \in Blobs, GcDeleteBlob(b)
        PROVE  PlanInv'
    BY <2>1, <2>6 DEF GcDeleteBlob, PlanInv
  <2>7. CASE GcFinish
    BY <2>1, <2>7 DEF GcFinish, PlanInv, gcPlan
  <2>8. QED
    BY <1>2, <2>2, <2>3, <2>4, <2>5, <2>6, <2>7 DEF Gc
<1>3. CASE Rm
  <2>1. UNCHANGED <<pc, blobRefs, gcPc, planBlobs>>
    BY <1>3 DEF Rm, RmHas, RmCount, RmDelete, vars, creating, gcVars, gcPlan
  <2>2. ASSUME NEW b \in Blobs, RmHas(b)
        PROVE  PlanInv'
    BY <2>1, <2>2 DEF RmHas, PlanInv, NoRace
  <2>3. CASE RmCount \/ RmDelete
    BY <2>1, <2>3 DEF RmCount, RmDelete, PlanInv
  <2>4. QED
    BY <1>3, <2>2, <2>3 DEF Rm
<1>4. CASE UNCHANGED allVars
  BY <1>4 DEF allVars, vars, creating, gcVars, gcPlan, rmVars, PlanInv
<1>5. QED
  BY <1>1, <1>2, <1>3, <1>4 DEF GcNext

\* A deletion names a blob that nothing counts.
LEMMA DeletesZero ==
  ASSUME PlanInv, NEW b \in Blobs \cup {rmBlob}, Deletes(b)
  PROVE  /\ b \in Blobs /\ blobRefs[b] = 0
         /\ bytes' = bytes \ {b}
         /\ GcRunning \/ RmRunning
BY DEF PlanInv, Deletes, GcDeleteBlob, RmDelete, GcRunning, RmRunning

LEMMA PlanStart == GcInit => TypeInv /\ PlanInv
<1> SUFFICES ASSUME GcInit PROVE TypeInv /\ PlanInv
  OBVIOUS
<1>1. TypeInv
  BY WholeInit DEF GcInit, WholeInv
<1>2. PlanInv
  BY DEF GcInit, PlanInv, GcPhases, RmPhases, GcRunning, RmRunning
<1>3. QED
  BY <1>1, <1>2

\* The engine never removes bytes.
LEMMA EngineKeeps ==
  ASSUME Engine
  PROVE  bytes \subseteq bytes'
<1> USE DEF creating, holding, retiring
<1>1. ASSUME NEW o \in Origins, Create(o)
      PROVE  bytes \subseteq bytes'
  BY <1>1 DEF Create, Begin, PutBytes, CheckBlob, Register, IncOrigin, IncBlob,
         AddEdge, Abandon
<1>2. ASSUME NEW r \in Refs, Hold(r)
      PROVE  bytes \subseteq bytes'
  BY <1>2 DEF Hold, RefRecord, RefCount, RefEdge, ReleaseShare, ReleasePin, DropPin
<1>3. ASSUME NEW t \in Slots, Retire(t)
      PROVE  bytes \subseteq bytes'
  BY <1>3 DEF Retire, TombRead, TombDecOrigin, TombDecBlob, TombUpdate
<1>4. QED
  BY <1>1, <1>2, <1>3 DEF Engine, CreateBlob

\* If the operator lets neither the collector nor DELETE /v1/blobs overlap a
\* creating request, bytes are deleted only when their count is zero at that
\* moment, though the executor deletes what an earlier plan named: the promise
\* that the run gc_race refutes without that care.
THEOREM DeletesOnlyAtZero == NoRace => (GcSpec => DeletedOnlyAtZero)
<1> SUFFICES ASSUME NoRace PROVE GcSpec => DeletedOnlyAtZero
  OBVIOUS
<1> DEFINE Lost(b) == b \in bytes /\ b \notin bytes' => blobRefs[b] = 0
<1>1. GcInit => TypeInv /\ PlanInv
  BY PlanStart
<1>2. TypeInv /\ PlanInv /\ [GcNext]_allVars => (TypeInv /\ PlanInv)'
  BY GcTypes, PlanStep
<1>3. TypeInv /\ PlanInv /\ [GcNext]_allVars => \A b \in Blobs : Lost(b)
  <2> SUFFICES ASSUME PlanInv, [GcNext]_allVars, NEW b \in Blobs, b \in bytes, b \notin bytes'
               PROVE  blobRefs[b] = 0
    OBVIOUS
  <2>1. PICK c \in Blobs \cup {rmBlob} : Deletes(c)
    BY GcSteps, EngineKeeps
  <2>2. c = b
    BY <2>1, DeletesZero
  <2>3. QED
    BY <2>1, <2>2, DeletesZero
<1>4. QED
  BY <1>1, <1>2, <1>3, PTL DEF GcSpec, DeletedOnlyAtZero

-----------------------------------------------------------------------------
(* What creating requests store.                                           *)

\* The positions a request stores or finds are positions of its content, and
\* when it has been through all of them every blob of it was stored.
LEMMA PutPlaces ==
  ASSUME NEW o \in Origins
  PROVE  /\ \A k \in 1..Len0(o) : PutPlace(o, k) \in 1..Len0(o)
         /\ \A i \in 1..Len0(o) : \E k \in 1..Len0(o) : PutPlace(o, k) = i
<1>1. Len0(o) \in Nat
  BY ContentFacts DEF ContentOf
<1>2. ASSUME NEW i \in 1..Len0(o)
      PROVE  \E k \in 1..Len0(o) : PutPlace(o, k) = i
  <2>1. CASE o \notin Uploads
    BY <2>1 DEF PutPlace
  <2>2. CASE o \in Uploads /\ i = 1
    <3>1. Len0(o) \in 1..Len0(o) /\ PutPlace(o, Len0(o)) = 1
      BY <1>1, <2>2 DEF PutPlace, PutIndex
    <3>2. QED
      BY <2>2, <3>1
  <2>3. CASE o \in Uploads /\ i # 1
    <3>1. i - 1 \in 1..Len0(o) /\ PutPlace(o, i - 1) = i
      BY <1>1, <2>3 DEF PutPlace, PutIndex
    <3>2. QED
      BY <3>1
  <2>4. QED
    BY <2>1, <2>2, <2>3
<1>3. \A k \in 1..Len0(o) : PutPlace(o, k) \in 1..Len0(o)
  BY <1>1 DEF PutPlace, PutIndex
<1>4. QED
  BY <1>2, <1>3

\* One step of a creating request keeps the number of its stored blobs right.
LEMMA PutCreate ==
  ASSUME TypeInv, NEW o \in Origins, Create(o), PutAt(o)
  PROVE  PutAt(o)'
<1> USE DEF creating, holding, retiring, Goto, TypeInv
<1>0. /\ ContentOf(o) /\ (IF o \in Uploads THEN UploadAt(o) ELSE ApiAt(o))
      /\ put[o] \in Nat /\ reps[o] \in 0..NReps(o) /\ incs[o] \in 0..Len0(o)
      /\ pc \in [Origins -> CreatePhases] /\ reps \in [Origins -> Nat]
      /\ put \in [Origins -> Nat]
  BY ContentFacts DEF CreateInv, TypeOK, ContentOf
<1>1. CASE o \in Uploads
  <2>1. CASE PutBytes(o)
    BY <1>0, <1>1, <2>1 DEF PutBytes, PutAt, UploadAt, ContentOf
  <2>2. CASE Begin(o) \/ CheckBlob(o) \/ Register(o) \/ IncOrigin(o) \/ IncBlob(o)
             \/ AddEdge(o) \/ Abandon(o)
    BY <1>0, <1>1, <2>2 DEF Begin, CheckBlob, Register, IncOrigin, IncBlob, AddEdge,
       Abandon, PutAt, UploadAt
  <2>3. QED
    BY <2>1, <2>2 DEF Create
<1>2. CASE o \notin Uploads
  <2> DEFINE k == reps[o]
  <2>1. ASSUME NEW j \in 0..NReps(o), pc'[o] = NextRep(o, j), reps'[o] = j,
               put'[o] = End(o, j)
        PROVE  PutAt(o)'
    <3>1. j \in Nat /\ NReps(o) \in Nat /\ End(o, j) \in Nat /\ NRoots(o) = Len0(o)
          /\ End(o, NReps(o)) = NRoots(o)
      BY <1>0, <1>2 DEF ContentOf
    <3>2. CASE j = NReps(o)
      BY <1>2, <2>1, <3>1, <3>2 DEF PutAt, NextRep
    <3>3. CASE j # NReps(o)
      <4>1. End(o, j + 1) \in Nat /\ End(o, j) <= End(o, j + 1)
        BY <1>0, <3>1, <3>3 DEF ContentOf
      <4>2. QED
        BY <1>2, <2>1, <3>1, <3>3, <4>1 DEF PutAt, NextRep
    <3>4. QED
      BY <3>2, <3>3
  <2>2. CASE Begin(o)
    <3>1. pc'[o] = NextRep(o, 0) /\ reps'[o] = 0 /\ put'[o] = 0 /\ 0 \in 0..NReps(o)
      BY <1>0, <1>2, <2>2 DEF Begin, ApiAt, ContentOf
    <3>2. End(o, 0) = 0
      BY <1>0 DEF ContentOf
    <3>3. QED
      BY <2>1, <3>1, <3>2
  <2>3. CASE CheckBlob(o)
    <3>1. k < NReps(o) /\ put[o] < End(o, k + 1) /\ End(o, k + 1) \in Nat
      BY <1>0, <1>2, <2>3 DEF CheckBlob, ApiAt, ContentOf
    <3>2. /\ reps'[o] = k
          /\ pc'[o] \in {"check", "failed"} \/ (pc'[o] = "inc_origin"
               /\ ~(put[o] + 1 < End(o, k + 1)) /\ put'[o] = put[o] + 1)
      BY <1>0, <2>3 DEF CheckBlob
    <3>3. pc'[o] = "inc_origin" => put'[o] = End(o, k + 1)
      BY <1>0, <3>1, <3>2
    <3>4. QED
      BY <1>2, <3>2, <3>3 DEF PutAt
  <2>4. CASE IncOrigin(o)
    <3>1. /\ put[o] = End(o, k + 1) /\ k + 1 \in 0..NReps(o)
          /\ put'[o] = put[o] /\ reps'[o] = k + 1
          /\ pc'[o] = "inc_blob" \/ pc'[o] = NextRep(o, k + 1)
      BY <1>0, <1>2, <2>4 DEF IncOrigin, PutAt, ApiAt, ContentOf
    <3>2. CASE pc'[o] = "inc_blob"
      BY <1>2, <3>1, <3>2 DEF PutAt
    <3>3. CASE pc'[o] = NextRep(o, k + 1)
      BY <2>1, <3>1, <3>3
    <3>4. QED
      BY <3>1, <3>2, <3>3
  <2>5. CASE AddEdge(o)
    <3>1. /\ put[o] = End(o, k) /\ put'[o] = put[o] /\ reps'[o] = k
          /\ pc'[o] = "inc_blob" \/ pc'[o] = NextRep(o, k)
      BY <1>0, <1>2, <2>5 DEF AddEdge, PutAt
    <3>2. CASE pc'[o] = "inc_blob"
      BY <1>2, <3>1, <3>2 DEF PutAt
    <3>3. CASE pc'[o] = NextRep(o, k)
      BY <1>0, <2>1, <3>1, <3>3
    <3>4. QED
      BY <3>1, <3>2, <3>3
  <2>6. CASE IncBlob(o)
    BY <1>0, <1>2, <2>6 DEF IncBlob, PutAt, MoreChunks
  <2>7. CASE Register(o) \/ Abandon(o)
    BY <1>0, <1>2, <2>7 DEF Register, Abandon, PutAt
  <2>8. CASE PutBytes(o)
    BY <1>0, <1>2, <2>8 DEF PutBytes, ApiAt
  <2>9. QED
    BY <2>2, <2>3, <2>4, <2>5, <2>6, <2>7, <2>8 DEF Create
<1>3. QED
  BY <1>1, <1>2

\* One step of a creating request keeps what it stored, and publishes the
\* origin with all of its content stored.
LEMMA StoredCreate ==
  ASSUME TypeInv, NEW o \in Origins, Create(o), PutAt(o), StoredAt(o)
  PROVE  StoredAt(o)'
<1> USE DEF creating, holding, retiring, Goto, TypeInv
<1>0. /\ (IF o \in Uploads THEN UploadAt(o) ELSE ApiAt(o))
      /\ put[o] \in Nat /\ put[o] <= Len0(o) /\ Len0(o) \in Nat
      /\ pc \in [Origins -> CreatePhases] /\ put \in [Origins -> Nat]
  BY ContentFacts DEF CreateInv, TypeOK, ContentOf
<1>1. pc[o] \notin {"done", "failed"} /\ bytes \subseteq bytes'
  BY DEF Create, Begin, PutBytes, CheckBlob, Register, IncOrigin, IncBlob,
         AddEdge, Abandon
<1>2. \A k \in 1..put[o] : Content[o][PutPlace(o, k)] \in bytes'
  <2>1. CASE pc[o] = "idle"
    BY <1>0, <2>1 DEF UploadAt, ApiAt
  <2>2. CASE pc[o] # "idle"
    BY <1>1, <2>2 DEF StoredAt, Busy
  <2>3. QED
    BY <2>1, <2>2
<1>3. Busy(o)' => \A k \in 1..put'[o] : Content[o][PutPlace(o, k)] \in bytes'
  <2>1. CASE put'[o] = put[o]
    BY <1>2, <2>1
  <2>2. CASE put'[o] # put[o]
    <3>1. CASE PutBytes(o)
      <4>1. put'[o] = put[o] + 1 /\ o \in Uploads
        BY <1>0, <3>1 DEF PutBytes, ApiAt
      <4>2. Content[o][PutPlace(o, put[o] + 1)] \in bytes'
        BY <3>1, <4>1 DEF PutBytes, PutPlace
      <4>3. QED
        BY <1>0, <1>2, <4>1, <4>2
    <3>2. CASE CheckBlob(o)
      <4>1. put'[o] = put[o] + 1 /\ o \notin Uploads /\ Content[o][put[o] + 1] \in bytes
        BY <1>0, <2>2, <3>2 DEF CheckBlob, UploadAt
      <4>2. Content[o][PutPlace(o, put[o] + 1)] \in bytes'
        BY <1>1, <4>1 DEF PutPlace
      <4>3. QED
        BY <1>0, <1>2, <4>1, <4>2
    <3>3. QED
      BY <2>2, <3>1, <3>2 DEF Create, Begin, Register, IncOrigin, IncBlob, AddEdge, Abandon
  <2>3. QED
    BY <2>1, <2>2
<1>4. pc'[o] = "done" => put[o] = Len0(o)
  <2>1. CASE Begin(o) \/ PutBytes(o) \/ CheckBlob(o) \/ IncOrigin(o) \/ IncBlob(o)
             \/ Abandon(o)
    BY <1>0, <2>1 DEF Begin, PutBytes, CheckBlob, IncOrigin, IncBlob, Abandon, NextRep
  <2>2. CASE Register(o) \/ AddEdge(o)
    BY <1>0, <2>2 DEF Register, AddEdge, NextRep, PutAt
  <2>3. QED
    BY <2>1, <2>2 DEF Create
<1>5. pc'[o] = "done" => \A i \in 1..Len0(o) : Content[o][i] \in bytes'
  BY <1>2, <1>4, PutPlaces
<1>6. QED
  BY <1>3, <1>5 DEF StoredAt, Acked

\* A counted blob: nothing that a published, unretired origin needs has count
\* zero.
LEMMA NeededCounted ==
  ASSUME WholeInv, LedgerInv, NEW o \in Acked \ Retired, NEW i \in 1..Len0(o)
  PROVE  Content[o][i] \in Blobs /\ blobRefs[Content[o][i]] # 0
<1> DEFINE b == Content[o][i]
<1>1. o \in Origins /\ pc[o] = "done"
  BY DEF Acked
<1>2. b \in Blobs /\ Len0(o) \in Nat
  BY <1>1, ContentFacts DEF ContentOf
<1>3. PICK q \in Positions : q = <<o, i>>
  BY <1>1, PlaceExists
<1>4. incs[o] = Len0(o)
  BY <1>1 DEF WholeInv, TypeInv, CreateInv, UploadAt, ApiAt
<1>5. ~Released(o, i)
  BY <1>1 DEF Released, Retired
<1>6. q \in BlobHolders(b)
  BY <1>2, <1>3, <1>4, <1>5 DEF BlobHolders
<1>7. QED
  BY <1>2, <1>6, FS_EmptySet DEF LedgerInv

LEMMA StoreStep ==
  ASSUME WholeInv, LedgerInv, PlanInv, StoreInv, [GcNext]_allVars
  PROVE  StoreInv'
<1> USE DEF creating, holding, retiring
<1>1. ASSUME NEW o \in Origins, UNCHANGED <<pc, put, reps>>, Retired \subseteq Retired',
             \A b \in Blobs : b \in bytes /\ (blobRefs[b] # 0 \/ Busy(o)) => b \in bytes'
      PROVE  PutAt(o)' /\ StoredAt(o)'
  <2>1. PutAt(o)'
    BY <1>1 DEF StoreInv, PutAt
  <2>2. ASSUME Busy(o), NEW k \in 1..put[o]
        PROVE  Content[o][PutPlace(o, k)] \in bytes'
    <3>1. k \in 1..Len0(o)
      BY ContentFacts DEF WholeInv, TypeInv, TypeOK, ContentOf
    <3>2. Content[o][PutPlace(o, k)] \in Blobs
      BY <3>1, PutPlaces, ContentFacts
    <3>3. QED
      BY <1>1, <2>2, <3>2 DEF StoreInv, StoredAt
  <2>3. ASSUME o \in Acked \ Retired, NEW i \in 1..Len0(o)
        PROVE  Content[o][i] \in bytes'
    <3>1. Content[o][i] \in bytes
      BY <2>3 DEF StoreInv, StoredAt
    <3>2. Content[o][i] \in Blobs /\ blobRefs[Content[o][i]] # 0
      BY <2>3, NeededCounted
    <3>3. QED
      BY <1>1, <3>1, <3>2
  <2>4. Busy(o)' = Busy(o) /\ Acked' = Acked
    BY <1>1 DEF Busy, Acked
  <2>5. QED
    BY <1>1, <2>1, <2>2, <2>3, <2>4 DEF StoredAt
<1>2. CASE Engine
  <2>1. bytes \subseteq bytes'
    BY <1>2, EngineKeeps
  <2>2. ASSUME NEW o \in Origins, Create(o)
        PROVE  StoreInv'
    <3>1. PutAt(o)' /\ StoredAt(o)'
      BY <2>2, PutCreate, StoredCreate DEF WholeInv, StoreInv
    <3>2. UNCHANGED tombOf
      BY <2>2, Frames
    <3>3. \A p \in Origins \ {o} : pc'[p] = pc[p] /\ put'[p] = put[p] /\ reps'[p] = reps[p]
      BY <2>2 DEF Create, Begin, PutBytes, CheckBlob, Register, IncOrigin, IncBlob,
         AddEdge, Abandon, Goto, WholeInv, TypeInv, TypeOK
    <3>4. ASSUME NEW p \in Origins, p # o
          PROVE  PutAt(p)' /\ StoredAt(p)'
      <4>1. PutAt(p)'
        BY <3>3, <3>4 DEF StoreInv, PutAt
      <4>2. StoredAt(p)'
        BY <2>1, <3>2, <3>3, <3>4 DEF StoreInv, StoredAt, Busy, Acked, Retired
      <4>3. QED
        BY <4>1, <4>2
    <3>5. QED
      BY <3>1, <3>4 DEF StoreInv
  <2>3. ASSUME UNCHANGED <<pc, put, reps>>, Retired \subseteq Retired'
        PROVE  StoreInv'
    BY <1>1, <2>1, <2>3 DEF StoreInv
  <2>4. ASSUME NEW t \in Slots, Retire(t)
        PROVE  Retired \subseteq Retired'
    <3>1. UNCHANGED tombOf \/ (tombOf[t] = NoOrigin /\ \E o \in Origins : tombOf' = [tombOf EXCEPT ![t] = o])
      BY <2>4 DEF Retire, TombRead, TombDecOrigin, TombDecBlob, TombUpdate, Idle,
         WholeInv, TypeInv, TypeOK
    <3>2. QED
      BY <3>1, NameAssumption DEF Retired, WholeInv, TypeInv, TypeOK
  <2>5. UNCHANGED tombOf => Retired' = Retired
    BY DEF Retired
  <2>6. QED
    BY <1>2, <2>2, <2>3, <2>4, <2>5, Frames DEF Engine
<1>3. CASE Quiet /\ (UNCHANGED bytes \/ \E b \in Blobs \cup {rmBlob} : Deletes(b))
  <2>1. UNCHANGED <<pc, put, reps>> /\ Retired' = Retired
    BY <1>3 DEF Quiet, Retired
  <2>2. ASSUME NEW b \in Blobs \cup {rmBlob}, Deletes(b), NEW o \in Origins, NEW c \in Blobs,
               c \in bytes, blobRefs[c] # 0 \/ Busy(o)
        PROVE  c \in bytes'
    <3>1. ~Busy(o)
      BY <2>2, DeletesZero DEF PlanInv
    <3>2. QED
      BY <2>2, <3>1, DeletesZero
  <2>3. \A o \in Origins : \A c \in Blobs :
          c \in bytes /\ (blobRefs[c] # 0 \/ Busy(o)) => c \in bytes'
    BY <1>3, <2>2
  <2>4. QED
    BY <1>1, <2>1, <2>3 DEF StoreInv
<1>4. QED
  BY <1>2, <1>3, GcSteps

LEMMA StoreStart == GcInit => WholeInv /\ LedgerInv /\ PlanInv /\ StoreInv
<1> SUFFICES ASSUME GcInit PROVE WholeInv /\ LedgerInv /\ PlanInv /\ StoreInv
  OBVIOUS
<1>1. WholeInv /\ LedgerInv
  BY WholeInit, LedgerStart DEF GcInit
<1>2. StoreInv
  BY DEF GcInit, Init, StoreInv, PutAt, StoredAt, Busy, Acked
<1>3. QED
  BY <1>1, <1>2, PlanStart

RetentionInv == WholeInv /\ LedgerInv /\ PlanInv /\ StoreInv

LEMMA RetentionInvStep ==
  ASSUME Maintained, RetentionInv, [GcNext]_allVars
  PROVE  RetentionInv'
BY GcLedger, PlanStep, StoreStep DEF RetentionInv, Maintained, WholeInv

-----------------------------------------------------------------------------
(* The engine with its collector implements Retention.                     *)

\* A step of a creating request publishes the origin, stores a blob or shows
\* nothing.
LEMMA CreateRetains ==
  ASSUME RetentionInv, RetentionInv', NEW o \in Origins, Create(o)
  PROVE  [R!Next]_R!vars
<1> USE DEF creating, holding, retiring, Goto
<1>1. UNCHANGED tombOf /\ Retired' = Retired
  BY Frames DEF Retired
<1>2. pc \in [Origins -> CreatePhases] /\ pc[o] # "done" /\ \E phase : pc' = [pc EXCEPT ![o] = phase]
  BY DEF Create, Begin, PutBytes, CheckBlob, Register, IncOrigin, IncBlob,
         AddEdge, Abandon, RetentionInv, WholeInv, TypeInv, TypeOK
<1>3. CASE PutBytes(o)
  <2>1. pc'[o] # "done" /\ Acked' = Acked
    BY <1>2, <1>3 DEF PutBytes, Acked
  <2>2. PICK b : bytes' = bytes \cup {b}
    BY <1>3 DEF PutBytes
  <2>3. b \in Blobs
    BY <2>2 DEF RetentionInv, WholeInv, TypeInv, TypeOK
  <2>4. R!Store(b)
    BY <1>1, <2>1, <2>2 DEF R!Store
  <2>5. QED
    BY <2>3, <2>4 DEF R!Next
<1>4. CASE ~PutBytes(o)
  <2>1. UNCHANGED bytes
    BY <1>4 DEF Create, Begin, CheckBlob, Register, IncOrigin, IncBlob, AddEdge, Abandon
  <2>2. CASE pc'[o] = "done"
    <3>1. Acked' = Acked \cup {o} /\ o \notin Acked
      BY <1>2, <2>2 DEF Acked
    <3>2. o \notin Retired' => \A i \in 1..Len0(o) : Content[o][i] \in bytes'
      BY <3>1 DEF RetentionInv, StoreInv, StoredAt
    <3>3. o \in Retired \/ Needs[o] \subseteq bytes
      BY <1>1, <2>1, <3>2, ContentFacts DEF Needs
    <3>4. R!Publish(o)
      BY <1>1, <2>1, <3>1, <3>3 DEF R!Publish
    <3>5. QED
      BY <3>4 DEF R!Next
  <2>3. CASE pc'[o] # "done"
    <3>1. Acked' = Acked
      BY <1>2, <2>3 DEF Acked
    <3>2. QED
      BY <1>1, <2>1, <3>1 DEF R!vars
  <2>4. QED
    BY <2>2, <2>3
<1>5. QED
  BY <1>3, <1>4

\* So does a step of any other request; tombstone_origin retires the origin
\* when it reads its record.
LEMMA EngineRetains ==
  ASSUME RetentionInv, RetentionInv', Engine
  PROVE  [R!Next]_R!vars
<1> USE DEF creating, holding, retiring
<1>1. UNCHANGED pc => Acked' = Acked
  BY DEF Acked
<1>2. UNCHANGED tombOf => Retired' = Retired
  BY DEF Retired
<1>3. ASSUME NEW b \in Blobs, CreateBlob(b)
      PROVE  [R!Next]_R!vars
  <2>1. R!Store(b)
    BY <1>1, <1>2, <1>3, Frames DEF R!Store
  <2>2. QED
    BY <2>1 DEF R!Next
<1>4. ASSUME UNCHANGED <<pc, tombOf, bytes>>
      PROVE  [R!Next]_R!vars
  BY <1>1, <1>2, <1>4 DEF R!vars
<1>5. ASSUME NEW r \in Refs, Hold(r)
      PROVE  UNCHANGED <<pc, tombOf, bytes>>
  BY <1>5 DEF Hold, RefRecord, RefCount, RefEdge, ReleaseShare, ReleasePin, DropPin
<1>6. ASSUME NEW t \in Slots, NEW o \in Origins, TombRead(t, o)
      PROVE  [R!Next]_R!vars
  <2>1. /\ tombOf' = [tombOf EXCEPT ![t] = o] /\ UNCHANGED <<pc, bytes>>
        /\ tombOf[t] = NoOrigin /\ tombOf \in [Slots -> Origins \cup {NoOrigin}]
    BY <1>6 DEF TombRead, Idle, RetentionInv, WholeInv, TypeInv, TypeOK
  <2>2. Retired' = Retired \cup {o}
    BY <2>1, NameAssumption DEF Retired
  <2>3. R!Retire(o)
    BY <1>1, <2>1, <2>2 DEF R!Retire
  <2>4. QED
    BY <2>3 DEF R!Next
<1>7. ASSUME NEW t \in Slots, TombDecOrigin(t) \/ TombDecBlob(t) \/ TombUpdate(t)
      PROVE  UNCHANGED <<pc, tombOf, bytes>>
  BY <1>7 DEF TombDecOrigin, TombDecBlob, TombUpdate
<1>8. QED
  BY <1>3, <1>4, <1>5, <1>6, <1>7, CreateRetains DEF Engine, Retire

\* Maintenance reclaims a blob that no published, unretired origin needs.
LEMMA QuietRetains ==
  ASSUME RetentionInv, Quiet,
         UNCHANGED bytes \/ \E b \in Blobs \cup {rmBlob} : Deletes(b)
  PROVE  [R!Next]_R!vars
<1>1. Acked' = Acked /\ Retired' = Retired
  BY DEF Quiet, creating, retiring, Acked, Retired
<1>2. CASE UNCHANGED bytes
  BY <1>1, <1>2 DEF R!vars
<1>3. ASSUME NEW b \in Blobs \cup {rmBlob}, Deletes(b)
      PROVE  [R!Next]_R!vars
  <2>1. b \in Blobs /\ blobRefs[b] = 0 /\ bytes' = bytes \ {b}
    BY <1>3, DeletesZero DEF RetentionInv
  <2>2. ASSUME NEW o \in Acked \ Retired
        PROVE  b \notin Needs[o]
    <3>1. \A i \in 1..Len0(o) : Content[o][i] # b
      BY <2>1, NeededCounted DEF RetentionInv
    <3>2. o \in Origins
      BY DEF Acked
    <3>3. QED
      BY <3>1, <3>2, ContentFacts DEF Needs
  <2>3. R!Reclaim(b)
    BY <1>1, <2>1, <2>2 DEF R!Reclaim
  <2>4. QED
    BY <2>1, <2>3 DEF R!Next
<1>4. QED
  BY <1>2, <1>3

\* With a careful operator and clients that tombstone acknowledged origins, one
\* request at a time, the engine with its counters, its interleaved requests
\* and its collector implements Retention: nothing that an acknowledged origin
\* needs is reclaimed before a tombstone request names it.
THEOREM RetentionImplemented == Maintained => (GcSpec => ImplementsRetention)
<1> SUFFICES ASSUME Maintained PROVE GcSpec => ImplementsRetention
  OBVIOUS
<1>1. GcInit => RetentionInv
  BY StoreStart DEF RetentionInv
<1>2. RetentionInv /\ [GcNext]_allVars => RetentionInv'
  BY RetentionInvStep
<1>3. GcInit => R!Init
  BY NameAssumption DEF GcInit, Init, R!Init, Acked, Retired
<1>4. RetentionInv /\ [GcNext]_allVars => [R!Next]_R!vars
  <2> SUFFICES ASSUME RetentionInv, RetentionInv', [GcNext]_allVars
               PROVE  [R!Next]_R!vars
    BY <1>2
  <2>1. QED
    BY GcSteps, EngineRetains, QuietRetains
<1>5. QED
  BY <1>1, <1>2, <1>3, <1>4, PTL DEF GcSpec, ImplementsRetention, R!Spec

\* In Retention a reader of an origin that was acknowledged and not tombstoned
\* finds every blob of its payload (GET /v1/origins/:id/payload).
LEMMA ReadableAlways == R!Spec => []R!Readable
<1>1. R!Init => R!Readable
  BY DEF R!Init, R!Readable
<1>2. R!Readable /\ [R!Next]_R!vars => R!Readable'
  <2> SUFFICES ASSUME R!Readable, [R!Next]_R!vars PROVE R!Readable'
    OBVIOUS
  <2>1. ASSUME NEW o \in Origins, R!Publish(o)
        PROVE  R!Readable'
    BY <2>1 DEF R!Readable, R!Publish
  <2>2. ASSUME NEW o \in Origins, R!Retire(o)
        PROVE  R!Readable'
    BY <2>2 DEF R!Readable, R!Retire
  <2>3. ASSUME NEW b \in Blobs, R!Store(b)
        PROVE  R!Readable'
    BY <2>3 DEF R!Readable, R!Store
  <2>4. ASSUME NEW b \in Blobs, R!Reclaim(b)
        PROVE  R!Readable'
    BY <2>4 DEF R!Readable, R!Reclaim
  <2>5. CASE UNCHANGED R!vars
    BY <2>5 DEF R!Readable, R!vars
  <2>6. QED
    BY <2>1, <2>2, <2>3, <2>4, <2>5 DEF R!Next
<1>3. QED
  BY <1>1, <1>2, PTL DEF R!Spec

\* Hence every origin that was acknowledged, and that no tombstone request has
\* named, can be read back in full, whatever requests overlap within those rules.
THEOREM AcknowledgedReadable ==
  Maintained => (GcSpec => [](\A o \in Acked \ Retired : Needs[o] \subseteq bytes))
<1> SUFFICES ASSUME Maintained
             PROVE  GcSpec => [](\A o \in Acked \ Retired : Needs[o] \subseteq bytes)
  OBVIOUS
<1>1. R!Readable => \A o \in Acked \ Retired : Needs[o] \subseteq bytes
  BY DEF R!Readable
<1>2. GcSpec => R!Spec
  BY RetentionImplemented DEF ImplementsRetention
<1>3. QED
  BY <1>1, <1>2, ReadableAlways, PTL

-----------------------------------------------------------------------------
(* Policies and records of the origins that the collector lists.           *)

\* Requests never remove a record or a policy.
LEMMA RecordsStay ==
  ASSUME TypeInv, Engine
  PROVE  /\ policies \subseteq policies'
         /\ \A o \in Origins : registry[o] # "absent" => registry'[o] # "absent"
<1> USE DEF creating, holding, retiring, TypeInv, TypeOK
<1>1. ASSUME NEW o \in Origins, Create(o)
      PROVE  /\ policies \subseteq policies'
             /\ \A p \in Origins : registry[p] # "absent" => registry'[p] # "absent"
  BY <1>1 DEF Create, Begin, PutBytes, CheckBlob, Register, IncOrigin, IncBlob,
         AddEdge, Abandon
<1>2. ASSUME NEW r \in Refs, Hold(r)
      PROVE  UNCHANGED <<policies, registry>>
  BY <1>2 DEF Hold, RefRecord, RefCount, RefEdge, ReleaseShare, ReleasePin, DropPin
<1>3. ASSUME NEW t \in Slots, Retire(t)
      PROVE  /\ UNCHANGED policies
             /\ \A p \in Origins : registry[p] # "absent" => registry'[p] # "absent"
  BY <1>3 DEF Retire, TombRead, TombDecOrigin, TombDecBlob, TombUpdate
<1>4. QED
  BY <1>1, <1>2, <1>3 DEF Engine, CreateBlob

\* One step of a creating request: the policy is its first write, and an
\* upload's record comes before its counts.
LEMMA KnownCreate ==
  ASSUME TypeInv, NEW o \in Origins, Create(o), KnownAt(o)
  PROVE  KnownAt(o)'
<1> USE DEF creating, holding, retiring, Goto, TypeInv
<1>0. /\ (IF o \in Uploads THEN UploadAt(o) ELSE ApiAt(o))
      /\ pc \in [Origins -> CreatePhases] /\ reps \in [Origins -> Nat]
      /\ registry \in [Origins -> {"absent", "live", "tombstoned"}]
  BY DEF CreateInv, TypeOK
<1>1. CASE Begin(o)
  BY <1>0, <1>1 DEF Begin, KnownAt, UploadAt
<1>2. CASE Register(o)
  BY <1>0, <1>2 DEF Register, KnownAt
<1>3. CASE PutBytes(o) \/ CheckBlob(o) \/ IncOrigin(o) \/ IncBlob(o) \/ AddEdge(o) \/ Abandon(o)
  <2>1. pc[o] # "idle" /\ UNCHANGED <<registry, policies>>
    BY <1>3 DEF PutBytes, CheckBlob, IncOrigin, IncBlob, AddEdge, Abandon
  <2>2. ASSUME o \in Uploads,
               pc'[o] \in {"inc_origin", "inc_blob", "edge", "done"} \/ reps'[o] > 0
        PROVE  pc[o] \in {"inc_origin", "inc_blob", "edge", "done"} \/ reps[o] > 0
    BY <1>0, <1>3, <2>2 DEF PutBytes, CheckBlob, IncOrigin, IncBlob, AddEdge, Abandon, UploadAt
  <2>3. QED
    BY <2>1, <2>2 DEF KnownAt
<1>4. QED
  BY <1>1, <1>2, <1>3 DEF Create

LEMMA KnownStep ==
  ASSUME "dangling" \notin Permits, TypeInv, KnownInv, [GcNext]_allVars
  PROVE  KnownInv'
<1> USE DEF creating, holding, retiring
<1>0. /\ refOf \in [Refs -> Origins \cup {NoOrigin}] /\ ref \in [Refs -> RefStates]
      /\ \A r \in Refs : ref[r] # "unused" => refOf[r] \in Origins
      /\ tombOf \in [Slots -> Origins \cup {NoOrigin}]
  BY DEF TypeInv, TypeOK
<1>1. CASE Engine
  <2>1. /\ policies \subseteq policies'
        /\ \A o \in Origins : registry[o] # "absent" => registry'[o] # "absent"
    BY <1>1, RecordsStay
  <2>2. ASSUME NEW o \in Origins
        PROVE  KnownAt(o)'
    <3>1. CASE Create(o)
      BY <2>2, <3>1, KnownCreate DEF KnownInv
    <3>2. CASE ~Create(o)
      <4>1. UNCHANGED <<pc[o], reps[o]>>
        <5>1. ASSUME NEW p \in Origins, p # o, Create(p)
              PROVE  UNCHANGED <<pc[o], reps[o]>>
          BY <5>1 DEF Create, Begin, PutBytes, CheckBlob, Register, IncOrigin, IncBlob,
             AddEdge, Abandon, Goto, TypeInv, TypeOK
        <5>2. QED
          BY <1>1, <3>2, <5>1, Frames DEF Engine
      <4>2. registry[o] = "absent" /\ registry'[o] # "absent" => o \in policies
        <5>1. ASSUME NEW p \in Origins, p # o, Create(p)
              PROVE  registry'[o] = registry[o]
          BY <5>1 DEF Create, Begin, PutBytes, CheckBlob, Register, IncOrigin, IncBlob,
             AddEdge, Abandon, TypeInv, TypeOK
        <5>2. ASSUME NEW t \in Slots, Retire(t), registry[o] = "absent"
              PROVE  registry'[o] = registry[o]
          <6>1. tombAt[t] # "idle" => tombOf[t] \in Origins /\ tombOf[t] # o
            BY <5>2 DEF KnownInv, TypeInv, TypeOK
          <6>2. QED
            BY <5>2, <6>1 DEF Retire, TombRead, TombDecOrigin, TombDecBlob, TombUpdate,
               TypeInv, TypeOK
        <5>3. QED
          BY <1>1, <3>2, <5>1, <5>2, Frames DEF Engine
      <4>3. KnownAt(o)
        BY DEF KnownInv
      <4>4. QED
        BY <2>1, <4>1, <4>2, <4>3 DEF KnownAt
    <3>3. QED
      BY <3>1, <3>2
  <2>3. ASSUME NEW r \in Refs, ref'[r] # "unused"
        PROVE  registry'[refOf'[r]] # "absent"
    <3>1. CASE UNCHANGED holding
      BY <1>0, <2>1, <2>3, <3>1 DEF KnownInv
    <3>2. ASSUME NEW q \in Refs, Hold(q)
          PROVE  registry'[refOf'[r]] # "absent"
      <4>1. ASSUME NEW o \in Origins, RefRecord(q, o)
            PROVE  registry'[refOf'[r]] # "absent"
        BY <1>0, <2>1, <2>3, <4>1 DEF RefRecord, SetRef, KnownInv
      <4>2. CASE RefCount(q) \/ RefEdge(q) \/ ReleaseShare(q) \/ ReleasePin(q) \/ DropPin(q)
        <5>1. UNCHANGED refOf /\ ref[r] # "unused"
          BY <1>0, <2>3, <4>2 DEF RefCount, RefEdge, ReleaseShare, ReleasePin, DropPin,
             SetRef, Releasable
        <5>2. QED
          BY <1>0, <2>1, <5>1 DEF KnownInv
      <4>3. QED
        BY <3>2, <4>1, <4>2 DEF Hold
    <3>3. QED
      BY <1>1, <3>1, <3>2, Frames DEF Engine
  <2>4. ASSUME NEW t \in Slots, tombOf'[t] # NoOrigin
        PROVE  registry'[tombOf'[t]] # "absent"
    <3>1. CASE UNCHANGED tombOf
      BY <1>0, <2>1, <2>4, <3>1 DEF KnownInv
    <3>2. ASSUME NEW u \in Slots, NEW o \in Origins, TombRead(u, o)
          PROVE  registry'[tombOf'[t]] # "absent"
      BY <1>0, <2>1, <2>4, <3>2 DEF TombRead, KnownInv
    <3>3. \A u \in Slots : TombDecOrigin(u) \/ TombDecBlob(u) \/ TombUpdate(u) => UNCHANGED tombOf
      BY DEF TombDecOrigin, TombDecBlob, TombUpdate
    <3>4. QED
      BY <1>1, <3>1, <3>2, <3>3, Frames DEF Engine, Retire
  <2>5. QED
    BY <2>2, <2>3, <2>4 DEF KnownInv
<1>2. CASE Quiet
  BY <1>2 DEF Quiet, KnownInv, KnownAt
<1>3. QED
  BY <1>1, <1>2, GcSteps

\* If clients name only origins they were told of, every origin that the
\* planner's scan lists has a policy, so that plan() never aborts with NotFound,
\* and every listed upload has a record; requests that fail half-way and
\* maintenance that overlaps them included.
THEOREM ListedAreKnown == "dangling" \notin Permits => (GcSpec => []ListedOriginsKnown)
<1> SUFFICES ASSUME "dangling" \notin Permits PROVE GcSpec => []ListedOriginsKnown
  OBVIOUS
<1>1. GcInit => TypeInv /\ KnownInv
  <2> SUFFICES ASSUME GcInit PROVE TypeInv /\ KnownInv
    OBVIOUS
  <2>1. KnownInv
    BY ContentAssumption DEF GcInit, Init, KnownInv, KnownAt
  <2>2. QED
    BY <2>1, PlanStart
<1>2. TypeInv /\ KnownInv /\ [GcNext]_allVars => (TypeInv /\ KnownInv)'
  BY GcTypes, KnownStep
<1>3. TypeInv /\ KnownInv => ListedOriginsKnown
  <2> SUFFICES ASSUME TypeInv, KnownInv, NEW o \in Origins, HasOriginRow(o)
               PROVE  o \in policies /\ (o \in Uploads => registry[o] # "absent")
    BY DEF ListedOriginsKnown
  <2>1. KnownAt(o) /\ reps[o] \in Nat
    BY DEF KnownInv, TypeInv, TypeOK
  <2>2. reps[o] > 0 => pc[o] # "idle"
    BY <2>1 DEF TypeInv, CreateInv, UploadAt, ApiAt
  <2>3. reps[o] > 0 \/ registry[o] # "absent"
    BY NameAssumption DEF HasOriginRow, KnownInv
  <2>4. QED
    BY <2>1, <2>2, <2>3 DEF KnownAt
<1>4. QED
  BY <1>1, <1>2, <1>3, PTL DEF GcSpec
=============================================================================
