------------------------- MODULE SodlServiceProofs -------------------------
(***************************************************************************)
(* Theorems about SodlService, for every set of origins, blobs, references *)
(* and tombstone requests, finite or not, and every content.               *)
(***************************************************************************)
EXTENDS SodlService, FiniteSetTheorems, TLAPS

(***************************************************************************)
(* Creating: how far the counts of a creating request have come, by its    *)
(* phase.  An upload registers first and counts its one representation and *)
(* then every blob; POST /v1/origins alternates and registers last.        *)
(***************************************************************************)
UploadAt(o) ==
  /\ pc[o] \in {"idle", "put", "register", "inc_origin"} =>
       reps[o] = 0 /\ incs[o] = 0
  /\ pc[o] \in {"inc_blob", "edge", "done"} => reps[o] = 1
  /\ pc[o] = "idle" => put[o] = 0
  /\ pc[o] = "put" => put[o] < Len0(o)
  /\ pc[o] = "inc_blob" => incs[o] < Len0(o)
  /\ pc[o] \in {"edge", "done"} => incs[o] = Len0(o)
  /\ pc[o] # "check"

ApiAt(o) ==
  /\ pc[o] = "idle" => put[o] = 0 /\ reps[o] = 0 /\ incs[o] = 0
  /\ pc[o] \in {"check", "inc_origin"} =>
       reps[o] < NReps(o) /\ incs[o] = End(o, reps[o]) /\ put[o] <= End(o, reps[o] + 1)
  /\ pc[o] = "check" => put[o] < End(o, reps[o] + 1)
  /\ pc[o] \in {"inc_blob", "edge"} =>
       reps[o] >= 1 /\ incs[o] <= End(o, reps[o]) /\ put[o] <= End(o, reps[o])
  /\ pc[o] = "inc_blob" => incs[o] < End(o, reps[o])
  /\ pc[o] \in {"register", "done"} => reps[o] = NReps(o) /\ incs[o] = Len0(o)
  /\ pc[o] # "put"

CreateInv ==
  /\ \A o \in Uploads : UploadAt(o)
  /\ \A o \in Origins \ Uploads : ApiAt(o)

(***************************************************************************)
(* Retiring: a request releases no more than the root blobs of the record. *)
(* Unless "partial" is permitted, the origin was completely counted when   *)
(* the request began; unless "overlap" is permitted too, a request that    *)
(* still has counts to release is the only one on its origin.              *)
(***************************************************************************)
Releasing(t) == tombAt[t] \in {"dec_origin", "dec_blob"}

DecsInv ==
  \A t \in Slots :
    /\ tombAt[t] = "dec_origin" =>
         decReps[t] < NReps(tombOf[t]) /\ decs[t] <= End(tombOf[t], decReps[t])
    /\ tombAt[t] = "dec_blob" =>
         decReps[t] <= NReps(tombOf[t]) /\ decs[t] < End(tombOf[t], decReps[t])

TombInv ==
  /\ \A t \in Slots : tombOf[t] # NoOrigin => pc[tombOf[t]] = "done"
  /\ \A t \in Slots : tombAt[t] = "done" => registry[tombOf[t]] = "tombstoned"
  /\ "overlap" \notin Permits =>
       \A t, u \in Slots : Releasing(t) /\ tombOf[u] = tombOf[t] => u = t
  /\ \A o \in Origins : registry[o] = "tombstoned" => pc[o] = "done"

Whole   == "partial" \notin Permits
Careful == "overlap" \notin Permits /\ Whole

\* The ledger, with the finiteness that its cardinalities need.
LedgerInv ==
  \A b \in Blobs : /\ IsFiniteSet(BlobHolders(b))
                   /\ blobRefs[b] = Cardinality(BlobHolders(b))

-----------------------------------------------------------------------------
(* Types.                                                                  *)

\* The facts about the content of an origin that the leaves use.
ContentOf(o) ==
  /\ Len0(o) \in Nat /\ NReps(o) \in Nat /\ NRoots(o) \in Nat /\ NRoots(o) <= Len0(o)
  /\ End(o, 0) = 0 /\ End(o, NReps(o)) = NRoots(o)
  /\ \A k \in 0..NReps(o) : End(o, k) \in Nat /\ End(o, k) <= NRoots(o)
  /\ \A j, k \in 0..NReps(o) : j <= k => End(o, j) <= End(o, k)
  /\ o \in Uploads => NReps(o) = 1 /\ End(o, 1) = 1 /\ NRoots(o) = 1
  /\ o \notin Uploads => NRoots(o) = Len0(o)

LEMMA ContentFacts ==
  ASSUME NEW o \in Origins
  PROVE  /\ ContentOf(o)
         /\ DOMAIN Content[o] = 1..Len0(o)
         /\ \A i \in 1..Len0(o) : Content[o][i] \in Blobs
<1>1. Content[o] \in Seq(Blobs) /\ RepEnd[o] \in Seq(Nat)
  BY ContentAssumption
<1>2. Len0(o) \in Nat /\ DOMAIN Content[o] = 1..Len0(o)
  BY <1>1 DEF Len0
<1>3. \A i \in 1..Len0(o) : Content[o][i] \in Blobs
  BY <1>1 DEF Len0
<1>4. NReps(o) \in Nat /\ \A k \in 0..NReps(o) : End(o, k) \in Nat
  BY <1>1 DEF NReps, End
<1>5. \A j, k \in 0..NReps(o) : j <= k => End(o, j) <= End(o, k)
  BY ContentAssumption
<1>6. End(o, 0) = 0 /\ NRoots(o) = End(o, NReps(o))
  BY DEF End, NRoots
<1>7. o \in Uploads => NReps(o) = 1 /\ End(o, 1) = 1 /\ NRoots(o) = 1 /\ Len0(o) >= 1
  <2>1. o \in Uploads => RepEnd[o] = <<1>> /\ Len0(o) >= 1
    BY ContentAssumption
  <2>2. Len(<<1>>) = 1 /\ <<1>>[1] = 1
    OBVIOUS
  <2>3. o \in Uploads => NReps(o) = 1 /\ End(o, 1) = 1
    BY <2>1, <2>2 DEF NReps, End
  <2>4. QED
    BY <1>6, <2>1, <2>3
<1>8. o \notin Uploads => NRoots(o) = Len0(o)
  BY ContentAssumption
<1>9. \A k \in 0..NReps(o) : End(o, k) <= NRoots(o)
  BY <1>4, <1>5, <1>6
<1>10. QED
  BY <1>2, <1>3, <1>4, <1>5, <1>6, <1>7, <1>8, <1>9 DEF ContentOf

\* Every request starts with nothing counted.
LEMMA InitTypes == Init => TypeOK /\ CreateInv
<1> SUFFICES ASSUME Init PROVE TypeOK /\ CreateInv
  OBVIOUS
<1>1. \A o \in Origins : Len0(o) \in Nat /\ NReps(o) \in Nat
  BY ContentFacts DEF ContentOf
<1>2. TypeOK
  BY <1>1 DEF Init, TypeOK, CreatePhases, RefStates, TombPhases
<1>3. CreateInv
  BY ContentAssumption DEF Init, CreateInv, UploadAt, ApiAt
<1>4. QED
  BY <1>2, <1>3

\* A step that changes the progress of o alone keeps what holds of the others.
LEMMA CreateOthers ==
  ASSUME TypeOK, CreateInv, NEW o \in Origins,
         \A p \in Origins \ {o} : /\ pc'[p] = pc[p] /\ put'[p] = put[p]
                                  /\ reps'[p] = reps[p] /\ incs'[p] = incs[p],
         IF o \in Uploads THEN UploadAt(o)' ELSE ApiAt(o)'
  PROVE  CreateInv'
<1>1. ASSUME NEW p \in Uploads
      PROVE  UploadAt(p)'
  <2>1. CASE p = o
    BY <2>1
  <2>2. CASE p # o
    BY <2>2, ContentAssumption DEF CreateInv, UploadAt
  <2>3. QED
    BY <2>1, <2>2
<1>2. ASSUME NEW p \in Origins \ Uploads
      PROVE  ApiAt(p)'
  <2>1. CASE p = o
    BY <2>1
  <2>2. CASE p # o
    BY <2>2 DEF CreateInv, ApiAt
  <2>3. QED
    BY <2>1, <2>2
<1>3. QED
  BY <1>1, <1>2 DEF CreateInv

\* One step of a creating request.
LEMMA CreateTypes ==
  ASSUME TypeOK, CreateInv, NEW o \in Origins, Create(o)
  PROVE  TypeOK' /\ CreateInv'
<1> USE DEF creating, holding, retiring, Goto
<1>0. ContentOf(o) /\ (IF o \in Uploads THEN UploadAt(o) ELSE ApiAt(o))
  BY ContentFacts DEF CreateInv
<1>a. put[o] \in Nat /\ reps[o] \in 0..NReps(o) /\ incs[o] \in 0..Len0(o)
  BY <1>0 DEF TypeOK, ContentOf
<1>1. CASE Begin(o)
  <2>4. TypeOK'
    BY <1>0, <1>a, <1>1 DEF TypeOK, ContentOf, UploadAt, ApiAt, Begin, NextRep,
       CreatePhases
  <2>5. IF o \in Uploads THEN UploadAt(o)' ELSE ApiAt(o)'
    BY <1>0, <1>a, <1>1 DEF TypeOK, ContentOf, UploadAt, ApiAt, Begin, NextRep
  <2>6. QED
    BY <1>1, <2>4, <2>5, CreateOthers DEF TypeOK, Begin
<1>2. CASE PutBytes(o)
  <2>1. put[o] < Len0(o)
    BY <1>0, <1>2 DEF UploadAt, ApiAt, PutBytes
  <2>2. Content[o][PutIndex(o, put[o] + 1)] \in Blobs
    <3>1. PutIndex(o, put[o] + 1) \in 1..Len0(o)
      BY <1>0, <1>a, <2>1 DEF ContentOf, PutIndex
    <3>2. QED
      BY <3>1, ContentFacts
  <2>4. TypeOK'
    BY <1>0, <1>a, <1>2, <2>1, <2>2 DEF TypeOK, ContentOf, UploadAt, ApiAt, PutBytes,
       CreatePhases
  <2>5. IF o \in Uploads THEN UploadAt(o)' ELSE ApiAt(o)'
    BY <1>0, <1>a, <1>2, <2>1 DEF TypeOK, ContentOf, UploadAt, ApiAt, PutBytes
  <2>6. QED
    BY <1>2, <2>4, <2>5, CreateOthers DEF TypeOK, PutBytes
<1>3. CASE CheckBlob(o)
  <2>1. put[o] < Len0(o)
    BY <1>0, <1>a, <1>3 DEF ContentOf, UploadAt, ApiAt, CheckBlob
  <2>4. TypeOK'
    <3>1. put' \in [Origins -> Nat] /\ \A p \in Origins : put'[p] <= Len0(p)
      <4>1. put' = put \/ put' = [put EXCEPT ![o] = @ + 1]
        BY <1>3 DEF CheckBlob
      <4>2. CASE put' = put
        BY <4>2 DEF TypeOK
      <4>3. CASE put' = [put EXCEPT ![o] = @ + 1]
        BY <1>0, <1>a, <2>1, <4>3 DEF TypeOK, ContentOf
      <4>4. QED
        BY <4>1, <4>2, <4>3
    <3>2. pc' \in [Origins -> CreatePhases]
      BY <1>3 DEF TypeOK, CheckBlob, CreatePhases
    <3>3. QED
      BY <1>3, <3>1, <3>2 DEF TypeOK, CheckBlob
  <2>5. IF o \in Uploads THEN UploadAt(o)' ELSE ApiAt(o)'
    BY <1>0, <1>a, <1>3 DEF TypeOK, ContentOf, UploadAt, ApiAt, CheckBlob
  <2>6. QED
    BY <1>3, <2>4, <2>5, CreateOthers DEF TypeOK, CheckBlob
<1>4. CASE Register(o)
  <2>4. TypeOK'
    BY <1>0, <1>a, <1>4 DEF TypeOK, ContentOf, UploadAt, ApiAt, Register,
       CreatePhases
  <2>5. IF o \in Uploads THEN UploadAt(o)' ELSE ApiAt(o)'
    BY <1>0, <1>a, <1>4 DEF TypeOK, ContentOf, UploadAt, ApiAt, Register
  <2>6. QED
    BY <1>4, <2>4, <2>5, CreateOthers DEF TypeOK, Register
<1>5. CASE IncOrigin(o)
  <2>4. TypeOK'
    BY <1>0, <1>a, <1>5 DEF TypeOK, ContentOf, UploadAt, ApiAt, IncOrigin, NextRep, CountOrigin,
       CreatePhases
  <2>5. CASE o \in Uploads
    <3>1. UploadAt(o)'
      BY <1>0, <1>a, <1>5, <2>5 DEF TypeOK, ContentOf, UploadAt, IncOrigin, NextRep
    <3>2. QED
      BY <2>5, <3>1, <1>5, <2>4, CreateOthers DEF TypeOK, IncOrigin
  <2>6. CASE o \notin Uploads
    <3>1. ApiAt(o)'
      <4> DEFINE k == reps[o]
      <4>1. k \in Nat /\ k < NReps(o) /\ incs[o] = End(o, k) /\ put[o] <= End(o, k + 1)
        BY <1>0, <1>a, <1>5, <2>6 DEF ApiAt, IncOrigin, ContentOf
      <4>2. /\ NReps(o) \in Nat /\ NRoots(o) = Len0(o)
            /\ End(o, k) \in Nat /\ End(o, k + 1) \in Nat /\ End(o, k) <= End(o, k + 1)
            /\ k + 1 = NReps(o) => End(o, k + 1) = NRoots(o)
        BY <1>0, <2>6, <4>1 DEF ContentOf
      <4>3. /\ reps'[o] = k + 1 /\ incs'[o] = End(o, k) /\ put'[o] = put[o]
            /\ pc'[o] = IF End(o, k) < End(o, k + 1) THEN "inc_blob"
                        ELSE NextRep(o, k + 1)
        BY <1>5, <4>1 DEF TypeOK, IncOrigin
      <4>4. CASE End(o, k) < End(o, k + 1)
        BY <4>1, <4>2, <4>3, <4>4 DEF ApiAt
      <4>5. CASE ~(End(o, k) < End(o, k + 1))
        <5>1. End(o, k) = End(o, k + 1)
          BY <4>2, <4>5
        <5>2. CASE k + 1 = NReps(o)
          BY <4>1, <4>2, <4>3, <4>5, <5>1, <5>2 DEF ApiAt, NextRep
        <5>3. CASE k + 1 < NReps(o)
          <6>1. End(o, k + 1 + 1) \in Nat /\ End(o, k + 1) <= End(o, k + 1 + 1)
            BY <1>0, <4>1, <4>2, <5>3 DEF ContentOf
          <6>2. QED
            BY <1>a, <4>1, <4>2, <4>3, <4>5, <5>1, <5>3, <6>1 DEF ApiAt, NextRep
        <5>4. QED
          BY <4>1, <4>2, <5>2, <5>3
      <4>6. QED
        BY <4>4, <4>5
    <3>2. QED
      BY <2>6, <3>1, <1>5, <2>4, CreateOthers DEF TypeOK, IncOrigin
  <2>7. QED
    BY <2>5, <2>6
<1>6. CASE IncBlob(o)
  <2>1. incs[o] < Len0(o)
    BY <1>0, <1>a, <1>6 DEF ContentOf, UploadAt, ApiAt, IncBlob
  <2>2. Content[o][incs[o] + 1] \in Blobs
    BY <1>0, <1>a, <2>1, ContentFacts DEF ContentOf
  <2>3. blobRefs' \in [Blobs -> Nat]
    BY <1>6, <2>2 DEF TypeOK, IncBlob, CountBlob
  <2>4. TypeOK'
    BY <1>0, <1>a, <1>6, <2>1, <2>3 DEF TypeOK, ContentOf, UploadAt, ApiAt, IncBlob, MoreChunks,
       CreatePhases
  <2>5. CASE o \in Uploads
    <3>1. UploadAt(o)'
      BY <1>0, <1>a, <1>6, <2>5, <2>1 DEF TypeOK, ContentOf, UploadAt, IncBlob, MoreChunks
    <3>2. QED
      BY <2>5, <3>1, <1>6, <2>4, CreateOthers DEF TypeOK, IncBlob
  <2>6. CASE o \notin Uploads
    <3>1. ApiAt(o)'
      BY <1>0, <1>a, <1>6, <2>6, <2>1 DEF TypeOK, ContentOf, ApiAt, IncBlob, MoreChunks
    <3>2. QED
      BY <2>6, <3>1, <1>6, <2>4, CreateOthers DEF TypeOK, IncBlob
  <2>7. QED
    BY <2>5, <2>6
<1>7. CASE AddEdge(o)
  <2>4. TypeOK'
    <3>1. lineage' \subseteq (Origins \X Nat) \cup Refs
      BY <1>0, <1>a, <1>7 DEF TypeOK, AddEdge, EdgeRoot, ContentOf
    <3>2. pc' \in [Origins -> CreatePhases]
      BY <1>7 DEF TypeOK, AddEdge, NextRep, CreatePhases
    <3>3. QED
      BY <1>7, <3>1, <3>2 DEF TypeOK, AddEdge
  <2>5. CASE o \in Uploads
    <3>1. UploadAt(o)'
      BY <1>0, <1>a, <1>7, <2>5 DEF TypeOK, ContentOf, UploadAt, AddEdge, NextRep
    <3>2. QED
      BY <2>5, <3>1, <1>7, <2>4, CreateOthers DEF TypeOK, AddEdge
  <2>6. CASE o \notin Uploads
    <3>1. ApiAt(o)'
      <4> DEFINE k == reps[o]
      <4>1. k \in 1..NReps(o) /\ incs[o] <= End(o, k) /\ put[o] <= End(o, k)
        BY <1>0, <1>a, <1>7, <2>6 DEF ApiAt, AddEdge, ContentOf
      <4>2. /\ NReps(o) \in Nat /\ NRoots(o) = Len0(o) /\ End(o, k) \in Nat
            /\ k = NReps(o) => End(o, k) = NRoots(o)
        BY <1>0, <2>6, <4>1 DEF ContentOf
      <4>3. /\ reps'[o] = k /\ incs'[o] = incs[o] /\ put'[o] = put[o]
            /\ pc'[o] = IF incs[o] < End(o, k) THEN "inc_blob" ELSE NextRep(o, k)
        BY <1>7, <2>6 DEF TypeOK, AddEdge
      <4>4. CASE incs[o] < End(o, k)
        BY <4>1, <4>2, <4>3, <4>4 DEF ApiAt
      <4>5. CASE ~(incs[o] < End(o, k))
        <5>1. incs[o] = End(o, k)
          BY <1>a, <1>0, <4>1, <4>2, <4>5 DEF ContentOf
        <5>2. CASE k = NReps(o)
          BY <4>1, <4>2, <4>3, <4>5, <5>1, <5>2 DEF ApiAt, NextRep
        <5>3. CASE k < NReps(o)
          <6>1. End(o, k + 1) \in Nat
            BY <1>0, <4>1, <4>2, <5>3 DEF ContentOf
          <6>2. QED
            BY <1>0, <1>a, <4>1, <4>2, <4>3, <4>5, <5>1, <5>3, <6>1 DEF ApiAt, NextRep, ContentOf
        <5>4. QED
          BY <4>1, <4>2, <5>2, <5>3
      <4>6. QED
        BY <4>4, <4>5
    <3>2. QED
      BY <2>6, <3>1, <1>7, <2>4, CreateOthers DEF TypeOK, AddEdge
  <2>7. QED
    BY <2>5, <2>6
<1>8. CASE Abandon(o)
  <2>4. TypeOK'
    BY <1>0, <1>a, <1>8 DEF TypeOK, ContentOf, UploadAt, ApiAt, Abandon,
       CreatePhases
  <2>5. IF o \in Uploads THEN UploadAt(o)' ELSE ApiAt(o)'
    BY <1>0, <1>a, <1>8 DEF TypeOK, ContentOf, UploadAt, ApiAt, Abandon
  <2>6. QED
    BY <1>8, <2>4, <2>5, CreateOthers DEF TypeOK, Abandon
<1>9. QED
  BY <1>1, <1>2, <1>3, <1>4, <1>5, <1>6, <1>7, <1>8 DEF Create

\* CreateInv speaks of the creating requests only.
LEMMA CreateFrame ==
  ASSUME CreateInv, UNCHANGED <<pc, put, reps, incs>>
  PROVE  CreateInv'
BY DEF CreateInv, UploadAt, ApiAt

\* One step of a request that writes or releases a share, pin or derivation.
LEMMA HoldTypes ==
  ASSUME TypeOK, NEW r \in Refs, Hold(r)
  PROVE  TypeOK'
<1> USE DEF creating, holding, retiring, SetRef, RefStates
<1>1. ASSUME NEW o \in Origins, RefRecord(r, o)
      PROVE  TypeOK'
  BY <1>1, NameAssumption DEF TypeOK, RefRecord
<1>2. CASE RefCount(r)
  BY <1>2 DEF TypeOK, RefCount, CountOrigin
<1>3. CASE RefEdge(r)
  BY <1>3 DEF TypeOK, RefEdge
<1>4. CASE ReleaseShare(r)
  BY <1>4 DEF TypeOK, ReleaseShare, Releasable, UncountOrigin, Dec
<1>5. CASE ReleasePin(r)
  BY <1>5 DEF TypeOK, ReleasePin, Releasable
<1>6. CASE DropPin(r)
  BY <1>6 DEF TypeOK, DropPin, UncountOrigin, Dec
<1>7. QED
  BY <1>1, <1>2, <1>3, <1>4, <1>5, <1>6 DEF Hold

\* One step of a tombstone request.
LEMMA RetireTypes ==
  ASSUME TypeOK, DecsInv, NEW t \in Slots, Retire(t)
  PROVE  TypeOK' /\ DecsInv'
<1> USE DEF creating, holding, retiring, NextRelease
<1>1. ASSUME NEW o \in Origins, TombRead(t, o)
      PROVE  TypeOK' /\ DecsInv'
  <2>1. decs[t] = 0 /\ decReps[t] = 0 /\ ContentOf(o)
    BY <1>1, ContentFacts DEF TypeOK, TombRead, Idle
  <2>2. TypeOK'
    BY <1>1, <2>1, NameAssumption DEF TypeOK, TombRead, TombPhases, ContentOf
  <2>3. DecsInv'
    BY <1>1, <2>1 DEF TypeOK, DecsInv, TombRead, ContentOf
  <2>4. QED
    BY <2>2, <2>3
<1>a. tombAt[t] # "idle" => /\ tombOf[t] \in Origins /\ ContentOf(tombOf[t])
                            /\ decReps[t] \in 0..NReps(tombOf[t])
                            /\ decs[t] \in 0..NRoots(tombOf[t])
  <2> SUFFICES ASSUME tombAt[t] # "idle"
               PROVE  /\ tombOf[t] \in Origins /\ ContentOf(tombOf[t])
                      /\ decReps[t] \in 0..NReps(tombOf[t])
                      /\ decs[t] \in 0..NRoots(tombOf[t])
    OBVIOUS
  <2>1. /\ tombOf[t] \in Origins /\ decReps[t] \in Nat /\ decs[t] \in Nat
        /\ decReps[t] <= NReps(tombOf[t]) /\ decs[t] <= NRoots(tombOf[t])
    BY DEF TypeOK
  <2>2. ContentOf(tombOf[t])
    BY <2>1, ContentFacts
  <2>3. QED
    BY <2>1, <2>2 DEF ContentOf
<1>2. CASE TombDecOrigin(t)
  <2>1. decReps[t] \in Nat /\ decReps[t] + 1 <= NReps(tombOf[t])
    BY <1>a, <1>2 DEF TypeOK, DecsInv, TombDecOrigin, ContentOf
  <2>2. originRefs' \in [Origins -> Nat]
    BY <1>a, <1>2 DEF TypeOK, TombDecOrigin, UncountOrigin, Dec
  <2>3. TypeOK'
    BY <1>2, <2>1, <2>2 DEF TypeOK, TombDecOrigin, TombPhases
  <2>4. DecsInv'
    BY <1>a, <1>2 DEF TypeOK, DecsInv, TombDecOrigin, ContentOf
  <2>5. QED
    BY <2>3, <2>4
<1>3. CASE TombDecBlob(t)
  <2>1. decs[t] < NRoots(tombOf[t])
    BY <1>a, <1>3 DEF DecsInv, TombDecBlob, ContentOf
  <2>2. Content[tombOf[t]][decs[t] + 1] \in Blobs
    BY <1>a, <1>3, <2>1, ContentFacts DEF ContentOf, TombDecBlob
  <2>3. blobRefs' \in [Blobs -> Nat]
    BY <1>3, <2>2 DEF TypeOK, TombDecBlob, UncountBlob, Dec
  <2>4. TypeOK'
    BY <1>a, <1>3, <2>1, <2>3 DEF TypeOK, TombDecBlob, TombPhases, ContentOf
  <2>5. DecsInv'
    BY <1>a, <1>3, <2>1 DEF TypeOK, DecsInv, TombDecBlob, ContentOf
  <2>6. QED
    BY <2>4, <2>5
<1>4. CASE TombUpdate(t)
  BY <1>4 DEF TypeOK, DecsInv, TombUpdate, TombPhases
<1>5. QED
  BY <1>1, <1>2, <1>3, <1>4 DEF Retire

\* Who touches which part of the state.
LEMMA Frames ==
  /\ \A o \in Origins : Create(o) => UNCHANGED <<ref, refOf, tombOf, tombAt, decReps, decs>>
  /\ \A b \in Blobs : CreateBlob(b) =>
       /\ UNCHANGED <<creating, originRefs, blobRefs, holding, lineage, retiring>>
       /\ bytes' = bytes \cup {b}
  /\ \A r \in Refs : Hold(r) =>
       UNCHANGED <<pc, put, reps, incs, registry, blobRefs, tombOf, tombAt, decReps, decs>>
  /\ \A t \in Slots : Retire(t) => UNCHANGED <<pc, put, reps, incs, ref, refOf>>
BY DEF Create, Begin, PutBytes, CheckBlob, Register, IncOrigin, IncBlob, AddEdge,
       Abandon, CreateBlob, Hold, RefRecord, RefCount, RefEdge, ReleaseShare,
       ReleasePin, DropPin, Retire, TombRead, TombDecOrigin, TombDecBlob,
       TombUpdate, creating, holding, retiring

TypeInv == TypeOK /\ CreateInv /\ DecsInv

LEMMA TypeStep ==
  ASSUME TypeInv, [Next]_vars
  PROVE  TypeInv'
<1> USE DEF TypeInv
<1>1. ASSUME NEW o \in Origins, Create(o)
      PROVE  TypeInv'
  BY <1>1, CreateTypes, Frames DEF DecsInv
<1>2. ASSUME NEW b \in Blobs, CreateBlob(b)
      PROVE  TypeInv'
  <2>1. UNCHANGED vars \/ (UNCHANGED <<creating, originRefs, blobRefs, holding,
                                       lineage, retiring>> /\ bytes' = bytes \cup {b})
    BY <1>2, Frames
  <2>2. TypeOK'
    BY <2>1 DEF TypeOK, vars, creating, holding, retiring
  <2>3. QED
    BY <2>1, <2>2, CreateFrame DEF DecsInv, vars, creating, retiring
<1>3. ASSUME NEW r \in Refs, Hold(r)
      PROVE  TypeInv'
  BY <1>3, HoldTypes, CreateFrame, Frames DEF DecsInv
<1>4. ASSUME NEW t \in Slots, Retire(t)
      PROVE  TypeInv'
  BY <1>4, RetireTypes, CreateFrame, Frames
<1>5. CASE UNCHANGED vars
  <2>1. TypeOK' /\ DecsInv'
    BY <1>5 DEF TypeOK, DecsInv, vars, creating, holding, retiring
  <2>2. QED
    BY <1>5, <2>1, CreateFrame DEF vars, creating
<1>6. QED
  BY <1>1, <1>2, <1>3, <1>4, <1>5 DEF Next

\* TypeOK holds of the engine whatever its clients do: no counter is negative,
\* no request counts or releases more than its content has.
THEOREM TypeCorrect == Spec => []TypeOK
<1>1. Init => TypeInv
  BY InitTypes DEF TypeInv, DecsInv, Init
<1>2. TypeInv /\ [Next]_vars => TypeInv'
  BY TypeStep
<1>3. TypeInv => TypeOK
  BY DEF TypeInv
<1>4. QED
  BY <1>1, <1>2, <1>3, PTL DEF Spec

-----------------------------------------------------------------------------
(* Tombstone requests that name acknowledged origins.                      *)

\* A creating request works on an origin that no tombstone request names.
LEMMA TombCreate ==
  ASSUME TypeOK, TombInv, NEW o \in Origins, Create(o)
  PROVE  TombInv'
<1> USE DEF creating, holding, retiring, Goto
<1>1. pc[o] # "done" /\ (\E phase : pc' = [pc EXCEPT ![o] = phase])
  BY DEF Create, Begin, PutBytes, CheckBlob, Register, IncOrigin, IncBlob,
         AddEdge, Abandon
<1>2. \/ UNCHANGED registry
      \/ registry' = [registry EXCEPT ![o] = "live"]
  BY DEF Create, Begin, PutBytes, CheckBlob, Register, IncOrigin, IncBlob,
         AddEdge, Abandon
<1>3. UNCHANGED <<tombOf, tombAt, decReps, decs>>
  BY Frames
<1>4. \A t \in Slots : tombOf[t] # NoOrigin => tombOf[t] # o /\ tombOf[t] \in Origins
  BY <1>1 DEF TombInv, TypeOK
<1>5. QED
  BY <1>1, <1>2, <1>3, <1>4, NameAssumption DEF TombInv, TypeOK, Releasing

LEMMA TombRetire ==
  ASSUME Whole, TypeOK, DecsInv, TombInv, NEW t \in Slots, Retire(t)
  PROVE  TombInv'
<1> USE DEF creating, holding, retiring, Whole
<1>1. ASSUME NEW o \in Origins, TombRead(t, o)
      PROVE  TombInv'
  <2>1. /\ pc[o] = "done"
        /\ "overlap" \notin Permits => \A u \in Slots : tombOf[u] = o => tombAt[u] = "done"
    BY <1>1 DEF TombRead, MayTombstone
  <2>2. /\ tombOf' = [tombOf EXCEPT ![t] = o]
        /\ tombAt' = [tombAt EXCEPT ![t] =
             IF registry[o] = "live" THEN NextRelease(o, 0, 0) ELSE "update"]
        /\ UNCHANGED <<pc, registry>>
        /\ tombOf[t] = NoOrigin
    BY <1>1 DEF TombRead, Idle, TypeOK
  <2>3. "overlap" \notin Permits /\ registry[o] = "live" => \A u \in Slots : tombOf[u] # o
    BY <2>1 DEF TombInv
  <2>4. "overlap" \notin Permits =>
          \A v, u \in Slots : Releasing(v)' /\ tombOf'[u] = tombOf'[v] => u = v
    <3> SUFFICES ASSUME "overlap" \notin Permits, NEW v \in Slots, NEW u \in Slots,
                        Releasing(v)', tombOf'[u] = tombOf'[v], u # v
                 PROVE  FALSE
      OBVIOUS
    <3>1. CASE v = t
      BY <2>2, <2>3, <3>1 DEF TypeOK, Releasing
    <3>2. CASE v # t
      <4>1. Releasing(v)
        BY <2>2, <3>2 DEF TypeOK, Releasing
      <4>2. u = t
        BY <2>2, <3>2, <4>1 DEF TypeOK, TombInv
      <4>3. QED
        BY <2>1, <2>2, <3>2, <4>1, <4>2 DEF TypeOK, Releasing
    <3>3. QED
      BY <3>1, <3>2
  <2>5. \A u \in Slots : /\ tombOf'[u] # NoOrigin => pc'[tombOf'[u]] = "done"
                         /\ tombAt'[u] = "done" => registry'[tombOf'[u]] = "tombstoned"
    BY <2>1, <2>2 DEF TypeOK, TombInv, NextRelease
  <2>6. QED
    BY <2>2, <2>4, <2>5 DEF TombInv
<1>2. CASE TombDecOrigin(t)
  BY <1>2 DEF TypeOK, TombInv, TombDecOrigin, Releasing, NextRelease
<1>3. CASE TombDecBlob(t)
  BY <1>3 DEF TypeOK, TombInv, TombDecBlob, Releasing, NextRelease
<1>4. CASE TombUpdate(t)
  <2>1. tombOf[t] \in Origins /\ pc[tombOf[t]] = "done"
    BY <1>4, NameAssumption DEF TypeOK, TombInv, TombUpdate
  <2>2. QED
    BY <1>4, <2>1 DEF TypeOK, TombInv, TombUpdate, Releasing
<1>5. QED
  BY <1>1, <1>2, <1>3, <1>4 DEF Retire

WholeInv == TypeInv /\ TombInv

LEMMA WholeStep ==
  ASSUME Whole, WholeInv, [Next]_vars
  PROVE  WholeInv'
<1> USE DEF WholeInv
<1>1. TypeInv'
  BY TypeStep
<1>2. ASSUME UNCHANGED <<pc, registry, tombOf, tombAt>>
      PROVE  TombInv'
  BY <1>2 DEF TombInv, Releasing
<1>3. ASSUME NEW o \in Origins, Create(o)
      PROVE  TombInv'
  BY <1>3, TombCreate DEF TypeInv
<1>4. ASSUME NEW b \in Blobs, CreateBlob(b)
      PROVE  TombInv'
  BY <1>2, <1>4, Frames DEF creating, retiring
<1>5. ASSUME NEW r \in Refs, Hold(r)
      PROVE  TombInv'
  BY <1>2, <1>5, Frames
<1>6. ASSUME NEW t \in Slots, Retire(t)
      PROVE  TombInv'
  BY <1>6, TombRetire DEF TypeInv
<1>7. ASSUME UNCHANGED vars
      PROVE  TombInv'
  BY <1>2, <1>7 DEF vars, creating, retiring
<1>8. TombInv'
  BY <1>3, <1>4, <1>5, <1>6, <1>7 DEF Next
<1>9. QED
  BY <1>1, <1>8

LEMMA WholeInit == Init => WholeInv
<1> SUFFICES ASSUME Init PROVE WholeInv
  OBVIOUS
<1>1. TypeInv
  BY InitTypes DEF TypeInv, DecsInv, Init
<1>2. TombInv
  BY DEF TombInv, Releasing, Init
<1>3. QED
  BY <1>1, <1>2 DEF WholeInv

\* If only acknowledged origins are tombstoned, then, whatever requests overlap,
\* a tombstoned origin never comes back, and the request that created it never
\* counts anything for it again.
THEOREM TombstonesStay == Whole => (Spec => NoResurrection)
<1> SUFFICES ASSUME Whole PROVE Spec => NoResurrection
  OBVIOUS
<1> DEFINE Stays(o) == registry[o] = "tombstoned" =>
             /\ registry'[o] = "tombstoned"
             /\ reps'[o] = reps[o] /\ incs'[o] = incs[o]
<1>1. Init => WholeInv
  BY WholeInit
<1>2. WholeInv /\ [Next]_vars => WholeInv'
  BY WholeStep
<1>3. WholeInv /\ [Next]_vars => \A o \in Origins : Stays(o)
  <2> SUFFICES ASSUME WholeInv, Next, NEW o \in Origins, registry[o] = "tombstoned"
               PROVE  /\ registry'[o] = "tombstoned"
                      /\ reps'[o] = reps[o] /\ incs'[o] = incs[o]
    BY DEF vars, creating
  <2> USE DEF creating, holding, retiring
  <2>1. pc[o] = "done"
    BY DEF WholeInv, TombInv
  <2>2. ASSUME NEW p \in Origins, Create(p)
        PROVE  p # o /\ (/\ \A q \in Origins \ {p} : /\ registry'[q] = registry[q]
                                                     /\ reps'[q] = reps[q]
                                                     /\ incs'[q] = incs[q])
    BY <2>1, <2>2 DEF WholeInv, TypeInv, TypeOK, Create, Begin, PutBytes, CheckBlob,
           Register, IncOrigin, IncBlob, AddEdge, Abandon
  <2>3. ASSUME NEW t \in Slots, Retire(t)
        PROVE  registry'[o] = "tombstoned"
    BY <2>3 DEF WholeInv, TypeInv, TypeOK, Retire, TombRead, TombDecOrigin,
           TombDecBlob, TombUpdate
  <2>4. QED
    BY <2>2, <2>3, Frames DEF Next
<1>4. QED
  BY <1>1, <1>2, <1>3, PTL DEF Spec, NoResurrection

-----------------------------------------------------------------------------
(* The blob ledger.                                                        *)

\* A place p is counted (by its creating request) and not released since.
Held(p) == p[2] <= incs[p[1]] /\ ~Released(p[1], p[2])

LEMMA PlaceFacts ==
  ASSUME NEW p \in Positions
  PROVE  /\ p[1] \in Origins /\ p[2] \in 1..Len0(p[1])
         /\ p = <<p[1], p[2]>>
<1>1. PICK o \in Origins : p \in {o} \X DOMAIN Content[o]
  BY DEF Positions
<1>2. DOMAIN Content[o] = 1..Len0(o)
  BY ContentFacts
<1>3. QED
  BY <1>1, <1>2

LEMMA PlaceExists ==
  ASSUME NEW o \in Origins, NEW i \in 1..Len0(o)
  PROVE  \E q \in Positions : q = <<o, i>>
<1>1. i \in DOMAIN Content[o]
  BY ContentFacts
<1>2. <<o, i>> \in {o} \X DOMAIN Content[o]
  BY <1>1
<1>3. QED
  BY <1>2 DEF Positions

\* If the places held stay the same and so do the counts, so does the ledger.
LEMMA LedgerFrame ==
  ASSUME LedgerInv, UNCHANGED blobRefs, \A p \in Positions : Held(p)' <=> Held(p)
  PROVE  LedgerInv'
<1>1. \A b \in Blobs : BlobHolders(b)' = BlobHolders(b)
  BY DEF BlobHolders, Held, Positions
<1>2. QED
  BY <1>1 DEF LedgerInv

\* If a place q becomes held and its blob is counted, so does the ledger.
LEMMA LedgerGains ==
  ASSUME LedgerInv, blobRefs \in [Blobs -> Nat],
         NEW q \in Positions, ~Held(q), Held(q)',
         \A p \in Positions \ {q} : Held(p)' <=> Held(p),
         CountBlob(Content[q[1]][q[2]])
  PROVE  LedgerInv'
<1> DEFINE c == Content[q[1]][q[2]]
<1>1. BlobHolders(c)' = BlobHolders(c) \cup {q} /\ q \notin BlobHolders(c)
  BY DEF BlobHolders, Held, Positions
<1>2. \A b \in Blobs \ {c} : BlobHolders(b)' = BlobHolders(b)
  BY DEF BlobHolders, Held, Positions
<1>3. c \in Blobs
  BY PlaceFacts, ContentFacts
<1>4. IsFiniteSet(BlobHolders(c)') /\ blobRefs'[c] = Cardinality(BlobHolders(c)')
  <2>1. IsFiniteSet(BlobHolders(c)) /\ blobRefs[c] = Cardinality(BlobHolders(c))
    BY <1>3 DEF LedgerInv
  <2>2. blobRefs'[c] = blobRefs[c] + 1
    BY <1>3 DEF CountBlob
  <2>3. QED
    BY <1>1, <2>1, <2>2, FS_AddElement
<1>5. \A b \in Blobs \ {c} : blobRefs'[b] = blobRefs[b]
  BY <1>3 DEF CountBlob
<1>6. QED
  BY <1>2, <1>4, <1>5 DEF LedgerInv

\* If a place q is let go of and its blob is uncounted, so does the ledger.
LEMMA LedgerLoses ==
  ASSUME LedgerInv, blobRefs \in [Blobs -> Nat],
         NEW q \in Positions, Held(q), ~Held(q)',
         \A p \in Positions \ {q} : Held(p)' <=> Held(p),
         UncountBlob(Content[q[1]][q[2]])
  PROVE  LedgerInv'
<1> DEFINE c == Content[q[1]][q[2]]
<1>1. BlobHolders(c)' = BlobHolders(c) \ {q} /\ q \in BlobHolders(c)
  BY DEF BlobHolders, Held, Positions
<1>2. \A b \in Blobs \ {c} : BlobHolders(b)' = BlobHolders(b)
  BY DEF BlobHolders, Held, Positions
<1>3. c \in Blobs
  BY PlaceFacts, ContentFacts
<1>4. IsFiniteSet(BlobHolders(c)') /\ blobRefs'[c] = Cardinality(BlobHolders(c)')
  <2>1. IsFiniteSet(BlobHolders(c)) /\ blobRefs[c] = Cardinality(BlobHolders(c))
    BY <1>3 DEF LedgerInv
  <2>2. blobRefs[c] > 0
    BY <1>1, <1>3, <2>1, FS_EmptySet
  <2>3. blobRefs'[c] = blobRefs[c] - 1
    BY <1>3, <2>2 DEF UncountBlob, Dec
  <2>4. QED
    BY <1>1, <2>1, <2>3, FS_RemoveElement
<1>5. \A b \in Blobs \ {c} : blobRefs'[b] = blobRefs[b]
  BY <1>3 DEF UncountBlob
<1>6. QED
  BY <1>2, <1>4, <1>5 DEF LedgerInv

\* Only three kinds of step concern the ledger.
LEMMA LedgerActions ==
  ASSUME [Next]_vars
  PROVE  \/ \E o \in Origins : IncBlob(o)
         \/ \E t \in Slots, o \in Origins : TombRead(t, o)
         \/ \E t \in Slots : TombDecBlob(t)
         \/ UNCHANGED <<blobRefs, incs, tombOf, decs>>
BY DEF Next, vars, Create, Begin, PutBytes, CheckBlob, Register, IncOrigin, AddEdge,
       Abandon, CreateBlob, Hold, RefRecord, RefCount, RefEdge, ReleaseShare,
       ReleasePin, DropPin, Retire, TombDecOrigin, TombUpdate, creating, holding,
       retiring

LEMMA LedgerStep ==
  ASSUME Careful, WholeInv, LedgerInv, [Next]_vars
  PROVE  LedgerInv'
<1> USE DEF WholeInv, TypeInv
<1>0. blobRefs \in [Blobs -> Nat]
  BY DEF TypeOK
<1>1. ASSUME NEW o \in Origins, IncBlob(o)
      PROVE  LedgerInv'
  <2>1. pc[o] = "inc_blob" /\ incs[o] \in Nat /\ incs[o] < Len0(o)
    <3>1. ContentOf(o) /\ reps[o] \in 0..NReps(o)
      BY ContentFacts DEF TypeOK, ContentOf
    <3>2. QED
      BY <1>1, <3>1 DEF TypeOK, CreateInv, UploadAt, ApiAt, IncBlob, ContentOf
  <2>2. PICK q \in Positions : q = <<o, incs[o] + 1>>
    <3>1. incs[o] + 1 \in 1..Len0(o)
      BY <2>1, ContentFacts DEF ContentOf
    <3>2. QED
      BY <3>1, PlaceExists
  <2>3. \A t \in Slots : tombOf[t] # o
    BY <2>1, NameAssumption DEF TombInv
  <2>4. /\ incs' = [incs EXCEPT ![o] = @ + 1] /\ CountBlob(Content[o][incs[o] + 1])
        /\ UNCHANGED <<tombOf, decs>>
    BY <1>1 DEF IncBlob, retiring
  <2>5. ~Held(q) /\ Held(q)'
    BY <2>1, <2>2, <2>3, <2>4 DEF Held, Released, TypeOK
  <2>6. ASSUME NEW p \in Positions \ {q}
        PROVE  Held(p)' <=> Held(p)
    <3>1. p[1] \in Origins /\ p[2] \in Nat /\ p = <<p[1], p[2]>>
      BY PlaceFacts, ContentFacts
    <3>2. Released(p[1], p[2])' <=> Released(p[1], p[2])
      BY <2>4 DEF Released
    <3>3. p[2] <= incs'[p[1]] <=> p[2] <= incs[p[1]]
      <4>1. CASE p[1] = o
        BY <2>1, <2>2, <2>4, <3>1, <4>1 DEF TypeOK
      <4>2. CASE p[1] # o
        BY <2>4, <3>1, <4>2 DEF TypeOK
      <4>3. QED
        BY <4>1, <4>2
    <3>4. QED
      BY <3>2, <3>3 DEF Held
  <2>7. QED
    BY <1>0, <2>2, <2>4, <2>5, <2>6, LedgerGains
<1>2. ASSUME NEW t \in Slots, NEW o \in Origins, TombRead(t, o)
      PROVE  LedgerInv'
  <2>1. decs[t] = 0 /\ tombOf[t] = NoOrigin
    BY <1>2 DEF TypeOK, TombRead, Idle
  <2>2. tombOf' = [tombOf EXCEPT ![t] = o] /\ UNCHANGED <<blobRefs, incs, decs>>
    BY <1>2 DEF TombRead, creating
  <2>3. ASSUME NEW p \in Positions
        PROVE  Released(p[1], p[2])' <=> Released(p[1], p[2])
    <3>1. p[2] \in Nat /\ p[2] > 0
      BY PlaceFacts, ContentFacts
    <3>2. QED
      BY <2>1, <2>2, <3>1 DEF Released, TypeOK
  <2>4. QED
    BY <2>2, <2>3, LedgerFrame DEF Held
<1>3. ASSUME NEW t \in Slots, TombDecBlob(t)
      PROVE  LedgerInv'
  <2>1. PICK o \in Origins : o = tombOf[t] /\ Releasing(t) /\ decs[t] \in Nat
    BY <1>3 DEF TypeOK, TombDecBlob, Releasing
  <2>2. decs[t] < NRoots(o) /\ ContentOf(o)
    <3>1. ContentOf(o) /\ decReps[t] \in 0..NReps(o)
      BY <2>1, ContentFacts DEF TypeOK, ContentOf, Releasing
    <3>2. QED
      BY <1>3, <2>1, <3>1 DEF DecsInv, ContentOf, TombDecBlob
  <2>3. incs[o] = Len0(o)
    <3>1. pc[o] = "done"
      BY <2>1, NameAssumption DEF TombInv
    <3>2. QED
      BY <2>1, <3>1 DEF CreateInv, UploadAt, ApiAt
  <2>4. PICK q \in Positions : q = <<o, decs[t] + 1>>
    <3>1. decs[t] + 1 \in 1..Len0(o)
      BY <2>1, <2>2 DEF ContentOf
    <3>2. QED
      BY <3>1, PlaceExists
  <2>5. \A u \in Slots : tombOf[u] = o => u = t
    BY <2>1 DEF TombInv, Careful
  <2>6. /\ decs' = [decs EXCEPT ![t] = @ + 1] /\ UncountBlob(Content[o][decs[t] + 1])
        /\ UNCHANGED <<incs, tombOf>>
    BY <1>3, <2>1 DEF TombDecBlob, creating
  <2>7. Held(q) /\ ~Held(q)'
    BY <2>1, <2>2, <2>3, <2>4, <2>5, <2>6 DEF Held, Released, TypeOK, ContentOf
  <2>8. ASSUME NEW p \in Positions \ {q}
        PROVE  Held(p)' <=> Held(p)
    <3>1. p[1] \in Origins /\ p[2] \in Nat /\ p = <<p[1], p[2]>>
      BY PlaceFacts, ContentFacts
    <3>2. Released(p[1], p[2])' <=> Released(p[1], p[2])
      <4>1. CASE p[1] = o
        <5>1. Released(p[1], p[2]) <=> p[2] <= decs[t]
          BY <2>1, <2>5, <4>1 DEF Released
        <5>2. Released(p[1], p[2])' <=> p[2] <= decs[t] + 1
          BY <2>1, <2>5, <2>6, <4>1 DEF Released, TypeOK
        <5>3. p[2] # decs[t] + 1
          BY <2>4, <3>1, <4>1
        <5>4. QED
          BY <2>1, <3>1, <5>1, <5>2, <5>3
      <4>2. CASE p[1] # o
        BY <2>1, <2>6, <3>1, <4>2 DEF Released, TypeOK
      <4>3. QED
        BY <4>1, <4>2
    <3>3. QED
      BY <2>6, <3>2 DEF Held
  <2>9. QED
    BY <1>0, <2>4, <2>6, <2>7, <2>8, LedgerLoses
<1>4. CASE UNCHANGED <<blobRefs, incs, tombOf, decs>>
  BY <1>4, LedgerFrame DEF Held, Released
<1>5. QED
  BY <1>1, <1>2, <1>3, <1>4, LedgerActions

LEMMA LedgerStart == Init => LedgerInv
<1> SUFFICES ASSUME Init PROVE LedgerInv
  OBVIOUS
<1>1. \A p \in Positions : ~Held(p)
  <2> SUFFICES ASSUME NEW p \in Positions PROVE ~Held(p)
    OBVIOUS
  <2>1. p[1] \in Origins /\ p[2] \in Nat /\ p[2] > 0
    BY PlaceFacts, ContentFacts
  <2>2. QED
    BY <2>1 DEF Init, Held
<1>2. \A b \in Blobs : BlobHolders(b) = {}
  BY <1>1 DEF BlobHolders, Held
<1>3. QED
  BY <1>2, FS_EmptySet DEF LedgerInv, Init

\* With careful clients every blob's count is the number of places that hold
\* it, in every interleaving of creating, failing and tombstoning requests.
THEOREM BlobLedgerHolds == Careful => (Spec => []BlobLedger)
<1> SUFFICES ASSUME Careful PROVE Spec => []BlobLedger
  OBVIOUS
<1>1. Init => WholeInv /\ LedgerInv
  BY WholeInit, LedgerStart
<1>2. WholeInv /\ LedgerInv /\ [Next]_vars => (WholeInv /\ LedgerInv)'
  BY WholeStep, LedgerStep DEF Careful
<1>3. LedgerInv => BlobLedger
  BY DEF LedgerInv, BlobLedger
<1>4. QED
  BY <1>1, <1>2, <1>3, PTL DEF Spec
-----------------------------------------------------------------------------
(* The origin ledger.  It counts representations and references alike, so a *)
(* reference must not be given back twice.                                   *)

Disciplined == Careful /\ "repeat" \notin Permits

Used == {r \in Refs : ref[r] # "unused"}

\* Only finitely many references have been made, so the cardinalities exist.
OriginInv == IsFiniteSet(Used) /\ OriginLedger

\* What holds o now, of the two kinds, and in the next state.
LEMMA HoldersFinite ==
  ASSUME TypeOK, IsFiniteSet(Used), NEW o \in Origins
  PROVE  /\ IsFiniteSet(RepHolders(o)) /\ Cardinality(RepHolders(o)) \in Nat
         /\ IsFiniteSet(RefHolders(o)) /\ Cardinality(RefHolders(o)) \in Nat
<1>1. reps[o] \in Nat /\ RepHolders(o) \in SUBSET (1..reps[o])
  BY DEF TypeOK, RepHolders
<1>2. IsFiniteSet(1..reps[o])
  BY <1>1, FS_Interval
<1>3. RefHolders(o) \in SUBSET Used /\ IsFiniteSet(Used)
  BY DEF RefHolders, Used
<1>4. QED
  BY <1>1, <1>2, <1>3, FS_Subset, FS_CardinalityType

\* The holders of the origins in P are as they were.
SameHolders(P) == \A p \in P : RepHolders(p)' = RepHolders(p) /\ RefHolders(p)' = RefHolders(p)

LEMMA OriginFrame ==
  ASSUME OriginLedger, UNCHANGED originRefs, SameHolders(Origins)
  PROVE  OriginLedger'
  BY DEF OriginLedger, SameHolders

HeldBy(o) == Cardinality(RepHolders(o)) + Cardinality(RefHolders(o))

\* One holder more, of either kind.
LEMMA HoldersGain ==
  ASSUME TypeOK, IsFiniteSet(Used), NEW o \in Origins, NEW x,
         \/ /\ RepHolders(o)' = RepHolders(o) \cup {x} /\ x \notin RepHolders(o)
            /\ RefHolders(o)' = RefHolders(o)
         \/ /\ RefHolders(o)' = RefHolders(o) \cup {x} /\ x \notin RefHolders(o)
            /\ RepHolders(o)' = RepHolders(o)
  PROVE  HeldBy(o) \in Nat /\ HeldBy(o)' = HeldBy(o) + 1
<1>1. CASE RefHolders(o)' = RefHolders(o)
  <2>1. Cardinality(RepHolders(o)') = Cardinality(RepHolders(o)) + 1
    BY <1>1, HoldersFinite, FS_AddElement
  <2>2. QED
    BY <1>1, <2>1, HoldersFinite DEF HeldBy
<1>2. CASE RepHolders(o)' = RepHolders(o)
  <2>1. Cardinality(RefHolders(o)') = Cardinality(RefHolders(o)) + 1
    BY <1>2, HoldersFinite, FS_AddElement
  <2>2. QED
    BY <1>2, <2>1, HoldersFinite DEF HeldBy
<1>3. QED
  BY <1>1, <1>2

\* One holder less.
LEMMA HoldersLose ==
  ASSUME TypeOK, IsFiniteSet(Used), NEW o \in Origins, NEW x,
         \/ /\ RepHolders(o)' = RepHolders(o) \ {x} /\ x \in RepHolders(o)
            /\ RefHolders(o)' = RefHolders(o)
         \/ /\ RefHolders(o)' = RefHolders(o) \ {x} /\ x \in RefHolders(o)
            /\ RepHolders(o)' = RepHolders(o)
  PROVE  HeldBy(o) \in Nat /\ HeldBy(o) > 0 /\ HeldBy(o)' = HeldBy(o) - 1
<1>1. CASE RefHolders(o)' = RefHolders(o) /\ x \in RepHolders(o)
  <2>1. Cardinality(RepHolders(o)') = Cardinality(RepHolders(o)) - 1
    BY <1>1, HoldersFinite, FS_RemoveElement
  <2>2. Cardinality(RepHolders(o)) > 0
    BY <1>1, HoldersFinite, FS_EmptySet
  <2>3. QED
    BY <1>1, <2>1, <2>2, HoldersFinite DEF HeldBy
<1>2. CASE RepHolders(o)' = RepHolders(o) /\ x \in RefHolders(o)
  <2>1. Cardinality(RefHolders(o)') = Cardinality(RefHolders(o)) - 1
    BY <1>2, HoldersFinite, FS_RemoveElement
  <2>2. Cardinality(RefHolders(o)) > 0
    BY <1>2, HoldersFinite, FS_EmptySet
  <2>3. QED
    BY <1>2, <2>1, <2>2, HoldersFinite DEF HeldBy
<1>3. QED
  BY <1>1, <1>2

\* If o gets one more holder and is counted, the ledger stays right.
LEMMA OriginGains ==
  ASSUME TypeOK, OriginInv, NEW o \in Origins, CountOrigin(o),
         SameHolders(Origins \ {o}), HeldBy(o)' = HeldBy(o) + 1
  PROVE  OriginLedger'
<1>1. originRefs'[o] = originRefs[o] + 1 /\ \A p \in Origins \ {o} : originRefs'[p] = originRefs[p]
  BY DEF TypeOK, CountOrigin
<1>2. \A p \in Origins : originRefs[p] = HeldBy(p)
  BY DEF OriginInv, OriginLedger, HeldBy
<1>3. \A p \in Origins \ {o} : HeldBy(p)' = HeldBy(p)
  BY DEF SameHolders, HeldBy
<1>4. \A p \in Origins : originRefs'[p] = HeldBy(p)'
  BY <1>1, <1>2, <1>3
<1>5. QED
  BY <1>4 DEF OriginLedger, HeldBy

\* If o loses a holder and is uncounted, the ledger stays right: the decrement
\* does not saturate, as the holder lost was one.
LEMMA OriginLoses ==
  ASSUME TypeOK, OriginInv, NEW o \in Origins, UncountOrigin(o),
         SameHolders(Origins \ {o}), HeldBy(o) > 0, HeldBy(o)' = HeldBy(o) - 1
  PROVE  OriginLedger'
<1>1. \A p \in Origins : originRefs[p] = HeldBy(p)
  BY DEF OriginInv, OriginLedger, HeldBy
<1>2. originRefs'[o] = originRefs[o] - 1 /\ \A p \in Origins \ {o} : originRefs'[p] = originRefs[p]
  BY <1>1 DEF TypeOK, UncountOrigin, Dec
<1>3. \A p \in Origins \ {o} : HeldBy(p)' = HeldBy(p)
  BY DEF SameHolders, HeldBy
<1>4. \A p \in Origins : originRefs'[p] = HeldBy(p)'
  BY <1>1, <1>2, <1>3
<1>5. QED
  BY <1>4 DEF OriginLedger, HeldBy

\* Representations are counted by the request that creates the origin.
LEMMA IncOriginHolds ==
  ASSUME WholeInv, IsFiniteSet(Used), NEW o \in Origins, IncOrigin(o)
  PROVE  /\ CountOrigin(o) /\ SameHolders(Origins \ {o})
         /\ HeldBy(o) \in Nat /\ HeldBy(o)' = HeldBy(o) + 1
<1> USE DEF WholeInv, TypeInv, holding, retiring
<1>1. /\ reps' = [reps EXCEPT ![o] = @ + 1] /\ CountOrigin(o)
      /\ pc[o] = "inc_origin" /\ reps[o] \in Nat
      /\ UNCHANGED <<ref, refOf, tombOf, decReps>>
  BY DEF IncOrigin, TypeOK
<1>2. \A p \in Origins : RefHolders(p)' = RefHolders(p)
  BY <1>1 DEF RefHolders
<1>3. \A t \in Slots : tombOf[t] # o
  BY <1>1, NameAssumption DEF TombInv
<1>4. RepHolders(o) = 1..reps[o] /\ RepHolders(o)' = 1..reps[o] + 1
  BY <1>1, <1>3 DEF RepHolders, TypeOK
<1>5. RepHolders(o)' = RepHolders(o) \cup {reps[o] + 1} /\ reps[o] + 1 \notin RepHolders(o)
  BY <1>1, <1>4
<1>6. \A p \in Origins \ {o} : RepHolders(p)' = RepHolders(p)
  BY <1>1 DEF RepHolders, TypeOK
<1>7. SameHolders(Origins \ {o})
  BY <1>2, <1>6 DEF SameHolders
<1>8. QED
  BY <1>1, <1>2, <1>5, <1>7, HoldersGain

LEMMA CreateOrigins ==
  ASSUME WholeInv, OriginInv, NEW o \in Origins, Create(o)
  PROVE  OriginLedger'
<1> USE DEF WholeInv, TypeInv, creating, holding, retiring
<1>1. CASE IncOrigin(o)
  BY <1>1, IncOriginHolds, OriginGains DEF OriginInv
<1>2. CASE UNCHANGED <<reps, originRefs>>
  <2>1. UNCHANGED <<ref, refOf, tombOf, tombAt, decReps, decs>>
    BY Frames
  <2>2. QED
    BY <1>2, <2>1, OriginFrame DEF OriginInv, RepHolders, RefHolders, SameHolders
<1>3. QED
  BY <1>1, <1>2 DEF Create, Begin, PutBytes, CheckBlob, Register, IncBlob, AddEdge, Abandon

\* A reference holds its origin from its count to its drop.
Holds(r) == ref[r] \in {"counted", "acked", "released"}

LEMMA HoldOrigins ==
  ASSUME Disciplined, WholeInv, OriginInv, NEW r \in Refs, Hold(r)
  PROVE  OriginLedger'
<1> USE DEF WholeInv, TypeInv, creating, holding, retiring, SetRef
<1>1. UNCHANGED <<reps, tombOf, decReps>>
  BY Frames
<1>2. \A p \in Origins : RepHolders(p)' = RepHolders(p)
  BY <1>1 DEF RepHolders
<1>3. ref[r] # "unused" => refOf[r] \in Origins
  BY DEF TypeOK
<1>4. ASSUME NEW o \in Origins, RefRecord(r, o)
      PROVE  OriginLedger'
  <2>1. /\ ref' = [ref EXCEPT ![r] = "recorded"] /\ refOf' = [refOf EXCEPT ![r] = o]
        /\ ref[r] = "unused" /\ UNCHANGED originRefs
    BY <1>4 DEF RefRecord
  <2>2. \A p \in Origins : RefHolders(p)' = RefHolders(p)
    BY <2>1 DEF RefHolders, TypeOK
  <2>3. QED
    BY <1>2, <2>1, <2>2, OriginFrame DEF OriginInv, SameHolders
<1>5. ASSUME UNCHANGED <<refOf, originRefs>>, NEW state, ref' = [ref EXCEPT ![r] = state],
             Holds(r) <=> Holds(r)'
      PROVE  OriginLedger'
  <2>1. \A p \in Origins : RefHolders(p)' = RefHolders(p)
    BY <1>5 DEF RefHolders, Holds, TypeOK
  <2>2. QED
    BY <1>2, <1>5, <2>1, OriginFrame DEF OriginInv, SameHolders
<1>6. CASE RefEdge(r) \/ ReleasePin(r)
  <2>1. PICK state \in {"acked", "released"} : ref' = [ref EXCEPT ![r] = state]
    BY <1>6 DEF RefEdge, ReleasePin
  <2>2. Holds(r) /\ Holds(r)'
    BY <1>6, <2>1 DEF Holds, TypeOK, RefEdge, ReleasePin, Releasable, Disciplined
  <2>3. UNCHANGED <<refOf, originRefs>>
    BY <1>6 DEF RefEdge, ReleasePin
  <2>4. QED
    BY <1>5, <2>1, <2>2, <2>3
<1>7. CASE RefCount(r)
  <2>1. /\ ref' = [ref EXCEPT ![r] = "counted"] /\ UNCHANGED refOf
        /\ ref[r] = "recorded" /\ refOf[r] \in Origins /\ CountOrigin(refOf[r])
    BY <1>3, <1>7 DEF RefCount
  <2>2. /\ RefHolders(refOf[r])' = RefHolders(refOf[r]) \cup {r}
        /\ r \notin RefHolders(refOf[r])
    BY <2>1 DEF RefHolders, TypeOK
  <2>3. \A p \in Origins \ {refOf[r]} : RefHolders(p)' = RefHolders(p)
    BY <2>1 DEF RefHolders, TypeOK
  <2>4. SameHolders(Origins \ {refOf[r]})
    BY <1>2, <2>3 DEF SameHolders
  <2>5. HeldBy(refOf[r])' = HeldBy(refOf[r]) + 1
    BY <1>2, <2>1, <2>2, HoldersGain DEF OriginInv
  <2>6. QED
    BY <2>1, <2>4, <2>5, OriginGains
<1>8. CASE ReleaseShare(r) \/ DropPin(r)
  <2>1. /\ ref' = [ref EXCEPT ![r] = "dropped"] /\ UNCHANGED refOf
        /\ ref[r] \in {"acked", "released"} /\ refOf[r] \in Origins
        /\ UncountOrigin(refOf[r])
    BY <1>3, <1>8 DEF ReleaseShare, DropPin, Releasable, Disciplined
  <2>2. RefHolders(refOf[r])' = RefHolders(refOf[r]) \ {r} /\ r \in RefHolders(refOf[r])
    BY <2>1 DEF RefHolders, TypeOK
  <2>3. \A p \in Origins \ {refOf[r]} : RefHolders(p)' = RefHolders(p)
    BY <2>1 DEF RefHolders, TypeOK
  <2>4. SameHolders(Origins \ {refOf[r]})
    BY <1>2, <2>3 DEF SameHolders
  <2>5. HeldBy(refOf[r]) > 0 /\ HeldBy(refOf[r])' = HeldBy(refOf[r]) - 1
    BY <1>2, <2>1, <2>2, HoldersLose DEF OriginInv
  <2>6. QED
    BY <2>1, <2>4, <2>5, OriginLoses
<1>9. QED
  BY <1>4, <1>6, <1>7, <1>8 DEF Hold

\* A tombstone request gives the representations back one by one.
LEMMA RetireOrigins ==
  ASSUME Careful, WholeInv, OriginInv, NEW t \in Slots, Retire(t)
  PROVE  OriginLedger'
<1> USE DEF WholeInv, TypeInv, creating, holding, retiring
<1>1. UNCHANGED <<reps, ref, refOf>>
  BY Frames
<1>2. \A p \in Origins : RefHolders(p)' = RefHolders(p)
  BY <1>1 DEF RefHolders
<1>3. ASSUME UNCHANGED originRefs, \A p \in Origins : RepHolders(p)' = RepHolders(p)
      PROVE  OriginLedger'
  BY <1>2, <1>3, OriginFrame DEF OriginInv, SameHolders
<1>4. ASSUME NEW o \in Origins, TombRead(t, o)
      PROVE  OriginLedger'
  <2>1. /\ tombOf' = [tombOf EXCEPT ![t] = o] /\ UNCHANGED <<originRefs, decReps>>
        /\ decReps[t] = 0
    BY <1>4 DEF TombRead, Idle, TypeOK
  <2>2. ASSUME NEW p \in Origins, NEW i \in 1..reps[p]
        PROVE  (\E u \in Slots : tombOf'[u] = p /\ i <= decReps[u])
                 <=> \E u \in Slots : tombOf[u] = p /\ i <= decReps[u]
    <3>1. i \in Nat /\ i > 0
      BY <2>2 DEF TypeOK
    <3>2. \A u \in Slots \ {t} : tombOf'[u] = tombOf[u]
      BY <2>1 DEF TypeOK
    <3>3. ~(i <= decReps[t])
      BY <2>1, <3>1
    <3>4. QED
      BY <3>2, <3>3
  <2>3. \A p \in Origins : RepHolders(p)' = RepHolders(p)
    BY <1>1, <2>1, <2>2 DEF RepHolders
  <2>4. QED
    BY <1>3, <2>1, <2>3
<1>5. CASE TombDecOrigin(t)
  <2>1. PICK o \in Origins : o = tombOf[t] /\ Releasing(t) /\ decReps[t] \in Nat
    BY <1>5 DEF TypeOK, TombDecOrigin, Releasing
  <2>2. pc[o] = "done" /\ reps[o] = NReps(o) /\ decReps[t] < NReps(o) /\ NReps(o) \in Nat
    <3>1. pc[o] = "done"
      BY <2>1, NameAssumption DEF TombInv
    <3>2. ContentOf(o)
      BY ContentFacts
    <3>3. reps[o] = NReps(o)
      BY <3>1, <3>2 DEF CreateInv, UploadAt, ApiAt, ContentOf
    <3>4. QED
      BY <1>5, <2>1, <3>1, <3>2, <3>3 DEF DecsInv, TombDecOrigin, ContentOf
  <2>3. \A u \in Slots : tombOf[u] = o => u = t
    BY <2>1 DEF TombInv, Careful
  <2>4. decReps' = [decReps EXCEPT ![t] = @ + 1] /\ UncountOrigin(o) /\ UNCHANGED tombOf
    BY <1>5, <2>1 DEF TombDecOrigin
  <2> DEFINE x == decReps[t] + 1
  <2>5. \A i \in 1..reps[o] : (\E u \in Slots : tombOf[u] = o /\ i <= decReps[u]) <=> i <= decReps[t]
    BY <2>1, <2>3
  <2>6. \A i \in 1..reps[o] : (\E u \in Slots : tombOf'[u] = o /\ i <= decReps'[u]) <=> i <= x
    BY <2>1, <2>3, <2>4 DEF TypeOK
  <2>7. RepHolders(o)' = RepHolders(o) \ {x} /\ x \in RepHolders(o)
    <3>1. RepHolders(o) = {i \in 1..reps[o] : ~(i <= decReps[t])}
      BY <2>5 DEF RepHolders
    <3>2. RepHolders(o)' = {i \in 1..reps[o] : ~(i <= x)}
      BY <1>1, <2>6 DEF RepHolders
    <3>3. QED
      BY <2>1, <2>2, <3>1, <3>2
  <2>8. \A p \in Origins \ {o} : RepHolders(p)' = RepHolders(p)
    BY <1>1, <2>1, <2>4 DEF RepHolders, TypeOK
  <2>9. SameHolders(Origins \ {o})
    BY <1>2, <2>8 DEF SameHolders
  <2>10. HeldBy(o) > 0 /\ HeldBy(o)' = HeldBy(o) - 1
    BY <1>2, <2>7, HoldersLose DEF OriginInv
  <2>11. QED
    BY <2>4, <2>9, <2>10, OriginLoses
<1>6. CASE TombDecBlob(t) \/ TombUpdate(t)
  <2>1. UNCHANGED <<originRefs, tombOf, decReps>>
    BY <1>6 DEF TombDecBlob, TombUpdate
  <2>2. QED
    BY <1>1, <1>3, <2>1 DEF RepHolders
<1>7. QED
  BY <1>4, <1>5, <1>6 DEF Retire

LEMMA UsedStep ==
  ASSUME TypeInv, IsFiniteSet(Used), [Next]_vars
  PROVE  IsFiniteSet(Used')
<1> USE DEF creating, holding, retiring
<1>1. ASSUME NEW r \in Refs, Hold(r)
      PROVE  Used' \in SUBSET (Used \cup {r})
  BY <1>1 DEF Used, Hold, RefRecord, RefCount, RefEdge, ReleaseShare, ReleasePin,
     DropPin, SetRef, TypeInv, TypeOK
<1>2. CASE UNCHANGED ref
  BY <1>2 DEF Used
<1>3. UNCHANGED ref \/ \E r \in Refs : Hold(r)
  BY Frames DEF Next, vars
<1>4. ASSUME NEW r \in Refs, Hold(r)
      PROVE  IsFiniteSet(Used')
  <2>1. IsFiniteSet(Used \cup {r})
    BY FS_AddElement
  <2>2. QED
    BY <1>1, <1>4, <2>1, FS_Subset
<1>5. QED
  BY <1>2, <1>3, <1>4

LEMMA OriginStep ==
  ASSUME Disciplined, WholeInv, OriginInv, [Next]_vars
  PROVE  OriginInv'
<1> USE DEF creating, holding, retiring
<1>1. IsFiniteSet(Used')
  BY UsedStep DEF WholeInv, OriginInv
<1>2. ASSUME NEW b \in Blobs, CreateBlob(b)
      PROVE  OriginLedger'
  BY <1>2, Frames, OriginFrame DEF OriginInv, SameHolders, RepHolders, RefHolders
<1>3. ASSUME UNCHANGED vars
      PROVE  OriginLedger'
  BY <1>3, OriginFrame DEF vars, OriginInv, SameHolders, RepHolders, RefHolders
<1>4. ASSUME NEW o \in Origins, Create(o)
      PROVE  OriginLedger'
  BY <1>4, CreateOrigins
<1>5. ASSUME NEW r \in Refs, Hold(r)
      PROVE  OriginLedger'
  BY <1>5, HoldOrigins
<1>6. ASSUME NEW t \in Slots, Retire(t)
      PROVE  OriginLedger'
  BY <1>6, RetireOrigins DEF Disciplined
<1>7. OriginLedger'
  BY <1>2, <1>3, <1>4, <1>5, <1>6 DEF Next
<1>8. QED
  BY <1>1, <1>7 DEF OriginInv

LEMMA OriginStart == Init => OriginInv
<1> SUFFICES ASSUME Init PROVE OriginInv
  OBVIOUS
<1>1. Used = {} /\ \A o \in Origins : RefHolders(o) = {}
  BY DEF Init, Used, RefHolders
<1>2. \A o \in Origins : RepHolders(o) = {}
  BY DEF Init, RepHolders
<1>3. QED
  BY <1>1, <1>2, FS_EmptySet DEF Init, OriginInv, OriginLedger

\* If clients are careful and release a share or a pin once, every origin's
\* count is the number of representations, shares, pins and derivations that
\* hold it, in every interleaving (is_gc_candidate reads that count).
THEOREM OriginLedgerHolds == Disciplined => (Spec => []OriginLedger)
<1> SUFFICES ASSUME Disciplined PROVE Spec => []OriginLedger
  OBVIOUS
<1>1. Init => WholeInv /\ OriginInv
  BY WholeInit, OriginStart
<1>2. WholeInv /\ OriginInv /\ [Next]_vars => (WholeInv /\ OriginInv)'
  BY WholeStep, OriginStep DEF Disciplined, Careful
<1>3. OriginInv => OriginLedger
  BY DEF OriginInv
<1>4. QED
  BY <1>1, <1>2, <1>3, PTL DEF Spec
-----------------------------------------------------------------------------
(* Lineage.  What the edges record of creating requests and of references,  *)
(* and what a tombstone leaves behind of the representations it released.   *)

\* An upload has the edge of its root when it is done; the API has one for
\* every root it counted, but for the one it is about to add.
EdgeAt(o) ==
  /\ o \in Uploads =>
       /\ \A i \in Nat : <<o, i>> \in lineage => i = 1
       /\ pc[o] = "done" => <<o, 1>> \in lineage
  /\ o \notin Uploads /\ pc[o] # "failed" =>
       \A i \in 1..incs[o] : <<o, i>> \in lineage \/ (pc[o] = "edge" /\ i = incs[o])

Edged(r) == ref[r] \in {"acked", "released", "dropped"}

EdgeInv ==
  /\ \A o \in Origins : EdgeAt(o)
  /\ \A r \in Refs : r \in lineage <=> Edged(r)

\* A request about to write the record back has released every representation
\* of the origin, or found it tombstoned; a tombstoned origin was emptied.
EmptiedInv ==
  /\ \A t \in Slots : tombAt[t] = "update" =>
       decReps[t] = NReps(tombOf[t]) \/ registry[tombOf[t]] = "tombstoned"
  /\ \A o \in Origins : registry[o] = "tombstoned" =>
       \E t \in Slots : tombOf[t] = o /\ decReps[t] = NReps(o)

LineageInv == WholeInv /\ OriginInv /\ EdgeInv /\ EmptiedInv

\* A step that leaves the lineage, the references and the progress of creating
\* requests alone, and one that adds the edge of a reference.
LEMMA EdgeFrame ==
  ASSUME EdgeInv, UNCHANGED <<pc, incs>>,
         \A o \in Origins : \A i \in Nat : <<o, i>> \in lineage' <=> <<o, i>> \in lineage,
         \A r \in Refs : r \in lineage' <=> Edged(r)',
         \A o \in Origins : incs[o] \in Nat
  PROVE  EdgeInv'
<1>1. ASSUME NEW o \in Origins
      PROVE  EdgeAt(o)'
  <2>1. EdgeAt(o) /\ incs[o] \in Nat
    BY DEF EdgeInv
  <2>2. \A i \in 1..incs[o] : i \in Nat
    BY <2>1
  <2>3. QED
    BY <2>1, <2>2 DEF EdgeAt
<1>2. QED
  BY <1>1 DEF EdgeInv

\* A step of the request that creates o keeps the edges of the others.
LEMMA EdgeOthers ==
  ASSUME TypeOK, EdgeInv, NEW o \in Origins, UNCHANGED ref,
         \A p \in Origins \ {o} : pc'[p] = pc[p] /\ incs'[p] = incs[p],
         NEW E, E \subseteq {o} \X Nat, lineage' = lineage \cup E,
         EdgeAt(o)'
  PROVE  EdgeInv'
<1>1. \A r \in Refs : r \notin E
  BY NameAssumption
<1>2. \A r \in Refs : r \in lineage' <=> Edged(r)'
  BY <1>1 DEF EdgeInv, Edged
<1>3. ASSUME NEW p \in Origins, p # o
      PROVE  EdgeAt(p)'
  <2>1. EdgeAt(p) /\ incs[p] \in Nat
    BY DEF EdgeInv, TypeOK
  <2>2. \A i \in Nat : <<p, i>> \in lineage' <=> <<p, i>> \in lineage
    BY <1>3
  <2>3. \A i \in 1..incs[p] : i \in Nat
    BY <2>1
  <2>4. pc'[p] = pc[p] /\ incs'[p] = incs[p]
    BY <1>3
  <2>5. QED
    BY <2>1, <2>2, <2>3, <2>4 DEF EdgeAt
<1>4. QED
  BY <1>2, <1>3 DEF EdgeInv

LEMMA EdgeCreate ==
  ASSUME WholeInv, EdgeInv, NEW o \in Origins, Create(o)
  PROVE  EdgeInv'
<1> USE DEF WholeInv, TypeInv, creating, holding, retiring, Goto
<1>0. /\ ContentOf(o) /\ (IF o \in Uploads THEN UploadAt(o) ELSE ApiAt(o))
      /\ incs[o] \in Nat /\ EdgeAt(o) /\ pc \in [Origins -> CreatePhases]
      /\ incs \in [Origins -> Nat]
  BY ContentFacts DEF CreateInv, TypeOK, EdgeInv
<1>1. UNCHANGED ref
  BY Frames
<1>2. CASE \/ Begin(o) \/ PutBytes(o) \/ CheckBlob(o) \/ Register(o)
           \/ IncOrigin(o) \/ Abandon(o)
  <2>1. UNCHANGED <<lineage, incs>> /\ \E phase : pc' = [pc EXCEPT ![o] = phase]
    BY <1>2 DEF Begin, PutBytes, CheckBlob, Register, IncOrigin, Abandon
  <2>2. /\ pc'[o] \notin {"done", "edge"} \/ (pc'[o] = "done" /\ o \notin Uploads)
        /\ pc[o] = "edge" => pc'[o] = "failed"
        /\ pc[o] # "failed"
    BY <1>0, <1>2 DEF Begin, PutBytes, CheckBlob, Register, IncOrigin, Abandon, NextRep
  <2>3. EdgeAt(o)'
    BY <1>0, <2>1, <2>2 DEF EdgeAt
  <2>4. lineage' = lineage \cup {} /\ {} \subseteq {o} \X Nat
    BY <2>1
  <2>5. \A p \in Origins \ {o} : pc'[p] = pc[p] /\ incs'[p] = incs[p]
    BY <1>0, <2>1
  <2>6. QED
    BY <1>1, <2>3, <2>4, <2>5, EdgeOthers
<1>3. CASE IncBlob(o)
  <2>1. /\ incs' = [incs EXCEPT ![o] = @ + 1] /\ UNCHANGED lineage
        /\ pc' = [pc EXCEPT ![o] = IF MoreChunks(o) THEN "inc_blob" ELSE "edge"]
        /\ pc[o] = "inc_blob"
    BY <1>3 DEF IncBlob
  <2>2. o \notin Uploads => ~MoreChunks(o)
    BY DEF MoreChunks
  <2>3. /\ incs'[o] = incs[o] + 1 /\ pc'[o] \in {"inc_blob", "edge"}
        /\ o \notin Uploads => pc'[o] = "edge"
    BY <1>0, <2>1, <2>2
  <2>4. \A i \in 1..incs[o] + 1 : i \in 1..incs[o] \/ i = incs[o] + 1
    BY <1>0
  <2>5. EdgeAt(o)'
    BY <1>0, <2>1, <2>3, <2>4 DEF EdgeAt
  <2>6. lineage' = lineage \cup {} /\ {} \subseteq {o} \X Nat
    BY <2>1
  <2>7. \A p \in Origins \ {o} : pc'[p] = pc[p] /\ incs'[p] = incs[p]
    BY <1>0, <2>1
  <2>8. QED
    BY <1>1, <2>5, <2>6, <2>7, EdgeOthers
<1>4. CASE AddEdge(o)
  <2>1. /\ lineage' = lineage \cup {<<o, EdgeRoot(o)>>} /\ UNCHANGED incs
        /\ \E phase : pc' = [pc EXCEPT ![o] = phase]
        /\ pc[o] = "edge"
    BY <1>4 DEF AddEdge
  <2>2. EdgeRoot(o) \in Nat /\ (o \in Uploads => EdgeRoot(o) = 1)
        /\ (o \notin Uploads => EdgeRoot(o) = incs[o])
    BY <1>0 DEF EdgeRoot
  <2>3. EdgeAt(o)'
    BY <1>0, <2>1, <2>2 DEF EdgeAt
  <2>4. {<<o, EdgeRoot(o)>>} \subseteq {o} \X Nat
    BY <2>2
  <2>5. \A p \in Origins \ {o} : pc'[p] = pc[p] /\ incs'[p] = incs[p]
    BY <1>0, <2>1
  <2>6. QED
    BY <1>1, <2>1, <2>3, <2>4, <2>5, EdgeOthers
<1>5. QED
  BY <1>2, <1>3, <1>4 DEF Create

\* The edge of a reference is added once, when it is acknowledged, and its
\* state is one of an acknowledged reference from then on.
LEMMA EdgeHold ==
  ASSUME Disciplined, WholeInv, EdgeInv, NEW r \in Refs, Hold(r)
  PROVE  EdgeInv'
<1> USE DEF WholeInv, TypeInv, creating, holding, retiring, SetRef
<1>1. UNCHANGED <<pc, incs>>
  BY Frames
<1>2. ref \in [Refs -> RefStates] /\ \A o \in Origins : incs[o] \in Nat
  BY DEF TypeOK
<1>3. \A q \in Refs : q \in lineage <=> Edged(q)
  BY DEF EdgeInv
<1>4. ASSUME NEW state, ref' = [ref EXCEPT ![r] = state], UNCHANGED lineage,
             Edged(r) <=> Edged(r)'
      PROVE  EdgeInv'
  <2>1. \A q \in Refs : q \in lineage' <=> Edged(q)'
    BY <1>2, <1>3, <1>4 DEF Edged
  <2>2. QED
    BY <1>1, <1>2, <1>4, <2>1, EdgeFrame
<1>5. CASE RefEdge(r)
  <2>1. /\ lineage' = lineage \cup {r} /\ ref' = [ref EXCEPT ![r] = "acked"]
    BY <1>5 DEF RefEdge
  <2>2. \A o \in Origins : \A i \in Nat : <<o, i>> # r
    BY NameAssumption
  <2>3. \A q \in Refs : q \in lineage' <=> Edged(q)'
    BY <1>2, <1>3, <2>1 DEF Edged
  <2>4. \A o \in Origins : \A i \in Nat : <<o, i>> \in lineage' <=> <<o, i>> \in lineage
    BY <2>1, <2>2
  <2>5. QED
    BY <1>1, <1>2, <2>3, <2>4, EdgeFrame
<1>6. CASE (\E o \in Origins : RefRecord(r, o)) \/ RefCount(r)
  <2>1. PICK state \in {"recorded", "counted"} : ref' = [ref EXCEPT ![r] = state]
    BY <1>6 DEF RefRecord, RefCount
  <2>2. UNCHANGED lineage /\ ref[r] \in {"unused", "recorded"}
    BY <1>6 DEF RefRecord, RefCount
  <2>3. ~Edged(r) /\ ~Edged(r)'
    BY <1>2, <2>1, <2>2 DEF Edged
  <2>4. QED
    BY <1>4, <2>1, <2>2, <2>3
<1>7. CASE ReleaseShare(r) \/ ReleasePin(r) \/ DropPin(r)
  <2>1. PICK state \in {"released", "dropped"} : ref' = [ref EXCEPT ![r] = state]
    BY <1>7 DEF ReleaseShare, ReleasePin, DropPin
  <2>2. UNCHANGED lineage /\ ref[r] \in {"acked", "released"}
    BY <1>7 DEF ReleaseShare, ReleasePin, DropPin, Releasable, Disciplined
  <2>3. Edged(r) /\ Edged(r)'
    BY <1>2, <2>1, <2>2 DEF Edged
  <2>4. QED
    BY <1>4, <2>1, <2>2, <2>3
<1>8. QED
  BY <1>5, <1>6, <1>7 DEF Hold

LEMMA EdgeStep ==
  ASSUME Disciplined, WholeInv, EdgeInv, [Next]_vars
  PROVE  EdgeInv'
<1> USE DEF creating, holding, retiring
<1>1. \A o \in Origins : incs[o] \in Nat
  BY DEF WholeInv, TypeInv, TypeOK
<1>2. ASSUME UNCHANGED <<pc, incs, lineage, ref>>
      PROVE  EdgeInv'
  BY <1>1, <1>2, EdgeFrame DEF EdgeInv, Edged
<1>3. ASSUME NEW t \in Slots, Retire(t)
      PROVE  UNCHANGED <<pc, incs, lineage, ref>>
  BY <1>3 DEF Retire, TombRead, TombDecOrigin, TombDecBlob, TombUpdate
<1>4. ASSUME NEW b \in Blobs, CreateBlob(b)
      PROVE  UNCHANGED <<pc, incs, lineage, ref>>
  BY <1>4, Frames
<1>5. UNCHANGED vars => UNCHANGED <<pc, incs, lineage, ref>>
  BY DEF vars
<1>6. QED
  BY <1>2, <1>3, <1>4, <1>5, EdgeCreate, EdgeHold DEF Next

\* Creating and referencing requests leave what was emptied alone.
LEMMA EmptiedFrame ==
  ASSUME WholeInv, EmptiedInv, UNCHANGED <<tombOf, tombAt, decReps>>,
         \A o \in Origins : pc[o] = "done" => registry'[o] = registry[o],
         \A o \in Origins : registry'[o] = "tombstoned" => registry[o] = "tombstoned"
  PROVE  EmptiedInv'
<1>1. ASSUME NEW t \in Slots, tombAt[t] = "update"
      PROVE  tombOf[t] \in Origins /\ pc[tombOf[t]] = "done"
  BY <1>1, NameAssumption DEF WholeInv, TypeInv, TypeOK, TombInv
<1>2. QED
  BY <1>1 DEF EmptiedInv

LEMMA EmptiedRetire ==
  ASSUME Whole, WholeInv, EmptiedInv, NEW t \in Slots, Retire(t)
  PROVE  EmptiedInv'
<1> USE DEF WholeInv, TypeInv, creating, holding, retiring
<1>0. /\ tombOf \in [Slots -> Origins \cup {NoOrigin}] /\ tombAt \in [Slots -> TombPhases]
      /\ decReps \in [Slots -> Nat] /\ \A o \in Origins : NReps(o) \in Nat
      /\ registry \in [Origins -> {"absent", "live", "tombstoned"}]
      /\ \A u \in Slots : tombAt[u] = "update" => tombOf[u] \in Origins
  BY ContentFacts DEF TypeOK, ContentOf
<1>1. ASSUME NEW o \in Origins, TombRead(t, o)
      PROVE  EmptiedInv'
  <2>1. /\ tombOf' = [tombOf EXCEPT ![t] = o] /\ UNCHANGED <<registry, decReps>>
        /\ tombAt' = [tombAt EXCEPT ![t] =
             IF registry[o] = "live" THEN NextRelease(o, 0, 0) ELSE "update"]
        /\ decReps[t] = 0 /\ tombOf[t] = NoOrigin /\ registry[o] # "absent"
    BY <1>1 DEF TombRead, Idle, TypeOK
  <2>2. \A u \in Slots \ {t} : tombOf'[u] = tombOf[u] /\ tombAt'[u] = tombAt[u]
    BY <1>0, <2>1
  <2>3. tombAt'[t] = "update" => NReps(o) = 0 \/ registry[o] = "tombstoned"
    BY <1>0, <2>1 DEF NextRelease
  <2>4. tombOf'[t] = o
    BY <1>0, <2>1
  <2>5. \A u \in Slots : tombAt'[u] = "update" =>
          decReps'[u] = NReps(tombOf'[u]) \/ registry'[tombOf'[u]] = "tombstoned"
    BY <2>1, <2>2, <2>3, <2>4 DEF EmptiedInv
  <2>6. ASSUME NEW p \in Origins, registry'[p] = "tombstoned"
        PROVE  \E u \in Slots : tombOf'[u] = p /\ decReps'[u] = NReps(p)
    <3>1. PICK u \in Slots : tombOf[u] = p /\ decReps[u] = NReps(p)
      BY <2>1, <2>6 DEF EmptiedInv
    <3>2. u # t
      BY <2>1, <3>1, NameAssumption
    <3>3. QED
      BY <2>1, <2>2, <3>1, <3>2
  <2>7. QED
    BY <2>5, <2>6 DEF EmptiedInv
<1>2. CASE TombDecOrigin(t) \/ TombDecBlob(t)
  <2>1. PICK o \in Origins : o = tombOf[t] /\ Releasing(t)
    BY <1>2 DEF TypeOK, TombDecOrigin, TombDecBlob, Releasing
  <2>2. /\ UNCHANGED <<tombOf, registry>> /\ decReps' \in [Slots -> Nat]
        /\ \A u \in Slots \ {t} : tombAt'[u] = tombAt[u] /\ decReps'[u] = decReps[u]
        /\ decReps'[t] <= NReps(o)
    BY <1>0, <1>2, <2>1 DEF TypeOK, DecsInv, TombDecOrigin, TombDecBlob
  <2>3. tombAt'[t] = "update" => decReps'[t] = NReps(o)
    <3>1. \E n \in Nat : tombAt'[t] = NextRelease(o, decReps'[t], n)
      BY <1>0, <1>2, <2>1 DEF TombDecOrigin, TombDecBlob, TypeOK
    <3>2. decReps'[t] \in Nat /\ NReps(o) \in Nat
      BY <1>0, <2>2
    <3>3. QED
      BY <2>2, <3>1, <3>2 DEF NextRelease
  <2>4. \A u \in Slots : tombAt'[u] = "update" =>
          decReps'[u] = NReps(tombOf'[u]) \/ registry'[tombOf'[u]] = "tombstoned"
    BY <2>1, <2>2, <2>3 DEF EmptiedInv
  <2>5. decReps[t] = NReps(o) => decReps'[t] = NReps(o)
    BY <1>0, <1>2, <2>1 DEF DecsInv, TombDecOrigin, TombDecBlob
  <2>6. \A p \in Origins : registry'[p] = "tombstoned" =>
          \E u \in Slots : tombOf'[u] = p /\ decReps'[u] = NReps(p)
    BY <2>1, <2>2, <2>5 DEF EmptiedInv
  <2>7. QED
    BY <2>4, <2>6 DEF EmptiedInv
<1>3. CASE TombUpdate(t)
  <2>1. PICK o \in Origins : o = tombOf[t] /\ tombAt[t] = "update"
    BY <1>0, <1>3 DEF TombUpdate
  <2>2. /\ registry' = [registry EXCEPT ![o] = "tombstoned"]
        /\ UNCHANGED <<tombOf, decReps>>
        /\ tombAt' = [tombAt EXCEPT ![t] = "done"]
    BY <1>3, <2>1 DEF TombUpdate
  <2>3. \E u \in Slots : tombOf[u] = o /\ decReps[u] = NReps(o)
    BY <2>1 DEF EmptiedInv
  <2>4. \A p \in Origins \ {o} : registry'[p] = registry[p]
    BY <1>0, <2>2
  <2>5. \A p \in Origins : registry'[p] = "tombstoned" =>
          \E u \in Slots : tombOf'[u] = p /\ decReps'[u] = NReps(p)
    BY <2>2, <2>3, <2>4 DEF EmptiedInv
  <2>6. ASSUME NEW u \in Slots, tombAt'[u] = "update"
        PROVE  decReps'[u] = NReps(tombOf'[u]) \/ registry'[tombOf'[u]] = "tombstoned"
    <3>1. tombAt[u] = "update" /\ tombOf[u] \in Origins
      BY <1>0, <2>2, <2>6
    <3>2. registry[tombOf[u]] = "tombstoned" => registry'[tombOf[u]] = "tombstoned"
      BY <1>0, <2>2, <3>1
    <3>3. QED
      BY <2>2, <3>1, <3>2 DEF EmptiedInv
  <2>7. QED
    BY <2>5, <2>6 DEF EmptiedInv
<1>4. QED
  BY <1>1, <1>2, <1>3 DEF Retire

LEMMA EmptiedStep ==
  ASSUME Whole, WholeInv, EmptiedInv, [Next]_vars
  PROVE  EmptiedInv'
<1> USE DEF creating, holding, retiring
<1>1. ASSUME UNCHANGED <<tombOf, tombAt, decReps, registry>>
      PROVE  EmptiedInv'
  BY <1>1, EmptiedFrame
<1>2. ASSUME NEW o \in Origins, Create(o)
      PROVE  EmptiedInv'
  <2>1. registry' = registry \/ (pc[o] # "done" /\ registry' = [registry EXCEPT ![o] = "live"])
    BY <1>2 DEF Create, Begin, PutBytes, CheckBlob, Register, IncOrigin, IncBlob,
           AddEdge, Abandon
  <2>2. UNCHANGED <<tombOf, tombAt, decReps>>
    BY <1>2, Frames
  <2>3. QED
    BY <2>1, <2>2, EmptiedFrame DEF WholeInv, TypeInv, TypeOK
<1>3. QED
  BY <1>1, <1>2, Frames, EmptiedRetire DEF Next, vars

LEMMA LineageStart == Init => LineageInv
<1> SUFFICES ASSUME Init PROVE LineageInv
  OBVIOUS
<1>1. EdgeInv
  BY DEF Init, EdgeInv, EdgeAt, Edged
<1>2. EmptiedInv
  BY DEF Init, EmptiedInv
<1>3. QED
  BY <1>1, <1>2, WholeInit, OriginStart DEF LineageInv

\* The representations a settled origin holds: all of them, or none once it is
\* tombstoned.
LEMMA SettledReps ==
  ASSUME LineageInv, NEW o \in Origins, Settled(o)
  PROVE  Cardinality(RepHolders(o)) = IF registry[o] = "tombstoned" THEN 0 ELSE NReps(o)
<1> USE DEF LineageInv, WholeInv, TypeInv
<1>1. pc[o] = "done" /\ ContentOf(o)
  BY ContentFacts DEF Settled
<1>2. reps[o] = NReps(o) /\ NReps(o) \in Nat
  BY <1>1 DEF CreateInv, UploadAt, ApiAt, ContentOf
<1>3. CASE registry[o] = "tombstoned"
  <2>1. PICK t \in Slots : tombOf[t] = o /\ decReps[t] = NReps(o)
    BY <1>3 DEF EmptiedInv
  <2>2. RepHolders(o) = {}
    BY <1>2, <2>1 DEF RepHolders
  <2>3. QED
    BY <1>3, <2>2, FS_EmptySet
<1>4. CASE registry[o] # "tombstoned"
  <2>1. \A t \in Slots : tombOf[t] # o
    BY <1>4 DEF Settled, TombInv
  <2>2. RepHolders(o) = 1..NReps(o)
    BY <1>2, <2>1 DEF RepHolders
  <2>3. Cardinality(1..NReps(o)) = NReps(o)
    BY <1>2, FS_Interval
  <2>4. QED
    BY <1>4, <2>2, <2>3
<1>5. QED
  BY <1>3, <1>4

\* The references with an edge to a settled origin are those that hold it and
\* those that were dropped.
LEMMA SettledRefs ==
  ASSUME LineageInv, NEW o \in Origins, Settled(o)
  PROVE  /\ Cardinality(RefEdges(o)) = Cardinality(RefHolders(o)) + Cardinality(DroppedOf(o))
         /\ Cardinality(RefHolders(o)) \in Nat /\ Cardinality(DroppedOf(o)) \in Nat
<1>1. \A r \in Refs : refOf[r] = o => ref[r] \in {"acked", "dropped"}
  BY DEF Settled
<1>2. \A r \in Refs : r \in lineage <=> Edged(r)
  BY DEF LineageInv, EdgeInv
<1>3. RefEdges(o) = RefHolders(o) \cup DroppedOf(o) /\ RefHolders(o) \cap DroppedOf(o) = {}
  BY <1>1, <1>2 DEF RefEdges, RefHolders, DroppedOf, Edged
<1>4. RefHolders(o) \in SUBSET Used /\ DroppedOf(o) \in SUBSET Used /\ IsFiniteSet(Used)
  BY DEF RefHolders, DroppedOf, Used, LineageInv, OriginInv
<1>5. IsFiniteSet(RefHolders(o)) /\ IsFiniteSet(DroppedOf(o))
  BY <1>4, FS_Subset
<1>6. Cardinality(RefHolders(o)) \in Nat /\ Cardinality(DroppedOf(o)) \in Nat
  BY <1>5, FS_CardinalityType
<1>7. Cardinality(RefEdges(o)) = Cardinality(RefHolders(o)) + Cardinality(DroppedOf(o))
                                  - Cardinality({})
  BY <1>3, <1>5, FS_Union
<1>8. Cardinality({}) = 0
  BY FS_EmptySet
<1>9. QED
  BY <1>6, <1>7, <1>8

\* With careful clients that give a reference back once, the append-only lineage
\* (what share proofs digest) accounts for every settled origin: one edge for
\* each root and each reference ever made, and the origin's count is that
\* history less what tombstone_origin, release_share and unpin gave back.
THEOREM LineageAccountsHolds == Disciplined => (Spec => []LineageAccounts)
<1> SUFFICES ASSUME Disciplined PROVE Spec => []LineageAccounts
  OBVIOUS
<1>1. Init => LineageInv
  BY LineageStart
<1>2. LineageInv /\ [Next]_vars => LineageInv'
  BY WholeStep, OriginStep, EdgeStep, EmptiedStep DEF Disciplined, Careful, LineageInv
<1>3. LineageInv => LineageAccounts
  <2> SUFFICES ASSUME LineageInv, NEW o \in Origins, Settled(o)
               PROVE  /\ RootEdges(o) = 1..NRoots(o)
                      /\ originRefs[o] + Cardinality(DroppedOf(o))
                           = Cardinality(RefEdges(o))
                               + (IF registry[o] = "tombstoned" THEN 0 ELSE NReps(o))
    BY DEF LineageAccounts
  <2>1. pc[o] = "done" /\ ContentOf(o) /\ EdgeAt(o)
    BY ContentFacts DEF Settled, LineageInv, EdgeInv
  <2>2. RootEdges(o) = 1..NRoots(o)
    <3>1. CASE o \in Uploads
      <4>1. Len0(o) >= 1 /\ Len0(o) \in Nat /\ NRoots(o) = 1
        BY <2>1, <3>1, ContentAssumption DEF ContentOf
      <4>2. \A i \in 1..Len0(o) : <<o, i>> \in lineage <=> i = 1
        BY <2>1, <3>1, <4>1 DEF EdgeAt
      <4>3. QED
        BY <4>1, <4>2 DEF RootEdges
    <3>2. CASE o \notin Uploads
      <4>1. incs[o] = Len0(o) /\ NRoots(o) = Len0(o)
        BY <2>1, <3>2 DEF LineageInv, WholeInv, TypeInv, CreateInv, ApiAt, ContentOf
      <4>2. QED
        BY <2>1, <3>2, <4>1 DEF EdgeAt, RootEdges
    <3>3. QED
      BY <3>1, <3>2
  <2>3. originRefs[o] = Cardinality(RepHolders(o)) + Cardinality(RefHolders(o))
    BY DEF LineageInv, OriginInv, OriginLedger
  <2>4. (IF registry[o] = "tombstoned" THEN 0 ELSE NReps(o)) \in Nat
    BY <2>1 DEF ContentOf
  <2>5. originRefs[o] + Cardinality(DroppedOf(o))
          = Cardinality(RefEdges(o)) + (IF registry[o] = "tombstoned" THEN 0 ELSE NReps(o))
    BY <2>3, <2>4, SettledReps, SettledRefs
  <2>6. QED
    BY <2>2, <2>5
<1>4. QED
  BY <1>1, <1>2, <1>3, PTL DEF Spec

-----------------------------------------------------------------------------
(* Careless clients.  With overlapping tombstone requests, or releases that *)
(* are repeated, the ledgers hold in one direction: a count can only be too *)
(* low, and a blob's by no more than the releases that were repeated.       *)

\* Place p of the content, counted for its blob.
Counted(p) == p[2] <= incs[p[1]]

\* What is counted, and what was released, is finite.
ShortInv ==
  \A b \in Blobs :
    /\ IsFiniteSet(CountedFor(b)) /\ IsFiniteSet(ReleasesOf(b))
    /\ Cardinality(CountedFor(b)) <= blobRefs[b] + Cardinality(ReleasesOf(b))

ReleaseAt(b, t, i) == t \in Slots /\ i \in 1..decs[t] /\ Content[tombOf[t]][i] = b

LEMMA ReleaseFacts ==
  ASSUME NEW b
  PROVE  /\ \A t, i : <<t, i>> \in ReleasesOf(b) <=> ReleaseAt(b, t, i)
         /\ \A t, i : <<t, i>> \in ReleasesOf(b)' <=> ReleaseAt(b, t, i)'
         /\ \A d \in ReleasesOf(b) : d = <<d[1], d[2]>>
         /\ \A d \in ReleasesOf(b)' : d = <<d[1], d[2]>>
<1> USE DEF ReleasesOf, ReleaseAt
<1>1. \A t, i : <<t, i>> \in UNION {{u} \X (1..decs[u]) : u \in Slots}
                  <=> t \in Slots /\ i \in 1..decs[t]
  OBVIOUS
<1>2. \A t, i : <<t, i>> \in UNION {{u} \X (1..decs'[u]) : u \in Slots}
                  <=> t \in Slots /\ i \in 1..decs'[t]
  OBVIOUS
<1>3. QED
  BY <1>1, <1>2

\* Two sets of releases with the same members at the same slots are the same.
LEMMA SameReleases ==
  ASSUME NEW b, \A t, i : ReleaseAt(b, t, i)' <=> ReleaseAt(b, t, i)
  PROVE  ReleasesOf(b)' = ReleasesOf(b)
<1>1. ASSUME NEW d
      PROVE  d \in ReleasesOf(b)' <=> d \in ReleasesOf(b)
  <2>1. \A t, i : <<t, i>> \in ReleasesOf(b)' <=> <<t, i>> \in ReleasesOf(b)
    BY ReleaseFacts
  <2>2. \/ d = <<d[1], d[2]>>
        \/ d \notin ReleasesOf(b) /\ d \notin ReleasesOf(b)'
    BY ReleaseFacts
  <2>3. QED
    BY <2>1, <2>2
<1>2. QED
  BY <1>1

\* IncBlob counts one place more, which nothing counted before.
LEMMA IncBlobPlace ==
  ASSUME TypeInv, NEW o \in Origins, IncBlob(o)
  PROVE  \E q \in Positions :
           /\ q[1] = o /\ ~Counted(q) /\ Counted(q)'
           /\ \A p \in Positions \ {q} : Counted(p)' <=> Counted(p)
           /\ CountBlob(Content[q[1]][q[2]])
           /\ UNCHANGED <<tombOf, decs>>
<1> USE DEF TypeInv
<1>1. pc[o] = "inc_blob" /\ incs[o] \in Nat /\ incs[o] < Len0(o)
  <2>1. ContentOf(o) /\ reps[o] \in 0..NReps(o)
    BY ContentFacts DEF TypeOK, ContentOf
  <2>2. QED
    BY <2>1 DEF TypeOK, CreateInv, UploadAt, ApiAt, IncBlob, ContentOf
<1>2. PICK q \in Positions : q = <<o, incs[o] + 1>>
  <2>1. incs[o] + 1 \in 1..Len0(o)
    BY <1>1, ContentFacts DEF ContentOf
  <2>2. QED
    BY <2>1, PlaceExists
<1>3. /\ incs' = [incs EXCEPT ![o] = @ + 1] /\ CountBlob(Content[o][incs[o] + 1])
      /\ UNCHANGED <<tombOf, decs>>
  BY DEF IncBlob, retiring
<1>4. ~Counted(q) /\ Counted(q)'
  BY <1>1, <1>2, <1>3 DEF Counted, TypeOK
<1>5. ASSUME NEW p \in Positions \ {q}
      PROVE  Counted(p)' <=> Counted(p)
  <2>1. p[1] \in Origins /\ p[2] \in Nat /\ p = <<p[1], p[2]>>
    BY PlaceFacts, ContentFacts
  <2>2. CASE p[1] = o
    BY <1>1, <1>2, <1>3, <2>1, <2>2 DEF Counted, TypeOK
  <2>3. CASE p[1] # o
    BY <1>3, <2>1, <2>3 DEF Counted, TypeOK
  <2>4. QED
    BY <2>2, <2>3
<1>6. QED
  BY <1>2, <1>3, <1>4, <1>5

\* A tombstone request releases a place of its origin's record.
LEMMA TombDecPlace ==
  ASSUME TypeInv, NEW t \in Slots, TombDecBlob(t)
  PROVE  /\ tombOf[t] \in Origins /\ decs[t] \in Nat
         /\ \E q \in Positions : q = <<tombOf[t], decs[t] + 1>>
         /\ Content[tombOf[t]][decs[t] + 1] \in Blobs
         /\ UncountBlob(Content[tombOf[t]][decs[t] + 1])
         /\ decs' = [decs EXCEPT ![t] = @ + 1]
         /\ UNCHANGED <<incs, tombOf>>
<1> USE DEF TypeInv
<1>1. PICK o \in Origins : o = tombOf[t] /\ decs[t] \in Nat
  BY DEF TypeOK, TombDecBlob
<1>2. decs[t] < NRoots(o) /\ ContentOf(o)
  <2>1. ContentOf(o) /\ decReps[t] \in 0..NReps(o)
    BY <1>1, ContentFacts DEF TypeOK, ContentOf, TombDecBlob
  <2>2. QED
    BY <1>1, <2>1 DEF DecsInv, ContentOf, TombDecBlob
<1>3. decs[t] + 1 \in 1..Len0(o)
  BY <1>1, <1>2 DEF ContentOf
<1>4. Content[o][decs[t] + 1] \in Blobs /\ \E q \in Positions : q = <<o, decs[t] + 1>>
  BY <1>3, PlaceExists, ContentFacts
<1>5. QED
  BY <1>1, <1>4 DEF TombDecBlob, creating

LEMMA ShortStep ==
  ASSUME TypeInv, ShortInv, [Next]_vars
  PROVE  ShortInv'
<1>0. blobRefs \in [Blobs -> Nat]
  BY DEF TypeInv, TypeOK
<1>1. ASSUME NEW o \in Origins, IncBlob(o)
      PROVE  ShortInv'
  <2>1. PICK q \in Positions :
           /\ q[1] = o /\ ~Counted(q) /\ Counted(q)'
           /\ \A p \in Positions \ {q} : Counted(p)' <=> Counted(p)
           /\ CountBlob(Content[q[1]][q[2]])
           /\ UNCHANGED <<tombOf, decs>>
    BY <1>1, IncBlobPlace
  <2> DEFINE c == Content[q[1]][q[2]]
  <2>2. \A b : ReleasesOf(b)' = ReleasesOf(b)
    BY <2>1 DEF ReleasesOf
  <2>3. c \in Blobs
    BY PlaceFacts, ContentFacts
  <2>4. CountedFor(c)' = CountedFor(c) \cup {q} /\ q \notin CountedFor(c)
    BY <2>1 DEF CountedFor, Counted, Positions
  <2>5. \A b \in Blobs \ {c} : CountedFor(b)' = CountedFor(b)
    BY <2>1 DEF CountedFor, Counted, Positions
  <2>6. blobRefs'[c] = blobRefs[c] + 1 /\ \A b \in Blobs \ {c} : blobRefs'[b] = blobRefs[b]
    BY <1>0, <2>1, <2>3 DEF CountBlob
  <2>7. /\ IsFiniteSet(CountedFor(c)) /\ IsFiniteSet(ReleasesOf(c))
        /\ Cardinality(CountedFor(c)) <= blobRefs[c] + Cardinality(ReleasesOf(c))
    BY <2>3 DEF ShortInv
  <2>8. IsFiniteSet(CountedFor(c)') /\ Cardinality(CountedFor(c)') = Cardinality(CountedFor(c)) + 1
    BY <2>4, <2>7, FS_AddElement
  <2>9. Cardinality(CountedFor(c)) \in Nat /\ Cardinality(ReleasesOf(c)) \in Nat
    BY <2>7, FS_CardinalityType
  <2>10. Cardinality(CountedFor(c)') <= blobRefs'[c] + Cardinality(ReleasesOf(c)')
    BY <1>0, <2>2, <2>3, <2>6, <2>7, <2>8, <2>9
  <2>11. QED
    BY <2>2, <2>5, <2>6, <2>7, <2>8, <2>10 DEF ShortInv
<1>2. ASSUME NEW t \in Slots, NEW o \in Origins, TombRead(t, o)
      PROVE  ShortInv'
  <2>1. decs[t] = 0 /\ tombOf' = [tombOf EXCEPT ![t] = o] /\ tombOf \in [Slots -> Origins \cup {NoOrigin}]
        /\ UNCHANGED <<blobRefs, incs, decs>>
    BY <1>2 DEF TypeInv, TypeOK, TombRead, Idle, creating
  <2>2. ASSUME NEW b, NEW u, NEW i
        PROVE  ReleaseAt(b, u, i)' <=> ReleaseAt(b, u, i)
    BY <2>1 DEF ReleaseAt
  <2>3. \A b : ReleasesOf(b)' = ReleasesOf(b)
    BY <2>2, SameReleases
  <2>4. \A b : CountedFor(b)' = CountedFor(b)
    BY <2>1 DEF CountedFor, Positions
  <2>5. QED
    BY <2>1, <2>3, <2>4 DEF ShortInv
<1>3. ASSUME NEW t \in Slots, TombDecBlob(t)
      PROVE  ShortInv'
  <2>0. PICK c \in Blobs : c = Content[tombOf[t]][decs[t] + 1]
    BY <1>3, TombDecPlace
  <2>1. /\ tombOf[t] \in Origins /\ decs[t] \in Nat /\ UncountBlob(c)
        /\ decs' = [decs EXCEPT ![t] = @ + 1] /\ decs \in [Slots -> Nat]
        /\ UNCHANGED <<incs, tombOf>>
    BY <1>3, <2>0, TombDecPlace DEF TypeInv, TypeOK
  <2>2. \A b : CountedFor(b)' = CountedFor(b)
    BY <2>1 DEF CountedFor, Positions
  <2>3. ASSUME NEW b, NEW u, NEW i
        PROVE  ReleaseAt(b, u, i)' <=> ReleaseAt(b, u, i) \/ (u = t /\ i = decs[t] + 1 /\ b = c)
    BY <2>0, <2>1 DEF ReleaseAt
  <2>4. ASSUME NEW b, b # c
        PROVE  ReleasesOf(b)' = ReleasesOf(b)
    BY <2>3, <2>4, SameReleases
  <2>5. ReleasesOf(c)' = ReleasesOf(c) \cup {<<t, decs[t] + 1>>} /\ <<t, decs[t] + 1>> \notin ReleasesOf(c)
    <3>1. <<t, decs[t] + 1>> \notin ReleasesOf(c)
      BY <2>1, ReleaseFacts DEF ReleaseAt
    <3>2. ASSUME NEW d
          PROVE  d \in ReleasesOf(c)' <=> d \in ReleasesOf(c) \/ d = <<t, decs[t] + 1>>
      <4>1. \A u, i : <<u, i>> \in ReleasesOf(c)'
                        <=> <<u, i>> \in ReleasesOf(c) \/ (u = t /\ i = decs[t] + 1)
        BY <2>3, ReleaseFacts
      <4>2. \/ d = <<d[1], d[2]>>
            \/ d \notin ReleasesOf(c) /\ d \notin ReleasesOf(c)' /\ d # <<t, decs[t] + 1>>
        BY ReleaseFacts
      <4>3. QED
        BY <4>1, <4>2
    <3>3. QED
      BY <3>1, <3>2
  <2>6. /\ blobRefs'[c] \in Nat /\ blobRefs'[c] >= blobRefs[c] - 1
        /\ \A b \in Blobs \ {c} : blobRefs'[b] = blobRefs[b]
    BY <1>0, <2>1 DEF UncountBlob, Dec
  <2>7. /\ IsFiniteSet(CountedFor(c)) /\ IsFiniteSet(ReleasesOf(c))
        /\ Cardinality(CountedFor(c)) <= blobRefs[c] + Cardinality(ReleasesOf(c))
    BY <2>1 DEF ShortInv
  <2>8. IsFiniteSet(ReleasesOf(c)') /\ Cardinality(ReleasesOf(c)') = Cardinality(ReleasesOf(c)) + 1
    BY <2>5, <2>7, FS_AddElement
  <2>9. Cardinality(CountedFor(c)) \in Nat /\ Cardinality(ReleasesOf(c)) \in Nat
    BY <2>7, FS_CardinalityType
  <2>10. Cardinality(CountedFor(c)') <= blobRefs'[c] + Cardinality(ReleasesOf(c)')
    BY <1>0, <2>1, <2>2, <2>6, <2>7, <2>8, <2>9
  <2>11. QED
    BY <2>2, <2>4, <2>6, <2>7, <2>8, <2>10 DEF ShortInv
<1>4. CASE UNCHANGED <<blobRefs, incs, tombOf, decs>>
  <2>1. \A b : CountedFor(b)' = CountedFor(b) /\ ReleasesOf(b)' = ReleasesOf(b)
    BY <1>4 DEF CountedFor, Positions, ReleasesOf
  <2>2. QED
    BY <1>4, <2>1 DEF ShortInv
<1>5. QED
  BY <1>1, <1>2, <1>3, <1>4, LedgerActions

\* Whatever clients do, a blob's count is short of the places it was counted for
\* by at most the releases of it, repeated or not.
THEOREM ShortByRepeatsHolds == Spec => []ShortByRepeats
<1>1. Init => TypeInv /\ ShortInv
  <2> SUFFICES ASSUME Init PROVE TypeInv /\ ShortInv
    OBVIOUS
  <2>1. WholeInv
    BY WholeInit
  <2>2. ASSUME NEW p \in Positions
        PROVE  ~Counted(p)
    <3>1. p[1] \in Origins /\ p[2] \in Nat /\ p[2] > 0
      BY PlaceFacts, ContentFacts
    <3>2. QED
      BY <3>1 DEF Init, Counted
  <2>3. \A b \in Blobs : CountedFor(b) = {}
    BY <2>2 DEF CountedFor, Counted
  <2>4. \A b \in Blobs : ReleasesOf(b) = {}
    BY DEF Init, ReleasesOf
  <2>5. \A b \in Blobs : blobRefs[b] = 0
    BY DEF Init
  <2>6. QED
    BY <2>1, <2>3, <2>4, <2>5, FS_EmptySet DEF WholeInv, ShortInv
<1>2. TypeInv /\ ShortInv /\ [Next]_vars => (TypeInv /\ ShortInv)'
  BY TypeStep, ShortStep
<1>3. ShortInv => ShortByRepeats
  BY DEF ShortInv, ShortByRepeats
<1>4. QED
  BY <1>1, <1>2, <1>3, PTL DEF Spec

OverBlobs   == \A b \in Blobs : /\ IsFiniteSet(BlobHolders(b))
                                /\ blobRefs[b] <= Cardinality(BlobHolders(b))
OverOrigins == IsFiniteSet(Used) /\ \A o \in Origins : originRefs[o] <= HeldBy(o)

\* A place newly held is counted; a place let go of was held by itself.
LEMMA OverBlobsStep ==
  ASSUME Whole, WholeInv, OverBlobs, [Next]_vars
  PROVE  OverBlobs'
<1> USE DEF WholeInv, TypeInv
<1>0. blobRefs \in [Blobs -> Nat]
  BY DEF TypeOK
<1>1. ASSUME NEW o \in Origins, IncBlob(o)
      PROVE  OverBlobs'
  <2>1. PICK q \in Positions :
           /\ q[1] = o /\ ~Counted(q) /\ Counted(q)'
           /\ \A p \in Positions \ {q} : Counted(p)' <=> Counted(p)
           /\ CountBlob(Content[q[1]][q[2]])
           /\ UNCHANGED <<tombOf, decs>>
    BY <1>1, IncBlobPlace
  <2> DEFINE c == Content[q[1]][q[2]]
  <2>2. \A t \in Slots : tombOf[t] # o
    BY <1>1, NameAssumption DEF IncBlob, TombInv
  <2>3. \A i : ~Released(o, i)' /\ \A p \in Origins : Released(p, i)' <=> Released(p, i)
    BY <2>1, <2>2 DEF Released
  <2>4. c \in Blobs
    BY PlaceFacts, ContentFacts
  <2>5. ASSUME NEW p \in Positions
        PROVE  Held(p)' <=> Held(p) \/ p = q
    BY <2>1, <2>3, PlaceFacts DEF Held, Counted
  <2>6. ~Held(q)
    BY <2>1 DEF Held, Counted
  <2>7. BlobHolders(c)' = BlobHolders(c) \cup {q} /\ q \notin BlobHolders(c)
    BY <2>5, <2>6 DEF BlobHolders, Held, Positions
  <2>8. \A b \in Blobs \ {c} : BlobHolders(b)' = BlobHolders(b)
    BY <2>5 DEF BlobHolders, Held, Positions
  <2>9. blobRefs'[c] = blobRefs[c] + 1 /\ \A b \in Blobs \ {c} : blobRefs'[b] = blobRefs[b]
    BY <1>0, <2>1, <2>4 DEF CountBlob
  <2>10. IsFiniteSet(BlobHolders(c)) /\ blobRefs[c] <= Cardinality(BlobHolders(c))
    BY <2>4 DEF OverBlobs
  <2>11. /\ IsFiniteSet(BlobHolders(c)') /\ Cardinality(BlobHolders(c)) \in Nat
         /\ Cardinality(BlobHolders(c)') = Cardinality(BlobHolders(c)) + 1
    BY <2>7, <2>10, FS_AddElement, FS_CardinalityType
  <2>12. blobRefs'[c] <= Cardinality(BlobHolders(c)')
    BY <1>0, <2>4, <2>9, <2>10, <2>11
  <2>13. QED
    BY <2>8, <2>9, <2>11, <2>12 DEF OverBlobs
<1>2. ASSUME UNCHANGED blobRefs, \A p \in Positions : Held(p)' <=> Held(p)
      PROVE  OverBlobs'
  <2>1. \A b \in Blobs : BlobHolders(b)' = BlobHolders(b)
    BY <1>2 DEF BlobHolders, Held, Positions
  <2>2. QED
    BY <1>2, <2>1 DEF OverBlobs
<1>3. ASSUME NEW t \in Slots, NEW o \in Origins, TombRead(t, o)
      PROVE  OverBlobs'
  <2>1. decs[t] = 0 /\ tombOf[t] = NoOrigin
    BY <1>3 DEF TypeOK, TombRead, Idle
  <2>2. tombOf' = [tombOf EXCEPT ![t] = o] /\ UNCHANGED <<blobRefs, incs, decs>>
    BY <1>3 DEF TombRead, creating
  <2>3. ASSUME NEW p \in Positions
        PROVE  Released(p[1], p[2])' <=> Released(p[1], p[2])
    <3>1. p[2] \in Nat /\ p[2] > 0
      BY PlaceFacts, ContentFacts
    <3>2. QED
      BY <2>1, <2>2, <3>1 DEF Released, TypeOK
  <2>4. QED
    BY <1>2, <2>2, <2>3 DEF Held
<1>4. ASSUME NEW t \in Slots, TombDecBlob(t)
      PROVE  OverBlobs'
  <2>0. PICK c \in Blobs, q \in Positions :
          c = Content[tombOf[t]][decs[t] + 1] /\ q = <<tombOf[t], decs[t] + 1>>
    BY <1>4, TombDecPlace
  <2>1. /\ tombOf[t] \in Origins /\ decs[t] \in Nat /\ UncountBlob(c)
        /\ decs' = [decs EXCEPT ![t] = @ + 1] /\ decs \in [Slots -> Nat]
        /\ UNCHANGED <<incs, tombOf>>
    BY <1>4, <2>0, TombDecPlace DEF TypeOK
  <2>2. ASSUME NEW p \in Positions
        PROVE  Held(p)' <=> Held(p) /\ p # q
    <3>1. p[1] \in Origins /\ p[2] \in Nat /\ p = <<p[1], p[2]>>
      BY PlaceFacts, ContentFacts
    <3>2. Released(p[1], p[2])' <=> Released(p[1], p[2]) \/ (p[1] = tombOf[t] /\ p[2] <= decs[t] + 1)
      BY <2>1, <3>1 DEF Released
    <3>3. p[1] = tombOf[t] /\ p[2] <= decs[t] => Released(p[1], p[2])
      BY <2>1 DEF Released
    <3>4. Released(p[1], p[2])' <=> Released(p[1], p[2]) \/ p = q
      BY <2>0, <2>1, <3>1, <3>2, <3>3
    <3>5. QED
      BY <2>1, <3>4 DEF Held
  <2>3. \A b \in Blobs : BlobHolders(b)' = BlobHolders(b) \ {q}
    BY <2>2 DEF BlobHolders, Held, Positions
  <2>4. \A b \in Blobs \ {c} : q \notin BlobHolders(b)
    <3>1. Content[q[1]][q[2]] = c
      BY <2>0
    <3>2. QED
      BY <3>1 DEF BlobHolders
  <2>5. \A b \in Blobs \ {c} : BlobHolders(b)' = BlobHolders(b) /\ blobRefs'[b] = blobRefs[b]
    <3>1. \A b \in Blobs \ {c} : BlobHolders(b)' = BlobHolders(b)
      BY <2>3, <2>4, Zenon
    <3>2. \A b \in Blobs \ {c} : blobRefs'[b] = blobRefs[b]
      BY <1>0, <2>1 DEF UncountBlob
    <3>3. QED
      BY <3>1, <3>2
  <2>6. /\ IsFiniteSet(BlobHolders(c)) /\ blobRefs[c] <= Cardinality(BlobHolders(c))
        /\ Cardinality(BlobHolders(c)) \in Nat /\ blobRefs[c] \in Nat
        /\ blobRefs'[c] = Dec(blobRefs[c])
    BY <1>0, <2>1, FS_CardinalityType DEF OverBlobs, UncountBlob
  <2>7. IsFiniteSet(BlobHolders(c)') /\ blobRefs'[c] <= Cardinality(BlobHolders(c)')
    <3>1. CASE q \in BlobHolders(c)
      <4>1. /\ IsFiniteSet(BlobHolders(c)')
            /\ Cardinality(BlobHolders(c)') = Cardinality(BlobHolders(c)) - 1
        BY <2>3, <2>6, <3>1, FS_RemoveElement
      <4>2. Cardinality(BlobHolders(c)) > 0
        BY <2>6, <3>1, FS_EmptySet
      <4>3. QED
        BY <2>6, <4>1, <4>2 DEF Dec
    <3>2. CASE q \notin BlobHolders(c)
      <4>1. BlobHolders(c)' = BlobHolders(c)
        BY <2>3, <3>2
      <4>2. QED
        BY <2>6, <4>1 DEF Dec
    <3>3. QED
      BY <3>1, <3>2
  <2>8. QED
    BY <2>5, <2>7 DEF OverBlobs
<1>5. CASE UNCHANGED <<blobRefs, incs, tombOf, decs>>
  BY <1>2, <1>5 DEF Held, Released
<1>6. QED
  BY <1>1, <1>3, <1>4, <1>5, LedgerActions

\* What a step may do to an origin's count: count with a holder more, give back
\* with at most one holder less, or keep it with no holder less.
Lawful(o) ==
  \/ originRefs'[o] = originRefs[o] + 1 /\ HeldBy(o)' = HeldBy(o) + 1
  \/ originRefs'[o] = Dec(originRefs[o]) /\ HeldBy(o)' \in {HeldBy(o), HeldBy(o) - 1}
  \/ originRefs'[o] = originRefs[o] /\ HeldBy(o)' \in {HeldBy(o), HeldBy(o) + 1}

LEMMA HeldNat ==
  ASSUME TypeOK, IsFiniteSet(Used), NEW o \in Origins
  PROVE  HeldBy(o) \in Nat
BY HoldersFinite DEF HeldBy

LEMMA LawfulKeeps ==
  ASSUME TypeOK, OverOrigins, NEW o \in Origins, HeldBy(o)' \in Nat, Lawful(o)
  PROVE  originRefs'[o] <= HeldBy(o)'
BY HeldNat DEF TypeOK, OverOrigins, Lawful, Dec

LEMMA SameLawful ==
  ASSUME NEW o \in Origins, originRefs'[o] = originRefs[o],
         RepHolders(o)' = RepHolders(o), RefHolders(o)' = RefHolders(o)
  PROVE  Lawful(o)
BY DEF Lawful, HeldBy

LEMMA CreateLawful ==
  ASSUME WholeInv, IsFiniteSet(Used), NEW o \in Origins, Create(o), NEW p \in Origins
  PROVE  Lawful(p)
<1> USE DEF WholeInv, TypeInv, creating, holding, retiring
<1>1. CASE IncOrigin(o) /\ p = o
  BY <1>1, IncOriginHolds DEF Lawful, CountOrigin, TypeOK
<1>2. CASE IncOrigin(o) /\ p # o
  BY <1>2, IncOriginHolds, SameLawful DEF SameHolders, CountOrigin, TypeOK
<1>3. CASE UNCHANGED <<reps, originRefs>>
  <2>1. UNCHANGED <<ref, refOf, tombOf, tombAt, decReps, decs>>
    BY Frames
  <2>2. QED
    BY <1>3, <2>1, SameLawful DEF RepHolders, RefHolders
<1>4. QED
  BY <1>1, <1>2, <1>3 DEF Create, Begin, PutBytes, CheckBlob, Register, IncBlob, AddEdge, Abandon

LEMMA HoldLawful ==
  ASSUME TypeInv, IsFiniteSet(Used), NEW r \in Refs, Hold(r), NEW p \in Origins
  PROVE  Lawful(p)
<1> USE DEF TypeInv, creating, holding, retiring, SetRef
<1>1. RepHolders(p)' = RepHolders(p)
  BY Frames DEF RepHolders
<1>2. ref[r] # "unused" => refOf[r] \in Origins
  BY DEF TypeOK
<1>3. CASE refOf[r] # p /\ refOf'[r] # p
  <2>1. RefHolders(p)' = RefHolders(p)
    BY <1>3 DEF RefHolders, TypeOK, Hold, RefRecord, RefCount, RefEdge, ReleaseShare,
       ReleasePin, DropPin
  <2>2. originRefs'[p] = originRefs[p]
    BY <1>2, <1>3 DEF TypeOK, Hold, RefRecord, RefCount, RefEdge, ReleaseShare,
       ReleasePin, DropPin, Releasable, CountOrigin, UncountOrigin
  <2>3. QED
    BY <1>1, <2>1, <2>2, SameLawful
<1>4. ASSUME NEW o \in Origins, RefRecord(r, o)
      PROVE  Lawful(p)
  <2>1. RefHolders(p)' = RefHolders(p)
    BY <1>4 DEF RefHolders, RefRecord, TypeOK
  <2>2. QED
    BY <1>1, <1>4, <2>1, SameLawful DEF RefRecord
<1>5. CASE refOf[r] = p /\ RefCount(r)
  <2>1. RefHolders(p)' = RefHolders(p) \cup {r} /\ r \notin RefHolders(p)
    BY <1>5 DEF RefHolders, RefCount, TypeOK
  <2>2. HeldBy(p)' = HeldBy(p) + 1
    BY <1>1, <2>1, HoldersGain
  <2>3. QED
    BY <1>5, <2>2 DEF Lawful, RefCount, CountOrigin, TypeOK
<1>6. CASE refOf[r] = p /\ (RefEdge(r) \/ ReleasePin(r))
  <2>1. UNCHANGED <<originRefs, refOf>> /\ Holds(r)'
        /\ \A q \in Refs \ {r} : ref'[q] = ref[q]
    BY <1>6 DEF RefEdge, ReleasePin, Holds, TypeOK
  <2>2. CASE Holds(r)
    <3>1. RefHolders(p)' = RefHolders(p)
      BY <2>1, <2>2 DEF RefHolders, Holds
    <3>2. QED
      BY <1>1, <2>1, <3>1, SameLawful
  <2>3. CASE ~Holds(r)
    <3>1. RefHolders(p)' = RefHolders(p) \cup {r} /\ r \notin RefHolders(p)
      BY <1>6, <2>1, <2>3 DEF RefHolders, Holds
    <3>2. HeldBy(p)' = HeldBy(p) + 1
      BY <1>1, <3>1, HoldersGain
    <3>3. QED
      BY <2>1, <3>2 DEF Lawful
  <2>4. QED
    BY <2>2, <2>3
<1>7. CASE refOf[r] = p /\ (ReleaseShare(r) \/ DropPin(r))
  <2>1. /\ originRefs'[p] = Dec(originRefs[p]) /\ UNCHANGED refOf /\ ~Holds(r)'
        /\ \A q \in Refs \ {r} : ref'[q] = ref[q]
    BY <1>7 DEF ReleaseShare, DropPin, UncountOrigin, Holds, TypeOK
  <2>2. CASE Holds(r)
    <3>1. RefHolders(p)' = RefHolders(p) \ {r} /\ r \in RefHolders(p)
      BY <1>7, <2>1, <2>2 DEF RefHolders, Holds
    <3>2. HeldBy(p)' = HeldBy(p) - 1
      BY <1>1, <3>1, HoldersLose
    <3>3. QED
      BY <2>1, <3>2 DEF Lawful
  <2>3. CASE ~Holds(r)
    <3>1. RefHolders(p)' = RefHolders(p)
      BY <2>1, <2>3 DEF RefHolders, Holds
    <3>2. HeldBy(p)' = HeldBy(p)
      BY <1>1, <3>1 DEF HeldBy
    <3>3. QED
      BY <2>1, <3>2 DEF Lawful
  <2>4. QED
    BY <2>2, <2>3
<1>8. ~(\E o \in Origins : RefRecord(r, o)) => refOf'[r] = refOf[r]
  BY DEF Hold, RefCount, RefEdge, ReleaseShare, ReleasePin, DropPin
<1>9. QED
  BY <1>3, <1>4, <1>5, <1>6, <1>7, <1>8 DEF Hold

LEMMA RetireLawful ==
  ASSUME TypeInv, IsFiniteSet(Used), NEW t \in Slots, Retire(t), NEW p \in Origins
  PROVE  Lawful(p)
<1> USE DEF TypeInv, creating, holding, retiring
<1>1. UNCHANGED <<reps, ref, refOf>> /\ RefHolders(p)' = RefHolders(p) /\ reps[p] \in Nat
  BY Frames DEF RefHolders, TypeOK
<1>2. ASSUME NEW o \in Origins, TombRead(t, o)
      PROVE  Lawful(p)
  <2>1. /\ \A u \in Slots \ {t} : tombOf'[u] = tombOf[u]
        /\ UNCHANGED <<originRefs, decReps>> /\ decReps[t] = 0
    BY <1>2 DEF TombRead, Idle, TypeOK
  <2>2. ASSUME NEW i \in 1..reps[p]
        PROVE  (\E u \in Slots : tombOf'[u] = p /\ i <= decReps[u])
                 <=> \E u \in Slots : tombOf[u] = p /\ i <= decReps[u]
    <3>1. i \in Nat /\ i > 0
      BY <1>1, <2>2
    <3>2. ~(i <= decReps[t])
      BY <2>1, <3>1
    <3>3. QED
      BY <2>1, <3>2
  <2>3. RepHolders(p)' = RepHolders(p)
    BY <1>1, <2>1, <2>2 DEF RepHolders
  <2>4. QED
    BY <1>1, <2>1, <2>3, SameLawful
<1>3. CASE TombDecOrigin(t)
  <2>1. /\ tombOf[t] \in Origins /\ decReps[t] \in Nat /\ UNCHANGED tombOf
        /\ decReps' = [decReps EXCEPT ![t] = @ + 1] /\ decReps \in [Slots -> Nat]
        /\ UncountOrigin(tombOf[t]) /\ originRefs \in [Origins -> Nat]
    BY <1>3 DEF TombDecOrigin, TypeOK
  <2>2. CASE p # tombOf[t]
    <3>1. \A u \in Slots : tombOf[u] = p => decReps'[u] = decReps[u]
      BY <2>1, <2>2
    <3>2. RepHolders(p)' = RepHolders(p)
      BY <1>1, <2>1, <3>1 DEF RepHolders
    <3>3. QED
      BY <1>1, <2>1, <2>2, <3>2, SameLawful DEF UncountOrigin
  <2>3. CASE p = tombOf[t]
    <3>1. PICK x \in Nat : x = decReps[t] + 1
      BY <2>1
    <3>2. ASSUME NEW i \in 1..reps[p]
          PROVE  (\E u \in Slots : tombOf'[u] = p /\ i <= decReps'[u])
                   <=> i = x \/ \E u \in Slots : tombOf[u] = p /\ i <= decReps[u]
      <4>1. i \in Nat
        BY <1>1, <3>2
      <4>2. i <= x <=> i <= decReps[t] \/ i = x
        BY <2>1, <3>1, <4>1
      <4>3. decReps'[t] = x /\ \A u \in Slots \ {t} : decReps'[u] = decReps[u]
        BY <2>1, <3>1
      <4>4. QED
        BY <2>1, <2>3, <4>2, <4>3
    <3>3. RepHolders(p)' = RepHolders(p) \ {x}
      BY <1>1, <2>1, <3>2 DEF RepHolders
    <3>4. originRefs'[p] = Dec(originRefs[p])
      BY <2>1, <2>3 DEF UncountOrigin
    <3>5. HeldBy(p)' \in {HeldBy(p), HeldBy(p) - 1}
      <4>1. CASE x \in RepHolders(p)
        BY <1>1, <3>3, <4>1, HoldersLose
      <4>2. CASE x \notin RepHolders(p)
        <5>1. RepHolders(p)' = RepHolders(p)
          BY <3>3, <4>2
        <5>2. QED
          BY <1>1, <5>1 DEF HeldBy
      <4>3. QED
        BY <4>1, <4>2
    <3>6. QED
      BY <3>4, <3>5 DEF Lawful
  <2>4. QED
    BY <2>2, <2>3
<1>4. CASE TombDecBlob(t) \/ TombUpdate(t)
  <2>1. UNCHANGED <<originRefs, tombOf, decReps>>
    BY <1>4 DEF TombDecBlob, TombUpdate
  <2>2. QED
    BY <1>1, <2>1, SameLawful DEF RepHolders
<1>5. QED
  BY <1>2, <1>3, <1>4 DEF Retire

LEMMA OverOriginsStep ==
  ASSUME Whole, WholeInv, OverOrigins, [Next]_vars
  PROVE  OverOrigins'
<1> USE DEF creating, holding, retiring
<1>1. TypeOK /\ TypeInv /\ IsFiniteSet(Used) /\ IsFiniteSet(Used')
  BY UsedStep DEF WholeInv, TypeInv, OverOrigins
<1>2. TypeOK'
  BY TypeStep DEF WholeInv, TypeInv
<1>3. ASSUME NEW p \in Origins
      PROVE  Lawful(p)
  <2>1. ASSUME NEW b \in Blobs, CreateBlob(b)
        PROVE  Lawful(p)
    BY <2>1, SameLawful DEF CreateBlob, RepHolders, RefHolders
  <2>2. ASSUME UNCHANGED vars
        PROVE  Lawful(p)
    BY <2>2, SameLawful DEF vars, RepHolders, RefHolders
  <2>3. QED
    BY <1>1, <2>1, <2>2, CreateLawful, HoldLawful, RetireLawful DEF Next
<1>4. ASSUME NEW p \in Origins
      PROVE  HeldBy(p)' \in Nat
  <2>1. reps'[p] \in Nat /\ RepHolders(p)' \in SUBSET (1..reps'[p])
    BY <1>2 DEF TypeOK, RepHolders
  <2>2. RefHolders(p)' \in SUBSET Used'
    BY DEF RefHolders, Used
  <2>3. IsFiniteSet(1..reps'[p])
    BY <2>1, FS_Interval
  <2>4. IsFiniteSet(RepHolders(p)') /\ IsFiniteSet(RefHolders(p)')
    BY <1>1, <2>1, <2>2, <2>3, FS_Subset
  <2>5. QED
    BY <2>4, FS_CardinalityType DEF HeldBy
<1>5. QED
  BY <1>1, <1>3, <1>4, LawfulKeeps DEF OverOrigins

\* If clients tombstone only acknowledged origins, then however they overlap and
\* repeat requests no count exceeds what holds the object it counts.
THEOREM NeverOvercountedHolds == Whole => (Spec => []NeverOvercounted)
<1> SUFFICES ASSUME Whole PROVE Spec => []NeverOvercounted
  OBVIOUS
<1>1. Init => WholeInv /\ OverBlobs /\ OverOrigins
  <2> SUFFICES ASSUME Init PROVE WholeInv /\ OverBlobs /\ OverOrigins
    OBVIOUS
  <2>1. WholeInv /\ LedgerInv /\ OriginInv
    BY WholeInit, LedgerStart, OriginStart
  <2>2. \A b \in Blobs : blobRefs[b] = 0
    BY DEF Init
  <2>3. OverBlobs
    BY <2>1, <2>2 DEF LedgerInv, OverBlobs
  <2>4. \A o \in Origins : originRefs[o] = HeldBy(o) /\ originRefs[o] = 0
    BY <2>1 DEF OriginInv, OriginLedger, HeldBy, Init
  <2>5. OverOrigins
    BY <2>1, <2>4 DEF OverOrigins, OriginInv
  <2>6. QED
    BY <2>1, <2>3, <2>5
<1>2. WholeInv /\ OverBlobs /\ OverOrigins /\ [Next]_vars => (WholeInv /\ OverBlobs /\ OverOrigins)'
  BY WholeStep, OverBlobsStep, OverOriginsStep
<1>3. OverBlobs /\ OverOrigins => NeverOvercounted
  BY DEF OverBlobs, OverOrigins, NeverOvercounted, HeldBy
<1>4. QED
  BY <1>1, <1>2, <1>3, PTL DEF Spec


=============================================================================
