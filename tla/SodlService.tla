---------------------------- MODULE SodlService ----------------------------
(***************************************************************************)
(* The content-lifecycle engine: the SodlService facade                    *)
(* (crates/sodl-service/src/lib.rs) and the HTTP handlers that bypass it   *)
(* (crates/sodl-api/src/handlers.rs), over the stores they share: origin   *)
(* registry, policies, reference counters, pins, shares, derivations,      *)
(* lineage and the blob store.                                             *)
(*                                                                         *)
(* Each call to a store takes and drops that store's own lock, and nothing *)
(* holds a lock or a transaction across two calls, so a request is a       *)
(* program of atomic store calls and requests interleave between any two   *)
(* of them.  A creating request owns the fresh origin id it draws, so its  *)
(* progress is kept per origin; a tombstone request may name any origin    *)
(* and has a slot of its own; a share, pin or derivation request owns the  *)
(* fresh id of the record it writes.  A request whose thread dies or whose *)
(* store call fails simply takes no further step (creating requests also   *)
(* fail visibly, with Abandon, so that later maintenance can see it).      *)
(*                                                                         *)
(* A definition whose name ends in _Fault is a seeded fault: the following *)
(* definition as a plausible bug would have it.  No specification uses it; *)
(* PROJECT.json names the property that rejects it.                        *)
(***************************************************************************)
EXTENDS Integers, Sequences, FiniteSets

CONSTANTS
  Origins,   \* origin ids that requests may draw (uuid v4, never reused)
  Blobs,     \* blob ids (content addresses)
  Refs,      \* ids of shares, pins and derivations
  Slots,     \* tombstone requests (DELETE /v1/origins/:id)
  NoOrigin,  \* "no origin yet"
  Uploads,   \* the origins created by upload; the others by POST /v1/origins
  Content,   \* Content[o]: the blobs o's request references: the root blobs of
             \* its representations in order, then (uploads only) the chunks
  RepEnd,    \* RepEnd[o][k]: the last root blob of o's k-th representation
  Kind,      \* Kind[r]: "share", "pin" or "derivation"
  Permits    \* which undisciplined client behaviours the instance allows, see
             \* below

(***************************************************************************)
(* What clients may do beyond a careful one-request-per-object usage:      *)
(*   "overlap"   a second tombstone request starts on an origin while the  *)
(*               first is unfinished (or was cut short)                    *)
(*   "partial"   an origin whose creating request never finished is        *)
(*               tombstoned                                                *)
(*   "repeat"    a share or a pin is released twice                        *)
(*   "dangling"  a share, pin or derivation names an unknown origin        *)
(*   "gc_race"   GC runs while creating requests are in flight (SodlGc)    *)
(*   "rm_race"   DELETE /v1/blobs/:id does (SodlGc)                        *)
(***************************************************************************)
PermitKinds ==
  {"overlap", "partial", "repeat", "dangling", "gc_race", "rm_race"}

Len0(o)   == Len(Content[o])
NReps(o)  == Len(RepEnd[o])
End(o, k) == IF k = 0 THEN 0 ELSE RepEnd[o][k]
NRoots(o) == End(o, NReps(o))

\* An upload has one representation with one root, and perhaps chunks; the API
\* takes any number of representations, each of any number of roots.
ASSUME ContentAssumption ==
  /\ Content \in [Origins -> Seq(Blobs)]
  /\ RepEnd \in [Origins -> Seq(Nat)]
  /\ \A o \in Origins : \A j, k \in 0..NReps(o) : j <= k => End(o, j) <= End(o, k)
  /\ Uploads \subseteq Origins
  /\ \A o \in Uploads : RepEnd[o] = <<1>> /\ Len0(o) >= 1
  /\ \A o \in Origins \ Uploads : NRoots(o) = Len0(o)

\* A lineage edge is named by a reference, or by an origin and one of its roots.
ASSUME NameAssumption ==
  /\ NoOrigin \notin Origins
  /\ Refs \cap (Origins \X Nat) = {}
  /\ Kind \in [Refs -> {"share", "pin", "derivation"}]
  /\ Permits \subseteq PermitKinds

VARIABLES
  pc,          \* pc[o]: the next store call of the request creating o
  put,         \* put[o]: blobs of Content[o] whose bytes it has stored (uploads)
               \* or found in the blob store (POST /v1/origins)
  reps,        \* reps[o]: representations it has counted on o
  incs,        \* incs[o]: blobs of Content[o] it has counted
  registry,    \* OriginRegistry: "absent", "live" (with its representations)
               \* or "tombstoned" (representations cleared)
  policies,    \* PolicyStore: origins with a policy
  bytes,       \* BlobStore: blobs whose bytes are present
  originRefs,  \* RefCounter, origin counts
  blobRefs,    \* RefCounter, blob counts
  ref,         \* ref[r]: state of a share, pin or derivation
  refOf,       \* refOf[r]: the origin it names
  lineage,     \* LineageStore: edges, by what they record
  tombOf,      \* tombOf[t]: the origin a tombstone request names
  tombAt,      \* tombAt[t]: its next store call
  decReps,     \* decReps[t]: representations it has released
  decs         \* decs[t]: root blobs it has released

creating == <<pc, put, reps, incs, registry, policies>>
holding  == <<ref, refOf>>
retiring == <<tombOf, tombAt, decReps, decs>>
vars == <<creating, bytes, originRefs, blobRefs, holding, lineage, retiring>>

CreatePhases == {"idle", "put", "check", "register", "inc_origin", "inc_blob",
                 "edge", "done", "failed"}
RefStates    == {"unused", "recorded", "counted", "acked", "released", "dropped"}
TombPhases   == {"idle", "dec_origin", "dec_blob", "update", "done"}

-----------------------------------------------------------------------------
(* The counters.                                                           *)

\* Decrements saturate at zero (SqliteStore: MAX(count - 1, 0)).
Dec(n) == IF n > 0 THEN n - 1 ELSE 0

CountOrigin(o)   == originRefs' = [originRefs EXCEPT ![o] = @ + 1]
UncountOrigin(o) == originRefs' = [originRefs EXCEPT ![o] = Dec(@)]
CountBlob(b)     == blobRefs' = [blobRefs EXCEPT ![b] = @ + 1]
UncountBlob(b)   == blobRefs' = [blobRefs EXCEPT ![b] = Dec(@)]

\* upload stores the chunks first and the root (the manifest) last; Content
\* lists the root first.
PutIndex(o, k) == IF k < Len0(o) THEN k + 1 ELSE 1

-----------------------------------------------------------------------------
(* Creating an origin: upload, and POST /v1/origins.                       *)

Goto(o, phase) == pc' = [pc EXCEPT ![o] = phase]

\* POST /v1/origins checks and counts representation by representation and
\* registers the record after the last; upload registers first and counts
\* afterwards.
NextRep(o, k) == IF k = NReps(o) THEN "register"
                 ELSE IF End(o, k) < End(o, k + 1) THEN "check" ELSE "inc_origin"

\* Draw a fresh id and store its policy, the first store call of both.
Begin(o) ==
  /\ pc[o] = "idle"
  /\ policies' = policies \cup {o}
  /\ Goto(o, IF o \in Uploads THEN "put" ELSE NextRep(o, 0))
  /\ UNCHANGED <<put, reps, incs, registry, bytes, originRefs, blobRefs,
                 holding, lineage, retiring>>

PutBytes_Fault(o) ==  \* counts the upload without writing its record
  /\ pc[o] = "put"
  /\ put' = [put EXCEPT ![o] = @ + 1]
  /\ bytes' = bytes \cup {Content[o][PutIndex(o, put[o] + 1)]}
  /\ Goto(o, IF put[o] + 1 = Len0(o) THEN "inc_origin" ELSE "put")
  /\ UNCHANGED <<reps, incs, registry, policies, originRefs, blobRefs, holding,
                 lineage, retiring>>

\* upload: the next BlobStore::put of chunk_and_store or put_plain; a blob
\* already present is left as it is.
PutBytes(o) ==
  /\ pc[o] = "put"
  /\ put' = [put EXCEPT ![o] = @ + 1]
  /\ bytes' = bytes \cup {Content[o][PutIndex(o, put[o] + 1)]}
  /\ Goto(o, IF put[o] + 1 = Len0(o) THEN "register" ELSE "put")
  /\ UNCHANGED <<reps, incs, registry, policies, originRefs, blobRefs, holding,
                 lineage, retiring>>

\* POST /v1/origins: every root blob of the next representation must be in
\* the blob store, or the request ends with 404 and keeps what it has counted.
CheckBlob(o) ==
  /\ pc[o] = "check"
  /\ IF Content[o][put[o] + 1] \in bytes
     THEN /\ put' = [put EXCEPT ![o] = @ + 1]
          /\ Goto(o, IF put[o] + 1 < End(o, reps[o] + 1) THEN "check" ELSE "inc_origin")
     ELSE Goto(o, "failed") /\ UNCHANGED put
  /\ UNCHANGED <<reps, incs, registry, policies, bytes, originRefs, blobRefs,
                 holding, lineage, retiring>>

\* OriginRegistry::create_origin: fourth step of upload, last of the API.
Register(o) ==
  /\ pc[o] = "register"
  /\ registry' = [registry EXCEPT ![o] = "live"]
  /\ Goto(o, IF o \in Uploads THEN "inc_origin" ELSE "done")
  /\ UNCHANGED <<put, reps, incs, policies, bytes, originRefs, blobRefs,
                 holding, lineage, retiring>>

\* One reference of the origin to itself for each representation.
IncOrigin(o) ==
  /\ pc[o] = "inc_origin"
  /\ CountOrigin(o)
  /\ reps' = [reps EXCEPT ![o] = @ + 1]
  /\ Goto(o, IF incs[o] < End(o, reps[o] + 1) THEN "inc_blob" ELSE NextRep(o, reps[o] + 1))
  /\ UNCHANGED <<put, incs, registry, policies, bytes, blobRefs, holding,
                 lineage, retiring>>

\* upload counts the root and then each chunk before it adds one lineage edge;
\* the API adds an edge after each root it counts.
MoreChunks(o) == o \in Uploads /\ incs[o] + 1 < Len0(o)

IncBlob_Dedup_Fault(o) ==  \* a deduplicated blob is not counted again
  /\ pc[o] = "inc_blob"
  /\ LET b == Content[o][incs[o] + 1] IN
       IF blobRefs[b] = 0 THEN CountBlob(b) ELSE UNCHANGED blobRefs
  /\ incs' = [incs EXCEPT ![o] = @ + 1]
  /\ Goto(o, IF MoreChunks(o) THEN "inc_blob" ELSE "edge")
  /\ UNCHANGED <<put, reps, registry, policies, bytes, originRefs, holding,
                 lineage, retiring>>

IncBlob(o) ==
  /\ pc[o] = "inc_blob"
  /\ CountBlob(Content[o][incs[o] + 1])
  /\ incs' = [incs EXCEPT ![o] = @ + 1]
  /\ Goto(o, IF MoreChunks(o) THEN "inc_blob" ELSE "edge")
  /\ UNCHANGED <<put, reps, registry, policies, bytes, originRefs, holding,
                 lineage, retiring>>

\* The root blob an edge is for.
EdgeRoot(o) == IF o \in Uploads THEN 1 ELSE incs[o]

AddEdge_Fault(o) ==  \* one edge per representation, for its first root
  /\ pc[o] = "edge"
  /\ lineage' = lineage \cup {<<o, End(o, reps[o] - 1) + 1>>}
  /\ Goto(o, IF o \in Uploads THEN "done"
             ELSE IF incs[o] < End(o, reps[o]) THEN "inc_blob" ELSE NextRep(o, reps[o]))
  /\ UNCHANGED <<put, reps, incs, registry, policies, bytes, originRefs,
                 blobRefs, holding, retiring>>

\* LineageStore::add_edge.  (upload ends with the two calls that store the
\* payload's fingerprints, which no count and no deletion looks at.)
AddEdge(o) ==
  /\ pc[o] = "edge"
  /\ lineage' = lineage \cup {<<o, EdgeRoot(o)>>}
  /\ Goto(o, IF o \in Uploads THEN "done"
             ELSE IF incs[o] < End(o, reps[o]) THEN "inc_blob" ELSE NextRep(o, reps[o]))
  /\ UNCHANGED <<put, reps, incs, registry, policies, bytes, originRefs,
                 blobRefs, holding, retiring>>

\* A store call fails and ? returns the error: nothing is undone.
Abandon(o) ==
  /\ pc[o] \notin {"idle", "done", "failed"}
  /\ Goto(o, "failed")
  /\ UNCHANGED <<put, reps, incs, registry, policies, bytes, originRefs,
                 blobRefs, holding, lineage, retiring>>

\* POST /v1/blobs: has, then put if absent; no reference is counted.
CreateBlob(b) ==
  /\ b \notin bytes
  /\ bytes' = bytes \cup {b}
  /\ UNCHANGED <<creating, originRefs, blobRefs, holding, lineage, retiring>>

-----------------------------------------------------------------------------
(* Shares, pins and derivations.  Their records are never removed, and a   *)
(* release looks the record up first, so it finds every recorded id.       *)

SetRef(r, state) == ref' = [ref EXCEPT ![r] = state]

\* shares.put / pin_store.create_pin / derivations.put: no code path checks
\* that the origin exists.
RefRecord(r, o) ==
  /\ ref[r] = "unused"
  /\ registry[o] # "absent" \/ "dangling" \in Permits
  /\ SetRef(r, "recorded")
  /\ refOf' = [refOf EXCEPT ![r] = o]
  /\ UNCHANGED <<creating, bytes, originRefs, blobRefs, lineage, retiring>>

RefCount(r) ==
  /\ ref[r] = "recorded"
  /\ CountOrigin(refOf[r])
  /\ SetRef(r, "counted")
  /\ UNCHANGED <<creating, bytes, blobRefs, refOf, lineage, retiring>>

RefEdge(r) ==
  /\ ref[r] = "counted"
  /\ lineage' = lineage \cup {r}
  /\ SetRef(r, "acked")
  /\ UNCHANGED <<creating, bytes, originRefs, blobRefs, refOf, retiring>>

Releasable(r) == ref[r] = "acked" \/ (ref[r] = "dropped" /\ "repeat" \in Permits)

ReleaseShare_Fault(r) ==  \* gives nothing back once the origin is tombstoned
  /\ Kind[r] = "share" /\ Releasable(r)
  /\ IF registry[refOf[r]] = "tombstoned" THEN UNCHANGED originRefs
     ELSE UncountOrigin(refOf[r])
  /\ SetRef(r, "dropped")
  /\ UNCHANGED <<creating, bytes, blobRefs, refOf, lineage, retiring>>

\* release_share: the record stays as it is, so nothing stops a second one.
ReleaseShare(r) ==
  /\ Kind[r] = "share" /\ Releasable(r)
  /\ UncountOrigin(refOf[r])
  /\ SetRef(r, "dropped")
  /\ UNCHANGED <<creating, bytes, blobRefs, refOf, lineage, retiring>>

ReleasePin_Fault(r) ==  \* drops the count that DropPin drops too
  /\ Kind[r] = "pin" /\ Releasable(r)
  /\ SetRef(r, "released")
  /\ UncountOrigin(refOf[r])
  /\ UNCHANGED <<creating, bytes, blobRefs, refOf, lineage, retiring>>

\* unpin: the pin is marked Released first and the count dropped after.
ReleasePin(r) ==
  /\ Kind[r] = "pin" /\ Releasable(r)
  /\ SetRef(r, "released")
  /\ UNCHANGED <<creating, bytes, originRefs, blobRefs, refOf, lineage, retiring>>

DropPin(r) ==
  /\ ref[r] = "released"
  /\ UncountOrigin(refOf[r])
  /\ SetRef(r, "dropped")
  /\ UNCHANGED <<creating, bytes, blobRefs, refOf, lineage, retiring>>

\* list_pins_for_origin, with a state other than Released.
ActivePin(r, o) ==
  /\ Kind[r] = "pin"
  /\ refOf[r] = o
  /\ ref[r] \in {"recorded", "counted", "acked"}

-----------------------------------------------------------------------------
(* tombstone_origin: read the record, release each representation and its  *)
(* root blobs, then write the record back tombstoned and emptied.          *)

Idle(t) == tombAt[t] = "idle"

\* What a careful client tombstones: an origin it was told about, that no
\* other request is tombstoning.
MayTombstone(o) ==
  /\ pc[o] = "done" \/ "partial" \in Permits
  /\ "overlap" \in Permits \/ \A u \in Slots : tombOf[u] = o => tombAt[u] = "done"

NextRelease_Fault(o, k, n) ==  \* releases chunk blobs the record does not name
  IF n < Len0(o) THEN "dec_blob" ELSE IF k < NReps(o) THEN "dec_origin" ELSE "update"

\* A representation with no root blob goes from one dec_origin to the next.
NextRelease(o, k, n) == IF n < End(o, k) THEN "dec_blob"
                        ELSE IF k < NReps(o) THEN "dec_origin" ELSE "update"

TombRead(t, o) ==
  /\ Idle(t)
  /\ registry[o] # "absent"
  /\ MayTombstone(o)
  /\ tombOf' = [tombOf EXCEPT ![t] = o]
  /\ tombAt' = [tombAt EXCEPT ![t] =
       IF registry[o] = "live" THEN NextRelease(o, 0, 0) ELSE "update"]
  /\ UNCHANGED <<creating, bytes, originRefs, blobRefs, holding, lineage, decReps,
                 decs>>

TombDecOrigin(t) ==
  /\ tombAt[t] = "dec_origin"
  /\ UncountOrigin(tombOf[t])
  /\ decReps' = [decReps EXCEPT ![t] = @ + 1]
  /\ tombAt' = [tombAt EXCEPT ![t] = NextRelease(tombOf[t], decReps[t] + 1, decs[t])]
  /\ UNCHANGED <<creating, bytes, blobRefs, holding, lineage, tombOf, decs>>

\* Only the root blobs of the record are released; chunk blobs are not in it.
TombDecBlob(t) ==
  /\ tombAt[t] = "dec_blob"
  /\ UncountBlob(Content[tombOf[t]][decs[t] + 1])
  /\ decs' = [decs EXCEPT ![t] = @ + 1]
  /\ tombAt' = [tombAt EXCEPT ![t] = NextRelease(tombOf[t], decReps[t], decs[t] + 1)]
  /\ UNCHANGED <<creating, bytes, originRefs, holding, lineage, tombOf, decReps>>

TombUpdate_Fault(t) ==  \* a second request toggles the state back
  /\ tombAt[t] = "update"
  /\ registry' = [registry EXCEPT ![tombOf[t]] =
       IF @ = "tombstoned" THEN "live" ELSE "tombstoned"]
  /\ tombAt' = [tombAt EXCEPT ![t] = "done"]
  /\ UNCHANGED <<pc, put, reps, incs, policies, bytes, originRefs, blobRefs,
                 holding, lineage, tombOf, decReps, decs>>

TombUpdate(t) ==
  /\ tombAt[t] = "update"
  /\ registry' = [registry EXCEPT ![tombOf[t]] = "tombstoned"]
  /\ tombAt' = [tombAt EXCEPT ![t] = "done"]
  /\ UNCHANGED <<pc, put, reps, incs, policies, bytes, originRefs, blobRefs,
                 holding, lineage, tombOf, decReps, decs>>

-----------------------------------------------------------------------------
Init ==
  /\ pc = [o \in Origins |-> "idle"]
  /\ put = [o \in Origins |-> 0]
  /\ reps = [o \in Origins |-> 0]
  /\ incs = [o \in Origins |-> 0]
  /\ registry = [o \in Origins |-> "absent"]
  /\ policies = {}
  /\ bytes = {}
  /\ originRefs = [o \in Origins |-> 0]
  /\ blobRefs = [b \in Blobs |-> 0]
  /\ ref = [r \in Refs |-> "unused"]
  /\ refOf = [r \in Refs |-> NoOrigin]
  /\ lineage = {}
  /\ tombOf = [t \in Slots |-> NoOrigin]
  /\ tombAt = [t \in Slots |-> "idle"]
  /\ decReps = [t \in Slots |-> 0]
  /\ decs = [t \in Slots |-> 0]

Create(o) ==
  \/ Begin(o) \/ PutBytes(o) \/ CheckBlob(o) \/ Register(o)
  \/ IncOrigin(o) \/ IncBlob(o) \/ AddEdge(o) \/ Abandon(o)

Hold(r) ==
  \/ \E o \in Origins : RefRecord(r, o)
  \/ RefCount(r) \/ RefEdge(r)
  \/ ReleaseShare(r) \/ ReleasePin(r) \/ DropPin(r)

Retire(t) ==
  \/ \E o \in Origins : TombRead(t, o)
  \/ TombDecOrigin(t) \/ TombDecBlob(t) \/ TombUpdate(t)

Next ==
  \/ \E o \in Origins : Create(o)
  \/ \E b \in Blobs : CreateBlob(b)
  \/ \E r \in Refs : Hold(r)
  \/ \E t \in Slots : Retire(t)

Spec == Init /\ [][Next]_vars

-----------------------------------------------------------------------------
(* What a careful use of the engine keeps true.                            *)

TypeOK ==
  /\ pc \in [Origins -> CreatePhases]
  /\ put \in [Origins -> Nat]
  /\ reps \in [Origins -> Nat]
  /\ incs \in [Origins -> Nat]
  /\ \A o \in Origins :
       /\ put[o] <= Len0(o) /\ incs[o] <= Len0(o) /\ reps[o] <= NReps(o)
  /\ registry \in [Origins -> {"absent", "live", "tombstoned"}]
  /\ policies \subseteq Origins
  /\ bytes \subseteq Blobs
  /\ originRefs \in [Origins -> Nat]
  /\ blobRefs \in [Blobs -> Nat]
  /\ ref \in [Refs -> RefStates]
  /\ refOf \in [Refs -> Origins \cup {NoOrigin}]
  /\ \A r \in Refs : ref[r] = "unused" <=> refOf[r] = NoOrigin
  /\ lineage \subseteq (Origins \X Nat) \cup Refs
  /\ tombOf \in [Slots -> Origins \cup {NoOrigin}]
  /\ tombAt \in [Slots -> TombPhases]
  /\ decReps \in [Slots -> Nat]
  /\ decs \in [Slots -> Nat]
  /\ \A t \in Slots :
       IF tombAt[t] = "idle"
       THEN tombOf[t] = NoOrigin /\ decReps[t] = 0 /\ decs[t] = 0
       ELSE /\ tombOf[t] # NoOrigin
            /\ decReps[t] <= NReps(tombOf[t]) /\ decs[t] <= NRoots(tombOf[t])

\* The places a blob is referenced from: <<o, i>> is Content[o][i].
Positions == UNION {{o} \X DOMAIN Content[o] : o \in Origins}

\* Position i of o has been released by a tombstone request.
Released(o, i) == \E t \in Slots : tombOf[t] = o /\ i <= decs[t]

BlobHolders(b) ==
  {p \in Positions :
     /\ Content[p[1]][p[2]] = b
     /\ p[2] <= incs[p[1]]
     /\ ~Released(p[1], p[2])}

\* A blob's count is, in every interleaving of creating, tombstoning and
\* failing requests, the number of places that hold it: counted by the request
\* that created the origin and not released since (chunks: never released).
\* upload / create_origin / tombstone_origin agree on who counts what.
BlobLedger == \A b \in Blobs : blobRefs[b] = Cardinality(BlobHolders(b))

RepHolders(o) ==
  {i \in 1..reps[o] : ~ \E t \in Slots : tombOf[t] = o /\ i <= decReps[t]}

RefHolders(o) ==
  {r \in Refs : refOf[r] = o /\ ref[r] \in {"counted", "acked", "released"}}

\* An origin's count is the number of its representations, shares, pins and
\* derivations that were counted and not yet dropped (is_gc_candidate reads it).
OriginLedger ==
  \A o \in Origins :
    originRefs[o] = Cardinality(RepHolders(o)) + Cardinality(RefHolders(o))

\* What is left of the ledgers when clients overlap tombstone requests of one
\* origin, or repeat a DELETE of a share or a pin: a count is never above what
\* holds the object, so no such client keeps garbage alive.
NeverOvercounted ==
  /\ \A b \in Blobs : blobRefs[b] <= Cardinality(BlobHolders(b))
  /\ \A o \in Origins :
       originRefs[o] <= Cardinality(RepHolders(o)) + Cardinality(RefHolders(o))

\* The places blob b was counted for, and the releases of it, repeated or not.
CountedFor(b) == {p \in Positions : Content[p[1]][p[2]] = b /\ p[2] <= incs[p[1]]}
ReleasesOf(b) ==
  {d \in UNION {{t} \X (1..decs[t]) : t \in Slots} : Content[tombOf[d[1]]][d[2]] = b}

\* How far below it can fall: by no more than the releases that overlapping
\* tombstone requests repeat.  Each place is counted once, each release takes at
\* most one, and a count that has reached zero is not driven below it, so it
\* does not lose increments that come later.
ShortByRepeats ==
  \A b \in Blobs : Cardinality(CountedFor(b)) <= blobRefs[b] + Cardinality(ReleasesOf(b))

\* No request on o is half-way.
Settled(o) ==
  /\ pc[o] = "done"
  /\ \A r \in Refs : refOf[r] = o => ref[r] \in {"acked", "dropped"}
  /\ \A t \in Slots : tombOf[t] = o => tombAt[t] = "done"

\* Edges of o: one per root blob, and one per share, pin or derivation.
RootEdges(o) == {i \in 1..Len0(o) : <<o, i>> \in lineage}
RefEdges(o)  == {r \in Refs : r \in lineage /\ refOf[r] = o}
DroppedOf(o) == {r \in Refs : refOf[r] = o /\ ref[r] = "dropped"}

\* The append-only lineage, which share proofs digest, accounts for every
\* settled origin: it has an edge for each root blob and for each reference ever
\* counted, and the origin's count is that history less what was given back.
LineageAccounts ==
  \A o \in Origins : Settled(o) =>
    /\ RootEdges(o) = 1..NRoots(o)
    /\ originRefs[o] + Cardinality(DroppedOf(o))
       = Cardinality(RefEdges(o)) + (IF registry[o] = "tombstoned" THEN 0 ELSE NReps(o))

\* A tombstoned origin stays tombstoned, and no creating request counts a
\* representation or a blob for it any more ("Resurrection prevention").
NoResurrection ==
  [][\A o \in Origins : registry[o] = "tombstoned" =>
       /\ registry'[o] = "tombstoned"
       /\ reps'[o] = reps[o] /\ incs'[o] = incs[o]]_vars

=============================================================================
