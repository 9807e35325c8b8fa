--------------------------- MODULE OptimizerState ---------------------------
(***************************************************************************)
(* The optimizer-state store: a write-back cache of blocks over a blob     *)
(* store and one manifest file per origin                                  *)
(* (crates/sodl-service/src/optimizer_state.rs).                           *)
(*                                                                         *)
(* A store has two mutexes, of the pin set and of the cache, and none      *)
(* around the manifest files, so a call is a sequence of steps: one per    *)
(* critical section and one per file operation.  Critical sections that    *)
(* take one lock are one step; where a call takes a second lock while it   *)
(* holds the first, the lock is held across steps.                         *)
(*                                                                         *)
(* Serial is how the repository drives the store: the Python binding keeps *)
(* the interpreter lock for the whole of a call, so calls never overlap.   *)
(* The Rust type takes calls from any number of threads: Serial = FALSE.   *)
(* Either way the process may crash between any two steps, and a file      *)
(* operation at one of the Faulty steps may fail, which ends the call.     *)
(*                                                                         *)
(* Blocks are compressed deterministically and stored under their hash, so *)
(* a payload stands for its blob id too.  Which of several evictable       *)
(* entries goes first is left open: it is the order of wall-clock readings,*)
(* which repeat and can step back.                                         *)
(*                                                                         *)
(* Definitions ending in _Fault are seeded faults, see SodlService.        *)
(***************************************************************************)
EXTENDS Integers, FiniteSets

CONSTANTS
  Threads,    \* callers
  Keys,       \* cache keys: the blocks of all origins
  OriginOf,   \* OriginOf[k]: the origin whose block k is
  Payloads,   \* block contents
  None,       \* no payload, no holder, no origin
  Batches,    \* the sets of blocks that calls name
  Capacities, \* values of set_cache_capacity
  Threshold,  \* writeback_threshold
  Faulty,     \* the steps whose file operation may fail
  Serial

ASSUME StoreAssumption ==
  /\ None \notin Payloads \cup Threads
  /\ \A ks \in Batches :
       /\ ks # {} /\ ks \subseteq Keys /\ IsFiniteSet(ks)
       /\ \A k, l \in ks : OriginOf[k] = OriginOf[l]
  /\ Capacities \subseteq Nat \ {0} /\ Capacities # {}
  /\ Threshold \in Nat \ {0}
  /\ Faulty \subseteq {"manifest", "read", "base", "write", "save", "scan", "delete"}
  /\ Serial \in BOOLEAN

VARIABLES
  cache,      \* cache[k]: bytes, dirty and pinned flags, or Absent
  pins,       \* the pin set
  capacity,   \* cache_capacity
  manifests,  \* manifests[k]: the blob the saved manifest of k's origin records
  files,      \* blobs in the blob store
  cacheLock,  \* the thread inside a critical section that spans steps
  pinLock,
  call,       \* call[t]: the call thread t is in
  orphans     \* history: blobs no manifest named when a crash or an error hit

memory == <<cache, pins, capacity>>
disk   == <<manifests, files>>
locks  == <<cacheLock, pinLock>>
vars   == <<memory, disk, locks, call, orphans>>

Absent == [bytes |-> None, dirty |-> FALSE, pinned |-> FALSE]
Block(bytes, dirty, pinned) == [bytes |-> bytes, dirty |-> dirty, pinned |-> pinned]
Cached    == {k \in Keys : cache[k] # Absent}
BlocksOf(o) == {k \in Keys : OriginOf[k] = o}
Dirty(entries, o) == {k \in BlocksOf(o) : entries[k].dirty}
Referenced == {manifests[k] : k \in Keys} \ {None}

NoData == [k \in Keys |-> None]
\* op: the call; at: its next step; origin: the manifest it works on; keys: the
\* blocks it has still to treat; data: the inputs of a store, the manifest
\* records or bytes of a load, the manifest being built by a flush; old: blobs
\* a flush has replaced; pinned: the pin set as the call has read it.
NoCall == [op |-> "none", at |-> "idle", origin |-> None, keys |-> {},
           data |-> NoData, old |-> {}, pinned |-> {}]

Ops    == {"none", "store_block", "store_blocks", "load_block", "load_blocks",
           "pin_blocks", "unpin_blocks", "evict_blocks", "flush_blocks",
           "flush_origin", "cache_stats"}
Places == {"idle", "pins", "stage", "count", "lookup", "manifest", "read",
           "insert", "pin", "unpin", "evict", "collect", "base", "lock", "write",
           "save", "scan", "delete", "enforce", "trim", "stats", "stats_pins"}

-----------------------------------------------------------------------------
(* Calls.                                                                  *)

Init ==
  /\ cache = [k \in Keys |-> Absent]
  /\ pins = {}
  /\ capacity \in Capacities
  /\ manifests = NoData
  /\ files = {}
  /\ cacheLock = None /\ pinLock = None
  /\ call = [t \in Threads |-> NoCall]
  /\ orphans = {}

Idle == \A t \in Threads : call[t] = NoCall

Start(t, op, place, ks, data) ==
  /\ call[t] = NoCall
  /\ Serial => Idle
  /\ call' = [call EXCEPT ![t] =
       [NoCall EXCEPT !.op = op, !.at = place, !.keys = ks, !.data = data,
                      !.origin = OriginOf[CHOOSE k \in ks : TRUE]]]
  /\ UNCHANGED <<memory, disk, locks>>

Begin(t) ==
  \/ \E k \in Keys, v \in Payloads :
       Start(t, "store_block", "pins", {k}, [NoData EXCEPT ![k] = v])
  \/ \E k \in Keys : Start(t, "load_block", "lookup", {k}, NoData)
  \/ \E ks \in Batches :
       \/ \E w \in [ks -> Payloads] :
            Start(t, "store_blocks", "pins", ks,
                  [k \in Keys |-> IF k \in ks THEN w[k] ELSE None])
       \/ Start(t, "load_blocks", "lookup", ks, NoData)
       \/ Start(t, "pin_blocks", "pins", ks, NoData)
       \/ Start(t, "unpin_blocks", "pins", ks, NoData)
       \/ Start(t, "evict_blocks", "pins", ks, NoData)
       \/ Start(t, "flush_blocks", "base", ks, NoData)
       \/ Start(t, "flush_origin", "collect", ks, NoData)
       \/ Start(t, "cache_stats", "stats", ks, NoData)

At(t, place)   == call[t].at = place
Goto(t, place) == call' = [call EXCEPT ![t].at = place]
Return(t)      == call' = [call EXCEPT ![t] = NoCall]

\* The steps that lock the cache, and those that lock the pin set.
NeedsCache == {"stage", "count", "lookup", "insert", "pin", "unpin", "evict",
               "trim", "collect", "lock", "stats"}
NeedsPins  == {"pins", "enforce", "stats_pins"}

\* The pin set is locked for one reading, or by the calls that go on to the
\* cache with it in hand until they are done with both.
KeepsPins == {"store_blocks", "pin_blocks", "unpin_blocks", "evict_blocks"}

AfterPins(t) == CASE call[t].op \in {"store_block", "store_blocks"} -> "stage"
                  [] call[t].op = "load_block"   -> "insert"
                  [] call[t].op = "load_blocks"  -> "read"
                  [] call[t].op = "pin_blocks"   -> "pin"
                  [] call[t].op = "unpin_blocks" -> "unpin"
                  [] call[t].op = "evict_blocks" -> "evict"

ReadPins(t) ==
  /\ At(t, "pins")
  /\ pinLock = None
  /\ pinLock' = IF call[t].op \in KeepsPins THEN t ELSE None
  /\ call' = [call EXCEPT ![t].at = AfterPins(t), ![t].pinned = pins]
  /\ UNCHANGED <<memory, disk, cacheLock>>

-----------------------------------------------------------------------------
(* Storing.                                                                *)

\* A block that is stored again stays one entry, dirty from now on.
Staged(t) == [k \in Keys |->
  IF k \in call[t].keys THEN Block(call[t].data[k], TRUE, k \in call[t].pinned)
  ELSE cache[k]]

WriteBackDue(entries, o) == Cardinality(Dirty(entries, o)) >= Threshold

\* store_block counts the dirty blocks in the same critical section.
Stage(t) ==
  /\ At(t, "stage")
  /\ cacheLock = None
  /\ cache' = Staged(t)
  /\ IF call[t].op = "store_blocks" THEN Goto(t, "count") /\ pinLock' = None
     ELSE /\ UNCHANGED pinLock
          /\ IF WriteBackDue(Staged(t), call[t].origin) THEN Goto(t, "collect")
             ELSE Return(t)
  /\ UNCHANGED <<pins, capacity, disk, cacheLock>>

CountDirty_Fault(t) ==  \* a batch never triggers the write-back
  /\ At(t, "count")
  /\ cacheLock = None
  /\ Return(t)
  /\ UNCHANGED <<memory, disk, locks>>

CountDirty(t) ==
  /\ At(t, "count")
  /\ cacheLock = None
  /\ IF WriteBackDue(cache, call[t].origin) THEN Goto(t, "collect") ELSE Return(t)
  /\ UNCHANGED <<memory, disk, locks>>

-----------------------------------------------------------------------------
(* Loading.                                                                *)

Lookup_Fault(t) ==  \* reads the cached blocks of a batch again
  /\ At(t, "lookup")
  /\ cacheLock = None
  /\ IF call[t].keys \subseteq Cached THEN Return(t) ELSE Goto(t, "manifest")
  /\ UNCHANGED <<memory, disk, locks>>

Lookup(t) ==
  /\ At(t, "lookup")
  /\ cacheLock = None
  /\ IF call[t].keys \subseteq Cached THEN Return(t)
     ELSE call' = [call EXCEPT ![t].at = "manifest", ![t].keys = @ \ Cached]
  /\ UNCHANGED <<memory, disk, locks>>

\* A missing block is an error of load_block and skipped by load_blocks.
LoadManifest(t) ==
  /\ At(t, "manifest")
  /\ LET found == {k \in call[t].keys : manifests[k] # None} IN
       IF call[t].op = "load_block" /\ found = {} THEN Return(t)
       ELSE call' = [call EXCEPT
              ![t].at = IF call[t].op = "load_block" THEN "read" ELSE "pins",
              ![t].keys = found,
              ![t].data = [k \in Keys |-> IF k \in found THEN manifests[k] ELSE None]]
  /\ UNCHANGED <<memory, disk, locks>>

\* A blob that is gone fails the whole call.
LoadBlob(t, k) ==
  /\ At(t, "read")
  /\ k \in call[t].keys
  /\ IF call[t].data[k] \in files THEN call' = [call EXCEPT ![t].keys = @ \ {k}]
     ELSE Return(t)
  /\ UNCHANGED <<memory, disk, locks>>

LoadedAll(t) ==
  /\ At(t, "read")
  /\ call[t].keys = {}
  /\ IF call[t].op = "load_block" THEN Goto(t, "pins")
     ELSE IF call[t].data = NoData THEN Return(t) ELSE Goto(t, "insert")
  /\ UNCHANGED <<memory, disk, locks>>

Insert_Fault(t) ==  \* enters a pinned block that has no record yet
  /\ At(t, "insert")
  /\ cacheLock = None
  /\ cache' = [k \in Keys |->
       IF call[t].data[k] = None /\ (k \in Cached \/ k \notin call[t].pinned)
       THEN cache[k] ELSE Block(call[t].data[k], FALSE, k \in call[t].pinned)]
  /\ Goto(t, "enforce")
  /\ UNCHANGED <<pins, capacity, disk, locks>>

\* Whatever the cache holds by now is replaced.
Insert(t) ==
  /\ At(t, "insert")
  /\ cacheLock = None
  /\ cache' = [k \in Keys |->
       IF call[t].data[k] = None THEN cache[k]
       ELSE Block(call[t].data[k], FALSE, k \in call[t].pinned)]
  /\ Goto(t, "enforce")
  /\ UNCHANGED <<pins, capacity, disk, locks>>

-----------------------------------------------------------------------------
(* Pinning and evicting.                                                   *)

PinBlock(t, k) ==
  /\ At(t, "pin")
  /\ k \in call[t].keys
  /\ cacheLock = None
  /\ pins' = pins \cup {k}
  /\ cache' = [cache EXCEPT ![k].pinned = k \in Cached]
  /\ IF call[t].keys = {k} THEN Return(t) /\ pinLock' = None
     ELSE call' = [call EXCEPT ![t].keys = @ \ {k}] /\ UNCHANGED pinLock
  /\ UNCHANGED <<capacity, disk, cacheLock>>

UnpinBlock_Fault(t, k) ==  \* forgets the cached entry
  /\ At(t, "unpin")
  /\ k \in call[t].keys
  /\ cacheLock = None
  /\ pins' = pins \ {k}
  /\ IF call[t].keys = {k} THEN Goto(t, "enforce") /\ pinLock' = None
     ELSE call' = [call EXCEPT ![t].keys = @ \ {k}] /\ UNCHANGED pinLock
  /\ UNCHANGED <<cache, capacity, disk, cacheLock>>

UnpinBlock(t, k) ==
  /\ At(t, "unpin")
  /\ k \in call[t].keys
  /\ cacheLock = None
  /\ pins' = pins \ {k}
  /\ cache' = [cache EXCEPT ![k].pinned = FALSE]
  /\ IF call[t].keys = {k} THEN Goto(t, "enforce") /\ pinLock' = None
     ELSE call' = [call EXCEPT ![t].keys = @ \ {k}] /\ UNCHANGED pinLock
  /\ UNCHANGED <<capacity, disk, cacheLock>>

Evictable(k, snapshot) ==
  k \in Cached /\ ~cache[k].dirty /\ ~cache[k].pinned /\ k \notin snapshot

Without(ks) == [k \in Keys |-> IF k \in ks THEN Absent ELSE cache[k]]

Evict(t) ==
  /\ At(t, "evict")
  /\ cacheLock = None
  /\ cache' = Without({k \in call[t].keys : Evictable(k, pins)})
  /\ Return(t)
  /\ pinLock' = None
  /\ UNCHANGED <<pins, capacity, disk, cacheLock>>

\* enforce_cache_capacity copies the pin set and then looks at the cache.
EnforcePins(t) ==
  /\ At(t, "enforce")
  /\ pinLock = None
  /\ call' = [call EXCEPT ![t].at = "trim", ![t].pinned = pins]
  /\ UNCHANGED <<memory, disk, locks>>

Trim(t) ==
  /\ At(t, "trim")
  /\ cacheLock = None
  /\ LET candidates == {k \in Keys : Evictable(k, call[t].pinned)}
         excess == Cardinality(Cached) - capacity
     IN \E victims \in SUBSET candidates :
          /\ \/ Cardinality(victims) = excess
             \/ victims = {} /\ excess <= 0
             \/ victims = candidates /\ Cardinality(candidates) < excess
          /\ cache' = Without(victims)
  /\ Return(t)
  /\ UNCHANGED <<pins, capacity, disk, locks>>

-----------------------------------------------------------------------------
(* Flushing.                                                               *)

\* flush_origin: every cached block of the origin.
Collect(t) ==
  /\ At(t, "collect")
  /\ cacheLock = None
  /\ call' = [call EXCEPT ![t].at = "base",
                          ![t].keys = Cached \cap BlocksOf(call[t].origin)]
  /\ UNCHANGED <<memory, disk, locks>>

FlushBase(t) ==
  /\ At(t, "base")
  /\ IF call[t].keys = {} THEN Return(t)
     ELSE call' = [call EXCEPT ![t].at = "lock", ![t].old = {},
            ![t].data = [k \in Keys |->
               IF k \in BlocksOf(call[t].origin) THEN manifests[k] ELSE None]]
  /\ UNCHANGED <<memory, disk, locks>>

FlushLock(t) ==
  /\ At(t, "lock")
  /\ cacheLock = None
  /\ cacheLock' = t
  /\ Goto(t, "write")
  /\ UNCHANGED <<memory, disk, pinLock>>

\* The flush goes on with the next block, or releases the cache and saves.
NextBlock(t, k, data, old) ==
  /\ call' = [call EXCEPT ![t].keys = @ \ {k}, ![t].data = data, ![t].old = old,
                          ![t].at = IF call[t].keys = {k} THEN "save" ELSE "write"]
  /\ cacheLock' = IF call[t].keys = {k} THEN None ELSE t

FlushBlock(t, k) ==
  /\ At(t, "write")
  /\ k \in call[t].keys
  /\ IF cache[k].dirty
     THEN LET blob == cache[k].bytes IN
          /\ cache' = [cache EXCEPT ![k].dirty = FALSE]
          /\ files' = files \cup {blob}
          /\ NextBlock(t, k, [call[t].data EXCEPT ![k] = blob],
                       call[t].old \cup ({call[t].data[k]} \ {None, blob}))
     ELSE NextBlock(t, k, call[t].data, call[t].old) /\ UNCHANGED <<cache, files>>
  /\ UNCHANGED <<pins, capacity, manifests, pinLock>>

SaveManifest_Fault(t) ==  \* keeps what it has superseded
  /\ At(t, "save")
  /\ manifests' = [k \in Keys |->
       IF k \in BlocksOf(call[t].origin) THEN call[t].data[k] ELSE manifests[k]]
  /\ Goto(t, "enforce")
  /\ UNCHANGED <<memory, files, locks>>

\* The manifest file is replaced as a whole, by rename.
SaveManifest(t) ==
  /\ At(t, "save")
  /\ manifests' = [k \in Keys |->
       IF k \in BlocksOf(call[t].origin) THEN call[t].data[k] ELSE manifests[k]]
  /\ Goto(t, IF call[t].old = {} THEN "enforce" ELSE "scan")
  /\ UNCHANGED <<memory, files, locks>>

ScanReferenced_Fault(t) ==  \* looks only at the manifest it has just saved
  /\ At(t, "scan")
  /\ LET kept == {manifests[k] : k \in BlocksOf(call[t].origin)} IN
       call' = [call EXCEPT ![t].old = @ \ kept,
         ![t].at = IF call[t].old \subseteq kept THEN "enforce" ELSE "delete"]
  /\ UNCHANGED <<memory, disk, locks>>

\* gc_blob_ids: read every manifest, then delete what none of them names.
ScanReferenced(t) ==
  /\ At(t, "scan")
  /\ call' = [call EXCEPT ![t].old = @ \ Referenced,
       ![t].at = IF call[t].old \subseteq Referenced THEN "enforce" ELSE "delete"]
  /\ UNCHANGED <<memory, disk, locks>>

DeleteBlob(t, b) ==
  /\ At(t, "delete")
  /\ b \in call[t].old
  /\ files' = files \ {b}
  /\ call' = [call EXCEPT ![t].old = @ \ {b},
                          ![t].at = IF call[t].old = {b} THEN "enforce" ELSE "delete"]
  /\ UNCHANGED <<memory, manifests, locks>>

-----------------------------------------------------------------------------
(* The rest.                                                               *)

\* cache_stats takes the two locks in the other order.
Stats(t) ==
  /\ At(t, "stats")
  /\ cacheLock = None
  /\ cacheLock' = t
  /\ Goto(t, "stats_pins")
  /\ UNCHANGED <<memory, disk, pinLock>>

StatsPins(t) ==
  /\ At(t, "stats_pins")
  /\ pinLock = None
  /\ cacheLock' = None
  /\ Return(t)
  /\ UNCHANGED <<memory, disk, pinLock>>

\* set_cache_capacity takes the store exclusively.
SetCapacity(n) ==
  /\ Idle
  /\ capacity' = n
  /\ UNCHANGED <<cache, pins, disk, locks, call, orphans>>

\* An input or output error is returned to the caller; what the call has done
\* to the cache so far stays done.
DiskError(t) ==
  /\ call[t].at \in Faulty
  /\ Return(t)
  /\ cacheLock' = IF cacheLock = t THEN None ELSE cacheLock
  /\ orphans' = orphans \cup (files \ Referenced)
  /\ UNCHANGED <<memory, disk, pinLock>>

\* The process dies, and opens the store again.
Crash ==
  /\ cache' = [k \in Keys |-> Absent]
  /\ pins' = {}
  /\ cacheLock' = None /\ pinLock' = None
  /\ call' = [t \in Threads |-> NoCall]
  /\ orphans' = orphans \cup (files \ Referenced)
  /\ UNCHANGED <<capacity, disk>>

Step(t) ==
  \/ ReadPins(t) \/ Stage(t) \/ CountDirty(t)
  \/ Lookup(t) \/ LoadManifest(t) \/ (\E k \in Keys : LoadBlob(t, k)) \/ LoadedAll(t)
  \/ Insert(t)
  \/ (\E k \in Keys : PinBlock(t, k)) \/ (\E k \in Keys : UnpinBlock(t, k))
  \/ Evict(t) \/ EnforcePins(t) \/ Trim(t)
  \/ Collect(t) \/ FlushBase(t) \/ FlushLock(t) \/ (\E k \in Keys : FlushBlock(t, k))
  \/ SaveManifest(t) \/ ScanReferenced(t) \/ (\E b \in Payloads : DeleteBlob(t, b))
  \/ Stats(t) \/ StatsPins(t)

Next ==
  \/ \E t \in Threads : (Begin(t) \/ Step(t)) /\ UNCHANGED orphans
  \/ \E t \in Threads : DiskError(t)
  \/ \E n \in Capacities : SetCapacity(n)
  \/ Crash

Spec == Init /\ [][Next]_vars

-----------------------------------------------------------------------------
TypeOK ==
  /\ cache \in [Keys -> [bytes : Payloads, dirty : BOOLEAN, pinned : BOOLEAN] \cup {Absent}]
  /\ pins \subseteq Keys
  /\ capacity \in Capacities
  /\ manifests \in [Keys -> Payloads \cup {None}]
  /\ files \subseteq Payloads
  /\ cacheLock \in Threads \cup {None}
  /\ pinLock \in Threads \cup {None}
  /\ call \in [Threads ->
       [op : Ops, at : Places, origin : {OriginOf[k] : k \in Keys} \cup {None},
        keys : SUBSET Keys, data : [Keys -> Payloads \cup {None}],
        old : SUBSET Payloads, pinned : SUBSET Keys]]
  /\ orphans \subseteq Payloads

\* Every blob a saved manifest names is in the blob store, also after a crash
\* between any two steps of a flush (test
\* flush_keeps_shared_blob_if_another_block_still_references_it).
ManifestReadable == Referenced \subseteq files

\* Between calls every blob in the store is named by a manifest: a flush deletes
\* what it supersedes (test flush_reclaims_superseded_unique_blob), and only a
\* crash or an error leaves blobs behind.
SupersededReclaimed == Idle => files \subseteq Referenced \cup orphans

\* Between calls an origin has fewer dirty blocks than the write-back
\* threshold, which bounds what a crash can lose: of calls that overlap, the one
\* whose block reaches the threshold sees it, and starts the flush.
DirtyBounded ==
  Idle => \A k \in Keys : Cardinality(Dirty(cache, OriginOf[k])) < Threshold

\* Between calls the pin flags of the cached blocks agree with the pin set: no
\* pinned block can be evicted, and none stays unevictable once unpinned.
PinFlagsAgree == Idle => \A k \in Cached : cache[k].pinned <=> k \in pins

\* Thread t cannot go on until u has dropped a lock.
WaitsFor(t, u) ==
  \/ u = cacheLock /\ call[t].at \in NeedsCache
  \/ u = pinLock /\ call[t].at \in NeedsPins

\* Threads wait for each other in a circle in one case only: a cache_stats that
\* has the cache and wants the pin set, and a call that has the pin set (to store
\* a batch, to pin, unpin or evict) and wants the cache.
OneDeadlock ==
  \A circle \in SUBSET Threads :
    circle # {} /\ (\A t \in circle : \E u \in circle : WaitsFor(t, u)) =>
      /\ \E t \in circle : At(t, "stats_pins")
      /\ \E t \in circle : call[t].op \in KeepsPins /\ call[t].at \in NeedsCache

\* What load_block would return now.
Seen == [k \in Keys |->
  IF k \in Cached THEN cache[k].bytes
  ELSE IF manifests[k] \in files THEN manifests[k] ELSE None]

Durable == [k \in Keys |-> IF manifests[k] \in files THEN manifests[k] ELSE None]

\* What the store calls under way bring, until they have put it in the cache.
Storing(t) == call[t].op \in {"store_block", "store_blocks"} /\ call[t].at \in {"pins", "stage"}
Asked == [t \in Threads |->
  IF Storing(t) THEN [k \in Keys |-> IF k \in call[t].keys THEN call[t].data[k] ELSE None]
  ELSE NoData]

W == INSTANCE WriteBack WITH Clients <- Threads, Values <- Payloads,
                             seen <- Seen, durable <- Durable, asked <- Asked

\* Only a store call changes what a reader sees, to what it brings and for the
\* blocks it names, and only once; evicting, hydrating, flushing and garbage
\* collection never do, and a crash falls back to the last flush (test
\* flush_blocks_and_evict_respect_dirty_and_pinned_state: what is not flushed
\* is not evicted).
ImplementsWriteBack == W!Spec

=============================================================================
