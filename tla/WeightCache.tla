----------------------------- MODULE WeightCache -----------------------------
(***************************************************************************)
(* The cached side of the weight store: clusters of weights kept as          *)
(* content-addressed blobs, and the bounded RAM cache of them with pin       *)
(* reasons (WeightPinRegistry) behind WeightStoreService.                   *)
(*                                                                         *)
(* The cache and its access counts have a lock each, and no lock is held     *)
(* from one section to the next: a call is a sequence of steps, one per lock *)
(* section or blob-store call, and calls of different threads interleave.   *)
(* A cluster stands for its blob id, the hash of its bytes.                 *)
(***************************************************************************)
EXTENDS Naturals, FiniteSets, FiniteSetsExt

CONSTANTS
  Callers,        \* threads that share one service
  Clusters,       \* ids of the weight clusters
  CacheCapacity,  \* max_entries of the pin registry
  Critical,       \* reasons that are never evicted: Identity, Logic
  None,           \* no cluster
  MaxAccess       \* bound: accesses counted

ASSUME CacheAssumption ==
  /\ CacheCapacity \in Nat /\ MaxAccess \in Nat
  /\ Critical \subseteq {"Identity", "Logic"}
  /\ None \notin Clusters

VARIABLES
  stored,    \* clusters in the blob store
  hot,       \* pin reason of each cluster, Cold when it is not cached
  older,     \* last_accessed of the entries: pairs of cached clusters, the earlier first
  accesses,  \* access_counts, kept for clusters that are cached no more
  call,      \* the call each thread is in
  promised,  \* history: clusters whose identity or logic pin returned
  exposed,   \* history: of these, pinned while a call had decided against them
  strays     \* history: clusters whose last deletion was crossed, not stored since

weightVars == <<stored, hot, older, accesses, call, promised, exposed, strays>>

Cold == "Cold"
Reasons == {"Identity", "Logic", "FrequentUse", "Prefetch"}

Cached == {x \in Clusters : hot[x] # Cold}

Ops == {"load", "prefetch", "evict", "delete"} \cup Critical
NoCounts == [x \in Clusters |-> 0]
Idle == [pc |-> "idle", op |-> "evict", id |-> None, room |-> 0,
         counts |-> NoCounts, victims |-> {}, alone |-> TRUE, crossed |-> FALSE]

WeightInit ==
  /\ stored \in SUBSET Clusters
  /\ hot = [x \in Clusters |-> Cold]
  /\ older = {}
  /\ accesses = NoCounts
  /\ call = [c \in Callers |-> Idle]
  /\ promised = {}
  /\ exposed = {}
  /\ strays = {}

----------------------------------------------------------------------------
At(c, pc) == call[c].pc = pc
GoTo(c, pc) == call' = [call EXCEPT ![c].pc = pc]
Return(c) == call' = [call EXCEPT ![c] = Idle]
Busy(c) == call[c].pc # "idle"

Without(gone) == {p \in older : p[1] \notin gone /\ p[2] \notin gone}

\* A fault: the entry is not taken out of its old place.
Touch_Fault(x) == older \cup {<<y, x>> : y \in Cached \ {x}}

(* last_accessed = Instant::now(): the other entries were accessed before.  *)
Touch(x) == Without({x}) \cup {<<y, x>> : y \in Cached \ {x}}
Count(x) == accesses' = [accesses EXCEPT ![x] = @ + 1]

(* The pin reason each entry point passes to the registry.                 *)
ReasonOf(op) == CASE op \in Critical   -> op
                  [] op = "prefetch"   -> "Prefetch"
                  [] OTHER             -> "FrequentUse"

(* Calls that may enter x into the cache.                                   *)
Caches(op) == op \notin {"evict", "delete"}
Caching(c, x) == Busy(c) /\ Caches(call[c].op) /\ call[c].id = x

(* Histories of a call: whether it is the only one since it began; whether a *)
(* deletion has met a call that may cache what it deletes.                  *)
Crosses(op, x) == op = "delete" /\ \E e \in Callers : Caching(e, x)
Met(r, op, x)  == [r EXCEPT !.alone = FALSE,
                            !.crossed = IF r.op = "delete" /\ r.id = x /\ Caches(op) THEN TRUE ELSE @]

Begin(c, op, x, pc) ==
  /\ At(c, "idle")
  /\ call' = [d \in Callers |->
       IF d = c THEN [Idle EXCEPT !.pc = pc, !.op = op, !.id = x,
                                  !.alone = \A e \in Callers : ~Busy(e),
                                  !.crossed = Crosses(op, x)]
       ELSE IF Busy(d) THEN Met(call[d], op, x) ELSE call[d]]
  /\ UNCHANGED <<stored, hot, older, accesses, promised, exposed, strays>>

(* The bound: a call counts at most two accesses.                           *)
WithinBound ==
  MapThenSumSet(LAMBDA x : accesses[x], Clusters)
    + 2 * Cardinality({c \in Callers : Busy(c)}) + 2 <= MaxAccess

LoadCluster(c, x)     == WithinBound /\ Begin(c, "load", x, "count")
PinCritical(c, x)     == WithinBound /\ \E why \in Critical : Begin(c, why, x, "count")
PrefetchCluster(c, x) == WithinBound /\ Begin(c, "prefetch", x, "pinned")
EvictCluster(c, x)    == Begin(c, "evict", x, "check")
DeleteCluster(c, x)   == Begin(c, "delete", x, "pinned")

(* store_cluster, as far as the cache can tell: the blob is there.         *)
StoreCluster(x) ==
  /\ stored' = stored \cup {x}
  /\ strays' = strays \ {x}
  /\ UNCHANGED <<hot, older, accesses, call, promised, exposed>>

----------------------------------------------------------------------------
(* WeightPinRegistry::get counts the access, then looks the cluster up.    *)
CountAccess(c) ==
  /\ At(c, "count")
  /\ Count(call[c].id)
  /\ GoTo(c, "hot")
  /\ UNCHANGED <<stored, hot, older, promised, exposed, strays>>

LookUp(c) ==
  /\ At(c, "hot")
  /\ IF call[c].id \in Cached
       THEN /\ older' = Touch(call[c].id)
            /\ IF call[c].op = "load" THEN Return(c) ELSE GoTo(c, "room")
       ELSE /\ GoTo(c, "fetch")
            /\ UNCHANGED older
  /\ UNCHANGED <<stored, hot, accesses, promised, exposed, strays>>

\* A fault: a deletion does not look at the cache.
IsPinned_Fault(c) ==
  /\ At(c, "pinned")
  /\ IF call[c].op = "delete" THEN GoTo(c, "erase")
     ELSE IF call[c].id \in Cached THEN Return(c) ELSE GoTo(c, "fetch")
  /\ UNCHANGED <<stored, hot, older, accesses, promised, exposed, strays>>

(* is_pinned: the first step of a prefetch, and of a deletion.             *)
IsPinned(c) ==
  /\ At(c, "pinned")
  /\ \/ /\ call[c].op = "prefetch"
        /\ IF call[c].id \in Cached THEN Return(c) ELSE GoTo(c, "fetch")
     \/ /\ call[c].op = "delete"
        /\ GoTo(c, IF call[c].id \in Cached THEN "check" ELSE "erase")
  /\ UNCHANGED <<stored, hot, older, accesses, promised, exposed, strays>>

(* WeightBlobStore::get, the cold path.                                    *)
Fetch(c) ==
  /\ At(c, "fetch")
  /\ IF call[c].id \in stored THEN GoTo(c, "room") ELSE Return(c)
  /\ UNCHANGED <<stored, hot, older, accesses, promised, exposed, strays>>

----------------------------------------------------------------------------
(* WeightPinRegistry::pin: maybe_evict in four lock sections, the insert,   *)
(* the count.  What maybe_evict removes was chosen from what the earlier    *)
(* sections read.                                                          *)
ReadRoom(c) ==
  LET len == Cardinality(Cached)
  IN  /\ At(c, "room")
      /\ IF len < CacheCapacity
           THEN GoTo(c, "insert")
           ELSE call' = [call EXCEPT ![c].pc = "counts", ![c].room = len]
      /\ UNCHANGED <<stored, hot, older, accesses, promised, exposed, strays>>

ReadCounts(c) ==
  /\ At(c, "counts")
  /\ call' = [call EXCEPT ![c].pc = "victims", ![c].counts = accesses]
  /\ UNCHANGED <<stored, hot, older, accesses, promised, exposed, strays>>

\* A fault: the critical reasons are not left out.
Candidates_Fault == Cached

Candidates == {x \in Cached : hot[x] \notin Critical}

(* Fewest accesses first, then least recently used.                        *)
Colder(counts, x, y) ==
  \/ counts[x] < counts[y]
  \/ counts[x] = counts[y] /\ <<x, y>> \in older

Coldest(counts, n) ==
  {x \in Candidates : Cardinality({y \in Candidates : Colder(counts, y, x)}) < n}

PickVictims(c) ==
  /\ At(c, "victims")
  /\ call' = [call EXCEPT
       ![c].pc = "drop", ![c].room = 0, ![c].counts = NoCounts,
       ![c].victims = Coldest(call[c].counts, (call[c].room - CacheCapacity) + 1)]
  /\ UNCHANGED <<stored, hot, older, accesses, promised, exposed, strays>>

Forget(gone) ==
  /\ hot' = [x \in Clusters |-> IF x \in gone THEN Cold ELSE hot[x]]
  /\ older' = Without(gone)

DropVictims(c) ==
  /\ At(c, "drop")
  /\ Forget(call[c].victims)
  /\ call' = [call EXCEPT ![c].pc = "insert", ![c].victims = {}]
  /\ UNCHANGED <<stored, accesses, promised, exposed, strays>>

(* A call that has decided against x: it holds x as a victim, has seen that  *)
(* x may be unpinned, or has found x not cached and will cache it with a     *)
(* reason of its own that is not critical.                                 *)
Against(c, x) ==
  \/ x \in call[c].victims
  \/ At(c, "remove") /\ call[c].id = x
  \/ /\ call[c].pc \in {"fetch", "room", "counts", "victims", "drop", "insert"}
     /\ call[c].id = x
     /\ ReasonOf(call[c].op) \notin Critical

Insert(c) ==
  LET x == call[c].id
      reason == ReasonOf(call[c].op)
  IN  /\ At(c, "insert")
      /\ hot' = [hot EXCEPT ![x] = reason]
      /\ older' = Touch(x)
      /\ exposed' = IF reason \notin Critical THEN exposed
                    ELSE IF \E d \in Callers \ {c} : Against(d, x) THEN exposed \cup {x}
                    ELSE exposed \ {x}
      /\ GoTo(c, "bump")
      /\ UNCHANGED <<stored, accesses, promised, strays>>

Bump(c) ==
  /\ At(c, "bump")
  /\ Count(call[c].id)
  /\ promised' = IF ReasonOf(call[c].op) \in Critical THEN promised \cup {call[c].id} ELSE promised
  /\ Return(c)
  /\ UNCHANGED <<stored, hot, older, exposed, strays>>

----------------------------------------------------------------------------
(* WeightPinRegistry::unpin looks at the reason under the read lock, lets   *)
(* it go, and removes the entry under the write lock.                      *)
CheckReason(c) ==
  /\ At(c, "check")
  /\ IF hot[call[c].id] \in Critical THEN Return(c) ELSE GoTo(c, "remove")
  /\ UNCHANGED <<stored, hot, older, accesses, promised, exposed, strays>>

DropEntry(c) ==
  /\ At(c, "remove")
  /\ Forget({call[c].id})
  /\ IF call[c].op = "delete" THEN GoTo(c, "erase") ELSE Return(c)
  /\ UNCHANGED <<stored, accesses, promised, exposed, strays>>

Erase(c) ==
  /\ At(c, "erase")
  /\ stored' = stored \ {call[c].id}
  /\ strays' = IF call[c].crossed THEN strays \cup {call[c].id} ELSE strays \ {call[c].id}
  /\ Return(c)
  /\ UNCHANGED <<hot, older, accesses, promised, exposed>>

----------------------------------------------------------------------------
WeightCall(c, x) ==
  \/ LoadCluster(c, x) \/ PinCritical(c, x) \/ PrefetchCluster(c, x)
  \/ EvictCluster(c, x) \/ DeleteCluster(c, x)

WeightStep(c) ==
  \/ CountAccess(c) \/ LookUp(c) \/ IsPinned(c) \/ Fetch(c)
  \/ ReadRoom(c) \/ ReadCounts(c) \/ PickVictims(c) \/ DropVictims(c)
  \/ Insert(c) \/ Bump(c) \/ CheckReason(c) \/ DropEntry(c) \/ Erase(c)

WeightNext ==
  \/ \E c \in Callers, x \in Clusters : WeightCall(c, x)
  \/ \E c \in Callers : WeightStep(c)
  \/ \E x \in Clusters : StoreCluster(x)

WeightSpec == WeightInit /\ [][WeightNext]_weightVars

----------------------------------------------------------------------------
Steps == {"idle", "count", "hot", "pinned", "fetch", "room", "counts", "victims",
          "drop", "insert", "bump", "check", "remove", "erase"}

(* The shape of the state; in particular the times of access order the       *)
(* cached clusters, one after the other.                                   *)
WeightTypeOK ==
  /\ stored \subseteq Clusters /\ promised \subseteq Clusters
  /\ exposed \subseteq Clusters /\ strays \subseteq Clusters
  /\ hot \in [Clusters -> Reasons \cup {Cold}]
  /\ accesses \in [Clusters -> Nat]
  /\ older \subseteq Cached \X Cached
  /\ \A x, y \in Cached : <<x, y>> \in older <=> x # y /\ <<y, x>> \notin older
  /\ \A p, q \in older : p[2] = q[1] => <<p[1], q[2]>> \in older
  /\ call \in [Callers -> [pc : Steps, op : Ops, id : Clusters \cup {None}, room : Nat,
                counts : [Clusters -> Nat], victims : SUBSET Clusters,
                alone : BOOLEAN, crossed : BOOLEAN]]

(* "Identity and logic clusters are always pinned and never evicted": once   *)
(* pin_identity_cluster or pin_logic_cluster has returned, the cluster stays *)
(* cached with a critical reason, whatever loads, prefetches, evictions and  *)
(* deletions run, unless one of them had already decided against it when     *)
(* the pin was inserted.                                                   *)
CriticalStays == \A x \in promised \ exposed : hot[x] \in Critical

(* Threads that each saw room for one entry can together exceed the          *)
(* capacity; the next pin that runs alone brings the cache back to it, with  *)
(* critical entries, which are never evicted, on top.                       *)
PinRecovers ==
  [][\A c \in Callers :
       call[c].alone /\ At(c, "insert") /\ call'[c].pc = "bump"
         => Cardinality(Candidates') <= IF CacheCapacity = 0 THEN 1 ELSE CacheCapacity]_weightVars

(* delete_cluster drops the cached copy before the blob, so a cached cluster *)
(* is a stored one, whatever runs on other clusters and whatever evictions   *)
(* and deletions of this one overlap, unless a call that may cache it (load, *)
(* prefetch, pin) was under way at some moment of its last deletion.        *)
CachedIsStored == Cached \ stored \subseteq strays
=============================================================================
