# SODL in TLA+

A verification development for SODL: a content-addressed storage engine with
reference-counted retention (Rust crates), the stores built on it for machine
learning state, and the Python package `sodl_weights` that drives them.

`PROJECT.json` is the index: the components, the TLC runs, the faults that show
each property can fail, the source lines behind each definition, the hazards and
the theorems. This file explains it.

To check: `tlc -config MCSodlGc.cfg MCSodlGc` (any run: the module and cfg are in
`PROJECT.json`); to prove: `tlapm SodlServiceProofs.tla`.

## 1. The system

### Storage engine (Rust)

| Part | State | Operations | Works with |
|---|---|---|---|
| `sodl-service` `SodlService` | none of its own: handles on the stores | `upload`, `share`, `derive`, `pin_origin`, `unpin`, `release_share`, `tombstone_origin`, reads, share proofs | every store below |
| `sodl-api` handlers | `AppState` (the same handles) | the engine's calls over HTTP, and `POST /v1/origins`, `POST /v1/blobs`, `DELETE /v1/blobs/:id`, which go around it | `SodlService`, stores |
| `sodl-index` `MemIndex`, `sodl-persist` `SqliteStore` | origin and blob counts, lineage edges, pins, policies, origins, replicas | `inc_*`, `dec_*` (saturating), scans, `add_edge` | called by engine and GC |
| `sodl-cas` | blobs by hash, in memory or as files | `has`, `put`, `get`, `delete`, verification of what is read | everything |
| `sodl-gc` | none | `GcPlanner::plan`, `GcExecutor::execute` | scans, counters, pins, policies, blobs |
| `sodl-chunk`, `sodl-manifest`, `sodl-crypto`, `sodl-proof`, `sodl-policy`, `sodl-origin` | none, or records | chunking, manifests, encryption, digests, policy checks | `upload`, reads, proofs |
| `sodl-fetch`, `sodl-dist`, `sodl-replica`, `sodl-store` | peers, replica records | ordered fetch with verification, replica planning and execution | CAS, peers |

**What is hard.** Every call on a store takes and drops that store's own lock; no
lock or transaction spans two calls. A request is therefore a program of atomic
store calls that interleaves with every other request, with a collector that
plans first and deletes later, and that may stop after any call (an error
returned by `?`, a dead thread, a crash). What makes the engine correct is that
the counters agree with the references they stand for, at every one of those
points or at least at the end, and that the collector reclaims what nobody needs
and nothing else.

### Stores for machine-learning state (Rust, used from Python)

| Part | State | Operations |
|---|---|---|
| `optimizer_state.rs` `OptimizerStateStore` | a cache of blocks (dirty, pinned), a pin set, a manifest file per origin, a blob store | store, load, prefetch, pin, unpin, evict, flush of blocks; `set_cache_capacity`, `cache_stats` |
| `weight_store.rs` `WeightBlobStore`, `WeightPinRegistry` | blobs of weight clusters; cached clusters with a pin reason, access counts | put, get, `pin`, `unpin`, `maybe_evict`, gradient reference counts |
| `weight_service.rs` `WeightStoreService` | a registry of models and names, and the cluster cache | `ensure_model`, `load_cluster`, `delete_cluster`, imports, exports |
| `checkpoint_store.rs` `CheckpointStore` | a registry file per run, blobs shared between runs | save, load, delete, retention |
| `weight_manifest.rs` `WeightManifestStore` | a manifest file per training directory, clusters shared between directories | write (and delete what is no longer named), the origin to resume under |

**What is hard.** Write-back with a crash between any two file operations, blobs
shared between blocks and origins, two locks taken in different orders, disk
errors in the middle of a flush.

### Python package `sodl_weights`

`SODLAdamW` (an optimizer whose moments live in the optimizer-state store, flushed
by a worker thread), `VeinPrefetcher` and `ArteryPulsar` (background threads that
load and export clusters), checkpoint, manifest, artifact and model catalogues,
federation of nodes (registry, replication, consistency repair), HTTP client,
thread-pool wrappers, semantic routing, and numerics. **What is hard:** results of
background threads applied late, files and registries updated in several steps,
nodes that fail and return.

### What makes each part correct

* engine: counters equal references; a tombstone is final; every listed origin has
  the records maintenance needs; nothing a published origin needs is reclaimed;
  what nobody needs is reclaimed eventually;
* optimizer-state store: saved manifests are readable whatever happens; nothing
  superseded stays; what a crash can lose is bounded; the cache is invisible;
* weight store: a pinned cluster is never evicted, and is evictable again once
  every pin is gone; a loaded cluster is the one that was stored;
* checkpoints: a listed checkpoint can be restored, and collecting one never takes
  a blob of another;
* distribution: what is fetched is what was asked for, whatever the source sends;
  a repair never counts a replica that is not there;
* metadata: the in-memory stores and SQLite answer alike; an exact copy is found
  ahead of a likeness;
* payloads and proofs: what is read is what was sent, or an error; a share that
  verified once goes on verifying;
* pure algorithms: what is cut, merged or rounded can be put together again, on
  every input of a small size.

## 2. The modules

| Module | Models |
|---|---|
| `SodlService` | engine, and the handlers that bypass it, over counters, registry, pins, lineage and blob store |
| `SodlGc` | EXTENDS `SodlService`: planner, executor and `DELETE /v1/blobs/:id`, interleaved with requests |
| `Retention` | abstract specification: what clients are promised, without counters or requests |
| `OptimizerState` | the optimizer-state store, one action per critical section or file operation |
| `WriteBack` | abstract specification: clients ask for stores, what a reader sees changes when one of them takes effect and at no other step, a flush makes it durable, a crash falls back to what is durable |
| `WeightCache` | cluster cache and pins of the weight store, by several threads |
| `WeightModels` | the registry of models and its index of names, two read-write locks |
| `WeightExports` | clusters stored, counted, exported and resumed in several steps |
| `Checkpoints` | checkpoint registries over shared blobs, several processes |
| `WeightManifests` | weight manifests over shared clusters, several trainings |
| `TrainingLoop` | `SODLAdamW` over the optimizer-state store: steps, flushes, checkpoints, failures, restarts |
| `ArteryPulsar` | background export of dirty clusters, with marks, flushes, stops and restarts beside it |
| `VeinPrefetcher` | background loading of requested clusters into a cache, over a bounded queue |
| `BlobFiles` | `FsBlobStore`, file operation by file operation |
| `BlobTransfer` | a local store with peers, edges and source directories, and the Python fallback |
| `Replicas` | replica records, audits and repairs |
| `MetadataStores` | the in-memory metadata stores and `SqliteStore` side by side; provenance |
| `Payloads` | encryption, chunking and reassembly of a payload, damaged blobs |
| `ShareProofs` | what the proof of a share covers, clocks and late edges |
| `Chunking`, `Bpe`, `PolarQuant` | chunk boundaries; training of the tokenizer; quantization |
| `SodlServiceProofs`, `SodlGcProofs`, `OptimizerStateProofs` | theorems and proofs of the module they are named after |
| `WeightProofs` | of `WeightCache`, `WeightModels`, `WeightManifests`, `WeightExports` |
| `StoreSideProofs` | of `BlobFiles`, `BlobTransfer`, `ShareProofs`, `MetadataStores`, `Replicas` |
| `ContentProofs` | of `Chunking`, `Payloads`, `Checkpoints`, `PolarQuant`, `Bpe` |
| `TrainingProofs` | of `TrainingLoop`, `ArteryPulsar`, `VeinPrefetcher` |
| `SideProofs` | of `MCSideStores` and `MCLearning`: the shape of each component's state, from the four modules above |
| `MCSodlGc`, `MCOptimizerState`, `MCBlobFiles` | instances for TLC |
| `MCSideStores` | one instance each of the stores beside the engine: `WeightCache`, `WeightModels`, `WeightExports`, `BlobFiles`, `BlobTransfer`, `Replicas`, `MetadataStores`, `Payloads`, `ShareProofs`, `Chunking` |
| `MCLearning` | and of what a training runs on: `Checkpoints`, `WeightManifests`, `TrainingLoop`, `ArteryPulsar`, `VeinPrefetcher`, `Bpe`, `PolarQuant` |

### SodlService

One action per store call. A creating request owns the fresh origin id it draws,
so its progress is indexed by origin: `pc[o]` is its next store call, `put`,
`reps` and `incs` how far it has stored and counted. `upload` is
`Begin, PutBytes..., Register, IncOrigin, IncBlob..., EdgeRoot`; `POST /v1/origins`
is `Begin, (CheckBlob..., IncOrigin, IncBlob...) per representation, Register,
AddEdge` — the opposite order of registering and counting, as in the code. A tombstone
request has a slot `t`: `TombRead` reads the record, `TombDecOrigin` and
`TombDecBlob` release it representation by representation, `TombUpdate` writes the
record back cleared. Shares, pins and derivations are one record each, with a
state between their store calls. `Abandon` cuts a creating request short at any
call; other requests may simply never take their next step. `MemIndex` and
`SqliteStore` share the saturating `Dec`.

Data left out: payloads, keys, labels, times; a blob is a content address, and
`Content[o]` lists the blobs that the request for `o` names, so that sharing of
content between origins (or its absence, under a key per origin) is a constant.

`Permits` names the undisciplined client behaviours an instance allows
(overlapping tombstones of one origin, tombstones of half-created ones, repeated
releases, references to unknown origins, collection during creating requests).
Nothing in the code forbids them; the properties say under which discipline each
of them holds, and the comment at each permit says what breaks.

### SodlGc

`GcStart` lists the origins, `GcOriginRefs` and `GcOriginPins` look at one at a
time, `GcListBlobs` and `GcBlobRefs` do the same for blobs, `GcPlanned` hands the
plan over, and `GcTombOrigin` and `GcDeleteBlob` execute it without looking again.
`RmHas, RmCount, RmDelete` are the three store calls of `DELETE /v1/blobs/:id`.
`ScanZeros` tells `MemIndex` (rows of zero are listed) from `SqliteStore`
(`WHERE count > 0`).

### OptimizerState

`call[t]` is the call thread `t` is in: which method, its next step, and what it
has read. Calls that hold one lock for one reading are one step; calls that take
the second lock while holding the first keep `pinLock` or `cacheLock` across
steps, as `store_blocks`, `pin_blocks`, `evict_blocks`, `cache_stats` and
`flush_keys` do. A flush is `Collect, FlushBase` (load the manifest, no lock),
`FlushLock, FlushBlock..., SaveManifest` (rename), `ScanReferenced, DeleteBlob...,
EnforcePins, Trim`. `Crash` empties memory between any two steps; `DiskError` ends a call
at a file operation. Compression is deterministic, so a payload stands for its
blob. Which evictable entry goes first depends on the wall clock and is left
open. `Serial` says whether calls may overlap: the Python binding never releases
the interpreter lock inside a call, so they do not; the Rust type allows it.

### WeightCache, WeightModels, WeightExports

`WeightCache`: `call[t]` is the call thread `t` is in, one step per lock section of
`WeightPinRegistry` or call of the blob store. `hot` gives each cached cluster its
pin reason, `older` says which of two cached clusters was used last, `accesses`
the counts behind another lock. `maybe_evict` reads how much room is missing, lists
`Candidates`, reads their counts, and drops the `Coldest`, in four sections; an
insertion follows in a fifth. History variables say which clusters were promised
critical, which had been chosen as victims at that moment, and (`strays`) which
clusters had a call that may cache them, a load, a prefetch or a pin, under way at some
moment of their last deletion.

`WeightModels` keeps reader sets of the two locks only where the code holds a lock
while it asks for the other; a writer that waits holds back later readers, as the
standard library's lock does. `OneDeadlock` describes the one way in which threads
can wait for each other for ever, and says there is no other.

`WeightExports` separates `has` from `put`, the puts of a batch from the update of
`num_clusters`, and the clusters of an export from its manifest.

### Checkpoints, WeightManifests, BlobFiles

One action per file operation; a process may end after any of them. `Checkpoints`:
a save puts its blob, reads the registry, replaces the file, scans the registries
and deletes what retention pushed out. `WeightManifests`: a training asks under
which origin to go on, exports clusters, replaces the manifest and deletes what the
old one named. Two processes share the directory without a lock. The history variables (`mixed`, `contested`,
`residue`, `taken`, `untold`, `lent`) record the overlaps under which a promise is not kept,
so that each property says what still holds. They are wider than the harm in two places: `taken`
has every cluster that a training deletes after it has run beside another one, whether or not the
other used it, and `untold` every path whose last write named no tag, which is how an `ArteryPulsar` writes. Two things are coarser than
the code: writing a temporary registry file and renaming it is one step, and so is the scan of all
registries.

`BlobFiles` has files and paths apart: a path names a file or none, a put creates,
truncates, writes piece by piece and renames, so that two puts of one blob meet in
one temporary file.

### TrainingLoop

`SODLAdamW` between its two stores: `learned` are the weights in the memory of the
process, `seen` and `durable` the moments as the optimizer-state store returns them
now and would return them after a restart, `saved` the last checkpoint. Weights and
moments are the sequence of gradients that went into them, so that a lost, repeated or
reordered update shows. `main.pc` is how far the call of the training thread
has come: with `options.batch` a step is `BeginStep, LoadStates, UpdateBlock...,
StoreStates`, without it `LoadState, UpdateBlock, StoreStates` per block; then
`PinStep, ScheduleFlush, UnpinStale`. `flushJob` is the future of the one worker
thread, which flushes what the cache holds when it comes to it (`WorkerFlushes`), and
whose failure surfaces in a later call (`FlushRaises`, `DrainFlush`, `LoadRaises`). A
checkpoint is `BeginCheckpoint, DrainFlush, FlushOrigin, SaveTraining`. `LoadCheckpoint` goes back
in the same process, `DieAndResume` is a crash at any point and a new process that
loads the checkpoint. The optimizer keeps its configuration through both.

The store here is `OptimizerState` as one caller and its worker see it, with the threshold at which a
store flushes by itself. Every flush (of a step, of the worker, of a checkpoint, of a store that
reached the threshold) may fail before it has marked anything, after it has marked some blocks
clean, after all of them but before the manifest is saved (the finding of `optimizer_disk`), or after that
(`FlushFails`). Later flushes skip a block that was marked clean and not saved (`Unsaved`), and the
cache may drop it (`DropUnsaved`), which is the one eviction that shows: any other block comes
back as it was. Three history variables say how far the moments can be off:
`torn` (the block lacks a gradient for good: a step raised between its update and its store,
the cache dropped it unsaved, or it was unsaved or dropped since when training went back to a checkpoint),
`ahead` (training went back to a checkpoint when the store had newer moments: the
checkpoint names blocks, it does not keep their contents), and `advanced`, from which these are
computed: what was stored and flushed since the checkpoint, which of its moments were `missing` on
disk when it was saved and still are, and which of those are `lost`.

### ArteryPulsar, VeinPrefetcher

`ArteryPulsar`: `pulser[p]` is what thread `p` is doing — asleep, about to take the dirty
clusters, holding those not exported yet, or about to replace the manifest by the
list it has made. The trainer's `flush` and `stop` run the same pulse in its own
thread. `stop` does not wait for the thread in the model: the code waits for ten seconds, less than the
thread may sleep, so each order of the two can occur. A cluster is stored and its
blob id noted in one step; the manifest path is always given; replacing the manifest
and deleting what the old one named is one step, as the binding keeps the interpreter lock through it. History
variables: `newest`, the last content marked; `crossed`, clusters two pulses held at once or put back over
a newer mark; `outdated` and `snatched`, a manifest written from an older list than
another pulse has made, and the blobs it deleted.

`VeinPrefetcher`: `requests` is the queue, the sentinel of `stop` among them, and `loader[w]`
what thread `w` is doing with which looked-up blob ids; `reader` is the trainer in
`get_cluster` or in a `stop` that waits for room. A thread looks at `_running` and then waits for
a request, in two steps, and a stop may come between. All ids of a request are
looked up in one step. `superseded` and `leftover` record the two ways in which the promise fails:
a blob id that changes while the cluster is cached or in flight, and a sentinel
left in the queue for the thread of the next start.

### BlobTransfer, Replicas

`BlobTransfer`: `copy[n]` is what node `n` would answer (nothing, the blob, damaged
bytes, an error). The native search asks in the code's order and verifies; the
Python fallback is a second step, between which nodes change, and does not verify.
`Replicas`: a repair counts fresh healthy records, picks targets, and copies blob by
blob while hosts lose copies and other operators repair. The question whether a
target has the blob and the put are one step.

### MetadataStores, Payloads, ShareProofs

`MetadataStores` gives the maps in memory and the SQLite tables the same calls;
each operation exists twice (`Mem...`, `Sql...`), from the two sources, and
`BackendsAgree` compares what they answer and what can be read. SQLite's `release_pin`,
a read and an update, is one step. `Payloads`: a blob's id is its content, a
ciphertext is sealed for an origin, and `GetPayload` decides by the look of the
root blob whether to reassemble, and verifies only a root that does not look like a manifest; blobs are damaged and lost.
`ReadsBack` excepts, without encryption, a root that looks like a manifest as it is stored now, if it was damaged or the payload sent looked like one:
any other damage has to be noticed. `ShareProofs`:
requests read the clock before they take the lock that adds an edge, and the clock
may be set back; digest and signature are taken to be injective.

### Chunking, Bpe, PolarQuant

The algorithms as operators and step functions over small alphabets. `Chunking` cuts two texts that
end alike side by side; `Bpe` merges the most frequent pair, whichever of several
the hash map yields; `PolarQuant` rounds, wraps and clamps in fixed point.

## 3. The runs

| Run | Question | Instance | States |
|---|---|---|---|
| `engine_gc` | do the counters, the registry and the lineage stay in step, and is nothing reclaimed that a published origin needs? | an upload (manifest and chunk) and an API origin with two representations over the same two blobs, a pin, two tombstone slots, failures of creating requests; collector with `MemIndex` scans and blob deletion against tombstones | 862 000 |
| `gc_careless` | what is left of the ledgers when clients tombstone twice at once or give a share back twice, and is garbage still reclaimed, with the collector at any moment? | an upload and an API origin over one blob, a share, two tombstone slots; fairness below | 688 000 |
| `gc_private` | and if the collector may run at any time? | content that no two origins share, unknown pins, half-created tombstones | 3 860 000 |
| `gc_sqlite` | the same with `SqliteStore` | fails: finding | |
| `gc_pin` | do pins protect bytes? | fails: finding | |
| `gc_race` | is a deleted blob at zero when it is deleted? | fails: finding | |
| `side_stores` | do the stores beside the engine keep their promises? | one instance of each, below | 579 000 |
| `learning` | and what a training runs on? | one instance of each, below | 684 000 |
| `blob_files` | is a put of a blob file atomic? | fails: finding | |
| `optimizer_store` | is the write-back store correct under crashes and read or delete errors? | one caller, two origins (two blocks and one), two contents, capacity 1 or 2, threshold 2 | 2 480 000 |
| `optimizer_threads` | do its mutexes suffice for two threads? | fails: finding | |
| `optimizer_disk` | does a failing save of the manifest lose anything? | fails: finding | |

**Why the bounds suffice.** The counters are sums over places (origin, position),
and every hazard listed concerns one blob held at two places, or one origin named
by two requests; two origins over two shared blobs, with one blob twice in one
origin, give each of these, and two tombstone slots give a double tombstone. Counters are
not capped: they are bounded by the requests of the instance, and each request
runs once. `gc_careless` makes do with one blob, named by both origins: what it asks is
how far one count, and the collector that reads it, can be led astray by releases that
are repeated or come at a bad moment, and liveness multiplies the cost of every state;
for any contents its three safety properties are theorems. A derivation is a share
that is never given back, and no run has one besides; the theorems do. In `OptimizerState`, sharing of a blob needs two blocks of one origin
and one of another, supersession needs two contents, eviction needs fewer places
(1 or 2) than blocks (3), and threshold 2 lets a block be dirty between calls.
Blocks of one origin and contents are symmetric and reduced by `SYMMETRY`; only
safety is checked there.

**`side_stores` and `learning`** check sums, not products: the components beside the
engine share no state, so a behaviour runs one of them (`running`, `learning`), chosen at the
start, and the others rest. There are two modules because a state carries the variables of
the resting components along. The bounds are in `MCSideStores.cfg` and `MCLearning.cfg`. Two threads or
processes everywhere (three in `WeightModels`, whose deadlock takes a reader, a
registration and a waiting writer); two clusters against a cache of one; two runs
and two snapshots with retention of two, so that a blob is shared and pushed out;
four saves, three trainings, four files, which let a third call meet what two
overlapping ones left; a training over two blocks of two steps with a flush every
second one, a threshold of two and two returns to a checkpoint, so that a block is stored, flushed by each of the
three ways, left behind by a crash or a raise, marked clean by a flush that fails, dropped then or found missing
after a restart, and gone back on a second time (the theorems have no such bound); two clusters of two contents, three
marks and two threads for the pulsar, so that a pulse fails under a newer mark and
two pulses overlap; a queue of two and two requests or changes of ids for the
prefetcher, which fill the queue before a stop; two hosts, both wanted, one loss and one day, enough for a record to
age; one damage or loss of a blob; a clock of two readings set back once. Texts: up
to seven bytes for `Bpe`, tails of six behind heads of up to two for `Chunking`
with `MinSize`, `AvgSize`, `MaxSize` of 1, 4, 5, so that both hash cuts and forced cuts occur;
vectors of dimension three at the norms and angles around every rounding and
clamping edge. `SYMMETRY` permutes threads, contents and names; the action properties it
is used with are invariant under these permutations, and no liveness is checked there.

In `optimizer_store` file operations may fail where a manifest or blob is read,
the manifests are scanned or a blob is deleted; failures of `save_manifest` are
the subject of `optimizer_disk`.

`PinRecovers`, `ExactFirst` and `MergesShorten` are stated beside their components and
proved (section 4); no run lists them, for their neighbours in `side_stores` and `learning`
already explore the same instances.

Deadlock is not checked in the engine's runs: each request runs once, so the
instance ends. It is not checked in `side_stores` and `learning` either, where a component that has used
up its calls stops; that threads do not block each other in `WeightModels` is its `OneDeadlock`. The
optimizer store can always crash or begin a call, so that TLC's deadlock check says nothing of its locks:
that is `OneDeadlock` of `OptimizerState`, which is proved for any number of threads
(`OnlyOneDeadlock`, section 4) and which no run repeats.

**Fairness.** Only `GarbageReclaimed` needs it. Creating requests run to their end
(`WF` on the steps of each: a server thread executes them, and nothing in them
waits for anything), and the collector is run again and again (`WF` on its
steps: the operator's schedule; the repository starts it by hand). No fairness is
assumed of tombstones, pins or releases: a request that is cut short does not keep
garbage from being collected.

**Faults.** A definition that ends in `_Fault` is the definition after it as a
plausible bug would have it: a missing guard, a skipped decrement, a forgotten
flag. `PROJECT.json` ("mutants") pairs each with the property that rejects it.

## 4. What is proved

TLAPS checks every theorem below for all values of the constants that satisfy the
assumptions of the modules; none rests on a bound of the instances. The assumptions say little: `ContentAssumption`
(an upload is one representation whose first blob is its root),
`NameAssumption`, `TagAssumption`, `CacheAssumption` and their like (names of different
kinds differ, marks such as `None` are no data), `StoreAssumption` (a batch is a finite set
of blocks of one origin, a threshold is positive), `ReplicaAssumption` (finitely many
hosts), `TransferAssumption` (this node is none of the others), `ExportAssumption` (a call may bring one cluster), `ChunkAssumption` (`MinSize < AvgSize < MaxSize`), `BpeAssumption` (word boundaries are bytes), and that limits and bounds are
numbers. `theorems` of `PROJECT.json` states each theorem in a sentence; here is what
it rests on.

**Client disciplines.** Some theorems of the engine have a condition on `Permits`, which says what
clients may do; nothing in the code enforces it, and TLC refutes the properties without it.
`Whole`: tombstones are requested only of acknowledged origins. `Careful`: moreover, not
twice at once. `Disciplined`: moreover, a share or pin is given back once. `NoRace`:
neither collector nor blob deletion runs beside creating requests. `Maintained`: `NoRace`
and `Careful`. For the optimizer-state store `Serial` says that calls do not overlap, as the
Python binding has it, and `Cleans` and `Records` that the steps of a flush they name do not fail
(the code leaves blocks dirty, or clean and unrecorded, where they do).

### Engine (`SodlServiceProofs`, `SodlGcProofs`)

* `TypeCorrect`: `TypeOK` bounds progress (a request counts and releases no more than
  its content has), so it needs a strengthening: `CreateInv` ties each phase of a
  creating request to how far it has counted, for uploads and API origins
  separately, and `DecsInv` does so for tombstones.
* `TombstonesStay` (`Whole`): `NoResurrection`. `TombInv`: a tombstone request names a finished origin, leaves it
  tombstoned, and, where overlapping requests are excluded, is alone on it while it releases.
* `BlobLedgerHolds` (`Careful`): each blob's count is the number of places that hold
  it. The saturating decrement is what makes this delicate: it is exact only if a count is positive whenever it is released,
  which follows from the place being held until the very step that releases it.
  The step lemma splits the steps into those that add a place (`LedgerGains`), remove
  one (`LedgerLoses`) and leave the places alone (`LedgerFrame`).
* `OriginLedgerHolds` (`Disciplined`): the same for origins, whose count covers
  representations and references alike. `OriginInv` adds that only finitely many references have been made.
* `ShortByRepeatsHolds`, with no condition on clients: a blob's count is at least
  the increments it got less the releases, the repeated ones of overlapping tombstones among them; a count stopped at
  zero loses nothing that comes later. `NeverOvercountedHolds` (`Whole`): nor does a
  count exceed what holds the object, so that a careless client can lose bytes but never keeps garbage.
  `HoldersGain` and `HoldersLose` follow the places of both ledgers through a step.
* `LineageAccountsHolds` (`Disciplined`): edges and counters agree. `EdgeInv` says which edges a
  creating request and a reference have written, `EmptiedInv` that a tombstoned origin was
  released representation by representation.
* `DeletesOnlyAtZero` (`NoRace`): `PlanInv` says that what is planned has no
  references until the plan is executed. The condition is the whole point: run `gc_race` refutes the property without it.
* `RetentionImplemented` (`Maintained`): `GcSpec` implements `Retention` under the
  mapping of `SodlGc` (`ImplementsRetention`). `StoreInv` relates what a creating request has stored or found, and what
  an acknowledged origin needs, to the bytes that are there; that the collector takes none of
  them uses `BlobLedgerHolds` and `PlanInv`. Its corollary `AcknowledgedReadable`
  carries `Readable` of `Retention` back to the engine.
* `ListedAreKnown` (clients name only origins they were told of): `KnownInv`, every
  origin named anywhere has its policy, and its record if it is an upload's.

### Optimizer-state store (`OptimizerStateProofs`)

* `StoreTypeCorrect`, also with overlapping calls: `PlaceInv`, a call is only at steps its
  method has, and what a store brings along are contents.
* `ManifestsStayReadable` (`Serial`): `ReadInv` says that at most one call is under
  way (`AloneInv`: this is where `Serial` enters, and what `optimizer_threads` refutes without it), that what a flush is about to
  save is in the blob store already, and that what it is about to delete is named by no
  manifest. No assumption is made on which file operations fail.
* `PinFlagsHold` (`Serial`): `PinInv`, a call that is about to enter blocks has the pin
  set as it is.
* `DirtyStaysBounded` (`Cleans`, overlapping calls included): `DirtyInv`, an origin with too many dirty blocks has a
  call that is about to flush it and holds all of them.
* `OnlyOneDeadlock`: `LockInv` says which lock a call holds at each of its steps; then a
  call that holds the cache lock can wait for nothing but the pin set, and one that holds the pin set for
  nothing but the cache. So only `cache_stats` meeting a call that pins, unpins, evicts or stores can stop both.
* `SupersededBlobsGo` (`Serial`): `BlobInv`, a blob is named by a manifest, in the hands of
  the flush that writes or will delete it, or was left behind by a crash or an error.
* `WriteBackImplemented` (`Records`): refinement of `WriteBack`. The mapping takes for asked (`Asked`) what a
  store call brings until it has put it in the cache: entering it there, for all blocks of a batch at once, is the
  `Store` of the abstract specification, and every step of any other call, a store's own later steps among them, must leave what a
  reader sees alone. `CleanInv` says that a clean cached block agrees with its manifest but for the flush about to record it, and that
  a load enters what the manifest still records: without it an eviction, or the insertion of a load, would show.

### Weight store (`WeightProofs`)

* `CriticalPinsStay`: `maybe_evict` chooses victims in one lock section and drops
  them in another, so `WeightInv` relates the two: a cluster with a critical pin (`Guarded`, from the insertion on, before the pin has returned)
  that is not `exposed` is cached under a critical reason, and no call under way has
  decided against it (`Shielded`).
* `CachedStaysStored`: `SoundInv`, what is cached, or held by a call that will cache
  it, is stored or in `strays`; between the two steps of a deletion that no such call has met, the
  cluster is not cached and nothing under way will cache it.
* `PinsRecover`, an action property: `RoomInv` says that the order of use is strict and what a call that
  has been alone since it began knows at each section: how much room is missing, all the candidates, their counts.
  Hence nothing evictable is left, or as many victims are dropped as room is missing
  (`RestIsFewer`): the coldest candidate that stays has at least that many colder ones, none of which stays.
* `OnlyOneDeadlock`, from how the two locks are asked for; `CountsStay`: `RegistryInv`, a call about to
  insert a model that is there is one of two that overlapped.
* `ManifestsStayWhole` and `LineagesApart`: `KeptInv` and `LineageInv` extend what is said of manifests to
  what the trainings under way have read and are about to write.
* `ExportsStayAccounted`: `ExportInv` counts clusters that are stored and not yet
  counted call by call (`Pending`), so that the sum over concurrent exports is a cardinality.

### Files, transfer, proofs, metadata, replicas (`StoreSideProofs`)

* `PutsLeaveWhole`: `FileInv` says that, as long as no put has opened the temporary file under another
  one, at most one put owns it, and it holds exactly what that put has written.
* `CopyStaysSound`: the invariant is inductive as it stands.
* `SharesVerify`: `ProofInv` says of every share recorded or about to be (`Firm`): unless an early edge was under way or the clock was set
  back past it, its digest is that of the edges before its anchor, the clock has
  reached the anchor, and no edge under way is stamped before it.
* `BackendsStayAlike`: `MirrorInv` relates the two sets of tables one by one — rows of
  zero against missing rows, edges up to those of ids used for two owners — so that
  any call answers alike and keeps the relation. `ExactStaysFirst` follows from the
  equality of the fingerprint tables it contains.
* `RepairsSatisfy`, an action property: `RepairInv` says that fresh hosts and those still to be
  copied to make up what was asked for, that what a repair knows to be healthy is, and
  that a healthy record has a copy or was bereft of it.

### Content (`ContentProofs`)

* `DivisionsResynchronise`: `DivisionInv`, the cuts increase, and each is where the
  chunker cuts the bytes that follow the one before it; both texts are the same from a common cut
  on, so the next cut of one is where the other is cut or will be.
* `PayloadsReadBack`, with the exception of `ReadsBack` (section 2) and no other: `PayloadInv` says of each blob that its content is its id or was
  harmed, and that whatever is sealed for an origin in it stems from that origin's payload; a root names blobs
  that were stored for it. The lemmas say what sealing, joining and splitting of
  sequences preserve.
* `ListedStayRestorable`: `RestoreInv`, what a call is about to list is stored, and what it
  is about to delete no registry names, unless calls overlapped.
* `RegistriesKept`: `NewestInv` says what a registry tracks of the saves made (`Tracks`) and
  that what a call is about to write is its change of what is still there; `OrphanInv` accounts for every stored blob: it
  is named, in some call's hands (`Owed`), or `residue`.
* `QuantizationRoundTrips`: `QuantInv`, the bytes are those written or a beginning of them. What is
  left is arithmetic with products of constants: rounding moves by half a step (`Rounded`),
  and the least difference around the turn is within the error of a representative (`NearEnough`).
* `TokensSpell`: `BpeInv`, the tokens of a word spell it, each rule joins two older tokens, and
  no neighbours are a pair that has a rule. What a round does to a word is proved from its
  end (`FromTheEnd`, an induction over the set of good places): same spelling
  (`MergeSpells`), and old tokens that meet in it met before and are not the merged pair
  (`MergeSeparates`), which is why no pair is merged twice.
* `MergesShortenCorpus`, an action property: a word gets shorter by half of the places counted in it, or
  more (`MergeShortens`: a merge uses up at most two of them, its own and the next), and the sums over
  the words compare as their terms do (`SumsCompare`).

### Training (`TrainingProofs`)

* `MomentsStayWithWeights`: `MomentInv` says what a block's
  loaded moments, stored moments and weights have in common at each place of a step
  (a `Ready` block has been loaded and not yet updated, a fresh one updated and not yet stored), and
  `CheckpointInv` what the store has in common with the checkpoint: a block not stored
  since has the checkpoint's moments, and one neither flushed since nor `missing` has them on disk. That a
  checkpoint can be saved without breaking this takes that nothing is dirty between its
  flush and its save: then a block that is not on disk as it is in the cache is `Unsaved`. `CoverInv` says the same of
  inclusion and of the order of steps, for blocks that training has gone back on too; what is on disk never has a gradient
  that the cache lacks, so that dropping a block takes gradients away and adds none.
* `PinsBounded`: `OnlyWindowPinned`, which no run lists. `PinInv` says that a step about to unpin stale blocks has the
  window it opened itself; that a window is no larger than `PinLimit` is a pigeonhole argument (`TargetBounded`).
* `PulsesLoseNothing`: `PulseInv` says for each cluster that is not `crossed` where its newest content is
  (`Accounted`): in the map of dirty clusters, else with the single pulse that holds it,
  else under its blob id. That a pulse never overwrites what it holds takes
  `EmptyHanded`: a thread holds clusters only while it exports.
* `PrefetcherSound`: `CurrentInv` extends
  the promise from the cache to what the threads and the trainer have looked up, and
  `ServedInv` says that no sentinel is in the queue while the prefetcher runs, as nobody
  can put one then, unless the start found it there.

### Shapes (`SideProofs`)

* `SideTypesHold` and `LearnTypesHold`: `SideTypeOK` and `LearnTypeOK`, the shape of the state of whichever
  component a behaviour runs. `SideInv` and `LearnInv` have a part for each component, proved in the module of its
  other proofs, because most shapes are not inductive by themselves: `LastAccessOrder` (whatever sections of two calls
  interleave, the recency of cached clusters is a total order), `CountsBounded` (the clusters of a model and the
  increments under way for it together keep the bound), `ManifestFileTypes` (an origin in a file is that of a training that has begun),
  `ChunkTypes` (a chunk is as long as `ChunkLength` of the text behind the last cut, which is positive and at
  most the limit), `BpeTypes` (a counted word occurs), `BoundInv` of the loop (the step trained next is never
  ahead of the steps begun, and a block is updated only in a step that has begun), `PulseTypes` and
  `PrefetchTypes` (what is named, snatched or queued), and for the files, transfer, proofs, metadata and
  replicas the invariants above with the types of what calls carry.

### Only model-checked

* `GarbageReclaimed`: liveness, under fairness and `ENABLED`, is out of TLAPS's reach.

## 5. Findings

Six disagreements between the code and what a document, a comment or a test says, each shown by a
run of its own and described in `PROJECT.json`: SQLite scans hide the garbage from the
collector; pins do not protect bytes; the executor deletes without reading the count
again; flushes of two threads delete a blob that a manifest names; a failing save of a
manifest leaves blocks marked clean; two puts of one blob share its temporary file.

Noted while reading, without a run, because they are a comparison of two lines: the
mask of FastCDC (`fastcdc.rs:83`) is not the one its comment describes, and "all other chunks remain
identical" (`fastcdc.rs:7`) does not hold after a forced cut, which `Resynchronises`
makes precise; "Readers must check version" (`sodl-chunk/src/manifest.rs:27`) while
`try_parse_manifest` and `reassemble` check neither the version nor `validate`;
`PolarQuant` documents angles over 16 (`:53`) where the code divides by 4 (`:98`), and
promises a norm error of at most 4.4 % (`:28`), where half a step of the scale is 9 %;
guides/STEP_13 says that the executor can satisfy `min_replicas`, but it skips hosts
whose healthy record is stale, which `RepairSatisfies` takes into account. No document
says anything of three behaviours of the training threads: `stop` of `VeinPrefetcher`
waits for ever when requests fill the queue and its thread has ended; a start may find
the sentinel of the last stop, and its thread ends on it while `_running` says it runs; an
`ArteryPulsar` whose manifest cannot be written loses its thread in the same way.

## 6. What is not modelled

* Floating point: embeddings, colours, routing scores, softmax, update rules,
  gradient statistics. The semantic layer is nothing else.
* Codecs and ciphers, key files and key derivation; JSON and HTTP shapes; SQL text;
  configuration and server start-up; metrics and traces.
* What nothing reads or acts on: `DurabilityGate` is called by nothing (the question
  it answers is asked in `Replicas`), `GcPolicyConfig.grace_seconds`, tombstone
  records, `GradientRefCounter`, the access tracker and tiers of `sodl-policy`. The
  crates `sodl-fingerprint` and parts of `sodl-store` are traits without an implementation.
* Reads without a decision in them: lineage and diff of checkpoints, list accessors.
* Federation: its nodes are written to by `PUT /v1/blobs/{id}` (`federation.py:237`,
  `replication.py:190`), a route the repository's server does not have
  (`router.rs:40-42`), so the node's side of a push would be invented.
* Python: the catalogues of
  artifacts, models and datasets, and the pure-Python fallbacks of what the binding
  offers natively (among them the older flat file format of checkpoints and
  manifests), see the plan. Most other files wrap a store or the HTTP server.
* Read errors of `SqliteStore` when it asks for a count: `get_origin` and `get_blob`
  answer zero then (`unwrap_or(0)`, `sodl-persist/src/lib.rs:288` and `:321`), so that a planner could take what is in use for
  garbage. In the models a store answers what it has, or the request fails: `RetentionImplemented`
  and `BackendsAgree` say nothing of a database that cannot be read.
* Bytes that a replica repair copies from a damaged host without verifying them:
  `Replicas` has no damaged copies.

Coarser than the code, beside what section 2 names: in `SodlService` and
`OptimizerState` a put into the file store is one step; `blob_files` shows that
this stands for the code only while puts of one blob do not overlap. Hashes do not collide.
Origins are told apart by more than their ids' characters: in the code the prefix `origin::`
and the replacement of `:` and `/` in file names (`optimizer_state.rs:669`) let two ids share
cache entries or a manifest.

## 7. Plan

Done so far: the engine and its collector, the optimizer-state store, the weight
store, checkpoints and manifests, blob files, transfer and replicas, metadata
stores, payloads, share proofs, the training loop with its background threads, and the algorithms. Left, in this order:

1. The catalogues that delete or overwrite shared files, and the Python fallbacks
   where they differ from the native stores.
2. `OptimizerState` with the puts of `BlobFiles` in place of its one-step put.
