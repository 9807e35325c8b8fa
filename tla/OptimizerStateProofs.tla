------------------------ MODULE OptimizerStateProofs ------------------------
(***************************************************************************)
(* Proofs about OptimizerState, for any origins, blocks, contents,         *)
(* capacities and threshold, whichever file operations fail, and with a    *)
(* crash between any two steps.                                            *)
(***************************************************************************)
EXTENDS OptimizerState, FiniteSetTheorems, TLAPS

(***************************************************************************)
(* Types.  A call that has reached a step is one that has that step, and   *)
(* what a store call brings along are contents.                            *)
(***************************************************************************)
Stores == {"store_block", "store_blocks"}
Loads  == {"load_block", "load_blocks"}
PinReaders == Stores \cup Loads \cup {"pin_blocks", "unpin_blocks", "evict_blocks"}

Fit(c) ==
  /\ c.at = "pins" => c.op \in PinReaders
  /\ c.at = "stage" => c.op \in Stores
  /\ c.at \in {"lookup", "manifest", "read"} => c.op \in Loads
  /\ c.at \in {"pins", "stage"} /\ c.op \in Stores =>
       \A k \in c.keys : c.data[k] \in Payloads

PlaceInv == \A t \in Threads : Fit(call[t])

TypeInv == TypeOK /\ PlaceInv

Entry == [bytes : Payloads, dirty : BOOLEAN, pinned : BOOLEAN] \cup {Absent}
Origins == {OriginOf[k] : k \in Keys} \cup {None}
Call == [op : Ops, at : Places, origin : Origins, keys : SUBSET Keys,
         data : [Keys -> Payloads \cup {None}], old : SUBSET Payloads,
         pinned : SUBSET Keys]

StoreTyped ==
  /\ cache \in [Keys -> Entry]
  /\ pins \subseteq Keys
  /\ capacity \in Capacities
  /\ manifests \in [Keys -> Payloads \cup {None}]
  /\ files \subseteq Payloads
  /\ cacheLock \in Threads \cup {None}
  /\ pinLock \in Threads \cup {None}
  /\ orphans \subseteq Payloads

LEMMA Typing ==
  TypeInv <=> StoreTyped /\ call \in [Threads -> Call] /\ \A t \in Threads : Fit(call[t])
BY DEF TypeInv, TypeOK, PlaceInv, StoreTyped, Entry, Call, Origins

LEMMA NoCallTyped == NoCall \in Call /\ Fit(NoCall) /\ NoCall.at = "idle"
BY DEF NoCall, Call, Ops, Places, Origins, NoData, Fit

\* A step of thread t that leaves the call well typed.
CallStep(t) == \E c \in Call : Fit(c) /\ call' = [call EXCEPT ![t] = c]

\* What is left of a step once its effect on the store is known to be typed.
LEMMA CallStepTypes ==
  ASSUME NEW t \in Threads, TypeInv, CallStep(t), StoreTyped'
  PROVE  TypeInv'
<1>1. PICK c \in Call : Fit(c) /\ call' = [call EXCEPT ![t] = c]
  BY DEF CallStep
<1>2. call' \in [Threads -> Call]
  BY <1>1, Typing
<1>3. \A u \in Threads : Fit(call'[u])
  BY <1>1, Typing
<1>4. PlaceInv' /\ TypeOK'
  BY <1>2, <1>3 DEF PlaceInv, TypeOK, StoreTyped, Entry, Call, Origins, Fit
<1> QED
  BY <1>4 DEF TypeInv

LEMMA ReturnIsCallStep ==
  ASSUME NEW t \in Threads, Return(t)
  PROVE  CallStep(t)
BY NoCallTyped DEF Return, CallStep

\* Steps that Fit says nothing about.
FreePlaces == Places \ {"pins", "stage", "lookup", "manifest", "read"}

LEMMA GotoIsCallStep ==
  ASSUME NEW t \in Threads, TypeInv, NEW place \in FreePlaces, Goto(t, place)
  PROVE  CallStep(t)
<1> DEFINE c == [call[t] EXCEPT !.at = place]
<1>1. c \in Call /\ c.at = place
  BY Typing DEF Call, FreePlaces
<1>2. call' = [call EXCEPT ![t] = c]
  BY Typing DEF Goto
<1>3. Fit(c)
  BY <1>1 DEF Fit, FreePlaces
<1> QED
  BY <1>1, <1>2, <1>3 DEF CallStep

-----------------------------------------------------------------------------
(* One step of a call.                                                     *)

LEMMA BeginTypes ==
  ASSUME NEW t \in Threads, TypeInv, Begin(t), UNCHANGED orphans
  PROVE  TypeInv'
<1>1. ASSUME NEW op \in Ops, NEW place \in Places, NEW ks \in SUBSET Keys, ks # {},
             NEW data \in [Keys -> Payloads \cup {None}],
             Start(t, op, place, ks, data),
             place = "pins" => op \in PinReaders, place \notin {"stage", "manifest", "read"},
             place = "lookup" => op \in Loads,
             op \in Stores => \A k \in ks : data[k] \in Payloads
      PROVE  TypeInv'
  <2> DEFINE o == OriginOf[CHOOSE k \in ks : TRUE]
             c == [NoCall EXCEPT !.op = op, !.at = place, !.keys = ks,
                                 !.data = data, !.origin = o]
  <2>1. o \in Origins
    BY <1>1 DEF Origins
  <2>2. c \in Call /\ c.op = op /\ c.at = place /\ c.keys = ks /\ c.data = data
    BY <1>1, <2>1, NoCallTyped DEF Call, NoCall
  <2>3. call' = [call EXCEPT ![t] = c] /\ UNCHANGED <<memory, disk, locks>>
    BY <1>1 DEF Start
  <2> HIDE DEF c
  <2>4. Fit(c)
    BY <1>1, <2>2 DEF Fit
  <2>5. StoreTyped'
    BY <2>3, Typing DEF StoreTyped, memory, disk, locks
  <2> QED
    BY <2>2, <2>3, <2>4, <2>5, CallStepTypes DEF CallStep
<1>2. NoData \in [Keys -> Payloads \cup {None}]
  BY DEF NoData
<1>3. ASSUME NEW k \in Keys, NEW v \in Payloads,
             Start(t, "store_block", "pins", {k}, [NoData EXCEPT ![k] = v])
      PROVE  TypeInv'
  BY <1>1, <1>2, <1>3 DEF Ops, Places, PinReaders, Stores, NoData
<1>4. ASSUME NEW k \in Keys, Start(t, "load_block", "lookup", {k}, NoData)
      PROVE  TypeInv'
  BY <1>1, <1>2, <1>4 DEF Ops, Places, Stores, Loads
<1>5. ASSUME NEW ks \in Batches, NEW w \in [ks -> Payloads],
             Start(t, "store_blocks", "pins", ks,
                   [k \in Keys |-> IF k \in ks THEN w[k] ELSE None])
      PROVE  TypeInv'
  <2>1. ks \in SUBSET Keys /\ ks # {}
    BY StoreAssumption
  <2> DEFINE data == [k \in Keys |-> IF k \in ks THEN w[k] ELSE None]
  <2>2. data \in [Keys -> Payloads \cup {None}] /\ \A k \in ks : data[k] \in Payloads
    BY <2>1
  <2> HIDE DEF data
  <2> QED
    BY <1>1, <2>1, <2>2, <1>5 DEF Ops, Places, PinReaders, Stores, data
<1>6. ASSUME NEW ks \in Batches, NEW op \in Ops \ Stores,
             NEW place \in Places \ {"stage", "manifest", "read"},
             place = "pins" => op \in PinReaders, place = "lookup" => op \in Loads,
             Start(t, op, place, ks, NoData)
      PROVE  TypeInv'
  BY <1>1, <1>2, <1>6, StoreAssumption
<1> QED
  BY <1>3, <1>4, <1>5, <1>6 DEF Begin, Ops, Places, PinReaders, Stores, Loads

LEMMA ReadPinsTypes ==
  ASSUME NEW t \in Threads, TypeInv, ReadPins(t), UNCHANGED orphans
  PROVE  TypeInv'
<1> DEFINE c == [call[t] EXCEPT !.at = AfterPins(t), !.pinned = pins]
<1>1. call[t] \in Call /\ Fit(call[t]) /\ call[t].at = "pins"
  BY Typing DEF ReadPins, At
<1>2. AfterPins(t) \in Places /\ AfterPins(t) \notin {"pins", "lookup", "manifest"}
  BY <1>1 DEF AfterPins, PinReaders, Stores, Loads, Places, Fit
<1>3. /\ AfterPins(t) = "stage" => call[t].op \in Stores
      /\ AfterPins(t) = "read" => call[t].op \in Loads
  BY <1>1 DEF AfterPins, PinReaders, Stores, Loads, Fit
<1>4. /\ c \in Call /\ c.at = AfterPins(t) /\ c.op = call[t].op
      /\ c.keys = call[t].keys /\ c.data = call[t].data
  BY <1>1, <1>2, Typing DEF Call, StoreTyped
<1>5. call' = [call EXCEPT ![t] = c]
  BY Typing DEF ReadPins
<1>6. StoreTyped'
  BY Typing DEF ReadPins, StoreTyped, memory, disk
<1> HIDE DEF c
<1>7. Fit(c)
  BY <1>1, <1>2, <1>3, <1>4 DEF Fit
<1> QED
  BY <1>4, <1>5, <1>6, <1>7, CallStepTypes DEF CallStep

LEMMA StageTypes ==
  ASSUME NEW t \in Threads, TypeInv, Stage(t) \/ CountDirty(t), UNCHANGED orphans
  PROVE  TypeInv'
<1>1. StoreTyped'
  <2>1. CASE Stage(t)
    <3>1. \A k \in call[t].keys : call[t].data[k] \in Payloads
      BY <2>1, Typing DEF Stage, At, Fit
    <3>2. Staged(t) \in [Keys -> Entry]
      BY <3>1, Typing DEF Staged, StoreTyped, Entry, Block, Call
    <3> QED
      BY <2>1, <3>2, Typing DEF Stage, StoreTyped, disk
  <2>2. CASE CountDirty(t)
    BY <2>2, Typing DEF CountDirty, StoreTyped, memory, disk, locks
  <2> QED
    BY <2>1, <2>2
<1>2. Goto(t, "count") \/ Goto(t, "collect") \/ Return(t)
  BY DEF Stage, CountDirty
<1>3. CallStep(t)
  BY <1>2, GotoIsCallStep, ReturnIsCallStep DEF Places, FreePlaces
<1> QED
  BY <1>1, <1>3, CallStepTypes

LEMMA LoadTypes ==
  ASSUME NEW t \in Threads, TypeInv, UNCHANGED orphans,
         Lookup(t) \/ LoadManifest(t) \/ LoadedAll(t) \/ \E k \in Keys : LoadBlob(t, k)
  PROVE  TypeInv'
<1> DEFINE o == call[t]
<1>1. StoreTyped'
  BY Typing DEF Lookup, LoadManifest, LoadedAll, LoadBlob, StoreTyped, memory, disk, locks
<1>2. o \in Call /\ Fit(o) /\ o.at \in {"lookup", "manifest", "read"} /\ o.op \in Loads
  BY Typing DEF Lookup, LoadManifest, LoadedAll, LoadBlob, At, Fit
<1>3. \A c \in Call : /\ c.op = o.op /\ c.at \notin {"stage"}
                      /\ call' = [call EXCEPT ![t] = c]
                      => CallStep(t)
  BY <1>2 DEF Fit, CallStep, Loads, Stores, PinReaders
<1>4. ASSUME Lookup(t)
      PROVE  CallStep(t)
  <2> DEFINE c == [o EXCEPT !.at = "manifest", !.keys = @ \ Cached]
  <2>1. c \in Call /\ c.op = o.op /\ c.at = "manifest"
    BY <1>2 DEF Call, Places
  <2>2. Return(t) \/ call' = [call EXCEPT ![t] = c]
    BY <1>4, Typing DEF Lookup
  <2> QED
    BY <1>3, <2>1, <2>2, ReturnIsCallStep
<1>5. ASSUME LoadManifest(t)
      PROVE  CallStep(t)
  <2> DEFINE found == {k \in o.keys : manifests[k] # None}
             place == IF o.op = "load_block" THEN "read" ELSE "pins"
             data == [k \in Keys |-> IF k \in found THEN manifests[k] ELSE None]
             c == [o EXCEPT !.at = place, !.keys = found, !.data = data]
  <2>1. found \in SUBSET Keys /\ data \in [Keys -> Payloads \cup {None}]
    BY <1>2, Typing DEF Call, StoreTyped
  <2>2. c \in Call /\ c.op = o.op /\ c.at # "stage"
    BY <1>2, <2>1 DEF Call, Places
  <2>3. Return(t) \/ call' = [call EXCEPT ![t] = c]
    BY <1>5, Typing DEF LoadManifest
  <2> HIDE DEF c
  <2> QED
    BY <1>3, <2>2, <2>3, ReturnIsCallStep
<1>6. ASSUME LoadedAll(t)
      PROVE  CallStep(t)
  <2>1. ASSUME NEW place \in {"pins", "insert"}, Goto(t, place)
        PROVE  CallStep(t)
    <3> DEFINE c == [o EXCEPT !.at = place]
    <3>1. c \in Call /\ c.op = o.op /\ c.at = place
      BY <1>2 DEF Call, Places
    <3>2. call' = [call EXCEPT ![t] = c]
      BY <2>1, Typing DEF Goto
    <3> QED
      BY <1>3, <3>1, <3>2
  <2>2. Goto(t, "pins") \/ Goto(t, "insert") \/ Return(t)
    BY <1>6 DEF LoadedAll
  <2> QED
    BY <2>1, <2>2, ReturnIsCallStep
<1>7. ASSUME NEW k \in Keys, LoadBlob(t, k)
      PROVE  CallStep(t)
  <2> DEFINE c == [o EXCEPT !.keys = @ \ {k}]
  <2>1. c \in Call /\ c.op = o.op /\ c.at = o.at
    BY <1>2 DEF Call
  <2>2. Return(t) \/ call' = [call EXCEPT ![t] = c]
    BY <1>7, Typing DEF LoadBlob
  <2> QED
    BY <1>2, <1>3, <2>1, <2>2, ReturnIsCallStep
<1> QED
  BY <1>1, <1>4, <1>5, <1>6, <1>7, CallStepTypes

LEMMA FreeStep ==
  ASSUME NEW t \in Threads, NEW c \in Call, c.at \in FreePlaces,
         call' = [call EXCEPT ![t] = c]
  PROVE  CallStep(t)
BY DEF FreePlaces, Fit, CallStep

LEMMA UnpinnedAbsent == [Absent EXCEPT !.pinned = FALSE] = Absent
<1>1. ASSUME NEW r \in [bytes : {None}, dirty : {FALSE}, pinned : {FALSE}]
      PROVE  r = Absent
  BY DEF Absent
<1>2. [Absent EXCEPT !.pinned = FALSE] \in [bytes : {None}, dirty : {FALSE}, pinned : {FALSE}]
  BY DEF Absent
<1> QED
  BY <1>1, <1>2

LEMMA CacheTypes ==
  ASSUME NEW t \in Threads, TypeInv, UNCHANGED orphans,
         \/ Insert(t) \/ Evict(t) \/ EnforcePins(t) \/ Trim(t)
         \/ \E k \in Keys : PinBlock(t, k) \/ UnpinBlock(t, k)
  PROVE  TypeInv'
<1> DEFINE o == call[t]
<1>1. o \in Call
  BY Typing
<1>2. ASSUME NEW k \in Keys, PinBlock(t, k) \/ UnpinBlock(t, k)
      PROVE  TypeInv'
  <2> DEFINE c == [o EXCEPT !.keys = @ \ {k}]
  <2>1. c \in Call /\ c.at \in FreePlaces
    BY <1>1, <1>2 DEF Call, PinBlock, UnpinBlock, At, FreePlaces, Places
  <2>2. Return(t) \/ Goto(t, "enforce") \/ call' = [call EXCEPT ![t] = c]
    BY <1>2, Typing DEF PinBlock, UnpinBlock
  <2>3. CallStep(t)
    BY <2>1, <2>2, FreeStep, GotoIsCallStep, ReturnIsCallStep DEF FreePlaces, Places
  <2>4. cache' \in [Keys -> Entry]
    <3>1. [cache EXCEPT ![k].pinned = FALSE] \in [Keys -> Entry]
      <4>1. [Absent EXCEPT !.pinned = FALSE] = Absent
        BY UnpinnedAbsent
      <4>2. [cache[k] EXCEPT !.pinned = FALSE] \in Entry
        BY <4>1, Typing DEF StoreTyped, Entry
      <4> QED
        BY <4>2, Typing DEF StoreTyped
    <3>2. ASSUME k \in Cached
          PROVE  [cache EXCEPT ![k].pinned = TRUE] \in [Keys -> Entry]
      <4>1. cache[k] \in [bytes : Payloads, dirty : BOOLEAN, pinned : BOOLEAN]
        BY <3>2, Typing DEF StoreTyped, Entry, Cached
      <4>2. [cache[k] EXCEPT !.pinned = TRUE] \in Entry
        BY <4>1 DEF Entry
      <4> QED
        BY <4>2, Typing DEF StoreTyped
    <3>3. (k \in Cached) \in BOOLEAN
      OBVIOUS
    <3>4. \/ cache' = [cache EXCEPT ![k].pinned = FALSE]
          \/ k \in Cached /\ cache' = [cache EXCEPT ![k].pinned = TRUE]
      BY <1>2, <3>3 DEF PinBlock, UnpinBlock
    <3> QED
      BY <3>1, <3>2, <3>4
  <2>5. StoreTyped'
    BY <1>2, <2>4, Typing DEF PinBlock, UnpinBlock, StoreTyped, disk
  <2> QED
    BY <2>3, <2>5, CallStepTypes
<1>3. ASSUME EnforcePins(t)
      PROVE  TypeInv'
  <2> DEFINE c == [o EXCEPT !.at = "trim", !.pinned = pins]
  <2>1. c \in Call /\ c.at \in FreePlaces
    BY <1>1, Typing DEF Call, StoreTyped, FreePlaces, Places
  <2>2. call' = [call EXCEPT ![t] = c]
    BY <1>3, Typing DEF EnforcePins
  <2>3. StoreTyped'
    BY <1>3, Typing DEF EnforcePins, StoreTyped, memory, disk, locks
  <2> QED
    BY <2>1, <2>2, <2>3, FreeStep, CallStepTypes
<1>4. \A ks : Without(ks) \in [Keys -> Entry]
  BY Typing DEF Without, StoreTyped, Entry
<1>5. ASSUME Evict(t) \/ Trim(t)
      PROVE  TypeInv'
  <2>1. StoreTyped'
    BY <1>4, <1>5, Typing DEF Evict, Trim, StoreTyped, disk, locks
  <2>2. Return(t)
    BY <1>5 DEF Evict, Trim
  <2> QED
    BY <2>1, <2>2, ReturnIsCallStep, CallStepTypes
<1>6. ASSUME Insert(t)
      PROVE  TypeInv'
  <2>1. cache' \in [Keys -> Entry]
    BY <1>1, <1>6, Typing DEF Insert, StoreTyped, Entry, Block, Call
  <2>2. StoreTyped'
    BY <1>6, <2>1, Typing DEF Insert, StoreTyped, disk, locks
  <2>3. CallStep(t)
    BY <1>6, GotoIsCallStep DEF Insert, FreePlaces, Places
  <2> QED
    BY <2>2, <2>3, CallStepTypes
<1> QED
  BY <1>2, <1>3, <1>5, <1>6

LEMMA FlushTypes ==
  ASSUME NEW t \in Threads, TypeInv, UNCHANGED orphans,
         \/ Collect(t) \/ FlushBase(t) \/ FlushLock(t) \/ SaveManifest(t)
         \/ ScanReferenced(t) \/ (\E k \in Keys : FlushBlock(t, k))
         \/ (\E b \in Payloads : DeleteBlob(t, b))
  PROVE  TypeInv'
<1> DEFINE o == call[t]
<1>1. o \in Call
  BY Typing
<1>2. ASSUME Collect(t)
      PROVE  TypeInv'
  <2> DEFINE c == [o EXCEPT !.at = "base", !.keys = Cached \cap BlocksOf(o.origin)]
  <2>1. Cached \cap BlocksOf(o.origin) \in SUBSET Keys
    BY DEF Cached
  <2>2. c \in Call /\ c.at \in FreePlaces
    BY <1>1, <2>1 DEF Call, FreePlaces, Places
  <2>3. call' = [call EXCEPT ![t] = c] /\ StoreTyped'
    BY <1>2, Typing DEF Collect, StoreTyped, memory, disk, locks
  <2> QED
    BY <2>2, <2>3, FreeStep, CallStepTypes
<1>3. ASSUME FlushBase(t)
      PROVE  TypeInv'
  <2> DEFINE data == [k \in Keys |-> IF k \in BlocksOf(o.origin) THEN manifests[k] ELSE None]
             c == [o EXCEPT !.at = "lock", !.old = {}, !.data = data]
  <2>1. data \in [Keys -> Payloads \cup {None}]
    BY Typing DEF StoreTyped
  <2> HIDE DEF data
  <2>2. c \in Call /\ c.at \in FreePlaces
    BY <1>1, <2>1 DEF Call, FreePlaces, Places
  <2>3. Return(t) \/ call' = [call EXCEPT ![t] = c]
    BY <1>3, Typing DEF FlushBase, data
  <2>4. StoreTyped'
    BY <1>3, Typing DEF FlushBase, StoreTyped, memory, disk, locks
  <2> QED
    BY <2>2, <2>3, <2>4, ReturnIsCallStep, FreeStep, CallStepTypes
<1>4. ASSUME FlushLock(t) \/ SaveManifest(t)
      PROVE  TypeInv'
  <2>1. StoreTyped'
    BY <1>1, <1>4, Typing DEF FlushLock, SaveManifest, StoreTyped, memory, disk, locks, Call
  <2>2. Goto(t, "write") \/ Goto(t, "enforce") \/ Goto(t, "scan")
    BY <1>4 DEF FlushLock, SaveManifest
  <2> QED
    BY <2>1, <2>2, GotoIsCallStep, CallStepTypes DEF FreePlaces, Places
<1>5. ASSUME ScanReferenced(t)
      PROVE  TypeInv'
  <2> DEFINE place == IF o.old \subseteq Referenced THEN "enforce" ELSE "delete"
             c == [o EXCEPT !.old = @ \ Referenced, !.at = place]
  <2>1. c \in Call /\ c.at \in FreePlaces
    BY <1>1 DEF Call, FreePlaces, Places
  <2>2. call' = [call EXCEPT ![t] = c] /\ StoreTyped'
    BY <1>5, Typing DEF ScanReferenced, StoreTyped, memory, disk, locks
  <2> HIDE DEF c
  <2> QED
    BY <2>1, <2>2, FreeStep, CallStepTypes
<1>6. ASSUME NEW b \in Payloads, DeleteBlob(t, b)
      PROVE  TypeInv'
  <2> DEFINE place == IF o.old = {b} THEN "enforce" ELSE "delete"
             c == [o EXCEPT !.old = @ \ {b}, !.at = place]
  <2>1. c \in Call /\ c.at \in FreePlaces
    BY <1>1 DEF Call, FreePlaces, Places
  <2>2. call' = [call EXCEPT ![t] = c] /\ StoreTyped'
    BY <1>6, Typing DEF DeleteBlob, StoreTyped, memory, locks
  <2> HIDE DEF c
  <2> QED
    BY <2>1, <2>2, FreeStep, CallStepTypes
<1>7. ASSUME NEW k \in Keys, FlushBlock(t, k)
      PROVE  TypeInv'
  <2>1. ASSUME NEW data \in [Keys -> Payloads \cup {None}], NEW old \in SUBSET Payloads,
               NextBlock(t, k, data, old)
        PROVE  CallStep(t) /\ cacheLock' \in Threads \cup {None}
    <3> DEFINE place == IF o.keys = {k} THEN "save" ELSE "write"
               c == [o EXCEPT !.keys = @ \ {k}, !.data = data, !.old = old, !.at = place]
    <3>1. c \in Call /\ c.at \in FreePlaces
      BY <1>1 DEF Call, FreePlaces, Places
    <3>2. call' = [call EXCEPT ![t] = c]
      BY <2>1, Typing DEF NextBlock
    <3>3. cacheLock' \in Threads \cup {None}
      BY <2>1 DEF NextBlock
    <3> HIDE DEF c
    <3> QED
      BY <3>1, <3>2, <3>3, FreeStep
  <2>2. CASE cache[k].dirty
    <3> DEFINE blob == cache[k].bytes
               data == [o.data EXCEPT ![k] = blob]
               old == o.old \cup ({o.data[k]} \ {None, blob})
    <3>1. cache[k] \in [bytes : Payloads, dirty : BOOLEAN, pinned : BOOLEAN]
      BY <2>2, Typing DEF StoreTyped, Entry, Absent
    <3>2. data \in [Keys -> Payloads \cup {None}] /\ old \in SUBSET Payloads
      BY <1>1, <3>1 DEF Call
    <3>3. /\ cache' = [cache EXCEPT ![k].dirty = FALSE] /\ files' = files \cup {blob}
          /\ NextBlock(t, k, data, old)
          /\ UNCHANGED <<pins, capacity, manifests, pinLock>>
      BY <1>7, <2>2 DEF FlushBlock
    <3>4. [cache[k] EXCEPT !.dirty = FALSE] \in Entry
      BY <3>1 DEF Entry
    <3>5. cache' \in [Keys -> Entry] /\ files' \subseteq Payloads
      BY <3>1, <3>3, <3>4, Typing DEF StoreTyped
    <3> HIDE DEF data, old
    <3>6. CallStep(t) /\ cacheLock' \in Threads \cup {None}
      BY <2>1, <3>2, <3>3
    <3>7. StoreTyped'
      BY <3>3, <3>5, <3>6, Typing DEF StoreTyped
    <3> QED
      BY <3>6, <3>7, CallStepTypes
  <2>3. CASE ~cache[k].dirty
    <3>1. /\ NextBlock(t, k, o.data, o.old)
          /\ UNCHANGED <<cache, files, pins, capacity, manifests, pinLock>>
      BY <1>7, <2>3 DEF FlushBlock
    <3>2. o.data \in [Keys -> Payloads \cup {None}] /\ o.old \in SUBSET Payloads
      BY <1>1 DEF Call
    <3>3. CallStep(t) /\ cacheLock' \in Threads \cup {None}
      BY <2>1, <3>1, <3>2
    <3>4. StoreTyped'
      BY <3>1, <3>3, Typing DEF StoreTyped
    <3> QED
      BY <3>3, <3>4, CallStepTypes
  <2> QED
    BY <2>2, <2>3
<1> QED
  BY <1>2, <1>3, <1>4, <1>5, <1>6, <1>7

LEMMA OtherTypes ==
  ASSUME TypeInv
  PROVE  /\ \A t \in Threads : (Stats(t) \/ StatsPins(t)) /\ UNCHANGED orphans => TypeInv'
         /\ \A t \in Threads : DiskError(t) => TypeInv'
         /\ \A n \in Capacities : SetCapacity(n) => TypeInv'
         /\ Crash => TypeInv'
<1>1. ASSUME NEW t \in Threads, Stats(t) \/ StatsPins(t), UNCHANGED orphans
      PROVE  TypeInv'
  <2>1. StoreTyped'
    BY <1>1, Typing DEF Stats, StatsPins, StoreTyped, memory, disk
  <2>2. Goto(t, "stats_pins") \/ Return(t)
    BY <1>1 DEF Stats, StatsPins
  <2> QED
    BY <2>1, <2>2, GotoIsCallStep, ReturnIsCallStep, CallStepTypes DEF FreePlaces, Places
<1>2. ASSUME NEW t \in Threads, DiskError(t)
      PROVE  TypeInv'
  <2>1. StoreTyped'
    BY <1>2, Typing DEF DiskError, StoreTyped, memory, disk
  <2>2. Return(t)
    BY <1>2 DEF DiskError
  <2> QED
    BY <2>1, <2>2, ReturnIsCallStep, CallStepTypes
<1>3. ASSUME NEW n \in Capacities, SetCapacity(n)
      PROVE  TypeInv'
  BY <1>3 DEF SetCapacity, TypeInv, TypeOK, PlaceInv, Fit, disk, locks
<1>4. ASSUME Crash
      PROVE  TypeInv'
  <2>1. call' = [t \in Threads |-> NoCall]
    BY <1>4 DEF Crash
  <2>2. call' \in [Threads -> Call] /\ \A t \in Threads : Fit(call'[t])
    BY <2>1, NoCallTyped
  <2>3. StoreTyped'
    BY <1>4, Typing DEF Crash, StoreTyped, Entry, disk
  <2>4. TypeOK' /\ PlaceInv'
    BY <2>2, <2>3 DEF TypeOK, PlaceInv, StoreTyped, Entry, Call, Origins, Fit
  <2> QED
    BY <2>4 DEF TypeInv
<1> QED
  BY <1>1, <1>2, <1>3, <1>4

LEMMA TypeStep ==
  ASSUME TypeInv, [Next]_vars
  PROVE  TypeInv'
<1>1. CASE UNCHANGED vars
  BY <1>1 DEF vars, memory, disk, locks, TypeInv, TypeOK, PlaceInv, Fit
<1>2. ASSUME NEW t \in Threads, Begin(t), UNCHANGED orphans
      PROVE  TypeInv'
  BY <1>2, BeginTypes
<1>3. ASSUME NEW t \in Threads, Step(t), UNCHANGED orphans
      PROVE  TypeInv'
  BY <1>3, ReadPinsTypes, StageTypes, LoadTypes, CacheTypes, FlushTypes, OtherTypes DEF Step
<1> QED
  BY <1>1, <1>2, <1>3, OtherTypes DEF Next

LEMMA InitTypes == Init => TypeInv
<1> SUFFICES ASSUME Init PROVE TypeInv
  OBVIOUS
<1>1. call = [t \in Threads |-> NoCall]
  BY DEF Init
<1>2. StoreTyped
  BY DEF Init, StoreTyped, Entry, NoData
<1> QED
  BY <1>1, <1>2, NoCallTyped, Typing

\* The store is well typed whatever its callers do, in any interleaving.
THEOREM StoreTypeCorrect == Spec => []TypeOK
<1>1. Init => TypeInv
  BY InitTypes
<1>2. TypeInv /\ [Next]_vars => TypeInv'
  BY TypeStep
<1>3. TypeInv => TypeOK
  BY DEF TypeInv
<1> QED
  BY <1>1, <1>2, <1>3, PTL DEF Spec

-----------------------------------------------------------------------------
(***************************************************************************)
(* Saved manifests stay readable when calls do not overlap.                *)
(*                                                                         *)
(* Then at most one call is under way, so nothing changes the disk between *)
(* two steps of a flush: what it is about to save is in the blob store,    *)
(* and what it is about to delete is named by no manifest.                 *)
(***************************************************************************)
Lone(t)  == \A u \in Threads : u # t => call[u] = NoCall
AloneInv == \A t \in Threads : call[t] # NoCall => Lone(t)

Readable(named, stored) == \A k \in Keys : named[k] \in stored \cup {None}

Saving == {"lock", "write", "save"}

Safe(c, named, stored) ==
  /\ c.at \in Saving =>
       \A k \in BlocksOf(c.origin) : c.data[k] \in stored \cup {None}
  /\ c.at = "delete" => \A k \in Keys : named[k] \notin c.old

ReadInv ==
  /\ AloneInv
  /\ Readable(manifests, files)
  /\ \A t \in Threads : Safe(call[t], manifests, files)

LEMMA NoCallSafe == \A named, stored : Safe(NoCall, named, stored)
BY NoCallTyped DEF Safe, Saving

LEMMA ReadableManifests == ManifestReadable <=> Readable(manifests, files)
BY DEF ManifestReadable, Readable, Referenced

\* What a step of the only call under way has to keep.
LEMMA SoloStep ==
  ASSUME NEW t \in Threads, Lone(t), \A u \in Threads : u # t => call'[u] = call[u],
         Readable(manifests', files'), Safe(call'[t], manifests', files')
  PROVE  ReadInv'
<1>1. Lone(t)'
  BY DEF Lone
<1>2. AloneInv'
  BY <1>1 DEF AloneInv, Lone
<1>3. \A u \in Threads : Safe(call'[u], manifests', files')
  BY <1>1, NoCallSafe DEF Lone
<1> QED
  BY <1>2, <1>3 DEF ReadInv, Readable, Safe, BlocksOf

\* Most steps neither change the disk nor concern it.
LEMMA QuietStep ==
  ASSUME NEW t \in Threads, Lone(t), ReadInv, UNCHANGED disk,
         \A u \in Threads : u # t => call'[u] = call[u],
         call'[t].at \notin Saving \cup {"delete"}
  PROVE  ReadInv'
<1>1. Readable(manifests', files') /\ Safe(call'[t], manifests', files')
  BY DEF ReadInv, Readable, Safe, disk
<1> QED
  BY <1>1, SoloStep

LEMMA BeginReads ==
  ASSUME NEW t \in Threads, Serial, TypeInv, ReadInv, Begin(t)
  PROVE  ReadInv'
<1>1. ASSUME NEW op, NEW ks, NEW data,
             NEW place \in {"pins", "lookup", "base", "collect", "stats"},
             Start(t, op, place, ks, data)
      PROVE  ReadInv'
  <2>1. Lone(t)
    BY <1>1 DEF Start, Idle, Lone
  <2>2. call' = [call EXCEPT ![t] =
          [NoCall EXCEPT !.op = op, !.at = place, !.keys = ks, !.data = data,
                         !.origin = OriginOf[CHOOSE k \in ks : TRUE]]]
    BY <1>1 DEF Start
  <2>3. call'[t].at = place /\ \A u \in Threads : u # t => call'[u] = call[u]
    BY <2>2, Typing DEF NoCall
  <2> QED
    BY <1>1, <2>1, <2>3, QuietStep DEF Start, Saving
<1> QED
  BY <1>1 DEF Begin

LEMMA SaveReads ==
  ASSUME NEW t \in Threads, TypeInv, ReadInv, Lone(t),
         FlushBase(t) \/ FlushLock(t) \/ SaveManifest(t) \/ \E k \in Keys : FlushBlock(t, k)
  PROVE  ReadInv'
<1> DEFINE o == call[t]
<1>1. o \in Call /\ Safe(o, manifests, files) /\ Readable(manifests, files)
  BY Typing DEF ReadInv
<1>2. \A u \in Threads : u # t => call'[u] = call[u]
  BY Typing DEF FlushBase, FlushLock, SaveManifest, FlushBlock, NextBlock, Return, Goto
<1>3. ASSUME FlushBase(t)
      PROVE  ReadInv'
  <2> DEFINE data == [k \in Keys |-> IF k \in BlocksOf(o.origin) THEN manifests[k] ELSE None]
  <2>1. UNCHANGED disk
    BY <1>3 DEF FlushBase
  <2>2. CASE Return(t)
    <3>1. call'[t] = NoCall
      BY <2>2, Typing DEF Return
    <3> QED
      BY <1>1, <1>2, <2>1, <3>1, NoCallSafe, SoloStep DEF disk
  <2>3. CASE call' = [call EXCEPT ![t].at = "lock", ![t].old = {}, ![t].data = data]
    <3>1. call'[t].data = data /\ call'[t].at = "lock"
      BY <1>1, <2>3, Typing DEF Call
    <3>2. Safe(call'[t], manifests, files)
      BY <1>1, <3>1 DEF Safe, Readable, BlocksOf
    <3> QED
      BY <1>1, <1>2, <2>1, <3>2, SoloStep DEF disk
  <2> QED
    BY <1>3, <2>2, <2>3 DEF FlushBase
<1>4. ASSUME FlushLock(t)
      PROVE  ReadInv'
  <2>1. call' = [call EXCEPT ![t].at = "write"] /\ UNCHANGED disk /\ o.at = "lock"
    BY <1>4 DEF FlushLock, Goto, At
  <2>2. /\ call'[t].at = "write" /\ call'[t].data = o.data
        /\ call'[t].origin = o.origin
    BY <1>1, <2>1, Typing DEF Call
  <2>3. Safe(call'[t], manifests, files)
    BY <1>1, <2>1, <2>2 DEF Safe, Saving
  <2> QED
    BY <1>1, <1>2, <2>1, <2>3, SoloStep DEF disk
<1>5. ASSUME NEW k \in Keys, FlushBlock(t, k)
      PROVE  ReadInv'
  <2> DEFINE blob == cache[k].bytes
  <2>1. ASSUME NEW data, NEW old, NextBlock(t, k, data, old), UNCHANGED manifests,
               files \subseteq files',
               \A l \in BlocksOf(o.origin) : data[l] \in files' \cup {None}
        PROVE  ReadInv'
    <3>1. /\ call'[t].at \in {"save", "write"} /\ call'[t].data = data
          /\ call'[t].origin = o.origin
      BY <1>1, <2>1, Typing DEF NextBlock, Call
    <3>2. Safe(call'[t], manifests', files')
      BY <2>1, <3>1 DEF Safe
    <3>3. Readable(manifests', files')
      BY <1>1, <2>1 DEF Readable
    <3> QED
      BY <1>2, <3>2, <3>3, SoloStep
  <2>2. \A l \in BlocksOf(o.origin) : l \in Keys /\ o.data[l] \in files \cup {None}
    BY <1>1, <1>5 DEF FlushBlock, At, Safe, Saving, BlocksOf
  <2>3. CASE cache[k].dirty
    <3> DEFINE data == [o.data EXCEPT ![k] = blob]
    <3>1. NextBlock(t, k, data, o.old \cup ({o.data[k]} \ {None, blob}))
      BY <1>5, <2>3 DEF FlushBlock
    <3>2. files' = files \cup {blob} /\ UNCHANGED manifests
      BY <1>5, <2>3 DEF FlushBlock
    <3>3. \A l \in BlocksOf(o.origin) : data[l] \in files' \cup {None}
      BY <1>1, <2>2, <3>2 DEF Call
    <3> HIDE DEF data
    <3> QED
      BY <2>1, <3>1, <3>2, <3>3
  <2>4. CASE ~cache[k].dirty
    <3>1. NextBlock(t, k, o.data, o.old) /\ UNCHANGED <<files, manifests>>
      BY <1>5, <2>4 DEF FlushBlock
    <3> QED
      BY <2>1, <2>2, <3>1
  <2> QED
    BY <2>3, <2>4
<1>6. ASSUME SaveManifest(t)
      PROVE  ReadInv'
  <2>1. \A k \in BlocksOf(o.origin) : o.data[k] \in files \cup {None}
    BY <1>1, <1>6 DEF SaveManifest, At, Safe, Saving
  <2>2. manifests' = [k \in Keys |-> IF k \in BlocksOf(o.origin) THEN o.data[k] ELSE manifests[k]]
    BY <1>6 DEF SaveManifest
  <2>3. UNCHANGED files
    BY <1>6 DEF SaveManifest
  <2>4. Readable(manifests', files')
    BY <1>1, <2>1, <2>2, <2>3 DEF Readable
  <2>5. call'[t].at \in {"enforce", "scan"}
    BY <1>1, <1>6, Typing DEF SaveManifest, Goto, Call
  <2> QED
    BY <1>2, <2>4, <2>5, SoloStep DEF Safe, Saving
<1> QED
  BY <1>3, <1>4, <1>5, <1>6

LEMMA CollectReads ==
  ASSUME NEW t \in Threads, TypeInv, ReadInv, Lone(t),
         ScanReferenced(t) \/ \E b \in Payloads : DeleteBlob(t, b)
  PROVE  ReadInv'
<1> DEFINE o == call[t]
<1>1. o \in Call /\ Safe(o, manifests, files) /\ Readable(manifests, files)
  BY Typing DEF ReadInv
<1>2. \A u \in Threads : u # t => call'[u] = call[u]
  BY Typing DEF ScanReferenced, DeleteBlob
<1>3. ASSUME ScanReferenced(t)
      PROVE  ReadInv'
  <2>1. /\ call'[t].at \in {"enforce", "delete"} /\ call'[t].old = o.old \ Referenced
        /\ UNCHANGED disk
    BY <1>1, <1>3, Typing DEF ScanReferenced, Call
  <2>2. \A k \in Keys : manifests[k] \notin o.old \ Referenced
    BY <1>1, StoreAssumption DEF Referenced, Call
  <2>3. Safe(call'[t], manifests', files')
    BY <2>1, <2>2 DEF Safe, Saving, disk
  <2> QED
    BY <1>1, <1>2, <2>1, <2>3, SoloStep DEF disk
<1>4. ASSUME NEW b \in Payloads, DeleteBlob(t, b)
      PROVE  ReadInv'
  <2>1. b \in o.old /\ \A k \in Keys : manifests[k] \notin o.old
    BY <1>1, <1>4 DEF DeleteBlob, At, Safe
  <2>2. files' = files \ {b} /\ UNCHANGED manifests
    BY <1>4 DEF DeleteBlob
  <2>3. Readable(manifests', files')
    BY <1>1, <2>1, <2>2 DEF Readable
  <2>4. call'[t].at \in {"enforce", "delete"} /\ call'[t].old = o.old \ {b}
    BY <1>1, <1>4, Typing DEF DeleteBlob, Call
  <2>5. Safe(call'[t], manifests', files')
    BY <2>1, <2>2, <2>4 DEF Safe, Saving
  <2> QED
    BY <1>2, <2>3, <2>5, SoloStep
<1> QED
  BY <1>3, <1>4

LEMMA QuietReads ==
  ASSUME NEW t \in Threads, TypeInv, ReadInv, Lone(t),
         \/ ReadPins(t) \/ Stage(t) \/ CountDirty(t) \/ Lookup(t) \/ LoadManifest(t)
         \/ LoadedAll(t) \/ Insert(t) \/ Evict(t) \/ EnforcePins(t) \/ Trim(t)
         \/ Collect(t) \/ Stats(t) \/ StatsPins(t) \/ DiskError(t)
         \/ \E k \in Keys : LoadBlob(t, k) \/ PinBlock(t, k) \/ UnpinBlock(t, k)
  PROVE  ReadInv'
<1>1. /\ call[t] \in Call /\ Fit(call[t]) /\ NoCall.at = "idle" /\ NoCall \in Call
      /\ call \in [Threads -> Call]
  BY Typing, NoCallTyped
<1>2. CASE ReadPins(t)
  <2>1. AfterPins(t) \notin Saving \cup {"delete"}
    BY <1>1, <1>2 DEF ReadPins, At, AfterPins, Saving, Fit, PinReaders, Stores, Loads
  <2>2. call'[t].at = AfterPins(t) /\ \A u \in Threads : u # t => call'[u] = call[u]
    BY <1>1, <1>2 DEF ReadPins, Call
  <2> QED
    BY <1>2, <2>1, <2>2, QuietStep DEF ReadPins
<1>3. CASE Stage(t) \/ CountDirty(t) \/ Insert(t) \/ Evict(t) \/ Trim(t)
           \/ LoadedAll(t) \/ Stats(t) \/ StatsPins(t) \/ DiskError(t)
  <2>1. Return(t) \/ \E place \in {"count", "collect", "enforce", "pins", "insert",
                                   "stats_pins"} : Goto(t, place)
    BY <1>3 DEF Stage, CountDirty, Insert, Evict, Trim, LoadedAll, Stats, StatsPins, DiskError
  <2>2. call'[t].at \notin Saving \cup {"delete"} /\ \A u \in Threads : u # t => call'[u] = call[u]
    BY <1>1, <2>1 DEF Return, Goto, Saving, Call
  <2>3. UNCHANGED disk
    BY <1>3 DEF Stage, CountDirty, Insert, Evict, Trim, LoadedAll, Stats, StatsPins, DiskError, disk
  <2> QED
    BY <2>2, <2>3, QuietStep
<1>4. CASE Lookup(t) \/ LoadManifest(t) \/ EnforcePins(t) \/ Collect(t)
  <2>1. call'[t].at \in {"idle", "manifest", "read", "pins", "trim", "base"}
    <3>1. CASE Lookup(t)
      BY <1>1, <3>1 DEF Lookup, Return, Call
    <3>2. CASE LoadManifest(t)
      <4> DEFINE place == IF call[t].op = "load_block" THEN "read" ELSE "pins"
      <4>1. \/ Return(t)
            \/ \E ks, data : call' = [call EXCEPT ![t].at = place, ![t].keys = ks, ![t].data = data]
        BY <3>2 DEF LoadManifest
      <4>2. Return(t) => call'[t].at = "idle"
        BY <1>1 DEF Return
      <4>3. ASSUME NEW ks, NEW data,
                   call' = [call EXCEPT ![t].at = place, ![t].keys = ks, ![t].data = data]
            PROVE  call'[t].at = place
        BY <1>1, <4>3 DEF Call
      <4> QED
        BY <4>1, <4>2, <4>3
    <3>3. CASE EnforcePins(t) \/ Collect(t)
      BY <1>1, <3>3 DEF EnforcePins, Collect, Call
    <3> QED
      BY <1>4, <3>1, <3>2, <3>3
  <2>2. UNCHANGED disk /\ \A u \in Threads : u # t => call'[u] = call[u]
    BY <1>1, <1>4 DEF Lookup, LoadManifest, EnforcePins, Collect, Return
  <2> QED
    BY <2>1, <2>2, QuietStep DEF Saving
<1>5. ASSUME NEW k \in Keys, LoadBlob(t, k) \/ PinBlock(t, k) \/ UnpinBlock(t, k)
      PROVE  ReadInv'
  <2>1. call'[t].at \in {"idle", "read", "pin", "unpin", "enforce"}
    BY <1>1, <1>5 DEF LoadBlob, PinBlock, UnpinBlock, Return, Goto, At, Call
  <2>2. UNCHANGED disk /\ \A u \in Threads : u # t => call'[u] = call[u]
    BY <1>1, <1>5 DEF LoadBlob, PinBlock, UnpinBlock, Return, Goto, disk
  <2> QED
    BY <2>1, <2>2, QuietStep DEF Saving
<1> QED
  BY <1>2, <1>3, <1>4, <1>5

\* Only a call that is under way has a step to take.
LEMMA StepIsLone ==
  ASSUME NEW t \in Threads, ReadInv, Step(t) \/ DiskError(t)
  PROVE  Lone(t)
<1>1. call[t].at # "idle"
  BY StoreAssumption
     DEF Step, DiskError, At, ReadPins, Stage, CountDirty, Lookup, LoadManifest, LoadBlob,
         LoadedAll, Insert, PinBlock, UnpinBlock, Evict, EnforcePins, Trim, Collect,
         FlushBase, FlushLock, FlushBlock, SaveManifest, ScanReferenced, DeleteBlob,
         Stats, StatsPins
<1> QED
  BY <1>1, NoCallTyped DEF ReadInv, AloneInv

LEMMA ReadStep ==
  ASSUME Serial, TypeInv, ReadInv, [Next]_vars
  PROVE  ReadInv'
<1>1. CASE UNCHANGED <<disk, call>>
  BY <1>1 DEF ReadInv, AloneInv, Lone, Readable, Safe, BlocksOf, disk
<1>2. ASSUME NEW t \in Threads, Begin(t)
      PROVE  ReadInv'
  BY <1>2, BeginReads
<1>3. ASSUME NEW t \in Threads, Step(t) \/ DiskError(t)
      PROVE  ReadInv'
  BY <1>3, StepIsLone, SaveReads, CollectReads, QuietReads DEF Step
<1>4. CASE Crash
  <2>1. \A t \in Threads : call'[t] = NoCall
    BY <1>4 DEF Crash
  <2> QED
    BY <1>4, <2>1, NoCallSafe DEF Crash, ReadInv, AloneInv, Lone, Readable, Safe, BlocksOf, disk
<1> QED
  BY <1>1, <1>2, <1>3, <1>4 DEF Next, vars, SetCapacity

\* As the Python binding drives it, the store never has a manifest that names a
\* blob it has not, at any step of any call, and whenever the process dies.
THEOREM ManifestsStayReadable == Serial => (Spec => []ManifestReadable)
<1> SUFFICES ASSUME Serial
             PROVE  Spec => []ManifestReadable
  OBVIOUS
<1>1. Init => TypeInv /\ ReadInv
  <2> SUFFICES ASSUME Init PROVE ReadInv
    BY InitTypes
  <2>1. \A t \in Threads : call[t] = NoCall
    BY DEF Init
  <2>2. Readable(manifests, files)
    BY DEF Init, Readable, NoData
  <2> QED
    BY <2>1, <2>2, NoCallSafe DEF ReadInv, AloneInv
<1>2. TypeInv /\ ReadInv /\ [Next]_vars => (TypeInv /\ ReadInv)'
  BY TypeStep, ReadStep
<1>3. ReadInv => ManifestReadable
  BY ReadableManifests DEF ReadInv
<1> QED
  BY <1>1, <1>2, <1>3, PTL DEF Spec

-----------------------------------------------------------------------------
(***************************************************************************)
(* Where each step takes its call, field by field.                         *)
(***************************************************************************)
Moved(t, place, ks, data, old, noted) ==
  /\ call'[t].op = call[t].op /\ call'[t].origin = call[t].origin
  /\ call'[t].at = place /\ call'[t].keys = ks /\ call'[t].data = data
  /\ call'[t].old = old /\ call'[t].pinned = noted

LEMMA NoCallFields ==
  /\ NoCall.at = "idle" /\ NoCall.op = "none" /\ NoCall.keys = {} /\ NoCall.old = {}
  /\ NoCall.data = NoData /\ NoCall.pinned = {}
BY DEF NoCall

LEMMA ReturnMoves ==
  ASSUME NEW t \in Threads, TypeInv, Return(t)
  PROVE  call'[t] = NoCall /\ call'[t].at = "idle"
BY Typing, NoCallFields DEF Return

LEMMA GotoMoves ==
  ASSUME NEW t \in Threads, TypeInv, NEW place, Goto(t, place)
  PROVE  Moved(t, place, call[t].keys, call[t].data, call[t].old, call[t].pinned)
<1>1. call[t] \in Call /\ call \in [Threads -> Call]
  BY Typing
<1>2. call'[t] = [call[t] EXCEPT !.at = place]
  BY <1>1 DEF Goto
<1> QED
  BY <1>1, <1>2 DEF Moved, Call

LEMMA PinMoves ==
  ASSUME NEW t \in Threads, TypeInv
  PROVE  /\ ReadPins(t) =>
              Moved(t, AfterPins(t), call[t].keys, call[t].data, call[t].old, pins)
         /\ EnforcePins(t) =>
              Moved(t, "trim", call[t].keys, call[t].data, call[t].old, pins)
         /\ \A k \in Keys : PinBlock(t, k) =>
              \/ Return(t)
              \/ Moved(t, "pin", call[t].keys \ {k}, call[t].data, call[t].old, call[t].pinned)
         /\ \A k \in Keys : UnpinBlock(t, k) =>
              \/ Moved(t, "enforce", call[t].keys, call[t].data, call[t].old, call[t].pinned)
              \/ Moved(t, "unpin", call[t].keys \ {k}, call[t].data, call[t].old, call[t].pinned)
<1> DEFINE c == call[t]
<1>1. c \in Call /\ call \in [Threads -> Call]
  BY Typing
<1>2. ASSUME NEW place, call' = [call EXCEPT ![t].at = place, ![t].pinned = pins]
      PROVE  Moved(t, place, c.keys, c.data, c.old, pins)
  <2>1. call'[t] = [c EXCEPT !.at = place, !.pinned = pins]
    BY <1>1, <1>2
  <2> QED
    BY <1>1, <2>1 DEF Moved, Call
<1>3. ASSUME NEW ks, call' = [call EXCEPT ![t].keys = ks]
      PROVE  Moved(t, c.at, ks, c.data, c.old, c.pinned)
  <2>1. call'[t] = [c EXCEPT !.keys = ks]
    BY <1>1, <1>3
  <2> QED
    BY <1>1, <2>1 DEF Moved, Call
<1>4. ASSUME NEW k \in Keys, PinBlock(t, k)
      PROVE  Return(t) \/ Moved(t, "pin", c.keys \ {k}, c.data, c.old, c.pinned)
  <2>1. c.at = "pin" /\ (Return(t) \/ call' = [call EXCEPT ![t].keys = @ \ {k}])
    BY <1>4 DEF PinBlock, At
  <2> QED
    BY <1>3, <2>1
<1>5. ASSUME NEW k \in Keys, UnpinBlock(t, k)
      PROVE  \/ Moved(t, "enforce", c.keys, c.data, c.old, c.pinned)
             \/ Moved(t, "unpin", c.keys \ {k}, c.data, c.old, c.pinned)
  <2>1. c.at = "unpin" /\ (Goto(t, "enforce") \/ call' = [call EXCEPT ![t].keys = @ \ {k}])
    BY <1>5 DEF UnpinBlock, At
  <2> QED
    BY <1>3, <2>1, GotoMoves
<1>6. ReadPins(t) => Moved(t, AfterPins(t), c.keys, c.data, c.old, pins)
  BY <1>2 DEF ReadPins
<1>7. EnforcePins(t) => Moved(t, "trim", c.keys, c.data, c.old, pins)
  BY <1>2 DEF EnforcePins
<1> QED
  BY <1>4, <1>5, <1>6, <1>7

LEMMA LoadMoves ==
  ASSUME NEW t \in Threads, TypeInv
  PROVE  LET c == call[t]
             found == {k \in c.keys : manifests[k] # None}
         IN /\ Lookup(t) =>
                 Return(t) \/ Moved(t, "manifest", c.keys \ Cached, c.data, c.old, c.pinned)
            /\ LoadManifest(t) =>
                 \/ Return(t)
                 \/ Moved(t, IF c.op = "load_block" THEN "read" ELSE "pins", found,
                          [k \in Keys |-> IF k \in found THEN manifests[k] ELSE None],
                          c.old, c.pinned)
            /\ \A k \in Keys : LoadBlob(t, k) =>
                 Return(t) \/ Moved(t, "read", c.keys \ {k}, c.data, c.old, c.pinned)
<1> DEFINE c == call[t]
           found == {k \in c.keys : manifests[k] # None}
           place == IF c.op = "load_block" THEN "read" ELSE "pins"
           data == [k \in Keys |-> IF k \in found THEN manifests[k] ELSE None]
<1>1. c \in Call /\ call \in [Threads -> Call]
  BY Typing
<1>2. Lookup(t) => Return(t) \/ Moved(t, "manifest", c.keys \ Cached, c.data, c.old, c.pinned)
  <2>1. ASSUME call' = [call EXCEPT ![t].at = "manifest", ![t].keys = @ \ Cached]
        PROVE  Moved(t, "manifest", c.keys \ Cached, c.data, c.old, c.pinned)
    <3>1. call'[t] = [c EXCEPT !.at = "manifest", !.keys = @ \ Cached]
      BY <1>1, <2>1
    <3> QED
      BY <1>1, <3>1 DEF Moved, Call
  <2> QED
    BY <2>1 DEF Lookup
<1>3. LoadManifest(t) => Return(t) \/ Moved(t, place, found, data, c.old, c.pinned)
  <2>1. LoadManifest(t) =>
          Return(t) \/ call' = [call EXCEPT ![t].at = place, ![t].keys = found, ![t].data = data]
    BY DEF LoadManifest
  <2> HIDE DEF place, found, data
  <2>2. ASSUME call' = [call EXCEPT ![t].at = place, ![t].keys = found, ![t].data = data]
        PROVE  Moved(t, place, found, data, c.old, c.pinned)
    <3>1. call'[t] = [c EXCEPT !.at = place, !.keys = found, !.data = data]
      BY <1>1, <2>2
    <3> QED
      BY <1>1, <3>1 DEF Moved, Call
  <2> QED
    BY <2>1, <2>2
<1>4. ASSUME NEW k \in Keys, LoadBlob(t, k)
      PROVE  Return(t) \/ Moved(t, "read", c.keys \ {k}, c.data, c.old, c.pinned)
  <2>1. ASSUME call' = [call EXCEPT ![t].keys = @ \ {k}]
        PROVE  Moved(t, "read", c.keys \ {k}, c.data, c.old, c.pinned)
    <3>1. call'[t] = [c EXCEPT !.keys = @ \ {k}] /\ c.at = "read"
      BY <1>1, <1>4, <2>1 DEF LoadBlob, At
    <3> QED
      BY <1>1, <3>1 DEF Moved, Call
  <2> QED
    BY <1>4, <2>1 DEF LoadBlob
<1> QED
  BY <1>2, <1>3, <1>4

LEMMA FlushMoves ==
  ASSUME NEW t \in Threads, TypeInv
  PROVE  LET c == call[t] IN
         /\ Collect(t) =>
              Moved(t, "base", Cached \cap BlocksOf(c.origin), c.data, c.old, c.pinned)
         /\ FlushBase(t) =>
              \/ c.keys = {} /\ Return(t)
              \/ Moved(t, "lock", c.keys,
                       [k \in Keys |-> IF k \in BlocksOf(c.origin) THEN manifests[k] ELSE None],
                       {}, c.pinned)
         /\ \A k, data, old : NextBlock(t, k, data, old) =>
              Moved(t, IF c.keys = {k} THEN "save" ELSE "write", c.keys \ {k}, data, old, c.pinned)
         /\ ScanReferenced(t) =>
              Moved(t, IF c.old \subseteq Referenced THEN "enforce" ELSE "delete", c.keys,
                    c.data, c.old \ Referenced, c.pinned)
         /\ \A b \in Payloads : DeleteBlob(t, b) =>
              Moved(t, IF c.old = {b} THEN "enforce" ELSE "delete", c.keys,
                    c.data, c.old \ {b}, c.pinned)
<1> DEFINE c == call[t]
<1>1. c \in Call /\ call \in [Threads -> Call]
  BY Typing
<1>2. Collect(t) => Moved(t, "base", Cached \cap BlocksOf(c.origin), c.data, c.old, c.pinned)
  <2> SUFFICES ASSUME Collect(t)
               PROVE  Moved(t, "base", Cached \cap BlocksOf(c.origin), c.data, c.old, c.pinned)
    OBVIOUS
  <2>1. call'[t] = [c EXCEPT !.at = "base", !.keys = Cached \cap BlocksOf(c.origin)]
    BY <1>1 DEF Collect
  <2> QED
    BY <1>1, <2>1 DEF Moved, Call
<1>3. ASSUME FlushBase(t), c.keys # {}
      PROVE  Moved(t, "lock", c.keys,
                   [k \in Keys |-> IF k \in BlocksOf(c.origin) THEN manifests[k] ELSE None],
                   {}, c.pinned)
  <2> DEFINE data == [k \in Keys |-> IF k \in BlocksOf(c.origin) THEN manifests[k] ELSE None]
  <2>1. call' = [call EXCEPT ![t].at = "lock", ![t].old = {}, ![t].data = data]
    BY <1>3 DEF FlushBase
  <2> HIDE DEF data
  <2>2. call'[t] = [c EXCEPT !.at = "lock", !.old = {}, !.data = data]
    BY <1>1, <2>1
  <2>3. Moved(t, "lock", c.keys, data, {}, c.pinned)
    BY <1>1, <2>2 DEF Moved, Call
  <2> QED
    BY <2>3 DEF data
<1>4. ASSUME NEW k, NEW data, NEW old, NextBlock(t, k, data, old)
      PROVE  Moved(t, IF c.keys = {k} THEN "save" ELSE "write", c.keys \ {k}, data, old, c.pinned)
  <2> DEFINE place == IF c.keys = {k} THEN "save" ELSE "write"
  <2>1. call' = [call EXCEPT ![t].keys = @ \ {k}, ![t].data = data, ![t].old = old,
                             ![t].at = place]
    BY <1>4 DEF NextBlock
  <2> HIDE DEF place
  <2>2. call'[t] = [c EXCEPT !.keys = @ \ {k}, !.data = data, !.old = old, !.at = place]
    BY <1>1, <2>1
  <2>3. Moved(t, place, c.keys \ {k}, data, old, c.pinned)
    BY <1>1, <2>2 DEF Moved, Call
  <2> QED
    BY <2>3 DEF place
<1>5. ASSUME NEW place, NEW old, call' = [call EXCEPT ![t].old = old, ![t].at = place]
      PROVE  Moved(t, place, c.keys, c.data, old, c.pinned)
  <2>1. call'[t] = [c EXCEPT !.old = old, !.at = place]
    BY <1>1, <1>5
  <2> QED
    BY <1>1, <2>1 DEF Moved, Call
<1>6. ScanReferenced(t) =>
        Moved(t, IF c.old \subseteq Referenced THEN "enforce" ELSE "delete", c.keys,
              c.data, c.old \ Referenced, c.pinned)
  BY <1>5 DEF ScanReferenced
<1>7. \A b \in Payloads : DeleteBlob(t, b) =>
        Moved(t, IF c.old = {b} THEN "enforce" ELSE "delete", c.keys,
              c.data, c.old \ {b}, c.pinned)
  BY <1>5 DEF DeleteBlob
<1>8. FlushBase(t) /\ c.keys = {} => Return(t)
  BY DEF FlushBase
<1> QED
  BY <1>2, <1>3, <1>4, <1>6, <1>7, <1>8

\* A new call has everything still to do, and works on blocks of one origin.
Fresh(c) ==
  /\ c.at \in {"pins", "lookup", "base", "collect", "stats"}
  /\ c.at = "pins" => c.op \notin Loads
  /\ c.op \notin Stores => c.data = NoData
  /\ c.keys \subseteq BlocksOf(c.origin) /\ IsFiniteSet(c.keys)

LEMMA BeginMoves ==
  ASSUME NEW t \in Threads, TypeInv, Begin(t)
  PROVE  Fresh(call'[t]) /\ UNCHANGED <<memory, disk, locks>> /\ call[t] = NoCall
         /\ (Serial => Idle)
<1>1. ASSUME NEW op, NEW place \in {"pins", "lookup", "base", "collect", "stats"},
             NEW ks \in SUBSET Keys, ks # {}, IsFiniteSet(ks),
             \A k, l \in ks : OriginOf[k] = OriginOf[l], NEW data,
             place = "pins" => op \notin Loads, op \notin Stores => data = NoData,
             Start(t, op, place, ks, data)
      PROVE  Fresh(call'[t]) /\ UNCHANGED <<memory, disk, locks>> /\ call[t] = NoCall
             /\ (Serial => Idle)
  <2> DEFINE o == OriginOf[CHOOSE k \in ks : TRUE]
  <2>1. call'[t] = [NoCall EXCEPT !.op = op, !.at = place, !.keys = ks, !.data = data,
                                  !.origin = o]
    BY <1>1, Typing DEF Start
  <2>2. \A k \in ks : OriginOf[k] = o
    BY <1>1
  <2>3. ks \subseteq BlocksOf(o)
    BY <2>2 DEF BlocksOf
  <2> HIDE DEF o
  <2>4. /\ call'[t].op = op /\ call'[t].at = place /\ call'[t].keys = ks
        /\ call'[t].data = data /\ call'[t].origin = o
    BY <2>1 DEF NoCall
  <2> QED
    BY <1>1, <2>3, <2>4 DEF Fresh, Start
<1>2. \A ks \in Batches : /\ ks \in SUBSET Keys /\ ks # {} /\ IsFiniteSet(ks)
                          /\ \A k, l \in ks : OriginOf[k] = OriginOf[l]
  BY StoreAssumption
<1>3. \A k \in Keys : /\ {k} \in SUBSET Keys /\ {k} # {} /\ IsFiniteSet({k})
                      /\ \A j, l \in {k} : OriginOf[j] = OriginOf[l]
  BY FS_Singleton
<1>4. ASSUME NEW k \in Keys, NEW v \in Payloads,
             Start(t, "store_block", "pins", {k}, [NoData EXCEPT ![k] = v])
      PROVE  Fresh(call'[t]) /\ UNCHANGED <<memory, disk, locks>> /\ call[t] = NoCall
             /\ (Serial => Idle)
  BY <1>1, <1>3, <1>4 DEF Stores, Loads
<1>5. ASSUME NEW k \in Keys, Start(t, "load_block", "lookup", {k}, NoData)
      PROVE  Fresh(call'[t]) /\ UNCHANGED <<memory, disk, locks>> /\ call[t] = NoCall
             /\ (Serial => Idle)
  BY <1>1, <1>3, <1>5
<1>6. ASSUME NEW ks \in Batches, NEW data, Start(t, "store_blocks", "pins", ks, data)
      PROVE  Fresh(call'[t]) /\ UNCHANGED <<memory, disk, locks>> /\ call[t] = NoCall
             /\ (Serial => Idle)
  BY <1>1, <1>2, <1>6 DEF Stores, Loads
<1>7. ASSUME NEW ks \in Batches, NEW op,
             NEW place \in {"pins", "lookup", "base", "collect", "stats"},
             place = "pins" => op \notin Loads,
             Start(t, op, place, ks, NoData)
      PROVE  Fresh(call'[t]) /\ UNCHANGED <<memory, disk, locks>> /\ call[t] = NoCall
             /\ (Serial => Idle)
  BY <1>1, <1>2, <1>7
<1> QED
  BY <1>4, <1>5, <1>6, <1>7 DEF Begin, Loads

\* The calls of the other threads are where they were.
LEMMA OthersStay ==
  ASSUME NEW t \in Threads, TypeInv, Begin(t) \/ Step(t) \/ DiskError(t)
  PROVE  \A u \in Threads : u # t => call'[u] = call[u]
<1> USE Typing
<1>1. CASE Begin(t)
  BY <1>1 DEF Begin, Start
<1>2. CASE Step(t)
  BY <1>2 DEF Step, ReadPins, Stage, CountDirty, Lookup, LoadManifest, LoadBlob, LoadedAll,
     Insert, PinBlock, UnpinBlock, Evict, EnforcePins, Trim, Collect, FlushBase, FlushLock,
     FlushBlock, NextBlock, SaveManifest, ScanReferenced, DeleteBlob, Stats, StatsPins,
     Return, Goto
<1>3. CASE DiskError(t)
  BY <1>3 DEF DiskError, Return
<1> QED
  BY <1>1, <1>2, <1>3

-----------------------------------------------------------------------------
(***************************************************************************)
(* A call works on blocks of one origin, and a store names finitely many.  *)
(***************************************************************************)
Own(c) ==
  /\ c.keys \subseteq BlocksOf(c.origin)
  /\ (c.op \in Stores /\ c.at \in {"pins", "stage"}) => IsFiniteSet(c.keys)
  /\ c.at = "insert" => c.op \in Loads

OwnInv == \A t \in Threads : Own(call[t])

LEMMA NoCallOwn == Own(NoCall)
BY NoCallFields DEF Own

\* The steps that neither touch the disk nor belong to a flush at work.
Quiet(t) ==
  \/ ReadPins(t) \/ Stage(t) \/ CountDirty(t) \/ Lookup(t) \/ LoadManifest(t)
  \/ LoadedAll(t) \/ Insert(t) \/ Evict(t) \/ EnforcePins(t) \/ Trim(t)
  \/ Collect(t) \/ Stats(t) \/ StatsPins(t)
  \/ \E k \in Keys : LoadBlob(t, k) \/ PinBlock(t, k) \/ UnpinBlock(t, k)

OnDisk == Saving \cup {"scan", "delete"}

\* Where those steps lead; what they name stays within the origin.
LEMMA QuietMoves ==
  ASSUME NEW t \in Threads, TypeInv, Quiet(t)
  PROVE  /\ call[t].at \notin OnDisk /\ UNCHANGED disk
         /\ \/ call'[t] = NoCall
            \/ /\ call'[t].op = call[t].op /\ call'[t].origin = call[t].origin
               /\ call'[t].keys \subseteq call[t].keys \cup BlocksOf(call[t].origin)
               /\ call'[t].at \in {"count", "collect", "enforce", "trim", "stats_pins", "base",
                                   "pin", "unpin"}
                  \/ /\ call'[t].keys \subseteq call[t].keys
                     /\ \/ call[t].at = "pins" /\ call'[t].at = AfterPins(t)
                        \/ call[t].op \in Loads /\ call'[t].at \in {"manifest", "pins", "read", "insert"}
<1> DEFINE c == call[t]
<1>1. c \in Call /\ Fit(c)
  BY Typing
<1>2. CASE ReadPins(t) \/ EnforcePins(t)
  BY <1>2, PinMoves DEF ReadPins, EnforcePins, At, Moved, OnDisk, Saving
<1>3. CASE Stage(t) \/ CountDirty(t) \/ Insert(t) \/ Evict(t) \/ Trim(t) \/ Stats(t) \/ StatsPins(t)
  <2>1. Return(t) \/ Goto(t, "count") \/ Goto(t, "collect") \/ Goto(t, "enforce")
        \/ Goto(t, "stats_pins")
    BY <1>3 DEF Stage, CountDirty, Insert, Evict, Trim, Stats, StatsPins
  <2>2. UNCHANGED disk /\ c.at \notin OnDisk
    BY <1>3 DEF Stage, CountDirty, Insert, Evict, Trim, Stats, StatsPins, At, OnDisk, Saving, disk
  <2> QED
    BY <2>1, <2>2, ReturnMoves, GotoMoves DEF Moved
<1>4. CASE Lookup(t) \/ LoadManifest(t) \/ \E k \in Keys : LoadBlob(t, k)
  <2>1. UNCHANGED disk /\ c.at \in {"lookup", "manifest", "read"}
    BY <1>4 DEF Lookup, LoadManifest, LoadBlob, At
  <2>2. c.op \in Loads
    BY <1>1, <2>1 DEF Fit
  <2>3. \/ Return(t)
        \/ \E place \in {"manifest", "pins", "read"}, ks \in SUBSET c.keys : \E data :
             Moved(t, place, ks, data, c.old, c.pinned)
    <3>1. CASE Lookup(t) \/ \E k \in Keys : LoadBlob(t, k)
      BY <3>1, LoadMoves, <1>1 DEF Call
    <3>2. CASE LoadManifest(t)
      <4> DEFINE found == {k \in c.keys : manifests[k] # None}
                 place == IF c.op = "load_block" THEN "read" ELSE "pins"
                 data == [k \in Keys |-> IF k \in found THEN manifests[k] ELSE None]
      <4>1. Return(t) \/ Moved(t, place, found, data, c.old, c.pinned)
        BY <3>2, LoadMoves
      <4>2. found \in SUBSET c.keys /\ place \in {"manifest", "pins", "read"}
        OBVIOUS
      <4> HIDE DEF found, place, data
      <4> QED
        BY <4>1, <4>2
    <3> QED
      BY <1>4, <3>1, <3>2
  <2>4. c.at \notin OnDisk
    BY <2>1 DEF OnDisk, Saving
  <2>5. Return(t) => call'[t] = NoCall
    BY ReturnMoves
  <2>6. ASSUME NEW place \in {"manifest", "pins", "read"}, NEW ks \in SUBSET c.keys, NEW data,
               Moved(t, place, ks, data, c.old, c.pinned)
        PROVE  /\ call'[t].op = c.op /\ call'[t].origin = c.origin
               /\ call'[t].keys \subseteq c.keys /\ call'[t].at \in {"manifest", "pins", "read", "insert"}
    BY <2>6 DEF Moved
  <2> QED
    BY <2>1, <2>2, <2>3, <2>4, <2>5, <2>6
<1>5. CASE LoadedAll(t)
  <2>1. c.at = "read" /\ c.op \in Loads /\ UNCHANGED disk
    BY <1>1, <1>5 DEF LoadedAll, At, Fit
  <2>2. Return(t) \/ Goto(t, "pins") \/ Goto(t, "insert")
    BY <1>5 DEF LoadedAll
  <2> QED
    BY <2>1, <2>2, ReturnMoves, GotoMoves DEF Moved, OnDisk, Saving
<1>6. CASE Collect(t)
  <2>1. Moved(t, "base", Cached \cap BlocksOf(c.origin), c.data, c.old, c.pinned)
    BY <1>6, FlushMoves
  <2>2. c.at = "collect" /\ UNCHANGED disk
    BY <1>6 DEF Collect, At
  <2>3. c.at \notin OnDisk
    BY <2>2 DEF OnDisk, Saving
  <2>4. /\ call'[t].op = c.op /\ call'[t].origin = c.origin /\ call'[t].at = "base"
        /\ call'[t].keys \subseteq c.keys \cup BlocksOf(c.origin)
    BY <2>1 DEF Moved
  <2> QED
    BY <2>2, <2>3, <2>4
<1>7. CASE \E k \in Keys : PinBlock(t, k) \/ UnpinBlock(t, k)
  BY <1>7, PinMoves, ReturnMoves DEF PinBlock, UnpinBlock, At, Moved, OnDisk, Saving, disk
<1> QED
  BY <1>2, <1>3, <1>4, <1>5, <1>6, <1>7 DEF Quiet

LEMMA OwnStep ==
  ASSUME TypeInv, OwnInv, [Next]_vars
  PROVE  OwnInv'
<1>1. CASE UNCHANGED call
  BY <1>1 DEF OwnInv, Own, BlocksOf
<1>2. ASSUME NEW t \in Threads, Begin(t) \/ Step(t) \/ DiskError(t), Own(call'[t])
      PROVE  OwnInv'
  BY <1>2, OthersStay DEF OwnInv, Own, BlocksOf
<1>3. ASSUME NEW t \in Threads, Begin(t)
      PROVE  OwnInv'
  <2>1. Own(call'[t])
    BY <1>3, BeginMoves DEF Fresh, Own
  <2> QED
    BY <1>2, <1>3, <2>1
<1>4. ASSUME NEW t \in Threads, Step(t)
      PROVE  OwnInv'
  <2> DEFINE c == call[t]
             d == call'[t]
  <2>1. Own(c) /\ c \in Call /\ Fit(c)
    BY Typing DEF OwnInv
  <2>2. CASE Quiet(t)
    <3> SUFFICES Own(d)
      BY <1>2, <1>4
    <3>1. d = NoCall => Own(d)
      BY NoCallOwn
    <3>2. CASE d.op = c.op /\ d.origin = c.origin
               /\ d.keys \subseteq c.keys \cup BlocksOf(c.origin)
               /\ d.at \in {"count", "collect", "enforce", "trim", "stats_pins", "base",
                                   "pin", "unpin"}
      BY <2>1, <3>2 DEF Own
    <3>3. CASE d.op = c.op /\ d.origin = c.origin /\ d.keys \subseteq c.keys
               /\ c.at = "pins" /\ d.at = AfterPins(t)
      <4>1. AfterPins(t) = "insert" => c.op \in Loads
        BY <2>1, <3>3 DEF AfterPins, Fit, PinReaders, Stores, Loads
      <4> QED
        BY <2>1, <3>3, <4>1, FS_Subset DEF Own
    <3>4. CASE d.op = c.op /\ d.origin = c.origin /\ d.keys \subseteq c.keys
               /\ c.op \in Loads
      BY <2>1, <3>4 DEF Own, Loads, Stores
    <3> QED
      BY <2>2, <3>1, <3>2, <3>3, <3>4, QuietMoves
  <2>3. ASSUME NEW place \in OnDisk \cup {"enforce"}, NEW ks \in SUBSET c.keys, NEW data, NEW old,
               NEW noted, Moved(t, place, ks, data, old, noted)
        PROVE  OwnInv'
    <3>1. Own(d)
      BY <2>1, <2>3 DEF Own, Moved, OnDisk, Saving
    <3> QED
      BY <1>2, <1>4, <3>1
  <2>4. ASSUME Return(t)
        PROVE  OwnInv'
    BY <1>2, <1>4, <2>4, ReturnMoves, NoCallOwn
  <2>5. CASE FlushBase(t)
    <3> DEFINE data == [k \in Keys |-> IF k \in BlocksOf(c.origin) THEN manifests[k] ELSE None]
    <3>1. Return(t) \/ Moved(t, "lock", c.keys, data, {}, c.pinned)
      BY <2>5, FlushMoves
    <3> HIDE DEF data
    <3> QED
      BY <2>3, <2>4, <3>1 DEF OnDisk, Saving
  <2>6. CASE ScanReferenced(t)
    <3> DEFINE place == IF c.old \subseteq Referenced THEN "enforce" ELSE "delete"
    <3>1. Moved(t, place, c.keys, c.data, c.old \ Referenced, c.pinned)
      BY <2>6, FlushMoves
    <3>2. place \in OnDisk \cup {"enforce"}
      BY DEF OnDisk
    <3> HIDE DEF place
    <3> QED
      BY <2>3, <3>1, <3>2
  <2>7. ASSUME NEW b \in Payloads, DeleteBlob(t, b)
        PROVE  OwnInv'
    <3> DEFINE place == IF c.old = {b} THEN "enforce" ELSE "delete"
    <3>1. Moved(t, place, c.keys, c.data, c.old \ {b}, c.pinned)
      BY <2>7, FlushMoves
    <3>2. place \in OnDisk \cup {"enforce"}
      BY DEF OnDisk
    <3> HIDE DEF place
    <3> QED
      BY <2>3, <3>1, <3>2
  <2>8. CASE FlushLock(t) \/ SaveManifest(t)
    <3>1. Goto(t, "write") \/ Goto(t, "enforce") \/ Goto(t, "scan")
      BY <2>8 DEF FlushLock, SaveManifest
    <3> QED
      BY <2>3, <3>1, GotoMoves DEF OnDisk, Saving
  <2>9. ASSUME NEW k \in Keys, FlushBlock(t, k)
        PROVE  OwnInv'
    <3>1. \E data, old : NextBlock(t, k, data, old)
      BY <2>9 DEF FlushBlock
    <3>2. PICK data, old : NextBlock(t, k, data, old)
      BY <3>1
    <3> DEFINE place == IF c.keys = {k} THEN "save" ELSE "write"
    <3>3. Moved(t, place, c.keys \ {k}, data, old, c.pinned)
      BY <3>2, FlushMoves
    <3>4. place \in OnDisk \cup {"enforce"}
      BY DEF OnDisk, Saving
    <3> HIDE DEF place
    <3> QED
      BY <2>3, <3>3, <3>4
  <2> QED
    BY <1>4, <2>2, <2>5, <2>6, <2>7, <2>8, <2>9 DEF Step, Quiet
<1>5. ASSUME NEW t \in Threads, DiskError(t)
      PROVE  OwnInv'
  <2>1. Own(call'[t])
    BY <1>5, ReturnMoves, NoCallOwn DEF DiskError
  <2> QED
    BY <1>2, <1>5, <2>1
<1>6. CASE Crash
  BY <1>6, NoCallOwn DEF Crash, OwnInv, Own, BlocksOf
<1> QED
  BY <1>1, <1>3, <1>4, <1>5, <1>6 DEF Next, vars, SetCapacity

-----------------------------------------------------------------------------
(***************************************************************************)
(* What each step does to the cached blocks, one by one.                   *)
(***************************************************************************)
LEMMA EntryFields ==
  /\ Absent.bytes = None /\ Absent.dirty = FALSE /\ Absent.pinned = FALSE
  /\ \A bytes \in Payloads, dirty \in BOOLEAN, pinned \in BOOLEAN :
       LET entry == Block(bytes, dirty, pinned) IN
       /\ entry # Absent
       /\ entry.bytes = bytes /\ entry.dirty = dirty /\ entry.pinned = pinned
<1>1. \A bytes, dirty, pinned :
        LET entry == Block(bytes, dirty, pinned) IN
        entry.bytes = bytes /\ entry.dirty = dirty /\ entry.pinned = pinned
  BY DEF Block
<1>2. Absent.bytes = None /\ Absent.dirty = FALSE /\ Absent.pinned = FALSE
  BY DEF Absent
<1> QED
  BY <1>1, <1>2, StoreAssumption

\* The block is cached if it was, with the content it had.
Kept(k) == (cache'[k] = Absent <=> cache[k] = Absent) /\ cache'[k].bytes = cache[k].bytes

LEMMA FlagsMove ==
  ASSUME NEW t \in Threads, NEW k \in Keys, TypeInv
  PROVE  /\ PinBlock(t, k) =>
              \A j \in Keys : /\ Kept(j) /\ cache'[j].dirty = cache[j].dirty
                              /\ cache'[j].pinned = IF j = k THEN k \in Cached ELSE cache[j].pinned
         /\ UnpinBlock(t, k) =>
              \A j \in Keys : /\ Kept(j) /\ cache'[j].dirty = cache[j].dirty
                              /\ cache'[j].pinned = (j # k /\ cache[j].pinned)
         /\ FlushBlock(t, k) =>
              \A j \in Keys : /\ Kept(j) /\ cache'[j].pinned = cache[j].pinned
                              /\ cache'[j].dirty = (j # k /\ cache[j].dirty)
<1> DEFINE entry == cache[k]
<1>1. entry \in Entry /\ cache \in [Keys -> Entry] /\ \A j \in Keys : cache[j] \in Entry
  BY Typing DEF StoreTyped
<1>2. ASSUME NEW flag \in BOOLEAN, flag => entry # Absent
      PROVE  LET r == [entry EXCEPT !.pinned = flag] IN
             /\ r.pinned = flag /\ r.dirty = entry.dirty /\ r.bytes = entry.bytes
             /\ r = Absent <=> entry = Absent
  <2>1. CASE entry = Absent
    BY <1>2, <2>1, UnpinnedAbsent, EntryFields
  <2>2. CASE entry # Absent
    <3>1. entry \in [bytes : Payloads, dirty : BOOLEAN, pinned : BOOLEAN]
      BY <1>1, <2>2 DEF Entry
    <3>2. Absent.bytes \notin Payloads
      BY EntryFields, StoreAssumption
    <3> QED
      BY <2>2, <3>1, <3>2
  <2> QED
    BY <2>1, <2>2
<1>3. ASSUME entry.dirty
      PROVE  LET r == [entry EXCEPT !.dirty = FALSE] IN
             /\ r.pinned = entry.pinned /\ r.dirty = FALSE /\ r.bytes = entry.bytes
             /\ r # Absent /\ entry # Absent
  <2>1. entry # Absent
    BY <1>3, EntryFields
  <2>2. entry \in [bytes : Payloads, dirty : BOOLEAN, pinned : BOOLEAN]
    BY <1>1, <2>1 DEF Entry
  <2>3. Absent.bytes \notin Payloads
    BY EntryFields, StoreAssumption
  <2> QED
    BY <2>1, <2>2, <2>3
<1>4. \A j \in Keys : cache[j].dirty \in BOOLEAN /\ cache[j].pinned \in BOOLEAN
  BY <1>1, EntryFields DEF Entry
<1>5. ASSUME PinBlock(t, k)
      PROVE  \A j \in Keys : /\ Kept(j) /\ cache'[j].dirty = cache[j].dirty
                             /\ cache'[j].pinned = IF j = k THEN k \in Cached ELSE cache[j].pinned
  <2> DEFINE flag == k \in Cached
  <2>1. cache' = [cache EXCEPT ![k].pinned = flag]
    BY <1>5 DEF PinBlock
  <2>2. flag \in BOOLEAN /\ (flag => entry # Absent)
    BY DEF Cached
  <2> HIDE DEF flag
  <2>3. cache'[k] = [entry EXCEPT !.pinned = flag] /\ \A j \in Keys : j # k => cache'[j] = cache[j]
    BY <1>1, <2>1
  <2>4. \A j \in Keys : /\ Kept(j) /\ cache'[j].dirty = cache[j].dirty
                        /\ cache'[j].pinned = IF j = k THEN flag ELSE cache[j].pinned
    BY <1>2, <2>2, <2>3 DEF Kept
  <2> QED
    BY <2>4 DEF flag
<1>6. ASSUME UnpinBlock(t, k)
      PROVE  \A j \in Keys : /\ Kept(j) /\ cache'[j].dirty = cache[j].dirty
                             /\ cache'[j].pinned = (j # k /\ cache[j].pinned)
  <2>1. cache'[k] = [entry EXCEPT !.pinned = FALSE] /\ \A j \in Keys : j # k => cache'[j] = cache[j]
    BY <1>1, <1>6 DEF UnpinBlock
  <2> QED
    BY <1>2, <1>4, <2>1 DEF Kept
<1>7. ASSUME FlushBlock(t, k)
      PROVE  \A j \in Keys : /\ Kept(j) /\ cache'[j].pinned = cache[j].pinned
                             /\ cache'[j].dirty = (j # k /\ cache[j].dirty)
  <2>1. CASE entry.dirty
    <3>1. cache'[k] = [entry EXCEPT !.dirty = FALSE] /\ \A j \in Keys : j # k => cache'[j] = cache[j]
      BY <1>1, <1>7, <2>1 DEF FlushBlock
    <3> QED
      BY <1>3, <1>4, <2>1, <3>1 DEF Kept
  <2>2. CASE ~entry.dirty
    <3>1. cache' = cache
      BY <1>7, <2>2 DEF FlushBlock
    <3> QED
      BY <1>4, <2>2, <3>1 DEF Kept
  <2> QED
    BY <2>1, <2>2
<1> QED
  BY <1>5, <1>6, <1>7

\* The blocks that enter the cache or leave it.
LEMMA EntriesMove ==
  ASSUME NEW t \in Threads, TypeInv
  PROVE  /\ Stage(t) => \A k \in Keys :
              /\ k \in call[t].keys =>
                   /\ call[t].data[k] \in Payloads /\ cache'[k] # Absent
                   /\ cache'[k].bytes = call[t].data[k] /\ cache'[k].dirty = TRUE
                   /\ cache'[k].pinned = (k \in call[t].pinned)
              /\ k \notin call[t].keys => cache'[k] = cache[k]
         /\ Insert(t) => \A k \in Keys :
              /\ call[t].data[k] # None =>
                   /\ cache'[k] # Absent /\ cache'[k].bytes = call[t].data[k]
                   /\ cache'[k].dirty = FALSE /\ cache'[k].pinned = (k \in call[t].pinned)
              /\ call[t].data[k] = None => cache'[k] = cache[k]
         /\ Evict(t) \/ Trim(t) => \A k \in Keys :
              \/ cache'[k] = cache[k]
              \/ cache'[k] = Absent /\ cache[k] # Absent /\ ~cache[k].dirty /\ ~cache[k].pinned
<1>1. call[t] \in Call /\ Fit(call[t]) /\ cache \in [Keys -> Entry]
  BY Typing DEF StoreTyped
<1>2. ASSUME Stage(t), NEW k \in Keys
      PROVE  /\ k \in call[t].keys =>
                  /\ call[t].data[k] \in Payloads /\ cache'[k] # Absent
                  /\ cache'[k].bytes = call[t].data[k] /\ cache'[k].dirty = TRUE
                  /\ cache'[k].pinned = (k \in call[t].pinned)
             /\ k \notin call[t].keys => cache'[k] = cache[k]
  <2>1. k \in call[t].keys => call[t].data[k] \in Payloads
    BY <1>1, <1>2 DEF Stage, At, Fit
  <2> DEFINE noted == k \in call[t].pinned
  <2>2. /\ k \in call[t].keys => cache'[k] = Block(call[t].data[k], TRUE, noted)
        /\ k \notin call[t].keys => cache'[k] = cache[k]
    BY <1>2 DEF Stage, Staged
  <2>3. noted \in BOOLEAN
    OBVIOUS
  <2> HIDE DEF noted
  <2>4. k \in call[t].keys =>
          LET entry == Block(call[t].data[k], TRUE, noted) IN
          /\ entry # Absent /\ entry.bytes = call[t].data[k]
          /\ entry.dirty = TRUE /\ entry.pinned = noted
    BY <2>1, <2>3, EntryFields
  <2>5. k \in call[t].keys =>
          /\ cache'[k] # Absent /\ cache'[k].bytes = call[t].data[k]
          /\ cache'[k].dirty = TRUE /\ cache'[k].pinned = noted
    BY <2>2, <2>4
  <2> QED
    BY <2>1, <2>2, <2>5 DEF noted
<1>3. ASSUME Insert(t), NEW k \in Keys
      PROVE  /\ call[t].data[k] # None =>
                  /\ cache'[k] # Absent /\ cache'[k].bytes = call[t].data[k]
                  /\ cache'[k].dirty = FALSE /\ cache'[k].pinned = (k \in call[t].pinned)
             /\ call[t].data[k] = None => cache'[k] = cache[k]
  <2>1. call[t].data[k] \in Payloads \cup {None}
    BY <1>1 DEF Call
  <2> DEFINE noted == k \in call[t].pinned
  <2>2. /\ call[t].data[k] # None => cache'[k] = Block(call[t].data[k], FALSE, noted)
        /\ call[t].data[k] = None => cache'[k] = cache[k]
    BY <1>3 DEF Insert
  <2>3. noted \in BOOLEAN
    OBVIOUS
  <2> HIDE DEF noted
  <2>4. call[t].data[k] # None =>
          LET entry == Block(call[t].data[k], FALSE, noted) IN
          /\ entry # Absent /\ entry.bytes = call[t].data[k]
          /\ entry.dirty = FALSE /\ entry.pinned = noted
    BY <2>1, <2>3, EntryFields
  <2>5. call[t].data[k] # None =>
          /\ cache'[k] # Absent /\ cache'[k].bytes = call[t].data[k]
          /\ cache'[k].dirty = FALSE /\ cache'[k].pinned = noted
    BY <2>2, <2>4
  <2> QED
    BY <2>2, <2>5 DEF noted
<1>4. ASSUME Evict(t) \/ Trim(t), NEW k \in Keys
      PROVE  \/ cache'[k] = cache[k]
             \/ cache'[k] = Absent /\ cache[k] # Absent /\ ~cache[k].dirty /\ ~cache[k].pinned
  <2>1. \E ks, snapshot : /\ cache' = Without(ks)
                          /\ \A j \in ks : Evictable(j, snapshot)
    <3>1. CASE Evict(t)
      <4>1. \A j \in {i \in call[t].keys : Evictable(i, pins)} : Evictable(j, pins)
        OBVIOUS
      <4> QED
        BY <3>1, <4>1 DEF Evict
    <3>2. CASE Trim(t)
      <4>1. PICK victims \in SUBSET {j \in Keys : Evictable(j, call[t].pinned)} :
              cache' = Without(victims)
        BY <3>2 DEF Trim
      <4> QED
        BY <4>1
    <3> QED
      BY <1>4, <3>1, <3>2
  <2>2. PICK ks, snapshot : cache' = Without(ks) /\ \A j \in ks : Evictable(j, snapshot)
    BY <2>1
  <2>3. k \in ks => cache[k] # Absent /\ ~cache[k].dirty /\ ~cache[k].pinned
    BY <2>2 DEF Evictable, Cached
  <2> QED
    BY <2>2, <2>3 DEF Without
<1> QED
  BY <1>2, <1>3, <1>4

\* The other steps leave the memory alone.
Aside(t) ==
  \/ ReadPins(t) \/ CountDirty(t) \/ Lookup(t) \/ LoadManifest(t) \/ LoadedAll(t)
  \/ (\E k \in Keys : LoadBlob(t, k)) \/ EnforcePins(t) \/ Collect(t)
  \/ FlushBase(t) \/ FlushLock(t) \/ SaveManifest(t) \/ ScanReferenced(t)
  \/ (\E b \in Payloads : DeleteBlob(t, b)) \/ Stats(t) \/ StatsPins(t)
  \/ DiskError(t) \/ Begin(t)

LEMMA MemoryStays ==
  ASSUME NEW t \in Threads, Aside(t)
  PROVE  UNCHANGED memory
<1>1. CASE Begin(t)
  BY <1>1 DEF Begin, Start
<1> QED
  BY <1>1 DEF Aside, ReadPins, CountDirty, Lookup, LoadManifest, LoadBlob, LoadedAll, EnforcePins,
     Collect, FlushBase, FlushLock, SaveManifest, ScanReferenced, DeleteBlob, Stats, StatsPins,
     DiskError

LEMMA StepsSplit ==
  ASSUME NEW t \in Threads, Begin(t) \/ Step(t) \/ DiskError(t)
  PROVE  \/ Aside(t) \/ Stage(t) \/ Insert(t) \/ Evict(t) \/ Trim(t)
         \/ \E k \in Keys : PinBlock(t, k) \/ UnpinBlock(t, k) \/ FlushBlock(t, k)
BY DEF Step, Aside

\* Before a call begins there is none, and a call that steps is the only one.
LEMMA Alone ==
  ASSUME NEW t \in Threads, Serial, TypeInv, ReadInv, Begin(t) \/ Step(t) \/ DiskError(t)
  PROVE  Lone(t) /\ \A u \in Threads : u # t => call'[u] = NoCall
<1>1. Lone(t)
  BY StepIsLone, BeginMoves DEF Idle, Lone
<1> QED
  BY <1>1, OthersStay DEF Lone

-----------------------------------------------------------------------------
(***************************************************************************)
(* The pin flags.  A call about to enter blocks has the pin set as it is.  *)
(***************************************************************************)
Noted(c, p) ==
  /\ c.at \in {"stage", "insert"} => c.pinned = p
  /\ (c.at = "read" /\ c.op = "load_blocks") => c.pinned = p

Flagged == \A k \in Cached : cache[k].pinned <=> k \in pins

PinInv == Flagged /\ \A t \in Threads : Noted(call[t], pins)

LEMMA NoCallNoted == \A p : Noted(NoCall, p)
BY NoCallFields DEF Noted

LEMMA PinStepNotes ==
  ASSUME NEW t \in Threads, TypeInv, Noted(call[t], pins), UNCHANGED pins,
         Begin(t) \/ Step(t) \/ DiskError(t)
  PROVE  Noted(call'[t], pins)
<1> DEFINE c == call[t]
           d == call'[t]
<1>1. c \in Call /\ Fit(c)
  BY Typing
<1>2. CASE Begin(t)
  BY <1>2, BeginMoves DEF Fresh, Noted
<1>3. CASE DiskError(t)
  BY <1>3, ReturnMoves, NoCallNoted DEF DiskError
<1>4. CASE ReadPins(t) \/ EnforcePins(t)
  BY <1>4, PinMoves DEF Moved, Noted
<1>5. CASE LoadedAll(t)
  <2>1. c.at = "read" /\ (c.op = "load_block" \/ c.op = "load_blocks")
    BY <1>1, <1>5 DEF LoadedAll, At, Fit, Loads
  <2>2. CASE c.op = "load_block"
    <3>1. Goto(t, "pins")
      BY <1>5, <2>2 DEF LoadedAll
    <3> QED
      BY <3>1, GotoMoves DEF Moved, Noted
  <2>3. CASE c.op = "load_blocks"
    <3>1. c.pinned = pins
      BY <2>1, <2>3 DEF Noted
    <3>2. Return(t) \/ Goto(t, "insert")
      BY <1>5, <2>3 DEF LoadedAll
    <3> QED
      BY <3>1, <3>2, GotoMoves, ReturnMoves, NoCallNoted DEF Moved, Noted
  <2> QED
    BY <2>1, <2>2, <2>3
<1>6. ASSUME NEW k \in Keys, LoadBlob(t, k)
      PROVE  Noted(d, pins)
  <2>1. Return(t) \/ Moved(t, "read", c.keys \ {k}, c.data, c.old, c.pinned)
    BY <1>6, LoadMoves
  <2>2. c.at = "read"
    BY <1>6 DEF LoadBlob, At
  <2> QED
    BY <2>1, <2>2, ReturnMoves, NoCallNoted DEF Moved, Noted
<1>7. CASE LoadManifest(t)
  <2> DEFINE found == {k \in c.keys : manifests[k] # None}
             place == IF c.op = "load_block" THEN "read" ELSE "pins"
             data == [k \in Keys |-> IF k \in found THEN manifests[k] ELSE None]
  <2>1. Return(t) \/ Moved(t, place, found, data, c.old, c.pinned)
    BY <1>7, LoadMoves
  <2>2. place = "pins" \/ (place = "read" /\ c.op # "load_blocks")
    OBVIOUS
  <2> HIDE DEF found, place, data
  <2> QED
    BY <2>1, <2>2, ReturnMoves, NoCallNoted DEF Moved, Noted
<1>8. CASE \/ Stage(t) \/ CountDirty(t) \/ Lookup(t) \/ Insert(t) \/ Evict(t) \/ Trim(t)
           \/ Collect(t) \/ FlushBase(t) \/ FlushLock(t) \/ SaveManifest(t)
           \/ ScanReferenced(t) \/ (\E b \in Payloads : DeleteBlob(t, b)) \/ Stats(t) \/ StatsPins(t)
           \/ \E k \in Keys : PinBlock(t, k) \/ UnpinBlock(t, k) \/ FlushBlock(t, k)
  <2>1. ASSUME NEW place, NEW ks, NEW data, NEW old, NEW noted,
               Moved(t, place, ks, data, old, noted), place \notin {"stage", "insert", "read"}
        PROVE  Noted(d, pins)
    BY <2>1 DEF Moved, Noted
  <2>2. ASSUME Return(t) PROVE Noted(d, pins)
    BY <2>2, ReturnMoves, NoCallNoted
  <2>3. ASSUME NEW place, Goto(t, place), place \notin {"stage", "insert", "read"}
        PROVE  Noted(d, pins)
    BY <2>1, <2>3, GotoMoves
  <2>4. CASE Stage(t) \/ CountDirty(t) \/ Insert(t) \/ Evict(t) \/ Trim(t) \/ FlushLock(t)
             \/ SaveManifest(t) \/ Stats(t) \/ StatsPins(t)
    <3>1. \/ Return(t)
          \/ \E place \in {"count", "collect", "enforce", "write", "scan", "stats_pins"} : Goto(t, place)
      BY <2>4 DEF Stage, CountDirty, Insert, Evict, Trim, FlushLock, SaveManifest, Stats, StatsPins
    <3> QED
      BY <2>2, <2>3, <3>1
  <2>5. CASE Lookup(t) \/ Collect(t)
    <3>1. \/ Return(t)
          \/ \E place \in {"manifest", "base"} : \E ks :
               Moved(t, place, ks, c.data, c.old, c.pinned)
      BY <2>5, LoadMoves, FlushMoves
    <3> QED
      BY <2>1, <2>2, <3>1
  <2>6. CASE FlushBase(t)
    <3>1. Return(t) \/ \E data : Moved(t, "lock", c.keys, data, {}, c.pinned)
      BY <2>6, FlushMoves
    <3> QED
      BY <2>1, <2>2, <3>1
  <2>7. CASE ScanReferenced(t) \/ \E b \in Payloads : DeleteBlob(t, b)
    <3>1. \E place \in {"enforce", "delete"} : \E old : Moved(t, place, c.keys, c.data, old, c.pinned)
      BY <2>7, FlushMoves
    <3> QED
      BY <2>1, <3>1
  <2>8. ASSUME NEW k \in Keys, FlushBlock(t, k)
        PROVE  Noted(d, pins)
    <3>1. PICK data, old : NextBlock(t, k, data, old)
      BY <2>8 DEF FlushBlock
    <3>2. \E place \in {"save", "write"} : Moved(t, place, c.keys \ {k}, data, old, c.pinned)
      BY <3>1, FlushMoves
    <3> QED
      BY <2>1, <3>2
  <2>9. ASSUME NEW k \in Keys, PinBlock(t, k) \/ UnpinBlock(t, k)
        PROVE  Noted(d, pins)
    <3>1. \/ Return(t)
          \/ \E place \in {"pin", "unpin", "enforce"} : \E ks :
               Moved(t, place, ks, c.data, c.old, c.pinned)
      BY <2>9, PinMoves
    <3> QED
      BY <2>1, <2>2, <3>1
  <2> QED
    BY <1>8, <2>4, <2>5, <2>6, <2>7, <2>8, <2>9
<1> QED
  BY <1>2, <1>3, <1>4, <1>5, <1>6, <1>7, <1>8 DEF Step

LEMMA PinStep ==
  ASSUME Serial, TypeInv, ReadInv, PinInv, [Next]_vars
  PROVE  PinInv'
<1>1. CASE UNCHANGED <<cache, pins, call>>
  BY <1>1 DEF PinInv, Flagged, Cached, Noted
<1>2. ASSUME NEW t \in Threads, Begin(t) \/ Step(t) \/ DiskError(t),
             Noted(call'[t], pins'), Flagged'
      PROVE  PinInv'
  BY <1>2, Alone, NoCallNoted DEF PinInv, Noted
<1>3. ASSUME NEW t \in Threads, Begin(t) \/ Step(t) \/ DiskError(t)
      PROVE  PinInv'
  <2>1. Noted(call[t], pins) /\ Flagged /\ pins \subseteq Keys
    BY Typing DEF PinInv, StoreTyped
  <2>2. ASSUME UNCHANGED pins, Flagged'
        PROVE  PinInv'
    BY <1>2, <1>3, <2>1, <2>2, PinStepNotes
  <2>3. CASE Aside(t)
    <3>1. UNCHANGED <<cache, pins>>
      BY <2>3, MemoryStays DEF memory
    <3> QED
      BY <2>1, <2>2, <3>1 DEF Flagged, Cached
  <2>4. CASE Stage(t) \/ Insert(t)
    <3>1. UNCHANGED pins /\ call[t].pinned = pins
      BY <2>1, <2>4 DEF Stage, Insert, At, Noted
    <3>2. ASSUME NEW k \in Keys, cache'[k] # Absent
          PROVE  cache'[k].pinned <=> k \in pins
      <4>1. (cache[k] # Absent => (cache[k].pinned <=> k \in pins))
        BY <2>1 DEF Flagged, Cached
      <4>2. cache'[k] = cache[k] \/ cache'[k].pinned = (k \in call[t].pinned)
        BY <2>4, EntriesMove
      <4> QED
        BY <3>1, <3>2, <4>1, <4>2
    <3> QED
      BY <2>2, <3>1, <3>2 DEF Flagged, Cached
  <2>5. CASE Evict(t) \/ Trim(t)
    <3>1. UNCHANGED pins
      BY <2>5 DEF Evict, Trim
    <3>2. \A k \in Keys : cache'[k] = cache[k] \/ cache'[k] = Absent
      BY <2>5, EntriesMove
    <3> QED
      BY <2>1, <2>2, <3>1, <3>2 DEF Flagged, Cached
  <2>6. ASSUME NEW k \in Keys, FlushBlock(t, k)
        PROVE  PinInv'
    <3>1. UNCHANGED pins
      BY <2>6 DEF FlushBlock
    <3>2. \A j \in Keys : Kept(j) /\ cache'[j].pinned = cache[j].pinned
      BY <2>6, FlagsMove
    <3> QED
      BY <2>1, <2>2, <3>1, <3>2 DEF Flagged, Cached, Kept
  <2>7. ASSUME NEW k \in Keys, PinBlock(t, k) \/ UnpinBlock(t, k)
        PROVE  PinInv'
    <3>1. Noted(call'[t], pins')
      <4>1. \/ Return(t)
            \/ \E place \in {"pin", "unpin", "enforce"} : \E ks :
                 Moved(t, place, ks, call[t].data, call[t].old, call[t].pinned)
        BY <2>7, PinMoves
      <4> QED
        BY <4>1, ReturnMoves, NoCallNoted DEF Moved, Noted
    <3>2. CASE PinBlock(t, k)
      <4>1. pins' = pins \cup {k}
        BY <3>2 DEF PinBlock
      <4>2. \A j \in Keys : /\ Kept(j)
                            /\ cache'[j].pinned = IF j = k THEN k \in Cached ELSE cache[j].pinned
        BY <3>2, FlagsMove
      <4>3. Flagged'
        BY <2>1, <4>1, <4>2 DEF Flagged, Cached, Kept
      <4> QED
        BY <1>2, <1>3, <3>1, <4>3
    <3>3. CASE UnpinBlock(t, k)
      <4>1. pins' = pins \ {k}
        BY <3>3 DEF UnpinBlock
      <4>2. \A j \in Keys : Kept(j) /\ cache'[j].pinned = (j # k /\ cache[j].pinned)
        BY <3>3, FlagsMove
      <4>3. Flagged'
        BY <2>1, <4>1, <4>2 DEF Flagged, Cached, Kept
      <4> QED
        BY <1>2, <1>3, <3>1, <4>3
    <3> QED
      BY <2>7, <3>2, <3>3
  <2> QED
    BY <1>3, <2>3, <2>4, <2>5, <2>6, <2>7, StepsSplit
<1>4. CASE Crash
  BY <1>4, NoCallNoted DEF Crash, PinInv, Flagged, Cached, Noted
<1> QED
  BY <1>1, <1>3, <1>4 DEF Next, vars, memory, SetCapacity

LEMMA SerialStart == Init => TypeInv /\ ReadInv /\ OwnInv
<1> SUFFICES ASSUME Init PROVE ReadInv /\ OwnInv
  BY InitTypes
<1>1. \A t \in Threads : call[t] = NoCall
  BY DEF Init
<1>2. Readable(manifests, files)
  BY DEF Init, Readable, NoData
<1> QED
  BY <1>1, <1>2, NoCallSafe, NoCallOwn DEF ReadInv, AloneInv, OwnInv

\* When calls do not overlap, the flags by which blocks are kept from eviction
\* agree with the pin set between any two of them, after every error and crash.
THEOREM PinFlagsHold == Serial => (Spec => []PinFlagsAgree)
<1> SUFFICES ASSUME Serial
             PROVE  Spec => []PinFlagsAgree
  OBVIOUS
<1>1. Init => TypeInv /\ ReadInv /\ PinInv
  <2> SUFFICES ASSUME Init PROVE PinInv
    BY SerialStart
  <2>1. (\A t \in Threads : call[t] = NoCall) /\ \A k \in Keys : cache[k] = Absent
    BY DEF Init
  <2> QED
    BY <2>1, NoCallNoted DEF PinInv, Flagged, Cached
<1>2. TypeInv /\ ReadInv /\ PinInv /\ [Next]_vars => (TypeInv /\ ReadInv /\ PinInv)'
  BY TypeStep, ReadStep, PinStep
<1>3. PinInv => PinFlagsAgree
  BY DEF PinInv, Flagged, PinFlagsAgree
<1> QED
  BY <1>1, <1>2, <1>3, PTL DEF Spec

-----------------------------------------------------------------------------
(***************************************************************************)
(* What a crash can lose.  An origin has few dirty blocks, or the          *)
(* write-back that cleans them is on its way.                              *)
(***************************************************************************)
DirtyBlocks(entries) == {k \in Keys : entries[k].dirty}
Few(entries, o) == Cardinality(Dirty(entries, o)) < Threshold

Cleaning(c, entries) ==
  \/ c.at \in {"count", "collect"}
  \/ c.at \in {"base", "lock", "write"} /\ Dirty(entries, c.origin) \subseteq c.keys

Owned == {OriginOf[k] : k \in Keys}

DirtyInv ==
  /\ IsFiniteSet(DirtyBlocks(cache))
  /\ \A o \in Owned :
       Few(cache, o) \/ \E t \in Threads : call[t].origin = o /\ Cleaning(call[t], cache)

\* Base and write are the steps whose failure leaves the blocks dirty.
Cleans == Faulty \cap {"base", "write"} = {}

LEMMA FewerDirty ==
  ASSUME NEW few, NEW more, IsFiniteSet(DirtyBlocks(more)),
         \A k \in Keys : few[k].dirty => more[k].dirty
  PROVE  /\ IsFiniteSet(DirtyBlocks(few))
         /\ \A o : Dirty(few, o) \subseteq Dirty(more, o)
         /\ \A o : Few(more, o) => Few(few, o)
<1>1. DirtyBlocks(few) \subseteq DirtyBlocks(more)
  BY DEF DirtyBlocks
<1>2. IsFiniteSet(DirtyBlocks(few))
  BY <1>1, FS_Subset
<1>3. ASSUME NEW o
      PROVE  Dirty(few, o) \subseteq Dirty(more, o) /\ (Few(more, o) => Few(few, o))
  <2>1. Dirty(few, o) \subseteq Dirty(more, o) /\ Dirty(more, o) \subseteq DirtyBlocks(more)
    BY DEF Dirty, DirtyBlocks, BlocksOf
  <2>2. IsFiniteSet(Dirty(more, o))
    BY <2>1, FS_Subset
  <2>3. /\ Cardinality(Dirty(few, o)) <= Cardinality(Dirty(more, o))
        /\ Cardinality(Dirty(few, o)) \in Nat /\ Cardinality(Dirty(more, o)) \in Nat
    BY <2>1, <2>2, FS_Subset, FS_CardinalityType
  <2> QED
    BY <2>1, <2>3, StoreAssumption DEF Few
<1> QED
  BY <1>2, <1>3

LEMMA NothingDirty == \A entries, o : Dirty(entries, o) = {} => Few(entries, o)
BY FS_EmptySet, StoreAssumption DEF Few

LEMMA DirtyStep ==
  ASSUME Cleans, TypeInv, OwnInv, DirtyInv, [Next]_vars
  PROVE  DirtyInv'
<1>1. CASE UNCHANGED <<cache, call>>
  BY <1>1 DEF DirtyInv, DirtyBlocks, Few, Dirty, BlocksOf, Cleaning
<1>2. ASSUME NEW t \in Threads, Begin(t) \/ Step(t) \/ DiskError(t)
      PROVE  DirtyInv'
  <2> DEFINE c == call[t]
             d == call'[t]
             Cleaner(o) == \E u \in Threads \ {t} :
                             call[u].origin = o /\ Cleaning(call[u], cache)
             Clearing(o) == \/ Few(cache', o)
                            \/ \E u \in Threads :
                                 call'[u].origin = o /\ Cleaning(call'[u], cache')
  <2>1. c \in Call /\ Fit(c) /\ Own(c) /\ IsFiniteSet(DirtyBlocks(cache))
    BY Typing DEF OwnInv, DirtyInv
  <2>2. \A o \in Owned :
          Few(cache, o) \/ (c.origin = o /\ Cleaning(c, cache)) \/ Cleaner(o)
    BY DEF DirtyInv
  <2>11. ASSUME NEW o, Dirty(cache', o) \subseteq Dirty(cache, o), Cleaner(o)
         PROVE  Clearing(o)
    <3>1. PICK u \in Threads \ {t} : call[u].origin = o /\ Cleaning(call[u], cache)
      BY <2>11
    <3>2. call'[u] = call[u]
      BY <1>2, OthersStay
    <3>3. Cleaning(call[u], cache')
      BY <2>11, <3>1 DEF Cleaning
    <3> QED
      BY <3>1, <3>2, <3>3
  <2>12. ASSUME d.origin = c.origin, Cleaning(d, cache')
         PROVE  Clearing(c.origin)
    BY <2>12
  <2>3. ASSUME IsFiniteSet(DirtyBlocks(cache')), \A o \in Owned : Clearing(o)
        PROVE  DirtyInv'
    BY <2>3 DEF DirtyInv, DirtyBlocks, Few, Dirty, BlocksOf, Cleaning
  <2> HIDE DEF Clearing, Cleaner
  <2>4. ASSUME \A k \in Keys : cache'[k].dirty => cache[k].dirty,
               Cleaning(c, cache) => (d.origin = c.origin /\ Cleaning(d, cache'))
                                     \/ Dirty(cache', c.origin) = {}
        PROVE  DirtyInv'
    <3>1. /\ IsFiniteSet(DirtyBlocks(cache'))
          /\ \A o : Dirty(cache', o) \subseteq Dirty(cache, o) /\ (Few(cache, o) => Few(cache', o))
      BY <2>1, <2>4, FewerDirty
    <3>2. ASSUME NEW o \in Owned
          PROVE  Clearing(o)
      <4>1. CASE c.origin = o /\ Cleaning(c, cache)
        <5>1. CASE Dirty(cache', o) = {}
          BY <5>1, NothingDirty DEF Clearing
        <5> QED
          BY <2>4, <2>12, <4>1, <5>1
      <4>2. CASE Cleaner(o)
        BY <2>11, <3>1, <4>2
      <4>3. CASE Few(cache, o)
        BY <3>1, <4>3 DEF Clearing
      <4> QED
        BY <2>2, <4>1, <4>2, <4>3
    <3> QED
      BY <2>3, <3>1, <3>2
  <2>5. ASSUME UNCHANGED cache, Cleaning(c, cache) => (d.origin = c.origin /\ Cleaning(d, cache))
        PROVE  DirtyInv'
    BY <2>4, <2>5
  <2>6. CASE Aside(t)
    <3>1. UNCHANGED cache
      BY <2>6, MemoryStays DEF memory
    <3>2. CASE CountDirty(t)
      <4>1. CASE Return(t) /\ Few(cache, c.origin)
        <5>1. \A o \in Owned : Few(cache, o) \/ Cleaner(o)
          BY <2>2, <4>1
        <5>2. \A o \in Owned : Few(cache, o) => Clearing(o)
          BY <3>1 DEF Clearing
        <5> QED
          BY <2>1, <2>3, <2>11, <3>1, <5>1, <5>2
      <4>2. CASE Goto(t, "collect")
        BY <2>5, <3>1, <4>2, GotoMoves DEF Moved, Cleaning
      <4>3. WriteBackDue(cache, c.origin) \/ Few(cache, c.origin)
        <5>1. Dirty(cache, c.origin) \subseteq DirtyBlocks(cache)
          BY DEF Dirty, DirtyBlocks, BlocksOf
        <5>2. Cardinality(Dirty(cache, c.origin)) \in Nat
          BY <2>1, <5>1, FS_Subset, FS_CardinalityType
        <5> QED
          BY <5>2, StoreAssumption DEF WriteBackDue, Few
      <4> QED
        BY <3>2, <4>1, <4>2, <4>3 DEF CountDirty
    <3>3. CASE Collect(t)
      <4>1. Moved(t, "base", Cached \cap BlocksOf(c.origin), c.data, c.old, c.pinned)
        BY <3>3, FlushMoves
      <4>2. Dirty(cache, c.origin) \subseteq Cached \cap BlocksOf(c.origin)
        BY EntryFields DEF Dirty, Cached, BlocksOf
      <4> QED
        BY <2>5, <3>1, <4>1, <4>2 DEF Moved, Cleaning
    <3>4. CASE FlushBase(t)
      <4>1. c.at = "base" /\ (c.keys = {} \/ \E data : Moved(t, "lock", c.keys, data, {}, c.pinned))
        BY <3>4, FlushMoves DEF FlushBase, At
      <4>2. CASE c.keys = {}
        <5>1. Cleaning(c, cache) => Dirty(cache, c.origin) = {}
          BY <4>1, <4>2 DEF Cleaning
        <5> QED
          BY <2>4, <3>1, <5>1
      <4>3. CASE \E data : Moved(t, "lock", c.keys, data, {}, c.pinned)
        BY <2>5, <3>1, <4>1, <4>3 DEF Moved, Cleaning
      <4> QED
        BY <4>1, <4>2, <4>3
    <3>5. CASE FlushLock(t)
      <4>1. c.at = "lock" /\ Goto(t, "write")
        BY <3>5 DEF FlushLock, At
      <4> QED
        BY <2>5, <3>1, <4>1, GotoMoves DEF Moved, Cleaning
    <3>6. ASSUME ~CountDirty(t), ~Collect(t), ~FlushBase(t), ~FlushLock(t)
          PROVE  ~Cleaning(c, cache)
      <4>1. Begin(t) => ~Cleaning(c, cache)
        BY BeginMoves, NoCallFields DEF Cleaning
      <4>2. DiskError(t) => ~Cleaning(c, cache)
        BY StoreAssumption DEF DiskError, Cleans, Cleaning
      <4> QED
        BY <2>6, <3>6, <4>1, <4>2 DEF Aside, Cleaning, At, ReadPins, Lookup, LoadManifest, LoadedAll,
           LoadBlob, EnforcePins, SaveManifest, ScanReferenced, DeleteBlob, Stats, StatsPins
    <3> QED
      BY <2>5, <3>1, <3>2, <3>3, <3>4, <3>5, <3>6
  <2>7. CASE Stage(t)
    <3>1. c.at = "stage" /\ c.op \in Stores /\ IsFiniteSet(c.keys) /\ c.keys \subseteq BlocksOf(c.origin)
      BY <2>1, <2>7 DEF Stage, At, Fit, Own
    <3>2. \A k \in Keys : cache'[k].dirty => cache[k].dirty \/ k \in c.keys
      BY <2>7, EntriesMove
    <3>3. IsFiniteSet(DirtyBlocks(cache'))
      <4>1. DirtyBlocks(cache') \subseteq DirtyBlocks(cache) \cup c.keys
        BY <3>2 DEF DirtyBlocks
      <4>2. IsFiniteSet(DirtyBlocks(cache) \cup c.keys)
        BY <2>1, <3>1, FS_Union
      <4> QED
        BY <4>1, <4>2, FS_Subset
    <3>4. \A o \in Owned : o # c.origin => Clearing(o)
      <4>1. ASSUME NEW o \in Owned, o # c.origin
            PROVE  Clearing(o)
        <5>2. \A k \in BlocksOf(o) : cache'[k] = cache[k] /\ k \in Keys
          BY <2>7, <3>1, <4>1, EntriesMove DEF BlocksOf
        <5>3. Dirty(cache', o) = Dirty(cache, o)
          BY <5>2 DEF Dirty
        <5>4. Few(cache, o) => Few(cache', o)
          BY <5>3 DEF Few
        <5>5. Few(cache, o) \/ Cleaner(o)
          BY <2>2, <4>1
        <5>6. Few(cache', o) => Clearing(o)
          BY DEF Clearing
        <5> QED
          BY <2>11, <5>3, <5>4, <5>5, <5>6
      <4> QED
        BY <4>1
    <3>5. Clearing(c.origin)
      <4>1. CASE c.op = "store_blocks"
        <5>1. Goto(t, "count")
          BY <2>7, <4>1 DEF Stage
        <5> QED
          BY <2>12, <5>1, GotoMoves DEF Moved, Cleaning
      <4>2. CASE c.op # "store_blocks"
        <5>1. cache' = Staged(t)
          BY <2>7 DEF Stage
        <5>2. Goto(t, "collect") \/ ~WriteBackDue(cache', c.origin)
          BY <2>7, <4>2, <5>1 DEF Stage
        <5>3. Dirty(cache', c.origin) \subseteq DirtyBlocks(cache')
          BY DEF Dirty, DirtyBlocks, BlocksOf
        <5>4. Cardinality(Dirty(cache', c.origin)) \in Nat
          BY <3>3, <5>3, FS_Subset, FS_CardinalityType
        <5>5. ~WriteBackDue(cache', c.origin) => Few(cache', c.origin)
          BY <5>4, StoreAssumption DEF WriteBackDue, Few
        <5>6. Goto(t, "collect") => d.origin = c.origin /\ Cleaning(d, cache')
          BY GotoMoves DEF Moved, Cleaning
        <5>7. Few(cache', c.origin) => Clearing(c.origin)
          BY DEF Clearing
        <5> QED
          BY <2>12, <5>2, <5>5, <5>6, <5>7
      <4> QED
        BY <4>1, <4>2
    <3>6. \A o \in Owned : Clearing(o)
      BY <3>4, <3>5
    <3> QED
      BY <2>3, <3>3, <3>6
  <2>8. CASE Insert(t) \/ Evict(t) \/ Trim(t)
    <3>1. ~Cleaning(c, cache)
      BY <2>8 DEF Insert, Evict, Trim, At, Cleaning
    <3>2. \A k \in Keys : cache'[k].dirty => cache[k].dirty
      BY <2>8, EntriesMove, EntryFields
    <3> QED
      BY <2>4, <3>1, <3>2
  <2>9. ASSUME NEW k \in Keys, PinBlock(t, k) \/ UnpinBlock(t, k)
        PROVE  DirtyInv'
    <3>1. ~Cleaning(c, cache)
      BY <2>9 DEF PinBlock, UnpinBlock, At, Cleaning
    <3>2. \A j \in Keys : cache'[j].dirty = cache[j].dirty
      BY <2>9, FlagsMove
    <3> QED
      BY <2>4, <3>1, <3>2
  <2>10. ASSUME NEW k \in Keys, FlushBlock(t, k)
         PROVE  DirtyInv'
    <3>1. \A j \in Keys : cache'[j].dirty = (j # k /\ cache[j].dirty)
      BY <2>10, FlagsMove
    <3>2. c.at = "write" /\ k \in c.keys
      BY <2>10 DEF FlushBlock, At
    <3>3. \/ c.keys = {k}
          \/ d.at = "write" /\ d.origin = c.origin /\ d.keys = c.keys \ {k}
      <4>1. PICK data, old : NextBlock(t, k, data, old)
        BY <2>10 DEF FlushBlock
      <4> DEFINE place == IF c.keys = {k} THEN "save" ELSE "write"
      <4>2. Moved(t, place, c.keys \ {k}, data, old, c.pinned)
        BY <4>1, FlushMoves
      <4> QED
        BY <4>2 DEF Moved
    <3>4. Dirty(cache', c.origin) = Dirty(cache, c.origin) \ {k}
      BY <3>1 DEF Dirty, BlocksOf
    <3>5. Cleaning(c, cache) => Dirty(cache', c.origin) \subseteq c.keys \ {k}
      BY <3>2, <3>4 DEF Cleaning
    <3>6. Cleaning(c, cache) => (d.origin = c.origin /\ Cleaning(d, cache'))
                                \/ Dirty(cache', c.origin) = {}
      BY <3>3, <3>5 DEF Cleaning
    <3> QED
      BY <2>4, <3>1, <3>6
  <2> QED
    BY <1>2, <2>6, <2>7, <2>8, <2>9, <2>10, StepsSplit
<1>3. CASE Crash
  <2>1. \A k \in Keys : ~cache'[k].dirty
    BY <1>3, EntryFields DEF Crash
  <2>2. DirtyBlocks(cache') = {} /\ \A o : Dirty(cache', o) = {}
    BY <2>1 DEF DirtyBlocks, Dirty, BlocksOf
  <2>3. IsFiniteSet(DirtyBlocks(cache')) /\ \A o : Few(cache', o)
    BY <2>2, FS_EmptySet, NothingDirty
  <2> QED
    BY <2>3 DEF DirtyInv, DirtyBlocks, Few, Dirty, BlocksOf
<1> QED
  BY <1>1, <1>2, <1>3 DEF Next, vars, memory, SetCapacity

\* Between calls an origin has fewer dirty blocks than the threshold, however
\* calls overlap, if no file operation fails that leaves a block dirty.
THEOREM DirtyStaysBounded == Cleans => (Spec => []DirtyBounded)
<1> SUFFICES ASSUME Cleans
             PROVE  Spec => []DirtyBounded
  OBVIOUS
<1> DEFINE Inv == TypeInv /\ OwnInv /\ DirtyInv
<1>1. Init => Inv
  <2> SUFFICES ASSUME Init PROVE DirtyInv
    BY SerialStart
  <2>1. \A k \in Keys : ~cache[k].dirty
    BY EntryFields DEF Init
  <2>2. DirtyBlocks(cache) = {} /\ \A o : Dirty(cache, o) = {}
    BY <2>1 DEF DirtyBlocks, Dirty, BlocksOf
  <2> QED
    BY <2>2, FS_EmptySet, NothingDirty DEF DirtyInv
<1>2. Inv /\ [Next]_vars => Inv'
  BY TypeStep, OwnStep, DirtyStep
<1>3. Inv => DirtyBounded
  <2> SUFFICES ASSUME DirtyInv, Idle, NEW k \in Keys
               PROVE  Cardinality(Dirty(cache, OriginOf[k])) < Threshold
    BY DEF DirtyBounded
  <2>1. \A t \in Threads : ~Cleaning(call[t], cache)
    BY NoCallFields DEF Idle, Cleaning
  <2> QED
    BY <2>1 DEF DirtyInv, Owned, Few
<1> QED
  BY <1>1, <1>2, <1>3, PTL DEF Spec

-----------------------------------------------------------------------------
(***************************************************************************)
(* What is on the disk for nothing.  Every blob is named by a manifest, or *)
(* by the flush that writes it or is about to delete it, or was left       *)
(* behind by a crash or an error.                                          *)
(***************************************************************************)
Named(c) == {c.data[k] : k \in BlocksOf(c.origin)}
Handled(c) == IF c.at \in Saving THEN c.old \cup Named(c)
              ELSE IF c.at \in {"scan", "delete"} THEN c.old ELSE {}

\* What the flush will not name any more, it will look at before it ends.
Superseding(c, named) == c.at \in Saving =>
  \A k \in BlocksOf(c.origin) : named[k] \in c.old \cup {c.data[k], None}

BlobInv ==
  /\ files \subseteq Referenced \cup orphans \cup UNION {Handled(call[t]) : t \in Threads}
  /\ \A t \in Threads : Superseding(call[t], manifests)

LEMMA NoCallHandles == Handled(NoCall) = {} /\ \A named : Superseding(NoCall, named)
BY NoCallFields DEF Handled, Superseding, Saving

LEMMA BlobStep ==
  ASSUME Serial, TypeInv, ReadInv, OwnInv, BlobInv, [Next]_vars
  PROVE  BlobInv'
<1>1. CASE UNCHANGED <<disk, call, orphans>>
  BY <1>1 DEF BlobInv, Referenced, Handled, Named, Superseding, BlocksOf, disk
<1>2. ASSUME NEW t \in Threads,
             ((Begin(t) \/ Step(t)) /\ UNCHANGED orphans) \/ DiskError(t)
      PROVE  BlobInv'
  <2> DEFINE c == call[t]
             d == call'[t]
             named == {manifests'[k] : k \in Keys} \ {None}
  <2>1. c \in Call /\ Superseding(c, manifests) /\ None \notin files
    BY Typing, StoreAssumption DEF BlobInv, StoreTyped
  <2>2. files \subseteq Referenced \cup orphans \cup Handled(c)
    <3>1. \A u \in Threads : u # t => Handled(call[u]) = {}
      BY <1>2, Alone, NoCallHandles DEF Lone
    <3> QED
      BY <3>1 DEF BlobInv
  <2>3. ASSUME files' \subseteq named \cup orphans' \cup Handled(d), Superseding(d, manifests')
        PROVE  BlobInv'
    <3>1. \A u \in Threads : u # t => call'[u] = NoCall
      BY <1>2, Alone
    <3>2. \A u \in Threads : Superseding(call'[u], manifests')
      BY <2>3, <3>1, NoCallHandles
    <3>3. Referenced' = named
      BY DEF Referenced
    <3>4. files' \subseteq Referenced' \cup orphans' \cup UNION {Handled(call'[u]) : u \in Threads}
      BY <2>3, <3>3
    <3> QED
      BY <3>2, <3>4 DEF BlobInv, Handled, Named, Superseding, BlocksOf
  <2>4. UNCHANGED manifests => named = Referenced
    BY DEF Referenced
  <2> HIDE DEF named
  <2>5. ASSUME UNCHANGED disk, UNCHANGED orphans, c.at \notin OnDisk, d.at \notin OnDisk
        PROVE  BlobInv'
    BY <2>2, <2>3, <2>4, <2>5 DEF disk, OnDisk, Handled, Superseding
  <2>6. CASE Quiet(t) /\ UNCHANGED orphans
    <3>1. c.at \notin OnDisk /\ UNCHANGED disk
      BY <2>6, QuietMoves
    <3>2. d.at \notin OnDisk
      <4>1. AfterPins(t) \notin OnDisk \/ c.at # "pins"
        BY Typing DEF AfterPins, Fit, PinReaders, Stores, Loads, OnDisk, Saving
      <4> QED
        BY <2>6, <4>1, QuietMoves, NoCallFields DEF OnDisk, Saving
    <3> QED
      BY <2>5, <2>6, <3>1, <3>2
  <2>7. CASE Begin(t) /\ UNCHANGED orphans
    BY <2>5, <2>7, BeginMoves, NoCallFields DEF Fresh, OnDisk, Saving
  <2>8. CASE DiskError(t)
    <3>1. d = NoCall
      BY <2>8, ReturnMoves DEF DiskError
    <3>2. files' = files /\ UNCHANGED manifests /\ files \subseteq Referenced \cup orphans'
      BY <2>8 DEF DiskError, disk
    <3> QED
      BY <2>3, <2>4, <3>1, <3>2, NoCallHandles
  <2>9. CASE FlushBase(t) /\ UNCHANGED orphans
    <3> DEFINE data == [k \in Keys |-> IF k \in BlocksOf(c.origin) THEN manifests[k] ELSE None]
    <3>1. UNCHANGED disk /\ c.at = "base"
      BY <2>9 DEF FlushBase, At
    <3>2. Return(t) \/ Moved(t, "lock", c.keys, data, {}, c.pinned)
      BY <2>9, FlushMoves
    <3>3. CASE Return(t)
      BY <2>5, <2>9, <3>1, <3>3, ReturnMoves DEF OnDisk, Saving
    <3>4. CASE Moved(t, "lock", c.keys, data, {}, c.pinned)
      <4>1. d.at = "lock" /\ d.data = data /\ d.origin = c.origin
        BY <3>4 DEF Moved
      <4>2. \A k \in BlocksOf(d.origin) : manifests[k] = d.data[k]
        BY <4>1 DEF BlocksOf
      <4>3. Superseding(d, manifests')
        BY <3>1, <4>2 DEF Superseding, disk
      <4>4. Handled(c) = {}
        BY <3>1 DEF Handled, Saving
      <4> QED
        BY <2>2, <2>3, <2>4, <2>9, <3>1, <4>3, <4>4 DEF disk
    <3> QED
      BY <3>2, <3>3, <3>4
  <2>10. CASE FlushLock(t) /\ UNCHANGED orphans
    <3>1. UNCHANGED disk /\ c.at = "lock" /\ Moved(t, "write", c.keys, c.data, c.old, c.pinned)
      BY <2>10, GotoMoves DEF FlushLock, At
    <3>2. Handled(d) = Handled(c) /\ Superseding(d, manifests)
      BY <2>1, <3>1 DEF Moved, Handled, Named, Superseding, Saving
    <3> QED
      BY <2>2, <2>3, <2>4, <2>10, <3>1, <3>2 DEF disk
  <2>11. ASSUME NEW k \in Keys, FlushBlock(t, k), UNCHANGED orphans
         PROVE  BlobInv'
    <3>1. c.at \in Saving /\ UNCHANGED manifests
      BY <2>11 DEF FlushBlock, At, Saving
    <3>2. ASSUME NEW data, NEW old, NextBlock(t, k, data, old),
                 files' \subseteq Referenced \cup orphans \cup old \cup {data[j] : j \in BlocksOf(c.origin)},
                 \A j \in BlocksOf(c.origin) : manifests[j] \in old \cup {data[j], None}
          PROVE  BlobInv'
      <4> DEFINE place == IF c.keys = {k} THEN "save" ELSE "write"
      <4>1. Moved(t, place, c.keys \ {k}, data, old, c.pinned)
        BY <3>2, FlushMoves
      <4>2. place \in Saving
        BY DEF Saving
      <4> HIDE DEF place
      <4>3. d.at \in Saving /\ d.data = data /\ d.old = old /\ d.origin = c.origin
        BY <4>1, <4>2 DEF Moved
      <4>4. Handled(d) = old \cup {data[j] : j \in BlocksOf(c.origin)}
        BY <4>3 DEF Handled, Named
      <4>5. Superseding(d, manifests)
        BY <3>2, <4>3 DEF Superseding
      <4> QED
        BY <2>3, <2>4, <2>11, <3>1, <3>2, <4>4, <4>5
    <3>3. /\ files \subseteq Referenced \cup orphans \cup c.old \cup Named(c)
          /\ \A j \in BlocksOf(c.origin) : manifests[j] \in c.old \cup {c.data[j], None}
      BY <2>1, <2>2, <3>1 DEF Handled, Superseding
    <3>4. CASE ~cache[k].dirty
      <4>1. NextBlock(t, k, c.data, c.old) /\ UNCHANGED files
        BY <2>11, <3>4 DEF FlushBlock
      <4> QED
        BY <3>2, <3>3, <4>1 DEF Named
    <3>5. CASE cache[k].dirty
      <4> DEFINE blob == cache[k].bytes
                 data == [c.data EXCEPT ![k] = blob]
                 old == c.old \cup ({c.data[k]} \ {None, blob})
      <4>1. NextBlock(t, k, data, old) /\ files' = files \cup {blob}
        BY <2>11, <3>5 DEF FlushBlock
      <4>2. \A j \in Keys : data[j] = IF j = k THEN blob ELSE c.data[j]
        BY <2>1 DEF Call
      <4>3. k \in BlocksOf(c.origin) /\ \A j \in BlocksOf(c.origin) : j \in Keys
        BY <2>11 DEF FlushBlock, OwnInv, Own, BlocksOf
      <4>4. data[k] = blob
        BY <4>2
      <4>5. \A j \in BlocksOf(c.origin) : data[j] = c.data[j] \/ c.data[j] \in old \cup {data[j], None}
        BY <4>2, <4>3
      <4> HIDE DEF data
      <4>6. \A j \in BlocksOf(c.origin) : manifests[j] \in old \cup {data[j], None}
        BY <3>3, <4>5
      <4>7. files' \subseteq Referenced \cup orphans \cup old \cup {data[j] : j \in BlocksOf(c.origin)}
        <5>1. ASSUME NEW x \in Named(c), x # None
              PROVE  x \in old \cup {data[j] : j \in BlocksOf(c.origin)}
          BY <4>5, <5>1 DEF Named
        <5>2. blob \in {data[j] : j \in BlocksOf(c.origin)}
          BY <4>3, <4>4
        <5> QED
          BY <2>1, <3>3, <4>1, <5>1, <5>2
      <4> QED
        BY <3>2, <4>1, <4>6, <4>7
    <3> QED
      BY <2>11, <3>4, <3>5
  <2>12. CASE SaveManifest(t) /\ UNCHANGED orphans
    <3>1. c.at \in Saving /\ UNCHANGED files
      BY <2>12 DEF SaveManifest, At, Saving
    <3>2. manifests' = [k \in Keys |-> IF k \in BlocksOf(c.origin) THEN c.data[k] ELSE manifests[k]]
      BY <2>12 DEF SaveManifest
    <3>3. \/ c.old = {} /\ d.at = "enforce"
          \/ d.at = "scan" /\ d.old = c.old
      BY <2>12, GotoMoves DEF SaveManifest, Moved
    <3>4. Handled(d) = c.old /\ Superseding(d, manifests')
      BY <3>3 DEF Handled, Superseding, Saving
    <3>5. ASSUME NEW x \in files
          PROVE  x \in named \cup orphans \cup c.old
      <4>1. x # None /\ x \in Referenced \cup orphans \cup c.old \cup Named(c)
        BY <2>1, <2>2, <3>1 DEF Handled
      <4>2. CASE x \in Named(c)
        <5>1. PICK k \in BlocksOf(c.origin) : x = c.data[k]
          BY <4>2 DEF Named
        <5>2. k \in Keys /\ manifests'[k] = x
          BY <3>2, <5>1 DEF BlocksOf
        <5> QED
          BY <4>1, <5>2 DEF named
      <4>3. CASE x \in Referenced
        <5>1. PICK k \in Keys : x = manifests[k]
          BY <4>3 DEF Referenced
        <5>2. k \in BlocksOf(c.origin) => x \in c.old \/ x = manifests'[k]
          BY <2>1, <3>1, <3>2, <4>1, <5>1 DEF Superseding
        <5>3. k \notin BlocksOf(c.origin) => x = manifests'[k]
          BY <3>2, <5>1
        <5> QED
          BY <4>1, <5>1, <5>2, <5>3 DEF named
      <4> QED
        BY <4>1, <4>2, <4>3
    <3> QED
      BY <2>3, <2>12, <3>1, <3>4, <3>5
  <2>13. CASE (ScanReferenced(t) \/ \E b \in Payloads : DeleteBlob(t, b)) /\ UNCHANGED orphans
    <3>1. c.at \in {"scan", "delete"} /\ UNCHANGED manifests /\ Handled(c) = c.old
      BY <2>13 DEF ScanReferenced, DeleteBlob, At, Handled, Saving, disk
    <3>2. ASSUME NEW place \in {"enforce", "delete"}, NEW gone, place = "enforce" => c.old \subseteq gone,
                 Moved(t, place, c.keys, c.data, c.old \ gone, c.pinned),
                 files' \subseteq files, \A x \in files' : x \in gone => x \in Referenced
          PROVE  BlobInv'
      <4>1. Superseding(d, manifests')
        BY <3>2 DEF Moved, Superseding, Saving
      <4>2. c.old \ gone \subseteq Handled(d)
        BY <3>2 DEF Moved, Handled, Saving
      <4> QED
        BY <2>2, <2>3, <2>4, <2>13, <3>1, <3>2, <4>1, <4>2
    <3>3. CASE ScanReferenced(t)
      <4> DEFINE place == IF c.old \subseteq Referenced THEN "enforce" ELSE "delete"
      <4>1. Moved(t, place, c.keys, c.data, c.old \ Referenced, c.pinned)
        BY <3>3, FlushMoves
      <4>2. UNCHANGED files
        BY <3>3 DEF ScanReferenced, disk
      <4>3. place \in {"enforce", "delete"} /\ (place = "enforce" => c.old \subseteq Referenced)
        OBVIOUS
      <4> HIDE DEF place
      <4> QED
        BY <3>2, <4>1, <4>2, <4>3
    <3>4. ASSUME NEW b \in Payloads, DeleteBlob(t, b)
          PROVE  BlobInv'
      <4> DEFINE place == IF c.old = {b} THEN "enforce" ELSE "delete"
      <4>1. Moved(t, place, c.keys, c.data, c.old \ {b}, c.pinned)
        BY <3>4, FlushMoves
      <4>2. files' = files \ {b}
        BY <3>4 DEF DeleteBlob
      <4>3. place \in {"enforce", "delete"} /\ (place = "enforce" => c.old \subseteq {b})
        OBVIOUS
      <4> HIDE DEF place
      <4> QED
        BY <3>2, <4>1, <4>2, <4>3
    <3> QED
      BY <2>13, <3>3, <3>4
  <2> QED
    BY <1>2, <2>6, <2>7, <2>8, <2>9, <2>10, <2>11, <2>12, <2>13 DEF Step, Quiet
<1>3. CASE Crash
  <2>1. \A t \in Threads : call'[t] = NoCall
    BY <1>3 DEF Crash
  <2>2. Referenced' = Referenced /\ files' \subseteq Referenced \cup orphans'
    BY <1>3 DEF Crash, Referenced, disk
  <2>3. \A t \in Threads : Superseding(call'[t], manifests')
    BY <2>1, NoCallHandles
  <2> QED
    BY <2>2, <2>3 DEF BlobInv, Superseding, BlocksOf
<1> QED
  BY <1>1, <1>2, <1>3 DEF Next, vars, disk, SetCapacity

\* When calls do not overlap, a flush deletes all that it supersedes: between
\* calls the store keeps no blob that a manifest does not name, but those that
\* a crash or an error has left behind.
THEOREM SupersededBlobsGo == Serial => (Spec => []SupersededReclaimed)
<1> SUFFICES ASSUME Serial
             PROVE  Spec => []SupersededReclaimed
  OBVIOUS
<1> DEFINE Inv == TypeInv /\ ReadInv /\ OwnInv /\ BlobInv
<1>1. Init => Inv
  <2> SUFFICES ASSUME Init PROVE BlobInv
    BY SerialStart
  <2>1. files = {} /\ \A t \in Threads : call[t] = NoCall
    BY DEF Init
  <2> QED
    BY <2>1, NoCallHandles DEF BlobInv
<1>2. Inv /\ [Next]_vars => Inv'
  BY TypeStep, ReadStep, OwnStep, BlobStep
<1>3. Inv => SupersededReclaimed
  BY NoCallHandles DEF BlobInv, Idle, SupersededReclaimed
<1> QED
  BY <1>1, <1>2, <1>3, PTL DEF Spec

-----------------------------------------------------------------------------
(***************************************************************************)
(* What a reader sees.  A clean block has the content that its origin's    *)
(* manifest records, or is about to record; what a load is about to enter  *)
(* is recorded and is not cached.                                          *)
(***************************************************************************)
Hydrating(c) == c.op \in Loads /\ c.at \in {"pins", "read", "insert"}

Loading(c, entries, named) ==
  /\ c.at = "manifest" => \A k \in c.keys : entries[k] = Absent
  /\ Hydrating(c) => \A k \in Keys :
       c.data[k] # None => (entries[k] = Absent /\ c.data[k] = named[k])

Clean(entry) == entry # Absent /\ ~entry.dirty

Flushed(c, entries, named) == c.at \in Saving =>
  \A k \in BlocksOf(c.origin) :
    c.data[k] = IF Clean(entries[k]) THEN entries[k].bytes ELSE named[k]

Flushing(c, k) == c.at \in Saving /\ k \in BlocksOf(c.origin)

Matches(entries, named, k) == Clean(entries[k]) => entries[k].bytes = named[k]

CleanInv ==
  /\ \A t \in Threads : Loading(call[t], cache, manifests) /\ Flushed(call[t], cache, manifests)
  /\ \A k \in Keys : (\A t \in Threads : ~Flushing(call[t], k)) => Matches(cache, manifests, k)

\* A flush that fails after it has marked a block clean leaves it clean and
\* unrecorded.
Records == Serial /\ Faulty \cap {"write", "save"} = {}

LEMMA NoCallCleans ==
  \A entries, named : /\ Loading(NoCall, entries, named) /\ Flushed(NoCall, entries, named)
                      /\ \A k : ~Flushing(NoCall, k)
BY NoCallFields DEF Loading, Flushed, Flushing, Hydrating, Loads, Saving

\* A call at any other place has nothing to enter.
LEMMA NotLoading ==
  \A c, entries, named : c.at \notin {"manifest", "pins", "read", "insert"} => Loading(c, entries, named)
BY DEF Loading, Hydrating

LEMMA LoadingStep ==
  ASSUME NEW t \in Threads, TypeInv, Loading(call[t], cache, manifests),
         \/ ReadPins(t) \/ Lookup(t) \/ LoadManifest(t) \/ LoadedAll(t)
         \/ \E k \in Keys : LoadBlob(t, k)
  PROVE  Loading(call'[t], cache, manifests)
<1> DEFINE c == call[t]
           d == call'[t]
<1>1. c \in Call /\ Fit(c) /\ manifests \in [Keys -> Payloads \cup {None}]
  BY Typing DEF StoreTyped
<1>2. Return(t) => Loading(d, cache, manifests)
  BY ReturnMoves, NoCallCleans
<1>3. ASSUME Hydrating(c), d.data = c.data, d.at # "manifest"
      PROVE  Loading(d, cache, manifests)
  BY <1>3 DEF Loading
<1>4. CASE ReadPins(t)
  <2>1. c.at = "pins" /\ d.at = AfterPins(t) /\ d.op = c.op /\ d.data = c.data
    BY <1>4, PinMoves DEF ReadPins, At, Moved
  <2>2. CASE c.op \in Loads
    <3>1. Hydrating(c) /\ d.at # "manifest"
      BY <2>1, <2>2 DEF Hydrating, AfterPins, Loads
    <3> QED
      BY <1>3, <2>1, <3>1
  <2>3. CASE c.op \notin Loads
    <3>1. d.at \in {"stage", "pin", "unpin", "evict"}
      BY <1>1, <2>1, <2>3 DEF Fit, AfterPins, PinReaders, Stores, Loads
    <3> QED
      BY <3>1, NotLoading
  <2> QED
    BY <2>2, <2>3
<1>5. CASE Lookup(t)
  <2>1. Return(t) \/ Moved(t, "manifest", c.keys \ Cached, c.data, c.old, c.pinned)
    BY <1>5, LoadMoves
  <2>2. ASSUME Moved(t, "manifest", c.keys \ Cached, c.data, c.old, c.pinned)
        PROVE  Loading(d, cache, manifests)
    <3>1. d.at = "manifest" /\ d.keys = c.keys \ Cached
      BY <2>2 DEF Moved
    <3>2. \A k \in d.keys : cache[k] = Absent
      BY <1>1, <3>1 DEF Cached, Call
    <3> QED
      BY <3>1, <3>2 DEF Loading, Hydrating
  <2> QED
    BY <1>2, <2>1, <2>2
<1>6. CASE LoadManifest(t)
  <2> DEFINE found == {k \in c.keys : manifests[k] # None}
             place == IF c.op = "load_block" THEN "read" ELSE "pins"
             data == [k \in Keys |-> IF k \in found THEN manifests[k] ELSE None]
  <2>1. Return(t) \/ Moved(t, place, found, data, c.old, c.pinned)
    BY <1>6, LoadMoves
  <2>2. place # "manifest"
    OBVIOUS
  <2>3. \A k \in found : cache[k] = Absent
    BY <1>6 DEF LoadManifest, At, Loading
  <2>4. \A k \in Keys : data[k] # None => (cache[k] = Absent /\ data[k] = manifests[k])
    BY <2>3
  <2> HIDE DEF found, place, data
  <2>5. Moved(t, place, found, data, c.old, c.pinned) => Loading(d, cache, manifests)
    BY <2>2, <2>4 DEF Moved, Loading
  <2> QED
    BY <1>2, <2>1, <2>5
<1>7. CASE LoadedAll(t) \/ \E k \in Keys : LoadBlob(t, k)
  <2>1. Hydrating(c)
    BY <1>1, <1>7 DEF LoadedAll, LoadBlob, At, Fit, Hydrating
  <2>2. \/ Return(t)
        \/ \E place \in {"pins", "insert", "read"} : \E ks :
             Moved(t, place, ks, c.data, c.old, c.pinned)
    BY <1>7, LoadMoves, GotoMoves DEF LoadedAll
  <2> QED
    BY <1>2, <1>3, <2>1, <2>2 DEF Moved
<1> QED
  BY <1>4, <1>5, <1>6, <1>7

LEMMA CleanStep ==
  ASSUME Records, TypeInv, ReadInv, OwnInv, CleanInv, [Next]_vars
  PROVE  CleanInv'
<1>1. CASE UNCHANGED <<cache, disk, call>>
  BY <1>1 DEF CleanInv, Loading, Hydrating, Flushed, Flushing, Matches, Clean, BlocksOf, disk
<1>2. ASSUME NEW t \in Threads, Begin(t) \/ Step(t) \/ DiskError(t)
      PROVE  CleanInv'
  <2> DEFINE c == call[t]
             d == call'[t]
  <2>1. c \in Call /\ Fit(c) /\ Own(c)
    BY Typing DEF OwnInv
  <2>2. /\ Loading(c, cache, manifests) /\ Flushed(c, cache, manifests)
        /\ \A k \in Keys : ~Flushing(c, k) => Matches(cache, manifests, k)
    <3>1. \A u \in Threads, k \in Keys : u # t => ~Flushing(call[u], k)
      BY <1>2, Alone, NoCallCleans DEF Lone, Records
    <3>2. Loading(c, cache, manifests) /\ Flushed(c, cache, manifests)
      BY DEF CleanInv
    <3>3. ASSUME NEW k \in Keys, ~Flushing(c, k)
          PROVE  Matches(cache, manifests, k)
      BY <3>1, <3>3 DEF CleanInv
    <3> QED
      BY <3>2, <3>3
  <2>3. ASSUME Loading(d, cache', manifests'), Flushed(d, cache', manifests'),
               \A k \in Keys : ~Flushing(d, k) => Matches(cache', manifests', k)
        PROVE  CleanInv'
    <3>1. \A u \in Threads : u # t => call'[u] = NoCall
      BY <1>2, Alone DEF Records
    <3>2. \A u \in Threads : Loading(call'[u], cache', manifests') /\ Flushed(call'[u], cache', manifests')
      BY <2>3, <3>1, NoCallCleans
    <3>3. ASSUME NEW k \in Keys, \A u \in Threads : ~Flushing(call'[u], k)
          PROVE  Matches(cache', manifests', k)
      BY <2>3, <3>3
    <3> QED
      BY <3>2, <3>3 DEF CleanInv, Loading, Hydrating, Flushed, Flushing, Matches, Clean, BlocksOf
  \* Before and after a step of any other kind nothing is being saved.
  <2>4. ASSUME Loading(d, cache', manifests), UNCHANGED manifests,
               c.at \notin Saving, d.at \notin Saving,
               \A k \in Keys : Matches(cache, manifests, k) => Matches(cache', manifests, k)
        PROVE  CleanInv'
    <3>1. \A k \in Keys : Matches(cache', manifests', k)
      BY <2>2, <2>4 DEF Flushing
    <3> QED
      BY <2>3, <2>4, <3>1 DEF Flushed
  <2>5. ASSUME Loading(d, cache, manifests), UNCHANGED <<cache, manifests>>,
               c.at \notin Saving, d.at \notin Saving
        PROVE  CleanInv'
    BY <2>4, <2>5 DEF Matches
  <2>6. CASE Quiet(t)
    <3>1. UNCHANGED manifests /\ c.at \notin Saving /\ d.at \notin Saving
      <4>1. AfterPins(t) \notin Saving \/ c.at # "pins"
        BY <2>1 DEF AfterPins, Fit, PinReaders, Stores, Loads, Saving
      <4> QED
        BY <2>6, <4>1, QuietMoves, NoCallFields DEF OnDisk, Saving, disk
    <3>2. CASE ReadPins(t) \/ Lookup(t) \/ LoadManifest(t) \/ LoadedAll(t)
               \/ \E k \in Keys : LoadBlob(t, k)
      <4>1. UNCHANGED cache
        BY <3>2, MemoryStays DEF Aside, memory
      <4> QED
        BY <2>2, <2>5, <3>1, <3>2, <4>1, LoadingStep
    <3>3. CASE CountDirty(t) \/ EnforcePins(t) \/ Collect(t) \/ Stats(t) \/ StatsPins(t)
      <4>1. UNCHANGED cache
        BY <3>3, MemoryStays DEF Aside, memory
      <4>2. \/ Return(t)
            \/ \E place \in {"collect", "trim", "base", "stats_pins"} : \E ks, noted :
                 Moved(t, place, ks, c.data, c.old, noted)
        BY <3>3, PinMoves, FlushMoves, GotoMoves DEF CountDirty, Stats, StatsPins
      <4>3. Loading(d, cache, manifests)
        BY <4>2, ReturnMoves, NotLoading DEF Moved
      <4> QED
        BY <2>5, <3>1, <4>1, <4>3
    <3>4. CASE Stage(t) \/ Insert(t) \/ Evict(t) \/ Trim(t)
      <4>1. Return(t) \/ Goto(t, "count") \/ Goto(t, "collect") \/ Goto(t, "enforce")
        BY <3>4 DEF Stage, Insert, Evict, Trim
      <4>2. Loading(d, cache', manifests)
        BY <4>1, ReturnMoves, GotoMoves, NotLoading DEF Moved
      <4>3. ASSUME NEW k \in Keys, Matches(cache, manifests, k)
            PROVE  Matches(cache', manifests, k)
        <5>1. CASE Stage(t)
          BY <4>3, <5>1, EntriesMove DEF Matches, Clean
        <5>2. CASE Evict(t) \/ Trim(t)
          BY <4>3, <5>2, EntriesMove DEF Matches, Clean
        <5>3. CASE Insert(t)
          <6>1. Hydrating(c)
            BY <2>1, <5>3 DEF Insert, At, Own, Hydrating
          <6>2. c.data[k] # None => c.data[k] = manifests[k]
            BY <2>2, <6>1 DEF Loading
          <6> QED
            BY <4>3, <5>3, <6>2, EntriesMove DEF Matches, Clean
        <5> QED
          BY <3>4, <5>1, <5>2, <5>3
      <4> QED
        BY <2>4, <3>1, <4>2, <4>3
    <3>5. ASSUME NEW k \in Keys, PinBlock(t, k) \/ UnpinBlock(t, k)
          PROVE  CleanInv'
      <4>1. \/ Return(t)
            \/ \E place \in {"pin", "unpin", "enforce"} : \E ks :
                 Moved(t, place, ks, c.data, c.old, c.pinned)
        BY <3>5, PinMoves
      <4>2. Loading(d, cache', manifests)
        BY <4>1, ReturnMoves, NotLoading DEF Moved
      <4>3. \A j \in Keys : Kept(j) /\ cache'[j].dirty = cache[j].dirty
        BY <3>5, FlagsMove
      <4>4. \A j \in Keys : Matches(cache, manifests, j) => Matches(cache', manifests, j)
        BY <4>3 DEF Kept, Matches, Clean
      <4> QED
        BY <2>4, <3>1, <4>2, <4>4
    <3> QED
      BY <2>6, <3>2, <3>3, <3>4, <3>5 DEF Quiet
  <2>7. CASE Begin(t)
    <3>1. Fresh(d) /\ UNCHANGED <<cache, manifests>> /\ c = NoCall
      BY <2>7, BeginMoves DEF memory, disk
    <3>2. Loading(d, cache, manifests) /\ d.at \notin Saving /\ c.at \notin Saving
      BY <3>1, NoCallFields DEF Fresh, Loading, Hydrating, Saving
    <3> QED
      BY <2>5, <3>1, <3>2
  <2>8. CASE DiskError(t)
    <3>1. d = NoCall /\ UNCHANGED <<cache, manifests>>
      BY <2>8, ReturnMoves DEF DiskError, memory, disk
    <3>2. c.at \notin Saving /\ d.at \notin Saving
      BY <2>8, <3>1, NoCallFields, StoreAssumption DEF DiskError, Records, Saving
    <3> QED
      BY <2>5, <3>1, <3>2, NoCallCleans
  <2>9. CASE FlushBase(t)
    <3> DEFINE data == [k \in Keys |-> IF k \in BlocksOf(c.origin) THEN manifests[k] ELSE None]
    <3>1. UNCHANGED <<cache, manifests>> /\ c.at = "base"
      BY <2>9 DEF FlushBase, At, memory, disk
    <3>2. Return(t) \/ Moved(t, "lock", c.keys, data, {}, c.pinned)
      BY <2>9, FlushMoves
    <3>3. ASSUME Return(t) PROVE CleanInv'
      BY <2>5, <3>1, <3>3, ReturnMoves, NotLoading DEF Saving
    <3>4. ASSUME Moved(t, "lock", c.keys, data, {}, c.pinned) PROVE CleanInv'
      <4>1. d.at = "lock" /\ d.data = data /\ d.origin = c.origin
        BY <3>4 DEF Moved
      <4>2. \A k \in BlocksOf(d.origin) : d.data[k] = manifests[k] /\ k \in Keys
        BY <4>1 DEF BlocksOf
      <4>3. \A k \in Keys : Matches(cache, manifests, k)
        BY <2>2, <3>1 DEF Flushing, Saving
      <4>4. Flushed(d, cache, manifests)
        BY <4>2, <4>3 DEF Flushed, Matches
      <4>5. Loading(d, cache, manifests)
        BY <4>1, NotLoading
      <4> QED
        BY <2>3, <3>1, <4>3, <4>4, <4>5
    <3> QED
      BY <3>2, <3>3, <3>4
  <2>10. CASE FlushLock(t)
    <3>1. UNCHANGED <<cache, manifests>> /\ c.at = "lock" /\ Moved(t, "write", c.keys, c.data, c.old, c.pinned)
      BY <2>10, GotoMoves DEF FlushLock, At, memory, disk
    <3>2. Loading(d, cache, manifests)
      BY <3>1, NotLoading DEF Moved
    <3>3. Flushed(d, cache, manifests) /\ \A k : Flushing(d, k) <=> Flushing(c, k)
      BY <2>2, <3>1 DEF Moved, Flushed, Flushing, Saving
    <3> QED
      BY <2>2, <2>3, <3>1, <3>2, <3>3
  <2>11. ASSUME NEW k \in Keys, FlushBlock(t, k)
         PROVE  CleanInv'
    <3>1. c.at \in Saving /\ UNCHANGED manifests /\ k \in BlocksOf(c.origin)
      BY <2>1, <2>11 DEF FlushBlock, At, Saving, Own
    <3>2. ASSUME NEW data, NEW old, NextBlock(t, k, data, old),
                 \A j \in BlocksOf(c.origin) :
                   data[j] = IF Clean(cache'[j]) THEN cache'[j].bytes ELSE manifests[j],
                 \A j \in Keys \ BlocksOf(c.origin) : cache'[j] = cache[j]
          PROVE  CleanInv'
      <4> DEFINE place == IF c.keys = {k} THEN "save" ELSE "write"
      <4>1. Moved(t, place, c.keys \ {k}, data, old, c.pinned)
        BY <3>2, FlushMoves
      <4>2. place \in Saving /\ place \notin {"manifest", "pins", "read", "insert"}
        BY DEF Saving
      <4> HIDE DEF place
      <4>3. d.at = place /\ d.data = data /\ d.origin = c.origin
        BY <4>1 DEF Moved
      <4>4. Loading(d, cache', manifests)
        BY <4>2, <4>3, NotLoading
      <4>5. Flushed(d, cache', manifests)
        BY <3>2, <4>3 DEF Flushed
      <4>6. ASSUME NEW j \in Keys, ~Flushing(d, j)
            PROVE  Matches(cache', manifests, j)
        <5>1. j \notin BlocksOf(c.origin)
          BY <4>2, <4>3, <4>6 DEF Flushing
        <5>2. Matches(cache, manifests, j) /\ cache'[j] = cache[j]
          BY <2>2, <3>2, <5>1 DEF Flushing
        <5> QED
          BY <5>2 DEF Matches
      <4> QED
        BY <2>3, <3>1, <4>4, <4>5, <4>6
    <3>3. \A j \in BlocksOf(c.origin) :
            /\ j \in Keys
            /\ c.data[j] = IF Clean(cache[j]) THEN cache[j].bytes ELSE manifests[j]
      BY <2>2, <3>1 DEF Flushed, BlocksOf
    <3>4. CASE ~cache[k].dirty
      <4>1. NextBlock(t, k, c.data, c.old) /\ UNCHANGED cache
        BY <2>11, <3>4 DEF FlushBlock
      <4> QED
        BY <3>2, <3>3, <4>1
    <3>5. CASE cache[k].dirty
      <4> DEFINE blob == cache[k].bytes
                 data == [c.data EXCEPT ![k] = blob]
                 old == c.old \cup ({c.data[k]} \ {None, blob})
      <4>1. NextBlock(t, k, data, old) /\ cache' = [cache EXCEPT ![k].dirty = FALSE]
        BY <2>11, <3>5 DEF FlushBlock
      <4>2. \A j \in Keys : data[j] = IF j = k THEN blob ELSE c.data[j]
        BY <2>1 DEF Call
      <4>3. \A j \in Keys : j # k => cache'[j] = cache[j]
        BY <4>1, Typing DEF StoreTyped
      <4>4. Clean(cache'[k]) /\ cache'[k].bytes = blob
        <5>1. Kept(k) /\ cache'[k].dirty = FALSE
          BY <2>11, FlagsMove
        <5>2. cache[k] # Absent
          BY <3>5, EntryFields
        <5> QED
          BY <5>1, <5>2 DEF Kept, Clean
      <4> HIDE DEF data, old
      <4>5. \A j \in BlocksOf(c.origin) :
              data[j] = IF Clean(cache'[j]) THEN cache'[j].bytes ELSE manifests[j]
        BY <3>3, <4>2, <4>3, <4>4
      <4>6. \A j \in Keys \ BlocksOf(c.origin) : cache'[j] = cache[j]
        BY <3>1, <4>3
      <4> QED
        BY <3>2, <4>1, <4>5, <4>6
    <3> QED
      BY <3>4, <3>5
  <2>12. CASE SaveManifest(t)
    <3>1. c.at \in Saving /\ UNCHANGED cache
      BY <2>12 DEF SaveManifest, At, Saving, memory
    <3>2. manifests' = [k \in Keys |-> IF k \in BlocksOf(c.origin) THEN c.data[k] ELSE manifests[k]]
      BY <2>12 DEF SaveManifest
    <3>3. d.at \in {"enforce", "scan"}
      BY <2>12, GotoMoves DEF SaveManifest, Moved
    <3>4. ASSUME NEW k \in Keys
          PROVE  Matches(cache', manifests', k)
      <4>1. CASE k \in BlocksOf(c.origin)
        BY <2>2, <3>1, <3>2, <4>1 DEF Flushed, Matches
      <4>2. CASE k \notin BlocksOf(c.origin)
        <5>1. manifests'[k] = manifests[k] /\ Matches(cache, manifests, k)
          BY <2>2, <3>2, <4>2 DEF Flushing
        <5> QED
          BY <3>1, <5>1 DEF Matches
      <4> QED
        BY <4>1, <4>2
    <3>5. Loading(d, cache', manifests') /\ Flushed(d, cache', manifests')
      BY <3>3, NotLoading DEF Flushed, Saving
    <3> QED
      BY <2>3, <3>4, <3>5
  <2>13. CASE ScanReferenced(t) \/ \E b \in Payloads : DeleteBlob(t, b)
    <3>1. c.at \in {"scan", "delete"} /\ UNCHANGED <<cache, manifests>>
      BY <2>13 DEF ScanReferenced, DeleteBlob, At, memory, disk
    <3>2. \E place \in {"enforce", "delete"} : \E old : Moved(t, place, c.keys, c.data, old, c.pinned)
      BY <2>13, FlushMoves
    <3>3. d.at \in {"enforce", "delete"}
      BY <3>2 DEF Moved
    <3> QED
      BY <2>5, <3>1, <3>3, NotLoading DEF Saving
  <2> QED
    BY <1>2, <2>6, <2>7, <2>8, <2>9, <2>10, <2>11, <2>12, <2>13 DEF Step, Quiet
<1>3. CASE Crash
  <2>1. (\A t \in Threads : call'[t] = NoCall) /\ \A k \in Keys : cache'[k] = Absent
    BY <1>3 DEF Crash
  <2>2. \A t \in Threads : Loading(call'[t], cache', manifests') /\ Flushed(call'[t], cache', manifests')
    BY <2>1, NoCallCleans
  <2>3. \A k \in Keys : Matches(cache', manifests', k)
    BY <2>1 DEF Matches, Clean
  <2> QED
    BY <2>2, <2>3 DEF CleanInv, Loading, Hydrating, Flushed, Flushing, Matches, Clean, BlocksOf
<1> QED
  BY <1>1, <1>2, <1>3 DEF Next, vars, memory, SetCapacity

\* What a reader sees is what is cached, or else recorded; what a crash leaves
\* is what is recorded.
Shown(entries, named) == [k \in Keys |-> IF entries[k] # Absent THEN entries[k].bytes ELSE named[k]]

LEMMA ViewsAre ==
  ASSUME TypeInv, ReadInv
  PROVE  Seen = Shown(cache, manifests) /\ Durable = manifests
<1>1. \A k \in Keys : manifests[k] \in files \/ manifests[k] = None
  BY DEF ReadInv, Readable
<1>2. manifests \in [Keys -> Payloads \cup {None}]
  BY Typing DEF StoreTyped
<1>3. Durable = manifests
  BY <1>1, <1>2 DEF Durable
<1>4. Seen = Shown(cache, manifests)
  BY <1>1 DEF Seen, Shown, Cached
<1> QED
  BY <1>3, <1>4

\* The other steps lead to a step of a flush, or end the call.
LEMMA ElsewhereMoves ==
  ASSUME NEW t \in Threads, TypeInv, Step(t), ~Quiet(t)
  PROVE  call'[t].at \notin {"pins", "stage"}
<1> DEFINE c == call[t]
<1>1. ASSUME NEW place \in OnDisk \cup {"enforce"}, NEW ks, NEW data, NEW old, NEW noted,
             Moved(t, place, ks, data, old, noted)
      PROVE  call'[t].at \notin {"pins", "stage"}
  BY <1>1 DEF Moved, OnDisk, Saving
<1>2. CASE FlushBase(t)
  <2> DEFINE data == [k \in Keys |-> IF k \in BlocksOf(c.origin) THEN manifests[k] ELSE None]
  <2>1. Return(t) \/ Moved(t, "lock", c.keys, data, {}, c.pinned)
    BY <1>2, FlushMoves
  <2>2. "lock" \in OnDisk
    BY DEF OnDisk, Saving
  <2>3. CASE Return(t)
    BY <2>3, ReturnMoves
  <2>4. CASE Moved(t, "lock", c.keys, data, {}, c.pinned)
    <3> HIDE DEF data
    <3> QED
      BY <1>1, <2>2, <2>4
  <2> QED
    BY <2>1, <2>3, <2>4
<1>3. CASE FlushLock(t) \/ SaveManifest(t)
  BY <1>3, GotoMoves DEF FlushLock, SaveManifest, Moved
<1>4. ASSUME NEW k \in Keys, FlushBlock(t, k)
      PROVE  call'[t].at \notin {"pins", "stage"}
  <2>1. PICK data, old : NextBlock(t, k, data, old)
    BY <1>4 DEF FlushBlock
  <2>2. Moved(t, IF c.keys = {k} THEN "save" ELSE "write", c.keys \ {k}, data, old, c.pinned)
    BY <2>1, FlushMoves
  <2> QED
    BY <2>2 DEF Moved
<1>5. CASE ScanReferenced(t)
  <2>1. Moved(t, IF c.old \subseteq Referenced THEN "enforce" ELSE "delete",
              c.keys, c.data, c.old \ Referenced, c.pinned)
    BY <1>5, FlushMoves
  <2> QED
    BY <2>1 DEF Moved
<1>6. ASSUME NEW b \in Payloads, DeleteBlob(t, b)
      PROVE  call'[t].at \notin {"pins", "stage"}
  <2>1. Moved(t, IF c.old = {b} THEN "enforce" ELSE "delete", c.keys, c.data, c.old \ {b}, c.pinned)
    BY <1>6, FlushMoves
  <2> QED
    BY <2>1 DEF Moved
<1> QED
  BY <1>2, <1>3, <1>4, <1>5, <1>6 DEF Step, Quiet

\* Only the call that steps can ask for something else, and only when it begins
\* or puts its blocks in the cache.
LEMMA AskedMoves ==
  ASSUME Serial, TypeInv, ReadInv, NEW t \in Threads, Begin(t) \/ Step(t) \/ DiskError(t)
  PROVE  /\ ~Begin(t) /\ ~Stage(t) => Asked' = Asked
         /\ Begin(t) => Asked[t] = NoData
         /\ Stage(t) => Storing(t) /\ Asked'[t] = NoData
         /\ \A u \in Threads : u # t => Asked'[u] = Asked[u]
<1> DEFINE c == call[t]
           d == call'[t]
<1>1. c \in Call /\ Fit(c)
  BY Typing
<1>2. \A u \in Threads : u # t => Asked'[u] = Asked[u]
  BY OthersStay DEF Asked, Storing
<1>3. ASSUME Asked'[t] = Asked[t]
      PROVE  Asked' = Asked
  BY <1>2, <1>3 DEF Asked
<1>4. ASSUME ~Storing(t), d = NoCall \/ d.op \notin Stores \/ d.at \notin {"pins", "stage"}
      PROVE  Asked'[t] = Asked[t] /\ Asked'[t] = NoData
  BY <1>4, NoCallFields DEF Asked, Storing, Stores
<1>5. CASE Begin(t)
  <2>1. ~Storing(t)
    BY <1>5, BeginMoves, NoCallFields DEF Storing
  <2>2. ~Stage(t)
    BY <1>5, BeginMoves, NoCallFields DEF Stage, At
  <2> QED
    BY <1>2, <1>5, <2>1, <2>2 DEF Asked
<1>6. CASE Stage(t)
  <2>1. Storing(t) /\ ~Begin(t)
    <3>1. Storing(t)
      BY <1>1, <1>6 DEF Stage, At, Fit, Storing, Stores
    <3> QED
      BY <3>1, BeginMoves, NoCallFields DEF Storing
  <2>2. d = NoCall \/ d.at \in {"count", "collect"}
    BY <1>6, ReturnMoves, GotoMoves DEF Stage, Moved
  <2>3. Asked'[t] = NoData
    BY <2>2, NoCallFields DEF Asked, Storing
  <2> QED
    BY <1>2, <1>6, <2>1, <2>3
<1>7. CASE Step(t) /\ ~Stage(t)
  <2>1. ~Begin(t)
    <3>1. CASE Begin(t)
      BY <1>7, <3>1, BeginMoves, NoCallFields DEF Step, ReadPins, CountDirty, Lookup, LoadManifest,
         LoadBlob, LoadedAll, Insert, PinBlock, UnpinBlock, Evict, EnforcePins, Trim, Collect,
         FlushBase, FlushLock, FlushBlock, SaveManifest, ScanReferenced, DeleteBlob, Stats,
         StatsPins, At
    <3> QED
      BY <3>1
  <2>2. CASE Storing(t)
    <3>1. ReadPins(t)
      BY <1>7, <2>2 DEF Storing, Step, Stage, CountDirty, Lookup, LoadManifest,
         LoadBlob, LoadedAll, Insert, PinBlock, UnpinBlock, Evict, EnforcePins, Trim, Collect,
         FlushBase, FlushLock, FlushBlock, SaveManifest, ScanReferenced, DeleteBlob, Stats,
         StatsPins, At
    <3>2. d.op = c.op /\ d.at = AfterPins(t) /\ d.keys = c.keys /\ d.data = c.data
      BY <3>1, PinMoves DEF Moved
    <3>3. AfterPins(t) = "stage"
      BY <2>2 DEF Storing, AfterPins
    <3>4. Asked'[t] = Asked[t]
      BY <2>2, <3>2, <3>3 DEF Asked, Storing
    <3> QED
      BY <1>2, <1>3, <1>7, <2>1, <3>4
  <2>3. CASE ~Storing(t)
    <3>1. d = NoCall \/ d.op \notin Stores \/ d.at \notin {"pins", "stage"}
      <4>1. CASE Quiet(t)
        <5>1. CASE c.at = "pins" /\ d.at = AfterPins(t) /\ d.op = c.op
          <6>1. d.op \notin Stores
            BY <2>3, <5>1 DEF Storing, Stores
          <6> QED
            BY <6>1
        <5>2. CASE d.op = c.op /\ c.op \in Loads
          BY <5>2 DEF Stores, Loads
        <5> QED
          BY <4>1, <5>1, <5>2, QuietMoves
      <4>2. CASE ~Quiet(t)
        BY <1>7, <4>2, ElsewhereMoves
      <4> QED
        BY <4>1, <4>2
    <3>2. Asked'[t] = Asked[t]
      BY <1>4, <2>3, <3>1
    <3> QED
      BY <1>2, <1>3, <1>7, <2>1, <3>2
  <2> QED
    BY <2>2, <2>3
<1>8. CASE DiskError(t)
  <2>1. c.at \in Faulty /\ Return(t)
    BY <1>8 DEF DiskError
  <2>2. ~Storing(t) /\ ~Stage(t) /\ ~Begin(t)
    <3>1. c.at \notin {"pins", "stage", "idle"}
      BY <2>1, StoreAssumption
    <3>2. ~Begin(t)
      BY <3>1, BeginMoves, NoCallFields
    <3> QED
      BY <3>1, <3>2 DEF Storing, Stage, At
  <2>3. Asked'[t] = Asked[t]
    BY <1>4, <2>1, <2>2, ReturnMoves
  <2> QED
    BY <1>2, <1>3, <2>2, <2>3
<1> QED
  BY <1>5, <1>6, <1>7, <1>8

LEMMA WriteBackStep ==
  ASSUME Records, TypeInv, ReadInv, OwnInv, CleanInv, TypeInv', ReadInv', [Next]_vars
  PROVE  [W!Next]_<<Seen, Durable, Asked>>
<1>1. /\ Seen = Shown(cache, manifests) /\ Durable = manifests
      /\ Seen' = Shown(cache', manifests') /\ Durable' = manifests'
  <2>1. Seen = Shown(cache, manifests) /\ Durable = manifests
    BY ViewsAre
  <2>2. (Seen = Shown(cache, manifests) /\ Durable = manifests)'
    BY ViewsAre, PTL
  <2> QED
    BY <2>1, <2>2 DEF Shown
<1>2. ASSUME UNCHANGED <<manifests, Asked>>,
             \A k \in Keys : Shown(cache', manifests)[k] = Shown(cache, manifests)[k]
      PROVE  [W!Next]_<<Seen, Durable, Asked>>
  BY <1>1, <1>2 DEF Shown
<1>3. ASSUME UNCHANGED <<cache, manifests, Asked>>
      PROVE  [W!Next]_<<Seen, Durable, Asked>>
  BY <1>2, <1>3
<1>4. ASSUME NEW t \in Threads, Begin(t) \/ Step(t) \/ DiskError(t)
      PROVE  [W!Next]_<<Seen, Durable, Asked>>
  <2> DEFINE c == call[t]
  <2>1. c \in Call /\ Fit(c) /\ Own(c) /\ manifests \in [Keys -> Payloads \cup {None}]
    BY Typing DEF OwnInv, StoreTyped
  <2>2. /\ Loading(c, cache, manifests) /\ Flushed(c, cache, manifests)
        /\ c.at \notin Saving => \A k \in Keys : Matches(cache, manifests, k)
    <3>1. \A u \in Threads, k \in Keys : u # t => ~Flushing(call[u], k)
      BY <1>4, Alone, NoCallCleans DEF Lone, Records
    <3>2. ASSUME c.at \notin Saving, NEW k \in Keys
          PROVE  Matches(cache, manifests, k)
      BY <3>1, <3>2 DEF CleanInv, Flushing
    <3> QED
      BY <3>2 DEF CleanInv
  <2> DEFINE other == ~Begin(t) /\ ~Stage(t)
  <2>9. other => Asked' = Asked
    BY <1>4, AskedMoves DEF Records
  <2>3. CASE Stage(t)
    <3>1. UNCHANGED manifests /\ c.keys \subseteq Keys
      BY <2>1, <2>3 DEF Stage, disk, Call
    <3>2. \A k \in c.keys : c.data[k] # None
      <4>1. \A k \in c.keys : c.data[k] \in Payloads
        BY <2>3, <3>1, EntriesMove
      <4>2. None \notin Payloads
        BY StoreAssumption
      <4> QED
        BY <4>1, <4>2
    <3>3. Storing(t) /\ Asked'[t] = NoData /\ \A u \in Threads : u # t => Asked'[u] = Asked[u]
      BY <1>4, <2>3, AskedMoves DEF Records
    <3>4. Asked' = [Asked EXCEPT ![t] = NoData]
      BY <3>3 DEF Asked
    <3>5. \A k \in Keys : Asked[t][k] = IF k \in c.keys THEN c.data[k] ELSE None
      BY <3>3 DEF Asked
    <3>6. \A k \in Keys : Shown(cache', manifests)[k]
                           = IF k \in c.keys THEN c.data[k] ELSE Shown(cache, manifests)[k]
      BY <2>3, EntriesMove DEF Shown
    <3>7. Seen' = [k \in Keys |-> IF Asked[t][k] # None THEN Asked[t][k] ELSE Seen[k]]
      BY <1>1, <3>1, <3>2, <3>5, <3>6 DEF Shown
    <3>8. W!Store(t)
      BY <1>1, <3>1, <3>4, <3>7 DEF W!Store, W!Nothing, NoData
    <3> QED
      BY <3>8 DEF W!Next
  <2>4. CASE Insert(t) /\ other
    <3>1. UNCHANGED manifests
      BY <2>4 DEF Insert, disk
    <3>2. Hydrating(c)
      BY <2>1, <2>4 DEF Insert, At, Own, Hydrating
    <3>3. \A k \in Keys : c.data[k] # None => (cache[k] = Absent /\ c.data[k] = manifests[k])
      BY <2>2, <3>2 DEF Loading
    <3>4. \A k \in Keys : Shown(cache', manifests)[k] = Shown(cache, manifests)[k]
      BY <2>4, <3>3, EntriesMove DEF Shown
    <3> QED
      BY <1>2, <2>4, <2>9, <3>1, <3>4
  <2>5. CASE (Evict(t) \/ Trim(t)) /\ other
    <3>1. UNCHANGED manifests /\ c.at \notin Saving
      BY <2>5 DEF Evict, Trim, At, Saving, disk
    <3>2. \A k \in Keys : Shown(cache', manifests)[k] = Shown(cache, manifests)[k]
      BY <2>2, <2>5, <3>1, EntriesMove DEF Shown, Matches, Clean
    <3> QED
      BY <1>2, <2>5, <2>9, <3>1, <3>2
  <2>6. ASSUME NEW k \in Keys, PinBlock(t, k) \/ UnpinBlock(t, k) \/ FlushBlock(t, k), other
        PROVE  [W!Next]_<<Seen, Durable, Asked>>
    <3>1. UNCHANGED manifests
      BY <2>6 DEF PinBlock, UnpinBlock, FlushBlock, disk
    <3>2. \A j \in Keys : Kept(j)
      BY <2>6, FlagsMove
    <3>3. \A j \in Keys : Shown(cache', manifests)[j] = Shown(cache, manifests)[j]
      BY <3>2 DEF Shown, Kept
    <3> QED
      BY <1>2, <2>6, <2>9, <3>1, <3>3
  <2>7. CASE SaveManifest(t) /\ other
    <3> DEFINE ks == {k \in BlocksOf(c.origin) : Clean(cache[k])}
    <3>1. c.at \in Saving /\ UNCHANGED cache
      BY <2>7 DEF SaveManifest, At, Saving, memory
    <3>2. manifests' = [k \in Keys |-> IF k \in BlocksOf(c.origin) THEN c.data[k] ELSE manifests[k]]
      BY <2>7 DEF SaveManifest
    <3>3. \A k \in BlocksOf(c.origin) :
            c.data[k] = IF Clean(cache[k]) THEN cache[k].bytes ELSE manifests[k]
      BY <2>2, <3>1 DEF Flushed
    <3>4. manifests' = [k \in Keys |-> IF k \in ks THEN Shown(cache, manifests)[k] ELSE manifests[k]]
      BY <3>2, <3>3 DEF Shown, Clean
    <3>5. Shown(cache', manifests') = Shown(cache, manifests)
      <4>1. \A k \in Keys : cache[k] = Absent => manifests'[k] = manifests[k]
        BY <3>2, <3>3 DEF Clean
      <4> QED
        BY <3>1, <4>1 DEF Shown
    <3>6. ks \in SUBSET Keys
      BY DEF BlocksOf
    <3> HIDE DEF ks
    <3>7. manifests' \in [Keys -> Payloads \cup {None}]
      BY DEF TypeInv, TypeOK
    <3>8. W!Flush
      BY <1>1, <2>7, <2>9, <3>4, <3>5, <3>6, <3>7 DEF W!Flush, W!Contents
    <3> QED
      BY <3>8 DEF W!Next
  <2>8. CASE Aside(t) /\ ~SaveManifest(t) /\ other
    <3>1. UNCHANGED cache
      BY <2>8, MemoryStays DEF memory
    <3>2. UNCHANGED manifests
      BY <2>8 DEF Aside, ReadPins, CountDirty, Lookup, LoadManifest, LoadBlob, LoadedAll,
         EnforcePins, Collect, FlushBase, FlushLock, ScanReferenced, DeleteBlob, Stats, StatsPins,
         DiskError, disk
    <3> QED
      BY <1>3, <2>8, <2>9, <3>1, <3>2
  <2>10. CASE Begin(t)
    <3>1. UNCHANGED <<cache, manifests>>
      BY <2>10, BeginMoves DEF memory, disk
    <3>2. UNCHANGED <<Seen, Durable>>
      BY <1>1, <3>1 DEF Shown
    <3>3. Asked[t] = NoData /\ \A u \in Threads : u # t => Asked'[u] = Asked[u]
      BY <1>4, <2>10, AskedMoves DEF Records
    <3>4. Asked' = [Asked EXCEPT ![t] = Asked'[t]]
      BY <3>3 DEF Asked
    <3>5. Asked'[t] \in [Keys -> Payloads \cup {None}]
      <4>1. call'[t] \in Call
        BY DEF TypeInv, TypeOK, Call, Origins
      <4> QED
        BY <4>1 DEF Asked, Call, NoData
    <3>6. W!Ask(t)
      BY <3>2, <3>3, <3>4, <3>5 DEF W!Ask, W!Nothing, W!Contents, NoData
    <3> QED
      BY <3>6 DEF W!Next
  <2> QED
    BY <1>4, <2>3, <2>4, <2>5, <2>6, <2>7, <2>8, <2>10, StepsSplit
<1>5. CASE Crash
  <2>1. UNCHANGED manifests /\ \A k \in Keys : cache'[k] = Absent
    BY <1>5 DEF Crash, disk
  <2>2. manifests = [k \in Keys |-> manifests[k]]
    BY Typing DEF StoreTyped
  <2>3. Shown(cache', manifests') = manifests
    BY <2>1, <2>2 DEF Shown
  <2>4. Asked' = [t \in Threads |-> W!Nothing]
    BY <1>5, NoCallFields DEF Crash, Asked, Storing, W!Nothing, NoData
  <2>5. W!Crash
    BY <1>1, <2>1, <2>3, <2>4 DEF W!Crash
  <2> QED
    BY <2>5 DEF W!Next
<1>6. CASE UNCHANGED <<cache, manifests, call>>
  <2>1. Asked' = Asked
    BY <1>6 DEF Asked, Storing
  <2> QED
    BY <1>3, <1>6, <2>1
<1> QED
  BY <1>4, <1>5, <1>6 DEF Next, vars, memory, disk, SetCapacity

\* The store implements WriteBack when calls do not overlap and a flush does not
\* fail between marking a block clean and recording it: then nothing but a store
\* call changes what a reader sees, and a crash falls back to the last flush.
\* Where those writes may fail, the run optimizer_disk refutes it.
THEOREM WriteBackImplemented == Records => (Spec => ImplementsWriteBack)
<1> SUFFICES ASSUME Records
             PROVE  Spec => ImplementsWriteBack
  OBVIOUS
<1> DEFINE Inv == TypeInv /\ ReadInv /\ OwnInv /\ CleanInv
<1>1. Init => Inv
  <2> SUFFICES ASSUME Init PROVE CleanInv
    BY SerialStart
  <2>1. (\A t \in Threads : call[t] = NoCall) /\ \A k \in Keys : cache[k] = Absent
    BY DEF Init
  <2> QED
    BY <2>1, NoCallCleans DEF CleanInv, Matches, Clean
<1>2. Inv /\ [Next]_vars => Inv'
  BY TypeStep, ReadStep, OwnStep, CleanStep DEF Records
<1>3. Init => W!Init
  <2> SUFFICES ASSUME Init PROVE W!Init
    OBVIOUS
  <2>1. Seen = Shown(cache, manifests) /\ Durable = manifests
    BY SerialStart, ViewsAre
  <2>2. manifests = [k \in Keys |-> None] /\ \A k \in Keys : cache[k] = Absent
    BY DEF Init, NoData
  <2>3. Asked = [t \in Threads |-> NoData]
    <3>1. \A t \in Threads : call[t] = NoCall
      BY DEF Init
    <3> QED
      BY <3>1, NoCallFields DEF Asked, Storing
  <2>4. Seen = [k \in Keys |-> None] /\ Durable = [k \in Keys |-> None]
    BY <2>1, <2>2 DEF Shown
  <2> QED
    BY <2>3, <2>4 DEF W!Init, W!Nothing, NoData
<1>4. Inv /\ Inv' /\ [Next]_vars => [W!Next]_<<Seen, Durable, Asked>>
  BY WriteBackStep
<1> QED
  BY <1>1, <1>2, <1>3, <1>4, PTL DEF Spec, ImplementsWriteBack, W!Spec

-----------------------------------------------------------------------------
(***************************************************************************)
(* Which calls can wait for each other.  The holder of a lock is at a step *)
(* that keeps it; of these only the second step of cache_stats waits with  *)
(* the cache in hand, and all with the pin set in hand wait for the cache. *)
(***************************************************************************)
HoldsCache(c) == c.at \in {"write", "stats_pins"}
HoldsPins(c)  == c.op \in KeepsPins /\ c.at \in {"stage", "pin", "unpin", "evict"}

LockInv ==
  /\ cacheLock \in Threads => HoldsCache(call[cacheLock])
  /\ pinLock \in Threads => HoldsPins(call[pinLock])

\* What a step by t has to keep: its own locks, and the others' as they were.
LEMMA LocksOfOthers ==
  ASSUME NEW t \in Threads, LockInv, \A u \in Threads : u # t => call'[u] = call[u],
         cacheLock' \in {cacheLock, None} \/ cacheLock' = t,
         pinLock' \in {pinLock, None} \/ pinLock' = t,
         cacheLock' = t => HoldsCache(call'[t]),
         pinLock' = t => HoldsPins(call'[t])
  PROVE  LockInv'
<1>1. cacheLock' \in Threads => HoldsCache(call'[cacheLock'])
  BY StoreAssumption DEF LockInv
<1>2. pinLock' \in Threads => HoldsPins(call'[pinLock'])
  BY StoreAssumption DEF LockInv
<1> QED
  BY <1>1, <1>2 DEF LockInv, HoldsCache, HoldsPins

LEMMA LockStep ==
  ASSUME TypeInv, LockInv, [Next]_vars
  PROVE  LockInv'
<1>1. CASE UNCHANGED <<locks, call>>
  BY <1>1 DEF LockInv, HoldsCache, HoldsPins, locks
<1>2. ASSUME NEW t \in Threads, Begin(t) \/ Step(t) \/ DiskError(t)
      PROVE  LockInv'
  <2> DEFINE c == call[t]
             d == call'[t]
  <2>1. \A u \in Threads : u # t => call'[u] = call[u]
    BY <1>2, OthersStay
  <2>2. (cacheLock = t => HoldsCache(c)) /\ (pinLock = t => HoldsPins(c))
    BY DEF LockInv
  <2>3. ASSUME UNCHANGED locks, ~HoldsCache(c), ~HoldsPins(c)
        PROVE  LockInv'
    BY <2>1, <2>2, <2>3, LocksOfOthers DEF locks
  <2>4. CASE Begin(t)
    <3>1. UNCHANGED locks /\ c = NoCall
      BY <2>4, BeginMoves
    <3>2. ~HoldsCache(c) /\ ~HoldsPins(c)
      BY <3>1, NoCallFields DEF HoldsCache, HoldsPins
    <3> QED
      BY <2>3, <3>1, <3>2
  <2>5. CASE DiskError(t)
    <3>1. /\ c.at \in Faulty /\ UNCHANGED pinLock
          /\ cacheLock' = IF cacheLock = t THEN None ELSE cacheLock
      BY <2>5 DEF DiskError
    <3>2. pinLock # t /\ cacheLock' # t
      BY <2>2, <3>1, StoreAssumption DEF HoldsPins
    <3> QED
      BY <2>1, <3>1, <3>2, LocksOfOthers
  <2>6. CASE ReadPins(t)
    <3>1. /\ c.at = "pins" /\ UNCHANGED cacheLock
          /\ pinLock' = IF c.op \in KeepsPins THEN t ELSE None
          /\ d.at = AfterPins(t) /\ d.op = c.op
      BY <2>6, PinMoves DEF ReadPins, At, Moved
    <3>2. c.op \in KeepsPins => HoldsPins(d)
      BY <3>1 DEF AfterPins, KeepsPins, HoldsPins
    <3>3. cacheLock # t
      BY <2>2, <3>1 DEF HoldsCache
    <3> QED
      BY <2>1, <3>1, <3>2, <3>3, StoreAssumption, LocksOfOthers
  <2>7. CASE Stage(t)
    <3>1. /\ c.at = "stage" /\ UNCHANGED cacheLock
          /\ IF c.op = "store_blocks" THEN pinLock' = None ELSE UNCHANGED pinLock
      BY <2>7 DEF Stage, At
    <3>2. c.op \in Stores
      BY <3>1, Typing DEF Fit
    <3>3. cacheLock # t /\ pinLock' # t
      BY <2>2, <3>1, <3>2, StoreAssumption DEF HoldsCache, HoldsPins, KeepsPins, Stores
    <3> QED
      BY <2>1, <3>1, <3>3, LocksOfOthers
  <2>8. ASSUME NEW k \in Keys, PinBlock(t, k) \/ UnpinBlock(t, k)
        PROVE  LockInv'
    <3>1. /\ c.at \in {"pin", "unpin"} /\ UNCHANGED cacheLock
          /\ \/ pinLock' = None
             \/ UNCHANGED pinLock /\ call' = [call EXCEPT ![t].keys = @ \ {k}]
      BY <2>8 DEF PinBlock, UnpinBlock, At
    <3>2. cacheLock # t
      BY <2>2, <3>1 DEF HoldsCache
    <3>3. pinLock' = t => HoldsPins(d)
      <4>1. call \in [Threads -> Call] /\ c \in Call
        BY Typing
      <4>2. CASE UNCHANGED pinLock /\ call' = [call EXCEPT ![t].keys = @ \ {k}]
        <5>1. d.op = c.op /\ d.at = c.at
          BY <4>1, <4>2 DEF Call
        <5> QED
          BY <2>2, <4>2, <5>1 DEF HoldsPins
      <4> QED
        BY <3>1, <4>2, StoreAssumption
    <3> QED
      BY <2>1, <3>1, <3>2, <3>3, LocksOfOthers
  <2>9. CASE Evict(t)
    <3>1. c.at = "evict" /\ UNCHANGED cacheLock /\ pinLock' = None
      BY <2>9 DEF Evict, At
    <3>2. cacheLock # t
      BY <2>2, <3>1 DEF HoldsCache
    <3> QED
      BY <2>1, <3>1, <3>2, StoreAssumption, LocksOfOthers
  <2>10. CASE FlushLock(t) \/ Stats(t)
    <3>1. /\ c.at \in {"lock", "stats"} /\ UNCHANGED pinLock /\ cacheLock' = t
          /\ Goto(t, "write") \/ Goto(t, "stats_pins")
      BY <2>10 DEF FlushLock, Stats, At
    <3>2. HoldsCache(d) /\ pinLock # t
      BY <2>2, <3>1, GotoMoves DEF Moved, HoldsCache, HoldsPins
    <3> QED
      BY <2>1, <3>1, <3>2, LocksOfOthers
  <2>11. ASSUME NEW k \in Keys, FlushBlock(t, k)
         PROVE  LockInv'
    <3>1. PICK data, old : NextBlock(t, k, data, old) /\ UNCHANGED pinLock /\ c.at = "write"
      BY <2>11 DEF FlushBlock, At
    <3>2. Moved(t, IF c.keys = {k} THEN "save" ELSE "write", c.keys \ {k}, data, old, c.pinned)
      BY <3>1, FlushMoves
    <3>3. cacheLock' = t => HoldsCache(d)
      BY <3>1, <3>2, StoreAssumption DEF NextBlock, Moved, HoldsCache
    <3>4. pinLock # t
      BY <2>2, <3>1 DEF HoldsPins
    <3>5. cacheLock' = t \/ cacheLock' = None
      BY <3>1 DEF NextBlock
    <3> QED
      BY <2>1, <3>1, <3>3, <3>4, <3>5, LocksOfOthers
  <2>12. CASE StatsPins(t)
    <3>1. c.at = "stats_pins" /\ UNCHANGED pinLock /\ cacheLock' = None
      BY <2>12 DEF StatsPins, At
    <3>2. pinLock # t
      BY <2>2, <3>1 DEF HoldsPins
    <3> QED
      BY <2>1, <3>1, <3>2, StoreAssumption, LocksOfOthers
  <2>13. ASSUME Step(t), ~ReadPins(t), ~Stage(t), ~Evict(t), ~FlushLock(t), ~Stats(t),
                ~StatsPins(t), \A k \in Keys : ~PinBlock(t, k) /\ ~UnpinBlock(t, k)
                                               /\ ~FlushBlock(t, k)
         PROVE  LockInv'
    <3>1. UNCHANGED locks
      BY <2>13 DEF Step, CountDirty, Lookup, LoadManifest, LoadBlob, LoadedAll, Insert,
         EnforcePins, Trim, Collect, FlushBase, SaveManifest, ScanReferenced, DeleteBlob, locks
    <3>2. c.at \in {"count", "lookup", "manifest", "read", "insert", "enforce", "trim",
                    "collect", "base", "save", "scan", "delete"}
      BY <2>13 DEF Step, CountDirty, Lookup, LoadManifest, LoadBlob, LoadedAll, Insert,
         EnforcePins, Trim, Collect, FlushBase, SaveManifest, ScanReferenced, DeleteBlob, At
    <3> QED
      BY <2>3, <3>1, <3>2 DEF HoldsCache, HoldsPins
  <2> QED
    BY <1>2, <2>4, <2>5, <2>6, <2>7, <2>8, <2>9, <2>10, <2>11, <2>12, <2>13
<1>3. CASE Crash
  BY <1>3, StoreAssumption DEF Crash, LockInv
<1> QED
  BY <1>1, <1>2, <1>3 DEF Next, vars, locks, SetCapacity

\* However calls overlap, a deadlock is always cache_stats against a call that
\* keeps the pin set: every other pair of calls takes the locks in one order.
THEOREM OnlyOneDeadlock == Spec => []OneDeadlock
<1>1. Init => TypeInv /\ LockInv
  BY InitTypes, StoreAssumption DEF Init, LockInv
<1>2. TypeInv /\ LockInv /\ [Next]_vars => (TypeInv /\ LockInv)'
  BY TypeStep, LockStep
<1>3. TypeInv /\ LockInv => OneDeadlock
  <2> SUFFICES ASSUME LockInv, NEW circle \in SUBSET Threads, circle # {},
                      \A t \in circle : \E u \in circle : WaitsFor(t, u)
               PROVE  /\ \E t \in circle : At(t, "stats_pins")
                      /\ \E t \in circle : call[t].op \in KeepsPins /\ call[t].at \in NeedsCache
    BY DEF OneDeadlock
  <2>1. ASSUME cacheLock \in circle
        PROVE  At(cacheLock, "stats_pins") /\ pinLock \in circle
    <3>1. HoldsCache(call[cacheLock])
      BY <2>1 DEF LockInv
    <3>2. PICK u \in circle : WaitsFor(cacheLock, u)
      BY <2>1
    <3> QED
      BY <3>1, <3>2 DEF WaitsFor, HoldsCache, NeedsCache, NeedsPins, At
  <2>2. ASSUME pinLock \in circle
        PROVE  /\ call[pinLock].op \in KeepsPins /\ call[pinLock].at \in NeedsCache
               /\ cacheLock \in circle
    <3>1. HoldsPins(call[pinLock])
      BY <2>2 DEF LockInv
    <3>2. PICK u \in circle : WaitsFor(pinLock, u)
      BY <2>2
    <3> QED
      BY <3>1, <3>2 DEF WaitsFor, HoldsPins, NeedsCache, NeedsPins
  <2>3. cacheLock \in circle \/ pinLock \in circle
    BY DEF WaitsFor
  <2> QED
    BY <2>1, <2>2, <2>3
<1> QED
  BY <1>1, <1>2, <1>3, PTL DEF Spec


=============================================================================
