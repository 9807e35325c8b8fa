----------------------------- MODULE WeightProofs -----------------------------
(***************************************************************************)
(* Theorems about the weight store: the cluster cache and its pins            *)
(* (WeightCache), and the records kept beside it, that is the registry of        *)
(* models (WeightModels), the exports that count into it (WeightExports) and      *)
(* the manifests of trainings (WeightManifests).  They hold for any number of      *)
(* threads, clusters, models and files and any capacity, without use of the bounds.  *)
(***************************************************************************)
EXTENDS WeightCache, WeightModels, WeightExports, WeightManifests,
        FiniteSetTheorems, WellFoundedInduction, TLAPS

(***************************************************************************)
(* The cache of clusters: what a critical pin protects.                        *)
(***************************************************************************)
\* A pin with a critical reason has inserted x, whether it has returned or not.
Guarded(x) ==
  \/ x \in promised
  \/ \E d \in Callers : At(d, "bump") /\ call[d].id = x /\ ReasonOf(call[d].op) \in Critical

\* A guarded cluster that is not exposed is cached with a critical reason, and no
\* call has decided against it: this is what keeps the next step from dropping it.
Shielded(x) ==
  Guarded(x) /\ x \notin exposed =>
    /\ hot[x] \in Critical
    /\ \A d \in Callers : ~ Against(d, x)

HasFields(r) ==
  r \in [pc : {r.pc}, op : {r.op}, id : {r.id}, room : {r.room},
         counts : {r.counts}, victims : {r.victims},
         alone : {r.alone}, crossed : {r.crossed}]

CallInv(d) ==
  /\ HasFields(call[d])
  /\ Busy(d) => call[d].id \in Clusters
  /\ ~ At(d, "drop") => call[d].victims = {}
  /\ At(d, "count") \/ At(d, "hot") => call[d].op = "load" \/ call[d].op \in Critical

WeightInv ==
  /\ hot = [x \in Clusters |-> hot[x]]
  /\ call = [d \in Callers |-> call[d]]
  /\ promised \subseteq Clusters
  /\ \A d \in Callers : CallInv(d)
  /\ \A x \in Clusters : Shielded(x)

-----------------------------------------------------------------------------
\* The registry's own reasons are not critical.
LEMMA CriticalReasons ==
  /\ Cold \notin Critical
  /\ "load" \notin Critical
  /\ \A op : ReasonOf(op) \in Critical <=> op \in Critical
  BY CacheAssumption DEF ReasonOf, Cold

LEMMA InvImpliesStays == WeightInv => CriticalStays
  BY DEF WeightInv, Shielded, Guarded, CriticalStays

LEMMA WeightInvInit == WeightInit => WeightInv
<1> SUFFICES ASSUME WeightInit
             PROVE  WeightInv
  OBVIOUS
<1>1. hot = [x \in Clusters |-> hot[x]] /\ promised \subseteq Clusters
  BY DEF WeightInit
<1>2. call = [d \in Callers |-> call[d]]
  BY DEF WeightInit
<1>3. ASSUME NEW d \in Callers
      PROVE  CallInv(d) /\ ~ At(d, "bump")
  BY DEF WeightInit, CallInv, HasFields, Busy, At, Idle
<1>4. \A x \in Clusters : Shielded(x)
  BY <1>3 DEF WeightInit, Shielded, Guarded
<1>5. QED
  BY <1>1, <1>2, <1>3, <1>4 DEF WeightInv

\* The fields that Against and Guarded look at.
SameCall(d) ==
  call'[d].pc = call[d].pc /\ call'[d].op = call[d].op
    /\ call'[d].id = call[d].id /\ call'[d].victims = call[d].victims

\* One call moves on: a cluster stays shielded if the step guards it no more
\* than before, and touches it only if the call was against it, or it was not
\* critical.
LEMMA ShieldKept ==
  ASSUME WeightInv, NEW c \in Callers, NEW x \in Clusters,
         \A d \in Callers \ {c} : SameCall(d),
         Guarded(x)' => Guarded(x),
         x \in exposed => x \in exposed',
         hot'[x] = hot[x] \/ hot[x] \notin Critical \/ Against(c, x),
         Against(c, x)' => Against(c, x) \/ hot[x] \notin Critical
  PROVE  Shielded(x)'
<1> SUFFICES ASSUME Guarded(x)', x \notin exposed'
             PROVE  hot'[x] \in Critical /\ \A d \in Callers : ~ Against(d, x)'
  BY DEF Shielded
<1>1. hot[x] \in Critical /\ \A d \in Callers : ~ Against(d, x)
  BY DEF WeightInv, Shielded
<1>2. hot'[x] \in Critical
  BY <1>1
<1>3. ASSUME NEW d \in Callers \ {c}
      PROVE  Against(d, x)' => Against(d, x)
  BY DEF SameCall, Against, At
<1>4. QED
  BY <1>1, <1>2, <1>3

\* The record s is r at a new place, with new victims.
Update(r, s, to, victims) ==
  /\ HasFields(s)
  /\ s.pc = to /\ s.op = r.op /\ s.id = r.id /\ s.victims = victims
  /\ s.alone = r.alone /\ s.crossed = r.crossed

LEMMA FieldUpdates ==
  ASSUME NEW r, HasFields(r), NEW v
  PROVE  /\ Update(r, [r EXCEPT !.pc = v], v, r.victims)
         /\ Update(r, [r EXCEPT !.room = v], r.pc, r.victims)
         /\ Update(r, [r EXCEPT !.counts = v], r.pc, r.victims)
         /\ Update(r, [r EXCEPT !.victims = v], r.pc, v)
<1>1. Update(r, [r EXCEPT !.pc = v], v, r.victims)
  BY DEF HasFields, Update
<1>2. Update(r, [r EXCEPT !.room = v], r.pc, r.victims)
  BY DEF HasFields, Update
<1>3. Update(r, [r EXCEPT !.counts = v], r.pc, r.victims)
  BY DEF HasFields, Update
<1>4. Update(r, [r EXCEPT !.victims = v], r.pc, v)
  BY DEF HasFields, Update
<1>5. QED
  BY <1>1, <1>2, <1>3, <1>4

\* Updates follow one another.
LEMMA UpdateTrans ==
  ASSUME NEW r, NEW s, NEW t, NEW mid, NEW seen, NEW to, NEW victims,
         Update(r, s, mid, seen), Update(s, t, to, victims)
  PROVE  Update(r, t, to, victims)
  BY DEF Update

\* A record that has been updated can be updated in one more field.
LEMMA UpdateMore ==
  ASSUME NEW r, NEW s, NEW to, NEW victims, Update(r, s, to, victims), NEW v
  PROVE  /\ Update(r, [s EXCEPT !.room = v], to, victims)
         /\ Update(r, [s EXCEPT !.counts = v], to, victims)
         /\ Update(r, [s EXCEPT !.victims = v], to, v)
<1>1. HasFields(s) /\ s.pc = to /\ s.victims = victims
  BY DEF Update
<1>2. /\ Update(s, [s EXCEPT !.room = v], to, victims)
      /\ Update(s, [s EXCEPT !.counts = v], to, victims)
      /\ Update(s, [s EXCEPT !.victims = v], to, v)
  BY <1>1, FieldUpdates
<1>3. QED
  BY <1>2, UpdateTrans

\* The updates that the sections of maybe_evict make.
LEMMA SectionUpdates ==
  ASSUME NEW r, HasFields(r), NEW to, NEW room, NEW counts, NEW victims
  PROVE  /\ Update(r, [r EXCEPT !.pc = to, !.room = room], to, r.victims)
         /\ Update(r, [r EXCEPT !.pc = to, !.counts = counts], to, r.victims)
         /\ Update(r, [r EXCEPT !.pc = to, !.victims = victims], to, victims)
         /\ Update(r, [r EXCEPT !.pc = to, !.room = room, !.counts = counts, !.victims = victims],
                   to, victims)
<1> DEFINE s == [r EXCEPT !.pc = to]
           t == [s EXCEPT !.room = room]
           u == [t EXCEPT !.counts = counts]
<1>1. /\ [r EXCEPT !.pc = to, !.room = room] = t
      /\ [r EXCEPT !.pc = to, !.counts = counts] = [s EXCEPT !.counts = counts]
      /\ [r EXCEPT !.pc = to, !.victims = victims] = [s EXCEPT !.victims = victims]
      /\ [r EXCEPT !.pc = to, !.room = room, !.counts = counts, !.victims = victims]
           = [u EXCEPT !.victims = victims]
  OBVIOUS
<1>2. Update(r, s, to, r.victims)
  BY FieldUpdates
<1> HIDE DEF s
<1>3. /\ Update(r, t, to, r.victims)
      /\ Update(r, [s EXCEPT !.counts = counts], to, r.victims)
      /\ Update(r, [s EXCEPT !.victims = victims], to, victims)
  BY <1>2, UpdateMore
<1> HIDE DEF t
<1>4. Update(r, u, to, r.victims)
  BY <1>3, UpdateMore
<1> HIDE DEF u
<1>5. Update(r, [u EXCEPT !.victims = victims], to, victims)
  BY <1>4, UpdateMore
<1>6. QED
  BY <1>1, <1>3, <1>5

\* Call c has a new place and new victims; the other calls are as they were.
Moved(c, to, victims) ==
  /\ call' = [d \in Callers |-> call'[d]]
  /\ \A d \in Callers \ {c} : call'[d] = call[d]
  /\ Update(call[c], call'[c], to, victims)

LEMMA MovedIf ==
  ASSUME NEW c \in Callers, NEW s, NEW to, NEW victims, Update(call[c], s, to, victims),
         call' = [d \in Callers |-> IF d = c THEN s ELSE call[d]]
  PROVE  Moved(c, to, victims)
  BY DEF Moved

LEMMA GoKeeps ==
  ASSUME WeightInv, NEW c \in Callers, NEW to, GoTo(c, to)
  PROVE  Moved(c, to, call[c].victims)
<1>1. HasFields(call[c])
  BY DEF WeightInv, CallInv
<1>2. call' = [d \in Callers |-> IF d = c THEN [call[c] EXCEPT !.pc = to] ELSE call[d]]
  BY DEF WeightInv, GoTo
<1>3. QED
  BY <1>1, <1>2, FieldUpdates, MovedIf

LEMMA ReturnKeeps ==
  ASSUME WeightInv, NEW c \in Callers, Return(c)
  PROVE  /\ call' = [d \in Callers |-> call'[d]]
         /\ \A d \in Callers \ {c} : call'[d] = call[d]
         /\ call'[c] = Idle
         /\ CallInv(c)' /\ ~ Busy(c)'
         /\ \A x : ~ Against(c, x)'
<1>1. call' = [d \in Callers |-> IF d = c THEN Idle ELSE call[d]]
  BY DEF WeightInv, Return
<1>2. QED
  BY <1>1 DEF Idle, CallInv, HasFields, Busy, At, Against

\* The steps that decide nothing about the cache: they leave what is cached and
\* promised alone, and put the call against no critical cluster.
LEMMA QuietKeepsInv ==
  ASSUME WeightInv, NEW c \in Callers,
         hot' = hot, promised' = promised, exposed' = exposed,
         call' = [d \in Callers |-> call'[d]],
         \A d \in Callers \ {c} : SameCall(d) /\ HasFields(call'[d]),
         CallInv(c)', ~ At(c, "bump")',
         \A x \in Clusters : Against(c, x)' => Against(c, x) \/ hot[x] \notin Critical
  PROVE  WeightInv'
<1>1. ASSUME NEW d \in Callers
      PROVE  CallInv(d)'
  BY DEF WeightInv, CallInv, SameCall, Busy, At
<1>2. ASSUME NEW x \in Clusters
      PROVE  Shielded(x)'
  <2>1. Guarded(x)' => Guarded(x)
    BY DEF Guarded, At, SameCall
  <2>2. QED
    BY <2>1, ShieldKept
<1>3. QED
  BY <1>1, <1>2 DEF WeightInv
-----------------------------------------------------------------------------
\* Steps that only move the call: nothing is removed, chosen or inserted.
LEMMA MoveKeepsInv ==
  ASSUME WeightInv, NEW c \in Callers,
         CountAccess(c) \/ LookUp(c) \/ IsPinned(c) \/ Fetch(c) \/ CheckReason(c)
  PROVE  WeightInv'
<1>1. hot' = hot /\ promised' = promised /\ exposed' = exposed
  BY DEF CountAccess, LookUp, IsPinned, Fetch, CheckReason
<1>2. CASE Return(c)
  BY <1>1, <1>2, ReturnKeeps, QuietKeepsInv DEF WeightInv, CallInv, SameCall, Busy, At
<1>3. ASSUME NEW to, GoTo(c, to), to \notin {"idle", "drop", "bump", "count"}, Busy(c), ~ At(c, "drop"),
             to = "hot" => call[c].op = "load" \/ call[c].op \in Critical,
             Against(c, call[c].id)' => Against(c, call[c].id) \/ hot[call[c].id] \notin Critical
      PROVE  WeightInv'
  <2>1. CallInv(c)' /\ ~ At(c, "bump")'
    BY <1>3, GoKeeps DEF WeightInv, CallInv, Busy, At, Moved, Update
  <2>2. ASSUME NEW x \in Clusters, Against(c, x)'
        PROVE  Against(c, x) \/ hot[x] \notin Critical
    <3>1. call'[c].victims = {} /\ call'[c].id = call[c].id
      BY <1>3, GoKeeps DEF WeightInv, CallInv, Moved, Update
    <3>2. call[c].id = x
      BY <2>2, <3>1 DEF Against
    <3>3. QED
      BY <1>3, <2>2, <3>1, <3>2 DEF Against, At
  <2>3. QED
    BY <1>1, <1>3, <2>1, <2>2, GoKeeps, QuietKeepsInv DEF WeightInv, CallInv, SameCall, Moved, Update
<1>4. CASE CountAccess(c)
  <2>1. GoTo(c, "hot") /\ At(c, "count")
    BY <1>4 DEF CountAccess
  <2>2. ~ Against(c, call[c].id)'
    BY <2>1, GoKeeps DEF WeightInv, CallInv, Against, At, Moved, Update
  <2>3. QED
    BY <1>3, <2>1, <2>2 DEF WeightInv, CallInv, At, Busy
<1>5. CASE LookUp(c)
  <2>1. CASE call[c].id \in Cached /\ call[c].op # "load"
    <3>1. GoTo(c, "room") /\ At(c, "hot") /\ call[c].op \in Critical
      BY <1>5, <2>1 DEF LookUp, WeightInv, CallInv
    <3>2. ~ Against(c, call[c].id)'
      BY <3>1, GoKeeps, CriticalReasons DEF WeightInv, CallInv, Against, At, Moved, Update
    <3>3. QED
      BY <1>3, <3>1, <3>2 DEF At, Busy
  <2>2. CASE call[c].id \notin Cached
    <3>1. GoTo(c, "fetch") /\ At(c, "hot") /\ call[c].id \in Clusters
      BY <1>5, <2>2 DEF LookUp, WeightInv, CallInv, At, Busy
    <3>2. hot[call[c].id] \notin Critical
      BY <2>2, <3>1, CriticalReasons DEF Cached
    <3>3. QED
      BY <1>3, <3>1, <3>2 DEF At, Busy
  <2>3. QED
    BY <1>2, <1>5, <2>1, <2>2 DEF LookUp
<1>6. CASE IsPinned(c)
  <2>1. At(c, "pinned") /\ call[c].id \in Clusters
    BY <1>6 DEF IsPinned, WeightInv, CallInv, At, Busy
  <2>2. CASE GoTo(c, "fetch") /\ call[c].id \notin Cached
    <3>1. hot[call[c].id] \notin Critical
      BY <2>1, <2>2, CriticalReasons DEF Cached
    <3>2. QED
      BY <1>3, <2>1, <2>2, <3>1 DEF At, Busy
  <2>3. ASSUME NEW to \in {"check", "erase"}, GoTo(c, to)
        PROVE  WeightInv'
    <3>1. ~ Against(c, call[c].id)'
      BY <2>1, <2>3, GoKeeps DEF WeightInv, CallInv, Against, At, Moved, Update
    <3>2. QED
      BY <1>3, <2>1, <2>3, <3>1 DEF At, Busy
  <2>4. QED
    BY <1>2, <1>6, <2>2, <2>3 DEF IsPinned
<1>7. CASE Fetch(c)
  <2>1. CASE GoTo(c, "room")
    <3>1. At(c, "fetch")
      BY <1>7 DEF Fetch
    <3>2. Against(c, call[c].id)' => Against(c, call[c].id)
      BY <2>1, <3>1, GoKeeps DEF WeightInv, CallInv, Against, At, Moved, Update
    <3>3. QED
      BY <1>3, <2>1, <3>1, <3>2 DEF At, Busy
  <2>2. QED
    BY <1>2, <1>7, <2>1 DEF Fetch
<1>8. CASE CheckReason(c)
  <2>1. CASE GoTo(c, "remove") /\ hot[call[c].id] \notin Critical
    BY <1>3, <1>8, <2>1 DEF CheckReason, At, Busy
  <2>2. QED
    BY <1>2, <1>8, <2>1 DEF CheckReason
<1>9. QED
  BY <1>4, <1>5, <1>6, <1>7, <1>8
-----------------------------------------------------------------------------
\* The first two sections of maybe_evict only read.
LEMMA ReadKeepsInv ==
  ASSUME WeightInv, NEW c \in Callers, ReadRoom(c) \/ ReadCounts(c)
  PROVE  WeightInv'
<1>1. hot' = hot /\ promised' = promised /\ exposed' = exposed
  BY DEF ReadRoom, ReadCounts
<1>2. HasFields(call[c])
  BY DEF WeightInv, CallInv
<1>3. \E to \in {"insert", "counts", "victims"} : Moved(c, to, call[c].victims)
  <2>1. CASE ReadRoom(c) /\ GoTo(c, "insert")
    BY <2>1, GoKeeps
  <2>2. CASE ReadRoom(c) /\ ~ GoTo(c, "insert")
    <3>1. call' = [d \in Callers |-> IF d = c THEN [call[c] EXCEPT !.pc = "counts", !.room = Cardinality(Cached)]
                                    ELSE call[d]]
      BY <2>2 DEF ReadRoom, WeightInv
    <3>2. Moved(c, "counts", call[c].victims)
      BY <1>2, <3>1, SectionUpdates, MovedIf
    <3>3. QED
      BY <3>2
  <2>3. CASE ReadCounts(c)
    <3>1. call' = [d \in Callers |-> IF d = c THEN [call[c] EXCEPT !.pc = "victims", !.counts = accesses]
                                    ELSE call[d]]
      BY <2>3 DEF ReadCounts, WeightInv
    <3>2. Moved(c, "victims", call[c].victims)
      BY <1>2, <3>1, SectionUpdates, MovedIf
    <3>3. QED
      BY <3>2
  <2>4. QED
    BY <2>1, <2>2, <2>3
<1>4. /\ call' = [d \in Callers |-> call'[d]]
      /\ \A d \in Callers \ {c} : call'[d] = call[d]
      /\ HasFields(call'[c]) /\ call'[c].pc \in {"insert", "counts", "victims"}
      /\ call'[c].op = call[c].op /\ call'[c].id = call[c].id /\ call'[c].victims = call[c].victims
  BY <1>3 DEF Moved, Update
<1>5. At(c, "room") \/ At(c, "counts")
  BY DEF ReadRoom, ReadCounts
<1>6. CallInv(c)' /\ ~ At(c, "bump")'
  BY <1>4, <1>5 DEF WeightInv, CallInv, Busy, At
<1>7. \A x \in Clusters : Against(c, x)' => Against(c, x)
  BY <1>4, <1>5 DEF WeightInv, CallInv, Against, At
<1>8. QED
  BY <1>1, <1>4, <1>6, <1>7, QuietKeepsInv DEF WeightInv, CallInv, SameCall

\* Victims are chosen among the entries that are not critical.
LEMMA PickKeepsInv ==
  ASSUME WeightInv, NEW c \in Callers, PickVictims(c)
  PROVE  WeightInv'
<1> DEFINE victims == Coldest(call[c].counts, (call[c].room - CacheCapacity) + 1)
<1>1. /\ hot' = hot /\ promised' = promised /\ exposed' = exposed /\ At(c, "victims")
      /\ call' = [d \in Callers |->
           IF d = c THEN [call[c] EXCEPT !.pc = "drop", !.room = 0, !.counts = NoCounts, !.victims = victims]
           ELSE call[d]]
  BY DEF PickVictims, WeightInv
<1> HIDE DEF victims
<1>2. \A x \in victims : hot[x] \notin Critical
  BY DEF victims, Coldest, Candidates
<1>3. /\ call' = [d \in Callers |-> call'[d]]
      /\ \A d \in Callers \ {c} : call'[d] = call[d]
      /\ HasFields(call'[c]) /\ call'[c].pc = "drop"
      /\ call'[c].op = call[c].op /\ call'[c].id = call[c].id /\ call'[c].victims = victims
  <2>1. HasFields(call[c])
    BY DEF WeightInv, CallInv
  <2>2. Moved(c, "drop", victims)
    BY <1>1, <2>1, SectionUpdates, MovedIf
  <2>3. QED
    BY <2>2 DEF Moved, Update
<1>4. CallInv(c)' /\ ~ At(c, "bump")'
  BY <1>1, <1>3 DEF WeightInv, CallInv, Busy, At
<1>5. \A x \in Clusters : Against(c, x)' => Against(c, x) \/ hot[x] \notin Critical
  BY <1>1, <1>2, <1>3 DEF Against, At
<1>6. QED
  BY <1>1, <1>3, <1>4, <1>5, QuietKeepsInv DEF WeightInv, CallInv, SameCall

-----------------------------------------------------------------------------
\* A step that forgets entries the call was against.
LEMMA ForgetKeepsInv ==
  ASSUME WeightInv, NEW c \in Callers, NEW gone, Forget(gone),
         \A x \in gone : Against(c, x),
         promised' = promised, exposed' = exposed,
         call' = [d \in Callers |-> call'[d]],
         \A d \in Callers \ {c} : call'[d] = call[d],
         CallInv(c)', ~ At(c, "bump")',
         \A x \in Clusters : Against(c, x)' => Against(c, x)
  PROVE  WeightInv'
<1>1. hot' = [x \in Clusters |-> IF x \in gone THEN Cold ELSE hot[x]]
  BY DEF Forget
<1>2. \A d \in Callers : CallInv(d)'
  BY DEF WeightInv, CallInv, HasFields, Busy, At
<1>3. ASSUME NEW x \in Clusters
      PROVE  Shielded(x)'
  <2>1. Guarded(x)' => Guarded(x)
    BY DEF Guarded, At
  <2>2. hot'[x] = hot[x] \/ Against(c, x)
    BY <1>1
  <2>3. QED
    BY <2>1, <2>2, ShieldKept DEF SameCall
<1>4. QED
  BY <1>1, <1>2, <1>3 DEF WeightInv

LEMMA DropVictimsKeepsInv ==
  ASSUME WeightInv, NEW c \in Callers, DropVictims(c)
  PROVE  WeightInv'
<1>1. /\ Forget(call[c].victims) /\ promised' = promised /\ exposed' = exposed /\ At(c, "drop")
      /\ call' = [d \in Callers |->
           IF d = c THEN [call[c] EXCEPT !.pc = "insert", !.victims = {}] ELSE call[d]]
  BY DEF DropVictims, WeightInv
<1>2. /\ call' = [d \in Callers |-> call'[d]]
      /\ \A d \in Callers \ {c} : call'[d] = call[d]
      /\ HasFields(call'[c]) /\ call'[c].pc = "insert"
      /\ call'[c].op = call[c].op /\ call'[c].id = call[c].id /\ call'[c].victims = {}
  <2>1. HasFields(call[c])
    BY DEF WeightInv, CallInv
  <2>2. Moved(c, "insert", {})
    BY <1>1, <2>1, SectionUpdates, MovedIf
  <2>3. QED
    BY <2>2 DEF Moved, Update
<1>3. CallInv(c)' /\ ~ At(c, "bump")'
  BY <1>1, <1>2 DEF WeightInv, CallInv, Busy, At
<1>4. \A x \in Clusters : Against(c, x)' => Against(c, x)
  BY <1>1, <1>2 DEF Against, At
<1>5. \A x \in call[c].victims : Against(c, x)
  BY DEF Against
<1>6. QED
  BY <1>1, <1>2, <1>3, <1>4, <1>5, ForgetKeepsInv

LEMMA DropEntryKeepsInv ==
  ASSUME WeightInv, NEW c \in Callers, DropEntry(c)
  PROVE  WeightInv'
<1>1. Forget({call[c].id}) /\ promised' = promised /\ exposed' = exposed /\ At(c, "remove")
  BY DEF DropEntry
<1>2. \A x \in {call[c].id} : Against(c, x)
  BY <1>1 DEF Against
<1>3. CASE GoTo(c, "erase")
  <2>1. CallInv(c)' /\ ~ At(c, "bump")' /\ \A x \in Clusters : ~ Against(c, x)'
    BY <1>1, <1>3, GoKeeps DEF WeightInv, CallInv, Busy, At, Against, Moved, Update
  <2>2. QED
    BY <1>1, <1>2, <1>3, <2>1, GoKeeps, ForgetKeepsInv DEF Moved, Update
<1>4. CASE Return(c)
  BY <1>1, <1>2, <1>4, ReturnKeeps, ForgetKeepsInv DEF Busy, At
<1>5. QED
  BY <1>3, <1>4 DEF DropEntry

\* An insert with a critical reason shields its cluster from now on, unless it is
\* exposed; one with another reason meets no shielded cluster, for the call was
\* against it.
LEMMA InsertKeepsInv ==
  ASSUME WeightInv, NEW c \in Callers, Insert(c)
  PROVE  WeightInv'
<1> DEFINE y == call[c].id
           reason == ReasonOf(call[c].op)
<1>1. /\ At(c, "insert") /\ GoTo(c, "bump") /\ promised' = promised
      /\ hot' = [hot EXCEPT ![y] = reason]
      /\ exposed' = IF reason \notin Critical THEN exposed
                    ELSE IF \E d \in Callers \ {c} : Against(d, y) THEN exposed \cup {y}
                    ELSE exposed \ {y}
  BY DEF Insert
<1>2. /\ call' = [d \in Callers |-> call'[d]]
      /\ \A d \in Callers \ {c} : call'[d] = call[d]
      /\ HasFields(call'[c]) /\ call'[c].pc = "bump"
      /\ call'[c].op = call[c].op /\ call'[c].id = call[c].id /\ call'[c].victims = call[c].victims
  BY <1>1, GoKeeps DEF Moved, Update
<1>3. y \in Clusters /\ call[c].victims = {}
  BY <1>1 DEF WeightInv, CallInv, Busy, At
<1>4. hot' = [x \in Clusters |-> IF x = y THEN reason ELSE hot[x]]
  BY <1>1 DEF WeightInv
<1>5. \A d \in Callers : CallInv(d)'
  BY <1>1, <1>2 DEF WeightInv, CallInv, HasFields, Busy, At
<1>6. \A x \in Clusters : ~ Against(c, x)'
  BY <1>2, <1>3 DEF Against, At
<1>7. ASSUME NEW x \in Clusters
      PROVE  Shielded(x)'
  <2>1. CASE x = y /\ reason \in Critical
    <3>1. x \notin exposed' => \A d \in Callers \ {c} : ~ Against(d, x)
      BY <1>1, <2>1
    <3>2. \A d \in Callers \ {c} : Against(d, x)' => Against(d, x)
      BY <1>2 DEF Against, At
    <3>3. hot'[x] \in Critical
      BY <1>4, <2>1
    <3>4. QED
      BY <1>6, <3>1, <3>2, <3>3 DEF Shielded
  <2>2. CASE x # y \/ reason \notin Critical
    <3>1. Guarded(x)' => Guarded(x)
      BY <1>1, <1>2, <2>2 DEF Guarded, At
    <3>2. x \in exposed => x \in exposed'
      BY <1>1, <2>2
    <3>3. hot'[x] = hot[x] \/ Against(c, x)
      BY <1>1, <1>4, <2>2 DEF Against, At
    <3>4. QED
      BY <1>2, <1>6, <3>1, <3>2, <3>3, ShieldKept DEF SameCall
  <2>3. QED
    BY <2>1, <2>2
<1>8. QED
  BY <1>1, <1>2, <1>4, <1>5, <1>7 DEF WeightInv

\* The return of a pin promises nothing that was not guarded before.
LEMMA BumpKeepsInv ==
  ASSUME WeightInv, NEW c \in Callers, Bump(c)
  PROVE  WeightInv'
<1>1. /\ At(c, "bump") /\ Return(c) /\ hot' = hot /\ exposed' = exposed
      /\ promised' = IF ReasonOf(call[c].op) \in Critical THEN promised \cup {call[c].id} ELSE promised
  BY DEF Bump
<1>2. call[c].id \in Clusters
  BY <1>1 DEF WeightInv, CallInv, Busy, At
<1>3. ASSUME NEW d \in Callers
      PROVE  CallInv(d)'
  <2>1. CASE d = c
    BY <1>1, <2>1, ReturnKeeps
  <2>2. CASE d # c
    BY <1>1, <2>2, ReturnKeeps DEF WeightInv, CallInv, HasFields, Busy, At
  <2>3. QED
    BY <2>1, <2>2
<1>4. ASSUME NEW x \in Clusters
      PROVE  Shielded(x)'
  <2>1. Guarded(x)' => Guarded(x)
    BY <1>1, ReturnKeeps DEF Guarded, At, Busy
  <2>2. QED
    BY <1>1, <2>1, ReturnKeeps, ShieldKept DEF SameCall
<1>5. QED
  BY <1>1, <1>2, <1>3, <1>4, ReturnKeeps DEF WeightInv

LEMMA EraseKeepsInv ==
  ASSUME WeightInv, NEW c \in Callers, Erase(c)
  PROVE  WeightInv'
<1>1. Return(c) /\ hot' = hot /\ promised' = promised /\ exposed' = exposed
  BY DEF Erase
<1>2. QED
  BY <1>1, ReturnKeeps, QuietKeepsInv DEF WeightInv, CallInv, SameCall, Busy, At

\* What a call that begins does to the others.
LEMMA MetFields ==
  ASSUME NEW r, HasFields(r), NEW op, NEW x, NEW m, m = Met(r, op, x)
  PROVE  /\ HasFields(m)
         /\ m.pc = r.pc /\ m.op = r.op /\ m.id = r.id /\ m.room = r.room
         /\ m.counts = r.counts /\ m.victims = r.victims /\ ~ m.alone
         /\ ~ m.crossed => ~ r.crossed /\ ~ (r.op = "delete" /\ r.id = x /\ Caches(op))
<1> DEFINE crossed == IF r.op = "delete" /\ r.id = x /\ Caches(op) THEN TRUE ELSE r.crossed
<1>1. m = [r EXCEPT !.alone = FALSE, !.crossed = crossed]
  BY DEF Met
<1> HIDE DEF crossed
<1>2. /\ HasFields(m)
      /\ m.pc = r.pc /\ m.op = r.op /\ m.id = r.id /\ m.room = r.room
      /\ m.counts = r.counts /\ m.victims = r.victims /\ ~ m.alone
      /\ m.crossed = crossed
  BY <1>1 DEF HasFields
<1>3. ~ m.crossed => ~ r.crossed /\ ~ (r.op = "delete" /\ r.id = x /\ Caches(op))
  BY <1>2 DEF crossed
<1>4. QED
  BY <1>2, <1>3

LEMMA MetCall ==
  ASSUME NEW d \in Callers, HasFields(call[d]), NEW op, NEW x, call'[d] = Met(call[d], op, x)
  PROVE  /\ HasFields(call'[d]) /\ SameCall(d)
         /\ call'[d].room = call[d].room /\ call'[d].counts = call[d].counts /\ ~ call'[d].alone
         /\ ~ call'[d].crossed =>
              ~ call[d].crossed /\ ~ (call[d].op = "delete" /\ call[d].id = x /\ Caches(op))
  BY MetFields DEF SameCall

LEMMA BeginsKeepInv ==
  ASSUME WeightInv, NEW c \in Callers, NEW x \in Clusters, WeightCall(c, x)
  PROVE  WeightInv'
<1>1. PICK op \in {"load", "prefetch", "evict", "delete"} \cup Critical, pc \in {"count", "pinned", "check"} :
        Begin(c, op, x, pc) /\ (pc = "count" => op = "load" \/ op \in Critical)
  <2>1. CASE LoadCluster(c, x)
    BY <2>1 DEF LoadCluster
  <2>2. CASE PinCritical(c, x)
    BY <2>2 DEF PinCritical
  <2>3. CASE PrefetchCluster(c, x) \/ EvictCluster(c, x) \/ DeleteCluster(c, x)
    BY <2>3 DEF PrefetchCluster, EvictCluster, DeleteCluster
  <2>4. QED
    BY <2>1, <2>2, <2>3 DEF WeightCall
<1>2. /\ hot' = hot /\ promised' = promised /\ exposed' = exposed
      /\ call' = [d \in Callers |->
           IF d = c THEN [Idle EXCEPT !.pc = pc, !.op = op, !.id = x,
                                      !.alone = \A e \in Callers : ~Busy(e),
                                      !.crossed = Crosses(op, x)]
           ELSE IF Busy(d) THEN Met(call[d], op, x) ELSE call[d]]
  BY <1>1 DEF Begin
<1>3. ASSUME NEW d \in Callers \ {c}
      PROVE  SameCall(d) /\ HasFields(call'[d])
  <2>1. HasFields(call[d])
    BY DEF WeightInv, CallInv
  <2>2. call'[d] = IF Busy(d) THEN Met(call[d], op, x) ELSE call[d]
    BY <1>2
  <2>3. CASE Busy(d)
    BY <2>1, <2>2, <2>3, MetCall
  <2>4. CASE ~ Busy(d)
    BY <2>1, <2>2, <2>4 DEF SameCall
  <2>5. QED
    BY <2>3, <2>4
<1>4. /\ HasFields(call'[c]) /\ call'[c].pc = pc /\ call'[c].op = op
      /\ call'[c].id = x /\ call'[c].victims = {}
  BY <1>2 DEF Idle, HasFields
<1>5. CallInv(c)' /\ ~ At(c, "bump")' /\ \A z \in Clusters : ~ Against(c, z)'
  BY <1>1, <1>4 DEF CallInv, Busy, At, Against
<1>6. QED
  BY <1>2, <1>3, <1>5, QuietKeepsInv

LEMMA WeightInvStep == WeightInv /\ [WeightNext]_weightVars => WeightInv'
<1> SUFFICES ASSUME WeightInv, [WeightNext]_weightVars
             PROVE  WeightInv'
  OBVIOUS
<1>1. ASSUME NEW c \in Callers, NEW x \in Clusters, WeightCall(c, x)
      PROVE  WeightInv'
  BY <1>1, BeginsKeepInv
<1>2. ASSUME NEW c \in Callers, WeightStep(c)
      PROVE  WeightInv'
  BY <1>2, MoveKeepsInv, ReadKeepsInv, PickKeepsInv, DropVictimsKeepsInv, InsertKeepsInv,
     BumpKeepsInv, DropEntryKeepsInv, EraseKeepsInv DEF WeightStep
<1>3. CASE UNCHANGED <<hot, call, promised, exposed>>
  BY <1>3 DEF WeightInv, CallInv, HasFields, Busy, At, Shielded, Guarded, Against
<1>4. QED
  BY <1>1, <1>2, <1>3 DEF WeightNext, StoreCluster, weightVars

\* Once pin_identity_cluster or pin_logic_cluster has returned, its cluster stays
\* cached with a critical reason, however many threads load, prefetch, evict and
\* delete, unless one of them had already decided against it at the insert.
THEOREM CriticalPinsStay == WeightSpec => []CriticalStays
<1>1. WeightSpec => []WeightInv
  BY WeightInvInit, WeightInvStep, PTL DEF WeightSpec
<1>2. QED
  BY <1>1, InvImpliesStays, PTL
-----------------------------------------------------------------------------
\* Where a cluster that is cached comes from: the blob store, or a deletion that
\* was crossed.
Backed == stored \cup strays

\* From the look-up, or the fetch, to the insert.
Holding == {"room", "counts", "victims", "drop", "insert"}

\* The steps each call takes.
Fits(pc, op) ==
  /\ pc \in {"count", "hot", "fetch", "bump"} \cup Holding => Caches(op)
  /\ pc = "pinned" => op \in {"prefetch", "delete"}
  /\ pc \in {"check", "remove"} => op \in {"evict", "delete"}
  /\ pc = "erase" => op = "delete"

\* While a deletion is not crossed, no call that may cache its cluster is under
\* way, so nothing caches again what it is about to erase.
Uncrossed(d) ==
  Busy(d) /\ call[d].op = "delete" /\ ~ call[d].crossed =>
    /\ \A e \in Callers : ~ Caching(e, call[d].id)
    /\ At(d, "erase") => call[d].id \notin Cached

Lonely(d) == Busy(d) /\ call[d].alone => \A e \in Callers \ {d} : ~ Busy(e)

SoundCall(d) ==
  /\ Fits(call[d].pc, call[d].op)
  /\ call[d].pc \in Holding => call[d].id \in Backed
  /\ Uncrossed(d)
  /\ Lonely(d)

SoundInv ==
  /\ Cached \subseteq Backed
  /\ \A d \in Callers : SoundCall(d)

LEMMA SoundImpliesStored == SoundInv => CachedIsStored
  BY DEF SoundInv, Backed, CachedIsStored

\* A call that is not under way has nothing to keep.
LEMMA IdleSound ==
  ASSUME NEW d, call[d] = Idle
  PROVE  SoundCall(d) /\ ~ Busy(d) /\ \A x : ~ Caching(d, x)
  BY DEF SoundCall, Fits, Uncrossed, Lonely, Caching, Busy, Idle, Holding

LEMMA SoundInvInit == WeightInit => SoundInv
<1> SUFFICES ASSUME WeightInit
             PROVE  SoundInv
  OBVIOUS
<1>1. Cached = {}
  BY DEF WeightInit, Cached
<1>2. \A d \in Callers : call[d] = Idle
  BY DEF WeightInit
<1>3. QED
  BY <1>1, <1>2, IdleSound DEF SoundInv

\* One call moves on or returns; blobs stay backed, and what is cached stays
\* cached or was what the call may cache.
LEMMA SoundKept ==
  ASSUME SoundInv, NEW c \in Callers, Busy(c),
         \A d \in Callers \ {c} : call'[d] = call[d],
         Backed \subseteq Backed', Cached' \subseteq Backed', SoundCall(c)',
         \A x : Caching(c, x)' => Caching(c, x),
         \A x \in Cached' \ Cached : Caching(c, x)
  PROVE  SoundInv'
<1>1. ASSUME NEW d \in Callers \ {c}
      PROVE  SoundCall(d)'
  <2>1. SoundCall(d) /\ call'[d] = call[d]
    BY DEF SoundInv
  <2>2. \A e \in Callers : Caching(e, call[d].id)' => Caching(e, call[d].id)
    BY <2>1 DEF Caching, Busy
  <2>3. Uncrossed(d)'
    BY <2>1, <2>2 DEF SoundCall, Uncrossed, Busy, At
  <2>4. Lonely(d)'
    BY <2>1 DEF SoundCall, Lonely, Busy
  <2>5. QED
    BY <2>1, <2>3, <2>4 DEF SoundCall
<1>2. QED
  BY <1>1 DEF SoundInv

\* A call that moves on keeps what it is and what it knows of the others.
LEMMA StaysSound ==
  ASSUME SoundInv, NEW c \in Callers, NEW to, NEW victims, Moved(c, to, victims), Busy(c),
         to = "erase" => call[c].id \notin Cached'
  PROVE  Uncrossed(c)' /\ Lonely(c)' /\ \A x : Caching(c, x)' => Caching(c, x)
<1>1. /\ call'[c].pc = to /\ call'[c].op = call[c].op /\ call'[c].id = call[c].id
      /\ call'[c].alone = call[c].alone /\ call'[c].crossed = call[c].crossed
      /\ \A d \in Callers \ {c} : call'[d] = call[d]
  BY DEF Moved, Update
<1>2. \A e \in Callers : \A x : Caching(e, x)' => Caching(e, x)
  BY <1>1 DEF Caching, Busy
<1>3. Uncrossed(c) /\ Lonely(c)
  BY DEF SoundInv, SoundCall
<1>4. Uncrossed(c)'
  BY <1>1, <1>2, <1>3 DEF Uncrossed, At
<1>5. Lonely(c)'
  BY <1>1, <1>3 DEF Lonely, Busy
<1>6. QED
  BY <1>2, <1>4, <1>5

\* The step of a call that moves on, with what is cached as it was or less.
LEMMA MovedSound ==
  ASSUME SoundInv, NEW c \in Callers, NEW to, NEW victims, Moved(c, to, victims), Busy(c),
         stored' = stored, strays' = strays, Cached' \subseteq Cached,
         Fits(to, call[c].op),
         to \in Holding => call[c].id \in Backed,
         to = "erase" => call[c].id \notin Cached'
  PROVE  SoundInv'
<1>1. /\ call'[c].pc = to /\ call'[c].op = call[c].op /\ call'[c].id = call[c].id
      /\ \A d \in Callers \ {c} : call'[d] = call[d]
  BY DEF Moved, Update
<1>2. Backed' = Backed /\ Cached' \subseteq Backed'
  BY DEF Backed, SoundInv
<1>3. Uncrossed(c)' /\ Lonely(c)' /\ \A x : Caching(c, x)' => Caching(c, x)
  BY StaysSound
<1>4. Fits(call[c].pc, call[c].op)'
  BY <1>1 DEF Fits, Caches
<1>5. SoundCall(c)'
  BY <1>1, <1>2, <1>3, <1>4 DEF SoundCall
<1>6. QED
  BY <1>1, <1>2, <1>3, <1>5, SoundKept

\* The step of a call that returns.
LEMMA ReturnSound ==
  ASSUME WeightInv, SoundInv, NEW c \in Callers, Busy(c), Return(c),
         stored' = stored, strays' = strays, Cached' \subseteq Cached
  PROVE  SoundInv'
<1>1. call'[c] = Idle /\ \A d \in Callers \ {c} : call'[d] = call[d]
  BY ReturnKeeps
<1>2. Backed' = Backed /\ Cached' \subseteq Backed'
  BY DEF Backed, SoundInv
<1>3. SoundCall(c)' /\ \A x : ~ Caching(c, x)'
  BY <1>1 DEF SoundCall, Fits, Uncrossed, Lonely, Caching, Busy, Idle, Holding
<1>4. QED
  BY <1>1, <1>2, <1>3, SoundKept

\* Forgetting entries only empties the cache.
LEMMA ForgetCached ==
  ASSUME NEW gone, Forget(gone)
  PROVE  /\ Cached' \subseteq Cached
         /\ \A x \in gone : x \notin Cached'
<1>1. hot' = [x \in Clusters |-> IF x \in gone THEN Cold ELSE hot[x]]
  BY DEF Forget
<1>2. QED
  BY <1>1 DEF Cached

\* Steps before the pin: they read the cache, its counts and the blob store.
LEMMA ReadsSound ==
  ASSUME WeightInv, SoundInv, NEW c \in Callers,
         CountAccess(c) \/ LookUp(c) \/ IsPinned(c) \/ Fetch(c) \/ CheckReason(c)
  PROVE  SoundInv'
<1>1. Busy(c) /\ stored' = stored /\ strays' = strays /\ Cached' = Cached
  BY DEF CountAccess, LookUp, IsPinned, Fetch, CheckReason, Busy, At, Cached
<1> DEFINE op == call[c].op
<1>f. Fits(call[c].pc, op)
  BY DEF SoundInv, SoundCall
<1>2. CASE Return(c)
  BY <1>1, <1>2, ReturnSound
<1>3. ASSUME NEW to, GoTo(c, to), Fits(to, op),
             to \in Holding => call[c].id \in Backed,
             to = "erase" => call[c].id \notin Cached
      PROVE  SoundInv'
  BY <1>1, <1>3, GoKeeps, MovedSound
<1> HIDE DEF op
<1>4. CASE CountAccess(c)
  <2>1. Fits("hot", op)
    BY <1>f, <1>4 DEF CountAccess, At, Fits, Holding
  <2>2. QED
    BY <1>3, <1>4, <2>1 DEF CountAccess, Holding
<1>5. CASE LookUp(c)
  <2>1. call[c].id \in Cached => call[c].id \in Backed
    BY DEF SoundInv
  <2>f. Fits("room", op) /\ Fits("fetch", op)
    BY <1>f, <1>5 DEF LookUp, At, Fits, Holding
  <2>2. CASE GoTo(c, "room") /\ call[c].id \in Cached
    BY <1>3, <2>1, <2>2, <2>f
  <2>3. CASE GoTo(c, "fetch")
    BY <1>3, <2>3, <2>f DEF Holding
  <2>4. QED
    BY <1>2, <1>5, <2>2, <2>3 DEF LookUp
<1>6. CASE IsPinned(c)
  <2>1. CASE op = "prefetch" /\ GoTo(c, "fetch")
    <3>1. Fits("fetch", op)
      BY <2>1 DEF Fits, Caches
    <3>2. QED
      BY <1>3, <2>1, <3>1 DEF Holding
  <2>2. CASE op = "delete" /\ GoTo(c, "check")
    <3>1. Fits("check", op)
      BY <2>2 DEF Fits, Holding
    <3>2. QED
      BY <1>3, <2>2, <3>1 DEF Holding
  <2>3. CASE op = "delete" /\ GoTo(c, "erase") /\ call[c].id \notin Cached
    <3>1. Fits("erase", op)
      BY <2>3 DEF Fits, Holding
    <3>2. QED
      BY <1>3, <2>3, <3>1 DEF Holding
  <2>4. QED
    BY <1>2, <1>6, <2>1, <2>2, <2>3 DEF IsPinned, op
<1>7. CASE Fetch(c)
  <2>1. CASE call[c].id \in stored /\ GoTo(c, "room")
    <3>1. call[c].id \in Backed
      BY <2>1 DEF Backed
    <3>2. Fits("room", op)
      BY <1>f, <1>7 DEF Fetch, At, Fits, Holding
    <3>3. QED
      BY <1>3, <2>1, <3>1, <3>2
  <2>2. QED
    BY <1>2, <1>7, <2>1 DEF Fetch
<1>8. CASE CheckReason(c)
  <2>1. CASE GoTo(c, "remove")
    <3>1. Fits("remove", op)
      BY <1>f, <1>8 DEF CheckReason, At, Fits, Holding
    <3>2. QED
      BY <1>3, <2>1, <3>1 DEF Holding
  <2>2. QED
    BY <1>2, <1>8, <2>1 DEF CheckReason
<1>9. QED
  BY <1>4, <1>5, <1>6, <1>7, <1>8

\* maybe_evict: the call holds its cluster all along.
LEMMA EvictSound ==
  ASSUME WeightInv, SoundInv, NEW c \in Callers,
         ReadRoom(c) \/ ReadCounts(c) \/ PickVictims(c) \/ DropVictims(c)
  PROVE  SoundInv'
<1>1. /\ Busy(c) /\ stored' = stored /\ strays' = strays
      /\ call[c].pc \in Holding
  BY DEF ReadRoom, ReadCounts, PickVictims, DropVictims, Busy, At, Holding
<1>2. Cached' \subseteq Cached
  BY ForgetCached DEF ReadRoom, ReadCounts, PickVictims, DropVictims, Cached
<1>3. /\ call[c].id \in Backed
      /\ \A to \in Holding : Fits(to, call[c].op)
  BY <1>1 DEF SoundInv, SoundCall, Fits, Holding
<1>4. HasFields(call[c])
  BY DEF WeightInv, CallInv
<1>5. \E to \in {"counts", "victims", "drop", "insert"} : \E victims : Moved(c, to, victims)
  <2>1. CASE ReadRoom(c) /\ GoTo(c, "insert")
    BY <2>1, GoKeeps
  <2>2. CASE ReadRoom(c) /\ ~ GoTo(c, "insert")
    <3>1. call' = [d \in Callers |-> IF d = c THEN [call[c] EXCEPT !.pc = "counts", !.room = Cardinality(Cached)]
                                    ELSE call[d]]
      BY <2>2 DEF ReadRoom, WeightInv
    <3>2. QED
      BY <1>4, <3>1, SectionUpdates, MovedIf
  <2>3. CASE ReadCounts(c)
    <3>1. call' = [d \in Callers |-> IF d = c THEN [call[c] EXCEPT !.pc = "victims", !.counts = accesses]
                                    ELSE call[d]]
      BY <2>3 DEF ReadCounts, WeightInv
    <3>2. QED
      BY <1>4, <3>1, SectionUpdates, MovedIf
  <2>4. CASE PickVictims(c)
    <3> DEFINE victims == Coldest(call[c].counts, (call[c].room - CacheCapacity) + 1)
    <3>1. call' = [d \in Callers |->
            IF d = c THEN [call[c] EXCEPT !.pc = "drop", !.room = 0, !.counts = NoCounts, !.victims = victims]
            ELSE call[d]]
      BY <2>4 DEF PickVictims, WeightInv
    <3> HIDE DEF victims
    <3>2. QED
      BY <1>4, <3>1, SectionUpdates, MovedIf
  <2>5. CASE DropVictims(c)
    <3>1. call' = [d \in Callers |-> IF d = c THEN [call[c] EXCEPT !.pc = "insert", !.victims = {}] ELSE call[d]]
      BY <2>5 DEF DropVictims, WeightInv
    <3>2. QED
      BY <1>4, <3>1, SectionUpdates, MovedIf
  <2>6. QED
    BY <2>1, <2>2, <2>3, <2>4, <2>5
<1>6. QED
  BY <1>1, <1>2, <1>3, <1>5, MovedSound DEF Holding

\* The insert caches what the call held, and the count that follows nothing.
LEMMA InsertSound ==
  ASSUME WeightInv, SoundInv, NEW c \in Callers, Insert(c) \/ Bump(c)
  PROVE  SoundInv'
<1>1. CASE Bump(c)
  <2>1. Busy(c) /\ Return(c) /\ stored' = stored /\ strays' = strays /\ Cached' = Cached
    BY <1>1 DEF Bump, Busy, At, Cached
  <2>2. QED
    BY <2>1, ReturnSound
<1>2. CASE Insert(c)
  <2>1. /\ Busy(c) /\ GoTo(c, "bump") /\ stored' = stored /\ strays' = strays
        /\ call[c].pc \in Holding
        /\ hot' = [hot EXCEPT ![call[c].id] = ReasonOf(call[c].op)]
    BY <1>2 DEF Insert, Busy, At, Holding
  <2>2. call[c].id \in Backed /\ Backed' = Backed /\ Caches(call[c].op)
    BY <2>1 DEF SoundInv, SoundCall, Backed, Fits
  <2>3. \A x \in Cached' \ Cached : x = call[c].id
    BY <2>1 DEF Cached, WeightInv
  <2>4. Cached' \subseteq Backed'
    BY <2>2, <2>3 DEF SoundInv
  <2>5. Moved(c, "bump", call[c].victims)
    BY <2>1, GoKeeps
  <2>6. /\ call'[c].pc = "bump" /\ call'[c].op = call[c].op
        /\ \A d \in Callers \ {c} : call'[d] = call[d]
    BY <2>5 DEF Moved, Update
  <2>7. Uncrossed(c)' /\ Lonely(c)' /\ \A x : Caching(c, x)' => Caching(c, x)
    BY <2>1, <2>5, StaysSound
  <2>8. SoundCall(c)'
    BY <2>2, <2>6, <2>7 DEF SoundCall, Fits, Caches, Holding
  <2>9. \A x \in Cached' \ Cached : Caching(c, x)
    BY <2>1, <2>2, <2>3 DEF Caching
  <2>10. QED
    BY <2>1, <2>2, <2>4, <2>6, <2>7, <2>8, <2>9, SoundKept
<1>3. QED
  BY <1>1, <1>2

\* A deletion goes on to the blob only when the entry is gone.
LEMMA DropEntrySound ==
  ASSUME WeightInv, SoundInv, NEW c \in Callers, DropEntry(c)
  PROVE  SoundInv'
<1>1. Busy(c) /\ stored' = stored /\ strays' = strays /\ Forget({call[c].id})
  BY DEF DropEntry, Busy, At
<1>2. Cached' \subseteq Cached /\ call[c].id \notin Cached'
  BY <1>1, ForgetCached
<1>3. CASE GoTo(c, "erase") /\ call[c].op = "delete"
  <2>1. Fits("erase", call[c].op)
    BY <1>3 DEF Fits, Holding
  <2>2. QED
    BY <1>1, <1>2, <1>3, <2>1, GoKeeps, MovedSound DEF Holding
<1>4. CASE Return(c)
  BY <1>1, <1>2, <1>4, ReturnSound
<1>5. QED
  BY <1>3, <1>4 DEF DropEntry

\* A blob goes that is not cached, and that no call holds, when nothing has crossed
\* the deletion; when something has, the blob is noted as a stray.
LEMMA EraseSound ==
  ASSUME WeightInv, SoundInv, NEW c \in Callers, Erase(c)
  PROVE  SoundInv'
<1> DEFINE x == call[c].id
<1>1. /\ Busy(c) /\ Return(c) /\ At(c, "erase") /\ Cached' = Cached
      /\ stored' = stored \ {x}
      /\ strays' = IF call[c].crossed THEN strays \cup {x} ELSE strays \ {x}
  BY DEF Erase, Busy, At, Cached
<1>2. call'[c] = Idle /\ \A d \in Callers \ {c} : call'[d] = call[d]
  BY <1>1, ReturnKeeps
<1>3. SoundCall(c)' /\ ~ Busy(c)' /\ \A y : ~ Caching(c, y)'
  BY <1>2 DEF SoundCall, Fits, Uncrossed, Lonely, Caching, Busy, Idle, Holding
<1> HIDE DEF x
<1>4. CASE call[c].crossed
  <2>1. Backed \subseteq Backed'
    BY <1>1, <1>4 DEF Backed
  <2>2. QED
    BY <1>1, <1>2, <1>3, <2>1, SoundKept DEF SoundInv
<1>5. CASE ~ call[c].crossed
  <2>1. x \notin Cached /\ \A e \in Callers : ~ Caching(e, x)
    BY <1>1, <1>5 DEF SoundInv, SoundCall, Fits, Uncrossed, At, x
  <2>2. Backed' = Backed \ {x}
    BY <1>1, <1>5 DEF Backed
  <2>3. ASSUME NEW d \in Callers \ {c}
        PROVE  SoundCall(d)'
    <3>1. SoundCall(d) /\ call'[d] = call[d]
      BY <1>2 DEF SoundInv
    <3>2. call[d].pc \in Holding => call[d].id # x
      BY <2>1, <3>1 DEF SoundCall, Fits, Caching, Busy, Holding
    <3>3. \A e \in Callers : Caching(e, call[d].id)' => Caching(e, call[d].id)
      BY <1>2, <1>3 DEF Caching, Busy
    <3>4. Uncrossed(d)'
      BY <1>1, <3>1, <3>3 DEF SoundCall, Uncrossed, Busy, At
    <3>5. Lonely(d)'
      BY <1>2, <1>3, <3>1 DEF SoundCall, Lonely, Busy
    <3>6. QED
      BY <2>2, <3>1, <3>2, <3>4, <3>5 DEF SoundCall
  <2>4. Cached' \subseteq Backed'
    BY <1>1, <2>1, <2>2 DEF SoundInv
  <2>5. QED
    BY <1>3, <2>3, <2>4 DEF SoundInv
<1>6. QED
  BY <1>4, <1>5

\* A call that begins crosses the deletions of what it may cache, and is crossed,
\* if it is a deletion, by the calls that may cache its cluster.
LEMMA BeginSound ==
  ASSUME WeightInv, SoundInv, NEW c \in Callers, NEW x \in Clusters, WeightCall(c, x)
  PROVE  SoundInv'
<1>1. PICK op \in Ops, pc \in {"count", "pinned", "check"} : Begin(c, op, x, pc) /\ Fits(pc, op)
  <2>1. CASE LoadCluster(c, x)
    BY <2>1 DEF LoadCluster, Ops, Fits, Caches
  <2>2. CASE PinCritical(c, x)
    <3>1. PICK why \in Critical : Begin(c, why, x, "count")
      BY <2>2 DEF PinCritical
    <3>2. why \in Ops /\ Fits("count", why)
      BY CacheAssumption DEF Ops, Fits, Caches
    <3>3. QED
      BY <3>1, <3>2
  <2>3. CASE PrefetchCluster(c, x)
    BY <2>3 DEF PrefetchCluster, Ops, Fits, Holding
  <2>4. CASE EvictCluster(c, x)
    BY <2>4 DEF EvictCluster, Ops, Fits, Holding
  <2>5. CASE DeleteCluster(c, x)
    BY <2>5 DEF DeleteCluster, Ops, Fits, Holding
  <2>6. QED
    BY <2>1, <2>2, <2>3, <2>4, <2>5 DEF WeightCall
<1>2. /\ Backed' = Backed /\ Cached' = Cached /\ ~ Busy(c)
      /\ call' = [d \in Callers |->
           IF d = c THEN [Idle EXCEPT !.pc = pc, !.op = op, !.id = x,
                                      !.alone = \A e \in Callers : ~Busy(e),
                                      !.crossed = Crosses(op, x)]
           ELSE IF Busy(d) THEN Met(call[d], op, x) ELSE call[d]]
  BY <1>1 DEF Begin, Backed, Cached, At, Busy
<1>3. /\ call'[c].pc = pc /\ call'[c].op = op /\ call'[c].id = x
      /\ call'[c].alone => \A e \in Callers : ~ Busy(e)
      /\ ~ call'[c].crossed => ~ Crosses(op, x)
  BY <1>2 DEF Idle
<1>4. ASSUME NEW d \in Callers \ {c}
      PROVE  /\ call'[d].pc = call[d].pc /\ call'[d].op = call[d].op /\ call'[d].id = call[d].id
             /\ Busy(d) => ~ call'[d].alone
             /\ Busy(d) /\ ~ call'[d].crossed =>
                  ~ call[d].crossed /\ ~ (call[d].op = "delete" /\ call[d].id = x /\ Caches(op))
  <2>1. HasFields(call[d])
    BY DEF WeightInv, CallInv
  <2>2. call'[d] = IF Busy(d) THEN Met(call[d], op, x) ELSE call[d]
    BY <1>2
  <2>3. CASE Busy(d)
    BY <2>1, <2>2, <2>3, MetCall DEF SameCall
  <2>4. CASE ~ Busy(d)
    BY <2>2, <2>4
  <2>5. QED
    BY <2>3, <2>4
<1>5. \A e \in Callers \ {c} : \A y : Caching(e, y)' => Caching(e, y)
  BY <1>4 DEF Caching, Busy, Caches
<1>6. \A y : Caching(c, y)' => Caches(op) /\ y = x
  BY <1>3 DEF Caching, Caches
<1>7. SoundCall(c)'
  <2>1. Fits(call[c].pc, call[c].op)'
    BY <1>1, <1>3 DEF Fits, Caches
  <2>2. Uncrossed(c)'
    <3> SUFFICES ASSUME op = "delete", ~ call'[c].crossed
                 PROVE  \A e \in Callers : ~ Caching(e, x)'
      BY <1>3 DEF Uncrossed, At
    <3>1. \A e \in Callers : ~ Caching(e, x)
      BY <1>3 DEF Crosses
    <3>2. QED
      BY <1>5, <1>6, <3>1 DEF Caches
  <2>3. Lonely(c)'
    BY <1>3, <1>4 DEF Lonely, Busy
  <2>4. QED
    BY <1>3, <2>1, <2>2, <2>3 DEF SoundCall, Holding
<1>8. ASSUME NEW d \in Callers \ {c}
      PROVE  SoundCall(d)'
  <2>1. SoundCall(d)
    BY DEF SoundInv
  <2>2. Uncrossed(d)'
    <3> SUFFICES ASSUME Busy(d), call[d].op = "delete", ~ call'[d].crossed,
                        NEW y, y = call[d].id
                 PROVE  /\ \A e \in Callers : ~ Caching(e, y)'
                        /\ At(d, "erase") => y \notin Cached
      BY <1>2, <1>4 DEF Uncrossed, Caching, Busy, At
    <3>1. /\ \A e \in Callers : ~ Caching(e, y)
          /\ At(d, "erase") => y \notin Cached
      BY <1>4, <2>1 DEF SoundCall, Uncrossed
    <3>2. ~ Caching(c, y)'
      BY <1>4, <1>6
    <3>3. QED
      BY <1>5, <3>1, <3>2
  <2>3. Lonely(d)'
    BY <1>4 DEF Lonely, Busy
  <2>4. QED
    BY <1>2, <1>4, <2>1, <2>2, <2>3 DEF SoundCall, Fits, Caches
<1>9. QED
  BY <1>2, <1>7, <1>8 DEF SoundInv

LEMMA SoundInvStep == WeightInv /\ SoundInv /\ [WeightNext]_weightVars => SoundInv'
<1> SUFFICES ASSUME WeightInv, SoundInv, [WeightNext]_weightVars
             PROVE  SoundInv'
  OBVIOUS
<1>1. ASSUME NEW c \in Callers, NEW x \in Clusters, WeightCall(c, x)
      PROVE  SoundInv'
  BY <1>1, BeginSound
<1>2. ASSUME NEW c \in Callers, WeightStep(c)
      PROVE  SoundInv'
  BY <1>2, ReadsSound, EvictSound, InsertSound, DropEntrySound, EraseSound DEF WeightStep
<1>3. CASE Backed \subseteq Backed' /\ UNCHANGED <<hot, call>>
  <2>1. ASSUME NEW d \in Callers
        PROVE  SoundCall(d)'
    <3>1. SoundCall(d)
      BY DEF SoundInv
    <3>2. Uncrossed(d)'
      BY <1>3, <3>1 DEF SoundCall, Uncrossed, Caching, Busy, At, Cached
    <3>3. Lonely(d)'
      BY <1>3, <3>1 DEF SoundCall, Lonely, Busy
    <3>4. QED
      BY <1>3, <3>1, <3>2, <3>3 DEF SoundCall
  <2>2. Cached' \subseteq Backed'
    BY <1>3 DEF SoundInv, Cached
  <2>3. QED
    BY <2>1, <2>2 DEF SoundInv
<1>4. ASSUME NEW x \in Clusters, StoreCluster(x)
      PROVE  SoundInv'
  <2>1. Backed \subseteq Backed'
    BY <1>4 DEF StoreCluster, Backed
  <2>2. QED
    BY <1>3, <1>4, <2>1 DEF StoreCluster
<1>5. CASE UNCHANGED weightVars
  BY <1>3, <1>5 DEF weightVars, Backed
<1>6. QED
  BY <1>1, <1>2, <1>4, <1>5 DEF WeightNext

\* A cluster that is cached is one the blob store has, whatever was loaded,
\* prefetched, pinned, evicted and deleted when, unless a call that may cache it was
\* under way at some moment of its last deletion.
THEOREM CachedStaysStored == WeightSpec => []CachedIsStored
<1>1. WeightSpec => [](WeightInv /\ SoundInv)
  <2>1. WeightInit => WeightInv /\ SoundInv
    BY WeightInvInit, SoundInvInit
  <2>2. WeightInv /\ SoundInv /\ [WeightNext]_weightVars => WeightInv' /\ SoundInv'
    BY WeightInvStep, SoundInvStep
  <2>3. QED
    BY <2>1, <2>2, PTL DEF WeightSpec
<1>2. QED
  BY <1>1, SoundImpliesStored, PTL
-----------------------------------------------------------------------------
(***************************************************************************)
(* The room a pin makes.  maybe_evict drops as many of the coldest entries *)
(* as it has found too many, if there are so many; for that the order of   *)
(* its candidates must be one.                                             *)
(***************************************************************************)
Spare == IF CacheCapacity = 0 THEN 0 ELSE CacheCapacity - 1

\* The times of access of cached clusters order them.
AccessOrder ==
  /\ older \subseteq Cached \X Cached
  /\ \A x \in Cached : <<x, x>> \notin older
  /\ \A x, y, z \in Cached : <<x, y>> \in older /\ <<y, z>> \in older => <<x, z>> \in older

\* What a call that runs alone knows of the cache, from section to section.
RoomCall(d) ==
  /\ At(d, "victims") => call[d].counts \in [Clusters -> Nat]
  /\ call[d].alone =>
       /\ At(d, "counts") \/ At(d, "victims") =>
            call[d].room = Cardinality(Cached) /\ CacheCapacity <= call[d].room
       /\ At(d, "drop") => Cardinality(Candidates \ call[d].victims) <= Spare
       /\ At(d, "insert") => Cardinality(Candidates) <= Spare

RoomInv ==
  /\ IsFiniteSet(Cached)
  /\ accesses \in [Clusters -> Nat]
  /\ AccessOrder
  /\ \A d \in Callers : RoomCall(d)

LEMMA LeastExists ==
  ASSUME NEW T, T \subseteq Nat, T # {}
  PROVE  \E x \in T : \A y \in T : x <= y
<1>1. \E x \in T : \A y \in T : ~ (<<y, x>> \in OpToRel(<, Nat))
  BY NatLessThanWellFounded, WFMin, Zenon
<1>2. PICK x \in T : \A y \in T : ~ (<<y, x>> \in OpToRel(<, Nat))
  BY <1>1
<1>3. ASSUME NEW y \in T
      PROVE  ~ (y < x)
  BY <1>2, <1>3, Zenon DEF OpToRel
<1>4. \A y \in T : x <= y
  BY <1>3
<1>5. QED
  BY <1>4

LEMMA ColderOrders ==
  ASSUME AccessOrder, NEW counts \in [Clusters -> Nat],
         NEW x \in Candidates, NEW y \in Candidates, NEW z \in Candidates
  PROVE  /\ ~ Colder(counts, x, x)
         /\ Colder(counts, x, y) /\ Colder(counts, y, z) => Colder(counts, x, z)
<1>1. /\ {x, y, z} \subseteq Cached
      /\ counts[x] \in Nat /\ counts[y] \in Nat /\ counts[z] \in Nat
  BY DEF Candidates, Cached
<1>2. /\ <<x, x>> \notin older
      /\ <<x, y>> \in older /\ <<y, z>> \in older => <<x, z>> \in older
  BY <1>1 DEF AccessOrder
<1>3. QED
  BY <1>1, <1>2 DEF Colder

\* What is left of the candidates when the n coldest go: nothing, or n fewer.
\* For the coldest of the rest has n colder ones, which are gone.
LEMMA RestIsFewer ==
  ASSUME AccessOrder, IsFiniteSet(Cached), NEW counts \in [Clusters -> Nat], NEW n \in Nat,
         Candidates \ Coldest(counts, n) # {}
  PROVE  Cardinality(Candidates \ Coldest(counts, n)) + n <= Cardinality(Candidates)
<1> DEFINE all == Candidates
           rest == all \ Coldest(counts, n)
           below(x) == {y \in all : Colder(counts, y, x)}
           sizes == {Cardinality(below(x)) : x \in rest}
<1>1. IsFiniteSet(all)
  <2>1. all \subseteq Cached
    BY DEF Candidates
  <2>2. QED
    BY <2>1, FS_Subset
<1>2. \A x \in all : IsFiniteSet(below(x)) /\ Cardinality(below(x)) \in Nat
  <2>1. \A x \in all : below(x) \subseteq all
    OBVIOUS
  <2>2. QED
    BY <1>1, <2>1, FS_Subset, FS_CardinalityType
<1>3. \A x \in rest : x \in all /\ n <= Cardinality(below(x))
  BY <1>2 DEF Coldest
<1>4. PICK x \in rest : \A y \in rest : Cardinality(below(x)) <= Cardinality(below(y))
  <2>1. sizes \subseteq Nat /\ sizes # {}
    BY <1>2, <1>3
  <2>2. PICK size \in sizes : \A other \in sizes : size <= other
    BY <2>1, LeastExists
  <2>3. PICK x \in rest : size = Cardinality(below(x))
    OBVIOUS
  <2>4. \A y \in rest : Cardinality(below(y)) \in sizes
    OBVIOUS
  <2> HIDE DEF sizes, below, rest
  <2>5. QED
    BY <2>2, <2>3, <2>4
<1>5. ASSUME NEW y \in below(x)
      PROVE  y \notin rest
  <2>1. y \in all /\ x \in all /\ Colder(counts, y, x)
    BY <1>3, <1>5
  <2>2. below(y) \subseteq below(x) \ {y}
    <3>1. ASSUME NEW z \in below(y)
          PROVE  z \in below(x) /\ z # y
      BY <2>1, <3>1, ColderOrders
    <3>2. QED
      BY <3>1
  <2>3. Cardinality(below(x) \ {y}) = Cardinality(below(x)) - 1 /\ IsFiniteSet(below(x) \ {y})
    BY <1>2, <1>5, <2>1, FS_RemoveElement
  <2>4. Cardinality(below(y)) <= Cardinality(below(x)) - 1
    BY <2>2, <2>3, FS_Subset
  <2>5. Cardinality(below(x)) \in Nat /\ Cardinality(below(y)) \in Nat
    BY <1>2, <2>1
  <2>6. ~ (Cardinality(below(x)) <= Cardinality(below(y)))
    BY <2>4, <2>5
  <2>7. QED
    BY <1>4, <2>6
<1>6. below(x) \subseteq all \ rest
  BY <1>5
<1>7. /\ Cardinality(below(x)) <= Cardinality(all \ rest)
      /\ Cardinality(all \ rest) = Cardinality(all) - Cardinality(rest)
      /\ Cardinality(all) \in Nat /\ Cardinality(rest) \in Nat
  <2>1. IsFiniteSet(all \ rest) /\ IsFiniteSet(rest)
    BY <1>1, FS_Subset
  <2>2. all \cap rest = rest
    OBVIOUS
  <2>3. Cardinality(all \ rest) = Cardinality(all) - Cardinality(all \cap rest)
    BY <1>1, FS_Difference
  <2>4. QED
    BY <1>1, <1>6, <2>1, <2>2, <2>3, FS_Subset, FS_CardinalityType
<1>8. n <= Cardinality(below(x)) /\ Cardinality(below(x)) \in Nat
  BY <1>2, <1>3
<1> HIDE DEF below
<1>9. QED
  BY <1>7, <1>8

-----------------------------------------------------------------------------
LEMMA RoomInvInit == WeightInit => RoomInv
<1> SUFFICES ASSUME WeightInit
             PROVE  RoomInv
  OBVIOUS
<1>1. Cached = {}
  BY DEF WeightInit, Cached
<1>2. IsFiniteSet(Cached)
  BY <1>1, FS_EmptySet
<1>3. accesses \in [Clusters -> Nat] /\ older = {}
  BY DEF WeightInit, NoCounts
<1>4. AccessOrder
  BY <1>1, <1>3 DEF AccessOrder
<1>5. \A d \in Callers : call[d].pc = "idle"
  BY DEF WeightInit, Idle
<1>6. \A d \in Callers : RoomCall(d)
  BY <1>5 DEF RoomCall, At
<1>7. QED
  BY <1>2, <1>3, <1>4, <1>6 DEF RoomInv

LEMMA TouchOrders ==
  ASSUME AccessOrder, NEW x \in Clusters, Cached' = Cached \cup {x}, older' = Touch(x)
  PROVE  AccessOrder'
<1>1. /\ older' \subseteq Cached' \X Cached'
      /\ \A p \in older' : p[1] # x
      /\ \A y, z \in Cached : z # x /\ y # x => (<<y, z>> \in older' <=> <<y, z>> \in older)
      /\ \A y, z \in Cached' : <<y, z>> \in older' => y \in Cached \ {x}
      /\ \A y \in Cached \ {x} : <<y, x>> \in older'
  BY DEF AccessOrder, Touch, Without
<1>2. \A y \in Cached' : <<y, y>> \notin older'
  <2>1. <<x, x>> \notin older'
    BY <1>1
  <2>2. QED
    BY <1>1, <2>1 DEF AccessOrder
<1>3. ASSUME NEW y \in Cached', NEW z \in Cached', NEW w \in Cached',
             <<y, z>> \in older', <<z, w>> \in older'
      PROVE  <<y, w>> \in older'
  <2>1. y \in Cached \ {x} /\ z \in Cached \ {x}
    BY <1>1, <1>3
  <2>2. CASE w = x
    BY <1>1, <2>1, <2>2
  <2>3. CASE w # x
    <3>1. w \in Cached
      BY <2>3
    <3>2. <<y, z>> \in older /\ <<z, w>> \in older
      BY <1>1, <1>3, <2>1, <2>3, <3>1
    <3>3. <<y, w>> \in older
      BY <2>1, <3>1, <3>2 DEF AccessOrder
    <3>4. QED
      BY <1>1, <2>1, <2>3, <3>1, <3>3
  <2>4. QED
    BY <2>2, <2>3
<1>4. QED
  BY <1>1, <1>2, <1>3 DEF AccessOrder

LEMMA ForgetOrders ==
  ASSUME AccessOrder, NEW gone, Forget(gone)
  PROVE  AccessOrder' /\ Cached' = Cached \ gone /\ Candidates' = Candidates \ gone
<1>1. /\ hot' = [x \in Clusters |-> IF x \in gone THEN Cold ELSE hot[x]]
      /\ older' = {p \in older : p[1] \notin gone /\ p[2] \notin gone}
  BY DEF Forget, Without
<1>2. Cached' = Cached \ gone
  BY <1>1 DEF Cached
<1>3. Candidates' = Candidates \ gone
  BY <1>1, <1>2 DEF Candidates, Cached
<1>4. AccessOrder'
  BY <1>1, <1>2 DEF AccessOrder
<1>5. QED
  BY <1>2, <1>3, <1>4

\* The step of one call: when another is alone, this one could not run.
LEMMA RoomKept ==
  ASSUME SoundInv, RoomInv, NEW c \in Callers, Busy(c),
         \A d \in Callers \ {c} : call'[d] = call[d],
         IsFiniteSet(Cached'), accesses' \in [Clusters -> Nat], AccessOrder', RoomCall(c)'
  PROVE  RoomInv'
<1>1. ASSUME NEW d \in Callers \ {c}
      PROVE  RoomCall(d)'
  <2>1. Busy(d) => ~ call[d].alone
    BY DEF SoundInv, SoundCall, Lonely
  <2>2. RoomCall(d) /\ call'[d] = call[d]
    BY DEF RoomInv
  <2>3. QED
    BY <2>1, <2>2 DEF RoomCall, At, Busy
<1>2. QED
  BY <1>1 DEF RoomInv

\* The places at which a call knows something of the room.
Counting == {"counts", "victims", "drop", "insert"}

LEMMA RoomElsewhere ==
  ASSUME NEW c \in Callers, call'[c].pc \notin Counting
  PROVE  RoomCall(c)'
  BY DEF RoomCall, At, Counting

LEMMA GoPlaces ==
  ASSUME WeightInv, NEW c \in Callers, NEW to, GoTo(c, to) \/ Return(c)
  PROVE  /\ \A d \in Callers \ {c} : call'[d] = call[d]
         /\ call'[c].pc = IF GoTo(c, to) THEN to ELSE "idle"
<1>1. CASE GoTo(c, to)
  BY <1>1, GoKeeps DEF Moved, Update
<1>2. CASE Return(c) /\ ~ GoTo(c, to)
  BY <1>2, ReturnKeeps DEF Idle
<1>3. QED
  BY <1>1, <1>2

\* Steps that look at the cache before the pin, or let an entry or a blob go.
LEMMA LookKeepsRoom ==
  ASSUME WeightInv, SoundInv, RoomInv, NEW c \in Callers,
         CountAccess(c) \/ LookUp(c) \/ IsPinned(c) \/ Fetch(c) \/ CheckReason(c)
           \/ DropEntry(c) \/ Erase(c) \/ Bump(c)
  PROVE  RoomInv'
<1>1. Busy(c) /\ call[c].id \in Clusters
  BY DEF CountAccess, LookUp, IsPinned, Fetch, CheckReason, DropEntry, Erase, Bump, Busy, At,
         WeightInv, CallInv
<1>2. \/ Return(c)
      \/ \E to \in {"hot", "room", "fetch", "check", "erase", "remove"} : GoTo(c, to)
  BY DEF CountAccess, LookUp, IsPinned, Fetch, CheckReason, DropEntry, Erase, Bump
<1>3. (\A d \in Callers \ {c} : call'[d] = call[d]) /\ RoomCall(c)'
  <2>1. call'[c].pc \notin Counting /\ \A d \in Callers \ {c} : call'[d] = call[d]
    BY <1>2, GoPlaces DEF Counting
  <2>2. QED
    BY <2>1, RoomElsewhere
<1>4. accesses' \in [Clusters -> Nat]
  <2>1. accesses' = accesses \/ Count(call[c].id)
    BY DEF CountAccess, LookUp, IsPinned, Fetch, CheckReason, DropEntry, Erase, Bump
  <2>2. QED
    BY <1>1, <2>1 DEF Count, RoomInv
<1>5. AccessOrder' /\ Cached' \subseteq Cached
  <2>1. CASE LookUp(c)
    <3>1. Cached' = Cached
      BY <2>1 DEF LookUp, Cached
    <3>2. CASE call[c].id \in Cached
      <4>1. older' = Touch(call[c].id) /\ Cached' = Cached \cup {call[c].id}
        BY <2>1, <3>1, <3>2 DEF LookUp
      <4>2. QED
        BY <1>1, <3>1, <4>1, TouchOrders DEF RoomInv
    <3>3. CASE call[c].id \notin Cached
      <4>1. older' = older
        BY <2>1, <3>3 DEF LookUp
      <4>2. QED
        BY <3>1, <4>1 DEF AccessOrder, RoomInv
    <3>4. QED
      BY <3>2, <3>3
  <2>2. CASE DropEntry(c)
    <3>1. Forget({call[c].id})
      BY <2>2 DEF DropEntry
    <3>2. QED
      BY <3>1, ForgetOrders DEF RoomInv
  <2>3. CASE UNCHANGED <<hot, older>>
    BY <2>3 DEF Cached, AccessOrder, RoomInv
  <2>4. QED
    BY <2>1, <2>2, <2>3 DEF CountAccess, IsPinned, Fetch, CheckReason, Erase, Bump
<1>6. IsFiniteSet(Cached')
  BY <1>5, FS_Subset DEF RoomInv
<1>7. QED
  BY <1>1, <1>3, <1>4, <1>5, <1>6, RoomKept

LEMMA CandidatesFinite ==
  ASSUME RoomInv
  PROVE  /\ IsFiniteSet(Candidates) /\ Cardinality(Candidates) \in Nat
         /\ Cardinality(Cached) \in Nat /\ Cardinality(Candidates) <= Cardinality(Cached)
<1>1. Candidates \subseteq Cached /\ IsFiniteSet(Cached)
  BY DEF Candidates, RoomInv
<1>2. QED
  BY <1>1, FS_Subset, FS_CardinalityType

\* The sections of maybe_evict that read.
LEMMA ReadKeepsRoom ==
  ASSUME WeightInv, SoundInv, RoomInv, NEW c \in Callers, ReadRoom(c) \/ ReadCounts(c)
  PROVE  RoomInv'
<1>1. /\ Busy(c) /\ UNCHANGED <<hot, older, accesses>> /\ HasFields(call[c])
      /\ call = [d \in Callers |-> call[d]]
  BY DEF ReadRoom, ReadCounts, Busy, At, WeightInv, CallInv
<1>2. /\ Cached' = Cached /\ Candidates' = Candidates /\ AccessOrder'
      /\ accesses' \in [Clusters -> Nat] /\ IsFiniteSet(Cached')
  BY <1>1 DEF Cached, Candidates, AccessOrder, RoomInv
<1>3. RoomCall(c)' /\ \A d \in Callers \ {c} : call'[d] = call[d]
  <2>1. CASE ReadRoom(c) /\ Cardinality(Cached) < CacheCapacity
    <3>1. call'[c].pc = "insert" /\ \A d \in Callers \ {c} : call'[d] = call[d]
      BY <2>1, GoPlaces DEF ReadRoom
    <3>2. Cardinality(Candidates) <= Spare
      BY <2>1, CandidatesFinite, CacheAssumption DEF Spare
    <3>3. QED
      BY <1>2, <3>1, <3>2 DEF RoomCall, At
  <2>2. CASE ReadRoom(c) /\ ~ (Cardinality(Cached) < CacheCapacity)
    <3>1. /\ call'[c] = [call[c] EXCEPT !.pc = "counts", !.room = Cardinality(Cached)]
          /\ \A d \in Callers \ {c} : call'[d] = call[d]
      BY <1>1, <2>2 DEF ReadRoom
    <3>2. call'[c].pc = "counts" /\ call'[c].room = Cardinality(Cached)
      BY <1>1, <3>1 DEF HasFields
    <3>3. CacheCapacity <= Cardinality(Cached)
      BY <2>2, CandidatesFinite, CacheAssumption
    <3>4. QED
      BY <1>2, <3>1, <3>2, <3>3 DEF RoomCall, At
  <2>3. CASE ReadCounts(c)
    <3>1. /\ call'[c] = [call[c] EXCEPT !.pc = "victims", !.counts = accesses]
          /\ \A d \in Callers \ {c} : call'[d] = call[d]
          /\ call[c].pc = "counts"
      BY <1>1, <2>3 DEF ReadCounts, At
    <3>2. /\ call'[c].pc = "victims" /\ call'[c].counts = accesses
          /\ call'[c].room = call[c].room /\ call'[c].alone = call[c].alone
      BY <1>1, <3>1 DEF HasFields
    <3>3. RoomCall(c) /\ accesses \in [Clusters -> Nat]
      BY DEF RoomInv
    <3>4. QED
      BY <1>2, <3>1, <3>2, <3>3 DEF RoomCall, At
  <2>4. QED
    BY <2>1, <2>2, <2>3
<1>4. QED
  BY <1>1, <1>2, <1>3, RoomKept

\* What is chosen leaves room for one entry when it is gone.
LEMMA PickKeepsRoom ==
  ASSUME WeightInv, SoundInv, RoomInv, NEW c \in Callers, PickVictims(c)
  PROVE  RoomInv'
<1> DEFINE n == (call[c].room - CacheCapacity) + 1
           victims == Coldest(call[c].counts, n)
<1>1. /\ Busy(c) /\ UNCHANGED <<hot, older, accesses>> /\ HasFields(call[c])
      /\ call[c].pc = "victims"
      /\ \A d \in Callers \ {c} : call'[d] = call[d]
      /\ call'[c] = [call[c] EXCEPT !.pc = "drop", !.room = 0, !.counts = NoCounts, !.victims = victims]
  BY DEF PickVictims, Busy, At, WeightInv, CallInv
<1>2. /\ Cached' = Cached /\ Candidates' = Candidates /\ AccessOrder'
      /\ accesses' \in [Clusters -> Nat] /\ IsFiniteSet(Cached')
  BY <1>1 DEF Cached, Candidates, AccessOrder, RoomInv
<1>3. ASSUME call[c].alone
      PROVE  Cardinality(Candidates \ victims) <= Spare
  <2>1. /\ call[c].room = Cardinality(Cached) /\ CacheCapacity <= call[c].room
        /\ call[c].counts \in [Clusters -> Nat]
    BY <1>1, <1>3 DEF RoomInv, RoomCall, At
  <2>2. n \in Nat /\ n = Cardinality(Cached) - CacheCapacity + 1
    BY <2>1, CandidatesFinite, CacheAssumption
  <2> HIDE DEF n
  <2>3. CASE Candidates \ victims = {}
    BY <2>3, FS_EmptySet, CacheAssumption DEF Spare
  <2>4. CASE Candidates \ victims # {}
    <3>1. Cardinality(Candidates \ victims) + n <= Cardinality(Candidates)
      BY <2>1, <2>2, <2>4, RestIsFewer DEF RoomInv
    <3>2. Cardinality(Candidates \ victims) \in Nat
      BY CandidatesFinite, FS_Subset, FS_CardinalityType
    <3> HIDE DEF victims
    <3>3. QED
      BY <2>2, <3>1, <3>2, CandidatesFinite, CacheAssumption DEF Spare
  <2>5. QED
    BY <2>3, <2>4
<1> HIDE DEF n, victims
<1>4. call'[c].pc = "drop" /\ call'[c].victims = victims /\ call'[c].alone = call[c].alone
  BY <1>1 DEF HasFields
<1>5. RoomCall(c)'
  BY <1>2, <1>3, <1>4 DEF RoomCall, At
<1>6. QED
  BY <1>1, <1>2, <1>5, RoomKept

LEMMA DropKeepsRoom ==
  ASSUME WeightInv, SoundInv, RoomInv, NEW c \in Callers, DropVictims(c)
  PROVE  RoomInv'
<1>1. /\ Busy(c) /\ Forget(call[c].victims) /\ accesses' = accesses /\ HasFields(call[c])
      /\ call[c].pc = "drop"
      /\ \A d \in Callers \ {c} : call'[d] = call[d]
      /\ call'[c] = [call[c] EXCEPT !.pc = "insert", !.victims = {}]
  BY DEF DropVictims, Busy, At, WeightInv, CallInv
<1>2. /\ AccessOrder' /\ Cached' = Cached \ call[c].victims
      /\ Candidates' = Candidates \ call[c].victims
  BY <1>1, ForgetOrders DEF RoomInv
<1>3. call'[c].pc = "insert" /\ call'[c].alone = call[c].alone
  BY <1>1 DEF HasFields
<1>4. call[c].alone => Cardinality(Candidates \ call[c].victims) <= Spare
  BY <1>1 DEF RoomInv, RoomCall, At
<1>5. RoomCall(c)'
  BY <1>2, <1>3, <1>4 DEF RoomCall, At
<1>6. IsFiniteSet(Cached') /\ accesses' \in [Clusters -> Nat]
  BY <1>1, <1>2, FS_Subset DEF RoomInv
<1>7. QED
  BY <1>1, <1>2, <1>5, <1>6, RoomKept

\* The insert takes the place that was made, or replaces an entry.
LEMMA InsertKeepsRoom ==
  ASSUME WeightInv, SoundInv, RoomInv, NEW c \in Callers, Insert(c)
  PROVE  /\ RoomInv'
         /\ call[c].alone => Cardinality(Candidates') <= IF CacheCapacity = 0 THEN 1 ELSE CacheCapacity
<1> DEFINE x == call[c].id
<1>1. /\ Busy(c) /\ At(c, "insert") /\ x \in Clusters /\ GoTo(c, "bump") /\ accesses' = accesses
      /\ hot' = [y \in Clusters |-> IF y = x THEN ReasonOf(call[c].op) ELSE hot[y]]
      /\ older' = Touch(x)
  BY DEF Insert, Busy, At, WeightInv, CallInv
<1>2. ReasonOf(call[c].op) # Cold
  BY CacheAssumption DEF ReasonOf, Cold
<1>3. Cached' = Cached \cup {x} /\ Candidates' \subseteq Candidates \cup {x}
  BY <1>1, <1>2 DEF Cached, Candidates
<1>4. AccessOrder'
  BY <1>1, <1>3, TouchOrders DEF RoomInv
<1>5. IsFiniteSet(Cached') /\ accesses' \in [Clusters -> Nat]
  BY <1>1, <1>3, FS_AddElement DEF RoomInv
<1>6. call'[c].pc = "bump" /\ \A d \in Callers \ {c} : call'[d] = call[d]
  BY <1>1, GoPlaces
<1>7. RoomInv'
  <2>1. RoomCall(c)'
    BY <1>6, RoomElsewhere DEF Counting
  <2>2. QED
    BY <1>1, <1>4, <1>5, <1>6, <2>1, RoomKept
<1>8. ASSUME call[c].alone
      PROVE  Cardinality(Candidates') <= IF CacheCapacity = 0 THEN 1 ELSE CacheCapacity
  <2>1. Cardinality(Candidates) <= Spare
    BY <1>1, <1>8 DEF RoomInv, RoomCall
  <2>2. /\ IsFiniteSet(Candidates \cup {x})
        /\ Cardinality(Candidates \cup {x}) <= Cardinality(Candidates) + 1
        /\ Cardinality(Candidates \cup {x}) \in Nat
    <3> HIDE DEF x
    <3>1. IsFiniteSet(Candidates) /\ Cardinality(Candidates) \in Nat
      BY CandidatesFinite
    <3>2. /\ IsFiniteSet(Candidates \cup {x})
          /\ Cardinality(Candidates \cup {x}) =
               IF x \in Candidates THEN Cardinality(Candidates) ELSE Cardinality(Candidates) + 1
      BY <3>1, FS_AddElement
    <3>3. QED
      BY <3>1, <3>2
  <2>3. Cardinality(Candidates') <= Cardinality(Candidates \cup {x}) /\ Cardinality(Candidates') \in Nat
    BY <1>3, <2>2, FS_Subset, FS_CardinalityType
  <2>4. QED
    BY <2>1, <2>2, <2>3, CandidatesFinite, CacheAssumption DEF Spare
<1>9. QED
  BY <1>7, <1>8

\* A call that begins makes the others not alone.
LEMMA BeginKeepsRoom ==
  ASSUME WeightInv, RoomInv, NEW c \in Callers, NEW x \in Clusters, WeightCall(c, x)
  PROVE  RoomInv'
<1>1. PICK op \in Ops, pc \in {"count", "pinned", "check"} : Begin(c, op, x, pc)
  BY DEF Ops, WeightCall, LoadCluster, PinCritical, PrefetchCluster, EvictCluster, DeleteCluster
<1>2. /\ UNCHANGED <<hot, older, accesses>>
      /\ call' = [d \in Callers |->
           IF d = c THEN [Idle EXCEPT !.pc = pc, !.op = op, !.id = x,
                                      !.alone = \A e \in Callers : ~Busy(e),
                                      !.crossed = Crosses(op, x)]
           ELSE IF Busy(d) THEN Met(call[d], op, x) ELSE call[d]]
  BY <1>1 DEF Begin
<1>3. RoomCall(c)'
  <2>1. call'[c].pc = pc
    BY <1>2 DEF Idle
  <2>2. QED
    BY <2>1, RoomElsewhere DEF Counting
<1>4. ASSUME NEW d \in Callers \ {c}
      PROVE  RoomCall(d)'
  <2>1. HasFields(call[d]) /\ RoomCall(d)
    BY DEF WeightInv, CallInv, RoomInv
  <2>2. CASE Busy(d)
    <3>1. call'[d] = Met(call[d], op, x)
      BY <1>2, <2>2
    <3>2. call'[d].pc = call[d].pc /\ call'[d].counts = call[d].counts /\ ~ call'[d].alone
      BY <2>1, <3>1, MetCall DEF SameCall
    <3>3. QED
      BY <2>1, <3>2 DEF RoomCall, At
  <2>3. CASE ~ Busy(d)
    <3>1. call'[d].pc = "idle"
      BY <1>2, <2>3 DEF Busy
    <3>2. QED
      BY <3>1, RoomElsewhere DEF Counting
  <2>4. QED
    BY <2>2, <2>3
<1>5. Cached' = Cached /\ AccessOrder' /\ IsFiniteSet(Cached') /\ accesses' \in [Clusters -> Nat]
  BY <1>2 DEF Cached, AccessOrder, RoomInv
<1>6. QED
  BY <1>3, <1>4, <1>5 DEF RoomInv

\* The calls of a step: an insert is the step that puts a call at its bump.
Recovers ==
  \A c \in Callers :
    call[c].alone /\ At(c, "insert") /\ call'[c].pc = "bump"
      => Cardinality(Candidates') <= IF CacheCapacity = 0 THEN 1 ELSE CacheCapacity

LEMMA RoomInvStep ==
  ASSUME WeightInv, SoundInv, RoomInv, [WeightNext]_weightVars
  PROVE  RoomInv' /\ Recovers
<1>1. ASSUME NEW c \in Callers, NEW x \in Clusters, WeightCall(c, x)
      PROVE  RoomInv' /\ Recovers
  <2>1. \A d \in Callers : call'[d].pc = call[d].pc \/ call'[d].pc # "bump"
    <3>1. PICK op \in Ops, pc \in {"count", "pinned", "check"} : Begin(c, op, x, pc)
      BY <1>1 DEF Ops, WeightCall, LoadCluster, PinCritical, PrefetchCluster, EvictCluster, DeleteCluster
    <3>2. call' = [d \in Callers |->
             IF d = c THEN [Idle EXCEPT !.pc = pc, !.op = op, !.id = x,
                                        !.alone = \A e \in Callers : ~Busy(e),
                                        !.crossed = Crosses(op, x)]
             ELSE IF Busy(d) THEN Met(call[d], op, x) ELSE call[d]]
      BY <3>1 DEF Begin
    <3>3. call'[c].pc = pc
      BY <3>2 DEF Idle
    <3>4. ASSUME NEW d \in Callers \ {c}
          PROVE  call'[d].pc = call[d].pc
      <4>1. HasFields(call[d])
        BY DEF WeightInv, CallInv
      <4>2. call'[d] = IF Busy(d) THEN Met(call[d], op, x) ELSE call[d]
        BY <3>2
      <4>3. QED
        BY <4>1, <4>2, MetCall DEF SameCall
    <3>5. QED
      BY <3>3, <3>4
  <2>2. QED
    BY <1>1, <2>1, BeginKeepsRoom DEF Recovers, At
<1>2. ASSUME NEW c \in Callers, WeightStep(c)
      PROVE  RoomInv' /\ Recovers
  <2>1. CASE Insert(c)
    <3>1. \A d \in Callers \ {c} : call'[d] = call[d]
      BY <2>1, GoPlaces DEF Insert
    <3>2. QED
      BY <2>1, <3>1, InsertKeepsRoom DEF Recovers, At
  <2>2. CASE ReadRoom(c) \/ ReadCounts(c) \/ PickVictims(c) \/ DropVictims(c)
    <3>1. ~ At(c, "insert")
      BY <2>2 DEF ReadRoom, ReadCounts, PickVictims, DropVictims, At
    <3>2. \A d \in Callers \ {c} : call'[d] = call[d]
      BY <2>2 DEF ReadRoom, ReadCounts, PickVictims, DropVictims, GoTo, WeightInv
    <3>3. QED
      BY <2>2, <3>1, <3>2, ReadKeepsRoom, PickKeepsRoom, DropKeepsRoom DEF Recovers, At
  <2>3. CASE CountAccess(c) \/ LookUp(c) \/ IsPinned(c) \/ Fetch(c) \/ CheckReason(c)
               \/ DropEntry(c) \/ Erase(c) \/ Bump(c)
    <3>1. ~ At(c, "insert")
      BY <2>3 DEF CountAccess, LookUp, IsPinned, Fetch, CheckReason, DropEntry, Erase, Bump, At
    <3>2. \A d \in Callers \ {c} : call'[d] = call[d]
      BY <2>3 DEF CountAccess, LookUp, IsPinned, Fetch, CheckReason, DropEntry, Erase, Bump,
             GoTo, Return, WeightInv
    <3>3. QED
      BY <2>3, <3>1, <3>2, LookKeepsRoom DEF Recovers, At
  <2>4. QED
    BY <1>2, <2>1, <2>2, <2>3 DEF WeightStep
<1>3. CASE UNCHANGED <<hot, older, accesses, call>>
  <2>1. Recovers
    BY <1>3 DEF Recovers, At
  <2>2. Cached' = Cached /\ Candidates' = Candidates
    BY <1>3 DEF Cached, Candidates
  <2>3. \A d \in Callers : RoomCall(d)'
    BY <1>3, <2>2 DEF RoomInv, RoomCall, At
  <2>4. QED
    BY <1>3, <2>1, <2>2, <2>3 DEF RoomInv, AccessOrder
<1>4. QED
  BY <1>1, <1>2, <1>3 DEF WeightNext, StoreCluster, weightVars

\* Action property: however far concurrent pins have gone over the capacity, a
\* pin that runs alone from its start to its insert brings the entries that may
\* be evicted back to it (WeightPinRegistry::maybe_evict).
THEOREM PinsRecover == WeightSpec => PinRecovers
<1>1. WeightSpec => [](WeightInv /\ SoundInv)
  <2>1. WeightInit => WeightInv /\ SoundInv
    BY WeightInvInit, SoundInvInit
  <2>2. WeightInv /\ SoundInv /\ [WeightNext]_weightVars => WeightInv' /\ SoundInv'
    BY WeightInvStep, SoundInvStep
  <2>3. QED
    BY <2>1, <2>2, PTL DEF WeightSpec
<1>2. WeightInv /\ SoundInv /\ RoomInv /\ [WeightNext]_weightVars => RoomInv' /\ Recovers
  BY RoomInvStep
<1>3. QED
  BY <1>1, <1>2, RoomInvInit, PTL DEF WeightSpec, PinRecovers, Recovers

(***************************************************************************)
(* The model registry: who waits for whom.                                  *)
(***************************************************************************)
\* In a circle everyone waits for a thread that waits itself, so a circle goes
\* through a look-up that holds the index, a writer of the models and a
\* registration that holds the models, from wherever one enters it.
LEMMA CirclesAlike == OneDeadlock
<1> SUFFICES ASSUME NEW circle \in SUBSET Users, NEW u \in circle,
                    \A w \in circle : \E v \in circle : WaitsFor(w, v)
             PROVE  /\ \E w \in circle : In(w, {"renameWaits"})
                    /\ \E w \in circle : In(w, {"found"})
                    /\ \E w \in circle : w \in ModelWriters
  BY DEF OneDeadlock
<1>1. ASSUME NEW w \in circle, w \in ModelReaders
      PROVE  In(w, {"renameWaits"}) /\ \E v \in circle : In(v, {"found"})
  <2>1. PICK v \in circle : WaitsFor(w, v)
    OBVIOUS
  <2>2. In(w, {"renameWaits"}) /\ v \in IndexReaders
    BY <1>1, <2>1 DEF WaitsFor, ModelReaders, In
  <2>3. QED
    BY <2>2 DEF IndexReaders
<1>2. ASSUME NEW w \in circle, w \in IndexWriters
      PROVE  \E v \in circle : In(v, {"found"})
  <2>1. PICK v \in circle : WaitsFor(w, v)
    OBVIOUS
  <2>2. v \in IndexReaders
    BY <1>2, <2>1 DEF WaitsFor, IndexWriters, In
  <2>3. QED
    BY <2>2 DEF IndexReaders
<1>3. ASSUME NEW w \in circle, w \in ModelWriters
      PROVE  \E v \in circle : v \in ModelReaders
  <2>1. PICK v \in circle : WaitsFor(w, v)
    OBVIOUS
  <2>2. v \in ModelReaders
    BY <1>3, <2>1 DEF WaitsFor, ModelWriters, In
  <2>3. QED
    BY <2>2
<1>4. ASSUME NEW w \in circle, In(w, {"found"})
      PROVE  \E v \in circle : v \in ModelWriters
  BY <1>4 DEF WaitsFor, In
<1>5. PICK v \in circle : WaitsFor(u, v)
  OBVIOUS
<1>6. v \in IndexWriters \/ v \in ModelWriters \/ v \in ModelReaders \/ v \in IndexReaders
  BY <1>5 DEF WaitsFor
<1>7. \E w \in circle : In(w, {"found"})
  BY <1>1, <1>2, <1>3, <1>6 DEF IndexReaders
<1>8. QED
  BY <1>1, <1>3, <1>4, <1>7

\* Threads can block each other for good in one way only: a re-registration, a
\* look-up by name and a writer of the models, each holding up the next.
THEOREM OnlyOneDeadlock == RegistrySpec => []OneDeadlock
  BY CirclesAlike, PTL

(***************************************************************************)
(* The model registry: counts.                                              *)
(***************************************************************************)
RegistryPlaces == {"idle", "find", "found", "known", "insert", "insertWaits", "name", "nameWaits",
                   "rename", "renameWaits", "count", "countWaits"}
RegistryOps == {"lookup", "ensure", "register", "increment"}

UserType == [pc : RegistryPlaces, op : RegistryOps, name : Names \cup {"none"}, model : Models \cup {"none"}]

\* The model of a call that creates one is known to nobody else until it is
\* inserted; a call that registers a model inserts it only if it has not found it,
\* or another inserted it since.
UserInv(u) ==
  /\ In(u, {"idle"}) => user[u].op = "lookup"
  /\ In(u, {"known"}) => user[u].op = "register"
  /\ Inserting(u) => user[u].op \in {"ensure", "register"}
  /\ user[u].op = "ensure" =>
       \A v \in Users \ {u} : user[v].op \in {"ensure", "register"} => user[v].model # user[u].model
  /\ user[u].op = "ensure" /\ In(u, {"find", "found", "insert", "insertWaits"}) =>
       user[u].model \notin DOMAIN models
  /\ Inserting(u) /\ user[u].model \in DOMAIN models => user[u].model \in doubled

RegistryInv ==
  /\ user \in [Users -> UserType]
  /\ \A m \in DOMAIN models : models[m] \in [name : Names \cup {"none"}, clusters : Nat]
  /\ \A u \in Users : UserInv(u)

LEMMA RegistryInvInit == RegistryInit => RegistryInv
  BY DEF RegistryInit, RegistryInv, UserInv, UserType, RegistryPlaces, RegistryOps, Resting, In, Inserting

\* What the step of one call does to it: it ends, or has a new place.
UserTurn(u) ==
  /\ \A v \in Users \ {u} : user'[v] = user[v]
  /\ \/ user'[u] = Resting
     \/ /\ user'[u].op = user[u].op /\ user'[u].model = user[u].model
        /\ user'[u].pc \in RegistryPlaces

LEMMA MoveTurns ==
  ASSUME RegistryInv, NEW u \in Users, NEW pc \in RegistryPlaces, Move(u, pc)
  PROVE  user' \in [Users -> UserType] /\ UserTurn(u) /\ user'[u].pc = pc
         /\ user'[u].op = user[u].op /\ user'[u].model = user[u].model
<1>1. user[u] \in UserType
  BY DEF RegistryInv
<1>2. user' = [user EXCEPT ![u] = [user[u] EXCEPT !.pc = pc]]
  BY DEF Move
<1>3. /\ [user[u] EXCEPT !.pc = pc] \in UserType
      /\ [user[u] EXCEPT !.pc = pc].pc = pc
      /\ [user[u] EXCEPT !.pc = pc].op = user[u].op
      /\ [user[u] EXCEPT !.pc = pc].model = user[u].model
  BY <1>1 DEF UserType
<1>4. QED
  BY <1>2, <1>3 DEF RegistryInv, UserTurn

LEMMA FinishTurns ==
  ASSUME RegistryInv, NEW u \in Users, Finish(u)
  PROVE  user' \in [Users -> UserType] /\ UserTurn(u) /\ user'[u] = Resting
  BY DEF Finish, RegistryInv, UserTurn, UserType, RegistryPlaces, RegistryOps, Resting

\* Every step but an insert: the same models are known, and the caller is sound.
LEMMA TurnKeepsInv ==
  ASSUME RegistryInv, NEW u \in Users, user' \in [Users -> UserType], UserTurn(u),
         DOMAIN models' = DOMAIN models, doubled' = doubled,
         \A m \in DOMAIN models : models'[m] \in [name : Names \cup {"none"}, clusters : Nat],
         user'[u] # Resting => /\ ~ In(u, {"idle"})' /\ (In(u, {"known"})' => user[u].op = "register")
                               /\ (Inserting(u)' => user[u].op \in {"ensure", "register"})
                               /\ (In(u, {"find", "found"})' => In(u, {"find"}))
                               /\ (Inserting(u)' => Inserting(u) \/ user[u].model \notin DOMAIN models)
  PROVE  RegistryInv'
<1>1. UserInv(u)'
  <2>1. CASE user'[u] = Resting
    BY <2>1 DEF Resting, UserInv, In, Inserting
  <2>2. CASE user'[u] # Resting
    <3>1. user'[u].op = user[u].op /\ user'[u].model = user[u].model
      BY <2>2 DEF UserTurn
    <3>2. UserInv(u)
      BY DEF RegistryInv
    <3>3. \A v \in Users \ {u} : user'[v] = user[v]
      BY DEF UserTurn
    <3>4. In(u, {"find", "found", "insert", "insertWaits"})' /\ user[u].op = "ensure" =>
            user[u].model \notin DOMAIN models
      BY <2>2, <3>2 DEF UserInv, In, Inserting
    <3>5. Inserting(u)' /\ user[u].model \in DOMAIN models => user[u].model \in doubled
      BY <2>2, <3>2 DEF UserInv
    <3>6. QED
      BY <2>2, <3>1, <3>2, <3>3, <3>4, <3>5 DEF UserInv
  <2>3. QED
    BY <2>1, <2>2
<1>2. ASSUME NEW v \in Users \ {u}
      PROVE  UserInv(v)'
  <2>1. UserInv(v) /\ user'[v] = user[v]
    BY DEF RegistryInv, UserTurn
  <2>2. \A w \in Users : user'[w].op \in {"ensure", "register"} =>
          user[w].op = user'[w].op /\ user[w].model = user'[w].model
    BY DEF UserTurn, Resting
  <2>3. QED
    BY <2>1, <2>2 DEF UserInv, In, Inserting
<1>3. QED
  BY <1>1, <1>2 DEF RegistryInv

LEMMA RegisterKeepsInv ==
  ASSUME RegistryInv, NEW u \in Users, Inserting(u), Move(u, "name"),
         models' = With(models, user[u].model, [name |-> user[u].name, clusters |-> 0]),
         doubled' = IF \E v \in Users \ {u} : Inserting(v) /\ user[v].model = user[u].model
                    THEN doubled \cup {user[u].model} ELSE doubled
  PROVE  RegistryInv'
<1> DEFINE m == user[u].model
<1>1. /\ user' \in [Users -> UserType] /\ UserTurn(u) /\ user'[u].pc = "name"
      /\ user'[u].op = user[u].op /\ user'[u].model = m
  BY MoveTurns DEF RegistryPlaces
<1>2. DOMAIN models' = DOMAIN models \cup {m}
  BY DEF With
<1>3. ASSUME NEW k \in DOMAIN models'
      PROVE  models'[k] \in [name : Names \cup {"none"}, clusters : Nat]
  <2>1. user[u].name \in Names \cup {"none"}
    BY DEF RegistryInv, UserType
  <2>2. models'[k] = IF k = m THEN [name |-> user[u].name, clusters |-> 0] ELSE models[k]
    BY <1>2 DEF With
  <2>3. CASE k = m
    BY <2>1, <2>2, <2>3
  <2>4. CASE k # m
    BY <1>2, <2>2, <2>4 DEF RegistryInv
  <2>5. QED
    BY <2>3, <2>4
<1>4. ASSUME NEW v \in Users \ {u}
      PROVE  UserInv(v)'
  <2>1. UserInv(v) /\ user'[v] = user[v]
    BY <1>1 DEF RegistryInv, UserTurn
  <2>2. user[v].op = "ensure" => user[v].model # m
    BY <2>1 DEF RegistryInv, UserInv
  <2>3. Inserting(v) /\ user[v].model = m => m \in doubled'
    OBVIOUS
  <2>4. \A w \in Users : user'[w].op = user[w].op /\ user'[w].model = user[w].model
    BY <1>1 DEF UserTurn
  <2>5. doubled \subseteq doubled'
    OBVIOUS
  <2>6. QED
    BY <1>2, <2>1, <2>2, <2>3, <2>4, <2>5 DEF UserInv, In, Inserting
<1>5. UserInv(u)'
  <2>1. UserInv(u)
    BY DEF RegistryInv
  <2>2. \A v \in Users : user'[v].op = user[v].op /\ user'[v].model = user[v].model
    BY <1>1 DEF UserTurn
  <2>3. QED
    BY <1>1, <2>1, <2>2 DEF UserInv, In, Inserting
<1>6. QED
  BY <1>1, <1>3, <1>4, <1>5 DEF RegistryInv

\* A step that moves on without an insert: it starts one only for a model that is
\* not known, and holds the index only after a look into it.
LEMMA RegistryMoveKeepsInv ==
  ASSUME RegistryInv, NEW u \in Users, NEW pc \in RegistryPlaces \ {"idle", "known"}, Move(u, pc),
         models' = models, doubled' = doubled,
         pc = "found" => In(u, {"find"}),
         pc = "find" => In(u, {"find"}),
         pc = "insert" => user[u].op \in {"ensure", "register"} /\ user[u].model \notin DOMAIN models,
         pc = "insertWaits" => Inserting(u)
  PROVE  RegistryInv'
<1>1. user' \in [Users -> UserType] /\ UserTurn(u) /\ user'[u].pc = pc
  BY MoveTurns
<1>2. Inserting(u) => user[u].op \in {"ensure", "register"}
  BY DEF RegistryInv, UserInv
<1>3. DOMAIN models' = DOMAIN models /\ \A m \in DOMAIN models : models'[m] \in [name : Names \cup {"none"}, clusters : Nat]
  BY DEF RegistryInv
<1>4. QED
  BY <1>1, <1>2, <1>3, TurnKeepsInv DEF In, Inserting

LEMMA FinishKeepsInv ==
  ASSUME RegistryInv, NEW u \in Users, Finish(u), DOMAIN models' = DOMAIN models, doubled' = doubled,
         \A m \in DOMAIN models : models'[m] \in [name : Names \cup {"none"}, clusters : Nat]
  PROVE  RegistryInv'
  BY FinishTurns, TurnKeepsInv

\* A count adds to one model, and takes nothing from any.
LEMMA CountRaises ==
  ASSUME RegistryInv, NEW k, models' = [models EXCEPT ![k].clusters = @ + 1]
  PROVE  /\ DOMAIN models' = DOMAIN models
         /\ \A m \in DOMAIN models : /\ models'[m] \in [name : Names \cup {"none"}, clusters : Nat]
                                     /\ models'[m].clusters >= models[m].clusters
<1>1. DOMAIN models' = DOMAIN models
  OBVIOUS
<1>2. ASSUME NEW m \in DOMAIN models
      PROVE  /\ models'[m] \in [name : Names \cup {"none"}, clusters : Nat]
             /\ models'[m].clusters >= models[m].clusters
  <2>1. models[m] \in [name : Names \cup {"none"}, clusters : Nat]
    BY DEF RegistryInv
  <2>2. models'[m] = IF m = k THEN [models[m] EXCEPT !.clusters = @ + 1] ELSE models[m]
    OBVIOUS
  <2>3. QED
    BY <2>1, <2>2
<1>3. QED
  BY <1>1, <1>2

\* What a section that writes does, or the wait for its lock.
LEMMA WriteOrWait ==
  ASSUME NEW u \in Users, InsertModel(u) \/ NameModel(u) \/ RenameModel(u) \/ CountClusters(u)
  PROVE  \/ \E waiting \in {"insertWaits", "nameWaits", "renameWaits", "countWaits"} :
              /\ Move(u, waiting) /\ (waiting = "insertWaits" => Inserting(u))
              /\ models' = models /\ doubled' = doubled
         \/ Finish(u) /\ models' = models /\ doubled' = doubled
         \/ /\ Finish(u) /\ doubled' = doubled
            /\ models' = [models EXCEPT ![user[u].model].clusters = @ + 1]
         \/ /\ Inserting(u) /\ Move(u, "name")
            /\ models' = With(models, user[u].model, [name |-> user[u].name, clusters |-> 0])
            /\ doubled' = IF \E v \in Users \ {u} : Inserting(v) /\ user[v].model = user[u].model
                          THEN doubled \cup {user[u].model} ELSE doubled
<1>1. CASE InsertModel(u)
  BY <1>1 DEF InsertModel, MayWrite, Inserting, In
<1>2. CASE NameModel(u)
  BY <1>2 DEF NameModel, MayWrite
<1>3. CASE RenameModel(u)
  BY <1>3 DEF RenameModel, MayWrite
<1>4. CASE CountClusters(u)
  BY <1>4 DEF CountClusters, MayWrite
<1>5. QED
  BY <1>1, <1>2, <1>3, <1>4

LEMMA CallKeepsInv ==
  ASSUME RegistryInv, NEW u \in Users, RegistryCall(u)
  PROVE  RegistryInv'
<1>1. ASSUME NEW op \in RegistryOps, NEW n \in Names \cup {"none"}, NEW m \in Models \cup {"none"},
             NEW pc \in {"find", "known", "count"}, Call(u, op, n, m, pc),
             pc = "known" => op = "register",
             op = "ensure" => /\ m \notin DOMAIN models
                              /\ \A v \in Users : In(v, {"idle"}) \/ user[v].model # m,
             op = "register" => ~ \E v \in Users : user[v].op = "ensure" /\ user[v].model = m
      PROVE  RegistryInv'
  <2>1. /\ user' = [user EXCEPT ![u] = [pc |-> pc, op |-> op, name |-> n, model |-> m]]
        /\ models' = models /\ doubled' = doubled
    BY <1>1 DEF Call
  <2>2. user' \in [Users -> UserType]
    BY <2>1 DEF RegistryInv, UserType, RegistryPlaces
  <2>3. /\ user'[u] = [pc |-> pc, op |-> op, name |-> n, model |-> m]
        /\ \A v \in Users \ {u} : user'[v] = user[v]
    BY <2>1 DEF RegistryInv
  <2>4. \A v \in Users \ {u} : op = "ensure" /\ user[v].op \in {"ensure", "register"} => user[v].model # m
    BY <1>1 DEF RegistryInv, UserInv
  <2>5. UserInv(u)'
    BY <1>1, <2>1, <2>3, <2>4 DEF UserInv, In, Inserting
  <2>6. ASSUME NEW v \in Users \ {u}
        PROVE  UserInv(v)'
    <3>1. UserInv(v)
      BY DEF RegistryInv
    <3>2. user[v].op = "ensure" /\ op \in {"ensure", "register"} => user[v].model # m
      BY <1>1, <2>4
    <3>3. QED
      BY <2>1, <2>3, <3>1, <3>2 DEF UserInv, In, Inserting
  <2>7. QED
    BY <2>1, <2>2, <2>5, <2>6 DEF RegistryInv
<1>2. ASSUME NEW n \in Names, GetModelByName(u, n)
      PROVE  RegistryInv'
  BY <1>1, <1>2 DEF GetModelByName, RegistryOps, Resting
<1>3. ASSUME NEW n \in Names, EnsureModel(u, n)
      PROVE  RegistryInv'
  BY <1>1, <1>3 DEF EnsureModel, RegistryOps
<1>4. ASSUME NEW n \in Names, NEW m \in Models, RegisterModel(u, n, m)
      PROVE  RegistryInv'
  BY <1>1, <1>4 DEF RegisterModel, RegistryOps
<1>5. ASSUME NEW m \in Models, IncrementClusters(u, m)
      PROVE  RegistryInv'
  <2>1. models[m].name \in Names \cup {"none"}
    BY <1>5 DEF IncrementClusters, RegistryInv
  <2>2. QED
    BY <1>1, <1>5, <2>1 DEF IncrementClusters, RegistryOps
<1>6. QED
  BY <1>2, <1>3, <1>4, <1>5 DEF RegistryCall

LEMMA StepKeepsInv ==
  ASSUME RegistryInv, NEW u \in Users, RegistryStep(u)
  PROVE  RegistryInv'
<1>1. UserInv(u)
  BY DEF RegistryInv
<1>2. \A m \in DOMAIN models : models[m] \in [name : Names \cup {"none"}, clusters : Nat]
  BY DEF RegistryInv
<1>3. CASE Find(u)
  <2>1. models' = models /\ doubled' = doubled /\ In(u, {"find"})
    BY <1>3 DEF Find
  <2>2. user[u].op = "ensure" => user[u].model \notin DOMAIN models
    BY <1>1, <2>1 DEF UserInv, In
  <2>3. Move(u, "found") \/ (user[u].op = "ensure" /\ Move(u, "insert")) \/ Finish(u)
    BY <1>3 DEF Find
  <2>4. QED
    BY <1>2, <2>1, <2>2, <2>3, RegistryMoveKeepsInv, FinishKeepsInv DEF RegistryPlaces
<1>4. CASE ResolveModel(u)
  <2>1. models' = models /\ doubled' = doubled /\ In(u, {"found"})
    BY <1>4 DEF ResolveModel
  <2>2. user[u].op = "ensure" => user[u].model \notin DOMAIN models
    BY <1>1, <2>1 DEF UserInv, In
  <2>3. (user[u].op = "ensure" /\ Move(u, "insert")) \/ Finish(u)
    BY <1>4 DEF ResolveModel
  <2>4. QED
    BY <1>2, <2>1, <2>2, <2>3, RegistryMoveKeepsInv, FinishKeepsInv DEF RegistryPlaces
<1>5. CASE Known(u)
  <2>1. models' = models /\ doubled' = doubled /\ In(u, {"known"})
    BY <1>5 DEF Known
  <2>2. user[u].op = "register"
    BY <1>1, <2>1 DEF UserInv
  <2>3. Move(u, "rename") \/ (user[u].model \notin DOMAIN models /\ Move(u, "insert"))
    BY <1>5 DEF Known
  <2>4. QED
    BY <2>1, <2>2, <2>3, RegistryMoveKeepsInv DEF RegistryPlaces
<1>6. CASE InsertModel(u) \/ NameModel(u) \/ RenameModel(u) \/ CountClusters(u)
  <2>1. ASSUME NEW waiting \in {"insertWaits", "nameWaits", "renameWaits", "countWaits"},
               Move(u, waiting), waiting = "insertWaits" => Inserting(u),
               models' = models, doubled' = doubled
        PROVE  RegistryInv'
    BY <2>1, RegistryMoveKeepsInv DEF RegistryPlaces
  <2>2. CASE Finish(u) /\ models' = models /\ doubled' = doubled
    BY <1>2, <2>2, FinishKeepsInv
  <2>3. CASE /\ Finish(u) /\ doubled' = doubled
             /\ models' = [models EXCEPT ![user[u].model].clusters = @ + 1]
    BY <2>3, CountRaises, FinishKeepsInv
  <2>4. QED
    BY <1>6, <2>1, <2>2, <2>3, WriteOrWait, RegisterKeepsInv
<1>7. QED
  BY <1>3, <1>4, <1>5, <1>6 DEF RegistryStep

LEMMA RegistryInvStep == RegistryInv /\ [RegistryNext]_registryVars => RegistryInv'
<1> SUFFICES ASSUME RegistryInv, [RegistryNext]_registryVars
             PROVE  RegistryInv'
  OBVIOUS
<1>1. CASE UNCHANGED registryVars
  BY <1>1 DEF registryVars, RegistryInv, UserInv, In, Inserting
<1>2. QED
  BY <1>1, CallKeepsInv, StepKeepsInv DEF RegistryNext

LEMMA CountsStep ==
  ASSUME RegistryInv, [RegistryNext]_registryVars, NEW m \in DOMAIN models
  PROVE  m \in DOMAIN models' /\ (models'[m].clusters >= models[m].clusters \/ m \in doubled')
<1>1. models[m].clusters \in Nat
  BY DEF RegistryInv
<1>2. CASE models' = models
  BY <1>1, <1>2
<1>3. ASSUME NEW u \in Users, InsertModel(u) \/ NameModel(u) \/ RenameModel(u) \/ CountClusters(u)
      PROVE  m \in DOMAIN models' /\ (models'[m].clusters >= models[m].clusters \/ m \in doubled')
  <2>1. CASE models' = [models EXCEPT ![user[u].model].clusters = @ + 1]
    BY <2>1, CountRaises
  <2>2. CASE /\ Inserting(u)
             /\ models' = With(models, user[u].model, [name |-> user[u].name, clusters |-> 0])
             /\ doubled \subseteq doubled'
    <3>1. user[u].model = m => m \in doubled'
      BY <2>2 DEF RegistryInv, UserInv
    <3>2. m \in DOMAIN models' /\ (user[u].model # m => models'[m] = models[m])
      BY <2>2 DEF With
    <3>3. QED
      BY <1>1, <3>1, <3>2
  <2>3. QED
    BY <1>2, <1>3, <2>1, <2>2, WriteOrWait
<1>4. CASE UNCHANGED registryVars
  BY <1>2, <1>4 DEF registryVars
<1>5. ASSUME NEW u \in Users, RegistryCall(u) \/ Find(u) \/ ResolveModel(u) \/ Known(u)
      PROVE  models' = models
  BY <1>5 DEF RegistryCall, GetModelByName, EnsureModel, RegisterModel, IncrementClusters, Call,
              Find, ResolveModel, Known
<1>6. QED
  BY <1>2, <1>3, <1>4, <1>5 DEF RegistryNext, RegistryStep

\* A model that is known stays known, and the clusters counted for it are never
\* forgotten but where two registrations of it overlapped.
THEOREM CountsStay == RegistrySpec => CountsKept
<1>1. RegistrySpec => []RegistryInv
  BY RegistryInvInit, RegistryInvStep, PTL DEF RegistrySpec
<1>2. RegistryInv /\ [RegistryNext]_registryVars =>
        [\A m \in DOMAIN models :
           m \in DOMAIN models' /\ (models'[m].clusters >= models[m].clusters \/ m \in doubled')]_registryVars
  BY CountsStep
<1>3. QED
  BY <1>1, <1>2, PTL DEF RegistrySpec, CountsKept

(***************************************************************************)
(* The training manifests.                                                  *)
(***************************************************************************)
ManifestType == [origin : Nat, tag : Tags \cup {Untagged}, clusters : SUBSET Weights]

JobType ==
  [pc : {"idle", "export", "load", "write", "gc"}, path : Paths \cup {"none"}, tag : Tags \cup {Untagged},
   origin : Nat, tells : BOOLEAN, clusters : SUBSET Weights, before : ManifestType,
   stale : SUBSET Weights, alone : BOOLEAN]

ManifestTypes ==
  /\ manifest \in [Paths -> ManifestType]
  /\ trainer \in [Trainers -> JobType]
  /\ \A t \in Trainers : Training(t) => trainer[t].path \in Paths /\ trainer[t].tag \in Tags
  /\ owner \in Seq(Tags) /\ trainings = Len(owner)

\* What a manifest names, and what one that is being written will name, is stored
\* or was taken; a training that ran alone has written the manifest that is there.
NamedWeights == weights \cup taken

KeepsWeights(t) ==
  /\ trainer[t].pc \in {"load", "write"} => trainer[t].clusters \subseteq NamedWeights
  /\ Training(t) /\ trainer[t].alone => \A u \in Trainers \ {t} : ~ Training(u)
  /\ Reached(t, "gc") /\ trainer[t].alone =>
       trainer[t].stale \cap manifest[trainer[t].path].clusters = {}

KeptInv ==
  /\ \A m \in Paths : manifest[m].clusters \subseteq NamedWeights
  /\ \A t \in Trainers : KeepsWeights(t)

\* An origin was made for the tag, or lent to it by a path that did not tell.
Owned(o, tag) == o \in 1..Len(owner) /\ (owner[o] = tag \/ o \in lent)

LineageInv ==
  /\ \A m \in Paths : manifest[m].origin \in 0..Len(owner)
  /\ \A m \in Paths \ untold : manifest[m].origin # 0 =>
       manifest[m].tag # Untagged /\ Owned(manifest[m].origin, manifest[m].tag)
  /\ \A t \in Trainers : Training(t) => Owned(trainer[t].origin, trainer[t].tag)

LEMMA InitManifests == ManifestInit => ManifestTypes /\ KeptInv /\ LineageInv
<1> SUFFICES ASSUME ManifestInit
             PROVE  ManifestTypes /\ KeptInv /\ LineageInv
  OBVIOUS
<1>1. NoManifest \in ManifestType /\ NoManifest.origin = 0 /\ NoManifest.clusters = {}
  BY DEF NoManifest, ManifestType
<1>2. Away \in JobType /\ Away.pc = "idle"
  BY <1>1 DEF Away, JobType
<1>3. /\ \A m \in Paths : manifest[m] = NoManifest
      /\ \A t \in Trainers : trainer[t] = Away
      /\ owner = <<>> /\ trainings = 0
  BY DEF ManifestInit
<1>4. ManifestTypes
  BY <1>1, <1>2, <1>3 DEF ManifestInit, ManifestTypes, Training
<1>5. KeptInv
  BY <1>1, <1>2, <1>3 DEF KeptInv, KeepsWeights, Training, Reached
<1>6. LineageInv
  BY <1>1, <1>2, <1>3 DEF LineageInv, Training
<1>7. QED
  BY <1>4, <1>5, <1>6

\* The job of t is now j; the other trainings are as they were.
JobTo(t, j) == trainer' = [trainer EXCEPT ![t] = j]

SameTraining(r, s) ==
  s.path = r.path /\ s.tag = r.tag /\ s.origin = r.origin /\ s.tells = r.tells /\ s.alone = r.alone

\* The steps of a training, and what they make of its job.
LEMMA ManifestMoves ==
  ASSUME ManifestTypes, NEW t \in Trainers, ManifestStep(t)
  PROVE  /\ Training(t)
         /\ \/ JobTo(t, Away)
            \/ \E j \in JobType : JobTo(t, j) /\ SameTraining(trainer[t], j) /\ j.pc # "idle"
<1> DEFINE r == trainer[t]
<1>0. r \in JobType
  BY DEF ManifestTypes
<1>1. ASSUME NEW clusters \in SUBSET Weights, ExportWeights(t, clusters)
      PROVE  Training(t) /\ \E j \in JobType : JobTo(t, j) /\ SameTraining(r, j) /\ j.pc # "idle"
  <2> DEFINE j == [r EXCEPT !.pc = "load", !.clusters = clusters]
  <2>1. JobTo(t, j) /\ Training(t)
    BY <1>1 DEF ExportWeights, JobTo, Training, Reached
  <2>2. j \in JobType
    BY <1>0 DEF JobType
  <2>3. SameTraining(r, j) /\ j.pc # "idle"
    BY <1>0 DEF SameTraining, JobType
  <2>4. QED
    BY <2>1, <2>2, <2>3
<1>2. CASE ReadManifest(t)
  <2> DEFINE j == [r EXCEPT !.pc = "write", !.before = manifest[r.path]]
  <2>1. JobTo(t, j) /\ Training(t)
    BY <1>2 DEF ReadManifest, JobTo, Training, Reached
  <2>2. manifest[r.path] \in ManifestType
    BY <2>1 DEF ManifestTypes
  <2>3. j \in JobType
    BY <1>0, <2>2 DEF JobType
  <2>4. SameTraining(r, j) /\ j.pc # "idle"
    BY <1>0 DEF SameTraining, JobType
  <2>5. QED
    BY <2>1, <2>3, <2>4
<1>3. CASE ReplaceManifest(t)
  <2> DEFINE j == [r EXCEPT !.pc = "gc", !.stale = Stale(r)]
  <2>1. (JobTo(t, j) \/ JobTo(t, Away)) /\ Training(t)
    BY <1>3 DEF ReplaceManifest, Leaves, JobTo, Training, Reached
  <2>2. Stale(r) \in SUBSET Weights
    BY <1>0 DEF Stale, JobType, ManifestType
  <2>3. j \in JobType
    BY <1>0, <2>2 DEF JobType
  <2>4. SameTraining(r, j) /\ j.pc # "idle"
    BY <1>0 DEF SameTraining, JobType
  <2>5. QED
    BY <2>1, <2>3, <2>4
<1>4. ASSUME NEW x \in Weights, DeleteStale(t, x)
      PROVE  Training(t) /\ (JobTo(t, Away) \/ \E j \in JobType : JobTo(t, j) /\ SameTraining(r, j) /\ j.pc # "idle")
  <2> DEFINE j == [r EXCEPT !.stale = @ \ {x}]
  <2>1. (JobTo(t, j) \/ JobTo(t, Away)) /\ Training(t) /\ r.pc = "gc"
    BY <1>4 DEF DeleteStale, Leaves, JobTo, Training, Reached
  <2>2. r.stale \ {x} \in SUBSET Weights
    BY <1>0 DEF JobType
  <2>3. j \in JobType
    BY <1>0, <2>2 DEF JobType
  <2>4. SameTraining(r, j) /\ j.pc # "idle"
    BY <1>0, <2>1 DEF SameTraining, JobType
  <2>5. QED
    BY <2>1, <2>3, <2>4
<1>5. CASE StopTraining(t)
  BY <1>5 DEF StopTraining, Leaves, JobTo
<1>6. QED
  BY <1>1, <1>2, <1>3, <1>4, <1>5 DEF ManifestStep

LEMMA TrainingMoves ==
  ASSUME ManifestTypes, NEW t \in Trainers, ManifestStep(t)
  PROVE  /\ trainer' \in [Trainers -> JobType]
         /\ \A u \in Trainers \ {t} : trainer'[u] = trainer[u]
         /\ Training(t)
         /\ trainer'[t] = Away \/ SameTraining(trainer[t], trainer'[t])
<1>1. Away \in JobType
  BY DEF Away, JobType, NoManifest, ManifestType
<1>2. CASE JobTo(t, Away)
  BY <1>1, <1>2, ManifestMoves DEF JobTo, ManifestTypes
<1>3. CASE \E j \in JobType : JobTo(t, j) /\ SameTraining(trainer[t], j)
  <2>1. PICK j \in JobType : JobTo(t, j) /\ SameTraining(trainer[t], j)
    BY <1>3
  <2>2. trainer' = [trainer EXCEPT ![t] = j]
    BY <2>1 DEF JobTo
  <2>3. QED
    BY <2>1, <2>2, ManifestMoves DEF ManifestTypes
<1>4. QED
  BY <1>2, <1>3, ManifestMoves

\* A manifest that is replaced.
LEMMA ManifestReplaced ==
  ASSUME ManifestTypes, NEW t \in Trainers, ReplaceManifest(t)
  PROVE  /\ manifest' \in [Paths -> ManifestType]
         /\ trainer[t].path \in Paths
         /\ \A m \in Paths : manifest'[m] =
              IF m = trainer[t].path
              THEN [origin |-> trainer[t].origin, tag |-> Merged(trainer[t]), clusters |-> trainer[t].clusters]
              ELSE manifest[m]
<1> DEFINE r == trainer[t]
           new == [origin |-> r.origin, tag |-> Merged(r), clusters |-> r.clusters]
<1>1. r \in JobType /\ r.path \in Paths /\ manifest' = [manifest EXCEPT ![r.path] = new]
  BY DEF ReplaceManifest, ManifestTypes, Training, Reached
<1>2. new \in ManifestType
  BY <1>1 DEF JobType, ManifestType, Merged
<1> HIDE DEF new
<1>3. manifest' \in [Paths -> ManifestType] /\ \A m \in Paths : manifest'[m] = IF m = r.path THEN new ELSE manifest[m]
  BY <1>1, <1>2 DEF ManifestTypes
<1>4. QED
  BY <1>1, <1>3 DEF new

\* What a training that begins finds, and how the others see it.
LEMMA TrainingBegins ==
  ASSUME ManifestTypes, LineageInv, NEW t \in Trainers, NEW m \in Paths, NEW tag \in Tags, NEW tells \in BOOLEAN,
         NEW resumed \in {0} \cup {o \in DOMAIN owner : owner[o] = tag},
         BeginTraining(t, m, tag, tells, resumed)
  PROVE  /\ ManifestTypes' /\ Owned(trainer[t].origin, tag)'
         /\ trainer'[t].tag = tag /\ trainer'[t].pc = "export"
         /\ trainer'[t].alone => \A u \in Trainers : ~ Training(u)
         /\ \A u \in Trainers \ {t} :
              /\ trainer'[u].pc = trainer[u].pc /\ trainer'[u].path = trainer[u].path
              /\ trainer'[u].clusters = trainer[u].clusters /\ trainer'[u].stale = trainer[u].stale
              /\ trainer'[u].tag = trainer[u].tag /\ trainer'[u].origin = trainer[u].origin
              /\ Training(u) => ~ trainer'[u].alone
<1> DEFINE found == Resolve(m, tag, resumed)
           origin == IF found = 0 THEN trainings + 1 ELSE found
           noted == \A v \in Trainers : ~ Training(v)
           fresh1 == [Away EXCEPT !.pc = "export", !.path = m, !.tag = tag, !.tells = tells,
                        !.origin = origin, !.alone = noted]
<1>1. /\ trainings' = trainings + 1 /\ owner' = Append(owner, tag) /\ manifest' = manifest /\ untold' = untold
      /\ lent' = IF found # 0 /\ m \in untold /\ owner[found] # tag THEN lent \cup {found} ELSE lent
      /\ trainer' = [u \in Trainers |-> IF u = t THEN fresh1
                       ELSE IF Training(u) THEN [trainer[u] EXCEPT !.alone = FALSE] ELSE trainer[u]]
  BY DEF BeginTraining
<1>2. owner \in Seq(Tags) /\ trainings = Len(owner) /\ Len(owner) \in Nat
  BY DEF ManifestTypes
<1>3. found \in 0..Len(owner)
  <2>1. manifest[m].origin \in 0..Len(owner)
    BY DEF LineageInv
  <2>2. resumed \in 0..Len(owner)
    BY <1>2
  <2>3. QED
    BY <2>1, <2>2, <1>2 DEF Resolve
<1>4. found # 0 => owner[found] = tag \/ found \in lent \/ (m \in untold /\ owner[found] # tag)
  <2>1. CASE resumed # 0
    <3>1. found = resumed /\ owner[resumed] = tag
      BY <2>1 DEF Resolve
    <3>2. QED
      BY <3>1
  <2>2. CASE resumed = 0 /\ found # 0 /\ m \notin untold
    <3>1. manifest[m].tag \in {Untagged, tag} /\ found = manifest[m].origin
      BY <2>2 DEF Resolve
    <3>2. manifest[m].tag # Untagged /\ Owned(found, manifest[m].tag)
      BY <2>2, <3>1 DEF LineageInv
    <3>3. QED
      BY <3>1, <3>2 DEF Owned
  <2>3. QED
    BY <2>1, <2>2
<1> HIDE DEF found
<1>5. /\ owner' \in Seq(Tags) /\ Len(owner') = Len(owner) + 1 /\ owner'[Len(owner) + 1] = tag
      /\ \A o \in 1..Len(owner) : owner'[o] = owner[o]
  <2>1. owner' = Append(owner, tag)
    BY <1>1
  <2>2. /\ Append(owner, tag) \in Seq(Tags) /\ Len(Append(owner, tag)) = Len(owner) + 1
        /\ Append(owner, tag)[Len(owner) + 1] = tag
        /\ \A o \in 1..Len(owner) : Append(owner, tag)[o] = owner[o]
    BY <1>2
  <2>3. QED
    BY <2>1, <2>2
<1>6. origin \in 1..Len(owner') /\ origin \in Nat
  BY <1>2, <1>3, <1>5
<1>7. owner'[origin] = tag \/ origin \in lent'
  <2>1. CASE found = 0
    BY <1>2, <1>5, <2>1
  <2>2. CASE found # 0
    <3>1. found \in 1..Len(owner) /\ owner'[found] = owner[found] /\ origin = found
      BY <1>2, <1>3, <1>5, <2>2
    <3>2. found \in lent => found \in lent'
      BY <1>1
    <3>3. QED
      BY <1>1, <1>4, <2>2, <3>1, <3>2
  <2>3. QED
    BY <2>1, <2>2
<1> HIDE DEF origin
<1>8. noted \in BOOLEAN
  OBVIOUS
<1> HIDE DEF noted
<1>9. /\ fresh1.pc = "export" /\ fresh1.path = m /\ fresh1.tag = tag /\ fresh1.origin = origin
      /\ fresh1.alone => noted
  BY DEF Away
<1>10. fresh1 \in JobType
  <2>1. NoManifest \in ManifestType
    BY DEF NoManifest, ManifestType
  <2>2. Away \in JobType
    BY <2>1 DEF Away, JobType
  <2>3. [Away EXCEPT !.pc = "export", !.path = m, !.tag = tag] \in JobType
    BY <2>2 DEF JobType
  <2>4. ASSUME NEW j \in JobType
        PROVE  [j EXCEPT !.tells = tells, !.origin = origin, !.alone = noted] \in JobType
    BY <1>6, <1>8 DEF JobType
  <2>5. QED
    BY <2>3, <2>4
<1> HIDE DEF fresh1
<1>11. trainer'[t] = fresh1
  BY <1>1
<1>12. ASSUME NEW u \in Trainers \ {t}
       PROVE  /\ trainer'[u] \in JobType
              /\ trainer'[u].pc = trainer[u].pc /\ trainer'[u].path = trainer[u].path
              /\ trainer'[u].clusters = trainer[u].clusters /\ trainer'[u].stale = trainer[u].stale
              /\ trainer'[u].tag = trainer[u].tag /\ trainer'[u].origin = trainer[u].origin
              /\ Training(u) => ~ trainer'[u].alone
  <2>1. trainer[u] \in JobType
    BY DEF ManifestTypes
  <2>2. trainer'[u] = IF Training(u) THEN [trainer[u] EXCEPT !.alone = FALSE] ELSE trainer[u]
    BY <1>1
  <2>3. CASE Training(u)
    <3>1. trainer'[u] = [trainer[u] EXCEPT !.alone = FALSE]
      BY <2>2, <2>3
    <3>2. trainer'[u] = [pc |-> trainer[u].pc, path |-> trainer[u].path, tag |-> trainer[u].tag,
                         origin |-> trainer[u].origin, tells |-> trainer[u].tells,
                         clusters |-> trainer[u].clusters, before |-> trainer[u].before,
                         stale |-> trainer[u].stale, alone |-> FALSE]
      BY <2>1, <3>1 DEF JobType
    <3>3. trainer'[u] \in JobType
      BY <2>1, <3>2 DEF JobType
    <3>4. QED
      BY <3>2, <3>3
  <2>4. CASE ~ Training(u)
    BY <2>1, <2>2, <2>4
  <2>5. QED
    BY <2>3, <2>4
<1>13. ManifestTypes'
  <2>1. trainer' \in [Trainers -> JobType]
    BY <1>1, <1>10, <1>11, <1>12
  <2>2. \A u \in Trainers : Training(u)' => trainer'[u].path \in Paths /\ trainer'[u].tag \in Tags
    BY <1>9, <1>11, <1>12 DEF ManifestTypes, Training
  <2>3. manifest' \in [Paths -> ManifestType]
    BY <1>1 DEF ManifestTypes
  <2>4. QED
    BY <1>1, <1>2, <1>5, <2>1, <2>2, <2>3 DEF ManifestTypes
<1>14. Owned(trainer[t].origin, tag)'
  BY <1>6, <1>7, <1>9, <1>11 DEF Owned
<1>15. /\ trainer'[t].tag = tag /\ trainer'[t].pc = "export"
       /\ trainer'[t].alone => \A u \in Trainers : ~ Training(u)
  BY <1>9, <1>11 DEF noted
<1>16. QED
  BY <1>12, <1>13, <1>14, <1>15

LEMMA TypesStep ==
  ASSUME ManifestTypes, NEW t \in Trainers, ManifestStep(t)
  PROVE  ManifestTypes' /\ owner' = owner /\ lent' = lent
<1>1. owner' = owner /\ trainings' = trainings /\ lent' = lent
  BY DEF ManifestStep, ExportWeights, ReadManifest, ReplaceManifest, DeleteStale, StopTraining, historyVars
<1>2. manifest' \in [Paths -> ManifestType]
  <2>1. CASE ReplaceManifest(t)
    BY <2>1, ManifestReplaced
  <2>2. CASE manifest' = manifest
    BY <2>2 DEF ManifestTypes
  <2>3. QED
    BY <2>1, <2>2 DEF ManifestStep, ExportWeights, ReadManifest, DeleteStale, StopTraining
<1>3. \A u \in Trainers : Training(u)' => trainer'[u].path \in Paths /\ trainer'[u].tag \in Tags
  BY TrainingMoves DEF ManifestTypes, Training, SameTraining, Away
<1>4. QED
  BY <1>1, <1>2, <1>3, TrainingMoves DEF ManifestTypes

\* A cluster goes only when it is stale for a manifest that has been replaced, and
\* is noted when another manifest names it or another training is on its way.
LEMMA KeptStep ==
  ASSUME ManifestTypes, KeptInv, NEW t \in Trainers, ManifestStep(t)
  PROVE  KeptInv'
<1> DEFINE r == trainer[t]
<1>1. /\ \A u \in Trainers \ {t} : trainer'[u] = trainer[u]
      /\ Training(t)
      /\ trainer'[t] = Away \/ SameTraining(r, trainer'[t])
      /\ r \in JobType
  BY TrainingMoves DEF ManifestTypes
<1>2. \A u \in Trainers \ {t} : Training(u) => ~ trainer[u].alone
  BY <1>1 DEF KeptInv, KeepsWeights
<1>3. r.alone => \A u \in Trainers \ {t} : ~ Training(u)
  BY <1>1 DEF KeptInv, KeepsWeights
<1>4. Training(t)' /\ trainer'[t].alone => \A u \in Trainers \ {t} : ~ Training(u)'
  <2> SUFFICES ASSUME Training(t)', trainer'[t].alone
               PROVE  \A u \in Trainers \ {t} : ~ Training(u)'
    OBVIOUS
  <2>1. trainer'[t] # Away
    BY DEF Training, Away
  <2>2. r.alone
    BY <1>1, <2>1 DEF SameTraining
  <2>3. QED
    BY <1>1, <1>3, <2>2 DEF Training
<1>5. ASSUME \/ NamedWeights \subseteq NamedWeights'
             \/ \A u \in Trainers \ {t} : ~ Training(u),
             \A m \in Paths : manifest'[m].clusters \subseteq NamedWeights',
             trainer'[t].pc \in {"load", "write"} => trainer'[t].clusters \subseteq NamedWeights',
             Reached(t, "gc")' /\ trainer'[t].alone =>
               trainer'[t].stale \cap manifest'[trainer'[t].path].clusters = {}
      PROVE  KeptInv'
  <2>1. KeepsWeights(t)'
    BY <1>4, <1>5 DEF KeepsWeights
  <2>2. ASSUME NEW u \in Trainers \ {t}
        PROVE  KeepsWeights(u)'
    <3>1. KeepsWeights(u) /\ trainer'[u] = trainer[u]
      BY <1>1 DEF KeptInv
    <3>2. trainer[u].pc \in {"load", "write"} => NamedWeights \subseteq NamedWeights'
      BY <1>5 DEF Training
    <3>3. Reached(u, "gc") => Training(u)
      BY DEF Reached, Training
    <3>4. QED
      BY <1>2, <3>1, <3>2, <3>3 DEF KeepsWeights, Training, Reached
  <2>3. QED
    BY <1>5, <2>1, <2>2 DEF KeptInv
<1>6. ASSUME NEW clusters \in SUBSET Weights, ExportWeights(t, clusters)
      PROVE  KeptInv'
  <2>1. NamedWeights \cup clusters \subseteq NamedWeights' /\ manifest' = manifest
    BY <1>6 DEF ExportWeights, NamedWeights
  <2>2. trainer'[t].pc = "load" /\ trainer'[t].clusters = clusters
    BY <1>1, <1>6 DEF ExportWeights, ManifestTypes, JobType
  <2>3. QED
    BY <1>5, <2>1, <2>2 DEF KeptInv, Reached
<1>7. CASE ReadManifest(t)
  <2>1. NamedWeights' = NamedWeights /\ manifest' = manifest /\ r.pc = "load"
    BY <1>7 DEF ReadManifest, NamedWeights, Reached, historyVars
  <2>2. trainer'[t].pc = "write" /\ trainer'[t].clusters = r.clusters
    BY <1>1, <1>7 DEF ReadManifest, ManifestTypes, JobType
  <2>3. QED
    BY <1>5, <2>1, <2>2 DEF KeptInv, KeepsWeights, Reached
<1>8. CASE ReplaceManifest(t)
  <2>1. NamedWeights' = NamedWeights /\ r.pc = "write"
    BY <1>8 DEF ReplaceManifest, NamedWeights, Reached
  <2>2. r.clusters \subseteq NamedWeights
    BY <2>1 DEF KeptInv, KeepsWeights
  <2>3. /\ manifest'[r.path].clusters = r.clusters
        /\ \A m \in Paths : manifest'[m].clusters \subseteq NamedWeights'
    <3> DEFINE new == [origin |-> r.origin, tag |-> Merged(r), clusters |-> r.clusters]
    <3>1. r.path \in Paths /\ \A m \in Paths : manifest'[m] = IF m = r.path THEN new ELSE manifest[m]
      BY <1>8, ManifestReplaced
    <3>2. new.clusters = r.clusters
      OBVIOUS
    <3> HIDE DEF new
    <3>3. \A m \in Paths : manifest[m].clusters \subseteq NamedWeights
      BY DEF KeptInv
    <3>4. QED
      BY <2>1, <2>2, <3>1, <3>2, <3>3
  <2>4. CASE Leaves(t)
    <3>1. trainer'[t].pc = "idle"
      BY <2>4 DEF Leaves, ManifestTypes, Away
    <3>2. QED
      BY <1>5, <2>1, <2>3, <3>1 DEF Reached
  <2>5. CASE trainer' = [trainer EXCEPT ![t].pc = "gc", ![t].stale = Stale(r)]
    <3>1. trainer'[t].pc = "gc" /\ trainer'[t].stale = Stale(r) /\ trainer'[t].path = r.path
      BY <1>1, <2>5 DEF ManifestTypes, JobType
    <3>2. Stale(r) \cap r.clusters = {}
      BY DEF Stale
    <3>3. QED
      BY <1>5, <2>1, <2>3, <3>1, <3>2
  <2>6. QED
    BY <1>8, <2>4, <2>5 DEF ReplaceManifest
<1>9. ASSUME NEW x \in Weights, DeleteStale(t, x)
      PROVE  KeptInv'
  <2>1. /\ r.pc = "gc" /\ x \in r.stale /\ manifest' = manifest
        /\ weights' = weights \ {x}
        /\ taken' = IF r.alone /\ ~ \E m \in Paths \ {r.path} : x \in manifest[m].clusters
                    THEN taken ELSE taken \cup {x}
    BY <1>9 DEF DeleteStale, Reached
  <2>2. /\ trainer'[t].pc \notin {"load", "write"}
        /\ Reached(t, "gc")' => /\ trainer'[t].stale \subseteq r.stale
                                /\ trainer'[t].path = r.path /\ trainer'[t].alone = r.alone
    <3>1. CASE Leaves(t)
      BY <3>1 DEF Leaves, ManifestTypes, Away, Reached
    <3>2. CASE trainer' = [trainer EXCEPT ![t].stale = @ \ {x}]
      BY <1>1, <2>1, <3>2 DEF ManifestTypes, JobType, Reached
    <3>3. QED
      BY <1>9, <3>1, <3>2 DEF DeleteStale
  <2>3. Reached(t, "gc")' /\ trainer'[t].alone =>
          trainer'[t].stale \cap manifest'[trainer'[t].path].clusters = {}
    BY <2>1, <2>2 DEF KeptInv, KeepsWeights, Reached
  <2>4. CASE r.alone /\ ~ \E m \in Paths \ {r.path} : x \in manifest[m].clusters
    <3>1. x \notin manifest[r.path].clusters
      BY <2>1, <2>4 DEF KeptInv, KeepsWeights, Reached
    <3>2. \A m \in Paths : manifest'[m].clusters \subseteq NamedWeights'
      BY <2>1, <2>4, <3>1 DEF KeptInv, NamedWeights
    <3>3. QED
      BY <1>3, <1>5, <2>2, <2>3, <2>4, <3>2
  <2>5. CASE ~ (r.alone /\ ~ \E m \in Paths \ {r.path} : x \in manifest[m].clusters)
    <3>1. NamedWeights \subseteq NamedWeights'
      BY <2>1, <2>5 DEF NamedWeights
    <3>2. QED
      BY <1>5, <2>1, <2>2, <2>3, <3>1 DEF KeptInv
  <2>6. QED
    BY <2>4, <2>5
<1>10. CASE StopTraining(t)
  <2>1. NamedWeights' = NamedWeights /\ manifest' = manifest /\ trainer'[t].pc = "idle"
    BY <1>10 DEF StopTraining, Leaves, ManifestTypes, Away, NamedWeights
  <2>2. QED
    BY <1>5, <2>1 DEF KeptInv, Reached
<1>11. QED
  BY <1>6, <1>7, <1>8, <1>9, <1>10 DEF ManifestStep

\* A manifest that is written with a tag names the tag and an origin of it.
LEMMA LineageStep ==
  ASSUME ManifestTypes, LineageInv, NEW t \in Trainers, ManifestStep(t)
  PROVE  LineageInv'
<1> DEFINE r == trainer[t]
<1>1. /\ \A u \in Trainers \ {t} : trainer'[u] = trainer[u]
      /\ Training(t)
      /\ trainer'[t] = Away \/ SameTraining(r, trainer'[t])
      /\ owner' = owner /\ lent' = lent
  BY TrainingMoves, TypesStep
<1>2. \A o, tag : Owned(o, tag)' <=> Owned(o, tag)
  BY <1>1 DEF Owned
<1>3. \A u \in Trainers : Training(u)' => Owned(trainer'[u].origin, trainer'[u].tag)
  BY <1>1 DEF LineageInv, Training, SameTraining, Away
<1>4. CASE manifest' = manifest /\ untold' = untold
  BY <1>1, <1>2, <1>3, <1>4 DEF LineageInv
<1>5. CASE ReplaceManifest(t)
  <2>1. Owned(r.origin, r.tag) /\ r.tag \in Tags
    BY <1>1 DEF LineageInv, ManifestTypes
  <2>2. untold' = IF r.tells THEN untold \ {r.path} ELSE untold \cup {r.path}
    BY <1>5 DEF ReplaceManifest
  <2>3. /\ r.path \in Paths /\ manifest'[r.path].origin = r.origin /\ manifest'[r.path].tag = Merged(r)
        /\ \A m \in Paths \ {r.path} : manifest'[m] = manifest[m]
    <3> DEFINE new == [origin |-> r.origin, tag |-> Merged(r), clusters |-> r.clusters]
    <3>1. r.path \in Paths /\ \A m \in Paths : manifest'[m] = IF m = r.path THEN new ELSE manifest[m]
      BY <1>5, ManifestReplaced
    <3>2. new.origin = r.origin /\ new.tag = Merged(r)
      OBVIOUS
    <3> HIDE DEF new
    <3>3. QED
      BY <3>1, <3>2
  <2>4. r.path \notin untold' => Merged(r) = r.tag
    BY <2>2 DEF Merged
  <2>5. \A m \in Paths : manifest'[m].origin \in 0..Len(owner')
    BY <1>1, <2>1, <2>3 DEF LineageInv, Owned
  <2>6. ASSUME NEW m \in Paths \ untold', manifest'[m].origin # 0
        PROVE  manifest'[m].tag # Untagged /\ Owned(manifest'[m].origin, manifest'[m].tag)
    <3>1. CASE m = r.path
      BY <2>1, <2>3, <2>4, <3>1, TagAssumption
    <3>2. CASE m # r.path
      BY <2>2, <2>3, <2>6, <3>2 DEF LineageInv
    <3>3. QED
      BY <3>1, <3>2
  <2>7. QED
    BY <1>2, <1>3, <2>5, <2>6 DEF LineageInv
<1>6. QED
  BY <1>4, <1>5 DEF ManifestStep, ExportWeights, ReadManifest, DeleteStale, StopTraining, historyVars

LEMMA BeginKeepsManifests ==
  ASSUME ManifestTypes, KeptInv, LineageInv,
         NEW t \in Trainers, NEW m \in Paths, NEW tag \in Tags, NEW tells \in BOOLEAN,
         NEW resumed \in {0} \cup {o \in DOMAIN owner : owner[o] = tag},
         BeginTraining(t, m, tag, tells, resumed)
  PROVE  KeptInv' /\ LineageInv'
<1>1. /\ NamedWeights' = NamedWeights /\ manifest' = manifest /\ untold' = untold /\ lent \subseteq lent'
      /\ owner' = Append(owner, tag)
  BY DEF BeginTraining, NamedWeights
<1>2. KeptInv'
  <2>1. KeepsWeights(t)'
    BY TrainingBegins DEF KeepsWeights, Training, Reached
  <2>2. ASSUME NEW u \in Trainers \ {t}
        PROVE  KeepsWeights(u)'
    BY <1>1, TrainingBegins DEF KeptInv, KeepsWeights, Training, Reached
  <2>3. QED
    BY <1>1, <2>1, <2>2 DEF KeptInv
<1>3. Len(owner') = Len(owner) + 1 /\ Len(owner) \in Nat /\ \A o \in 1..Len(owner) : owner'[o] = owner[o]
  <2>1. owner \in Seq(Tags)
    BY DEF ManifestTypes
  <2>2. /\ Len(Append(owner, tag)) = Len(owner) + 1 /\ Len(owner) \in Nat
        /\ \A o \in 1..Len(owner) : Append(owner, tag)[o] = owner[o]
    BY <2>1
  <2>3. QED
    BY <1>1, <2>2
<1>4. \A o, n : Owned(o, n) => Owned(o, n)'
  BY <1>1, <1>3 DEF Owned
<1>5. \A u \in Trainers : Training(u)' => Owned(trainer[u].origin, trainer[u].tag)'
  <2>1. Owned(trainer[t].origin, trainer[t].tag)'
    BY TrainingBegins
  <2>2. ASSUME NEW u \in Trainers \ {t}, Training(u)'
        PROVE  Owned(trainer[u].origin, trainer[u].tag)'
    <3>1. Training(u) /\ trainer'[u].origin = trainer[u].origin /\ trainer'[u].tag = trainer[u].tag
      BY <2>2, TrainingBegins DEF Training
    <3>2. Owned(trainer[u].origin, trainer[u].tag)
      BY <3>1 DEF LineageInv
    <3>3. QED
      BY <1>1, <1>3, <3>1, <3>2 DEF Owned
  <2>3. QED
    BY <2>1, <2>2
<1>6. LineageInv'
  BY <1>1, <1>3, <1>4, <1>5 DEF LineageInv
<1>7. QED
  BY <1>2, <1>6

LEMMA ManifestInvStep ==
  ASSUME ManifestTypes, KeptInv, LineageInv, [ManifestNext]_manifestVars
  PROVE  ManifestTypes' /\ KeptInv' /\ LineageInv'
<1>1. CASE UNCHANGED manifestVars
  BY <1>1 DEF manifestVars, historyVars, ManifestTypes, KeptInv, KeepsWeights, LineageInv, Owned,
              Training, Reached, NamedWeights
<1>2. ASSUME NEW t \in Trainers, ManifestStep(t)
      PROVE  ManifestTypes' /\ KeptInv' /\ LineageInv'
  BY <1>2, TypesStep, KeptStep, LineageStep
<1>3. ASSUME NEW t \in Trainers, NEW m \in Paths, NEW tag \in Tags, NEW tells \in BOOLEAN,
             NEW resumed \in {0} \cup {o \in DOMAIN owner : owner[o] = tag},
             BeginTraining(t, m, tag, tells, resumed)
      PROVE  ManifestTypes' /\ KeptInv' /\ LineageInv'
  BY <1>3, TrainingBegins, BeginKeepsManifests
<1>4. QED
  BY <1>1, <1>2, <1>3 DEF ManifestNext

LEMMA ManifestInvariant == ManifestSpec => [](ManifestTypes /\ KeptInv /\ LineageInv)
<1>1. ManifestTypes /\ KeptInv /\ LineageInv /\ [ManifestNext]_manifestVars
        => (ManifestTypes /\ KeptInv /\ LineageInv)'
  BY ManifestInvStep
<1>2. QED
  BY <1>1, InitManifests, PTL DEF ManifestSpec

\* What a manifest names is stored, however many trainings write manifests and
\* whenever they end, unless two manifests share the cluster or two trainings ran
\* at once when it was deleted.
THEOREM ManifestsStayWhole == ManifestSpec => []ManifestClustersKept
<1>1. KeptInv => ManifestClustersKept
  BY DEF KeptInv, NamedWeights, ManifestClustersKept
<1>2. QED
  BY <1>1, ManifestInvariant, PTL

\* An origin that a training finds in a manifest was made for its own tag, unless a
\* write without a tag has hidden whose it was.
THEOREM LineagesApart == ManifestSpec => []ResumesOwnLineage
<1>1. LineageInv => ResumesOwnLineage
  <2> SUFFICES ASSUME LineageInv, NEW m \in Paths \ untold, NEW tag \in Tags, Resolve(m, tag, 0) # 0
               PROVE  owner[Resolve(m, tag, 0)] = tag \/ Resolve(m, tag, 0) \in lent
    BY DEF ResumesOwnLineage
  <2>1. Resolve(m, tag, 0) = manifest[m].origin /\ manifest[m].tag \in {Untagged, tag}
    BY DEF Resolve
  <2>2. manifest[m].tag # Untagged /\ Owned(manifest[m].origin, manifest[m].tag)
    BY <2>1 DEF LineageInv
  <2>3. QED
    BY <2>1, <2>2 DEF Owned
<1>2. QED
  BY <1>1, ManifestInvariant, PTL

(***************************************************************************)
(* The exports.  Counting is by sets: the puts of a call that stored an absent *)
(* cluster and are not counted yet are pairs of the exporter and a number.     *)
(***************************************************************************)
ExportJobs ==
  [pc : {"idle", "look", "put", "manifest", "count"}, op : {"single", "import", "layer", "model"},
   todo : Seq(Shards), named : SUBSET Shards, size : Nat, new : Nat, stored : Nat]

\* What a call has worked through is stored or was erased since; it counts at
\* least what it stored, for it has at most size clusters to store.
Held == shards \cup erased

JobInv(job, held) ==
  /\ job.named \ ToSet(job.todo) \subseteq held
  /\ job.stored <= job.new /\ job.new + Len(job.todo) <= job.size
  /\ job.pc = "idle" => job.stored = 0
  /\ job.pc \in {"manifest", "count"} => job.todo = <<>>
  /\ job.pc \in {"look", "put"} => job.todo # <<>>

PendingOf(e) == {e} \X (1..exporter[e].stored)
Pending == UNION {PendingOf(e) : e \in Exporters}

ExportInv ==
  /\ exporter \in [Exporters -> ExportJobs]
  /\ {counted, fresh, missed} \subseteq Nat
  /\ ExportsComplete
  /\ \A e \in Exporters : JobInv(exporter[e], Held)
  /\ IsFiniteSet(Pending)
  /\ fresh <= counted + missed + Cardinality(Pending)

LEMMA NotExportingJob ==
  NotExporting \in ExportJobs /\ NotExporting.stored = 0 /\ \A held : JobInv(NotExporting, held)
<1>1. NotExporting \in ExportJobs /\ NotExporting.stored = 0
  BY DEF NotExporting, ExportJobs
<1>2. \A held : JobInv(NotExporting, held)
  BY DEF NotExporting, JobInv
<1>3. QED
  BY <1>1, <1>2

LEMMA NonePending ==
  ASSUME \A e \in Exporters : exporter[e].stored = 0
  PROVE  IsFiniteSet(Pending) /\ Cardinality(Pending) = 0
<1>1. Pending = {}
  BY DEF Pending, PendingOf
<1>2. QED
  BY <1>1, FS_EmptySet

LEMMA ExportInvInit == ExportInit => ExportInv
<1> SUFFICES ASSUME ExportInit
             PROVE  ExportInv
  OBVIOUS
<1>1. \A e \in Exporters : exporter[e] = NotExporting
  BY DEF ExportInit
<1>2. exporter \in [Exporters -> ExportJobs] /\ \A e \in Exporters : JobInv(exporter[e], Held)
  BY <1>1, NotExportingJob DEF ExportInit
<1>3. IsFiniteSet(Pending) /\ Cardinality(Pending) = 0
  BY <1>1, NotExportingJob, NonePending
<1>4. QED
  BY <1>2, <1>3 DEF ExportInit, ExportInv, ExportsComplete

\* One exporter's job is replaced.
JobIs(e, job) ==
  /\ exporter' = [exporter EXCEPT ![e] = job]
  /\ job \in ExportJobs

\* A job that has stored as much as before leaves the pending puts as they were,
\* one that has stored one more adds a put, and one that has ended takes its own.
LEMMA PendingSame ==
  ASSUME ExportInv, NEW e \in Exporters, NEW job, JobIs(e, job), job.stored = exporter[e].stored
  PROVE  Pending' = Pending
<1>1. \A f \in Exporters : exporter'[f].stored = exporter[f].stored
  BY DEF ExportInv, JobIs
<1>2. QED
  BY <1>1 DEF Pending, PendingOf

LEMMA PendingMore ==
  ASSUME ExportInv, NEW e \in Exporters, NEW job, JobIs(e, job), job.stored = exporter[e].stored + 1
  PROVE  IsFiniteSet(Pending') /\ Cardinality(Pending') = Cardinality(Pending) + 1
<1> DEFINE n == exporter[e].stored
<1>1. n \in Nat /\ exporter'[e].stored = n + 1 /\ \A f \in Exporters \ {e} : exporter'[f] = exporter[f]
  BY DEF ExportInv, ExportJobs, JobIs
<1>2. PendingOf(e)' = PendingOf(e) \cup {<<e, n + 1>>}
  <2>1. 1..(n + 1) = 1..n \cup {n + 1}
    BY <1>1
  <2>2. PendingOf(e)' = {e} \X (1..(n + 1))
    BY <1>1 DEF PendingOf
  <2>3. QED
    BY <2>1, <2>2 DEF PendingOf
<1>3. \A f \in Exporters \ {e} : PendingOf(f)' = PendingOf(f)
  BY <1>1 DEF PendingOf
<1>4. Pending' = Pending \cup {<<e, n + 1>>}
  BY <1>2, <1>3 DEF Pending
<1>5. <<e, n + 1>> \notin Pending
  BY <1>1 DEF Pending, PendingOf
<1>6. QED
  BY <1>4, <1>5, FS_AddElement DEF ExportInv

LEMMA PairsCounted ==
  ASSUME NEW x, NEW n \in Nat
  PROVE  IsFiniteSet({x} \X (1..n)) /\ Cardinality({x} \X (1..n)) = n
<1>1. IsFiniteSet(1..n) /\ Cardinality(1..n) = n
  <2>1. Cardinality(1..n) = IF 1 > n THEN 0 ELSE n-1+1
    BY FS_Interval
  <2>2. QED
    BY <2>1, FS_Interval
<1>2. IsFiniteSet({x}) /\ Cardinality({x}) = 1
  BY FS_Singleton
<1>3. /\ IsFiniteSet({x} \X (1..n))
      /\ Cardinality({x} \X (1..n)) = Cardinality({x}) * Cardinality(1..n)
  BY <1>1, <1>2, FS_Product
<1>4. QED
  BY <1>1, <1>2, <1>3

LEMMA PendingEnds ==
  ASSUME ExportInv, NEW e \in Exporters, NEW job, JobIs(e, job), job.stored = 0
  PROVE  /\ IsFiniteSet(Pending')
         /\ Cardinality(Pending) = Cardinality(Pending') + exporter[e].stored
<1> DEFINE n == exporter[e].stored
<1>1. n \in Nat /\ exporter'[e].stored = 0 /\ \A f \in Exporters \ {e} : exporter'[f] = exporter[f]
  BY DEF ExportInv, ExportJobs, JobIs
<1>2. IsFiniteSet(PendingOf(e)) /\ Cardinality(PendingOf(e)) = n
  BY <1>1, PairsCounted DEF PendingOf
<1>3. PendingOf(e) \subseteq Pending
  BY DEF Pending
<1>4. Pending' = Pending \ PendingOf(e)
  <2>1. PendingOf(e)' = {}
    BY <1>1 DEF PendingOf
  <2>2. \A f \in Exporters \ {e} : PendingOf(f)' = PendingOf(f) /\ PendingOf(f) \cap PendingOf(e) = {}
    BY <1>1 DEF PendingOf
  <2>3. QED
    BY <2>1, <2>2 DEF Pending
<1>5. /\ IsFiniteSet(Pending')
      /\ Cardinality(Pending') = Cardinality(Pending) - Cardinality(Pending \cap PendingOf(e))
  BY <1>4, FS_Difference DEF ExportInv
<1>6. Pending \cap PendingOf(e) = PendingOf(e)
  BY <1>3
<1>7. Cardinality(Pending) \in Nat /\ Cardinality(Pending') \in Nat
  BY <1>5, FS_CardinalityType DEF ExportInv
<1>8. Cardinality(Pending') = Cardinality(Pending) - n
  BY <1>2, <1>5, <1>6
<1>9. QED
  BY <1>1, <1>5, <1>7, <1>8

\* The jobs that the steps make, field by field.
JobFields(job, pc, op, todo, named, size, new, puts) ==
  /\ job \in ExportJobs
  /\ job.pc = pc /\ job.op = op /\ job.todo = todo
  /\ job.named = named /\ job.size = size
  /\ job.new = new /\ job.stored = puts

LEMMA StartedJob ==
  ASSUME NEW op \in {"single", "import", "layer", "model"}, NEW batch \in Seq(Shards),
         NEW named \in SUBSET Shards, NEW size \in Nat
  PROVE  JobFields([NotExporting EXCEPT !.pc = "look", !.op = op, !.todo = batch, !.named = named, !.size = size],
                   "look", op, batch, named, size, 0, 0)
<1> DEFINE s == [NotExporting EXCEPT !.pc = "look", !.op = op, !.todo = batch]
           t == [s EXCEPT !.named = named, !.size = size]
<1>1. NotExporting \in ExportJobs
  BY NotExportingJob
<1>2. NotExporting.named = {} /\ NotExporting.size = 0 /\ NotExporting.new = 0 /\ NotExporting.stored = 0
  BY DEF NotExporting
<1>3. s \in ExportJobs
  BY <1>1 DEF ExportJobs
<1>4. /\ s.pc = "look" /\ s.op = op /\ s.todo = batch
      /\ s.new = 0 /\ s.stored = 0
  BY <1>1, <1>2 DEF ExportJobs
<1>5. [NotExporting EXCEPT !.pc = "look", !.op = op, !.todo = batch, !.named = named, !.size = size] = t
  OBVIOUS
<1> HIDE DEF s
<1>6. t \in ExportJobs
  BY <1>3 DEF ExportJobs
<1>7. /\ t.pc = s.pc /\ t.op = s.op /\ t.todo = s.todo
      /\ t.named = named /\ t.size = size
      /\ t.new = s.new /\ t.stored = s.stored
  BY <1>3 DEF ExportJobs
<1> HIDE DEF t
<1>8. QED
  BY <1>4, <1>5, <1>6, <1>7 DEF JobFields

LEMMA AdvancedJob ==
  ASSUME NEW r \in ExportJobs, NEW rest \in Seq(Shards), NEW pc \in {"look", "manifest", "count"},
         NEW new \in {0, 1}, NEW stored1 \in {0, 1}
  PROVE  JobFields([r EXCEPT !.todo = rest, !.pc = pc, !.new = @ + new, !.stored = @ + stored1],
                   pc, r.op, rest, r.named, r.size, r.new + new, r.stored + stored1)
<1> DEFINE s == [r EXCEPT !.todo = rest, !.pc = pc]
           t == [s EXCEPT !.new = r.new + new, !.stored = r.stored + stored1]
<1>1. s \in ExportJobs
  BY DEF ExportJobs
<1>2. /\ s.pc = pc /\ s.todo = rest
      /\ s.op = r.op /\ s.named = r.named /\ s.size = r.size
  BY DEF ExportJobs
<1>3. [r EXCEPT !.todo = rest, !.pc = pc, !.new = @ + new, !.stored = @ + stored1] = t
  OBVIOUS
<1>4. r.new + new \in Nat /\ r.stored + stored1 \in Nat
  BY DEF ExportJobs
<1> HIDE DEF s
<1>5. t \in ExportJobs
  BY <1>1, <1>4 DEF ExportJobs
<1>6. /\ t.pc = s.pc /\ t.todo = s.todo
      /\ t.op = s.op /\ t.named = s.named /\ t.size = s.size
      /\ t.new = r.new + new /\ t.stored = r.stored + stored1
  BY <1>1 DEF ExportJobs
<1> HIDE DEF t
<1>7. QED
  BY <1>2, <1>3, <1>5, <1>6 DEF JobFields

\* What a step that replaces one job has to show.
LEMMA JobKeepsInv ==
  ASSUME ExportInv, NEW e \in Exporters, NEW job, JobIs(e, job),
         JobInv(job, Held'), Held \subseteq Held', ExportsComplete',
         {counted', fresh', missed'} \subseteq Nat, IsFiniteSet(Pending'),
         fresh' <= counted' + missed' + Cardinality(Pending')
  PROVE  ExportInv'
<1>1. exporter' \in [Exporters -> ExportJobs] /\ exporter'[e] = job
      /\ \A f \in Exporters \ {e} : exporter'[f] = exporter[f]
  BY DEF ExportInv, JobIs
<1>2. \A f \in Exporters : JobInv(exporter'[f], Held')
  BY <1>1 DEF ExportInv, JobInv
<1>3. QED
  BY <1>1, <1>2 DEF ExportInv

\* A call that goes on, and nothing is counted.
LEMMA GoOnKeepsInv ==
  ASSUME ExportInv, NEW e \in Exporters, NEW job, JobIs(e, job), job.stored = exporter[e].stored,
         JobInv(job, Held'), Held \subseteq Held', ExportsComplete',
         counted' = counted, fresh' = fresh, missed' = missed
  PROVE  ExportInv'
<1>1. Pending' = Pending
  BY PendingSame
<1>2. QED
  BY <1>1, JobKeepsInv DEF ExportInv

LEMMA ExportStartKeepsInv ==
  ASSUME ExportInv, NEW e \in Exporters, NEW op \in {"single", "import", "layer", "model"},
         NEW batch \in Seq(Shards), batch # <<>>, StartExport(e, op, batch)
  PROVE  ExportInv'
<1> DEFINE job == [NotExporting EXCEPT !.pc = "look", !.op = op, !.todo = batch,
                       !.named = ToSet(batch), !.size = Len(batch)]
<1>1. /\ exporter' = [exporter EXCEPT ![e] = job] /\ exporter[e].pc = "idle"
      /\ UNCHANGED <<shards, exports, counted, fresh, missed, erased>>
  BY DEF StartExport, Doing
<1>2. ToSet(batch) \in SUBSET Shards /\ Len(batch) \in Nat
  BY DEF ToSet
<1>3. JobFields(job, "look", op, batch, ToSet(batch), Len(batch), 0, 0)
  BY <1>2, StartedJob
<1> HIDE DEF job
<1>4. JobIs(e, job)
  BY <1>1, <1>3 DEF JobIs, JobFields
<1>5. JobInv(job, Held') /\ job.stored = exporter[e].stored
  <2>1. exporter[e].stored = 0
    BY <1>1 DEF ExportInv, JobInv
  <2>2. QED
    BY <1>2, <1>3, <2>1 DEF JobInv, JobFields
<1>6. ExportsComplete' /\ Held' = Held
  BY <1>1 DEF ExportInv, ExportsComplete, Loadable, Held
<1>7. QED
  BY <1>1, <1>4, <1>5, <1>6, GoOnKeepsInv

\* The last cluster looked at, or put, is done with.
LEMMA AdvanceMoves ==
  ASSUME ExportInv, NEW e \in Exporters, NEW new \in {0, 1}, NEW stored1 \in {0, 1}, stored1 <= new,
         exporter[e].pc \in {"look", "put"}, Advance(e, new, stored1),
         Held \cup {NextShard(e)} \subseteq Held'
  PROVE  \E job : JobIs(e, job) /\ JobInv(job, Held') /\ job.stored = exporter[e].stored + stored1
<1> DEFINE r == exporter[e]
           rest == Tail(r.todo)
           pc == IF rest # <<>> THEN "look" ELSE IF r.op = "model" THEN "manifest" ELSE "count"
           job == [r EXCEPT !.todo = rest, !.pc = pc, !.new = @ + new, !.stored = @ + stored1]
<1>1. r \in ExportJobs /\ JobInv(r, Held) /\ r.todo # <<>>
  BY DEF ExportInv, JobInv
<1>2. exporter' = [exporter EXCEPT ![e] = job]
  BY DEF Advance
<1>3. /\ rest \in Seq(Shards) /\ Len(rest) + 1 = Len(r.todo) /\ Len(rest) \in Nat
      /\ ToSet(r.todo) \subseteq ToSet(rest) \cup {NextShard(e)}
  <2>1. r.todo \in Seq(Shards) /\ r.todo # <<>>
    BY <1>1 DEF ExportJobs
  <2>2. /\ rest \in Seq(Shards) /\ Len(rest) + 1 = Len(r.todo) /\ Len(rest) \in Nat
        /\ \A i \in 1..Len(r.todo) : r.todo[i] = Head(r.todo) \/ \E j \in 1..Len(rest) : rest[j] = r.todo[i]
    <3>1. Len(rest) = Len(r.todo) - 1 /\ Len(r.todo) \in Nat \ {0} /\ rest \in Seq(Shards)
      BY <2>1
    <3>2. \A j \in 1..Len(rest) : rest[j] = r.todo[j + 1]
      BY <2>1
    <3>3. ASSUME NEW i \in 1..Len(r.todo), i # 1
          PROVE  \E j \in 1..Len(rest) : rest[j] = r.todo[i]
      <4>1. i - 1 \in 1..Len(rest) /\ (i - 1) + 1 = i
        BY <3>1, <3>3
      <4>2. QED
        BY <3>2, <4>1
    <3>4. r.todo[1] = Head(r.todo)
      BY <2>1
    <3>5. \A i \in 1..Len(r.todo) : r.todo[i] = Head(r.todo) \/ \E j \in 1..Len(rest) : rest[j] = r.todo[i]
      <4> HIDE DEF rest
      <4> QED BY <3>3, <3>4
    <3>6. Len(rest) + 1 = Len(r.todo) /\ Len(rest) \in Nat
      <4> HIDE DEF rest
      <4> QED BY <3>1
    <3>7. QED
      BY <3>1, <3>5, <3>6
  <2>3. DOMAIN r.todo = 1..Len(r.todo) /\ DOMAIN rest = 1..Len(rest)
    BY <2>1, <2>2
  <2> HIDE DEF rest
  <2>4. ASSUME NEW x \in ToSet(r.todo)
        PROVE  x \in ToSet(rest) \cup {NextShard(e)}
    <3>1. PICK i \in 1..Len(r.todo) : r.todo[i] = x
      BY <2>3 DEF ToSet
    <3>2. QED
      BY <2>2, <2>3, <3>1 DEF ToSet, NextShard
  <2>5. QED
    BY <2>2, <2>4
<1> HIDE DEF rest
<1>4. pc \in {"look", "manifest", "count"} /\ (pc = "look" <=> rest # <<>>)
  OBVIOUS
<1> HIDE DEF pc
<1>5. JobFields(job, pc, r.op, rest, r.named, r.size, r.new + new, r.stored + stored1)
  BY <1>1, <1>3, <1>4, AdvancedJob
<1> HIDE DEF job
<1>6. JobIs(e, job)
  BY <1>2, <1>5 DEF JobIs, JobFields
<1>7. JobInv(job, Held')
  <2>1. r.named \ ToSet(rest) \subseteq Held'
    BY <1>1, <1>3 DEF JobInv
  <2>2. r.stored + stored1 <= r.new + new /\ (r.new + new) + Len(rest) <= r.size
    BY <1>1, <1>3 DEF JobInv, ExportJobs
  <2>3. QED
    BY <1>4, <1>5, <2>1, <2>2 DEF JobInv, JobFields
<1>8. QED
  BY <1>5, <1>6, <1>7 DEF JobFields

\* The batches of one call.
LEMMA BatchesAreSequences ==
  ASSUME NEW batch \in Batches
  PROVE  batch \in Seq(Shards) /\ batch # <<>>
<1>1. batch # <<>> /\ batch \in UNION {[1..m -> Shards] : m \in 0..MaxBatch}
  BY DEF Batches, SeqOf
<1>2. PICK m \in 0..MaxBatch : batch \in [1..m -> Shards]
  BY <1>1
<1>3. m \in Nat
  BY <1>2, ExportAssumption
<1>4. QED
  BY <1>1, <1>2, <1>3

LEMMA LookKeepsInv ==
  ASSUME ExportInv, NEW e \in Exporters, LookForBlob(e)
  PROVE  ExportInv'
<1> USE DEF LookForBlob, Doing
<1>1. /\ Held' = Held /\ UNCHANGED <<counted, fresh, missed>>
      /\ exporter[e] \in ExportJobs /\ JobInv(exporter[e], Held)
      /\ ExportsComplete'
  BY DEF ExportInv, ExportsComplete, Loadable, Held
<1>2. CASE NextShard(e) \in shards
  <2>1. Advance(e, 0, 0)
    BY <1>2
  <2>2. PICK job : JobIs(e, job) /\ JobInv(job, Held') /\ job.stored = exporter[e].stored + 0
    <3>1. exporter[e].pc \in {"look", "put"} /\ Held \cup {NextShard(e)} \subseteq Held'
      BY <1>1, <1>2 DEF Held
    <3>2. 0 \in {0, 1} /\ 0 <= 0
      OBVIOUS
    <3>3. QED
      BY <2>1, <3>1, <3>2, AdvanceMoves
  <2>3. job.stored = exporter[e].stored
    BY <1>1, <2>2 DEF ExportJobs
  <2>4. QED
    BY <1>1, <2>2, <2>3, GoOnKeepsInv
<1>3. CASE NextShard(e) \notin shards
  <2> DEFINE job == [exporter[e] EXCEPT !.pc = "put"]
  <2>1. exporter' = [exporter EXCEPT ![e] = job]
    BY <1>3 DEF ExportInv
  <2>2. /\ job \in ExportJobs /\ job.pc = "put"
        /\ job.todo = exporter[e].todo /\ job.named = exporter[e].named /\ job.size = exporter[e].size
        /\ job.new = exporter[e].new /\ job.stored = exporter[e].stored
    BY <1>1 DEF ExportJobs
  <2> HIDE DEF job
  <2>3. JobIs(e, job) /\ JobInv(job, Held')
    BY <1>1, <2>1, <2>2 DEF JobIs, JobInv
  <2>4. QED
    BY <1>1, <2>2, <2>3, GoOnKeepsInv
<1>4. QED
  BY <1>2, <1>3

LEMMA PutKeepsInv ==
  ASSUME ExportInv, NEW e \in Exporters, PutBlob(e)
  PROVE  ExportInv'
<1> DEFINE new == IF NextShard(e) \in shards THEN 0 ELSE 1
<1>1. /\ exporter[e].pc = "put" /\ fresh' = fresh + new /\ Advance(e, 1, new)
      /\ shards' = shards \cup {NextShard(e)} /\ erased' = erased \ {NextShard(e)}
      /\ UNCHANGED <<exports, counted, missed>>
  BY DEF PutBlob, Doing
<1>2. new \in {0, 1}
  OBVIOUS
<1> HIDE DEF new
<1>3. Held' = Held \cup {NextShard(e)}
  BY <1>1 DEF Held
<1>4. ExportsComplete'
  BY <1>1 DEF ExportInv, ExportsComplete, Loadable
<1>5. PICK job : JobIs(e, job) /\ JobInv(job, Held') /\ job.stored = exporter[e].stored + new
  <2>1. exporter[e].pc \in {"look", "put"} /\ Held \cup {NextShard(e)} \subseteq Held'
    BY <1>1, <1>3
  <2>2. new <= 1 /\ 1 \in {0, 1} /\ Advance(e, 1, new)
    BY <1>1, <1>2
  <2>3. QED
    BY <1>2, <2>1, <2>2, AdvanceMoves
<1>6. exporter[e].stored \in Nat /\ {counted, fresh, missed} \subseteq Nat
      /\ IsFiniteSet(Pending) /\ fresh <= counted + missed + Cardinality(Pending)
      /\ Cardinality(Pending) \in Nat
  BY FS_CardinalityType DEF ExportInv, ExportJobs
<1>7. IsFiniteSet(Pending') /\ Cardinality(Pending') = Cardinality(Pending) + new
  <2>1. CASE new = 0
    <3>1. Pending' = Pending
      BY <1>5, <1>6, <2>1, PendingSame
    <3>2. QED
      BY <1>6, <2>1, <3>1
  <2>2. CASE new = 1
    BY <1>5, <1>6, <2>2, PendingMore
  <2>3. QED
    BY <1>2, <2>1, <2>2
<1>8. /\ {counted', fresh', missed'} \subseteq Nat
      /\ fresh' <= counted' + missed' + Cardinality(Pending')
  BY <1>1, <1>2, <1>6, <1>7
<1>9. QED
  BY <1>3, <1>4, <1>5, <1>7, <1>8, JobKeepsInv

\* A call that ends takes its puts with it, counted or missed.
LEMMA EndsKeepsInv ==
  ASSUME ExportInv, NEW e \in Exporters, exporter' = [exporter EXCEPT ![e] = NotExporting],
         Held' = Held, ExportsComplete', fresh' = fresh, {counted', missed'} \subseteq Nat,
         counted' + missed' >= counted + missed + exporter[e].stored
  PROVE  ExportInv'
<1>1. JobIs(e, NotExporting) /\ NotExporting.stored = 0 /\ JobInv(NotExporting, Held')
  BY NotExportingJob DEF JobIs
<1>2. IsFiniteSet(Pending') /\ Cardinality(Pending) = Cardinality(Pending') + exporter[e].stored
  BY <1>1, PendingEnds
<1>3. Cardinality(Pending') \in Nat /\ exporter[e].stored \in Nat
  BY <1>2, FS_CardinalityType DEF ExportInv, ExportJobs
<1>4. /\ {counted', fresh', missed'} \subseteq Nat
      /\ fresh' <= counted' + missed' + Cardinality(Pending')
  BY <1>2, <1>3 DEF ExportInv
<1>5. QED
  BY <1>1, <1>2, <1>4, JobKeepsInv

LEMMA PutFailsKeepsInv ==
  ASSUME ExportInv, NEW e \in Exporters, PutFails(e)
  PROVE  ExportInv'
<1>1. exporter[e] \in ExportJobs
  BY DEF ExportInv
<1>2. Held' = Held /\ ExportsComplete'
  BY DEF PutFails, Held, ExportInv, ExportsComplete, Loadable
<1>3. {counted', missed'} \subseteq Nat /\ counted' + missed' >= counted + missed + exporter[e].stored
  BY <1>1 DEF PutFails, ExportInv, ExportJobs
<1>4. QED
  BY <1>2, <1>3, EndsKeepsInv DEF PutFails

\* A job counts what it stored, and maybe more.
LEMMA CountsEnough ==
  ASSUME NEW job \in ExportJobs, NEW held, JobInv(job, held)
  PROVE  Counted(job) \in Nat /\ Counted(job) >= job.stored
<1>1. job.stored <= job.new /\ job.new + Len(job.todo) <= job.size
  BY DEF JobInv
<1>2. /\ job.stored \in Nat /\ job.new \in Nat /\ job.size \in Nat
      /\ Len(job.todo) \in Nat
  BY DEF ExportJobs
<1>3. QED
  BY <1>1, <1>2 DEF Counted

LEMMA IncrementKeepsInv ==
  ASSUME ExportInv, NEW e \in Exporters, IncrementModel(e)
  PROVE  ExportInv'
<1>1. exporter[e] \in ExportJobs /\ JobInv(exporter[e], Held)
  BY DEF ExportInv
<1>2. Held' = Held /\ ExportsComplete'
  BY DEF IncrementModel, Held, ExportInv, ExportsComplete, Loadable
<1>3. /\ Counted(exporter[e]) \in Nat /\ Counted(exporter[e]) >= exporter[e].stored
      /\ exporter[e].stored \in Nat
  BY <1>1, CountsEnough DEF ExportJobs
<1>4. {counted', missed'} \subseteq Nat /\ counted' + missed' >= counted + missed + exporter[e].stored
  BY <1>3 DEF IncrementModel, ExportInv
<1>5. QED
  BY <1>2, <1>4, EndsKeepsInv DEF IncrementModel

LEMMA ManifestKeepsInv ==
  ASSUME ExportInv, NEW e \in Exporters, PutManifest(e)
  PROVE  ExportInv'
<1> DEFINE job == [exporter[e] EXCEPT !.pc = "count"]
<1>1. /\ exporter[e] \in ExportJobs /\ JobInv(exporter[e], Held)
      /\ exporter[e].pc = "manifest" /\ Held' = Held
  BY DEF ExportInv, PutManifest, Doing, Held
<1>2. exporter' = [exporter EXCEPT ![e] = job]
  BY DEF ExportInv, PutManifest
<1>3. /\ job \in ExportJobs /\ job.pc = "count"
      /\ job.todo = exporter[e].todo /\ job.named = exporter[e].named /\ job.size = exporter[e].size
      /\ job.new = exporter[e].new /\ job.stored = exporter[e].stored
  BY <1>1 DEF ExportJobs
<1> HIDE DEF job
<1>4. JobIs(e, job) /\ JobInv(job, Held')
  BY <1>1, <1>2, <1>3 DEF JobIs, JobInv
<1>5. exporter[e].named \subseteq Held
  <2>1. exporter[e].todo = <<>>
    BY <1>1 DEF JobInv
  <2>2. ToSet(exporter[e].todo) = {}
    BY <2>1 DEF ToSet
  <2>3. QED
    BY <1>1, <2>2 DEF JobInv
<1>6. ExportsComplete'
  BY <1>5 DEF PutManifest, ExportInv, ExportsComplete, Loadable, Held
<1>7. QED
  BY <1>1, <1>3, <1>4, <1>6, GoOnKeepsInv DEF PutManifest

\* What leaves the jobs and the counts alone.
LEMMA NoJobKeepsInv ==
  ASSUME ExportInv, UNCHANGED <<exporter, counted, fresh, missed, exports>>, Held' = Held, ExportsComplete'
  PROVE  ExportInv'
<1>1. Pending' = Pending
  BY DEF Pending, PendingOf
<1>2. QED
  BY <1>1 DEF ExportInv

LEMMA ExportStepKeepsInv ==
  ASSUME ExportInv, [ExportNext]_exportVars
  PROVE  ExportInv'
<1>1. CASE \E e \in Exporters, x \in Shards : StoreSingle(e, x)
  <2>1. PICK e \in Exporters, x \in Shards : StoreSingle(e, x)
    BY <1>1
  <2>2. <<x>> \in Seq(Shards) /\ <<x>> # <<>>
    OBVIOUS
  <2>3. QED
    BY <2>1, <2>2, ExportStartKeepsInv DEF StoreSingle
<1>2. CASE \E e \in Exporters, batch \in Batches :
             ImportClusters(e, batch) \/ StoreLayerClusters(e, batch) \/ StoreModelLayers(e, batch)
  <2>1. PICK e \in Exporters, batch \in Batches :
          ImportClusters(e, batch) \/ StoreLayerClusters(e, batch) \/ StoreModelLayers(e, batch)
    BY <1>2
  <2>2. batch \in Seq(Shards) /\ batch # <<>>
    BY <2>1, BatchesAreSequences
  <2>3. QED
    BY <2>1, <2>2, ExportStartKeepsInv DEF ImportClusters, StoreLayerClusters, StoreModelLayers
<1>3. CASE \E e \in Exporters : ExportStep(e)
  BY <1>3, LookKeepsInv, PutKeepsInv, PutFailsKeepsInv, ManifestKeepsInv, IncrementKeepsInv DEF ExportStep
<1>4. CASE \E x \in Shards : EraseShard(x)
  <2>1. PICK x \in Shards : EraseShard(x)
    BY <1>4
  <2>2. Held' = Held
    BY <2>1 DEF EraseShard, Held
  <2>3. ExportsComplete'
    BY <2>1 DEF EraseShard, ExportInv, ExportsComplete, Loadable
  <2>4. QED
    BY <2>1, <2>2, <2>3, NoJobKeepsInv DEF EraseShard
<1>5. CASE UNCHANGED exportVars
  <2>1. Held' = Held /\ ExportsComplete'
    BY <1>5 DEF exportVars, Held, ExportInv, ExportsComplete, Loadable
  <2>2. QED
    BY <1>5, <2>1, NoJobKeepsInv DEF exportVars
<1>6. QED
  BY <1>1, <1>2, <1>3, <1>4, <1>5 DEF ExportNext

LEMMA ExportInvAccounts == ExportInv => ExportsAccounted
<1> SUFFICES ASSUME ExportInv
             PROVE  ClustersCounted
  BY DEF ExportInv, ExportsAccounted
<1>1. ASSUME \A e \in Exporters : Doing(e, "idle")
      PROVE  counted >= fresh - missed
  <2>1. \A e \in Exporters : exporter[e].stored = 0
    BY <1>1 DEF Doing, ExportInv, JobInv
  <2>2. Cardinality(Pending) = 0
    BY <2>1, NonePending
  <2>3. QED
    BY <2>2 DEF ExportInv
<1>2. QED
  BY <1>1 DEF ClustersCounted

\* What a model's exports have left behind is whole and counted: every stored
\* manifest names clusters that are there unless they were deleted, and when no
\* call is under way num_clusters is at least what the calls stored, those of
\* the failed ones apart (WeightService's stores over WeightBlobStore::put).
THEOREM ExportsStayAccounted == ExportSpec => []ExportsAccounted
<1>1. ExportInit => ExportInv
  BY ExportInvInit
<1>2. ExportInv /\ [ExportNext]_exportVars => ExportInv'
  BY ExportStepKeepsInv
<1>3. QED
  BY <1>1, <1>2, ExportInvAccounts, PTL DEF ExportSpec

(***************************************************************************)
(* What each component's state looks like, for SideProofs.  The cache first:   *)
(* the times of access order its entries.                                     *)
(***************************************************************************)
WeightCalls == [pc : Steps, op : Ops, id : Clusters \cup {None}, room : Nat,
                counts : [Clusters -> Nat], victims : SUBSET Clusters,
                alone : BOOLEAN, crossed : BOOLEAN]

LastAccessOrder ==
  /\ older \subseteq Cached \X Cached
  /\ \A x, y \in Cached : <<x, y>> \in older <=> x # y /\ <<y, x>> \notin older
  /\ \A p, q \in older : p[2] = q[1] => <<p[1], q[2]>> \in older

EntryTypes ==
  /\ stored \subseteq Clusters /\ promised \subseteq Clusters
  /\ exposed \subseteq Clusters /\ strays \subseteq Clusters
  /\ hot \in [Clusters -> Reasons \cup {Cold}]
  /\ accesses \in [Clusters -> Nat]
  /\ IsFiniteSet(Cached)

WeightTypes == WeightInv /\ EntryTypes /\ LastAccessOrder /\ call \in [Callers -> WeightCalls]

LEMMA WeightTypesImply == WeightTypes => WeightTypeOK
  BY DEF WeightTypes, EntryTypes, LastAccessOrder, WeightCalls, WeightTypeOK

LEMMA IdleTyped == Idle \in WeightCalls /\ NoCounts \in [Clusters -> Nat]
  BY DEF Idle, NoCounts, WeightCalls, Steps, Ops

LEMMA WeightTypesInit == WeightInit => WeightTypes
<1> SUFFICES ASSUME WeightInit PROVE WeightTypes
  OBVIOUS
<1>1. Cached = {} /\ IsFiniteSet(Cached)
  BY FS_EmptySet DEF WeightInit, Cached
<1>2. EntryTypes
  BY <1>1, IdleTyped DEF WeightInit, EntryTypes
<1>3. LastAccessOrder
  BY <1>1 DEF WeightInit, LastAccessOrder
<1>4. call \in [Callers -> WeightCalls]
  BY IdleTyped DEF WeightInit
<1>5. QED
  BY <1>2, <1>3, <1>4, WeightInvInit DEF WeightTypes

LEMMA TouchOrdersAll ==
  ASSUME LastAccessOrder, NEW x \in Clusters, Cached' = Cached \cup {x}, older' = Touch(x)
  PROVE  LastAccessOrder'
<1>1. \A y, z : <<y, z>> \in older' <=>
        \/ <<y, z>> \in older /\ y # x /\ z # x
        \/ z = x /\ y \in Cached \ {x}
  <2>1. \A y, z : <<y, z>> \in Without({x}) <=> <<y, z>> \in older /\ y # x /\ z # x
    BY DEF Without
  <2>2. \A y, z : <<y, z>> \in {<<w, x>> : w \in Cached \ {x}} <=> z = x /\ y \in Cached \ {x}
    OBVIOUS
  <2>3. QED
    BY <2>1, <2>2 DEF Touch
<1>2. \A p \in older' : p = <<p[1], p[2]>>
  BY DEF LastAccessOrder, Touch, Without
<1>3. older' \subseteq Cached' \X Cached'
  <2>1. ASSUME NEW p \in older' PROVE p[1] \in Cached' /\ p[2] \in Cached'
    <3>1. <<p[1], p[2]>> \in older'
      BY <1>2
    <3>2. <<p[1], p[2]>> \in older => p[1] \in Cached /\ p[2] \in Cached
      BY DEF LastAccessOrder
    <3>3. QED
      BY <1>1, <3>1, <3>2
  <2>2. QED
    BY <1>2, <2>1
<1>4. ASSUME NEW y \in Cached', NEW z \in Cached'
      PROVE  <<y, z>> \in older' <=> y # z /\ <<z, y>> \notin older'
  <2>1. CASE y = x \/ z = x
    BY <1>1, <2>1
  <2>2. CASE y # x /\ z # x
    BY <1>1, <2>2 DEF LastAccessOrder
  <2>3. QED
    BY <2>1, <2>2
<1>5. ASSUME NEW p \in older', NEW q \in older', p[2] = q[1]
      PROVE  <<p[1], q[2]>> \in older'
  <2>1. <<p[1], p[2]>> \in older' /\ <<p[2], q[2]>> \in older'
    BY <1>2, <1>5
  <2>2. <<p[1], p[2]>> \in older /\ p[1] # x /\ p[2] # x
    BY <1>1, <2>1
  <2>3. p[1] \in Cached
    BY <2>2 DEF LastAccessOrder
  <2>4. CASE q[2] = x
    BY <1>1, <2>2, <2>3, <2>4
  <2>5. CASE q[2] # x
    <3>1. <<p[2], q[2]>> \in older
      BY <1>1, <2>1, <2>5
    <3>2. \A a, b, c : <<a, b>> \in older /\ <<b, c>> \in older => <<a, c>> \in older
      BY DEF LastAccessOrder
    <3>3. QED
      BY <1>1, <2>2, <2>5, <3>1, <3>2
  <2>6. QED
    BY <2>4, <2>5
<1>6. QED
  BY <1>3, <1>4, <1>5 DEF LastAccessOrder

LEMMA ForgetOrdersAll ==
  ASSUME LastAccessOrder, NEW gone, Cached' = Cached \ gone, older' = Without(gone)
  PROVE  LastAccessOrder'
<1>1. \A y, z : <<y, z>> \in older' <=> <<y, z>> \in older /\ y \notin gone /\ z \notin gone
  BY DEF Without
<1>2. older' \subseteq older
  BY DEF Without
<1>3. \A p \in older' : p = <<p[1], p[2]>> /\ p[1] \in Cached' /\ p[2] \in Cached'
  BY DEF LastAccessOrder, Without
<1>4. ASSUME NEW p \in older', NEW q \in older', p[2] = q[1]
      PROVE  <<p[1], q[2]>> \in older'
  BY <1>1, <1>2, <1>3, <1>4 DEF LastAccessOrder
<1>5. ASSUME NEW y \in Cached', NEW z \in Cached'
      PROVE  <<y, z>> \in older' <=> y # z /\ <<z, y>> \notin older'
  BY <1>1 DEF LastAccessOrder
<1>6. older' \subseteq Cached' \X Cached'
  BY <1>3
<1>7. QED
  BY <1>4, <1>5, <1>6 DEF LastAccessOrder

\* The call goes on, or ends; the others stay.
LEMMA CallGoesOn ==
  ASSUME call \in [Callers -> WeightCalls], NEW c \in Callers,
         Return(c) \/ \E pc \in Steps : GoTo(c, pc)
  PROVE  call' \in [Callers -> WeightCalls]
<1>1. CASE Return(c)
  BY <1>1, IdleTyped DEF Return
<1>2. ASSUME NEW pc \in Steps, GoTo(c, pc)
      PROVE  call' \in [Callers -> WeightCalls]
  BY <1>2 DEF GoTo, WeightCalls
<1>3. QED
  BY <1>1, <1>2

LEMMA BeginTyped ==
  ASSUME call \in [Callers -> WeightCalls], NEW c \in Callers, NEW x \in Clusters,
         NEW op \in Ops, NEW pc \in Steps, Begin(c, op, x, pc)
  PROVE  call' \in [Callers -> WeightCalls]
<1>1. call' = [d \in Callers |->
             IF d = c THEN [Idle EXCEPT !.pc = pc, !.op = op, !.id = x,
                                        !.alone = \A e \in Callers : ~Busy(e),
                                        !.crossed = Crosses(op, x)]
             ELSE IF Busy(d) THEN Met(call[d], op, x) ELSE call[d]]
  BY DEF Begin
<1>2. PICK alone \in BOOLEAN : alone = \A e \in Callers : ~Busy(e)
  OBVIOUS
<1>6. PICK crossed \in BOOLEAN : crossed = Crosses(op, x)
  BY DEF Crosses
<1>3. [Idle EXCEPT !.pc = pc, !.op = op, !.id = x, !.alone = alone, !.crossed = crossed] \in WeightCalls
  BY IdleTyped DEF WeightCalls
<1>4. ASSUME NEW d \in Callers
      PROVE  Met(call[d], op, x) \in WeightCalls
  <2>1. PICK crossed2 \in BOOLEAN :
          crossed2 = (call[d].crossed \/ (call[d].op = "delete" /\ call[d].id = x /\ Caches(op)))
    BY DEF Caches
  <2>2. Met(call[d], op, x) = [call[d] EXCEPT !.alone = FALSE, !.crossed = crossed2]
    BY <2>1 DEF Met, WeightCalls
  <2>3. QED
    BY <2>2 DEF WeightCalls
<1>5. QED
  BY <1>1, <1>2, <1>3, <1>4, <1>6

LEMMA ReasonTyped == \A op \in Ops : ReasonOf(op) \in Reasons
  BY CacheAssumption DEF ReasonOf, Ops, Reasons

\* The cache after a cluster has been dropped, and after one has been entered.
LEMMA ForgetTyped ==
  ASSUME EntryTypes, LastAccessOrder, NEW gone, Forget(gone)
  PROVE  /\ hot' \in [Clusters -> Reasons \cup {Cold}]
         /\ IsFiniteSet(Cached') /\ LastAccessOrder'
<1>1. Cached' = Cached \ gone /\ hot' \in [Clusters -> Reasons \cup {Cold}]
  BY DEF Forget, Cached, EntryTypes
<1>2. IsFiniteSet(Cached')
  BY <1>1, FS_Difference DEF EntryTypes
<1>3. QED
  BY <1>1, <1>2, ForgetOrdersAll DEF Forget

LEMMA InsertTyped ==
  ASSUME WeightTypes, NEW c \in Callers, Insert(c)
  PROVE  EntryTypes' /\ LastAccessOrder' /\ call' \in [Callers -> WeightCalls]
<1> DEFINE x == call[c].id
           reason == ReasonOf(call[c].op)
<1>1. call[c] \in WeightCalls /\ x \in Clusters /\ reason \in Reasons
  BY ReasonTyped DEF WeightTypes, Insert, WeightInv, CallInv, Busy, At, WeightCalls
<1>2. hot' = [hot EXCEPT ![x] = reason] /\ older' = Touch(x)
      /\ UNCHANGED <<stored, accesses, promised, strays>> /\ GoTo(c, "bump")
      /\ (exposed' = exposed \/ exposed' = exposed \cup {x} \/ exposed' = exposed \ {x})
  BY DEF Insert
<1>3. reason # Cold
  BY <1>1 DEF Reasons, Cold
<1> HIDE DEF x, reason
<1>4. Cached' = Cached \cup {x} /\ hot' \in [Clusters -> Reasons \cup {Cold}]
  BY <1>1, <1>2, <1>3 DEF Cached, WeightTypes, EntryTypes
<1>5. IsFiniteSet(Cached')
  BY <1>4, FS_AddElement DEF WeightTypes, EntryTypes
<1>6. EntryTypes'
  BY <1>1, <1>2, <1>4, <1>5 DEF WeightTypes, EntryTypes
<1>7. QED
  BY <1>1, <1>2, <1>4, <1>6, TouchOrdersAll, CallGoesOn DEF WeightTypes, Steps

LEMMA WeightStepTyped ==
  ASSUME WeightTypes, NEW c \in Callers, WeightStep(c)
  PROVE  EntryTypes' /\ LastAccessOrder' /\ call' \in [Callers -> WeightCalls]
<1>0. /\ call \in [Callers -> WeightCalls] /\ EntryTypes /\ LastAccessOrder
      /\ Busy(c) => call[c].id \in Clusters
      /\ {"idle", "count", "hot", "pinned", "fetch", "room", "counts", "victims",
          "drop", "insert", "bump", "check", "remove", "erase"} \subseteq Steps
  BY DEF WeightTypes, WeightInv, CallInv, Steps
<1>1. CASE CountAccess(c) \/ Bump(c)
  <2>1. call[c].id \in Clusters
    BY <1>0, <1>1 DEF CountAccess, Bump, Busy, At
  <2>2. accesses' \in [Clusters -> Nat] /\ Cached' = Cached
    BY <1>0, <1>1 DEF CountAccess, Bump, Count, EntryTypes, Cached
  <2>3. EntryTypes'
    BY <1>0, <1>1, <2>1, <2>2 DEF CountAccess, Bump, EntryTypes
  <2>4. LastAccessOrder'
    BY <1>0, <1>1, <2>2 DEF CountAccess, Bump, LastAccessOrder
  <2>5. QED
    BY <1>0, <1>1, <2>3, <2>4, CallGoesOn DEF CountAccess, Bump
<1>2. CASE LookUp(c)
  <2>1. call[c].id \in Clusters /\ Cached' = Cached
    BY <1>0, <1>2 DEF LookUp, Busy, At, Cached
  <2>2. EntryTypes'
    BY <1>0, <1>2, <2>1 DEF LookUp, EntryTypes
  <2>3. LastAccessOrder'
    <3>1. CASE call[c].id \in Cached
      BY <1>0, <1>2, <2>1, <3>1, TouchOrdersAll DEF LookUp
    <3>2. CASE call[c].id \notin Cached
      BY <1>0, <1>2, <2>1, <3>2 DEF LookUp, LastAccessOrder
    <3>3. QED
      BY <3>1, <3>2
  <2>4. QED
    BY <1>0, <1>2, <2>2, <2>3, CallGoesOn DEF LookUp
<1>3. CASE IsPinned(c) \/ Fetch(c) \/ CheckReason(c)
  <2>1. Cached' = Cached /\ EntryTypes' /\ LastAccessOrder'
    BY <1>0, <1>3 DEF IsPinned, Fetch, CheckReason, Cached, EntryTypes, LastAccessOrder
  <2>2. Return(c) \/ \E pc \in Steps : GoTo(c, pc)
    BY <1>0, <1>3 DEF IsPinned, Fetch, CheckReason
  <2>3. QED
    BY <1>0, <2>1, <2>2, CallGoesOn
<1>4. CASE ReadRoom(c) \/ ReadCounts(c) \/ PickVictims(c)
  <2>1. Cached' = Cached /\ EntryTypes' /\ LastAccessOrder'
    <3>1. UNCHANGED <<stored, hot, older, accesses, promised, exposed, strays>>
      BY <1>4 DEF ReadRoom, ReadCounts, PickVictims
    <3>2. QED
      BY <1>0, <3>1 DEF Cached, EntryTypes, LastAccessOrder
  <2>2. ASSUME ReadRoom(c) PROVE call' \in [Callers -> WeightCalls]
    <3>1. CASE GoTo(c, "insert")
      BY <1>0, <3>1, CallGoesOn
    <3>2. CASE call' = [call EXCEPT ![c].pc = "counts", ![c].room = Cardinality(Cached)]
      <4>1. Cardinality(Cached) \in Nat
        BY <1>0, FS_CardinalityType DEF EntryTypes
      <4>2. QED
        BY <1>0, <3>2, <4>1 DEF WeightCalls
    <3>3. QED
      BY <2>2, <3>1, <3>2 DEF ReadRoom
  <2>3. ASSUME ReadCounts(c) PROVE call' \in [Callers -> WeightCalls]
    <3>1. call' = [call EXCEPT ![c].pc = "victims", ![c].counts = accesses] /\ accesses \in [Clusters -> Nat]
      BY <1>0, <2>3 DEF ReadCounts, EntryTypes
    <3>2. "victims" \in Steps
      BY DEF Steps
    <3> DEFINE t == [call[c] EXCEPT !.pc = "victims", !.counts = accesses]
    <3>3. t \in WeightCalls
      BY <1>0, <3>1, <3>2 DEF WeightCalls
    <3>4. call' = [call EXCEPT ![c] = t]
      BY <1>0, <3>1
    <3> HIDE DEF t
    <3>5. QED
      BY <1>0, <3>3, <3>4
  <2>4. ASSUME PickVictims(c) PROVE call' \in [Callers -> WeightCalls]
    <3>1. PICK chosen : chosen = Coldest(call[c].counts, (call[c].room - CacheCapacity) + 1)
      OBVIOUS
    <3>2. chosen \in SUBSET Clusters
      BY <3>1 DEF Coldest, Candidates, Cached
    <3>3. call' = [call EXCEPT ![c].pc = "drop", ![c].room = 0, ![c].counts = NoCounts, ![c].victims = chosen]
      BY <2>4, <3>1 DEF PickVictims
    <3>4. "drop" \in Steps /\ NoCounts \in [Clusters -> Nat]
      BY IdleTyped DEF Steps
    <3> DEFINE t == [call[c] EXCEPT !.pc = "drop", !.room = 0, !.counts = NoCounts, !.victims = chosen]
    <3>5. t \in WeightCalls
      BY <1>0, <3>2, <3>4 DEF WeightCalls
    <3>6. call' = [call EXCEPT ![c] = t]
      BY <1>0, <3>3
    <3> HIDE DEF t
    <3>7. QED
      BY <1>0, <3>5, <3>6
  <2>5. QED
    BY <1>4, <2>1, <2>2, <2>3, <2>4
<1>5. CASE DropVictims(c)
  <2>1. Forget(call[c].victims) /\ call' = [call EXCEPT ![c].pc = "insert", ![c].victims = {}]
        /\ UNCHANGED <<stored, accesses, promised, exposed, strays>>
    BY <1>5 DEF DropVictims
  <2>2. call' \in [Callers -> WeightCalls]
    BY <1>0, <2>1 DEF WeightCalls
  <2>3. QED
    BY <1>0, <2>1, <2>2, ForgetTyped DEF EntryTypes
<1>6. CASE DropEntry(c)
  <2>1. Forget({call[c].id}) /\ (Return(c) \/ GoTo(c, "erase"))
        /\ UNCHANGED <<stored, accesses, promised, exposed, strays>>
    BY <1>6 DEF DropEntry
  <2>2. call' \in [Callers -> WeightCalls]
    BY <1>0, <2>1, CallGoesOn
  <2>3. QED
    BY <1>0, <2>1, <2>2, ForgetTyped DEF EntryTypes
<1>7. CASE Erase(c)
  <2>1. call[c].id \in Clusters /\ Cached' = Cached
    BY <1>0, <1>7 DEF Erase, Busy, At, Cached
  <2>2. EntryTypes' /\ LastAccessOrder'
    BY <1>0, <1>7, <2>1 DEF Erase, EntryTypes, LastAccessOrder
  <2>3. QED
    BY <1>0, <1>7, <2>2, CallGoesOn DEF Erase
<1>8. QED
  BY <1>1, <1>2, <1>3, <1>4, <1>5, <1>6, <1>7, InsertTyped DEF WeightStep

LEMMA WeightTypesStep == WeightTypes /\ [WeightNext]_weightVars => WeightTypes'
<1> SUFFICES ASSUME WeightTypes, [WeightNext]_weightVars
             PROVE  EntryTypes' /\ LastAccessOrder' /\ call' \in [Callers -> WeightCalls]
  BY WeightInvStep DEF WeightTypes
<1>0. call \in [Callers -> WeightCalls] /\ EntryTypes /\ LastAccessOrder
  BY DEF WeightTypes
<1>1. ASSUME NEW c \in Callers, NEW x \in Clusters, WeightCall(c, x)
      PROVE  EntryTypes' /\ LastAccessOrder' /\ call' \in [Callers -> WeightCalls]
  <2>1. PICK op \in Ops, pc \in {"count", "pinned", "check"} : Begin(c, op, x, pc)
    BY <1>1 DEF Ops, WeightCall, LoadCluster, PinCritical, PrefetchCluster, EvictCluster, DeleteCluster
  <2>2. UNCHANGED <<stored, hot, older, accesses, promised, exposed, strays>>
    BY <2>1 DEF Begin
  <2>3. pc \in Steps
    BY DEF Steps
  <2>4. Cached' = Cached
    BY <2>2 DEF Cached
  <2>5. QED
    BY <1>0, <2>1, <2>2, <2>3, <2>4, BeginTyped DEF EntryTypes, LastAccessOrder
<1>2. ASSUME NEW c \in Callers, WeightStep(c)
      PROVE  EntryTypes' /\ LastAccessOrder' /\ call' \in [Callers -> WeightCalls]
  BY <1>2, WeightStepTyped
<1>3. ASSUME NEW x \in Clusters, StoreCluster(x)
      PROVE  EntryTypes' /\ LastAccessOrder' /\ call' \in [Callers -> WeightCalls]
  BY <1>0, <1>3 DEF StoreCluster, EntryTypes, LastAccessOrder, Cached
<1>4. CASE UNCHANGED weightVars
  BY <1>0, <1>4 DEF weightVars, EntryTypes, LastAccessOrder, Cached
<1>5. QED
  BY <1>1, <1>2, <1>3, <1>4 DEF WeightNext

\* The registry: names and models are those that calls were given, and a model has
\* no more clusters, counted or about to be, than the bound on increments allows.
CallNamed(u) ==
  /\ ~ In(u, {"idle"}) => user[u].name \in Names /\ (user[u].op # "lookup" => user[u].model \in Models)
  /\ In(u, {"rename", "renameWaits", "count", "countWaits"}) => user[u].model \in DOMAIN models
  /\ user[u].op = "increment" <=> In(u, {"count", "countWaits"})

RegistryNamed ==
  /\ DOMAIN models \subseteq Models /\ DOMAIN byName \subseteq Names
  /\ \A m \in DOMAIN models : models[m].name \in Names
  /\ \A u \in Users : CallNamed(u)

Increments == {u \in Users : user[u].op = "increment"}
IncrementsOf(m) == {u \in Increments : user[u].model = m}

CountsBounded ==
  /\ IsFiniteSet(Increments)
  /\ \A m \in DOMAIN models : models[m].clusters + Cardinality(IncrementsOf(m)) <= MaxClusters

RegistryTypes == RegistryInv /\ RegistryNamed /\ CountsBounded

LEMMA IncrementsFinite ==
  ASSUME IsFiniteSet(Increments), NEW m
  PROVE  /\ IsFiniteSet(IncrementsOf(m)) /\ Cardinality(IncrementsOf(m)) \in Nat
         /\ Cardinality(IncrementsOf(m)) <= Cardinality(Increments) /\ Cardinality(Increments) \in Nat
<1>1. IncrementsOf(m) \subseteq Increments
  BY DEF IncrementsOf
<1>2. QED
  BY <1>1, FS_Subset, FS_CardinalityType

LEMMA RegistryTypesImply == RegistryTypes => RegistryTypeOK
<1> SUFFICES ASSUME RegistryTypes, NEW m \in DOMAIN models PROVE models[m].clusters \in 0..MaxClusters
  BY DEF RegistryTypes, RegistryNamed, RegistryTypeOK
<1>1. models[m].clusters \in Nat
  BY DEF RegistryTypes, RegistryInv
<1>2. Cardinality(IncrementsOf(m)) \in Nat
  BY IncrementsFinite DEF RegistryTypes, CountsBounded
<1>3. models[m].clusters + Cardinality(IncrementsOf(m)) <= MaxClusters
  BY DEF RegistryTypes, CountsBounded
<1>4. QED
  BY <1>1, <1>2, <1>3, RegistryAssumption

LEMMA RegistryTypesInit == RegistryInit => RegistryTypes
<1> SUFFICES ASSUME RegistryInit PROVE RegistryTypes
  OBVIOUS
<1>1. Increments = {}
  BY DEF RegistryInit, Increments, Resting
<1>2. DOMAIN models = {} /\ DOMAIN byName = {}
  BY DEF RegistryInit
<1>3. RegistryNamed
  BY <1>2 DEF RegistryInit, RegistryNamed, CallNamed, In, Resting
<1>4. CountsBounded
  BY <1>1, <1>2, FS_EmptySet DEF CountsBounded
<1>5. QED
  BY <1>3, <1>4, RegistryInvInit DEF RegistryTypes

\* No new increment: what is bounded stays bounded.
LEMMA FewerIncrements ==
  ASSUME RegistryTypes, NEW u \in Users, models' = models,
         \A v \in Users \ {u} : user'[v] = user[v],
         user'[u].op = "increment" => user[u].op = "increment" /\ user'[u].model = user[u].model
  PROVE  CountsBounded'
<1>1. Increments' \subseteq Increments /\ \A m : IncrementsOf(m)' \subseteq IncrementsOf(m)
  BY DEF Increments, IncrementsOf
<1>2. IsFiniteSet(Increments')
  BY <1>1, FS_Subset DEF RegistryTypes, CountsBounded
<1>3. ASSUME NEW m \in DOMAIN models'
      PROVE  models'[m].clusters + Cardinality(IncrementsOf(m)') <= MaxClusters
  <2>1. /\ Cardinality(IncrementsOf(m)') <= Cardinality(IncrementsOf(m))
        /\ Cardinality(IncrementsOf(m)') \in Nat /\ Cardinality(IncrementsOf(m)) \in Nat
    BY <1>1, IncrementsFinite, FS_Subset, FS_CardinalityType DEF RegistryTypes, CountsBounded
  <2>2. models[m].clusters \in Nat /\ models[m].clusters + Cardinality(IncrementsOf(m)) <= MaxClusters
    BY <1>3 DEF RegistryTypes, RegistryInv, CountsBounded
  <2>3. QED
    BY <2>1, <2>2, RegistryAssumption
<1>4. QED
  BY <1>2, <1>3 DEF CountsBounded

LEMMA MoveNamed ==
  ASSUME RegistryTypes, NEW u \in Users, NEW pc \in RegistryPlaces \ {"idle"}, Move(u, pc), ~ In(u, {"idle"}),
         models' = models, byName' = byName,
         pc \in {"rename", "renameWaits"} => user[u].model \in DOMAIN models,
         pc \in {"count", "countWaits"} <=> In(u, {"count", "countWaits"})
  PROVE  RegistryNamed' /\ CountsBounded'
<1>1. user' = [user EXCEPT ![u] = [user[u] EXCEPT !.pc = pc]] /\ user \in [Users -> UserType]
  BY DEF Move, RegistryTypes, RegistryInv
<1>2. /\ user'[u] = [user[u] EXCEPT !.pc = pc] /\ user[u] \in UserType
      /\ \A v \in Users \ {u} : user'[v] = user[v]
  BY <1>1
<1>3. /\ user'[u].pc = pc /\ user'[u].op = user[u].op
      /\ user'[u].name = user[u].name /\ user'[u].model = user[u].model
  BY <1>2 DEF UserType
<1>4. CallNamed(u)'
  BY <1>3 DEF RegistryTypes, RegistryNamed, CallNamed, In
<1>5. \A v \in Users \ {u} : CallNamed(v)'
  BY <1>2 DEF RegistryTypes, RegistryNamed, CallNamed, In
<1>6. RegistryNamed'
  BY <1>4, <1>5 DEF RegistryTypes, RegistryNamed
<1>7. QED
  BY <1>2, <1>3, <1>6, FewerIncrements

LEMMA FinishNamed ==
  ASSUME RegistryTypes, NEW u \in Users, Finish(u), models' = models, DOMAIN byName' \subseteq Names
  PROVE  RegistryNamed' /\ CountsBounded'
<1>1. user'[u] = Resting /\ \A v \in Users \ {u} : user'[v] = user[v]
  BY DEF Finish, RegistryTypes, RegistryInv
<1>2. \A v \in Users \ {u} : CallNamed(v)'
  BY <1>1 DEF RegistryTypes, RegistryNamed, CallNamed, In
<1>3. CallNamed(u)'
  BY <1>1 DEF CallNamed, In, Resting
<1>4. RegistryNamed'
  BY <1>2, <1>3 DEF RegistryTypes, RegistryNamed
<1>5. QED
  BY <1>1, <1>4, FewerIncrements DEF Resting

LEMMA InsertNamed ==
  ASSUME RegistryTypes, NEW u \in Users, Inserting(u), Move(u, "name"), byName' = byName,
         models' = With(models, user[u].model, [name |-> user[u].name, clusters |-> 0])
  PROVE  RegistryNamed' /\ CountsBounded'
<1> DEFINE m == user[u].model
           n == user[u].name
<1>1. user' = [user EXCEPT ![u] = [user[u] EXCEPT !.pc = "name"]] /\ user \in [Users -> UserType]
  BY DEF Move, RegistryTypes, RegistryInv
<1>2. /\ user'[u] = [user[u] EXCEPT !.pc = "name"] /\ user[u] \in UserType
      /\ \A v \in Users \ {u} : user'[v] = user[v]
  BY <1>1
<1>3. /\ user'[u].pc = "name" /\ user'[u].op = user[u].op
      /\ user'[u].name = user[u].name /\ user'[u].model = user[u].model
  BY <1>2 DEF UserType
<1>4. m \in Models /\ n \in Names /\ user[u].op # "increment"
  BY DEF RegistryTypes, RegistryNamed, CallNamed, RegistryInv, UserInv, Inserting, In
<1>5. /\ DOMAIN models' = DOMAIN models \cup {m}
      /\ models'[m] = [name |-> n, clusters |-> 0]
      /\ \A k \in DOMAIN models \ {m} : models'[k] = models[k]
  BY DEF With
<1>6. CallNamed(u)'
  BY <1>3, <1>4 DEF CallNamed, In
<1>7. \A v \in Users \ {u} : CallNamed(v)'
  BY <1>2, <1>5 DEF RegistryTypes, RegistryNamed, CallNamed, In
<1>8. RegistryNamed'
  BY <1>4, <1>5, <1>6, <1>7 DEF RegistryTypes, RegistryNamed
<1>9. Increments' = Increments /\ \A k : IncrementsOf(k)' = IncrementsOf(k)
  <2>1. \A v \in Users : user'[v].op = user[v].op /\ user'[v].model = user[v].model
    BY <1>2, <1>3
  <2>2. QED
    BY <2>1 DEF Increments, IncrementsOf
<1>10. ASSUME NEW k \in DOMAIN models'
       PROVE  models'[k].clusters + Cardinality(IncrementsOf(k)) <= MaxClusters
  <2>1. Cardinality(IncrementsOf(k)) \in Nat
    BY IncrementsFinite DEF RegistryTypes, CountsBounded
  <2>2. k \in DOMAIN models =>
          models[k].clusters \in Nat /\ models[k].clusters + Cardinality(IncrementsOf(k)) <= MaxClusters
    BY DEF RegistryTypes, RegistryInv, CountsBounded
  <2>3. CASE k # m
    BY <1>5, <2>2, <2>3
  <2>4. CASE k = m /\ k \in DOMAIN models
    BY <1>5, <2>1, <2>2, <2>4, RegistryAssumption
  <2>5. CASE k = m /\ k \notin DOMAIN models
    <3>1. IncrementsOf(k) = {}
      BY <2>5 DEF IncrementsOf, Increments, RegistryTypes, RegistryNamed, CallNamed, In
    <3>2. QED
      BY <1>5, <2>5, <3>1, FS_EmptySet, RegistryAssumption
  <2>6. QED
    BY <1>5, <2>3, <2>4, <2>5
<1>11. QED
  BY <1>8, <1>9, <1>10 DEF CountsBounded, RegistryTypes

LEMMA CountNamed ==
  ASSUME RegistryTypes, NEW u \in Users, In(u, {"count", "countWaits"}), Finish(u), byName' = byName,
         models' = [models EXCEPT ![user[u].model].clusters = @ + 1]
  PROVE  RegistryNamed' /\ CountsBounded'
<1> DEFINE m == user[u].model
<1>1. user'[u] = Resting /\ \A v \in Users \ {u} : user'[v] = user[v]
  BY DEF Finish, RegistryTypes, RegistryInv
<1>2. /\ u \in IncrementsOf(m) /\ m \in DOMAIN models
  BY DEF RegistryTypes, RegistryNamed, CallNamed, Increments, IncrementsOf, In
<1>3. /\ DOMAIN models' = DOMAIN models
      /\ \A k \in DOMAIN models \ {m} : models'[k] = models[k]
      /\ models'[m].clusters = models[m].clusters + 1 /\ models'[m].name = models[m].name
      /\ \A k \in DOMAIN models : models[k].clusters \in Nat
  <2>1. \A k \in DOMAIN models : models[k] \in [name : Names \cup {"none"}, clusters : Nat]
    BY DEF RegistryTypes, RegistryInv
  <2>2. models' = [models EXCEPT ![m] = [models[m] EXCEPT !.clusters = models[m].clusters + 1]]
    OBVIOUS
  <2>3. DOMAIN models' = DOMAIN models /\ \A k \in DOMAIN models \ {m} : models'[k] = models[k]
    BY <2>2
  <2>4. models'[m] = [models[m] EXCEPT !.clusters = models[m].clusters + 1]
    BY <1>2, <2>2
  <2>5. models'[m].clusters = models[m].clusters + 1 /\ models'[m].name = models[m].name
    BY <1>2, <2>1, <2>4
  <2>6. QED
    BY <2>1, <2>3, <2>5
<1>4. CallNamed(u)'
  BY <1>1 DEF CallNamed, In, Resting
<1>5. \A v \in Users \ {u} : CallNamed(v)'
  BY <1>1, <1>3 DEF RegistryTypes, RegistryNamed, CallNamed, In
<1>6. RegistryNamed'
  BY <1>3, <1>4, <1>5 DEF RegistryTypes, RegistryNamed
<1>7. Increments' = Increments \ {u} /\ \A k : IncrementsOf(k)' = IncrementsOf(k) \ {u}
  BY <1>1 DEF Increments, IncrementsOf, Resting
<1>8. IsFiniteSet(Increments')
  BY <1>7, FS_RemoveElement DEF RegistryTypes, CountsBounded
<1>9. ASSUME NEW k \in DOMAIN models'
      PROVE  models'[k].clusters + Cardinality(IncrementsOf(k)') <= MaxClusters
  <2>1. IsFiniteSet(IncrementsOf(k)) /\ Cardinality(IncrementsOf(k)) \in Nat
    BY IncrementsFinite DEF RegistryTypes, CountsBounded
  <2>2. models[k].clusters \in Nat /\ models[k].clusters + Cardinality(IncrementsOf(k)) <= MaxClusters
    BY <1>2, <1>3, <1>9 DEF RegistryTypes, CountsBounded
  <2>3. CASE k = m
    <3>1. Cardinality(IncrementsOf(k)') = Cardinality(IncrementsOf(k)) - 1
      BY <1>2, <1>7, <2>1, <2>3, FS_RemoveElement
    <3>2. QED
      BY <1>3, <2>1, <2>2, <2>3, <3>1, RegistryAssumption
  <2>4. CASE k # m
    <3>1. IncrementsOf(k)' = IncrementsOf(k)
      BY <1>7, <2>4 DEF IncrementsOf
    <3>2. QED
      BY <1>3, <1>9, <2>2, <2>4, <3>1
  <2>5. QED
    BY <2>3, <2>4
<1>10. QED
  BY <1>6, <1>8, <1>9 DEF CountsBounded

LEMMA CallNamedStep ==
  ASSUME RegistryTypes, NEW u \in Users, RegistryCall(u)
  PROVE  RegistryNamed' /\ CountsBounded'
<1>1. ASSUME NEW op \in RegistryOps, NEW n \in Names, NEW m, NEW pc \in {"find", "known", "count"},
             Call(u, op, n, m, pc),
             op # "lookup" => m \in Models,
             op = "increment" <=> pc = "count",
             op = "increment" =>
               /\ m \in DOMAIN models
               /\ models[m].clusters + Cardinality(Increments) < MaxClusters
      PROVE  RegistryNamed' /\ CountsBounded'
  <2>1. /\ user'[u] = [pc |-> pc, op |-> op, name |-> n, model |-> m]
        /\ \A v \in Users \ {u} : user'[v] = user[v]
        /\ models' = models /\ byName' = byName /\ In(u, {"idle"})
    BY <1>1 DEF Call, RegistryTypes, RegistryInv
  <2>2. CallNamed(u)'
    BY <1>1, <2>1 DEF CallNamed, In
  <2>3. \A v \in Users \ {u} : CallNamed(v)'
    BY <2>1 DEF RegistryTypes, RegistryNamed, CallNamed, In
  <2>4. RegistryNamed'
    BY <2>1, <2>2, <2>3 DEF RegistryTypes, RegistryNamed
  <2>5. CASE op # "increment"
    BY <2>1, <2>4, <2>5, FewerIncrements
  <2>6. CASE op = "increment"
    <3>1. u \notin Increments
      BY <2>1 DEF Increments, RegistryTypes, RegistryNamed, CallNamed, In
    <3>2. Increments' = Increments \cup {u} /\ IsFiniteSet(Increments)
      BY <2>1, <2>6 DEF Increments, RegistryTypes, CountsBounded
    <3>3. IsFiniteSet(Increments') /\ Cardinality(Increments') = Cardinality(Increments) + 1
      BY <3>1, <3>2, FS_AddElement
    <3>4. ASSUME NEW k \in DOMAIN models'
          PROVE  models'[k].clusters + Cardinality(IncrementsOf(k)') <= MaxClusters
      <4>1. models[k].clusters \in Nat /\ models[k].clusters + Cardinality(IncrementsOf(k)) <= MaxClusters
        BY <2>1, <3>4 DEF RegistryTypes, RegistryInv, CountsBounded
      <4>2. CASE k = m
        <5>1. IncrementsOf(k)' \subseteq Increments'
          BY DEF IncrementsOf
        <5>2. Cardinality(IncrementsOf(k)') <= Cardinality(Increments') /\ Cardinality(IncrementsOf(k)') \in Nat
          BY <3>3, <5>1, FS_Subset, FS_CardinalityType
        <5>3. Cardinality(Increments) \in Nat
          BY <3>2, FS_CardinalityType
        <5>4. QED
          BY <1>1, <2>1, <2>6, <3>3, <4>1, <4>2, <5>2, <5>3, RegistryAssumption
      <4>3. CASE k # m
        <5>1. IncrementsOf(k)' = IncrementsOf(k)
          <6>1. user'[u].model = m
            BY <2>1
          <6>2. ASSUME NEW v PROVE v \in IncrementsOf(k)' <=> v \in IncrementsOf(k)
            <7>1. CASE v = u
              BY <3>1, <4>3, <6>1, <7>1 DEF IncrementsOf
            <7>2. CASE v # u
              <8>1. v \in Increments' <=> v \in Increments
                BY <3>2, <7>2
              <8>2. v \in Increments => user'[v] = user[v]
                BY <2>1, <7>2 DEF Increments
              <8>3. QED
                BY <8>1, <8>2 DEF IncrementsOf
            <7>3. QED
              BY <7>1, <7>2
          <6>3. QED
            BY <6>2
        <5>2. QED
          BY <2>1, <4>1, <5>1
      <4>4. QED
        BY <4>2, <4>3
    <3>5. QED
      BY <2>4, <3>3, <3>4 DEF CountsBounded
  <2>7. QED
    BY <2>5, <2>6
<1>2. ASSUME NEW n \in Names, GetModelByName(u, n)
      PROVE  RegistryNamed' /\ CountsBounded'
  BY <1>1, <1>2 DEF GetModelByName, RegistryOps
<1>3. ASSUME NEW n \in Names, EnsureModel(u, n)
      PROVE  RegistryNamed' /\ CountsBounded'
  BY <1>1, <1>3 DEF EnsureModel, RegistryOps
<1>4. ASSUME NEW n \in Names, NEW m \in Models, RegisterModel(u, n, m)
      PROVE  RegistryNamed' /\ CountsBounded'
  BY <1>1, <1>4 DEF RegisterModel, RegistryOps
<1>5. ASSUME NEW m \in Models, IncrementClusters(u, m)
      PROVE  RegistryNamed' /\ CountsBounded'
  <2>1. models[m].name \in Names /\ m \in DOMAIN models
        /\ models[m].clusters + Cardinality(Increments) < MaxClusters
    BY <1>5 DEF IncrementClusters, RegistryTypes, RegistryNamed, Increments
  <2>2. QED
    BY <1>1, <1>5, <2>1 DEF IncrementClusters, RegistryOps
<1>6. QED
  BY <1>2, <1>3, <1>4, <1>5 DEF RegistryCall

LEMMA WriteNamed ==
  ASSUME RegistryTypes, NEW u \in Users,
         InsertModel(u) \/ NameModel(u) \/ RenameModel(u) \/ CountClusters(u)
  PROVE  RegistryNamed' /\ CountsBounded'
<1>0. /\ RegistryNamed /\ CallNamed(u)
      /\ {"insert", "insertWaits", "name", "nameWaits", "rename", "renameWaits", "count", "countWaits"}
           \subseteq RegistryPlaces \ {"idle"}
  BY DEF RegistryTypes, RegistryNamed, RegistryPlaces
<1>1. CASE InsertModel(u)
  <2>1. CASE Move(u, "insertWaits") /\ In(u, {"insert"}) /\ models' = models /\ byName' = byName
    BY <1>0, <2>1, MoveNamed DEF In
  <2>2. CASE /\ In(u, {"insert", "insertWaits"}) /\ Move(u, "name") /\ byName' = byName
             /\ models' = With(models, user[u].model, [name |-> user[u].name, clusters |-> 0])
    BY <2>2, InsertNamed DEF Inserting
  <2>3. QED
    BY <1>1, <2>1, <2>2 DEF InsertModel, MayWrite
<1>2. CASE NameModel(u)
  <2>1. CASE Move(u, "nameWaits") /\ In(u, {"name"}) /\ models' = models /\ byName' = byName
    BY <1>0, <2>1, MoveNamed DEF In
  <2>2. CASE /\ In(u, {"name", "nameWaits"}) /\ Finish(u) /\ models' = models
             /\ byName' = With(byName, user[u].name, user[u].model)
    <3>1. user[u].name \in Names
      BY <1>0, <2>2 DEF CallNamed, In
    <3>2. DOMAIN byName' \subseteq Names
      BY <1>0, <2>2, <3>1 DEF With, RegistryNamed
    <3>3. QED
      BY <2>2, <3>2, FinishNamed
  <2>3. QED
    BY <1>2, <2>1, <2>2 DEF NameModel, MayWrite
<1>3. CASE RenameModel(u)
  <2>1. CASE Move(u, "renameWaits") /\ In(u, {"rename"}) /\ models' = models /\ byName' = byName
    <3>1. user[u].model \in DOMAIN models
      BY <1>0, <2>1 DEF CallNamed, In
    <3>2. QED
      BY <1>0, <2>1, <3>1, MoveNamed DEF In
  <2>2. CASE /\ In(u, {"rename", "renameWaits"}) /\ Finish(u) /\ models' = models
             /\ byName' = With(With(byName, models[user[u].model].name, user[u].model), user[u].name, user[u].model)
    <3>1. user[u].name \in Names /\ models[user[u].model].name \in Names
      BY <1>0, <2>2 DEF CallNamed, In, RegistryNamed
    <3>2. DOMAIN byName' \subseteq Names
      BY <1>0, <2>2, <3>1 DEF With, RegistryNamed
    <3>3. QED
      BY <2>2, <3>2, FinishNamed
  <2>3. QED
    BY <1>3, <2>1, <2>2 DEF RenameModel, MayWrite
<1>4. CASE CountClusters(u)
  <2>1. CASE Move(u, "countWaits") /\ In(u, {"count"}) /\ models' = models /\ byName' = byName
    BY <1>0, <2>1, MoveNamed DEF In
  <2>2. CASE /\ In(u, {"count", "countWaits"}) /\ Finish(u) /\ byName' = byName
             /\ models' = [models EXCEPT ![user[u].model].clusters = @ + 1]
    BY <2>2, CountNamed
  <2>3. QED
    BY <1>4, <2>1, <2>2 DEF CountClusters, MayWrite
<1>5. QED
  BY <1>1, <1>2, <1>3, <1>4

LEMMA RegistryTypesStep == RegistryTypes /\ [RegistryNext]_registryVars => RegistryTypes'
<1> SUFFICES ASSUME RegistryTypes, [RegistryNext]_registryVars PROVE RegistryNamed' /\ CountsBounded'
  BY RegistryInvStep DEF RegistryTypes
<1>1. ASSUME NEW u \in Users, Find(u) \/ ResolveModel(u) \/ Known(u)
      PROVE  RegistryNamed' /\ CountsBounded'
  <2>1. models' = models /\ byName' = byName /\ In(u, {"find", "found", "known"})
    BY <1>1 DEF Find, ResolveModel, Known, In
  <2>2. \/ Finish(u) \/ Move(u, "found") \/ Move(u, "insert")
        \/ Move(u, "rename") /\ user[u].model \in DOMAIN models
    BY <1>1 DEF Find, ResolveModel, Known
  <2>3. DOMAIN byName' \subseteq Names
    BY <2>1 DEF RegistryTypes, RegistryNamed
  <2>4. {"found", "insert", "rename"} \subseteq RegistryPlaces \ {"idle"}
    BY DEF RegistryPlaces
  <2>5. QED
    BY <2>1, <2>2, <2>3, <2>4, FinishNamed, MoveNamed DEF In
<1>2. CASE UNCHANGED registryVars
  BY <1>2 DEF registryVars, RegistryTypes, RegistryNamed, CallNamed, CountsBounded, Increments, IncrementsOf, In
<1>3. QED
  BY <1>1, <1>2, CallNamedStep, WriteNamed DEF RegistryNext, RegistryStep

\* The exports: no call has more clusters left than one call may bring.
ExportTypes ==
  /\ ExportInv /\ calls \in Nat
  /\ shards \subseteq Shards /\ erased \subseteq Shards /\ exports \subseteq SUBSET Shards
  /\ \A e \in Exporters : Len(exporter[e].todo) <= MaxBatch

LEMMA BatchLength ==
  ASSUME NEW s
  PROVE  s \in SeqOf(Shards, MaxBatch) <=> s \in Seq(Shards) /\ Len(s) <= MaxBatch
<1>1. MaxBatch \in Nat
  BY ExportAssumption
<1>2. ASSUME s \in SeqOf(Shards, MaxBatch)
      PROVE  s \in Seq(Shards) /\ Len(s) <= MaxBatch
  <2>1. PICK m \in 0..MaxBatch : s \in [1..m -> Shards]
    BY <1>2, Zenon DEF SeqOf
  <2>2. m \in Nat /\ m <= MaxBatch
    BY <1>1, <2>1
  <2>3. s \in Seq(Shards) /\ Len(s) = m
    BY <2>1, <2>2
  <2>4. QED
    BY <2>2, <2>3
<1>3. ASSUME s \in Seq(Shards), Len(s) <= MaxBatch
      PROVE  s \in SeqOf(Shards, MaxBatch)
  <2>1. s \in [1..Len(s) -> Shards] /\ Len(s) \in 0..MaxBatch
    BY <1>1, <1>3
  <2>2. QED
    BY <2>1, Zenon DEF SeqOf
<1>4. QED
  BY <1>2, <1>3

LEMMA ExportTypesImply == ExportTypes => ExportTypeOK
<1> SUFFICES ASSUME ExportTypes PROVE ExportTypeOK
  OBVIOUS
<1>1. \A e \in Exporters : exporter[e].todo \in Seq(Shards) /\ Len(exporter[e].todo) <= MaxBatch
  BY DEF ExportTypes, ExportInv, ExportJobs
<1>2. \A e \in Exporters : exporter[e].todo \in SeqOf(Shards, MaxBatch)
  BY <1>1, BatchLength
<1>3. {counted, calls, fresh, missed} \subseteq Nat
  BY DEF ExportTypes, ExportInv
<1>4. QED
  BY <1>2, <1>3 DEF ExportTypes, ExportTypeOK

LEMMA ExportTypesInit == ExportInit => ExportTypes
<1> SUFFICES ASSUME ExportInit PROVE ExportTypes
  OBVIOUS
<1>1. ExportInv
  BY ExportInvInit
<1>2. \A e \in Exporters : exporter[e].todo = <<>>
  BY DEF ExportInit, NotExporting
<1>3. Len(<<>>) <= MaxBatch
  BY ExportAssumption
<1>4. \A e \in Exporters : Len(exporter[e].todo) <= MaxBatch
  BY <1>2, <1>3
<1>5. QED
  BY <1>1, <1>4 DEF ExportInit, ExportTypes

\* What is left to do, when one exporter's job is replaced.
LEMMA TodoKept ==
  ASSUME ExportTypes, NEW e \in Exporters, NEW job, exporter' = [exporter EXCEPT ![e] = job],
         Len(job.todo) <= MaxBatch
  PROVE  \A f \in Exporters : Len(exporter'[f].todo) <= MaxBatch
<1>1. exporter'[e] = job /\ \A f \in Exporters \ {e} : exporter'[f] = exporter[f]
  BY DEF ExportTypes, ExportInv
<1>2. QED
  BY <1>1 DEF ExportTypes

LEMMA StartTodo ==
  ASSUME ExportTypes, NEW e \in Exporters, NEW op, NEW batch \in Seq(Shards), Len(batch) <= MaxBatch,
         StartExport(e, op, batch)
  PROVE  \A f \in Exporters : Len(exporter'[f].todo) <= MaxBatch
<1> DEFINE job == [NotExporting EXCEPT !.pc = "look", !.op = op, !.todo = batch,
                       !.named = ToSet(batch), !.size = Len(batch)]
<1>1. job.todo = batch
  BY DEF NotExporting
<1>2. exporter' = [exporter EXCEPT ![e] = job]
  BY DEF StartExport
<1> HIDE DEF job
<1>3. QED
  BY <1>1, <1>2, TodoKept

LEMMA NotExportingTodo == Len(NotExporting.todo) <= MaxBatch
<1>1. NotExporting.todo = <<>>
  BY DEF NotExporting
<1>2. QED
  BY <1>1, ExportAssumption

LEMMA AdvanceTodo ==
  ASSUME ExportTypes, NEW e \in Exporters, NEW new, NEW stored1, Advance(e, new, stored1),
         exporter[e].pc \in {"look", "put"}
  PROVE  \A f \in Exporters : Len(exporter'[f].todo) <= MaxBatch
<1> DEFINE r == exporter[e]
           rest == Tail(r.todo)
           pc == IF rest # <<>> THEN "look" ELSE IF r.op = "model" THEN "manifest" ELSE "count"
           job == [r EXCEPT !.todo = rest, !.pc = pc, !.new = @ + new, !.stored = @ + stored1]
<1>1. /\ r \in ExportJobs /\ r.todo \in Seq(Shards) /\ r.todo # <<>> /\ Len(r.todo) <= MaxBatch
      /\ exporter' = [exporter EXCEPT ![e] = job]
  BY DEF ExportTypes, ExportInv, JobInv, ExportJobs, Advance
<1>2. Len(rest) = Len(r.todo) - 1 /\ Len(r.todo) \in Nat
  BY <1>1
<1> HIDE DEF rest, pc
<1>3. job.todo = rest
  BY <1>1 DEF ExportJobs
<1> HIDE DEF job
<1>4. Len(job.todo) <= MaxBatch
  BY <1>1, <1>2, <1>3, ExportAssumption
<1>5. QED
  BY <1>1, <1>4, TodoKept

LEMMA PcTodo ==
  ASSUME ExportTypes, NEW e \in Exporters, NEW pc, exporter' = [exporter EXCEPT ![e].pc = pc]
  PROVE  \A f \in Exporters : Len(exporter'[f].todo) <= MaxBatch
<1> DEFINE job == [exporter[e] EXCEPT !.pc = pc]
<1>1. exporter[e] \in ExportJobs /\ exporter' = [exporter EXCEPT ![e] = job]
  BY DEF ExportTypes, ExportInv
<1>2. job.todo = exporter[e].todo
  BY <1>1 DEF ExportJobs
<1> HIDE DEF job
<1>3. QED
  BY <1>1, <1>2, TodoKept DEF ExportTypes

LEMMA ExportTypesStep == ExportTypes /\ [ExportNext]_exportVars => ExportTypes'
<1> SUFFICES ASSUME ExportTypes, [ExportNext]_exportVars PROVE ExportTypes'
  OBVIOUS
<1>0. ExportInv'
  BY ExportStepKeepsInv DEF ExportTypes
<1> DEFINE Rest == /\ calls' \in Nat
                   /\ shards' \subseteq Shards /\ erased' \subseteq Shards /\ exports' \subseteq SUBSET Shards
                   /\ \A e \in Exporters : Len(exporter'[e].todo) <= MaxBatch
<1>1. ASSUME NEW e \in Exporters, NEW op, NEW batch \in Seq(Shards), Len(batch) <= MaxBatch,
             StartExport(e, op, batch)
      PROVE  Rest
  <2>1. calls' \in Nat /\ UNCHANGED <<shards, erased, exports>>
    BY <1>1 DEF StartExport, ExportTypes
  <2>2. QED
    BY <1>1, <2>1, StartTodo DEF ExportTypes
<1>2. ASSUME NEW e \in Exporters, NEW x \in Shards, StoreSingle(e, x) PROVE Rest
  <2>1. <<x>> \in Seq(Shards) /\ Len(<<x>>) <= MaxBatch
    BY ExportAssumption
  <2>2. QED
    BY <1>1, <1>2, <2>1 DEF StoreSingle
<1>3. ASSUME NEW e \in Exporters, NEW batch \in Batches,
             ImportClusters(e, batch) \/ StoreLayerClusters(e, batch) \/ StoreModelLayers(e, batch)
      PROVE  Rest
  <2>1. batch \in Seq(Shards) /\ Len(batch) <= MaxBatch
    BY BatchLength DEF Batches
  <2>2. QED
    BY <1>1, <1>3, <2>1 DEF ImportClusters, StoreLayerClusters, StoreModelLayers
<1>4. ASSUME NEW e \in Exporters, LookForBlob(e) PROVE Rest
  <2>1. exporter[e].pc = "look" /\ UNCHANGED <<calls, shards, erased, exports>>
    BY <1>4 DEF LookForBlob, Doing
  <2>2. Advance(e, 0, 0) \/ exporter' = [exporter EXCEPT ![e].pc = "put"]
    BY <1>4 DEF LookForBlob
  <2>3. QED
    BY <2>1, <2>2, AdvanceTodo, PcTodo DEF ExportTypes
<1>5. ASSUME NEW e \in Exporters, PutBlob(e) PROVE Rest
  <2>1. /\ exporter[e].pc = "put" /\ UNCHANGED <<calls, exports>>
        /\ shards' = shards \cup {NextShard(e)} /\ erased' \subseteq erased
    BY <1>5 DEF PutBlob, Doing
  <2>2. exporter[e] \in ExportJobs /\ exporter[e].todo # <<>>
    BY <2>1 DEF ExportTypes, ExportInv, JobInv
  <2>3. NextShard(e) \in Shards
    BY <2>2 DEF ExportJobs, NextShard
  <2>4. \A f \in Exporters : Len(exporter'[f].todo) <= MaxBatch
    <3>1. PICK new, stored1 : Advance(e, new, stored1)
      BY <1>5 DEF PutBlob
    <3>2. QED
      BY <2>1, <3>1, AdvanceTodo
  <2>5. QED
    BY <2>1, <2>3, <2>4 DEF ExportTypes
<1>6. ASSUME NEW e \in Exporters, PutFails(e) \/ IncrementModel(e) PROVE Rest
  <2>1. exporter' = [exporter EXCEPT ![e] = NotExporting] /\ UNCHANGED <<calls, shards, erased, exports>>
    BY <1>6 DEF PutFails, IncrementModel
  <2>2. QED
    BY <2>1, TodoKept, NotExportingTodo DEF ExportTypes
<1>7. ASSUME NEW e \in Exporters, PutManifest(e) PROVE Rest
  <2>1. /\ exports' = exports \cup {exporter[e].named} /\ UNCHANGED <<calls, shards, erased>>
        /\ exporter' = [exporter EXCEPT ![e].pc = "count"]
    BY <1>7 DEF PutManifest
  <2>2. exporter[e].named \in SUBSET Shards
    BY DEF ExportTypes, ExportInv, ExportJobs
  <2>3. QED
    BY <2>1, <2>2, PcTodo DEF ExportTypes
<1>8. ASSUME NEW x \in Shards, EraseShard(x) PROVE Rest
  BY <1>8 DEF EraseShard, ExportTypes
<1>9. ASSUME UNCHANGED exportVars PROVE Rest
  BY <1>9 DEF exportVars, ExportTypes
<1> HIDE DEF Rest
<1>10. Rest
  BY <1>2, <1>3, <1>4, <1>5, <1>6, <1>7, <1>8, <1>9 DEF ExportNext, ExportStep
<1>11. QED
  BY <1>0, <1>10 DEF Rest, ExportTypes

\* The manifests: origins are numbers of trainings that have begun.
ManifestFileTypes ==
  /\ ManifestTypes /\ KeptInv /\ LineageInv
  /\ weights \subseteq Weights /\ taken \subseteq Weights /\ trainings <= MaxTrainings

LEMMA ManifestTypesImply == ManifestFileTypes => ManifestTypeOK
<1> SUFFICES ASSUME ManifestFileTypes PROVE ManifestTypeOK
  OBVIOUS
<1>1. trainings \in Nat /\ trainings = Len(owner)
  BY DEF ManifestFileTypes, ManifestTypes
<1>2. ASSUME NEW m \in Paths
      PROVE  manifest[m] \in [origin : 0..MaxTrainings, tag : Tags \cup {Untagged}, clusters : SUBSET Weights]
  <2>1. manifest[m] \in ManifestType /\ manifest[m].origin \in 0..Len(owner)
    BY DEF ManifestFileTypes, ManifestTypes, LineageInv
  <2>2. manifest[m].origin \in 0..MaxTrainings
    BY <1>1, <2>1, ManifestAssumption DEF ManifestFileTypes
  <2>3. QED
    BY <2>1, <2>2 DEF ManifestType
<1>3. QED
  BY <1>2 DEF ManifestFileTypes, ManifestTypeOK

LEMMA ManifestTypesInit == ManifestInit => ManifestFileTypes
<1> SUFFICES ASSUME ManifestInit PROVE ManifestFileTypes
  OBVIOUS
<1>1. weights = {} /\ taken = {} /\ trainings <= MaxTrainings
  BY ManifestAssumption DEF ManifestInit
<1>2. QED
  BY <1>1, InitManifests DEF ManifestFileTypes

LEMMA ManifestTypesStep == ManifestFileTypes /\ [ManifestNext]_manifestVars => ManifestFileTypes'
<1> SUFFICES ASSUME ManifestFileTypes, [ManifestNext]_manifestVars PROVE ManifestFileTypes'
  OBVIOUS
<1> DEFINE Stored == weights' \subseteq Weights /\ taken' \subseteq Weights /\ trainings' <= MaxTrainings
<1>1. weights \subseteq Weights /\ taken \subseteq Weights /\ trainings <= MaxTrainings /\ trainings \in Nat
  BY DEF ManifestFileTypes, ManifestTypes
<1>2. ASSUME NEW t \in Trainers, NEW m \in Paths, NEW tag \in Tags, NEW tells \in BOOLEAN,
             NEW resumed \in {0} \cup {o \in DOMAIN owner : owner[o] = tag},
             BeginTraining(t, m, tag, tells, resumed)
      PROVE  Stored
  <2>1. trainings < MaxTrainings /\ trainings' = trainings + 1 /\ UNCHANGED <<weights, taken>>
    BY <1>2 DEF BeginTraining
  <2>2. QED
    BY <1>1, <2>1, ManifestAssumption
<1>3. ASSUME NEW t \in Trainers, NEW clusters \in SUBSET Weights, ExportWeights(t, clusters) PROVE Stored
  BY <1>1, <1>3 DEF ExportWeights
<1>4. ASSUME NEW t \in Trainers, ReadManifest(t) \/ ReplaceManifest(t) \/ StopTraining(t) PROVE Stored
  BY <1>1, <1>4 DEF ReadManifest, ReplaceManifest, StopTraining
<1>5. ASSUME NEW t \in Trainers, NEW x \in Weights, DeleteStale(t, x) PROVE Stored
  BY <1>1, <1>5 DEF DeleteStale
<1>6. ASSUME UNCHANGED manifestVars PROVE Stored
  BY <1>1, <1>6 DEF manifestVars
<1> HIDE DEF Stored
<1>7. Stored
  BY <1>2, <1>3, <1>4, <1>5, <1>6 DEF ManifestNext, ManifestStep
<1>8. ManifestTypes' /\ KeptInv' /\ LineageInv'
  BY ManifestInvStep DEF ManifestFileTypes
<1>9. QED
  BY <1>7, <1>8 DEF Stored, ManifestFileTypes
=============================================================================
