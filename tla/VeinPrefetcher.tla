---------------------------- MODULE VeinPrefetcher ----------------------------
(***************************************************************************)
(* VeinPrefetcher: a background thread loads the clusters that the trainer     *)
(* has asked for into a map the trainer reads.  Requests wait in a queue of       *)
(* bounded length, a request too many is dropped, and stop queues a sentinel    *)
(* behind them.  stop waits for the thread for five seconds: the thread may      *)
(* still be loading then, and the next start makes another one.               *)
(*                                                                         *)
(* A cluster is known under the id of the blob it was last exported to; the id   *)
(* stands for the content.                                                  *)
(***************************************************************************)
EXTENDS Naturals, Sequences, FiniteSets, SequencesExt

CONSTANTS
  Loaders,      \* threads that start may create
  Wanted,       \* clusters
  Editions,     \* blob ids a cluster can have
  Missing,      \* no blob id, nothing cached
  QueueSize,    \* prefetch_depth * 2
  MaxAsked      \* bound: requests, and changes of blob ids

ASSUME PrefetchAssumption ==
  /\ Missing \notin Editions \cup Wanted
  /\ QueueSize \in Nat \ {0} /\ MaxAsked \in Nat

VARIABLES
  flowing,      \* _running
  requests,     \* _request_queue
  loader,       \* what each thread is doing, and the ids it has looked up
  reader,       \* the same of the trainer
  editions,     \* _cluster_blob_ids
  veinCache,    \* _cache
  asked,        \* bound counter
  superseded,   \* history: clusters whose id changed while the old one was cached or looked up
  leftover      \* history: a sentinel was in the queue at the last start

veinHistory == <<superseded, leftover>>
veinVars == <<flowing, requests, loader, reader, editions, veinCache, asked, veinHistory>>

Sentinel == {Missing}
NoIds == [x \in Wanted |-> Missing]
Stage(pc) == [pc |-> pc, request |-> {}, ids |-> NoIds]

VeinInit ==
  /\ flowing = FALSE /\ requests = <<>>
  /\ loader = [w \in Loaders |-> Stage("unborn")]
  /\ reader = Stage("idle")
  /\ editions \in [Wanted -> Editions]
  /\ veinCache = NoIds
  /\ asked = 0
  /\ superseded = {} /\ leftover = FALSE

Does(w, pc) == loader[w].pc = pc
Moves(w, pc) == loader' = [loader EXCEPT ![w] = Stage(pc)]
Ask == asked < MaxAsked /\ asked' = asked + 1

----------------------------------------------------------------------------
(* The trainer.                                                             *)
StartVein(w) ==
  /\ reader.pc = "idle" /\ ~ flowing
  /\ Does(w, "unborn")
  /\ flowing' = TRUE
  /\ Moves(w, "check")
  /\ leftover' = (Sentinel \in ToSet(requests))
  /\ UNCHANGED <<requests, reader, editions, veinCache, asked, superseded>>

StopVein ==
  /\ reader.pc = "idle"
  /\ flowing' = FALSE
  /\ reader' = Stage("sentinel")
  /\ UNCHANGED <<requests, loader, editions, veinCache, asked, veinHistory>>

(* stop waits until the queue has room for the sentinel.                       *)
PutSentinel ==
  /\ reader.pc = "sentinel"
  /\ Len(requests) < QueueSize
  /\ requests' = Append(requests, Sentinel)
  /\ reader' = Stage("idle")
  /\ UNCHANGED <<flowing, loader, editions, veinCache, asked, veinHistory>>

\* A fault: the queue is made without a bound, and a full one is not noticed.
RequestPrefetch_Fault(clusters) ==
  /\ reader.pc = "idle" /\ flowing
  /\ Ask
  /\ requests' = Append(requests, clusters)
  /\ UNCHANGED <<flowing, loader, reader, editions, veinCache, veinHistory>>

RequestPrefetch(clusters) ==
  /\ reader.pc = "idle" /\ flowing
  /\ Ask
  /\ requests' = IF Len(requests) < QueueSize THEN Append(requests, clusters) ELSE requests
  /\ UNCHANGED <<flowing, loader, reader, editions, veinCache, veinHistory>>

InFlight(x) == reader.ids[x] # Missing \/ \E w \in Loaders : loader[w].ids[x] # Missing

UpdateBlobId(x, e) ==
  /\ reader.pc = "idle" /\ e # editions[x]
  /\ Ask
  /\ editions' = [editions EXCEPT ![x] = e]
  /\ superseded' = IF veinCache[x] # Missing \/ InFlight(x) THEN superseded \cup {x} ELSE superseded
  /\ UNCHANGED <<flowing, requests, loader, reader, veinCache, leftover>>

(* get_cluster on a cluster that is not cached; the lock is not held while it    *)
(* is loaded.                                                               *)
MissCluster(x) ==
  /\ reader.pc = "idle" /\ veinCache[x] = Missing
  /\ reader' = [Stage("fetch") EXCEPT !.ids[x] = editions[x]]
  /\ UNCHANGED <<flowing, requests, loader, editions, veinCache, asked, veinHistory>>

WithFetched(ids) == [x \in Wanted |-> IF ids[x] # Missing THEN ids[x] ELSE veinCache[x]]

FetchCluster ==
  /\ reader.pc = "fetch"
  /\ veinCache' \in {veinCache, WithFetched(reader.ids)}
  /\ reader' = Stage("idle")
  /\ UNCHANGED <<flowing, requests, loader, editions, asked, veinHistory>>

ClearCache ==
  /\ reader.pc = "idle"
  /\ veinCache' = NoIds
  /\ superseded' = {x \in superseded : InFlight(x)}
  /\ UNCHANGED <<flowing, requests, loader, reader, editions, asked, leftover>>

----------------------------------------------------------------------------
(* The thread looks at _running, then waits for a request; between the two a     *)
(* stop may come.                                                           *)
CheckRunning(w) ==
  /\ Does(w, "check")
  /\ Moves(w, IF flowing THEN "get" ELSE "gone")
  /\ UNCHANGED <<flowing, requests, reader, editions, veinCache, asked, veinHistory>>

GetRequest(w) ==
  /\ Does(w, "get") /\ requests # <<>>
  /\ requests' = Tail(requests)
  /\ loader' = [loader EXCEPT ![w] =
       IF Head(requests) = Sentinel THEN Stage("gone")
       ELSE [Stage("look") EXCEPT !.request = Head(requests)]]
  /\ UNCHANGED <<flowing, reader, editions, veinCache, asked, veinHistory>>

GetTimesOut(w) ==
  /\ Does(w, "get") /\ requests = <<>>
  /\ Moves(w, "check")
  /\ UNCHANGED <<flowing, requests, reader, editions, veinCache, asked, veinHistory>>

(* What is not cached of the request is looked up all at once.                 *)
LookUpIds(w) ==
  /\ Does(w, "look")
  /\ loader' = [loader EXCEPT ![w] = [Stage("load") EXCEPT !.ids =
       [x \in Wanted |-> IF x \in loader[w].request /\ veinCache[x] = Missing THEN editions[x] ELSE Missing]]]
  /\ UNCHANGED <<flowing, requests, reader, editions, veinCache, asked, veinHistory>>

(* It loads one cluster after the other, as long as it is not to stop; a stop may *)
(* come while it is loading one.                                              *)
PickWanted(w, x) ==
  /\ Does(w, "load") /\ flowing /\ loader[w].ids[x] # Missing
  /\ loader' = [loader EXCEPT ![w].pc = "fetch", ![w].request = {x}]
  /\ UNCHANGED <<flowing, requests, reader, editions, veinCache, asked, veinHistory>>

InsertWanted(w) ==
  /\ Does(w, "fetch")
  /\ veinCache' = [x \in Wanted |-> IF x \in loader[w].request THEN loader[w].ids[x] ELSE veinCache[x]]
  /\ loader' = [loader EXCEPT ![w].pc = "load", ![w].request = {},
                              ![w].ids = [x \in Wanted |-> IF x \in loader[w].request THEN Missing ELSE @[x]]]
  /\ UNCHANGED <<flowing, requests, reader, editions, asked, veinHistory>>

\* A fault: a load that fails ends the thread.
LoadFails_Fault(w) ==
  /\ Does(w, "fetch")
  /\ Moves(w, "gone")
  /\ UNCHANGED <<flowing, requests, reader, editions, veinCache, asked, veinHistory>>

(* A load that fails ends the request, not the thread.                          *)
LoadFails(w) ==
  /\ Does(w, "fetch")
  /\ Moves(w, "check")
  /\ UNCHANGED <<flowing, requests, reader, editions, veinCache, asked, veinHistory>>

RequestDone(w) ==
  /\ Does(w, "load")
  /\ loader[w].ids = NoIds \/ ~ flowing
  /\ Moves(w, "check")
  /\ UNCHANGED <<flowing, requests, reader, editions, veinCache, asked, veinHistory>>

VeinNext ==
  \/ \E w \in Loaders : StartVein(w)
  \/ StopVein \/ PutSentinel \/ FetchCluster \/ ClearCache
  \/ \E clusters \in SUBSET Wanted : RequestPrefetch(clusters)
  \/ \E x \in Wanted, e \in Editions : UpdateBlobId(x, e)
  \/ \E x \in Wanted : MissCluster(x)
  \/ \E w \in Loaders :
       \/ CheckRunning(w) \/ GetRequest(w) \/ GetTimesOut(w) \/ LookUpIds(w)
       \/ InsertWanted(w) \/ LoadFails(w) \/ RequestDone(w)
  \/ \E w \in Loaders, x \in Wanted : PickWanted(w, x)

VeinSpec == VeinInit /\ [][VeinNext]_veinVars

----------------------------------------------------------------------------
VeinTypeOK ==
  /\ Len(requests) <= QueueSize /\ asked \in 0..MaxAsked
  /\ \A ids \in {veinCache, reader.ids} : ids \in [Wanted -> Editions \cup {Missing}]
  /\ superseded \subseteq Wanted

(* As long as the prefetcher is running some thread serves its requests, whatever  *)
(* loads fail and however often it was stopped and started before.  The exception  *)
(* is a start that finds the sentinel of an earlier stop in the queue: a thread    *)
(* that saw the stop first has left it there, and the new one ends on it.         *)
RequestsServed ==
  flowing /\ ~ leftover => \E w \in Loaders : loader[w].pc \notin {"unborn", "gone"}

(* What the trainer finds cached is the cluster's newest blob, unless its id        *)
(* changed while the old one was cached or being loaded and the cache has not been *)
(* cleared since, with nothing being loaded: neither updating ids nor clearing       *)
(* the cache alone is enough.                                                *)
CacheCurrent ==
  \A x \in Wanted \ superseded : veinCache[x] \in {Missing, editions[x]}

PrefetchSound == RequestsServed /\ CacheCurrent
=============================================================================
