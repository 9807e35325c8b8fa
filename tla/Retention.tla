----------------------------- MODULE Retention -----------------------------
(***************************************************************************)
(* What the engine promises its clients, with no counters, requests or     *)
(* records: bytes may come and go, but an origin is published only when    *)
(* everything it needs is stored, and nothing a published, unretired       *)
(* origin needs is reclaimed.  SodlGc is shown to implement it.            *)
(***************************************************************************)
CONSTANTS
  Origins,
  Blobs,
  Needs      \* Needs[o]: the blobs a read of o's payload fetches

VARIABLES
  live,      \* origins whose creation has been acknowledged
  retired,   \* those that were asked to be tombstoned
  store      \* blobs whose bytes are present

vars == <<live, retired, store>>

Init == live = {} /\ retired = {} /\ store = {}

Publish(o) ==
  /\ o \notin live
  /\ o \in retired \/ Needs[o] \subseteq store
  /\ live' = live \cup {o}
  /\ UNCHANGED <<retired, store>>

\* An origin whose creation was cut short can be retired too.
Retire(o) ==
  /\ retired' = retired \cup {o}
  /\ UNCHANGED <<live, store>>

Store(b) ==
  /\ store' = store \cup {b}
  /\ UNCHANGED <<live, retired>>

Reclaim(b) ==
  /\ \A o \in live \ retired : b \notin Needs[o]
  /\ store' = store \ {b}
  /\ UNCHANGED <<live, retired>>

Next ==
  \/ \E o \in Origins : Publish(o) \/ Retire(o)
  \/ \E b \in Blobs : Store(b) \/ Reclaim(b)

Spec == Init /\ [][Next]_vars

\* Every published, unretired origin can be read back in full.
Readable == \A o \in live \ retired : Needs[o] \subseteq store
=============================================================================
