----------------------------- MODULE WriteBack -----------------------------
(***************************************************************************)
(* What a write-back store promises its clients: what a reader sees        *)
(* changes when a store call takes effect, to what that call brought, and  *)
(* at no other step, whatever is cached, evicted, hydrated or flushed      *)
(* meanwhile; a flush makes what readers see durable; a crash falls back   *)
(* to what is durable, and to nothing in between.  OptimizerState is shown *)
(* to implement it.                                                        *)
(***************************************************************************)
CONSTANTS
  Clients,
  Keys,
  Values,
  None      \* "never stored", "not asked for"

VARIABLES
  seen,     \* seen[k]: the value a read of k returns
  durable,  \* durable[k]: the value a restart would find
  asked     \* asked[c]: the writes of c's store call, until they take effect

Contents == [Keys -> Values \cup {None}]
Nothing  == [k \in Keys |-> None]

Init ==
  /\ seen = Nothing
  /\ durable = Nothing
  /\ asked = [c \in Clients |-> Nothing]

\* A store call comes in.
Ask(c) ==
  /\ asked[c] = Nothing
  /\ asked'[c] \in Contents
  /\ asked' = [asked EXCEPT ![c] = asked'[c]]
  /\ UNCHANGED <<seen, durable>>

\* Its writes take effect, all of them at once.
Store(c) ==
  /\ seen' = [k \in Keys |-> IF asked[c][k] # None THEN asked[c][k] ELSE seen[k]]
  /\ asked' = [asked EXCEPT ![c] = Nothing]
  /\ UNCHANGED durable

\* It may flush several keys, of one origin or of a batch.
Flush ==
  /\ durable' \in Contents
  /\ \A k \in Keys : durable'[k] = durable[k] \/ durable'[k] = seen[k]
  /\ UNCHANGED <<seen, asked>>

\* Store calls under way are lost too.
Crash ==
  /\ seen' = durable
  /\ asked' = [c \in Clients |-> Nothing]
  /\ UNCHANGED durable

Next == Flush \/ Crash \/ \E c \in Clients : Ask(c) \/ Store(c)

Spec == Init /\ [][Next]_<<seen, durable, asked>>

=============================================================================
