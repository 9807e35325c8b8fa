------------------------------ MODULE ShareProofs ------------------------------
(***************************************************************************)
(* A share is recorded with a proof of the origin's lineage: a digest of the  *)
(* lineage edges created before the moment of the share, signed when the      *)
(* server has a signer.  verify_share_proof computes the digest again from the *)
(* edges there are by then.  One origin; uploads, pins and derivations also    *)
(* add edges to its lineage.                                                *)
(*                                                                         *)
(* An edge carries the time its caller read before it took the store's lock,   *)
(* calls interleave, and the wall clock may be set back.  A digest stands for   *)
(* the set of edges it is computed from: they are sorted by id.               *)
(***************************************************************************)
EXTENDS Naturals, FiniteSets

CONSTANTS
  Clients,    \* concurrent requests
  Signers,    \* key ids a server may be configured with
  Unsigned,   \* no signer
  MaxTime,    \* bound: readings of the clock
  MaxEdges,   \* bound: lineage edges
  MaxSetbacks \* bound: times the clock is set back, and restarts

ASSUME ProofAssumption ==
  Unsigned \notin Signers /\ MaxTime \in Nat /\ MaxEdges \in Nat /\ MaxSetbacks \in Nat

VARIABLES
  clock,    \* now_utc
  setbacks, \* bound counter
  signer,   \* proof_signer of the running server
  lineage,  \* edges in the store
  shares,   \* share records in the store, and whether each was safe from late edges
  request   \* the request each client is in

proofVars == <<clock, setbacks, signer, lineage, shares, request>>

NoRequest == [pc |-> "idle"]

ProofInit ==
  /\ clock = 0 /\ setbacks = 0
  /\ signer \in Signers \cup {Unsigned}
  /\ lineage = {} /\ shares = {}
  /\ request = [c \in Clients |-> NoRequest]

----------------------------------------------------------------------------
Becomes(c, r) == request' = [request EXCEPT ![c] = r]

Unfinished == Cardinality({c \in Clients : request[c].pc # "idle"})

(* upload, pin_origin and derive: the edge is stamped, then added.            *)
StampEdge(c) ==
  /\ request[c].pc = "idle"
  /\ Cardinality(lineage) + Unfinished < MaxEdges
  /\ Becomes(c, [pc |-> "adding", at |-> clock])
  /\ UNCHANGED <<clock, setbacks, signer, lineage, shares>>

AddEdge(c) ==
  /\ request[c].pc = "adding"
  /\ lineage' = lineage \cup {[edge |-> Cardinality(lineage), at |-> request[c].at]}
  /\ Becomes(c, NoRequest)
  /\ UNCHANGED <<clock, setbacks, signer, shares>>

(* share(): anchor_time is read first; lineage_proof_at takes the edges strictly *)
(* before it and the signer signs their digest.                              *)
BeginShare(c) ==
  /\ request[c].pc = "idle"
  /\ Cardinality(lineage) + Unfinished < MaxEdges
  /\ Becomes(c, [pc |-> "proving", anchor |-> clock])
  /\ UNCHANGED <<clock, setbacks, signer, lineage, shares>>

\* A fault: the cutoff itself is included.
Before_Fault(edges, cutoff) == {e \in edges : e.at <= cutoff}

Before(edges, cutoff) == {e \in edges : e.at < cutoff}

SignedBy == signer

(* An edge stamped before the anchor and not yet added will change the digest.  *)
AllAdded(cutoff) ==
  \A c \in Clients : request[c].pc = "adding" => request[c].at >= cutoff

Prove(c) ==
  LET cutoff == request[c].anchor
  IN  /\ request[c].pc = "proving"
      /\ Becomes(c, [pc |-> "recording",
                     share |-> [anchor |-> cutoff, digest |-> Before(lineage, cutoff),
                                key |-> SignedBy, safe |-> AllAdded(cutoff) /\ clock >= cutoff]])
      /\ UNCHANGED <<clock, setbacks, signer, lineage, shares>>

(* shares.put, and inc_origin; then the edge of the share itself is stamped.   *)
RecordShare(c) ==
  /\ request[c].pc = "recording"
  /\ shares' = shares \cup {request[c].share}
  /\ Becomes(c, [pc |-> "stamping"])
  /\ UNCHANGED <<clock, setbacks, signer, lineage>>

StampShare(c) ==
  /\ request[c].pc = "stamping"
  /\ Becomes(c, [pc |-> "adding", at |-> clock])
  /\ UNCHANGED <<clock, setbacks, signer, lineage, shares>>

----------------------------------------------------------------------------
Tick ==
  /\ clock < MaxTime
  /\ clock' = clock + 1
  /\ UNCHANGED <<setbacks, signer, lineage, shares, request>>

(* The clock is set back: edges may now be stamped before anchors of the past.  *)
SetBack(time) ==
  LET kept(s) == [s EXCEPT !.safe = @ /\ s.anchor <= time]
  IN  /\ setbacks < MaxSetbacks /\ time < clock
      /\ setbacks' = setbacks + 1
      /\ clock' = time
      /\ shares' = {kept(s) : s \in shares}
      /\ request' = [c \in Clients |-> IF request[c].pc = "recording"
                                         THEN [request[c] EXCEPT !.share = kept(@)] ELSE request[c]]
      /\ UNCHANGED <<signer, lineage>>

(* The server restarts, maybe with another signer; requests are lost.          *)
Restart(key) ==
  /\ setbacks < MaxSetbacks
  /\ setbacks' = setbacks + 1
  /\ signer' = key
  /\ request' = [c \in Clients |-> NoRequest]
  /\ UNCHANGED <<clock, lineage, shares>>

ProofNext ==
  \/ \E c \in Clients :
       \/ StampEdge(c) \/ AddEdge(c) \/ BeginShare(c) \/ Prove(c) \/ RecordShare(c) \/ StampShare(c)
  \/ Tick
  \/ \E time \in 0..MaxTime : SetBack(time)
  \/ \E key \in Signers \cup {Unsigned} : Restart(key)

ProofSpec == ProofInit /\ [][ProofNext]_proofVars

----------------------------------------------------------------------------
ProofTypeOK ==
  /\ clock \in 0..MaxTime /\ signer \in Signers \cup {Unsigned}
  /\ \A s \in shares : s.digest \subseteq lineage /\ s.key \in Signers \cup {Unsigned}

(* Only the key that signed a digest verifies the signature.                  *)
SignatureHolds(s) == s.key = Unsigned \/ s.key = signer

(* verify_share_proof: the digest computed now is the digest recorded, and a    *)
(* signed share needs the signer that signed it.                              *)
VerifyShare(s) == Before(lineage, s.anchor) = s.digest /\ SignatureHolds(s)

(* A share verifies for good, whatever is added to the lineage later, its own    *)
(* edge included, unless the server no longer has its signer, or an edge stamped *)
(* before its anchor was on its way when the digest was computed, or the clock   *)
(* was set back past the anchor.                                             *)
ProofHolds == \A s \in shares : s.safe /\ s.key \in {Unsigned, signer} => VerifyShare(s)
=============================================================================
