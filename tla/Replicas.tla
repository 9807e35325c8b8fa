------------------------------- MODULE Replicas -------------------------------
(***************************************************************************)
(* Replica records and repairs, for one blob of an origin with an active pin.  *)
(* ReplicaAuditor counts the hosts recorded healthy not long ago, plans how     *)
(* many more are missing, and ReplicaExecutor copies the blob to that many.     *)
(* Operators run at once, between store calls of each other, while hosts lose  *)
(* copies and records age.                                                  *)
(***************************************************************************)
EXTENDS Naturals, FiniteSets

CONSTANTS
  Hosts,        \* the stores of the mesh
  Operators,    \* who audits and repairs
  MinReplicas,  \* retention.min_replicas
  StaleAfter,   \* stale_seconds
  MaxDays,      \* bound: readings of the clock
  MaxLosses     \* bound: copies lost

ASSUME ReplicaAssumption ==
  /\ IsFiniteSet(Hosts)
  /\ MinReplicas \in Nat /\ StaleAfter \in Nat /\ MaxDays \in Nat /\ MaxLosses \in Nat

VARIABLES
  day,       \* now
  holding,   \* hosts whose store has the blob
  replica,   \* the replica record of each host
  operator,  \* the repair each operator is in
  losses,    \* bound counter
  bereft     \* history: hosts that lost the copy they had when they were recorded

replicaVars == <<day, holding, replica, operator, losses, bereft>>

NoReplica == [state |-> "none", seen |-> 0]
NoRepair == [pc |-> "idle", planned |-> 0, missing |-> 0, known |-> {}, to |-> {}, disturbed |-> FALSE]

ReplicaInit ==
  /\ day = 0
  /\ holding \in SUBSET Hosts
  /\ replica = [h \in Hosts |-> NoReplica]
  /\ operator = [o \in Operators |-> NoRepair]
  /\ losses = 0 /\ bereft = {}

----------------------------------------------------------------------------
HealthyHosts == {h \in Hosts : replica[h].state = "healthy"}

(* healthy_count_with_stale: a record too old does not count.                 *)
Fresh(now) == {h \in HealthyHosts : now <= replica[h].seen + StaleAfter}

(* can_delete_origin_bytes, and what the audit asks.                          *)
Enough(now) == Cardinality(Fresh(now)) >= MinReplicas

Upsert(h, state) == replica' = [replica EXCEPT ![h] = [state |-> state, seen |-> day]]
RepairStep(o, r) == operator' = [operator EXCEPT ![o] = r]

(* audit_origin plans the repair and execute begins it.                       *)
Audit(o) ==
  /\ operator[o].pc = "idle"
  /\ ~ Enough(day)
  /\ RepairStep(o, [NoRepair EXCEPT !.pc = "list", !.planned = day,
                                    !.missing = MinReplicas - Cardinality(Fresh(day))])
  /\ UNCHANGED <<day, holding, replica, losses, bereft>>

\* A fault: hosts that have a copy already are counted again.
ListReplicas_Fault(o) ==
  /\ operator[o].pc = "list"
  /\ RepairStep(o, [operator[o] EXCEPT !.pc = "source"])
  /\ UNCHANGED <<day, holding, replica, losses, bereft>>

(* repair_blob leaves alone every host that is recorded healthy, however long  *)
(* ago.                                                                    *)
ListReplicas(o) ==
  /\ operator[o].pc = "list"
  /\ RepairStep(o, [operator[o] EXCEPT !.pc = "source", !.known = HealthyHosts])
  /\ UNCHANGED <<day, holding, replica, losses, bereft>>

(* The bytes come from any host that has them; NotFound when none has.         *)
FindSource(o) ==
  /\ operator[o].pc = "source"
  /\ RepairStep(o, IF holding = {} THEN NoRepair ELSE [operator[o] EXCEPT !.pc = "copy"])
  /\ UNCHANGED <<day, holding, replica, losses, bereft>>

CopyTo(o, h) ==
  /\ operator[o].pc = "copy" /\ operator[o].missing > 0
  /\ h \notin operator[o].known
  /\ holding' = holding \cup {h}
  /\ bereft' = bereft \ {h}
  /\ RepairStep(o, [operator[o] EXCEPT !.pc = "record", !.to = {h}])
  /\ UNCHANGED <<day, replica, losses>>

RecordCopy(o) ==
  /\ operator[o].pc = "record"
  /\ \A h \in operator[o].to : Upsert(h, "healthy")
  /\ RepairStep(o, [operator[o] EXCEPT !.pc = "copy", !.to = {}, !.missing = @ - 1,
                                       !.known = @ \cup operator[o].to])
  /\ UNCHANGED <<day, holding, losses, bereft>>

RepairReturns(o) ==
  /\ operator[o].pc = "copy"
  /\ operator[o].missing = 0 \/ operator[o].known = Hosts
  /\ RepairStep(o, NoRepair)
  /\ UNCHANGED <<day, holding, replica, losses, bereft>>

(* A store call fails, or the operator is stopped.                            *)
RepairFails(o) ==
  /\ operator[o].pc # "idle"
  /\ RepairStep(o, NoRepair)
  /\ UNCHANGED <<day, holding, replica, losses, bereft>>

----------------------------------------------------------------------------
(* Somebody sees the blob on a host and says so, or that the host is gone.     *)
Observe(h) ==
  /\ h \in holding
  /\ Upsert(h, "healthy")
  /\ bereft' = bereft \ {h}
  /\ UNCHANGED <<day, holding, operator, losses>>

ReportDead(h) ==
  /\ replica[h].state = "healthy"
  /\ Upsert(h, "dead")
  /\ operator' = [o \in Operators |-> IF operator[o].pc = "idle" THEN NoRepair
                                      ELSE [operator[o] EXCEPT !.disturbed = TRUE]]
  /\ UNCHANGED <<day, holding, losses, bereft>>

LoseCopy(h) ==
  /\ losses < MaxLosses
  /\ losses' = losses + 1
  /\ h \in holding
  /\ holding' = holding \ {h}
  /\ bereft' = bereft \cup {h}
  /\ UNCHANGED <<day, replica, operator>>

NextDay ==
  /\ day < MaxDays
  /\ day' = day + 1
  /\ UNCHANGED <<holding, replica, operator, losses, bereft>>

ReplicaNext ==
  \/ \E o \in Operators :
       \/ Audit(o) \/ ListReplicas(o) \/ FindSource(o) \/ RecordCopy(o) \/ RepairReturns(o) \/ RepairFails(o)
       \/ \E h \in Hosts : CopyTo(o, h)
  \/ \E h \in Hosts : Observe(h) \/ ReportDead(h) \/ LoseCopy(h)
  \/ NextDay

ReplicaSpec == ReplicaInit /\ [][ReplicaNext]_replicaVars

----------------------------------------------------------------------------
ReplicaTypeOK ==
  /\ day \in 0..MaxDays /\ holding \subseteq Hosts /\ bereft \subseteq Hosts
  /\ \A h \in Hosts : replica[h] \in [state : {"none", "healthy", "dead"}, seen : 0..MaxDays]
  /\ \A o \in Operators : operator[o].missing \in 0..MinReplicas

(* A repair that returns has done its plan, whatever other repairs did         *)
(* meanwhile: as many hosts as the policy asks for are recorded, not too long   *)
(* before the audit, and each of them got the blob.  It has not when hosts were *)
(* reported dead meanwhile, or when no host was left to copy to: there it skips *)
(* the ones whose records are old, and so does every later repair.             *)
RepairSatisfies ==
  [][\A o \in Operators :
       operator[o].pc = "copy" /\ operator'[o].pc = "idle" =>
         \/ operator[o].missing > 0 /\ (operator[o].known # Hosts \/ HealthyHosts = Hosts)
         \/ operator[o].disturbed
         \/ Enough(operator[o].planned) /\ Fresh(operator[o].planned) \subseteq holding \cup bereft]_replicaVars
=============================================================================
