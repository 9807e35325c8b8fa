----------------------------- MODULE WeightModels -----------------------------
(***************************************************************************)
(* WeightOriginRegistry: the models of a weight store and the index of their *)
(* names, each behind a read-write lock.  Most lock sections hold one lock    *)
(* and are one step here.  Two hold a lock while they ask for the other:      *)
(* get_model_by_name keeps the index for reading until it has the models,    *)
(* and register_model, on a model it knows, keeps the models for reading      *)
(* (the guard lives to the end of the if-let) while it writes the index.      *)
(* A writer that has to wait holds back later readers, as the standard       *)
(* library's lock does.                                                     *)
(***************************************************************************)
EXTENDS Naturals, FiniteSets

CONSTANTS
  Users,        \* threads that share the registry
  Models,       \* origin ids of models
  Names,        \* model names
  MaxClusters   \* bound: num_clusters of a model

ASSUME RegistryAssumption == MaxClusters \in Nat

VARIABLES
  models,   \* registered models, with name and number of clusters
  byName,   \* name_index
  user,     \* the call each thread is in
  doubled   \* history: models inserted while another call was about to

registryVars == <<models, byName, user, doubled>>

Resting == [pc |-> "idle", op |-> "lookup", name |-> "none", model |-> "none"]

RegistryInit ==
  /\ models = [m \in {} |-> 0]
  /\ byName = [n \in {} |-> 0]
  /\ user = [u \in Users |-> Resting]
  /\ doubled = {}

----------------------------------------------------------------------------
In(u, pcs) == user[u].pc \in pcs
Move(u, pc) == user' = [user EXCEPT ![u].pc = pc]
Finish(u) == user' = [user EXCEPT ![u] = Resting]

\* A fault: the models stay locked while the index is written.
ModelReaders_Fault == {u \in Users : In(u, {"rename", "renameWaits", "name", "nameWaits"})}

(* Who holds a lock for reading, and who waits to write under it.  Sections  *)
(* that write are single steps, so nobody is seen inside one.               *)
ModelReaders == {u \in Users : In(u, {"rename", "renameWaits"})}
IndexReaders == {u \in Users : In(u, {"found"})}
ModelWriters == {u \in Users : In(u, {"insertWaits", "countWaits"})}
IndexWriters == {u \in Users : In(u, {"nameWaits", "renameWaits"})}

Call(u, op, n, m, pc) ==
  /\ In(u, {"idle"})
  /\ user' = [user EXCEPT ![u] = [pc |-> pc, op |-> op, name |-> n, model |-> m]]
  /\ UNCHANGED <<models, byName, doubled>>

GetModelByName(u, n) == Call(u, "lookup", n, Resting.model, "find")

(* ensure_model without an id creates the model under a fresh one.          *)
EnsureModel(u, n) ==
  \E m \in Models :
    /\ m \notin DOMAIN models
    /\ \A v \in Users : In(v, {"idle"}) \/ user[v].model # m
    /\ Call(u, "ensure", n, m, "find")

(* The id is one the caller knows: no fresh one of a call still running.    *)
RegisterModel(u, n, m) ==
  /\ ~ \E v \in Users : user[v].op = "ensure" /\ user[v].model = m
  /\ Call(u, "register", n, m, "known")

IncrementClusters(u, m) ==
  /\ m \in DOMAIN models
  /\ models[m].clusters + Cardinality({v \in Users : user[v].op = "increment"}) < MaxClusters
  /\ Call(u, "increment", models[m].name, m, "count")

----------------------------------------------------------------------------
(* The index, read.                                                        *)
Find(u) ==
  /\ In(u, {"find"})
  /\ IndexWriters = {}
  /\ \/ /\ user[u].name \in DOMAIN byName
        /\ Move(u, "found")
     \/ /\ user[u].name \notin DOMAIN byName
        /\ IF user[u].op = "ensure" THEN Move(u, "insert") ELSE Finish(u)
  /\ UNCHANGED <<models, byName, doubled>>

(* The models, read while the index is still held: both are let go.         *)
ResolveModel(u) ==
  /\ In(u, {"found"})
  /\ ModelWriters = {}
  /\ IF byName[user[u].name] \notin DOMAIN models /\ user[u].op = "ensure"
       THEN Move(u, "insert")
       ELSE Finish(u)
  /\ UNCHANGED <<models, byName, doubled>>

\* A fault: every registration inserts.
Known_Fault(u) ==
  /\ In(u, {"known"})
  /\ ModelWriters = {}
  /\ Move(u, "insert")
  /\ UNCHANGED <<models, byName, doubled>>

(* register_model: a model it knows keeps its record.                       *)
Known(u) ==
  /\ In(u, {"known"})
  /\ ModelWriters = {}
  /\ Move(u, IF user[u].model \in DOMAIN models THEN "rename" ELSE "insert")
  /\ UNCHANGED <<models, byName, doubled>>

With(f, k, v) == [x \in DOMAIN f \cup {k} |-> IF x = k THEN v ELSE f[x]]

(* A write lock is taken when nobody reads, and waited for otherwise.       *)
MayWrite(u, readers, asking, waiting, write) ==
  /\ In(u, {asking, waiting})
  /\ IF readers = {}
       THEN write
       ELSE /\ In(u, {asking})
            /\ Move(u, waiting)
            /\ UNCHANGED <<models, byName, doubled>>

(* v has looked for its model, has not found it, and will insert it.        *)
Inserting(v) == In(v, {"insert", "insertWaits"})

InsertModel(u) ==
  LET m == user[u].model
  IN  MayWrite(u, ModelReaders, "insert", "insertWaits",
        /\ models' = With(models, m, [name |-> user[u].name, clusters |-> 0])
        /\ doubled' = IF \E v \in Users \ {u} : Inserting(v) /\ user[v].model = m
                      THEN doubled \cup {m} ELSE doubled
        /\ Move(u, "name")
        /\ UNCHANGED byName)

NameModel(u) ==
  MayWrite(u, IndexReaders, "name", "nameWaits",
    /\ byName' = With(byName, user[u].name, user[u].model)
    /\ Finish(u)
    /\ UNCHANGED <<models, doubled>>)

(* Both names, the recorded one and the one asked for, now lead to the model. *)
RenameModel(u) ==
  LET m == user[u].model
  IN  MayWrite(u, IndexReaders, "rename", "renameWaits",
        /\ byName' = With(With(byName, models[m].name, m), user[u].name, m)
        /\ Finish(u)
        /\ UNCHANGED <<models, doubled>>)

CountClusters(u) ==
  MayWrite(u, ModelReaders, "count", "countWaits",
    /\ models' = [models EXCEPT ![user[u].model].clusters = @ + 1]
    /\ Finish(u)
    /\ UNCHANGED <<byName, doubled>>)

RegistryStep(u) ==
  \/ Find(u) \/ ResolveModel(u) \/ Known(u) \/ InsertModel(u) \/ NameModel(u)
  \/ RenameModel(u) \/ CountClusters(u)

RegistryCall(u) ==
  \/ \E n \in Names : GetModelByName(u, n) \/ EnsureModel(u, n)
  \/ \E n \in Names, m \in Models : RegisterModel(u, n, m)
  \/ \E m \in Models : IncrementClusters(u, m)

RegistryNext == \E u \in Users : RegistryCall(u) \/ RegistryStep(u)

RegistrySpec == RegistryInit /\ [][RegistryNext]_registryVars

----------------------------------------------------------------------------
RegistryTypeOK ==
  /\ DOMAIN models \subseteq Models /\ DOMAIN byName \subseteq Names
  /\ \A m \in DOMAIN models : models[m].name \in Names /\ models[m].clusters \in 0..MaxClusters

(* register_model looks for the model under one lock and inserts it under    *)
(* another: only when two registrations of one model overlap does the        *)
(* second put back a record that forgets the clusters counted since.        *)
CountsKept ==
  [][\A m \in DOMAIN models :
       m \in DOMAIN models' /\ (models'[m].clusters >= models[m].clusters \/ m \in doubled')]_registryVars

(* u cannot move before v does.                                            *)
WaitsFor(u, v) ==
  \/ In(u, {"find"}) /\ v \in IndexWriters
  \/ In(u, {"found", "known"}) /\ v \in ModelWriters
  \/ In(u, {"insertWaits", "countWaits"}) /\ v \in ModelReaders
  \/ In(u, {"nameWaits", "renameWaits"}) /\ v \in IndexReaders

(* Threads wait for each other in a circle in one case only: a              *)
(* re-registration that keeps the models and waits to write the index, a     *)
(* look-up that keeps the index and waits to read the models, and a writer   *)
(* of the models that the first holds up and that holds up the second.       *)
OneDeadlock ==
  \A circle \in SUBSET Users :
    circle # {} /\ (\A u \in circle : \E v \in circle : WaitsFor(u, v)) =>
      /\ \E u \in circle : In(u, {"renameWaits"})
      /\ \E u \in circle : In(u, {"found"})
      /\ \E u \in circle : u \in ModelWriters
=============================================================================
