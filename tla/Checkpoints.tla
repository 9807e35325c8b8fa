----------------------------- MODULE Checkpoints -----------------------------
(***************************************************************************)
(* CheckpointStore: training checkpoints as content-addressed blobs, and one  *)
(* registry file per run that lists them, oldest first.  A save puts the      *)
(* blob, reads the registry, replaces the file and deletes the blobs of the   *)
(* records it pushed out, unless some registry names them.                   *)
(* Nothing locks the directory: processes that share it interleave between   *)
(* file operations, and a call can end after any of them (a crash, an error). *)
(***************************************************************************)
EXTENDS Naturals, Sequences, FiniteSets, SequencesExt

CONSTANTS
  Sessions,        \* processes that share the directory
  Runs,            \* training runs, with a registry file each
  Snapshots,        \* contents of checkpoints; one stands for its blob id
  MaxCheckpoints,  \* max_checkpoints, 0 for no limit
  MaxSaves         \* bound: saves and deletions begun

Nothing == "nothing"

ASSUME CheckpointAssumption ==
  MaxCheckpoints \in Nat /\ MaxSaves \in Nat /\ Nothing \notin Snapshots

VARIABLES
  kept,        \* blobs in the store
  registry,    \* the registry file of each run: its records, oldest first
  session,     \* the call each process is in
  begun,       \* calls begun, which numbers the checkpoints too
  registered,  \* history: checkpoints of each run that a registry write added
  removed,     \* history: checkpoints delete_checkpoint took out
  mixed,       \* history: runs two calls wrote at once
  contested,   \* history: blobs deleted while another call ran
  residue      \* history: blobs of calls that ended early, and of records overwritten unread

checkpointVars == <<kept, registry, session, begun, registered, removed, mixed, contested, residue>>

Quiet == [pc |-> "idle", op |-> "save", run |-> Nothing, id |-> 0, payload |-> Nothing,
          read |-> {}, records |-> <<>>, garbage |-> {}, alone |-> TRUE]

CheckpointInit ==
  /\ kept = {}
  /\ registry = [r \in Runs |-> <<>>]
  /\ session = [s \in Sessions |-> Quiet]
  /\ begun = 0
  /\ registered = [r \in Runs |-> <<>>]
  /\ removed = {} /\ mixed = {} /\ contested = {} /\ residue = {}

----------------------------------------------------------------------------
Active(s) == session[s].pc # "idle"
Stands(s, pc) == session[s].pc = pc
Proceed(s, pc) == session' = [session EXCEPT ![s].pc = pc]
Idles(s) == session' = [session EXCEPT ![s] = Quiet]

Named == UNION {{registry[r][i].payload : i \in DOMAIN registry[r]} : r \in Runs}

BeginCall(s, op, r, id, p) ==
  /\ ~ Active(s)
  /\ begun < MaxSaves
  /\ begun' = begun + 1
  /\ session' = [t \in Sessions |->
       IF t = s THEN [Quiet EXCEPT !.pc = IF op = "save" THEN "look" ELSE "load", !.op = op, !.run = r,
                        !.id = id, !.payload = p, !.alone = \A u \in Sessions : ~ Active(u)]
       ELSE IF Active(t) THEN [session[t] EXCEPT !.alone = FALSE] ELSE session[t]]
  /\ mixed' = IF \E t \in Sessions : Active(t) /\ session[t].run = r THEN mixed \cup {r} ELSE mixed
  /\ UNCHANGED <<kept, registry, registered, removed, contested, residue>>

SaveCheckpoint(s, r, p) == BeginCall(s, "save", r, begun + 1, p)

DeleteCheckpoint(s, r, id) == BeginCall(s, "delete", r, id, Nothing)

(* save_checkpoint_bytes puts the blob unless it exists.                     *)
LookUpBlob(s) ==
  /\ Stands(s, "look")
  /\ Proceed(s, IF session[s].payload \in kept THEN "load" ELSE "put")
  /\ UNCHANGED <<kept, registry, begun, registered, removed, mixed, contested, residue>>

PutCheckpoint(s) ==
  /\ Stands(s, "put")
  /\ kept' = kept \cup {session[s].payload}
  /\ Proceed(s, "load")
  /\ UNCHANGED <<registry, begun, registered, removed, mixed, contested, residue>>

----------------------------------------------------------------------------
(* What a call makes of the records it has read, and whose blobs it gives up. *)
Pushed(records, job) == Append(records, [id |-> job.id, payload |-> job.payload])

Overflow(records) == IF MaxCheckpoints > 0 /\ Len(records) > MaxCheckpoints
                       THEN Len(records) - MaxCheckpoints ELSE 0
\* A fault: the file is written without the records that were in it.
Saved_Fault(records, job) == Pushed(<<>>, job)

Saved(records, job) == LET all == Pushed(records, job)
                       IN  SubSeq(all, Overflow(all) + 1, Len(all))
(* Ids are drawn at random: a registry has one record of an id, or none.       *)
Retained(records, job) == RemoveAt(records, CHOOSE i \in DOMAIN records : records[i].id = job.id)
Payload(records) == {records[i].payload : i \in DOMAIN records}
Evicted(records, job) == LET all == Pushed(records, job)
                         IN  Payload(SubSeq(all, 1, Overflow(all)))
Deleted(records, job) == {records[i].payload : i \in {i \in DOMAIN records : records[i].id = job.id}}

LoadRegistry(s) ==
  LET job == session[s]
      records == registry[job.run]
  IN  /\ Stands(s, "load")
      /\ IF job.op = "save"
           THEN session' = [session EXCEPT ![s].pc = "write", ![s].read = ToSet(records),
                                           ![s].records = Saved(records, job), ![s].garbage = Evicted(records, job)]
           ELSE IF Deleted(records, job) = {} THEN Idles(s)
           ELSE session' = [session EXCEPT ![s].pc = "write", ![s].read = ToSet(records),
                                           ![s].records = Retained(records, job), ![s].garbage = Deleted(records, job)]
      /\ UNCHANGED <<kept, registry, begun, registered, removed, mixed, contested, residue>>

(* save_registry writes a temporary file and renames it over the registry; the *)
(* two are one step here, BlobFiles takes such a pair apart.                  *)
SaveRegistry(s) ==
  LET job == session[s]
  IN  /\ Stands(s, "write")
      /\ registry' = [registry EXCEPT ![job.run] = job.records]
      /\ registered' = IF job.op = "save" THEN [registered EXCEPT ![job.run] = Append(@, job.id)] ELSE registered
      /\ removed' = IF job.op = "delete" THEN removed \cup {job.id} ELSE removed
      /\ IF job.garbage = {} THEN Idles(s)
         ELSE session' = [session EXCEPT ![s].pc = "scan", ![s].read = {}, ![s].records = <<>>]
      /\ residue' = residue \cup {rec.payload : rec \in ToSet(registry[job.run]) \ job.read}
      /\ UNCHANGED <<kept, begun, mixed, contested>>

\* A fault: what other registries name is not spared.
ScanRegistries_Fault(s) ==
  /\ Stands(s, "scan")
  /\ Proceed(s, "gc")
  /\ UNCHANGED <<kept, registry, begun, registered, removed, mixed, contested, residue>>

(* gc_blob_ids: all registries are read, then what none names is deleted.    *)
ScanRegistries(s) ==
  LET garbage == session[s].garbage \ Named
  IN  /\ Stands(s, "scan")
      /\ IF garbage = {} THEN Idles(s)
         ELSE session' = [session EXCEPT ![s].pc = "gc", ![s].garbage = garbage]
      /\ UNCHANGED <<kept, registry, begun, registered, removed, mixed, contested, residue>>

DeleteGarbage(s, p) ==
  /\ Stands(s, "gc")
  /\ p \in session[s].garbage
  /\ kept' = kept \ {p}
  /\ contested' = IF session[s].alone THEN contested ELSE contested \cup {p}
  /\ IF session[s].garbage = {p} THEN Idles(s)
     ELSE session' = [session EXCEPT ![s].garbage = @ \ {p}]
  /\ UNCHANGED <<registry, begun, registered, removed, mixed, residue>>

(* The process dies here, or the next file operation fails and the call      *)
(* returns the error.                                                      *)
CutShort(s) ==
  /\ Active(s)
  /\ residue' = residue \cup (({session[s].payload} \cup session[s].garbage) \ {Nothing})
  /\ Idles(s)
  /\ UNCHANGED <<kept, registry, begun, registered, removed, mixed, contested>>

CheckpointStep(s) ==
  \/ LookUpBlob(s) \/ PutCheckpoint(s) \/ LoadRegistry(s) \/ SaveRegistry(s)
  \/ ScanRegistries(s) \/ (\E p \in Snapshots : DeleteGarbage(s, p)) \/ CutShort(s)

CheckpointNext ==
  \/ \E s \in Sessions, r \in Runs, p \in Snapshots : SaveCheckpoint(s, r, p)
  \/ \E s \in Sessions, r \in Runs, id \in 1..begun : DeleteCheckpoint(s, r, id)
  \/ \E s \in Sessions : CheckpointStep(s)

CheckpointSpec == CheckpointInit /\ [][CheckpointNext]_checkpointVars

----------------------------------------------------------------------------
CheckpointTypeOK ==
  /\ kept \subseteq Snapshots /\ contested \subseteq Snapshots /\ residue \subseteq Snapshots
  /\ \A r \in Runs : registry[r] \in Seq([id : 1..MaxSaves, payload : Snapshots])
  /\ mixed \subseteq Runs /\ removed \subseteq 1..MaxSaves

(* find_record: the last record, or the first that has the id asked for; its    *)
(* blob can be read as long as it is stored.                                 *)
FindRecord(r, id) ==
  LET found == {i \in DOMAIN registry[r] : IF id = 0 THEN i = Len(registry[r]) ELSE registry[r][i].id = id}
  IN  {registry[r][i] : i \in {i \in found : \A j \in found : i <= j}}
Restorable(rec) == rec.payload \in kept

(* Every checkpoint a registry lists can be loaded: contents are shared       *)
(* between checkpoints and runs, and a blob goes only when no registry names  *)
(* it, unless another call ran beside the one that deleted it.               *)
ListedRestorable ==
  \A r \in Runs : \A id \in {0} \cup {registry[r][i].id : i \in DOMAIN registry[r]} :
    \A rec \in FindRecord(r, id) : Restorable(rec) \/ rec.payload \in contested

(* A registered checkpoint stays listed until it is deleted or pushed out by  *)
(* as many newer ones as the run keeps, unless calls overlapped on the run.   *)
NewestKept ==
  \A r \in Runs \ mixed : \A i \in DOMAIN registered[r] :
    \/ registered[r][i] \in removed
    \/ MaxCheckpoints > 0 /\ Len(registered[r]) - i >= MaxCheckpoints
    \/ \E j \in DOMAIN registry[r] : registry[r][j].id = registered[r][i]

(* When nothing runs, only blobs of listed checkpoints are stored, and what   *)
(* calls that ended early left, or the records that another call, which had   *)
(* read the registry before, wrote over: no later call finds those.          *)
NoOrphans == (\A s \in Sessions : ~ Active(s)) => kept \subseteq Named \cup residue

(* Retention drops what it should, and nothing else.                        *)
RegistryKept == NewestKept /\ NoOrphans
=============================================================================
