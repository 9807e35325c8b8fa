---------------------------- MODULE BlobTransfer ----------------------------
(***************************************************************************)
(* A local blob store with remote copies: the native store of the Python      *)
(* package (PyFsBlobStore over FetchPipeline, peers, edges and source         *)
(* directories) and the Python class around it, which falls back on a search  *)
(* of its own when the native one fails.  Blobs do not interact; this is the  *)
(* life of one.  A call holds the interpreter lock: calls do not overlap, but *)
(* the copies on other nodes change between the native search and the        *)
(* fallback.                                                               *)
(***************************************************************************)
EXTENDS Naturals, Sequences, SequencesExt

CONSTANTS
  Peers,    \* peer addresses, in the order they are asked
  Edges,    \* edge addresses, in the order they are asked
  Sources,  \* source directories, in the order they are asked
  Self      \* the name the local copy is recorded under

ASSUME TransferAssumption ==
  /\ \A list \in {Peers, Edges, Sources} : list \in Seq(ToSet(list))
  /\ Self \notin ToSet(Peers \o Edges \o Sources)

VARIABLES
  copy,      \* what each node answers: nothing, the blob, damaged bytes, an error
  cache,     \* the local copy
  observed,  \* replica records, all of them Healthy
  asking,    \* the fallback of a Python call, still to come
  storeReturned,     \* history: a store of the blob returned, and it was not deleted since
  relied,    \* history: such a store, or a later one, put nothing for a node had the blob
  rotted,    \* history: the local file was damaged on disk
  poisoned   \* history: the fallback cached damaged bytes

transferVars == <<copy, cache, observed, asking, storeReturned, relied, rotted, poisoned>>

Remotes == Peers \o Edges \o Sources
Nodes == ToSet(Remotes)
Answers == {"absent", "good", "damaged"}
Nobody == "none"

TransferInit ==
  /\ copy \in [Nodes -> Answers]
  /\ cache = "absent"
  /\ observed = {} /\ asking = Nobody
  /\ storeReturned = FALSE /\ relied = FALSE /\ rotted = FALSE /\ poisoned = FALSE

----------------------------------------------------------------------------
Answering(list) == {i \in DOMAIN list : copy[list[i]] # "absent"}

(* The first node of a list that answers at all: bytes or an error.           *)
FirstAnswer(list) == IF Answering(list) = {} THEN Nobody ELSE list[Min(Answering(list))]
Answer(list) == IF FirstAnswer(list) = Nobody THEN "absent" ELSE copy[FirstAnswer(list)]

Record(nodes) == observed' = observed \cup (nodes \ {Nobody})

(* WeightBlobStore.put asks before it puts.  PyFsBlobStore::has looks at the    *)
(* local path, then downloads from peers and edges, then looks at the sources; *)
(* an error ends the search.  What is downloaded is not looked at.             *)
AskBeforeStore ==
  /\ asking = Nobody
  /\ IF cache # "absent"
       THEN /\ storeReturned' = TRUE
            /\ Record({Self})
            /\ UNCHANGED <<asking, relied>>
       ELSE IF Answer(Remotes) \in {"good", "damaged"}
       THEN /\ storeReturned' = TRUE /\ relied' = TRUE
            /\ Record({FirstAnswer(Remotes)})
            /\ UNCHANGED asking
       ELSE /\ asking' = "store"
            /\ UNCHANGED <<storeReturned, relied, observed>>
  /\ UNCHANGED <<copy, cache, rotted, poisoned>>

(* The Python class takes an error for a no and asks peers and edges itself;  *)
(* when that fails too, so does the store.                                   *)
StoreFallback ==
  LET bytes == Answer(Peers \o Edges)
  IN  /\ asking = "store"
      /\ asking' = Nobody
      /\ IF bytes = "absent"
           THEN /\ cache' = "good" /\ storeReturned' = TRUE
                /\ Record({Self})
                /\ UNCHANGED relied
           ELSE /\ storeReturned' = (storeReturned \/ bytes # "error")
                /\ relied' = (relied \/ bytes # "error")
                /\ UNCHANGED <<cache, observed>>
      /\ UNCHANGED <<copy, rotted, poisoned>>

----------------------------------------------------------------------------
\* A fault: the hash is not checked.
Verified_Fault == Answer(Remotes) \in {"good", "damaged"}

(* FetchPipeline::get_for: the first node that answers decides.  Its bytes are *)
(* verified before they are cached.                                         *)
Verified == Answer(Remotes) = "good"

(* PyFsBlobStore::get: a local copy is returned as it is.  The first source    *)
(* directory that has the blob is recorded before the search, the node that   *)
(* served it after.                                                        *)
Served ==
  LET from == FirstAnswer(Remotes)
  IN  IF from \in ToSet(Peers \o Edges) THEN {from} ELSE {FirstAnswer(Sources)}

GetNative ==
  /\ asking = Nobody
  /\ IF cache # "absent"
       THEN /\ Record({Self})
            /\ UNCHANGED <<cache, asking>>
       ELSE IF Verified
       THEN /\ cache' = Answer(Remotes)
            /\ Record({Self, FirstAnswer(Sources)} \cup Served)
            /\ UNCHANGED asking
       ELSE /\ asking' = "get"
            /\ Record({FirstAnswer(Sources)})
            /\ UNCHANGED cache
  /\ UNCHANGED <<copy, storeReturned, relied, rotted, poisoned>>

(* The Python class answers any error of the native get with its own search   *)
(* of peers and edges, puts what it finds into the local store, and returns   *)
(* it: nothing is verified on this way.                                     *)
GetFallback ==
  LET bytes == Answer(Peers \o Edges)
  IN  /\ asking = "get"
      /\ asking' = Nobody
      /\ IF bytes \in {"good", "damaged"}
           THEN /\ cache' = IF cache = "absent" THEN bytes ELSE cache
                /\ poisoned' = (poisoned \/ bytes = "damaged")
                /\ Record({Self})
           ELSE UNCHANGED <<cache, poisoned, observed>>
      /\ UNCHANGED <<copy, storeReturned, relied, rotted>>

DeleteLocal ==
  /\ asking = Nobody
  /\ cache' = "absent"
  /\ storeReturned' = FALSE /\ relied' = FALSE
  /\ UNCHANGED <<copy, observed, asking, rotted, poisoned>>

(* The nodes go their own way; the answer of a directory is never an error.    *)
NodeChanges(n) ==
  /\ copy' \in {[copy EXCEPT ![n] = a] : a \in Answers \cup (IF n \in ToSet(Sources) THEN {} ELSE {"error"})}
  /\ UNCHANGED <<cache, observed, asking, storeReturned, relied, rotted, poisoned>>

LocalDamage ==
  /\ cache = "good"
  /\ cache' = "damaged"
  /\ rotted' = TRUE
  /\ UNCHANGED <<copy, observed, asking, storeReturned, relied, poisoned>>

TransferNext ==
  \/ AskBeforeStore \/ StoreFallback \/ GetNative \/ GetFallback \/ DeleteLocal
  \/ \E n \in Nodes : NodeChanges(n)
  \/ LocalDamage

TransferSpec == TransferInit /\ [][TransferNext]_transferVars

----------------------------------------------------------------------------
TransferTypeOK ==
  /\ copy \in [Nodes -> Answers \cup {"error"}]
  /\ cache \in Answers
  /\ observed \subseteq Nodes \cup {Self}

(* Bytes of other nodes are verified before they are cached: a damaged local  *)
(* copy comes from the disk, or from the fallback of the Python class, which   *)
(* runs exactly when verification has refused the bytes.  And a store that     *)
(* returned has the blob here, unless another node said it had it, with bytes  *)
(* nobody verified and for as long as that node keeps it.                     *)
LocalCopySound ==
  /\ cache = "damaged" => rotted \/ poisoned
  /\ storeReturned /\ cache = "absent" => relied
=============================================================================
