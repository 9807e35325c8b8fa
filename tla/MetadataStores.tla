---------------------------- MODULE MetadataStores ----------------------------
(***************************************************************************)
(* The metadata interfaces of the engine have two implementations: maps in   *)
(* memory (MemIndex, MemPinStore, ...) and tables of one SQLite file         *)
(* (SqliteStore).  Both are given the same calls here, one at a time, and     *)
(* what they answer is compared.  No call touches two tables, so a behaviour  *)
(* exercises one.  Provenance is looked up on top of either.                 *)
(***************************************************************************)
EXTENDS Naturals, Sequences, FiniteSets, SequencesExt

CONSTANTS
  Owners,     \* origins
  Keys,       \* ids of pins, edges, shares
  Prints,     \* fingerprints of chunks
  MaxRefs,    \* bound: references counted
  MaxChunks   \* bound: chunks of a payload

ASSUME MetadataAssumption == MaxRefs \in Nat /\ MaxChunks \in Nat

VARIABLES
  table,   \* the table in use
  memory,  \* the maps
  sqlite,  \* the tables
  answers, \* what the last call answered, in memory and in SQLite
  misused  \* history: ids created twice, or updated before they were created or to another origin

storeVars == <<table, memory, sqlite, answers, misused>>

Tables == {"counts", "pins", "edges", "origins", "policies", "derivations", "shares", "prints"}
NoRows == [k \in {} |-> 0]
Empty == [counts |-> NoRows, pins |-> NoRows, edges |-> <<>>, origins |-> NoRows,
          policies |-> NoRows, derivations |-> NoRows, shares |-> NoRows,
          payloads |-> {}, chunks |-> {}]

StoreInit ==
  /\ table \in Tables
  /\ memory = Empty /\ sqlite = Empty
  /\ answers = <<"ok", "ok">>
  /\ misused = {}

----------------------------------------------------------------------------
Row(rows, k, v) == [x \in DOMAIN rows \cup {k} |-> IF x = k THEN v ELSE rows[x]]
Found(rows, k) == {rows[x] : x \in DOMAIN rows \cap {k}}
BothOk == answers' = <<"ok", "ok">>

GetCount(rows, o) == IF o \in DOMAIN rows THEN rows[o] ELSE 0
Less(n) == IF n = 0 THEN 0 ELSE n - 1

(* inc_origin and dec_origin; blobs are counted alike.  A decrement gives a   *)
(* map an entry it did not have, a table no row.                            *)
MemDec(rows, o) == Row(rows, o, Less(GetCount(rows, o)))
\* A fault: the clamp is at one.
SqlDec_Fault(rows, o) == IF GetCount(rows, o) > 1 THEN Row(rows, o, rows[o] - 1) ELSE rows

SqlDec(rows, o) == IF o \in DOMAIN rows THEN Row(rows, o, Less(rows[o])) ELSE rows

IncRef(o) ==
  /\ table = "counts"
  /\ GetCount(memory.counts, o) < MaxRefs
  /\ memory' = [memory EXCEPT !.counts = Row(@, o, GetCount(@, o) + 1)]
  /\ sqlite' = [sqlite EXCEPT !.counts = Row(@, o, GetCount(@, o) + 1)]
  /\ BothOk /\ UNCHANGED <<table, misused>>

DecRef(o) ==
  /\ table = "counts"
  /\ memory' = [memory EXCEPT !.counts = MemDec(@, o)]
  /\ sqlite' = [sqlite EXCEPT !.counts = SqlDec(@, o)]
  /\ BothOk /\ UNCHANGED <<table, misused>>

MemListed(rows) == DOMAIN rows
SqlListed(rows) == {o \in DOMAIN rows : rows[o] > 0}

----------------------------------------------------------------------------
(* Pins.  The row has a column for the origin, which an update leaves alone.  *)
Pins == [owner : Owners, whole : BOOLEAN, state : {"Pending", "Released"}]

MemCreatePin(rows, k, pin) == Row(rows, k, pin)
SqlCreatePin(rows, k, pin) == IF k \in DOMAIN rows THEN rows
                              ELSE Row(rows, k, [column |-> pin.owner, data |-> pin])
MemUpdatePin(rows, k, pin) == Row(rows, k, pin)
SqlUpdatePin(rows, k, pin) == IF k \in DOMAIN rows THEN [rows EXCEPT ![k].data = pin] ELSE rows

StorePin(k, pin) ==
  /\ table = "pins"
  /\ memory' = [memory EXCEPT !.pins = MemCreatePin(@, k, pin)]
  /\ sqlite' = [sqlite EXCEPT !.pins = SqlCreatePin(@, k, pin)]
  /\ answers' = <<"ok", IF k \in DOMAIN sqlite.pins THEN "failed" ELSE "ok">>
  /\ misused' = IF k \in DOMAIN memory.pins \cup DOMAIN sqlite.pins THEN misused \cup {k} ELSE misused
  /\ UNCHANGED table

UpdatePin(k, pin) ==
  /\ table = "pins"
  /\ memory' = [memory EXCEPT !.pins = MemUpdatePin(@, k, pin)]
  /\ sqlite' = [sqlite EXCEPT !.pins = SqlUpdatePin(@, k, pin)]
  /\ misused' = IF k \notin DOMAIN sqlite.pins \/ sqlite.pins[k].column # pin.owner
                  THEN misused \cup {k} ELSE misused
  /\ BothOk /\ UNCHANGED table

MemReleasePin(rows, k) == IF k \in DOMAIN rows THEN [rows EXCEPT ![k].state = "Released"] ELSE rows
SqlReleasePin(rows, k) ==
  IF k \in DOMAIN rows THEN SqlUpdatePin(rows, k, [rows[k].data EXCEPT !.state = "Released"]) ELSE rows

MarkReleased(k) ==
  /\ table = "pins"
  /\ memory' = [memory EXCEPT !.pins = MemReleasePin(@, k)]
  /\ sqlite' = [sqlite EXCEPT !.pins = SqlReleasePin(@, k)]
  /\ answers' = [i \in 1..2 |-> IF k \in DOMAIN (<<memory, sqlite>>[i]).pins THEN "ok" ELSE "NotFound"]
  /\ UNCHANGED <<table, misused>>

MemPin(k) == Found(memory.pins, k)
SqlPin(k) == {row.data : row \in Found(sqlite.pins, k)}

(* list_pins_for_origin: the map has pins of the whole origin only.         *)
MemPinsOf(o) == {k \in DOMAIN memory.pins : memory.pins[k].owner = o /\ memory.pins[k].whole}
SqlPinsOf(o) == {k \in DOMAIN sqlite.pins : sqlite.pins[k].column = o}

----------------------------------------------------------------------------
(* Lineage edges, in the order they were added.  The table refuses an id it   *)
(* has, the vector does not.                                                *)
SqlAddEdge(rows, e) == IF \E i \in DOMAIN rows : rows[i].id = e.id THEN rows ELSE Append(rows, e)

StoreEdge(k, o) ==
  LET e == [id |-> k, owner |-> o]
  IN  /\ table = "edges"
      /\ Len(memory.edges) <= Cardinality(Keys)
      /\ memory' = [memory EXCEPT !.edges = Append(@, e)]
      /\ sqlite' = [sqlite EXCEPT !.edges = SqlAddEdge(@, e)]
      /\ answers' = <<"ok", IF \E i \in DOMAIN sqlite.edges : sqlite.edges[i].id = k
                              THEN "failed" ELSE "ok">>
      /\ misused' = IF \E i \in DOMAIN sqlite.edges : sqlite.edges[i].id = k
                      THEN misused \cup {k} ELSE misused
      /\ UNCHANGED table

(* list_edges_for_origin: a list, as the pairs of edges of which the second is   *)
(* not listed before the first.                                             *)
EdgesOf(rows, o) ==
  LET listed == {i \in DOMAIN rows : rows[i].owner = o /\ rows[i].id \notin misused}
  IN  {<<rows[x[1]], rows[x[2]]>> : x \in {y \in listed \X listed : y[1] <= y[2]}}

----------------------------------------------------------------------------
(* Origin records: one of a kind, replaced or inserted by an update.  A record *)
(* is at one of these versions.                                              *)
Versions == {1, 2}

MemCreateOrigin(rows, o, v) == IF o \in DOMAIN rows THEN rows ELSE Row(rows, o, v)
SqlCreateOrigin(rows, o, v) == IF o \in DOMAIN rows THEN rows ELSE Row(rows, o, v)

CreateOrigin(o, v) ==
  /\ table = "origins"
  /\ memory' = [memory EXCEPT !.origins = MemCreateOrigin(@, o, v)]
  /\ sqlite' = [sqlite EXCEPT !.origins = SqlCreateOrigin(@, o, v)]
  /\ answers' = [i \in 1..2 |-> IF o \in DOMAIN (<<memory, sqlite>>[i]).origins THEN "Conflict" ELSE "ok"]
  /\ UNCHANGED <<table, misused>>

MemUpdateOrigin(rows, o, v) == Row(rows, o, v)
SqlUpdateOrigin(rows, o, v) == Row(rows, o, v)

UpdateOrigin(o, v) ==
  /\ table = "origins"
  /\ memory' = [memory EXCEPT !.origins = MemUpdateOrigin(@, o, v)]
  /\ sqlite' = [sqlite EXCEPT !.origins = SqlUpdateOrigin(@, o, v)]
  /\ BothOk /\ UNCHANGED <<table, misused>>

MemDeleteOrigin(rows, o) == [x \in DOMAIN rows \ {o} |-> rows[x]]
SqlDeleteOrigin(rows, o) == [x \in DOMAIN rows \ {o} |-> rows[x]]

DeleteOrigin(o) ==
  /\ table = "origins"
  /\ memory' = [memory EXCEPT !.origins = MemDeleteOrigin(@, o)]
  /\ sqlite' = [sqlite EXCEPT !.origins = SqlDeleteOrigin(@, o)]
  /\ BothOk /\ UNCHANGED <<table, misused>>

MemOrigin(o) == Found(memory.origins, o)
SqlOrigin(o) == Found(sqlite.origins, o)

(* Policies, one an origin, replaced by the next put.                       *)
MemPutPolicy(rows, o, v) == Row(rows, o, v)
SqlPutPolicy(rows, o, v) == Row(rows, o, v)

PutPolicy(o, v) ==
  /\ table = "policies"
  /\ memory' = [memory EXCEPT !.policies = MemPutPolicy(@, o, v)]
  /\ sqlite' = [sqlite EXCEPT !.policies = SqlPutPolicy(@, o, v)]
  /\ BothOk /\ UNCHANGED <<table, misused>>

MemPolicy(o) == Found(memory.policies, o)
SqlPolicy(o) == Found(sqlite.policies, o)

(* Derivations, keyed by origin and id in both.                             *)
MemPutDerivation(rows, m) == Row(rows, <<m.owner, m.id>>, m)
SqlPutDerivation(rows, m) == Row(rows, <<m.owner, m.id>>, m)

PutDerivation(m) ==
  /\ table = "derivations"
  /\ memory' = [memory EXCEPT !.derivations = MemPutDerivation(@, m)]
  /\ sqlite' = [sqlite EXCEPT !.derivations = SqlPutDerivation(@, m)]
  /\ BothOk /\ UNCHANGED <<table, misused>>

MemDerivation(o, k) == Found(memory.derivations, <<o, k>>)
SqlDerivation(o, k) == Found(sqlite.derivations, <<o, k>>)
MemDerivationsOf(o) == {m \in {memory.derivations[x] : x \in DOMAIN memory.derivations} : m.owner = o}
SqlDerivationsOf(o) == {sqlite.derivations[x] : x \in {y \in DOMAIN sqlite.derivations : y[1] = o}}

(* Shares, keyed by id.  The row has a column for the origin, and a put that   *)
(* replaces a row writes both.                                              *)
MemPutShare(rows, s) == Row(rows, s.id, s)
SqlPutShare(rows, s) == Row(rows, s.id, [column |-> s.owner, data |-> s])

PutShare(s) ==
  /\ table = "shares"
  /\ memory' = [memory EXCEPT !.shares = MemPutShare(@, s)]
  /\ sqlite' = [sqlite EXCEPT !.shares = SqlPutShare(@, s)]
  /\ BothOk /\ UNCHANGED <<table, misused>>

MemShare(k) == Found(memory.shares, k)
SqlShare(k) == {row.data : row \in Found(sqlite.shares, k)}
MemSharesOf(o) == {s \in {memory.shares[k] : k \in DOMAIN memory.shares} : s.owner = o}
SqlSharesOf(o) == {sqlite.shares[k].data : k \in {x \in DOMAIN sqlite.shares : sqlite.shares[x].column = o}}

Records == [owner : Owners, id : Keys, version : Versions]

----------------------------------------------------------------------------
(* Provenance.  A payload is the list of its chunks' fingerprints.  Both      *)
(* implementations keep a pair of fingerprint and origin once.  An origin is  *)
(* fingerprinted when it is uploaded, once.                                 *)
Contents == {c \in SeqOf(Prints, MaxChunks) : c # <<>>}

Fingerprint(o, content) ==
  LET Stored(t) == [t EXCEPT !.payloads = @ \cup {<<content, o>>},
                             !.chunks = @ \cup {<<f, o>> : f \in ToSet(content)}]
  IN  /\ table = "prints"
      /\ ~ \E p \in memory.payloads : p[2] = o
      /\ memory' = Stored(memory)
      /\ sqlite' = Stored(sqlite)
      /\ BothOk /\ UNCHANGED <<table, misused>>

(* find_by_chunk_fingerprints: a fingerprint that the query repeats counts    *)
(* as often in memory, and once in SQLite.                                  *)
MemMatched(content, o) == Cardinality({i \in DOMAIN content : <<content[i], o>> \in memory.chunks})
SqlMatched(content, o) == Cardinality({f \in ToSet(content) : <<f, o>> \in sqlite.chunks})

(* resolve_provenance, in twentieths of the number of chunks: an origin that  *)
(* has the payload is an exact match; another that shares chunks is an        *)
(* overlap, never surer than 0.95.                                          *)
Sure(content) == 20 * Len(content)
Overlap(content, matched) == IF 20 * matched > 19 * Len(content) THEN 19 * Len(content) ELSE 20 * matched

Resolved(content, payloads, matched) ==
  LET exact == {o \in Owners : <<content, o>> \in payloads}
  IN  {[owner |-> o, exact |-> TRUE, confidence |-> Sure(content)] : o \in exact} \cup
      {[owner |-> o, exact |-> FALSE, confidence |-> Overlap(content, matched[o])] :
         o \in {p \in Owners \ exact : matched[p] > 0}}

MemResolved(content) == Resolved(content, memory.payloads, [o \in Owners |-> MemMatched(content, o)])
SqlResolved(content) == Resolved(content, sqlite.payloads, [o \in Owners |-> SqlMatched(content, o)])

----------------------------------------------------------------------------
StoreNext ==
  \/ \E o \in Owners : IncRef(o) \/ DecRef(o)
  \/ \E k \in Keys, pin \in Pins : StorePin(k, pin) \/ UpdatePin(k, pin)
  \/ \E k \in Keys : MarkReleased(k)
  \/ \E k \in Keys, o \in Owners : StoreEdge(k, o)
  \/ \E o \in Owners, v \in Versions : CreateOrigin(o, v) \/ UpdateOrigin(o, v) \/ PutPolicy(o, v)
  \/ \E o \in Owners : DeleteOrigin(o)
  \/ \E r \in Records : PutDerivation(r) \/ PutShare(r)
  \/ \E o \in Owners, content \in Contents : Fingerprint(o, content)

StoreSpec == StoreInit /\ [][StoreNext]_storeVars

----------------------------------------------------------------------------
StoreTypeOK ==
  /\ table \in Tables /\ misused \subseteq Keys
  /\ \A t \in {memory, sqlite} : \A o \in DOMAIN t.counts : t.counts[o] \in 0..MaxRefs

(* The implementations can stand in for each other: the same calls are         *)
(* answered alike and read back the same.  They differ in what they list, SQLite leaving out what is        *)
(* counted zero and adding pins of single representations, and on ids used     *)
(* twice or updated unborn, which the engine, with fresh ids, never does.     *)
BackendsAgree ==
  /\ \A o \in Owners : GetCount(memory.counts, o) = GetCount(sqlite.counts, o)
  /\ SqlListed(sqlite.counts) = {o \in MemListed(memory.counts) : memory.counts[o] > 0}
  /\ misused = {} => answers[1] = answers[2]
  /\ \A k \in Keys \ misused : MemPin(k) = SqlPin(k)
  /\ \A o \in Owners :
       MemPinsOf(o) \ misused = {k \in SqlPinsOf(o) \ misused : sqlite.pins[k].data.whole}
  /\ \A o \in Owners : EdgesOf(memory.edges, o) = EdgesOf(sqlite.edges, o)
  /\ \A o \in Owners :
       /\ MemOrigin(o) = SqlOrigin(o) /\ MemPolicy(o) = SqlPolicy(o)
       /\ MemDerivationsOf(o) = SqlDerivationsOf(o) /\ MemSharesOf(o) = SqlSharesOf(o)
  /\ \A k \in Keys :
       /\ \A o \in Owners : MemDerivation(o, k) = SqlDerivation(o, k)
       /\ MemShare(k) = SqlShare(k)

(* Whoever uploaded exactly these bytes is listed, and ahead of every origin  *)
(* that only shares chunks with them, all of which are listed too; no origin   *)
(* is listed twice; and SQLite, which counts a repeated chunk once, lists the   *)
(* same origins with no more confidence.                                    *)
ExactFirst ==
  memory.chunks \cup sqlite.chunks # {} => \A content \in Contents :
    LET m == MemResolved(content)
        s == SqlResolved(content)
        Listed(r) == {c.owner : c \in r}
    IN  /\ \A r \in {m, s} :
             /\ \A c, d \in r : c.exact /\ ~ d.exact => c.confidence > d.confidence
             /\ \A c, d \in r : c.owner = d.owner => c = d
             /\ {c.owner : c \in {e \in r : e.exact}} = {o \in Owners : <<content, o>> \in memory.payloads}
        /\ Listed(m) = Listed(s)
        /\ \A c \in m, d \in s : c.owner = d.owner => d.confidence <= c.confidence
=============================================================================
