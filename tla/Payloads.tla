------------------------------- MODULE Payloads -------------------------------
(***************************************************************************)
(* From bytes to blobs and back: an upload encrypts its payload for its       *)
(* origin, and stores the ciphertext as one blob or as chunks and a manifest  *)
(* that is a blob itself; get_payload decides by the look of the root blob     *)
(* which it is.  Blobs on disk are damaged and lost.                         *)
(*                                                                         *)
(* Bytes are sequences of symbols.  A blob's id is its content: hashes do not *)
(* collide.  A serialized chunk manifest is one symbol, a "doc", whoever      *)
(* wrote it.  A sealed symbol is a piece of authenticated ciphertext.         *)
(***************************************************************************)
EXTENDS Naturals, Sequences, FiniteSets, SequencesExt

CONSTANTS
  Assets,     \* origins
  Letters,    \* bytes of payloads
  Threshold,  \* inline_threshold
  MaxLetters, \* bound: length of a payload
  MaxHarm     \* bound: damages and losses

ASSUME PayloadAssumption == Threshold \in Nat \ {0} /\ MaxLetters \in Nat /\ MaxHarm \in Nat

VARIABLES
  cipher,   \* "null" or "aead", from the configuration
  blobs,    \* what is stored under each id
  root,     \* root blob of each uploaded origin
  sent,     \* history: what was uploaded
  harmed    \* history: ids damaged or lost

payloadVars == <<cipher, blobs, root, sent, harmed>>

Plain(x) == [kind |-> "plain", letter |-> x]
Doc(entries, total) == [kind |-> "doc", chunks |-> entries, size |-> total]
Entry(id) == [id |-> id, length |-> Len(id)]

(* What users upload: bytes, and once in a while the manifest of a payload.   *)
Texts == {[i \in DOMAIN s |-> Plain(s[i])] : s \in SeqOf(Letters, MaxLetters)}
Sendable == Texts \cup {<<Doc(<<Entry(<<Plain(x)>>)>>, 1)>> : x \in Letters}

NoBlobs == [id \in {} |-> <<>>]

PayloadInit ==
  /\ cipher \in {"null", "aead"}
  /\ blobs = NoBlobs
  /\ root = [o \in {} |-> <<>>]
  /\ sent = [o \in {} |-> <<>>]
  /\ harmed = {}

----------------------------------------------------------------------------
(* encrypt_for_origin.  NullCrypto changes nothing.  AeadCrypto derives the    *)
(* nonce from key and plaintext, so equal payloads of an origin give equal     *)
(* ciphertext; version, nonce and tag make it longer.                        *)
Seal(o, bytes) ==
  IF cipher = "null" THEN bytes
  ELSE [i \in 1..Len(bytes) + 1 |-> [kind |-> "sealed", by |-> o, text |-> bytes, at |-> i]]

Failure == [kind |-> "failure"]
Answered(bytes) == [kind |-> "bytes", bytes |-> bytes]

(* decrypt_for_origin fails unless the whole was sealed for this origin.      *)
Open(o, bytes) ==
  IF cipher = "null" THEN Answered(bytes)
  ELSE IF bytes # <<>> /\ bytes[1].kind = "sealed" /\ bytes = Seal(o, bytes[1].text)
  THEN Answered(bytes[1].text)
  ELSE Failure

(* FsBlobStore::put leaves what exists.                                     *)
PutAll(ids) == [id \in DOMAIN blobs \cup ids |-> IF id \in DOMAIN blobs THEN blobs[id] ELSE id]

(* The ways a chunker can divide bytes: it covers them, in order.            *)
Divisions(bytes) ==
  {<<bytes>>} \cup {<<SubSeq(bytes, 1, i), SubSeq(bytes, i + 1, Len(bytes))>> : i \in 1..Len(bytes) - 1}

Manifest(chunks) == <<Doc([i \in DOMAIN chunks |-> Entry(chunks[i])], Len(FlattenSeq(chunks)))>>

Recorded(o, id, bytes) ==
  /\ root' = [p \in DOMAIN root \cup {o} |-> IF p = o THEN id ELSE root[p]]
  /\ sent' = [p \in DOMAIN sent \cup {o} |-> IF p = o THEN bytes ELSE sent[p]]

UploadInline(o, bytes) ==
  LET sealed == Seal(o, bytes)
  IN  /\ o \notin DOMAIN root
      /\ Len(sealed) <= Threshold
      /\ blobs' = PutAll({sealed})
      /\ Recorded(o, sealed, bytes)
      /\ UNCHANGED <<cipher, harmed>>

UploadChunked(o, bytes, chunks) ==
  /\ o \notin DOMAIN root
  /\ Len(Seal(o, bytes)) > Threshold
  /\ blobs' = PutAll(ToSet(chunks) \cup {Manifest(chunks)})
  /\ Recorded(o, Manifest(chunks), bytes)
  /\ UNCHANGED <<cipher, harmed>>

----------------------------------------------------------------------------
(* verify_integrity: the bytes hash to the id.                              *)
Intact(id) == id \in DOMAIN blobs /\ blobs[id] = id

(* reassemble: every chunk is there, hashes to its id and has its length, and  *)
(* together they have the size declared.                                    *)
Reassembled(doc) ==
  LET bytes == FlattenSeq([i \in DOMAIN doc.chunks |-> doc.chunks[i].id])
  IN  IF /\ \A i \in DOMAIN doc.chunks : Intact(doc.chunks[i].id) /\ Len(doc.chunks[i].id) = doc.chunks[i].length
         /\ Len(bytes) = doc.size
      THEN Answered(bytes) ELSE Failure

(* try_parse_manifest takes any bytes that parse, from whoever.              *)
LooksLikeManifest(bytes) == Len(bytes) = 1 /\ bytes[1].kind = "doc"

\* A fault: a payload stored as one blob is not verified either.
GetPayload_Fault(o) ==
  IF root[o] \notin DOMAIN blobs THEN Failure
  ELSE IF LooksLikeManifest(blobs[root[o]])
  THEN LET whole == Reassembled(blobs[root[o]][1])
       IN  IF whole = Failure THEN Failure ELSE Open(o, whole.bytes)
  ELSE Open(o, blobs[root[o]])

(* get_payload: a root blob that parses as a manifest is not verified.        *)
GetPayload(o) ==
  IF root[o] \notin DOMAIN blobs THEN Failure
  ELSE IF LooksLikeManifest(blobs[root[o]])
  THEN LET whole == Reassembled(blobs[root[o]][1])
       IN  IF whole = Failure THEN Failure ELSE Open(o, whole.bytes)
  ELSE IF Intact(root[o]) THEN Open(o, blobs[root[o]])
  ELSE Failure

----------------------------------------------------------------------------
(* A file's content is replaced by other content, or the file is gone.        *)
Damage(id, other) ==
  /\ Cardinality(harmed) < MaxHarm
  /\ id \in DOMAIN blobs /\ other # blobs[id]
  /\ blobs' = [blobs EXCEPT ![id] = other]
  /\ harmed' = harmed \cup {id}
  /\ UNCHANGED <<cipher, root, sent>>

Lose(id) ==
  /\ Cardinality(harmed) < MaxHarm
  /\ id \in DOMAIN blobs
  /\ blobs' = [i \in DOMAIN blobs \ {id} |-> blobs[i]]
  /\ harmed' = harmed \cup {id}
  /\ UNCHANGED <<cipher, root, sent>>

PayloadNext ==
  \/ \E o \in Assets, bytes \in Sendable :
       \/ UploadInline(o, bytes)
       \/ \E chunks \in Divisions(Seal(o, bytes)) : UploadChunked(o, bytes, chunks)
  \/ \E id \in DOMAIN blobs : Lose(id) \/ \E other \in DOMAIN blobs \cup Sendable : Damage(id, other)

PayloadSpec == PayloadInit /\ [][PayloadNext]_payloadVars

----------------------------------------------------------------------------
PayloadTypeOK ==
  /\ DOMAIN root \subseteq Assets /\ DOMAIN sent = DOMAIN root
  /\ \A o \in DOMAIN sent : sent[o] \in Sendable

(* get_payload returns what was uploaded, or fails; it fails only after harm.  *)
(* Without encryption other bytes come back in one case: the root blob as it   *)
(* is now parses as a manifest and is believed, because it was damaged into    *)
(* one or because the payload looked like one when it was uploaded.           *)
ReadsBack ==
  \A o \in DOMAIN root :
    \/ GetPayload(o) = Answered(sent[o])
    \/ GetPayload(o) = Failure /\ harmed # {}
    \/ /\ cipher = "null"
       /\ root[o] \in DOMAIN blobs /\ LooksLikeManifest(blobs[root[o]])
       /\ root[o] \in harmed \/ LooksLikeManifest(sent[o])
=============================================================================
