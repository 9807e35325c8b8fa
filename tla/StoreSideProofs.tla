---------------------------- MODULE StoreSideProofs ----------------------------
(***************************************************************************)
(* Theorems about what stands beside the stores, for every number of          *)
(* processes, nodes, clients, operators and signers, and without use of a      *)
(* bound: the files a put leaves behind (BlobFiles), the local copy of a        *)
(* remote blob (BlobTransfer), the shares of a lineage (ShareProofs), the two   *)
(* metadata backends (MetadataStores) and the repairs of replicas (Replicas).  *)
(***************************************************************************)
EXTENDS BlobFiles, BlobTransfer, ShareProofs, MetadataStores, Replicas, FiniteSetTheorems,
        WellFoundedInduction, TLAPS

(***************************************************************************)
(* The files of a put.                                                      *)
(***************************************************************************)
Writing(p) == putter[p].pc = "write"

PutsTypeOK ==
  /\ file \in Seq(SUBSET Parts)
  /\ blobFile \in 0..Len(file) /\ tmpFile \in 0..Len(file)
  /\ putter \in [Putters -> [pc : {"idle", "open", "write"}, at : Nat, left : SUBSET Parts]]

\* As long as no two puts had the temporary file open at once, the one that
\* writes it is alone, writes what the temporary path names, and has written what
\* it has not left; and the file at the blob's path is whole, and another one.
AloneInv ==
  /\ \A p \in Putters : Writing(p) =>
       /\ tmpFile # 0 /\ putter[p].at = tmpFile
       /\ Parts \ putter[p].left \subseteq file[tmpFile]
       /\ \A q \in Putters : Writing(q) => q = p
  /\ promise => Exists
  /\ Exists => file[blobFile] = Parts /\ tmpFile # blobFile

FileInv == overlapped \/ (PutsTypeOK /\ AloneInv)

-----------------------------------------------------------------------------
LEMMA FileInvImpliesWhole == FileInv => WholeUnlessOverlapped
  BY DEF FileInv, AloneInv, WholeUnlessOverlapped, Whole, Exists

LEMMA FileInvInit == FileInit => FileInv
  BY DEF FileInit, FileInv, PutsTypeOK, AloneInv, Writing, Exists, NotPutting

\* A put that returns at once, a deletion, and a put that ends: nothing is written.
LEMMA SkipKeepsInv ==
  ASSUME PutsTypeOK, AloneInv, NEW p \in Putters, PutSkips(p)
  PROVE  PutsTypeOK' /\ AloneInv'
  BY DEF PutSkips, PutsTypeOK, AloneInv, Writing, Exists

LEMMA StartKeepsInv ==
  ASSUME PutsTypeOK, AloneInv, NEW p \in Putters, PutStarts(p)
  PROVE  PutsTypeOK' /\ AloneInv'
<1>1. PutsTypeOK'
  BY DEF PutStarts, PutsTypeOK
<1>2. \A q \in Putters : Writing(q)' => q # p /\ putter'[q] = putter[q] /\ Writing(q)
  BY DEF PutStarts, PutsTypeOK, Writing
<1>3. QED
  BY <1>1, <1>2 DEF PutStarts, AloneInv, Exists

LEMMA EndKeepsInv ==
  ASSUME PutsTypeOK, AloneInv, NEW p \in Putters, PutDies(p)
  PROVE  PutsTypeOK' /\ AloneInv'
<1>1. PutsTypeOK'
  BY DEF PutDies, PutEnds, PutsTypeOK, NotPutting
<1>2. \A q \in Putters : Writing(q)' => q # p /\ putter'[q] = putter[q] /\ Writing(q)
  BY DEF PutDies, PutEnds, PutsTypeOK, Writing, NotPutting
<1>3. QED
  BY <1>1, <1>2 DEF PutDies, AloneInv, Exists

LEMMA DeleteKeepsInv ==
  ASSUME PutsTypeOK, AloneInv, DeleteFile
  PROVE  PutsTypeOK' /\ AloneInv'
  BY DEF DeleteFile, PutsTypeOK, AloneInv, Writing, Exists

\* Whoever wrote the temporary file before has gone, or this is an overlap.
LEMMA OpenKeepsInv ==
  ASSUME PutsTypeOK, AloneInv, NEW p \in Putters, OpenTmp(p), ~ overlapped'
  PROVE  PutsTypeOK' /\ AloneInv'
<1> DEFINE at == IF tmpFile = 0 THEN Len(file) + 1 ELSE tmpFile
<1>1. /\ file' = [f \in 1..Len(file) \cup {at} |-> IF f = at THEN {} ELSE file[f]]
      /\ tmpFile' = at /\ blobFile' = blobFile /\ promise' = promise
      /\ putter' = [putter EXCEPT ![p] = [pc |-> "write", at |-> at, left |-> Parts]]
      /\ \A q \in Putters : Writing(q) => putter[q].at # at
  BY DEF OpenTmp, Writing
<1>2. at \in Nat \ {0} /\ Len(file) \in Nat /\ at <= Len(file) + 1
  BY DEF PutsTypeOK
<1>3. \A q \in Putters : ~ Writing(q)
  BY <1>1 DEF AloneInv
<1> HIDE DEF at
<1>4. \E n \in Nat : 1..Len(file) \cup {at} = 1..n /\ Len(file) <= n /\ at <= n
  <2>1. CASE at = Len(file) + 1
    <3>1. 1..Len(file) \cup {at} = 1..at
      BY <1>2, <2>1
    <3>2. QED
      BY <1>2, <2>1, <3>1
  <2>2. CASE at <= Len(file)
    <3>1. 1..Len(file) \cup {at} = 1..Len(file)
      BY <1>2, <2>2
    <3>2. QED
      BY <1>2, <2>2, <3>1
  <2>3. QED
    BY <1>2, <2>1, <2>2
<1>5. PICK n \in Nat : file' = [f \in 1..n |-> IF f = at THEN {} ELSE file[f]] /\ Len(file) <= n /\ at <= n
                        /\ 1..Len(file) \cup {at} = 1..n
  BY <1>1, <1>4
<1>6. ASSUME NEW f \in 1..n
      PROVE  (IF f = at THEN {} ELSE file[f]) \in SUBSET Parts
  <2>1. CASE f = at
    BY <2>1
  <2>2. CASE f # at
    <3>1. f \in 1..Len(file)
      BY <1>5, <2>2
    <3>2. file[f] \in SUBSET Parts
      BY <3>1 DEF PutsTypeOK
    <3>3. QED
      BY <2>2, <3>2
  <2>3. QED
    BY <2>1, <2>2
<1>7. file' \in Seq(SUBSET Parts) /\ Len(file') = n
  BY <1>5, <1>6
<1>8. putter' \in [Putters -> [pc : {"idle", "open", "write"}, at : Nat, left : SUBSET Parts]]
  BY <1>1, <1>2 DEF PutsTypeOK
<1>9. PutsTypeOK'
  BY <1>1, <1>2, <1>5, <1>7, <1>8 DEF PutsTypeOK
<1>10. \A q \in Putters : Writing(q)' => q = p
  BY <1>1, <1>3 DEF PutsTypeOK, Writing
<1>11. putter'[p] = [pc |-> "write", at |-> at, left |-> Parts]
  BY <1>1 DEF PutsTypeOK
<1>12. Exists => blobFile # at /\ file'[blobFile] = file[blobFile]
  <2>1. Exists => blobFile \in 1..Len(file)
    BY DEF PutsTypeOK, Exists
  <2>2. Exists => blobFile # at
    BY <2>1, <1>2 DEF at, AloneInv
  <2>3. QED
    BY <1>1, <2>1, <2>2
<1>13. QED
  BY <1>1, <1>2, <1>9, <1>10, <1>11, <1>12 DEF AloneInv, Exists

LEMMA WriteKeepsInv ==
  ASSUME PutsTypeOK, AloneInv, NEW p \in Putters, NEW part \in Parts, WritePart(p, part)
  PROVE  PutsTypeOK' /\ AloneInv'
<1>1. /\ Writing(p) /\ blobFile' = blobFile /\ tmpFile' = tmpFile /\ promise' = promise
      /\ file' = [file EXCEPT ![putter[p].at] = @ \cup {part}]
      /\ putter' = [putter EXCEPT ![p].left = @ \ {part}]
  BY DEF WritePart, Writing
<1>2. /\ putter[p].at = tmpFile /\ tmpFile \in 1..Len(file)
      /\ Parts \ putter[p].left \subseteq file[tmpFile]
      /\ \A q \in Putters : Writing(q) => q = p
  BY <1>1 DEF AloneInv, PutsTypeOK
<1>3. file' \in Seq(SUBSET Parts) /\ Len(file') = Len(file)
  BY <1>1, <1>2 DEF PutsTypeOK
<1>4. /\ file'[tmpFile] = file[tmpFile] \cup {part}
      /\ \A f \in 1..Len(file) : f # tmpFile => file'[f] = file[f]
  BY <1>1, <1>2 DEF PutsTypeOK
<1>5. /\ putter' \in [Putters -> [pc : {"idle", "open", "write"}, at : Nat, left : SUBSET Parts]]
      /\ putter'[p].pc = putter[p].pc /\ putter'[p].at = putter[p].at
      /\ putter'[p].left = putter[p].left \ {part}
      /\ \A q \in Putters \ {p} : putter'[q] = putter[q]
  BY <1>1 DEF PutsTypeOK
<1>6. PutsTypeOK'
  BY <1>1, <1>3, <1>5 DEF PutsTypeOK
<1>7. Exists => blobFile \in 1..Len(file) /\ blobFile # tmpFile
  BY DEF PutsTypeOK, AloneInv, Exists
<1>8. QED
  BY <1>1, <1>2, <1>4, <1>5, <1>6, <1>7 DEF AloneInv, Exists, Writing

\* The only writer has left nothing: what is renamed is whole.
LEMMA RenameKeepsInv ==
  ASSUME PutsTypeOK, AloneInv, NEW p \in Putters, RenameTmp(p)
  PROVE  PutsTypeOK' /\ AloneInv'
<1>1. /\ Writing(p) /\ putter[p].left = {} /\ file' = file
      /\ putter' = [putter EXCEPT ![p] = NotPutting]
      /\ tmpFile # 0 => blobFile' = tmpFile /\ tmpFile' = 0 /\ promise' = TRUE
  BY DEF RenameTmp, PutEnds, Writing
<1>2. /\ tmpFile \in 1..Len(file) /\ Parts \subseteq file[tmpFile]
      /\ \A q \in Putters : Writing(q) => q = p
  BY <1>1 DEF AloneInv, PutsTypeOK
<1>3. file[tmpFile] = Parts
  <2>1. file[tmpFile] \in SUBSET Parts
    BY <1>2 DEF PutsTypeOK
  <2>2. QED
    BY <1>2, <2>1
<1>4. PutsTypeOK'
  BY <1>1, <1>2 DEF PutsTypeOK, NotPutting
<1>5. \A q \in Putters : ~ Writing(q)'
  BY <1>1, <1>2 DEF PutsTypeOK, Writing, NotPutting
<1>6. QED
  BY <1>1, <1>2, <1>3, <1>4, <1>5 DEF AloneInv, Exists

LEMMA FileInvStep == FileInv /\ [FileNext]_fileVars => FileInv'
<1> SUFFICES ASSUME FileInv, [FileNext]_fileVars, ~ overlapped'
             PROVE  PutsTypeOK' /\ AloneInv'
  BY DEF FileInv
<1>1. ~ overlapped
  BY DEF FileNext, PutSkips, PutStarts, OpenTmp, WritePart, RenameTmp, PutDies, DeleteFile, fileVars
<1>2. PutsTypeOK /\ AloneInv
  BY <1>1 DEF FileInv
<1>3. CASE UNCHANGED fileVars
  BY <1>2, <1>3 DEF fileVars, PutsTypeOK, AloneInv, Writing, Exists
<1>4. CASE DeleteFile
  BY <1>2, <1>4, DeleteKeepsInv
<1>5. ASSUME NEW p \in Putters,
             \/ PutSkips(p) \/ PutStarts(p) \/ OpenTmp(p) \/ RenameTmp(p) \/ PutDies(p)
             \/ \E part \in Parts : WritePart(p, part)
      PROVE  PutsTypeOK' /\ AloneInv'
  BY <1>2, <1>5, SkipKeepsInv, StartKeepsInv, OpenKeepsInv, RenameKeepsInv, EndKeepsInv, WriteKeepsInv
<1>6. QED
  BY <1>3, <1>4, <1>5 DEF FileNext

\* Puts of one blob that are killed anywhere, restarted, or run one after the
\* other never leave anything but the whole content under the blob's path.
THEOREM PutsLeaveWhole == FileSpec => []WholeUnlessOverlapped
<1>1. FileSpec => []FileInv
  BY FileInvInit, FileInvStep, PTL DEF FileSpec
<1>2. QED
  BY <1>1, FileInvImpliesWhole, PTL

(***************************************************************************)
(* The local copy of a remote blob.  What LocalCopySound says is kept by every *)
(* step: the only bytes that reach the cache unverified are those of the       *)
(* fallback, which says so, and the disk, which does too; and a store that put  *)
(* nothing had the blob here or leaned on another node.                       *)
(***************************************************************************)
LEMMA AskKeepsSound ==
  ASSUME LocalCopySound, AskBeforeStore
  PROVE  LocalCopySound'
<1>1. CASE cache # "absent"
  BY <1>1 DEF AskBeforeStore, LocalCopySound
<1>2. CASE cache = "absent"
  BY <1>2 DEF AskBeforeStore, LocalCopySound
<1>3. QED
  BY <1>1, <1>2

LEMMA StoreFallbackKeepsSound ==
  ASSUME LocalCopySound, StoreFallback
  PROVE  LocalCopySound'
<1> DEFINE bytes == Answer(Peers \o Edges)
<1>1. CASE bytes = "absent"
  BY <1>1 DEF StoreFallback, LocalCopySound
<1>2. CASE bytes # "absent"
  <2>1. /\ cache' = cache /\ rotted' = rotted /\ poisoned' = poisoned
        /\ storeReturned' = (storeReturned \/ bytes # "error")
        /\ relied' = (relied \/ bytes # "error")
    BY <1>2 DEF StoreFallback
  <2>2. QED
    BY <2>1 DEF LocalCopySound
<1>3. QED
  BY <1>1, <1>2

LEMMA GetNativeKeepsSound ==
  ASSUME LocalCopySound, GetNative
  PROVE  LocalCopySound'
<1>1. /\ cache' = cache \/ (Verified /\ cache' = Answer(Remotes))
      /\ UNCHANGED <<storeReturned, relied, rotted, poisoned>>
  BY DEF GetNative
<1>2. cache' = cache \/ cache' = "good"
  BY <1>1 DEF Verified
<1>3. QED
  BY <1>1, <1>2 DEF LocalCopySound

LEMMA GetFallbackKeepsSound ==
  ASSUME LocalCopySound, GetFallback
  PROVE  LocalCopySound'
<1> DEFINE bytes == Answer(Peers \o Edges)
<1>1. UNCHANGED <<storeReturned, relied, rotted>>
  BY DEF GetFallback
<1>2. CASE bytes \in {"good", "damaged"}
  <2>1. /\ cache' = IF cache = "absent" THEN bytes ELSE cache
        /\ poisoned' = (poisoned \/ bytes = "damaged")
    BY <1>2 DEF GetFallback
  <2>2. QED
    BY <1>1, <1>2, <2>1 DEF LocalCopySound
<1>3. CASE bytes \notin {"good", "damaged"}
  <2>1. cache' = cache /\ poisoned' = poisoned
    BY <1>3 DEF GetFallback
  <2>2. QED
    BY <1>1, <2>1 DEF LocalCopySound
<1>4. QED
  BY <1>2, <1>3

LEMMA TransferKeepsSound ==
  ASSUME LocalCopySound, [TransferNext]_transferVars
  PROVE  LocalCopySound'
<1>1. CASE DeleteLocal
  BY <1>1 DEF DeleteLocal, LocalCopySound
<1>2. CASE \E n \in Nodes : NodeChanges(n)
  BY <1>2 DEF NodeChanges, LocalCopySound
<1>3. CASE LocalDamage
  BY <1>3 DEF LocalDamage, LocalCopySound
<1>4. CASE UNCHANGED transferVars
  BY <1>4 DEF transferVars, LocalCopySound
<1>5. QED
  BY <1>1, <1>2, <1>3, <1>4, AskKeepsSound, StoreFallbackKeepsSound, GetNativeKeepsSound,
     GetFallbackKeepsSound DEF TransferNext

\* A damaged local copy comes from the disk or from the fallback of the Python
\* class, never from FetchPipeline::get_for; and a store that returned has the blob
\* here unless another node said it had it (PyFsBlobStore, FetchPipeline).
THEOREM CopyStaysSound == TransferSpec => []LocalCopySound
<1>1. TransferInit => LocalCopySound
  BY DEF TransferInit, LocalCopySound
<1>2. LocalCopySound /\ [TransferNext]_transferVars => LocalCopySound'
  BY TransferKeepsSound
<1>3. QED
  BY <1>1, <1>2, PTL DEF TransferSpec

(***************************************************************************)
(* The shares of a lineage.                                                 *)
(***************************************************************************)
IsShare(s) ==
  /\ s = [anchor |-> s.anchor, digest |-> s.digest, key |-> s.key, safe |-> s.safe]
  /\ s.anchor \in Nat /\ s.safe \in BOOLEAN

\* What a safe share rests on: its digest is still that of the edges before its
\* anchor, and neither an edge on its way nor one stamped from now on comes before.
Firm(s) == s.safe => /\ s.digest = Before(lineage, s.anchor)
                     /\ s.anchor <= clock
                     /\ AllAdded(s.anchor)

RequestInv(c) ==
  /\ request[c].pc = "adding" => request[c].at \in Nat
  /\ request[c].pc = "proving" => request[c].anchor \in Nat
  /\ request[c].pc = "recording" =>
       /\ request[c] = [pc |-> "recording", share |-> request[c].share]
       /\ IsShare(request[c].share) /\ Firm(request[c].share)

ProofInv ==
  /\ clock \in Nat
  /\ request = [c \in Clients |-> request[c]]
  /\ \A e \in lineage : e.at \in Nat
  /\ \A s \in shares : IsShare(s) /\ Firm(s)
  /\ \A c \in Clients : RequestInv(c)

-----------------------------------------------------------------------------
\* Adding an edge that is not before the cutoff leaves the digest alone.
LEMMA LateEdge ==
  ASSUME NEW edges, NEW e, NEW cutoff \in Nat, e.at \in Nat, e.at >= cutoff
  PROVE  Before(edges \cup {e}, cutoff) = Before(edges, cutoff)
  BY DEF Before

\* A share stays firm in every step that adds no edge, does not set the clock
\* back, and lets no request stamp an edge before the clock.
LEMMA FirmKept ==
  ASSUME ProofInv, NEW s, IsShare(s), Firm(s),
         lineage' = lineage, clock' \in Nat, clock' >= clock,
         \A c \in Clients : request'[c].pc = "adding" =>
           \/ request[c].pc = "adding" /\ request'[c].at = request[c].at
           \/ request'[c].at = clock
  PROVE  Firm(s)'
  BY DEF ProofInv, IsShare, Firm, AllAdded, Before

LEMMA ProofInvInit == ProofInit => ProofInv
  BY DEF ProofInit, ProofInv, RequestInv, NoRequest

LEMMA StampKeepsInv ==
  ASSUME ProofInv, NEW c \in Clients, StampEdge(c) \/ StampShare(c)
  PROVE  ProofInv'
<1> DEFINE stamped == [pc |-> "adding", at |-> clock]
<1>1. /\ request' = [request EXCEPT ![c] = stamped]
      /\ lineage' = lineage /\ clock' = clock /\ shares' = shares
  BY DEF StampEdge, StampShare, Becomes
<1>2. \A d \in Clients : request'[d] = IF d = c THEN stamped ELSE request[d]
  BY <1>1 DEF ProofInv
<1>3. ASSUME NEW s, IsShare(s), Firm(s)
      PROVE  Firm(s)'
  <2>1. clock' \in Nat /\ clock' >= clock
    BY <1>1 DEF ProofInv
  <2>2. \A d \in Clients : request'[d].pc = "adding" =>
          \/ request[d].pc = "adding" /\ request'[d].at = request[d].at
          \/ request'[d].at = clock
    BY <1>2
  <2>3. QED
    BY <1>1, <1>3, <2>1, <2>2, FirmKept
<1>4. ASSUME NEW d \in Clients
      PROVE  RequestInv(d)'
  <2>1. CASE d = c
    BY <2>1, <1>2 DEF RequestInv, ProofInv
  <2>2. CASE d # c
    BY <2>2, <1>2, <1>3 DEF RequestInv, ProofInv
  <2>3. QED
    BY <2>1, <2>2
<1>5. \A s \in shares' : IsShare(s) /\ Firm(s)'
  BY <1>1, <1>3 DEF ProofInv
<1>6. request' = [d \in Clients |-> request'[d]]
  BY <1>1 DEF ProofInv
<1>7. QED
  BY <1>1, <1>4, <1>5, <1>6 DEF ProofInv

LEMMA AddKeepsInv ==
  ASSUME ProofInv, NEW c \in Clients, AddEdge(c)
  PROVE  ProofInv'
<1> DEFINE new == [edge |-> Cardinality(lineage), at |-> request[c].at]
<1>1. /\ request' = [request EXCEPT ![c] = NoRequest]
      /\ lineage' = lineage \cup {new} /\ clock' = clock /\ shares' = shares
      /\ request[c].pc = "adding"
  BY DEF AddEdge, Becomes
<1>2. \A d \in Clients : request'[d] = IF d = c THEN NoRequest ELSE request[d]
  BY <1>1 DEF ProofInv
<1>3. new.at \in Nat /\ new.at = request[c].at
  BY <1>1 DEF ProofInv, RequestInv
<1>4. ASSUME NEW s, IsShare(s), Firm(s)
      PROVE  Firm(s)'
  <2> SUFFICES ASSUME s.safe
               PROVE  Firm(s)'
    BY <1>4 DEF Firm
  <2>1. s.anchor \in Nat /\ s.digest = Before(lineage, s.anchor) /\ s.anchor <= clock /\ AllAdded(s.anchor)
    BY <1>4 DEF Firm, IsShare
  <2>2. new.at >= s.anchor
    BY <2>1, <1>1, <1>3 DEF AllAdded
  <2>3. Before(lineage \cup {new}, s.anchor) = Before(lineage, s.anchor)
    <3> HIDE DEF new
    <3>1. QED
      BY <2>1, <2>2, <1>3, LateEdge
  <2>4. AllAdded(s.anchor)'
    BY <2>1, <1>2 DEF AllAdded, NoRequest
  <2>5. Before(lineage', s.anchor) = s.digest
    BY <2>1, <2>3, <1>1
  <2>6. QED
    BY <2>1, <2>4, <2>5, <1>1 DEF Firm, Before
<1>5. ASSUME NEW d \in Clients
      PROVE  RequestInv(d)'
  <2>1. CASE d = c
    BY <2>1, <1>2 DEF RequestInv, NoRequest
  <2>2. CASE d # c
    BY <2>2, <1>2, <1>4 DEF RequestInv, ProofInv
  <2>3. QED
    BY <2>1, <2>2
<1>6. \A s \in shares' : IsShare(s) /\ Firm(s)'
  BY <1>1, <1>4 DEF ProofInv
<1>7. \A e \in lineage' : e.at \in Nat
  <2> HIDE DEF new
  <2>1. QED
    BY <1>1, <1>3 DEF ProofInv
<1>8. request' = [d \in Clients |-> request'[d]]
  BY <1>1 DEF ProofInv
<1>9. clock' \in Nat
  BY <1>1 DEF ProofInv
<1>10. QED
  BY <1>5, <1>6, <1>7, <1>8, <1>9 DEF ProofInv

LEMMA BeginKeepsInv ==
  ASSUME ProofInv, NEW c \in Clients, BeginShare(c)
  PROVE  ProofInv'
<1> DEFINE proving == [pc |-> "proving", anchor |-> clock]
<1>1. /\ request' = [request EXCEPT ![c] = proving]
      /\ lineage' = lineage /\ clock' = clock /\ shares' = shares
  BY DEF BeginShare, Becomes
<1>2. \A d \in Clients : request'[d] = IF d = c THEN proving ELSE request[d]
  BY <1>1 DEF ProofInv
<1>3. ASSUME NEW s, IsShare(s), Firm(s)
      PROVE  Firm(s)'
  <2>1. clock' \in Nat /\ clock' >= clock
    BY <1>1 DEF ProofInv
  <2>2. \A d \in Clients : request'[d].pc = "adding" =>
          request[d].pc = "adding" /\ request'[d].at = request[d].at
    BY <1>2
  <2>3. QED
    BY <1>1, <1>3, <2>1, <2>2, FirmKept
<1>4. ASSUME NEW d \in Clients
      PROVE  RequestInv(d)'
  <2>1. CASE d = c
    BY <2>1, <1>2 DEF RequestInv, ProofInv
  <2>2. CASE d # c
    BY <2>2, <1>2, <1>3 DEF RequestInv, ProofInv
  <2>3. QED
    BY <2>1, <2>2
<1>5. \A s \in shares' : IsShare(s) /\ Firm(s)'
  BY <1>1, <1>3 DEF ProofInv
<1>6. request' = [d \in Clients |-> request'[d]]
  BY <1>1 DEF ProofInv
<1>7. QED
  BY <1>1, <1>4, <1>5, <1>6 DEF ProofInv

\* The share is safe by the very test that makes it firm.
LEMMA ProveKeepsInv ==
  ASSUME ProofInv, NEW c \in Clients, Prove(c)
  PROVE  ProofInv'
<1> DEFINE cutoff == request[c].anchor
           made == [anchor |-> cutoff, digest |-> Before(lineage, cutoff),
                    key |-> SignedBy, safe |-> AllAdded(cutoff) /\ clock >= cutoff]
           recording == [pc |-> "recording", share |-> made]
<1>1. /\ request' = [request EXCEPT ![c] = recording]
      /\ request[c].pc = "proving"
      /\ lineage' = lineage /\ clock' = clock /\ shares' = shares
  BY DEF Prove, Becomes
<1>2. \A d \in Clients : request'[d] = IF d = c THEN recording ELSE request[d]
  BY <1>1 DEF ProofInv
<1>3. ASSUME NEW s, IsShare(s), Firm(s)
      PROVE  Firm(s)'
  <2>1. clock' \in Nat /\ clock' >= clock
    BY <1>1 DEF ProofInv
  <2>2. \A d \in Clients : request'[d].pc = "adding" =>
          request[d].pc = "adding" /\ request'[d].at = request[d].at
    BY <1>2
  <2>3. QED
    BY <1>1, <1>3, <2>1, <2>2, FirmKept
<1>4. IsShare(made) /\ Firm(made)
  <2>1. cutoff \in Nat /\ clock \in Nat
    BY <1>1 DEF ProofInv, RequestInv
  <2>2. made.safe <=> AllAdded(cutoff) /\ clock >= cutoff
    OBVIOUS
  <2>3. made.safe \in BOOLEAN
    BY DEF AllAdded
  <2>4. IsShare(made)
    BY <2>1, <2>3 DEF IsShare
  <2>5. Firm(made)
    BY <2>1, <2>2 DEF Firm
  <2>6. QED
    BY <2>4, <2>5
<1>5. ASSUME NEW d \in Clients
      PROVE  RequestInv(d)'
  <2>1. CASE d = c
    <3>1. PICK share : share = made
      OBVIOUS
    <3>2. request'[d] = [pc |-> "recording", share |-> share]
      BY <2>1, <1>2, <3>1
    <3>3. IsShare(share) /\ Firm(share)
      BY <3>1, <1>4
    <3>4. Firm(share)'
      BY <3>3, <1>3
    <3>5. QED
      BY <3>2, <3>3, <3>4 DEF RequestInv, Firm, AllAdded, IsShare, Before
  <2>2. CASE d # c
    BY <2>2, <1>2, <1>3 DEF RequestInv, ProofInv
  <2>3. QED
    BY <2>1, <2>2
<1>6. \A s \in shares' : IsShare(s) /\ Firm(s)'
  BY <1>1, <1>3 DEF ProofInv
<1>7. request' = [d \in Clients |-> request'[d]]
  BY <1>1 DEF ProofInv
<1>8. QED
  BY <1>1, <1>5, <1>6, <1>7 DEF ProofInv

LEMMA RecordKeepsInv ==
  ASSUME ProofInv, NEW c \in Clients, RecordShare(c)
  PROVE  ProofInv'
<1> DEFINE stamping == [pc |-> "stamping"]
<1>1. /\ request' = [request EXCEPT ![c] = stamping]
      /\ request[c].pc = "recording"
      /\ lineage' = lineage /\ clock' = clock /\ shares' = shares \cup {request[c].share}
  BY DEF RecordShare, Becomes
<1>2. \A d \in Clients : request'[d] = IF d = c THEN stamping ELSE request[d]
  BY <1>1 DEF ProofInv
<1>3. ASSUME NEW s, IsShare(s), Firm(s)
      PROVE  Firm(s)'
  <2>1. clock' \in Nat /\ clock' >= clock
    BY <1>1 DEF ProofInv
  <2>2. \A d \in Clients : request'[d].pc = "adding" =>
          request[d].pc = "adding" /\ request'[d].at = request[d].at
    BY <1>2
  <2>3. QED
    BY <1>1, <1>3, <2>1, <2>2, FirmKept
<1>4. ASSUME NEW d \in Clients
      PROVE  RequestInv(d)'
  <2>1. CASE d = c
    BY <2>1, <1>2 DEF RequestInv
  <2>2. CASE d # c
    BY <2>2, <1>2, <1>3 DEF RequestInv, ProofInv
  <2>3. QED
    BY <2>1, <2>2
<1>5. \A s \in shares' : IsShare(s) /\ Firm(s)'
  <2>1. IsShare(request[c].share) /\ Firm(request[c].share)
    BY <1>1 DEF ProofInv, RequestInv
  <2>2. QED
    BY <1>1, <1>3, <2>1 DEF ProofInv
<1>6. request' = [d \in Clients |-> request'[d]]
  BY <1>1 DEF ProofInv
<1>7. QED
  BY <1>1, <1>4, <1>5, <1>6 DEF ProofInv

\* A restart forgets the requests; the clock goes on in a tick.
LEMMA TickKeepsInv ==
  ASSUME ProofInv, Tick \/ (\E key \in Signers \cup {Unsigned} : Restart(key))
  PROVE  ProofInv'
<1>1. /\ lineage' = lineage /\ shares' = shares
      /\ clock' = clock \/ clock' = clock + 1
      /\ request' = request \/ request' = [c \in Clients |-> NoRequest]
  BY DEF Tick, Restart
<1>2. clock' \in Nat /\ clock' >= clock
  BY <1>1 DEF ProofInv
<1>3. \A c \in Clients : request'[c] = request[c] \/ request'[c] = NoRequest
  BY <1>1
<1>4. ASSUME NEW s, IsShare(s), Firm(s)
      PROVE  Firm(s)'
  <2>1. \A c \in Clients : request'[c].pc = "adding" =>
          request[c].pc = "adding" /\ request'[c].at = request[c].at
    BY <1>3 DEF NoRequest
  <2>2. QED
    BY <1>1, <1>2, <1>4, <2>1, FirmKept
<1>5. ASSUME NEW c \in Clients
      PROVE  RequestInv(c)'
  <2>1. CASE request'[c] = NoRequest
    BY <2>1 DEF RequestInv, NoRequest
  <2>2. CASE request'[c] = request[c]
    BY <2>2, <1>4 DEF RequestInv, ProofInv
  <2>3. QED
    BY <2>1, <2>2, <1>3
<1>6. \A s \in shares' : IsShare(s) /\ Firm(s)'
  BY <1>1, <1>4 DEF ProofInv
<1>7. request' = [c \in Clients |-> request'[c]]
  BY <1>1 DEF ProofInv
<1>8. QED
  BY <1>1, <1>2, <1>5, <1>6, <1>7 DEF ProofInv

\* What a clock set back does to a share.
Doubted(s, time) == [s EXCEPT !.safe = @ /\ s.anchor <= time]

LEMMA SetBackKeepsInv ==
  ASSUME ProofInv, NEW time \in 0..MaxTime, SetBack(time)
  PROVE  ProofInv'
<1>1. /\ lineage' = lineage /\ clock' = time
      /\ shares' = {Doubted(s, time) : s \in shares}
      /\ request' = [c \in Clients |-> IF request[c].pc = "recording"
                       THEN [request[c] EXCEPT !.share = Doubted(@, time)] ELSE request[c]]
  BY DEF SetBack, Doubted
<1>2. \A c \in Clients : request[c].pc = "recording" =>
        request'[c] = [pc |-> "recording", share |-> Doubted(request[c].share, time)]
  BY <1>1 DEF ProofInv, RequestInv
<1>3. \A c \in Clients : request[c].pc # "recording" => request'[c] = request[c]
  BY <1>1
<1>4. ASSUME NEW s, IsShare(s), Firm(s), NEW t, t = Doubted(s, time)
      PROVE  IsShare(t) /\ Firm(t)'
  <2>1. t = [anchor |-> s.anchor, digest |-> s.digest, key |-> s.key, safe |-> s.safe /\ s.anchor <= time]
    BY <1>4 DEF Doubted, IsShare
  <2>2. IsShare(t)
    BY <2>1, <1>4 DEF IsShare
  <2>3. \A c \in Clients : request'[c].pc = "adding" =>
          request[c].pc = "adding" /\ request'[c].at = request[c].at
    <3> SUFFICES ASSUME NEW c \in Clients, request'[c].pc = "adding"
                 PROVE  request[c].pc = "adding" /\ request'[c].at = request[c].at
      OBVIOUS
    <3>1. request[c].pc # "recording"
      <4>1. SUFFICES ASSUME request[c].pc = "recording"
                     PROVE  request'[c].pc = "recording"
        OBVIOUS
      <4>2. request'[c] = [pc |-> "recording", share |-> Doubted(request[c].share, time)]
        BY <4>1, <1>2
      <4>3. QED
        BY <4>2
    <3>2. QED
      BY <3>1, <1>3
  <2>4. Firm(t)'
    <3> SUFFICES ASSUME t.safe
                 PROVE  Firm(t)'
      BY DEF Firm
    <3>1. t.safe = (s.safe /\ s.anchor <= time) /\ t.anchor = s.anchor /\ t.digest = s.digest
      BY <2>1
    <3>2. s.safe /\ s.anchor <= time
      BY <3>1
    <3>3. s.digest = Before(lineage, s.anchor) /\ AllAdded(s.anchor)
      BY <3>2, <1>4 DEF Firm
    <3>4. AllAdded(t.anchor)'
      BY <2>3, <3>1, <3>3 DEF AllAdded
    <3>5. QED
      BY <3>1, <3>2, <3>3, <3>4, <1>1 DEF Firm, Before
  <2>5. QED
    BY <2>2, <2>4
<1>5. ASSUME NEW c \in Clients
      PROVE  RequestInv(c)'
  <2>1. CASE request[c].pc = "recording"
    <3>1. PICK t : t = Doubted(request[c].share, time)
      OBVIOUS
    <3>2. IsShare(request[c].share) /\ Firm(request[c].share)
      BY <2>1 DEF ProofInv, RequestInv
    <3>3. IsShare(t) /\ Firm(t)'
      BY <3>1, <3>2, <1>4
    <3>4. request'[c] = [pc |-> "recording", share |-> t]
      BY <2>1, <3>1, <1>2
    <3>5. QED
      BY <3>3, <3>4 DEF RequestInv, Firm, AllAdded, IsShare, Before
  <2>2. CASE request[c].pc # "recording"
    BY <2>2, <1>3 DEF RequestInv, ProofInv
  <2>3. QED
    BY <2>1, <2>2
<1>6. \A t \in shares' : IsShare(t) /\ Firm(t)'
  BY <1>1, <1>4 DEF ProofInv
<1>7. request' = [c \in Clients |-> request'[c]]
  BY <1>1
<1>8. clock' \in Nat
  BY <1>1, ProofAssumption
<1>9. QED
  BY <1>1, <1>5, <1>6, <1>7, <1>8 DEF ProofInv

LEMMA ProofInvStep == ProofInv /\ [ProofNext]_proofVars => ProofInv'
<1> SUFFICES ASSUME ProofInv, [ProofNext]_proofVars
             PROVE  ProofInv'
  OBVIOUS
<1>1. ASSUME NEW c \in Clients,
             StampEdge(c) \/ AddEdge(c) \/ BeginShare(c) \/ Prove(c) \/ RecordShare(c) \/ StampShare(c)
      PROVE  ProofInv'
  BY <1>1, StampKeepsInv, AddKeepsInv, BeginKeepsInv, ProveKeepsInv, RecordKeepsInv
<1>2. CASE Tick \/ (\E key \in Signers \cup {Unsigned} : Restart(key))
  BY <1>2, TickKeepsInv
<1>3. ASSUME NEW time \in 0..MaxTime, SetBack(time)
      PROVE  ProofInv'
  BY <1>3, SetBackKeepsInv
<1>4. CASE UNCHANGED proofVars
  BY <1>4 DEF ProofInv, RequestInv, Firm, AllAdded, Before, IsShare, proofVars
<1>5. QED
  BY <1>1, <1>2, <1>3, <1>4 DEF ProofNext

\* A share verifies for good, whatever edges are added later, unless the server
\* has lost the signer, an edge stamped before the anchor was on its way when the
\* digest was computed, or the clock was set back past the anchor.
THEOREM SharesVerify == ProofSpec => []ProofHolds
<1>1. ProofInv => ProofHolds
  BY DEF ProofInv, ProofHolds, Firm, VerifyShare, SignatureHolds
<1>2. QED
  BY <1>1, ProofInvInit, ProofInvStep, PTL DEF ProofSpec

(***************************************************************************)
(* The metadata stores.  Each table of the one backend mirrors that of the     *)
(* other: the maps have an entry for whatever is counted, the rows a column     *)
(* for the owner.                                                           *)
(***************************************************************************)
HasTables(s) ==
  s = [counts |-> s.counts, pins |-> s.pins, edges |-> s.edges, origins |-> s.origins,
       policies |-> s.policies, derivations |-> s.derivations, shares |-> s.shares,
       payloads |-> s.payloads, chunks |-> s.chunks]

CountsMirror(mem, sql) ==
  /\ DOMAIN sql \subseteq DOMAIN mem
  /\ \A o \in DOMAIN mem : mem[o] \in Nat /\ mem[o] = GetCount(sql, o)

Labelled(row, data) == row = [column |-> data.owner, data |-> data]

PinsMirror(mem, sql, bad) ==
  /\ DOMAIN mem \subseteq Keys /\ DOMAIN sql \subseteq Keys
  /\ \A k \in Keys \ bad :
       /\ k \in DOMAIN mem <=> k \in DOMAIN sql
       /\ k \in DOMAIN mem => mem[k] \in Pins /\ Labelled(sql[k], mem[k])

EdgeRows(s) == s \in Seq([id : Keys, owner : Owners])
Listed(rows, o, bad) == {i \in DOMAIN rows : rows[i].owner = o /\ rows[i].id \notin bad}
Ordered(rows, o, bad) ==
  {<<rows[x[1]], rows[x[2]]>> : x \in {y \in Listed(rows, o, bad) \X Listed(rows, o, bad) : y[1] <= y[2]}}
EdgesMirror(mem, sql, bad) ==
  /\ EdgeRows(mem) /\ EdgeRows(sql)
  /\ \A o \in Owners : Ordered(mem, o, bad) = Ordered(sql, o, bad)

SharesMirror(mem, sql) ==
  /\ DOMAIN mem = DOMAIN sql
  /\ \A k \in DOMAIN mem : Labelled(sql[k], mem[k])

DerivationsKeyed(rows) == \A x \in DOMAIN rows : x = <<rows[x].owner, rows[x].id>>

MirrorInv ==
  /\ HasTables(memory) /\ HasTables(sqlite)
  /\ CountsMirror(memory.counts, sqlite.counts)
  /\ PinsMirror(memory.pins, sqlite.pins, misused)
  /\ EdgesMirror(memory.edges, sqlite.edges, misused)
  /\ memory.origins = sqlite.origins
  /\ memory.policies = sqlite.policies
  /\ memory.derivations = sqlite.derivations /\ DerivationsKeyed(memory.derivations)
  /\ SharesMirror(memory.shares, sqlite.shares)
  /\ memory.payloads = sqlite.payloads
  /\ memory.chunks = sqlite.chunks
  /\ misused = {} => answers[1] = answers[2]

LEMMA LabelledRow ==
  ASSUME NEW row, NEW data, Labelled(row, data)
  PROVE  row.column = data.owner /\ row.data = data
  BY DEF Labelled

\* What the tables say of each other is what BackendsAgree asks.
LEMMA CountsMirrorAgrees ==
  ASSUME NEW mem, NEW sql, CountsMirror(mem, sql)
  PROVE  /\ \A o \in Owners : GetCount(mem, o) = GetCount(sql, o)
         /\ SqlListed(sql) = {o \in MemListed(mem) : mem[o] > 0}
<1>1. \A o \in Owners : GetCount(mem, o) = GetCount(sql, o)
  BY DEF CountsMirror, GetCount
<1>2. \A o \in DOMAIN sql : o \in DOMAIN mem /\ mem[o] = sql[o]
  BY DEF CountsMirror, GetCount
<1>3. \A o \in DOMAIN mem : mem[o] > 0 => o \in DOMAIN sql
  BY DEF CountsMirror, GetCount
<1>4. QED
  BY <1>1, <1>2, <1>3 DEF SqlListed, MemListed

LEMMA MirrorImpliesAgree == MirrorInv => BackendsAgree
<1> SUFFICES ASSUME MirrorInv
             PROVE  BackendsAgree
  OBVIOUS
<1>1. /\ \A o \in Owners : GetCount(memory.counts, o) = GetCount(sqlite.counts, o)
      /\ SqlListed(sqlite.counts) = {o \in MemListed(memory.counts) : memory.counts[o] > 0}
  BY CountsMirrorAgrees DEF MirrorInv
<1>2. /\ \A k \in Keys \ misused : MemPin(k) = SqlPin(k)
      /\ \A o \in Owners :
           MemPinsOf(o) \ misused = {k \in SqlPinsOf(o) \ misused : sqlite.pins[k].data.whole}
  <2> DEFINE mem == memory.pins
             sql == sqlite.pins
  <2>1. /\ DOMAIN mem \subseteq Keys /\ DOMAIN sql \subseteq Keys
        /\ \A k \in Keys \ misused :
             /\ k \in DOMAIN mem <=> k \in DOMAIN sql
             /\ k \in DOMAIN mem => sql[k].column = mem[k].owner /\ sql[k].data = mem[k]
    BY LabelledRow DEF MirrorInv, PinsMirror
  <2>2. \A k \in Keys : /\ MemPin(k) = {mem[x] : x \in DOMAIN mem \cap {k}}
                        /\ SqlPin(k) = {sql[x].data : x \in DOMAIN sql \cap {k}}
    BY DEF MemPin, SqlPin, Found
  <2>3. \A o \in Owners : /\ MemPinsOf(o) = {k \in DOMAIN mem : mem[k].owner = o /\ mem[k].whole}
                          /\ SqlPinsOf(o) = {k \in DOMAIN sql : sql[k].column = o}
    BY DEF MemPinsOf, SqlPinsOf
  <2> HIDE DEF mem, sql
  <2>4. ASSUME NEW k \in Keys \ misused
        PROVE  MemPin(k) = SqlPin(k)
    BY <2>1, <2>2
  <2>5. ASSUME NEW o \in Owners
        PROVE  MemPinsOf(o) \ misused = {k \in SqlPinsOf(o) \ misused : sql[k].data.whole}
    BY <2>1, <2>3
  <2>6. QED
    BY <2>4, <2>5 DEF sql
<1>3. \A o \in Owners : EdgesOf(memory.edges, o) = EdgesOf(sqlite.edges, o)
  BY DEF MirrorInv, EdgesMirror, Ordered, Listed, EdgesOf
<1>4. \A o \in Owners :
        /\ MemOrigin(o) = SqlOrigin(o) /\ MemPolicy(o) = SqlPolicy(o)
        /\ \A k \in Keys : MemDerivation(o, k) = SqlDerivation(o, k)
  BY DEF MirrorInv, MemOrigin, SqlOrigin, MemPolicy, SqlPolicy, MemDerivation, SqlDerivation
<1>5. \A o \in Owners : MemDerivationsOf(o) = SqlDerivationsOf(o)
  BY DEF MirrorInv, DerivationsKeyed, MemDerivationsOf, SqlDerivationsOf
<1>6. /\ \A o \in Owners : MemSharesOf(o) = SqlSharesOf(o)
      /\ \A k \in Keys : MemShare(k) = SqlShare(k)
  <2> DEFINE mem == memory.shares
             sql == sqlite.shares
  <2>1. DOMAIN mem = DOMAIN sql /\ \A k \in DOMAIN mem : sql[k].column = mem[k].owner /\ sql[k].data = mem[k]
    BY LabelledRow DEF MirrorInv, SharesMirror
  <2>2. \A o \in Owners : /\ MemSharesOf(o) = {s \in {mem[k] : k \in DOMAIN mem} : s.owner = o}
                          /\ SqlSharesOf(o) = {sql[k].data : k \in {x \in DOMAIN sql : sql[x].column = o}}
    BY DEF MemSharesOf, SqlSharesOf
  <2>3. \A k \in Keys : /\ MemShare(k) = {mem[x] : x \in DOMAIN mem \cap {k}}
                        /\ SqlShare(k) = {sql[x].data : x \in DOMAIN sql \cap {k}}
    BY DEF MemShare, SqlShare, Found
  <2> HIDE DEF mem, sql
  <2>4. ASSUME NEW o \in Owners
        PROVE  MemSharesOf(o) = SqlSharesOf(o)
    <3>1. \A s : s \in MemSharesOf(o) <=> \E k \in DOMAIN mem : s = mem[k] /\ mem[k].owner = o
      BY <2>2
    <3>2. \A s : s \in SqlSharesOf(o) <=> \E k \in DOMAIN sql : s = sql[k].data /\ sql[k].column = o
      BY <2>2
    <3>3. \A s : s \in MemSharesOf(o) <=> s \in SqlSharesOf(o)
      BY <2>1, <3>1, <3>2
    <3>4. QED
      BY <3>3
  <2>5. ASSUME NEW k \in Keys
        PROVE  MemShare(k) = SqlShare(k)
    <3>1. MemShare(k) = IF k \in DOMAIN mem THEN {mem[k]} ELSE {}
      BY <2>3
    <3>2. SqlShare(k) = IF k \in DOMAIN sql THEN {sql[k].data} ELSE {}
      BY <2>3
    <3>3. QED
      BY <2>1, <3>1, <3>2
  <2>6. QED
    BY <2>4, <2>5
<1>7. QED
  BY <1>1, <1>2, <1>3, <1>4, <1>5, <1>6 DEF BackendsAgree, MirrorInv

-----------------------------------------------------------------------------
LEMMA MirrorInvInit == StoreInit => MirrorInv
<1> SUFFICES ASSUME StoreInit
             PROVE  MirrorInv
  OBVIOUS
<1>1. /\ memory = Empty /\ sqlite = Empty
      /\ answers = <<"ok", "ok">> /\ misused = {}
  BY DEF StoreInit
<1>2. /\ HasTables(Empty)
      /\ Empty.counts = NoRows /\ Empty.pins = NoRows /\ Empty.shares = NoRows
      /\ Empty.derivations = NoRows /\ Empty.edges = <<>>
  BY DEF Empty, HasTables
<1>3. DOMAIN NoRows = {}
  BY DEF NoRows
<1>4. CountsMirror(NoRows, NoRows) /\ PinsMirror(NoRows, NoRows, {}) /\ SharesMirror(NoRows, NoRows)
      /\ DerivationsKeyed(NoRows)
  BY <1>3 DEF CountsMirror, PinsMirror, SharesMirror, DerivationsKeyed
<1>5. EdgesMirror(<<>>, <<>>, {})
  BY DEF EdgesMirror, EdgeRows
<1>6. QED
  BY <1>1, <1>2, <1>4, <1>5 DEF MirrorInv

LEMMA IncMirrors ==
  ASSUME NEW mem, NEW sql, CountsMirror(mem, sql), NEW o
  PROVE  CountsMirror(Row(mem, o, GetCount(mem, o) + 1), Row(sql, o, GetCount(sql, o) + 1))
<1>1. GetCount(mem, o) = GetCount(sql, o) /\ GetCount(mem, o) \in Nat
  BY DEF CountsMirror, GetCount
<1> DEFINE n == GetCount(mem, o) + 1
           mem1 == Row(mem, o, n)
           sql1 == Row(sql, o, n)
<1>2. n \in Nat
  BY <1>1
<1> HIDE DEF n
<1>3. /\ DOMAIN mem1 = DOMAIN mem \cup {o} /\ mem1[o] = n
      /\ \A x \in DOMAIN mem \ {o} : mem1[x] = mem[x]
      /\ DOMAIN sql1 = DOMAIN sql \cup {o} /\ sql1[o] = n
      /\ \A x \in DOMAIN sql \ {o} : sql1[x] = sql[x]
  BY DEF Row
<1> HIDE DEF mem1, sql1
<1>4. CountsMirror(mem1, sql1)
  BY <1>2, <1>3 DEF CountsMirror, GetCount
<1>5. QED
  BY <1>1, <1>4 DEF mem1, sql1, n

LEMMA DecMirrors ==
  ASSUME NEW mem, NEW sql, CountsMirror(mem, sql), NEW o
  PROVE  CountsMirror(MemDec(mem, o), SqlDec(sql, o))
<1>1. GetCount(mem, o) = GetCount(sql, o) /\ GetCount(mem, o) \in Nat
  BY DEF CountsMirror, GetCount
<1> DEFINE n == Less(GetCount(mem, o))
           mem1 == Row(mem, o, n)
           sql1 == SqlDec(sql, o)
<1>2. n \in Nat /\ (GetCount(mem, o) = 0 => n = 0)
  BY <1>1 DEF Less
<1>3. o \in DOMAIN sql => sql1 = Row(sql, o, n)
  BY <1>1 DEF SqlDec, GetCount
<1>4. o \notin DOMAIN sql => sql1 = sql /\ n = 0
  BY <1>1, <1>2 DEF SqlDec, GetCount
<1> HIDE DEF n, sql1
<1>5. /\ DOMAIN mem1 = DOMAIN mem \cup {o} /\ mem1[o] = n
      /\ \A x \in DOMAIN mem \ {o} : mem1[x] = mem[x]
  BY DEF Row
<1>6. o \in DOMAIN sql => /\ DOMAIN sql1 = DOMAIN sql /\ sql1[o] = n
                         /\ \A x \in DOMAIN sql \ {o} : sql1[x] = sql[x]
  BY <1>3 DEF Row
<1> HIDE DEF mem1
<1>7. CountsMirror(mem1, sql1)
  BY <1>2, <1>4, <1>5, <1>6 DEF CountsMirror, GetCount
<1>8. QED
  BY <1>7 DEF mem1, sql1, n, MemDec

LEMMA CreatePinMirrors ==
  ASSUME NEW mem, NEW sql, NEW bad, PinsMirror(mem, sql, bad), NEW k \in Keys, NEW pin \in Pins
  PROVE  PinsMirror(MemCreatePin(mem, k, pin), SqlCreatePin(sql, k, pin),
                    IF k \in DOMAIN mem \cup DOMAIN sql THEN bad \cup {k} ELSE bad)
<1> DEFINE mem1 == MemCreatePin(mem, k, pin)
           sql1 == SqlCreatePin(sql, k, pin)
<1>1. DOMAIN mem1 = DOMAIN mem \cup {k} /\ mem1[k] = pin /\ \A x \in DOMAIN mem \ {k} : mem1[x] = mem[x]
  BY DEF MemCreatePin, Row
<1>2. CASE k \in DOMAIN sql
  <2>1. sql1 = sql
    BY <1>2 DEF SqlCreatePin
  <2> HIDE DEF mem1, sql1
  <2>2. PinsMirror(mem1, sql1, bad \cup {k})
    BY <1>1, <2>1 DEF PinsMirror
  <2>3. QED
    BY <1>2, <2>2 DEF mem1, sql1
<1>3. CASE k \notin DOMAIN sql
  <2>1. /\ DOMAIN sql1 = DOMAIN sql \cup {k} /\ sql1[k] = [column |-> pin.owner, data |-> pin]
        /\ \A x \in DOMAIN sql \ {k} : sql1[x] = sql[x]
    BY <1>3 DEF SqlCreatePin, Row
  <2> HIDE DEF mem1, sql1
  <2>2. PinsMirror(mem1, sql1, bad) /\ PinsMirror(mem1, sql1, bad \cup {k})
    BY <1>1, <2>1 DEF PinsMirror, Labelled
  <2>3. QED
    BY <2>2 DEF mem1, sql1
<1>4. QED
  BY <1>2, <1>3

LEMMA UpdatePinMirrors ==
  ASSUME NEW mem, NEW sql, NEW bad, PinsMirror(mem, sql, bad), NEW k \in Keys, NEW pin \in Pins
  PROVE  PinsMirror(MemUpdatePin(mem, k, pin), SqlUpdatePin(sql, k, pin),
                    IF k \notin DOMAIN sql \/ sql[k].column # pin.owner THEN bad \cup {k} ELSE bad)
<1> DEFINE mem1 == MemUpdatePin(mem, k, pin)
           sql1 == SqlUpdatePin(sql, k, pin)
<1>1. DOMAIN mem1 = DOMAIN mem \cup {k} /\ mem1[k] = pin /\ \A x \in DOMAIN mem \ {k} : mem1[x] = mem[x]
  BY DEF MemUpdatePin, Row
<1>2. DOMAIN sql1 = DOMAIN sql /\ \A x \in DOMAIN sql \ {k} : sql1[x] = sql[x]
  BY DEF SqlUpdatePin
<1>3. CASE k \in DOMAIN sql /\ sql[k].column = pin.owner
  <2>1. sql1[k] = [sql[k] EXCEPT !.data = pin]
    BY <1>3 DEF SqlUpdatePin
  <2>2. k \in Keys \ bad => k \in DOMAIN mem /\ Labelled(sql[k], mem[k])
    BY <1>3 DEF PinsMirror
  <2>3. k \in Keys \ bad => Labelled(sql1[k], pin)
    BY <1>3, <2>1, <2>2 DEF Labelled
  <2> HIDE DEF mem1, sql1
  <2>4. PinsMirror(mem1, sql1, bad)
    BY <1>1, <1>2, <1>3, <2>2, <2>3 DEF PinsMirror
  <2>5. QED
    BY <1>3, <2>4 DEF mem1, sql1
<1>4. CASE ~ (k \in DOMAIN sql /\ sql[k].column = pin.owner)
  <2> HIDE DEF mem1, sql1
  <2>1. PinsMirror(mem1, sql1, bad \cup {k})
    BY <1>1, <1>2 DEF PinsMirror
  <2>2. QED
    BY <1>4, <2>1 DEF mem1, sql1
<1>5. QED
  BY <1>3, <1>4

LEMMA ReleasePinMirrors ==
  ASSUME NEW mem, NEW sql, NEW bad, PinsMirror(mem, sql, bad), NEW k \in Keys
  PROVE  PinsMirror(MemReleasePin(mem, k), SqlReleasePin(sql, k), bad)
<1> DEFINE mem1 == MemReleasePin(mem, k)
           sql1 == SqlReleasePin(sql, k)
<1>1. /\ DOMAIN mem1 = DOMAIN mem /\ \A x \in DOMAIN mem \ {k} : mem1[x] = mem[x]
      /\ k \in DOMAIN mem => mem1[k] = [mem[k] EXCEPT !.state = "Released"]
  BY DEF MemReleasePin
<1>2. /\ DOMAIN sql1 = DOMAIN sql /\ \A x \in DOMAIN sql \ {k} : sql1[x] = sql[x]
      /\ k \in DOMAIN sql => sql1[k] = [sql[k] EXCEPT !.data = [sql[k].data EXCEPT !.state = "Released"]]
  BY DEF SqlReleasePin, SqlUpdatePin
<1>3. ASSUME k \notin bad, k \in DOMAIN mem
      PROVE  mem1[k] \in Pins /\ Labelled(sql1[k], mem1[k])
  <2>1. mem[k] \in Pins /\ Labelled(sql[k], mem[k]) /\ k \in DOMAIN sql
    BY <1>3 DEF PinsMirror
  <2>2. mem1[k] \in Pins /\ mem1[k].owner = mem[k].owner
    BY <1>1, <1>3, <2>1 DEF Pins
  <2>3. sql[k].data = mem[k] /\ sql1[k] = [sql[k] EXCEPT !.data = mem1[k]]
    BY <1>1, <1>2, <1>3, <2>1, LabelledRow
  <2>4. QED
    BY <2>1, <2>2, <2>3 DEF Labelled
<1> HIDE DEF mem1, sql1
<1>4. PinsMirror(mem1, sql1, bad)
  BY <1>1, <1>2, <1>3 DEF PinsMirror
<1>5. QED
  BY <1>4 DEF mem1, sql1

LEMMA OrderedMember ==
  ASSUME NEW rows, NEW o, NEW bad, NEW z
  PROVE  z \in Ordered(rows, o, bad)
           <=> \E i, j \in Listed(rows, o, bad) : i <= j /\ z = <<rows[i], rows[j]>>
<1> DEFINE listed == Listed(rows, o, bad)
           pairs == {y \in listed \X listed : y[1] <= y[2]}
<1>1. z \in Ordered(rows, o, bad) <=> \E x \in pairs : z = <<rows[x[1]], rows[x[2]]>>
  BY DEF Ordered
<1> HIDE DEF listed
<1>2. \A x \in pairs : x[1] \in listed /\ x[2] \in listed /\ x[1] <= x[2]
  OBVIOUS
<1>3. \A i, j \in listed : i <= j => <<i, j>> \in pairs /\ <<i, j>>[1] = i /\ <<i, j>>[2] = j
  OBVIOUS
<1> HIDE DEF pairs
<1>4. ASSUME z \in Ordered(rows, o, bad)
      PROVE  \E i, j \in listed : i <= j /\ z = <<rows[i], rows[j]>>
  <2>1. PICK x \in pairs : z = <<rows[x[1]], rows[x[2]]>>
    BY <1>1, <1>4
  <2>2. x[1] \in listed /\ x[2] \in listed /\ x[1] <= x[2]
    BY <1>2
  <2>3. QED
    BY <2>1, <2>2
<1>5. ASSUME NEW i \in listed, NEW j \in listed, i <= j, z = <<rows[i], rows[j]>>
      PROVE  z \in Ordered(rows, o, bad)
  <2> DEFINE x == <<i, j>>
  <2>1. x \in pairs /\ x[1] = i /\ x[2] = j
    BY <1>3, <1>5
  <2> HIDE DEF x
  <2>2. z = <<rows[x[1]], rows[x[2]]>>
    BY <1>5, <2>1
  <2>3. QED
    BY <1>1, <2>1, <2>2
<1>6. QED
  BY <1>4, <1>5 DEF listed

\* An edge that is appended comes after those that are listed, and itself.
LEMMA OrderedAppend ==
  ASSUME NEW rows, EdgeRows(rows), NEW e \in [id : Keys, owner : Owners], NEW o, NEW bad
  PROVE  Ordered(Append(rows, e), o, bad) =
           IF e.owner = o /\ e.id \notin bad
             THEN Ordered(rows, o, bad) \cup {<<f, e>> : f \in {x[1] : x \in Ordered(rows, o, bad)}} \cup {<<e, e>>}
             ELSE Ordered(rows, o, bad)
<1> DEFINE more == Append(rows, e)
           n == Len(rows)
           listed == Listed(rows, o, bad)
           listed1 == Listed(more, o, bad)
<1>1. /\ n \in Nat /\ DOMAIN rows = 1..n /\ DOMAIN more = 1..(n + 1)
      /\ more[n + 1] = e /\ \A i \in 1..n : more[i] = rows[i]
  BY DEF EdgeRows
<1>2. n + 1 \notin 1..n /\ 1..(n + 1) = 1..n \cup {n + 1} /\ \A i \in 1..n : i <= n + 1 /\ ~ (n + 1 <= i)
  BY <1>1
<1> HIDE DEF more, n
<1>3. listed \subseteq 1..n /\ listed1 = IF e.owner = o /\ e.id \notin bad THEN listed \cup {n + 1} ELSE listed
  BY <1>1, <1>2 DEF Listed
<1> HIDE DEF listed, listed1
<1>4. /\ \A z : z \in Ordered(rows, o, bad)
                  <=> \E i, j \in listed : i <= j /\ z = <<rows[i], rows[j]>>
      /\ \A z : z \in Ordered(more, o, bad)
                  <=> \E i, j \in listed1 : i <= j /\ z = <<more[i], more[j]>>
  BY OrderedMember DEF listed, listed1
<1>5. {x[1] : x \in Ordered(rows, o, bad)} = {rows[i] : i \in listed}
  <2>1. \A i \in listed : <<rows[i], rows[i]>> \in Ordered(rows, o, bad)
    BY <1>3, <1>4
  <2>2. \A x \in Ordered(rows, o, bad) : \E i \in listed : x[1] = rows[i]
    BY <1>4
  <2>3. \A i \in listed : rows[i] \in {x[1] : x \in Ordered(rows, o, bad)}
    <3> TAKE i \in listed
    <3>1. <<rows[i], rows[i]>>[1] = rows[i] /\ <<rows[i], rows[i]>> \in Ordered(rows, o, bad)
      BY <2>1
    <3>2. QED
      BY <3>1
  <2>4. QED
    BY <2>2, <2>3
<1>6. CASE ~ (e.owner = o /\ e.id \notin bad)
  <2>1. \A z : z \in Ordered(more, o, bad) <=> z \in Ordered(rows, o, bad)
    BY <1>1, <1>3, <1>4, <1>6
  <2>2. Ordered(more, o, bad) = Ordered(rows, o, bad)
    BY <2>1
  <2>3. QED
    BY <1>6, <2>2 DEF more
<1>7. CASE e.owner = o /\ e.id \notin bad
  <2> DEFINE old == Ordered(rows, o, bad)
             new == {<<f, e>> : f \in {x[1] : x \in old}}
  <2>1. \A z : z \in Ordered(more, o, bad) => z \in old \cup new \cup {<<e, e>>}
    <3> TAKE z
    <3> HAVE z \in Ordered(more, o, bad)
    <3>1. PICK i, j \in listed \cup {n + 1} : i <= j /\ z = <<more[i], more[j]>>
      BY <1>3, <1>4, <1>7
    <3>2. CASE j \in listed
      BY <1>1, <1>2, <1>3, <1>4, <3>1, <3>2
    <3>3. CASE j = n + 1 /\ i \in listed
      <4>1. z = <<rows[i], e>>
        BY <1>1, <1>3, <3>1, <3>3
      <4>2. QED
        BY <1>5, <3>3, <4>1
    <3>4. CASE j = n + 1 /\ i = n + 1
      BY <1>1, <3>1, <3>4
    <3>5. QED
      BY <3>1, <3>2, <3>3, <3>4
  <2>2. \A z \in old \cup new \cup {<<e, e>>} : z \in Ordered(more, o, bad)
    <3>1. \A z \in old : z \in Ordered(more, o, bad)
      BY <1>1, <1>3, <1>4, <1>7
    <3>2. \A i \in listed : <<rows[i], e>> \in Ordered(more, o, bad)
      <4> TAKE i \in listed
      <4>1. i \in listed1 /\ n + 1 \in listed1 /\ i <= n + 1 /\ <<rows[i], e>> = <<more[i], more[n + 1]>>
        BY <1>1, <1>2, <1>3, <1>7
      <4>2. QED
        BY <1>4, <4>1
    <3>3. <<e, e>> \in Ordered(more, o, bad)
      BY <1>1, <1>3, <1>4, <1>7
    <3>4. QED
      BY <1>5, <3>1, <3>2, <3>3
  <2>3. QED
    BY <1>7, <2>1, <2>2 DEF more
<1>8. QED
  BY <1>6, <1>7

\* More ids left out of account: fewer pairs.
Avoids(z, k) == z[1].id # k /\ z[2].id # k

LEMMA OrderedLess ==
  ASSUME NEW rows, NEW o, NEW bad, NEW k, NEW z
  PROVE  z \in Ordered(rows, o, bad \cup {k})
           <=> z \in Ordered(rows, o, bad) /\ Avoids(z, k)
<1> DEFINE listed == Listed(rows, o, bad)
           listed1 == Listed(rows, o, bad \cup {k})
<1>1. listed1 = {i \in listed : rows[i].id # k}
  BY DEF Listed
<1> DEFINE more == bad \cup {k}
<1> HIDE DEF more
<1>2. z \in Ordered(rows, o, bad)
        <=> \E i, j \in Listed(rows, o, bad) : i <= j /\ z = <<rows[i], rows[j]>>
  BY OrderedMember
<1>3. z \in Ordered(rows, o, more)
        <=> \E i, j \in Listed(rows, o, more) : i <= j /\ z = <<rows[i], rows[j]>>
  BY OrderedMember
<1>4. listed1 = Listed(rows, o, more)
  BY DEF more
<1> HIDE DEF listed1
<1>5. ASSUME NEW i, NEW j
      PROVE  <<rows[i], rows[j]>>[1] = rows[i] /\ <<rows[i], rows[j]>>[2] = rows[j]
  OBVIOUS
<1>6. ASSUME z \in Ordered(rows, o, more)
      PROVE  z \in Ordered(rows, o, bad) /\ Avoids(z, k)
  <2>1. PICK i, j \in listed1 : i <= j /\ z = <<rows[i], rows[j]>>
    BY <1>3, <1>4, <1>6
  <2>2. i \in listed /\ j \in listed /\ rows[i].id # k /\ rows[j].id # k
    BY <1>1, <2>1
  <2>3. z \in Ordered(rows, o, bad)
    BY <1>2, <2>1, <2>2
  <2>4. QED
    BY <1>5, <2>1, <2>2, <2>3 DEF Avoids
<1>7. ASSUME z \in Ordered(rows, o, bad), Avoids(z, k)
      PROVE  z \in Ordered(rows, o, more)
  <2>1. PICK i, j \in listed : i <= j /\ z = <<rows[i], rows[j]>>
    BY <1>2, <1>7
  <2>2. i \in listed1 /\ j \in listed1
    BY <1>1, <1>5, <1>7, <2>1 DEF Avoids
  <2>3. QED
    BY <1>3, <1>4, <2>1, <2>2
<1>8. QED
  BY <1>6, <1>7 DEF more

LeftOut(bad, k) == bad \cup {k}

LEMMA OrderedLessSame ==
  ASSUME NEW rows, NEW others, NEW o, NEW bad, NEW k, Ordered(rows, o, bad) = Ordered(others, o, bad)
  PROVE  Ordered(rows, o, LeftOut(bad, k)) = Ordered(others, o, LeftOut(bad, k))
<1>1. \A z : z \in Ordered(rows, o, bad \cup {k})
               <=> z \in Ordered(rows, o, bad) /\ Avoids(z, k)
  BY OrderedLess
<1>2. \A z : z \in Ordered(others, o, bad \cup {k})
               <=> z \in Ordered(others, o, bad) /\ Avoids(z, k)
  BY OrderedLess
<1>3. \A z : z \in Ordered(rows, o, bad \cup {k}) <=> z \in Ordered(others, o, bad \cup {k})
  BY <1>1, <1>2
<1>4. Ordered(rows, o, bad \cup {k}) = Ordered(others, o, bad \cup {k})
  BY <1>3
<1>5. QED
  BY <1>4 DEF LeftOut

LEMMA EdgeMirrors ==
  ASSUME NEW mem, NEW sql, NEW bad, EdgesMirror(mem, sql, bad), NEW e \in [id : Keys, owner : Owners]
  PROVE  EdgesMirror(Append(mem, e), SqlAddEdge(sql, e),
                     IF \E i \in DOMAIN sql : sql[i].id = e.id THEN bad \cup {e.id} ELSE bad)
<1>1. EdgeRows(Append(mem, e)) /\ EdgeRows(Append(sql, e))
  BY DEF EdgesMirror, EdgeRows
<1>2. CASE \E i \in DOMAIN sql : sql[i].id = e.id
  <2>1. SqlAddEdge(sql, e) = sql
    BY <1>2 DEF SqlAddEdge
  <2>2. ASSUME NEW o \in Owners
        PROVE  Ordered(Append(mem, e), o, bad \cup {e.id}) = Ordered(sql, o, bad \cup {e.id})
    <3>1. Ordered(Append(mem, e), o, bad \cup {e.id}) = Ordered(mem, o, bad \cup {e.id})
      <4> DEFINE more == bad \cup {e.id}
      <4>1. e.id \in more /\ EdgeRows(mem)
        BY DEF EdgesMirror
      <4> HIDE DEF more
      <4>2. Ordered(Append(mem, e), o, more) = Ordered(mem, o, more)
        BY <4>1, OrderedAppend
      <4>3. QED
        BY <4>2 DEF more
    <3>2. Ordered(mem, o, bad) = Ordered(sql, o, bad)
      BY DEF EdgesMirror
    <3>3. Ordered(mem, o, bad \cup {e.id}) = Ordered(sql, o, bad \cup {e.id})
      <4> DEFINE k == e.id
      <4> HIDE DEF k
      <4>1. Ordered(mem, o, LeftOut(bad, k)) = Ordered(sql, o, LeftOut(bad, k))
        BY <3>2, OrderedLessSame
      <4>2. QED
        BY <4>1 DEF k, LeftOut
    <3>4. QED
      BY <3>1, <3>3
  <2>3. QED
    BY <1>1, <1>2, <2>1, <2>2 DEF EdgesMirror
<1>3. CASE ~ \E i \in DOMAIN sql : sql[i].id = e.id
  <2>1. SqlAddEdge(sql, e) = Append(sql, e)
    BY <1>3 DEF SqlAddEdge
  <2>2. ASSUME NEW o \in Owners
        PROVE  Ordered(Append(mem, e), o, bad) = Ordered(Append(sql, e), o, bad)
    <3>1. Ordered(mem, o, bad) = Ordered(sql, o, bad) /\ EdgeRows(mem) /\ EdgeRows(sql)
      BY DEF EdgesMirror
    <3> DEFINE X == Ordered(sql, o, bad)
               More == IF e.owner = o /\ e.id \notin bad
                         THEN X \cup {<<f, e>> : f \in {x[1] : x \in X}} \cup {<<e, e>>}
                         ELSE X
    <3>2. Ordered(Append(mem, e), o, bad) = More
      BY <3>1, OrderedAppend
    <3>3. Ordered(Append(sql, e), o, bad) = More
      BY <3>1, OrderedAppend
    <3>4. QED
      BY <3>2, <3>3
  <2>3. QED
    BY <1>1, <1>3, <2>1, <2>2 DEF EdgesMirror
<1>4. QED
  BY <1>2, <1>3

-----------------------------------------------------------------------------
\* What a step that leaves a table alone keeps of it.
SameTables(s, t, fields) ==
  /\ HasTables(t)
  /\ "counts" \in fields => t.counts = s.counts
  /\ "pins" \in fields => t.pins = s.pins
  /\ "edges" \in fields => t.edges = s.edges
  /\ "origins" \in fields => t.origins = s.origins
  /\ "policies" \in fields => t.policies = s.policies
  /\ "derivations" \in fields => t.derivations = s.derivations
  /\ "shares" \in fields => t.shares = s.shares
  /\ t.payloads = s.payloads /\ t.chunks = s.chunks

TableNames == {"counts", "pins", "edges", "origins", "policies", "derivations", "shares"}

LEMMA IncKeepsMirror ==
  ASSUME MirrorInv, NEW o \in Owners, IncRef(o)
  PROVE  MirrorInv'
<1> DEFINE mem == Row(memory.counts, o, GetCount(memory.counts, o) + 1)
           sql == Row(sqlite.counts, o, GetCount(sqlite.counts, o) + 1)
<1>1. /\ memory' = [memory EXCEPT !.counts = mem] /\ sqlite' = [sqlite EXCEPT !.counts = sql]
      /\ misused' = misused /\ (misused' = {} => answers'[1] = answers'[2])
  BY DEF IncRef, BothOk
<1>2. CountsMirror(mem, sql)
  BY IncMirrors DEF MirrorInv
<1> HIDE DEF mem, sql
<1>3. /\ SameTables(memory, memory', TableNames \ {"counts"}) /\ memory'.counts = mem
      /\ SameTables(sqlite, sqlite', TableNames \ {"counts"}) /\ sqlite'.counts = sql
  <2>1. HasTables(memory) /\ HasTables(sqlite)
    BY DEF MirrorInv
  <2>2. SameTables(memory, memory', TableNames \ {"counts"}) /\ memory'.counts = mem
    BY <1>1, <2>1 DEF HasTables, SameTables, TableNames
  <2>3. SameTables(sqlite, sqlite', TableNames \ {"counts"}) /\ sqlite'.counts = sql
    BY <1>1, <2>1 DEF HasTables, SameTables, TableNames
  <2>4. QED
    BY <2>2, <2>3
<1>4. QED
  BY <1>1, <1>2, <1>3 DEF MirrorInv, SameTables, TableNames

LEMMA DecKeepsMirror ==
  ASSUME MirrorInv, NEW o \in Owners, DecRef(o)
  PROVE  MirrorInv'
<1> DEFINE mem == MemDec(memory.counts, o)
           sql == SqlDec(sqlite.counts, o)
<1>1. /\ memory' = [memory EXCEPT !.counts = mem] /\ sqlite' = [sqlite EXCEPT !.counts = sql]
      /\ misused' = misused /\ (misused' = {} => answers'[1] = answers'[2])
  BY DEF DecRef, BothOk
<1>2. CountsMirror(mem, sql)
  BY DecMirrors DEF MirrorInv
<1> HIDE DEF mem, sql
<1>3. /\ SameTables(memory, memory', TableNames \ {"counts"}) /\ memory'.counts = mem
      /\ SameTables(sqlite, sqlite', TableNames \ {"counts"}) /\ sqlite'.counts = sql
  <2>1. HasTables(memory) /\ HasTables(sqlite)
    BY DEF MirrorInv
  <2>2. SameTables(memory, memory', TableNames \ {"counts"}) /\ memory'.counts = mem
    BY <1>1, <2>1 DEF HasTables, SameTables, TableNames
  <2>3. SameTables(sqlite, sqlite', TableNames \ {"counts"}) /\ sqlite'.counts = sql
    BY <1>1, <2>1 DEF HasTables, SameTables, TableNames
  <2>4. QED
    BY <2>2, <2>3
<1>4. QED
  BY <1>1, <1>2, <1>3 DEF MirrorInv, SameTables, TableNames

LEMMA CreateOriginKeepsMirror ==
  ASSUME MirrorInv, NEW o \in Owners, NEW v \in Versions, CreateOrigin(o, v)
  PROVE  MirrorInv'
<1> DEFINE mem == MemCreateOrigin(memory.origins, o, v)
           sql == SqlCreateOrigin(sqlite.origins, o, v)
<1>1. /\ memory' = [memory EXCEPT !.origins = mem] /\ sqlite' = [sqlite EXCEPT !.origins = sql]
      /\ misused' = misused /\ (misused' = {} => answers'[1] = answers'[2])
  BY DEF CreateOrigin, MirrorInv
<1>2. mem = sql
  BY DEF MirrorInv, MemCreateOrigin, SqlCreateOrigin
<1> HIDE DEF mem, sql
<1>3. /\ SameTables(memory, memory', TableNames \ {"origins"}) /\ memory'.origins = mem
      /\ SameTables(sqlite, sqlite', TableNames \ {"origins"}) /\ sqlite'.origins = sql
  <2>1. HasTables(memory) /\ HasTables(sqlite)
    BY DEF MirrorInv
  <2>2. SameTables(memory, memory', TableNames \ {"origins"}) /\ memory'.origins = mem
    BY <1>1, <2>1 DEF HasTables, SameTables, TableNames
  <2>3. SameTables(sqlite, sqlite', TableNames \ {"origins"}) /\ sqlite'.origins = sql
    BY <1>1, <2>1 DEF HasTables, SameTables, TableNames
  <2>4. QED
    BY <2>2, <2>3
<1>4. QED
  BY <1>1, <1>2, <1>3 DEF MirrorInv, SameTables, TableNames

LEMMA UpdateOriginKeepsMirror ==
  ASSUME MirrorInv, NEW o \in Owners, NEW v \in Versions, UpdateOrigin(o, v)
  PROVE  MirrorInv'
<1> DEFINE mem == MemUpdateOrigin(memory.origins, o, v)
           sql == SqlUpdateOrigin(sqlite.origins, o, v)
<1>1. /\ memory' = [memory EXCEPT !.origins = mem] /\ sqlite' = [sqlite EXCEPT !.origins = sql]
      /\ misused' = misused /\ (misused' = {} => answers'[1] = answers'[2])
  BY DEF UpdateOrigin, BothOk
<1>2. mem = sql
  BY DEF MirrorInv, MemUpdateOrigin, SqlUpdateOrigin
<1> HIDE DEF mem, sql
<1>3. /\ SameTables(memory, memory', TableNames \ {"origins"}) /\ memory'.origins = mem
      /\ SameTables(sqlite, sqlite', TableNames \ {"origins"}) /\ sqlite'.origins = sql
  <2>1. HasTables(memory) /\ HasTables(sqlite)
    BY DEF MirrorInv
  <2>2. SameTables(memory, memory', TableNames \ {"origins"}) /\ memory'.origins = mem
    BY <1>1, <2>1 DEF HasTables, SameTables, TableNames
  <2>3. SameTables(sqlite, sqlite', TableNames \ {"origins"}) /\ sqlite'.origins = sql
    BY <1>1, <2>1 DEF HasTables, SameTables, TableNames
  <2>4. QED
    BY <2>2, <2>3
<1>4. QED
  BY <1>1, <1>2, <1>3 DEF MirrorInv, SameTables, TableNames

LEMMA DeleteOriginKeepsMirror ==
  ASSUME MirrorInv, NEW o \in Owners, DeleteOrigin(o)
  PROVE  MirrorInv'
<1> DEFINE mem == MemDeleteOrigin(memory.origins, o)
           sql == SqlDeleteOrigin(sqlite.origins, o)
<1>1. /\ memory' = [memory EXCEPT !.origins = mem] /\ sqlite' = [sqlite EXCEPT !.origins = sql]
      /\ misused' = misused /\ (misused' = {} => answers'[1] = answers'[2])
  BY DEF DeleteOrigin, BothOk
<1>2. mem = sql
  BY DEF MirrorInv, MemDeleteOrigin, SqlDeleteOrigin
<1> HIDE DEF mem, sql
<1>3. /\ SameTables(memory, memory', TableNames \ {"origins"}) /\ memory'.origins = mem
      /\ SameTables(sqlite, sqlite', TableNames \ {"origins"}) /\ sqlite'.origins = sql
  <2>1. HasTables(memory) /\ HasTables(sqlite)
    BY DEF MirrorInv
  <2>2. SameTables(memory, memory', TableNames \ {"origins"}) /\ memory'.origins = mem
    BY <1>1, <2>1 DEF HasTables, SameTables, TableNames
  <2>3. SameTables(sqlite, sqlite', TableNames \ {"origins"}) /\ sqlite'.origins = sql
    BY <1>1, <2>1 DEF HasTables, SameTables, TableNames
  <2>4. QED
    BY <2>2, <2>3
<1>4. QED
  BY <1>1, <1>2, <1>3 DEF MirrorInv, SameTables, TableNames

LEMMA PutPolicyKeepsMirror ==
  ASSUME MirrorInv, NEW o \in Owners, NEW v \in Versions, PutPolicy(o, v)
  PROVE  MirrorInv'
<1> DEFINE mem == MemPutPolicy(memory.policies, o, v)
           sql == SqlPutPolicy(sqlite.policies, o, v)
<1>1. /\ memory' = [memory EXCEPT !.policies = mem] /\ sqlite' = [sqlite EXCEPT !.policies = sql]
      /\ misused' = misused /\ (misused' = {} => answers'[1] = answers'[2])
  BY DEF PutPolicy, BothOk
<1>2. mem = sql
  BY DEF MirrorInv, MemPutPolicy, SqlPutPolicy
<1> HIDE DEF mem, sql
<1>3. /\ SameTables(memory, memory', TableNames \ {"policies"}) /\ memory'.policies = mem
      /\ SameTables(sqlite, sqlite', TableNames \ {"policies"}) /\ sqlite'.policies = sql
  <2>1. HasTables(memory) /\ HasTables(sqlite)
    BY DEF MirrorInv
  <2>2. SameTables(memory, memory', TableNames \ {"policies"}) /\ memory'.policies = mem
    BY <1>1, <2>1 DEF HasTables, SameTables, TableNames
  <2>3. SameTables(sqlite, sqlite', TableNames \ {"policies"}) /\ sqlite'.policies = sql
    BY <1>1, <2>1 DEF HasTables, SameTables, TableNames
  <2>4. QED
    BY <2>2, <2>3
<1>4. QED
  BY <1>1, <1>2, <1>3 DEF MirrorInv, SameTables, TableNames

LEMMA PutDerivationKeepsMirror ==
  ASSUME MirrorInv, NEW m \in Records, PutDerivation(m)
  PROVE  MirrorInv'
<1> DEFINE mem == MemPutDerivation(memory.derivations, m)
           sql == SqlPutDerivation(sqlite.derivations, m)
<1>1. /\ memory' = [memory EXCEPT !.derivations = mem] /\ sqlite' = [sqlite EXCEPT !.derivations = sql]
      /\ misused' = misused /\ (misused' = {} => answers'[1] = answers'[2])
  BY DEF PutDerivation, BothOk
<1>2. mem = sql /\ DerivationsKeyed(mem)
  BY DEF MirrorInv, MemPutDerivation, SqlPutDerivation, DerivationsKeyed, Row
<1> HIDE DEF mem, sql
<1>3. /\ SameTables(memory, memory', TableNames \ {"derivations"}) /\ memory'.derivations = mem
      /\ SameTables(sqlite, sqlite', TableNames \ {"derivations"}) /\ sqlite'.derivations = sql
  <2>1. HasTables(memory) /\ HasTables(sqlite)
    BY DEF MirrorInv
  <2>2. SameTables(memory, memory', TableNames \ {"derivations"}) /\ memory'.derivations = mem
    BY <1>1, <2>1 DEF HasTables, SameTables, TableNames
  <2>3. SameTables(sqlite, sqlite', TableNames \ {"derivations"}) /\ sqlite'.derivations = sql
    BY <1>1, <2>1 DEF HasTables, SameTables, TableNames
  <2>4. QED
    BY <2>2, <2>3
<1>4. QED
  BY <1>1, <1>2, <1>3 DEF MirrorInv, SameTables, TableNames

LEMMA PutShareKeepsMirror ==
  ASSUME MirrorInv, NEW s \in Records, PutShare(s)
  PROVE  MirrorInv'
<1> DEFINE mem == MemPutShare(memory.shares, s)
           sql == SqlPutShare(sqlite.shares, s)
<1>1. /\ memory' = [memory EXCEPT !.shares = mem] /\ sqlite' = [sqlite EXCEPT !.shares = sql]
      /\ misused' = misused /\ (misused' = {} => answers'[1] = answers'[2])
  BY DEF PutShare, BothOk
<1>2. SharesMirror(mem, sql)
  BY DEF MirrorInv, MemPutShare, SqlPutShare, SharesMirror, Labelled, Row
<1> HIDE DEF mem, sql
<1>3. /\ SameTables(memory, memory', TableNames \ {"shares"}) /\ memory'.shares = mem
      /\ SameTables(sqlite, sqlite', TableNames \ {"shares"}) /\ sqlite'.shares = sql
  <2>1. HasTables(memory) /\ HasTables(sqlite)
    BY DEF MirrorInv
  <2>2. SameTables(memory, memory', TableNames \ {"shares"}) /\ memory'.shares = mem
    BY <1>1, <2>1 DEF HasTables, SameTables, TableNames
  <2>3. SameTables(sqlite, sqlite', TableNames \ {"shares"}) /\ sqlite'.shares = sql
    BY <1>1, <2>1 DEF HasTables, SameTables, TableNames
  <2>4. QED
    BY <2>2, <2>3
<1>4. QED
  BY <1>1, <1>2, <1>3 DEF MirrorInv, SameTables, TableNames

\* Ids that are misused are left out of account in both tables that have ids.
LEMMA MisusedMore ==
  ASSUME NEW mem, NEW sql, NEW bad, NEW k
  PROVE  /\ PinsMirror(mem, sql, bad) => PinsMirror(mem, sql, LeftOut(bad, k))
         /\ EdgesMirror(mem, sql, bad) => EdgesMirror(mem, sql, LeftOut(bad, k))
<1>1. PinsMirror(mem, sql, bad) => PinsMirror(mem, sql, LeftOut(bad, k))
  BY DEF PinsMirror, LeftOut
<1>2. EdgesMirror(mem, sql, bad) => EdgesMirror(mem, sql, LeftOut(bad, k))
  BY OrderedLessSame DEF EdgesMirror
<1>3. QED
  BY <1>1, <1>2

LEMMA MisusedIs ==
  ASSUME MirrorInv, NEW k, misused' = misused \/ misused' = misused \cup {k}
  PROVE  /\ PinsMirror(memory.pins, sqlite.pins, misused')
         /\ EdgesMirror(memory.edges, sqlite.edges, misused')
<1>1. misused' = misused \/ misused' = LeftOut(misused, k)
  BY DEF LeftOut
<1>2. QED
  BY <1>1, MisusedMore DEF MirrorInv

LEMMA PinKeepsMirror ==
  ASSUME MirrorInv, NEW k, NEW mem, NEW sql,
         memory' = [memory EXCEPT !.pins = mem], sqlite' = [sqlite EXCEPT !.pins = sql],
         misused' = misused \/ misused' = misused \cup {k}, PinsMirror(mem, sql, misused'),
         misused' = {} => answers'[1] = answers'[2]
  PROVE  MirrorInv'
<1>1. /\ SameTables(memory, memory', TableNames \ {"pins"}) /\ memory'.pins = mem
      /\ SameTables(sqlite, sqlite', TableNames \ {"pins"}) /\ sqlite'.pins = sql
  <2>1. HasTables(memory) /\ HasTables(sqlite)
    BY DEF MirrorInv
  <2>2. SameTables(memory, memory', TableNames \ {"pins"}) /\ memory'.pins = mem
    BY <2>1 DEF HasTables, SameTables, TableNames
  <2>3. SameTables(sqlite, sqlite', TableNames \ {"pins"}) /\ sqlite'.pins = sql
    BY <2>1 DEF HasTables, SameTables, TableNames
  <2>4. QED
    BY <2>2, <2>3
<1>2. EdgesMirror(memory.edges, sqlite.edges, misused')
  BY MisusedIs
<1>3. QED
  BY <1>1, <1>2 DEF MirrorInv, SameTables, TableNames

LEMMA StorePinKeepsMirror ==
  ASSUME MirrorInv, NEW k \in Keys, NEW pin \in Pins, StorePin(k, pin)
  PROVE  MirrorInv'
<1> DEFINE mem == MemCreatePin(memory.pins, k, pin)
           sql == SqlCreatePin(sqlite.pins, k, pin)
<1>1. /\ memory' = [memory EXCEPT !.pins = mem] /\ sqlite' = [sqlite EXCEPT !.pins = sql]
      /\ answers' = <<"ok", IF k \in DOMAIN sqlite.pins THEN "failed" ELSE "ok">>
      /\ misused' = IF k \in DOMAIN memory.pins \cup DOMAIN sqlite.pins THEN misused \cup {k} ELSE misused
  BY DEF StorePin
<1>2. PinsMirror(mem, sql, misused')
  BY <1>1, CreatePinMirrors DEF MirrorInv
<1> HIDE DEF mem, sql
<1>3. misused' = {} => answers'[1] = answers'[2]
  BY <1>1
<1>4. misused' = misused \/ misused' = misused \cup {k}
  BY <1>1
<1>5. QED
  BY <1>1, <1>2, <1>3, <1>4, PinKeepsMirror

LEMMA UpdatePinKeepsMirror ==
  ASSUME MirrorInv, NEW k \in Keys, NEW pin \in Pins, UpdatePin(k, pin)
  PROVE  MirrorInv'
<1> DEFINE mem == MemUpdatePin(memory.pins, k, pin)
           sql == SqlUpdatePin(sqlite.pins, k, pin)
<1>1. /\ memory' = [memory EXCEPT !.pins = mem] /\ sqlite' = [sqlite EXCEPT !.pins = sql]
      /\ answers' = <<"ok", "ok">>
      /\ misused' = IF k \notin DOMAIN sqlite.pins \/ sqlite.pins[k].column # pin.owner
                     THEN misused \cup {k} ELSE misused
  BY DEF UpdatePin, BothOk
<1>2. PinsMirror(mem, sql, misused')
  BY <1>1, UpdatePinMirrors DEF MirrorInv
<1> HIDE DEF mem, sql
<1>3. misused' = {} => answers'[1] = answers'[2]
  BY <1>1
<1>4. misused' = misused \/ misused' = misused \cup {k}
  BY <1>1
<1>5. QED
  BY <1>1, <1>2, <1>3, <1>4, PinKeepsMirror

LEMMA MarkReleasedKeepsMirror ==
  ASSUME MirrorInv, NEW k \in Keys, MarkReleased(k)
  PROVE  MirrorInv'
<1> DEFINE mem == MemReleasePin(memory.pins, k)
           sql == SqlReleasePin(sqlite.pins, k)
<1>1. /\ memory' = [memory EXCEPT !.pins = mem] /\ sqlite' = [sqlite EXCEPT !.pins = sql]
      /\ answers' = [i \in 1..2 |-> IF k \in DOMAIN (<<memory, sqlite>>[i]).pins THEN "ok" ELSE "NotFound"]
      /\ misused' = misused
  BY DEF MarkReleased
<1>2. PinsMirror(mem, sql, misused')
  BY <1>1, ReleasePinMirrors DEF MirrorInv
<1> HIDE DEF mem, sql
<1>3. misused' = {} => answers'[1] = answers'[2]
  <2>1. /\ answers'[1] = IF k \in DOMAIN memory.pins THEN "ok" ELSE "NotFound"
        /\ answers'[2] = IF k \in DOMAIN sqlite.pins THEN "ok" ELSE "NotFound"
    BY <1>1
  <2>2. misused = {} => (k \in DOMAIN memory.pins <=> k \in DOMAIN sqlite.pins)
    BY DEF MirrorInv, PinsMirror
  <2>3. QED
    BY <1>1, <2>1, <2>2
<1>4. QED
  BY <1>1, <1>2, <1>3, PinKeepsMirror

LEMMA StoreEdgeKeepsMirror ==
  ASSUME MirrorInv, NEW k \in Keys, NEW o \in Owners, StoreEdge(k, o)
  PROVE  MirrorInv'
<1> DEFINE e == [id |-> k, owner |-> o]
           mem == Append(memory.edges, e)
           sql == SqlAddEdge(sqlite.edges, e)
           again == \E i \in DOMAIN sqlite.edges : sqlite.edges[i].id = k
<1>1. /\ memory' = [memory EXCEPT !.edges = mem] /\ sqlite' = [sqlite EXCEPT !.edges = sql]
      /\ answers' = <<"ok", IF again THEN "failed" ELSE "ok">>
      /\ misused' = IF again THEN misused \cup {k} ELSE misused
  BY DEF StoreEdge
<1>2. e \in [id : Keys, owner : Owners] /\ e.id = k
  OBVIOUS
<1>3. EdgesMirror(mem, sql, misused')
  <2> HIDE DEF e
  <2>1. EdgesMirror(mem, sql, IF \E i \in DOMAIN sqlite.edges : sqlite.edges[i].id = e.id
                                THEN misused \cup {e.id} ELSE misused)
    BY <1>2, EdgeMirrors DEF MirrorInv
  <2>2. QED
    BY <1>1, <1>2, <2>1
<1> HIDE DEF mem, sql, again
<1>4. /\ misused' = {} => answers'[1] = answers'[2]
      /\ misused' = misused \/ misused' = misused \cup {k}
  BY <1>1
<1>5. PinsMirror(memory.pins, sqlite.pins, misused')
  BY <1>4, MisusedIs
<1>6. /\ SameTables(memory, memory', TableNames \ {"edges"}) /\ memory'.edges = mem
      /\ SameTables(sqlite, sqlite', TableNames \ {"edges"}) /\ sqlite'.edges = sql
  <2>1. HasTables(memory) /\ HasTables(sqlite)
    BY DEF MirrorInv
  <2>2. SameTables(memory, memory', TableNames \ {"edges"}) /\ memory'.edges = mem
    BY <1>1, <2>1 DEF HasTables, SameTables, TableNames
  <2>3. SameTables(sqlite, sqlite', TableNames \ {"edges"}) /\ sqlite'.edges = sql
    BY <1>1, <2>1 DEF HasTables, SameTables, TableNames
  <2>4. QED
    BY <2>2, <2>3
<1>7. QED
  BY <1>3, <1>4, <1>5, <1>6 DEF MirrorInv, SameTables, TableNames

\* A fingerprint is recorded in both alike.
FingerprintIn(s, v, w) == [s EXCEPT !.payloads = v, !.chunks = w]

LEMMA Fingerprinted ==
  ASSUME NEW s, HasTables(s), NEW v, NEW w
  PROVE  LET t == FingerprintIn(s, v, w)
         IN  /\ HasTables(t) /\ t.payloads = v /\ t.chunks = w
             /\ t.counts = s.counts /\ t.pins = s.pins /\ t.edges = s.edges /\ t.origins = s.origins
             /\ t.policies = s.policies /\ t.derivations = s.derivations /\ t.shares = s.shares
<1> DEFINE r == [s EXCEPT !.payloads = v]
           t == [r EXCEPT !.chunks = w]
<1>1. FingerprintIn(s, v, w) = t
  BY DEF FingerprintIn
<1>2. /\ HasTables(r) /\ r.payloads = v /\ r.chunks = s.chunks
      /\ r.counts = s.counts /\ r.pins = s.pins /\ r.edges = s.edges /\ r.origins = s.origins
      /\ r.policies = s.policies /\ r.derivations = s.derivations /\ r.shares = s.shares
  BY DEF HasTables
<1> HIDE DEF r
<1>3. /\ HasTables(t) /\ t.payloads = r.payloads /\ t.chunks = w
      /\ t.counts = r.counts /\ t.pins = r.pins /\ t.edges = r.edges /\ t.origins = r.origins
      /\ t.policies = r.policies /\ t.derivations = r.derivations /\ t.shares = r.shares
  BY <1>2 DEF HasTables
<1> HIDE DEF t
<1>4. QED
  BY <1>1, <1>2, <1>3

LEMMA FingerprintKeepsMirror ==
  ASSUME MirrorInv, NEW o \in Owners, NEW content \in Contents, Fingerprint(o, content)
  PROVE  MirrorInv'
<1> DEFINE v(s) == s.payloads \cup {<<content, o>>}
           w(s) == s.chunks \cup {<<f, o>> : f \in ToSet(content)}
<1>1. /\ memory' = FingerprintIn(memory, v(memory), w(memory))
      /\ sqlite' = FingerprintIn(sqlite, v(sqlite), w(sqlite))
      /\ misused' = misused /\ answers'[1] = answers'[2]
  BY DEF Fingerprint, BothOk, FingerprintIn
<1>2. v(memory) = v(sqlite) /\ w(memory) = w(sqlite) /\ HasTables(memory) /\ HasTables(sqlite)
  BY DEF MirrorInv
<1> HIDE DEF v, w
<1>3. /\ HasTables(memory') /\ memory'.payloads = v(memory) /\ memory'.chunks = w(memory)
      /\ memory'.counts = memory.counts /\ memory'.pins = memory.pins /\ memory'.edges = memory.edges
      /\ memory'.origins = memory.origins /\ memory'.policies = memory.policies
      /\ memory'.derivations = memory.derivations /\ memory'.shares = memory.shares
  BY <1>1, <1>2, Fingerprinted
<1>4. /\ HasTables(sqlite') /\ sqlite'.payloads = v(sqlite) /\ sqlite'.chunks = w(sqlite)
      /\ sqlite'.counts = sqlite.counts /\ sqlite'.pins = sqlite.pins /\ sqlite'.edges = sqlite.edges
      /\ sqlite'.origins = sqlite.origins /\ sqlite'.policies = sqlite.policies
      /\ sqlite'.derivations = sqlite.derivations /\ sqlite'.shares = sqlite.shares
  BY <1>1, <1>2, Fingerprinted
<1>5. QED
  BY <1>1, <1>2, <1>3, <1>4 DEF MirrorInv

LEMMA MirrorStep ==
  ASSUME MirrorInv, [StoreNext]_storeVars
  PROVE  MirrorInv'
<1>1. CASE UNCHANGED storeVars
  BY <1>1 DEF storeVars, MirrorInv
<1>2. CASE StoreNext
  BY <1>2, IncKeepsMirror, DecKeepsMirror, StorePinKeepsMirror, UpdatePinKeepsMirror, MarkReleasedKeepsMirror,
     StoreEdgeKeepsMirror, CreateOriginKeepsMirror, UpdateOriginKeepsMirror, DeleteOriginKeepsMirror,
     PutPolicyKeepsMirror, PutDerivationKeepsMirror, PutShareKeepsMirror, FingerprintKeepsMirror DEF StoreNext
<1>3. QED
  BY <1>1, <1>2

\* The maps in memory and the tables of SQLite (MemIndex, MemPinStore and their
\* kin, SqliteStore) can stand in for each other: whatever calls were made, in
\* whatever order, both answer and list alike but for misused ids.
THEOREM BackendsStayAlike == StoreSpec => []BackendsAgree
<1>1. StoreInit => MirrorInv
  BY MirrorInvInit
<1>2. MirrorInv /\ [StoreNext]_storeVars => MirrorInv'
  BY MirrorStep
<1>3. QED
  BY <1>1, <1>2, MirrorImpliesAgree, PTL DEF StoreSpec

(***************************************************************************)
(* Provenance.  Both backends keep the same pairs; SQLite counts fingerprints  *)
(* where memory counts places, so no more of them, and none only when memory   *)
(* counts none.                                                             *)
(***************************************************************************)
PlacesOf(content, chunks, o) == {i \in DOMAIN content : <<content[i], o>> \in chunks}
Matching(content, chunks, o) == {f \in ToSet(content) : <<f, o>> \in chunks}

LEMMA ContentLength ==
  ASSUME NEW content \in Contents
  PROVE  content \in Seq(Prints) /\ Len(content) \in Nat \ {0} /\ DOMAIN content = 1..Len(content)
<1>1. content # <<>> /\ content \in UNION {[1..m -> Prints] : m \in 0..MaxChunks}
  BY DEF Contents, SeqOf
<1>2. PICK m \in 0..MaxChunks : content \in [1..m -> Prints]
  BY <1>1
<1>3. m \in Nat
  BY <1>2, MetadataAssumption
<1>4. content \in Seq(Prints)
  BY <1>2, <1>3
<1>5. QED
  BY <1>1, <1>4

LEMMA MatchedCounts ==
  ASSUME NEW content \in Contents, NEW chunks, NEW o
  PROVE  LET n == Cardinality(PlacesOf(content, chunks, o))
             k == Cardinality(Matching(content, chunks, o))
         IN  n \in Nat /\ k \in Nat /\ k <= n /\ (n > 0 => k > 0)
<1> DEFINE places == PlacesOf(content, chunks, o)
           matching == Matching(content, chunks, o)
<1>1. IsFiniteSet(DOMAIN content)
  BY ContentLength, FS_Interval
<1>2. IsFiniteSet(places) /\ Cardinality(places) \in Nat
  <2>1. places \subseteq DOMAIN content
    BY DEF PlacesOf
  <2>2. QED
    BY <1>1, <2>1, FS_Subset, FS_CardinalityType
<1> DEFINE at == [i \in places |-> content[i]]
<1>3. at \in Surjection(places, matching)
  <2>1. at \in [places -> matching]
    BY DEF PlacesOf, Matching, ToSet
  <2>2. \A f \in matching : \E i \in places : at[i] = f
    BY DEF PlacesOf, Matching, ToSet
  <2>3. QED
    BY <2>1, <2>2 DEF Surjection
<1>4. IsFiniteSet(matching) /\ Cardinality(matching) <= Cardinality(places)
  BY <1>2, <1>3, FS_Surjection
<1>5. Cardinality(matching) \in Nat
  BY <1>4, FS_CardinalityType
<1>6. ASSUME Cardinality(places) > 0
      PROVE  Cardinality(matching) > 0
  <2>1. places # {}
    BY <1>6, FS_EmptySet
  <2>2. matching # {}
    BY <2>1, <1>3 DEF Surjection
  <2>3. Cardinality(matching) # 0
    BY <1>4, <2>2, FS_EmptySet
  <2>4. QED
    BY <1>5, <2>3
<1>7. QED
  BY <1>2, <1>4, <1>5, <1>6

LEMMA OverlapUnsure ==
  ASSUME NEW content \in Contents, NEW n \in Nat, NEW k \in Nat, k <= n
  PROVE  /\ Overlap(content, n) \in Nat /\ Overlap(content, n) < Sure(content)
         /\ Overlap(content, k) <= Overlap(content, n)
<1>1. Len(content) \in Nat \ {0}
  BY ContentLength
<1>2. QED
  BY <1>1 DEF Overlap, Sure

\* Every result is of one of two kinds.
ExactResult(content, o) == [owner |-> o, exact |-> TRUE, confidence |-> Sure(content)]
OverlapResult(content, o, n) == [owner |-> o, exact |-> FALSE, confidence |-> Overlap(content, n)]
Uploaders(content, payloads) == {o \in Owners : <<content, o>> \in payloads}

LEMMA ResultFields ==
  ASSUME NEW content, NEW o, NEW n
  PROVE  /\ ExactResult(content, o).owner = o /\ ExactResult(content, o).exact = TRUE
         /\ ExactResult(content, o).confidence = Sure(content)
         /\ OverlapResult(content, o, n).owner = o /\ OverlapResult(content, o, n).exact = FALSE
         /\ OverlapResult(content, o, n).confidence = Overlap(content, n)
  BY DEF ExactResult, OverlapResult

LEMMA ResolvedIs ==
  ASSUME NEW content, NEW payloads, NEW matched
  PROVE  /\ \A c \in Resolved(content, payloads, matched) :
              \/ \E o \in Uploaders(content, payloads) : c = ExactResult(content, o)
              \/ \E o \in Owners \ Uploaders(content, payloads) :
                   matched[o] > 0 /\ c = OverlapResult(content, o, matched[o])
         /\ \A o \in Uploaders(content, payloads) : ExactResult(content, o) \in Resolved(content, payloads, matched)
         /\ \A o \in Owners \ Uploaders(content, payloads) :
              matched[o] > 0 => OverlapResult(content, o, matched[o]) \in Resolved(content, payloads, matched)
  BY DEF Resolved, Uploaders, ExactResult, OverlapResult

\* One backend's results: exact ones first, one an origin, and the exact ones those
\* of the uploaders.
LEMMA ResolvedSound ==
  ASSUME NEW content \in Contents, NEW payloads, NEW matched \in [Owners -> Nat]
  PROVE  LET r == Resolved(content, payloads, matched)
         IN  /\ \A c, d \in r : c.exact /\ ~ d.exact => c.confidence > d.confidence
             /\ \A c, d \in r : c.owner = d.owner => c = d
             /\ {c.owner : c \in {e \in r : e.exact}} = Uploaders(content, payloads)
             /\ {c.owner : c \in r} = Uploaders(content, payloads) \cup {o \in Owners : matched[o] > 0}
             /\ \A c \in r : /\ c.owner \in Owners
                            /\ c.confidence = IF c.owner \in Uploaders(content, payloads) THEN Sure(content)
                                              ELSE Overlap(content, matched[c.owner])
<1> DEFINE r == Resolved(content, payloads, matched)
           up == Uploaders(content, payloads)
<1>1. /\ \A c \in r : \/ \E o \in up : c = ExactResult(content, o)
                      \/ \E o \in Owners \ up : matched[o] > 0 /\ c = OverlapResult(content, o, matched[o])
      /\ \A o \in up : ExactResult(content, o) \in r
      /\ \A o \in Owners \ up : matched[o] > 0 => OverlapResult(content, o, matched[o]) \in r
  BY ResolvedIs
<1>2. up \subseteq Owners
  BY DEF Uploaders
<1>3. \A o \in Owners : Overlap(content, matched[o]) \in Nat /\ Overlap(content, matched[o]) < Sure(content)
  BY OverlapUnsure
<1>4. Sure(content) \in Nat
  BY ContentLength DEF Sure
<1> HIDE DEF r, up
<1>5. ASSUME NEW c \in r
      PROVE  \/ /\ c.owner \in up /\ c.exact = TRUE /\ c.confidence = Sure(content)
                /\ c = ExactResult(content, c.owner)
             \/ /\ c.owner \in Owners \ up /\ c.exact = FALSE /\ matched[c.owner] > 0
                /\ c.confidence = Overlap(content, matched[c.owner])
                /\ c = OverlapResult(content, c.owner, matched[c.owner])
  <2>1. CASE \E o \in up : c = ExactResult(content, o)
    <3>1. PICK o \in up : c = ExactResult(content, o)
      BY <2>1
    <3>2. c.owner = o /\ c.exact = TRUE /\ c.confidence = Sure(content)
      BY <3>1 DEF ExactResult
    <3>3. QED
      BY <3>1, <3>2
  <2>2. CASE \E o \in Owners \ up : matched[o] > 0 /\ c = OverlapResult(content, o, matched[o])
    <3>1. PICK o \in Owners \ up : matched[o] > 0 /\ c = OverlapResult(content, o, matched[o])
      BY <2>2
    <3>2. c.owner = o /\ c.exact = FALSE /\ c.confidence = Overlap(content, matched[o])
      BY <3>1 DEF OverlapResult
    <3>3. QED
      BY <3>1, <3>2
  <2>3. QED
    BY <1>1, <2>1, <2>2
<1>6. \A c, d \in r : c.exact /\ ~ d.exact => c.confidence > d.confidence
  BY <1>2, <1>3, <1>4, <1>5
<1>7. \A c, d \in r : c.owner = d.owner => c = d
  BY <1>5
<1>8. {c.owner : c \in {e \in r : e.exact}} = up
  <2>1. \A c \in r : c.exact => c.owner \in up
    BY <1>5
  <2>2. ASSUME NEW o \in up
        PROVE  o \in {c.owner : c \in {e \in r : e.exact}}
    <3> DEFINE c == ExactResult(content, o)
    <3>1. c \in r /\ c.owner = o /\ c.exact
      BY <1>1 DEF ExactResult
    <3> HIDE DEF c
    <3>2. QED
      BY <3>1
  <2>3. QED
    BY <2>1, <2>2
<1>9. {c.owner : c \in r} = up \cup {o \in Owners : matched[o] > 0}
  <2>1. \A c \in r : c.owner \in up \cup {o \in Owners : matched[o] > 0}
    BY <1>5
  <2>2. ASSUME NEW o \in up \cup {q \in Owners : matched[q] > 0}
        PROVE  \E c \in r : c.owner = o
    <3>1. CASE o \in up
      <4> DEFINE c == ExactResult(content, o)
      <4>1. c \in r /\ c.owner = o
        BY <1>1, <3>1 DEF ExactResult
      <4> HIDE DEF c
      <4>2. QED
        BY <4>1
    <3>2. CASE o \notin up
      <4> DEFINE c == OverlapResult(content, o, matched[o])
      <4>1. c \in r /\ c.owner = o
        BY <1>1, <2>2, <3>2 DEF OverlapResult
      <4> HIDE DEF c
      <4>2. QED
        BY <4>1
    <3>3. QED
      BY <3>1, <3>2
  <2>3. QED
    BY <2>1, <2>2
<1>10. \A c \in r : /\ c.owner \in Owners
                   /\ c.confidence = IF c.owner \in up THEN Sure(content) ELSE Overlap(content, matched[c.owner])
  BY <1>2, <1>5
<1>11. QED
  BY <1>6, <1>7, <1>8, <1>9, <1>10 DEF r, up

LEMMA MirrorImpliesExact == MirrorInv => ExactFirst
<1> SUFFICES ASSUME MirrorInv, NEW content \in Contents
             PROVE  LET m == MemResolved(content)
                        s == SqlResolved(content)
                        Listed1(r) == {c.owner : c \in r}
                    IN  /\ \A r \in {m, s} :
                             /\ \A c, d \in r : c.exact /\ ~ d.exact => c.confidence > d.confidence
                             /\ \A c, d \in r : c.owner = d.owner => c = d
                             /\ {c.owner : c \in {e \in r : e.exact}}
                                  = {o \in Owners : <<content, o>> \in memory.payloads}
                        /\ Listed1(m) = Listed1(s)
                        /\ \A c \in m, d \in s : c.owner = d.owner => d.confidence <= c.confidence
  BY DEF ExactFirst
<1> DEFINE up == Uploaders(content, memory.payloads)
           inMemory == [o \in Owners |-> MemMatched(content, o)]
           inSql == [o \in Owners |-> SqlMatched(content, o)]
           m == Resolved(content, memory.payloads, inMemory)
           s == Resolved(content, memory.payloads, inSql)
<1>1. memory.payloads = sqlite.payloads /\ memory.chunks = sqlite.chunks
  BY DEF MirrorInv
<1>2. /\ \A o \in Owners : /\ inMemory[o] \in Nat /\ inSql[o] \in Nat
                            /\ inSql[o] <= inMemory[o] /\ (inMemory[o] > 0 => inSql[o] > 0)
      /\ inMemory \in [Owners -> Nat] /\ inSql \in [Owners -> Nat]
  <2>1. \A o \in Owners : /\ inMemory[o] = Cardinality(PlacesOf(content, memory.chunks, o))
                          /\ inSql[o] = Cardinality(Matching(content, memory.chunks, o))
    BY <1>1 DEF MemMatched, SqlMatched, PlacesOf, Matching
  <2>2. \A o \in Owners : /\ inMemory[o] \in Nat /\ inSql[o] \in Nat
                          /\ inSql[o] <= inMemory[o] /\ (inMemory[o] > 0 => inSql[o] > 0)
    BY <2>1, MatchedCounts
  <2>3. QED
    BY <2>2
<1>3. MemResolved(content) = m /\ SqlResolved(content) = s
  BY <1>1 DEF MemResolved, SqlResolved
<1> HIDE DEF inMemory, inSql
<1>4. /\ \A r \in {m, s} :
           /\ \A c, d \in r : c.exact /\ ~ d.exact => c.confidence > d.confidence
           /\ \A c, d \in r : c.owner = d.owner => c = d
           /\ {c.owner : c \in {e \in r : e.exact}} = up
      /\ {c.owner : c \in m} = up \cup {o \in Owners : inMemory[o] > 0}
      /\ {c.owner : c \in s} = up \cup {o \in Owners : inSql[o] > 0}
      /\ \A c \in m : /\ c.owner \in Owners
                     /\ c.confidence = IF c.owner \in up THEN Sure(content) ELSE Overlap(content, inMemory[c.owner])
      /\ \A c \in s : /\ c.owner \in Owners
                     /\ c.confidence = IF c.owner \in up THEN Sure(content) ELSE Overlap(content, inSql[c.owner])
  BY <1>2, ResolvedSound
<1>5. up = {o \in Owners : <<content, o>> \in memory.payloads}
  BY DEF Uploaders
<1> HIDE DEF m, s, up
<1>6. {c.owner : c \in m} = {c.owner : c \in s}
  <2>1. \A o \in Owners : inMemory[o] > 0 <=> inSql[o] > 0
    BY <1>2
  <2>2. QED
    BY <1>4, <2>1
<1>7. ASSUME NEW c \in m, NEW d \in s, c.owner = d.owner
      PROVE  d.confidence <= c.confidence
  <2>1. Overlap(content, inSql[c.owner]) <= Overlap(content, inMemory[c.owner])
    BY <1>2, <1>4, OverlapUnsure
  <2>2. Sure(content) <= Sure(content)
    BY ContentLength DEF Sure
  <2>3. QED
    BY <1>4, <1>7, <2>1, <2>2
<1>8. QED
  BY <1>3, <1>4, <1>5, <1>6, <1>7

\* Whoever uploaded exactly the bytes asked for comes first, every origin once,
\* and SQLite lists the same origins with no more confidence (resolve_provenance
\* over find_by_payload_fingerprint and find_by_chunk_fingerprints).
THEOREM ExactStaysFirst == StoreSpec => []ExactFirst
<1>1. StoreInit => MirrorInv
  BY MirrorInvInit
<1>2. MirrorInv /\ [StoreNext]_storeVars => MirrorInv'
  BY MirrorStep
<1>3. QED
  BY <1>1, <1>2, MirrorImpliesExact, PTL DEF StoreSpec

(***************************************************************************)
(* The repairs.  Of a repair nobody disturbed, the hosts it knows of are still  *)
(* recorded healthy, and those of them that are fresh for its plan make up,     *)
(* with the copies it still has to make, what the policy asks for.  Hosts that  *)
(* others recorded meanwhile do not count: the repair may copy to them too.    *)
(***************************************************************************)
ReplicaRecords == [state : {"none", "healthy", "dead"}, seen : Nat]
Repairs == [pc : {"idle", "list", "source", "copy", "record"}, planned : Nat, missing : Nat,
            known : SUBSET Hosts, to : SUBSET Hosts, disturbed : BOOLEAN]

HealthyIn(rep) == {h \in Hosts : rep[h].state = "healthy"}
FreshIn(rep, now) == {h \in HealthyIn(rep) : now <= rep[h].seen + StaleAfter}

RepairOK(r, rep, today, covered) ==
  /\ r.pc # "idle" => r.planned <= today
  /\ r.pc = "record" => r.missing > 0 /\ \E h \in Hosts \ r.known : r.to = {h} /\ h \in covered
  /\ ~ r.disturbed =>
       /\ r.pc = "list" => Cardinality(FreshIn(rep, r.planned)) + r.missing >= MinReplicas
       /\ r.pc \in {"source", "copy", "record"} =>
            /\ r.known \subseteq HealthyIn(rep)
            /\ Cardinality(FreshIn(rep, r.planned) \cap r.known) + r.missing >= MinReplicas

Covered == holding \cup bereft

RepairInv ==
  /\ day \in Nat
  /\ replica \in [Hosts -> ReplicaRecords] /\ \A h \in Hosts : replica[h].seen <= day
  /\ operator \in [Operators -> Repairs]
  /\ HealthyIn(replica) \subseteq Covered
  /\ \A o \in Operators : RepairOK(operator[o], replica, day, Covered)

LEMMA SameFresh == HealthyHosts = HealthyIn(replica) /\ \A now : Fresh(now) = FreshIn(replica, now)
  BY DEF HealthyHosts, HealthyIn, Fresh, FreshIn

LEMMA NoRepairFields ==
  /\ NoRepair \in Repairs
  /\ \A rep, today, covered : RepairOK(NoRepair, rep, today, covered)
<1>1. NoRepair \in Repairs
  BY DEF NoRepair, Repairs
<1>2. \A rep, today, covered : RepairOK(NoRepair, rep, today, covered)
  BY DEF NoRepair, RepairOK
<1>3. QED
  BY <1>1, <1>2

LEMMA RepairInvInit == ReplicaInit => RepairInv
<1> SUFFICES ASSUME ReplicaInit
             PROVE  RepairInv
  OBVIOUS
<1>1. \A h \in Hosts : replica[h] \in ReplicaRecords /\ replica[h].state = "none" /\ replica[h].seen = 0
  BY DEF ReplicaInit, NoReplica, ReplicaRecords
<1>2. HealthyIn(replica) = {}
  BY <1>1 DEF HealthyIn
<1>3. \A o \in Operators : operator[o] = NoRepair
  BY DEF ReplicaInit
<1>4. QED
  BY <1>1, <1>2, <1>3, NoRepairFields DEF ReplicaInit, RepairInv

\* Records that only get healthier and younger.
Younger(rep, rep1) ==
  \A h \in Hosts : rep[h].state = "healthy" =>
    /\ rep1[h].state = "healthy"
    /\ rep1[h].seen \in Nat /\ rep[h].seen \in Nat /\ rep[h].seen <= rep1[h].seen

LEMMA FreshFinite ==
  ASSUME NEW rep, NEW now, NEW known
  PROVE  /\ IsFiniteSet(FreshIn(rep, now)) /\ Cardinality(FreshIn(rep, now)) \in Nat
         /\ IsFiniteSet(FreshIn(rep, now) \cap known) /\ Cardinality(FreshIn(rep, now) \cap known) \in Nat
<1>1. FreshIn(rep, now) \subseteq Hosts /\ FreshIn(rep, now) \cap known \subseteq Hosts
  BY DEF FreshIn, HealthyIn
<1>2. QED
  BY <1>1, ReplicaAssumption, FS_Subset, FS_CardinalityType

LEMMA FreshGrows ==
  ASSUME NEW rep, NEW rep1, Younger(rep, rep1), NEW now \in Nat, NEW known
  PROVE  /\ HealthyIn(rep) \subseteq HealthyIn(rep1)
         /\ FreshIn(rep, now) \subseteq FreshIn(rep1, now)
         /\ Cardinality(FreshIn(rep, now)) <= Cardinality(FreshIn(rep1, now))
         /\ Cardinality(FreshIn(rep, now) \cap known) <= Cardinality(FreshIn(rep1, now) \cap known)
<1>1. HealthyIn(rep) \subseteq HealthyIn(rep1)
  BY DEF Younger, HealthyIn
<1>2. FreshIn(rep, now) \subseteq FreshIn(rep1, now)
  BY <1>1, ReplicaAssumption DEF Younger, FreshIn, HealthyIn
<1>3. FreshIn(rep, now) \cap known \subseteq FreshIn(rep1, now) \cap known
  BY <1>2
<1>4. QED
  BY <1>1, <1>2, <1>3, FreshFinite, FS_Subset

\* A repair goes on being right when records get healthier, time passes and more
\* hosts are covered.
LEMMA RepairGoesOn ==
  ASSUME NEW r \in Repairs, NEW rep, NEW rep1, Younger(rep, rep1), NEW today \in Nat, NEW today1 \in Nat,
         today <= today1, NEW covered, NEW covered1, covered \subseteq covered1,
         RepairOK(r, rep, today, covered)
  PROVE  RepairOK(r, rep1, today1, covered1)
<1>1. r.planned \in Nat /\ r.missing \in Nat
  BY DEF Repairs
<1> DEFINE n == Cardinality(FreshIn(rep, r.planned))
           n1 == Cardinality(FreshIn(rep1, r.planned))
           k == Cardinality(FreshIn(rep, r.planned) \cap r.known)
           k1 == Cardinality(FreshIn(rep1, r.planned) \cap r.known)
<1>2. n \in Nat /\ n1 \in Nat /\ k \in Nat /\ k1 \in Nat
  BY FreshFinite
<1>3. n <= n1 /\ k <= k1 /\ HealthyIn(rep) \subseteq HealthyIn(rep1)
  BY <1>1, FreshGrows
<1>4. r.pc # "idle" => r.planned <= today1
  BY <1>1 DEF RepairOK
<1>5. r.pc = "record" => r.missing > 0 /\ \E h \in Hosts \ r.known : r.to = {h} /\ h \in covered1
  BY DEF RepairOK
<1>6. ~ r.disturbed /\ r.pc = "list" => n1 + r.missing >= MinReplicas
  <2>1. ~ r.disturbed /\ r.pc = "list" => n + r.missing >= MinReplicas
    BY DEF RepairOK
  <2> HIDE DEF n, n1
  <2>2. QED
    BY <1>1, <1>2, <1>3, <2>1, ReplicaAssumption
<1>7. ~ r.disturbed /\ r.pc \in {"source", "copy", "record"} =>
        r.known \subseteq HealthyIn(rep1) /\ k1 + r.missing >= MinReplicas
  <2>1. ~ r.disturbed /\ r.pc \in {"source", "copy", "record"} =>
          r.known \subseteq HealthyIn(rep) /\ k + r.missing >= MinReplicas
    BY DEF RepairOK
  <2> HIDE DEF k, k1
  <2>2. QED
    BY <1>1, <1>2, <1>3, <2>1, ReplicaAssumption
<1>8. QED
  BY <1>4, <1>5, <1>6, <1>7 DEF RepairOK

-----------------------------------------------------------------------------
RecordsOK ==
  /\ day \in Nat
  /\ replica \in [Hosts -> ReplicaRecords] /\ \A h \in Hosts : replica[h].seen <= day
  /\ HealthyIn(replica) \subseteq Covered

LEMMA YoungerSame ==
  ASSUME NEW rep \in [Hosts -> ReplicaRecords]
  PROVE  Younger(rep, rep)
  BY DEF Younger, ReplicaRecords

\* A step of one operator, and one of none.
LEMMA OneRepair ==
  ASSUME RepairInv, NEW o \in Operators, NEW r \in Repairs, operator' = [operator EXCEPT ![o] = r],
         day' = day, Covered \subseteq Covered', Younger(replica, replica'), RecordsOK',
         RepairOK(r, replica', day, Covered')
  PROVE  RepairInv'
<1>1. operator' \in [Operators -> Repairs]
  BY DEF RepairInv
<1>2. ASSUME NEW p \in Operators
      PROVE  RepairOK(operator'[p], replica', day', Covered')
  <2>1. CASE p = o
    BY <2>1 DEF RepairInv
  <2>2. CASE p # o
    <3>1. operator'[p] = operator[p] /\ operator[p] \in Repairs /\ RepairOK(operator[p], replica, day, Covered)
      BY <2>2 DEF RepairInv
    <3>2. day \in Nat /\ day <= day
      BY DEF RepairInv
    <3>3. RepairOK(operator[p], replica', day, Covered')
      BY <3>1, <3>2, RepairGoesOn
    <3>4. QED
      BY <3>1, <3>3
  <2>3. QED
    BY <2>1, <2>2
<1>3. QED
  BY <1>1, <1>2 DEF RepairInv, RecordsOK

LEMMA NoRepairStep ==
  ASSUME RepairInv, operator' = operator, day' \in Nat, day <= day', Covered \subseteq Covered',
         Younger(replica, replica'), RecordsOK'
  PROVE  RepairInv'
<1>1. ASSUME NEW p \in Operators
      PROVE  RepairOK(operator'[p], replica', day', Covered')
  <2>1. operator'[p] = operator[p] /\ operator[p] \in Repairs /\ RepairOK(operator[p], replica, day, Covered)
    BY DEF RepairInv
  <2>2. day \in Nat
    BY DEF RepairInv
  <2>3. RepairOK(operator[p], replica', day', Covered')
    BY <2>1, <2>2, RepairGoesOn
  <2>4. QED
    BY <2>1, <2>3
<1>2. QED
  BY <1>1 DEF RepairInv, RecordsOK

\* Steps that leave records, clock and copies alone.
LEMMA PlanStep ==
  ASSUME RepairInv, NEW o \in Operators, NEW r \in Repairs, RepairStep(o, r), RepairOK(r, replica, day, Covered),
         UNCHANGED <<day, holding, replica, bereft>>
  PROVE  RepairInv'
<1>1. operator' = [operator EXCEPT ![o] = r]
  BY DEF RepairStep
<1>2. Covered' = Covered /\ RecordsOK' /\ Younger(replica, replica')
  BY YoungerSame DEF Covered, RepairInv, RecordsOK
<1>3. RepairOK(r, replica', day, Covered')
  BY <1>2
<1>4. QED
  BY <1>1, <1>2, <1>3, OneRepair

LEMMA GivesUp ==
  ASSUME RepairInv, NEW o \in Operators, RepairStep(o, NoRepair), UNCHANGED <<day, holding, replica, bereft>>
  PROVE  RepairInv'
  BY NoRepairFields, PlanStep

LEMMA AuditKeepsInv ==
  ASSUME RepairInv, NEW o \in Operators, Audit(o)
  PROVE  RepairInv'
<1> DEFINE n == Cardinality(Fresh(day))
           r == [NoRepair EXCEPT !.pc = "list", !.planned = day, !.missing = MinReplicas - n]
<1>1. n \in Nat /\ n = Cardinality(FreshIn(replica, day)) /\ MinReplicas - n \in Nat /\ n + (MinReplicas - n) = MinReplicas
  <2>1. n \in Nat /\ n = Cardinality(FreshIn(replica, day))
    BY SameFresh, FreshFinite
  <2>2. ~ (n >= MinReplicas)
    BY DEF Audit, Enough
  <2> HIDE DEF n
  <2>3. QED
    BY <2>1, <2>2, ReplicaAssumption
<1>2. day \in Nat
  BY DEF RepairInv
<1> HIDE DEF n
<1>3. /\ r \in Repairs
      /\ r.pc = "list" /\ r.planned = day /\ r.missing = MinReplicas - n
  BY <1>1, <1>2, NoRepairFields DEF Repairs
<1>4. RepairStep(o, r) /\ UNCHANGED <<day, holding, replica, bereft>>
  BY DEF Audit, n
<1> HIDE DEF r
<1>5. RepairOK(r, replica, day, Covered)
  BY <1>1, <1>2, <1>3, ReplicaAssumption DEF RepairOK
<1>6. QED
  BY <1>3, <1>4, <1>5, PlanStep

LEMMA ListKeepsInv ==
  ASSUME RepairInv, NEW o \in Operators, ListReplicas(o)
  PROVE  RepairInv'
<1> DEFINE q == operator[o]
           r == [q EXCEPT !.pc = "source", !.known = HealthyHosts]
<1>1. q \in Repairs /\ RepairOK(q, replica, day, Covered) /\ q.pc = "list"
  BY DEF RepairInv, ListReplicas
<1>2. HealthyHosts = HealthyIn(replica) /\ HealthyHosts \subseteq Hosts
  BY SameFresh DEF HealthyHosts
<1>3. RepairStep(o, r) /\ UNCHANGED <<day, holding, replica, bereft>>
  BY DEF ListReplicas
<1> HIDE DEF q
<1>4. /\ r \in Repairs
      /\ r.pc = "source" /\ r.known = HealthyIn(replica) /\ r.planned = q.planned /\ r.missing = q.missing
      /\ r.disturbed = q.disturbed
  BY <1>1, <1>2 DEF Repairs
<1> HIDE DEF r
<1>5. FreshIn(replica, r.planned) \cap r.known = FreshIn(replica, q.planned)
  BY <1>4 DEF FreshIn
<1>6. RepairOK(r, replica, day, Covered)
  BY <1>1, <1>4, <1>5 DEF RepairOK
<1>7. QED
  BY <1>3, <1>4, <1>6, PlanStep

LEMMA FindKeepsInv ==
  ASSUME RepairInv, NEW o \in Operators, FindSource(o)
  PROVE  RepairInv'
<1> DEFINE q == operator[o]
           r == [q EXCEPT !.pc = "copy"]
<1>1. q \in Repairs /\ RepairOK(q, replica, day, Covered) /\ q.pc = "source"
  BY DEF RepairInv, FindSource
<1>2. UNCHANGED <<day, holding, replica, bereft>> /\ (RepairStep(o, NoRepair) \/ RepairStep(o, r))
  BY DEF FindSource
<1> HIDE DEF q
<1>3. /\ r \in Repairs
      /\ r.pc = "copy" /\ r.known = q.known /\ r.planned = q.planned /\ r.missing = q.missing
      /\ r.disturbed = q.disturbed
  BY <1>1 DEF Repairs
<1> HIDE DEF r
<1>4. RepairOK(r, replica, day, Covered)
  BY <1>1, <1>3 DEF RepairOK
<1>5. QED
  BY <1>2, <1>3, <1>4, GivesUp, PlanStep

LEMMA CopyKeepsInv ==
  ASSUME RepairInv, NEW o \in Operators, NEW h \in Hosts, CopyTo(o, h)
  PROVE  RepairInv'
<1> DEFINE q == operator[o]
           r == [q EXCEPT !.pc = "record", !.to = {h}]
<1>1. q \in Repairs /\ RepairOK(q, replica, day, Covered) /\ q.pc = "copy" /\ q.missing > 0 /\ h \notin q.known
  BY DEF RepairInv, CopyTo
<1>2. operator' = [operator EXCEPT ![o] = r] /\ day' = day /\ replica' = replica
      /\ Covered \subseteq Covered' /\ h \in Covered'
  BY DEF CopyTo, RepairStep, Covered
<1> HIDE DEF q
<1>3. /\ r \in Repairs
      /\ r.pc = "record" /\ r.known = q.known /\ r.planned = q.planned /\ r.missing = q.missing
      /\ r.disturbed = q.disturbed /\ r.to = {h}
  BY <1>1 DEF Repairs
<1> HIDE DEF r
<1>4. RepairOK(r, replica', day, Covered')
  BY <1>1, <1>2, <1>3 DEF RepairOK
<1>5. RecordsOK' /\ Younger(replica, replica')
  BY <1>2, YoungerSame DEF RepairInv, RecordsOK
<1>6. QED
  BY <1>2, <1>3, <1>4, <1>5, OneRepair

\* A record is written of a covered host.
LEMMA UpsertHealthy ==
  ASSUME RepairInv, NEW h \in Hosts, Upsert(h, "healthy"), day' = day, Covered \subseteq Covered', h \in Covered'
  PROVE  Younger(replica, replica') /\ RecordsOK' /\ replica'[h].state = "healthy" /\ replica'[h].seen = day
<1> DEFINE v == [state |-> "healthy", seen |-> day]
<1>1. /\ day \in Nat /\ replica \in [Hosts -> ReplicaRecords] /\ \A g \in Hosts : replica[g].seen <= day
      /\ HealthyIn(replica) \subseteq Covered
  BY DEF RepairInv
<1>2. replica' = [replica EXCEPT ![h] = v]
  BY DEF Upsert
<1>3. v \in ReplicaRecords /\ v.state = "healthy" /\ v.seen = day
  BY <1>1 DEF ReplicaRecords
<1> HIDE DEF v
<1>4. /\ replica' \in [Hosts -> ReplicaRecords] /\ replica'[h] = v
      /\ \A g \in Hosts \ {h} : replica'[g] = replica[g]
  BY <1>1, <1>2, <1>3
<1>5. Younger(replica, replica')
  BY <1>1, <1>3, <1>4 DEF Younger, ReplicaRecords
<1>6. HealthyIn(replica') \subseteq Covered'
  BY <1>1, <1>4 DEF HealthyIn
<1>7. \A g \in Hosts : replica'[g].seen <= day'
  BY <1>1, <1>3, <1>4
<1>8. QED
  BY <1>1, <1>3, <1>4, <1>5, <1>6, <1>7 DEF RecordsOK

LEMMA RecordedKeepsInv ==
  ASSUME RepairInv, NEW o \in Operators, RecordCopy(o)
  PROVE  RepairInv'
<1> DEFINE q == operator[o]
           known == q.known \cup q.to
           r == [q EXCEPT !.pc = "copy", !.to = {}, !.missing = q.missing - 1, !.known = known]
<1>1. q \in Repairs /\ RepairOK(q, replica, day, Covered) /\ q.pc = "record"
  BY DEF RepairInv, RecordCopy
<1>2. /\ operator' = [operator EXCEPT ![o] = r] /\ UNCHANGED <<day, holding, bereft>>
      /\ \A h \in q.to : Upsert(h, "healthy")
  BY DEF RecordCopy, RepairStep
<1> HIDE DEF q
<1>3. PICK h \in Hosts \ q.known : q.to = {h} /\ h \in Covered
  BY <1>1 DEF RepairOK
<1>4. q.missing > 0 /\ q.missing - 1 \in Nat /\ q.missing \in Nat /\ q.planned \in Nat /\ q.planned <= day /\ day \in Nat
  BY <1>1 DEF RepairOK, Repairs, RepairInv
<1>5. known \subseteq Hosts /\ known = q.known \cup {h}
  BY <1>1, <1>3 DEF Repairs
<1> HIDE DEF known
<1>6. /\ r \in Repairs
      /\ r.pc = "copy" /\ r.known = known /\ r.planned = q.planned /\ r.missing = q.missing - 1
      /\ r.disturbed = q.disturbed
  BY <1>1, <1>4, <1>5 DEF Repairs
<1> HIDE DEF r
<1>7. Upsert(h, "healthy") /\ day' = day /\ Covered' = Covered
  BY <1>2, <1>3 DEF Covered
<1>8. Younger(replica, replica') /\ RecordsOK' /\ replica'[h].state = "healthy" /\ replica'[h].seen = day
  BY <1>3, <1>7, UpsertHealthy
<1>9. ASSUME ~ q.disturbed
      PROVE  /\ known \subseteq HealthyIn(replica')
             /\ Cardinality(FreshIn(replica', q.planned) \cap known) + (q.missing - 1) >= MinReplicas
  <2> DEFINE before == FreshIn(replica, q.planned) \cap q.known
             between == FreshIn(replica', q.planned) \cap q.known
             after == FreshIn(replica', q.planned) \cap known
  <2>1. q.known \subseteq HealthyIn(replica) /\ Cardinality(before) + q.missing >= MinReplicas
    BY <1>1, <1>9 DEF RepairOK
  <2>2. /\ HealthyIn(replica) \subseteq HealthyIn(replica')
        /\ Cardinality(before) <= Cardinality(between)
    BY <1>4, <1>8, FreshGrows
  <2>3. h \in HealthyIn(replica') /\ h \in FreshIn(replica', q.planned)
    BY <1>3, <1>4, <1>8, ReplicaAssumption DEF HealthyIn, FreshIn
  <2>4. after = between \cup {h} /\ h \notin between
    BY <1>3, <1>5, <2>3
  <2>5. /\ IsFiniteSet(between) /\ Cardinality(between) \in Nat
        /\ Cardinality(before) \in Nat /\ Cardinality(after) \in Nat
    BY FreshFinite
  <2> HIDE DEF before, between, after
  <2>6. Cardinality(after) = Cardinality(between) + 1
    BY <2>4, <2>5, FS_AddElement
  <2>7. Cardinality(after) + (q.missing - 1) >= MinReplicas
    BY <1>4, <2>1, <2>2, <2>5, <2>6, ReplicaAssumption
  <2>8. QED
    BY <1>5, <2>1, <2>2, <2>3, <2>7 DEF after
<1>10. RepairOK(r, replica', day, Covered')
  BY <1>4, <1>6, <1>9 DEF RepairOK
<1>11. QED
  BY <1>2, <1>6, <1>7, <1>8, <1>10, OneRepair

LEMMA ObserveKeepsInv ==
  ASSUME RepairInv, NEW h \in Hosts, Observe(h)
  PROVE  RepairInv'
<1>1. Upsert(h, "healthy") /\ day' = day /\ operator' = operator /\ Covered \subseteq Covered' /\ h \in Covered'
  BY DEF Observe, Covered
<1>2. Younger(replica, replica') /\ RecordsOK' /\ day \in Nat /\ day <= day'
  BY <1>1, UpsertHealthy DEF RepairInv
<1>3. QED
  BY <1>1, <1>2, NoRepairStep

LEMMA DeadKeepsInv ==
  ASSUME RepairInv, NEW h \in Hosts, ReportDead(h)
  PROVE  RepairInv'
<1> DEFINE v == [state |-> "dead", seen |-> day]
<1>1. /\ day \in Nat /\ replica \in [Hosts -> ReplicaRecords] /\ \A g \in Hosts : replica[g].seen <= day
      /\ HealthyIn(replica) \subseteq Covered /\ operator \in [Operators -> Repairs]
      /\ \A o \in Operators : RepairOK(operator[o], replica, day, Covered)
  BY DEF RepairInv
<1>2. replica' = [replica EXCEPT ![h] = v] /\ day' = day /\ Covered' = Covered
  BY DEF ReportDead, Upsert, Covered
<1>3. v \in ReplicaRecords /\ v.state = "dead" /\ v.seen = day
  BY <1>1 DEF ReplicaRecords
<1> HIDE DEF v
<1>4. /\ replica' \in [Hosts -> ReplicaRecords] /\ replica'[h] = v
      /\ \A g \in Hosts \ {h} : replica'[g] = replica[g]
  BY <1>1, <1>2, <1>3
<1>5. HealthyIn(replica') \subseteq Covered' /\ \A g \in Hosts : replica'[g].seen <= day'
  BY <1>1, <1>2, <1>3, <1>4 DEF HealthyIn
<1>6. ASSUME NEW o \in Operators
      PROVE  operator'[o] \in Repairs /\ RepairOK(operator'[o], replica', day', Covered')
  <2>1. CASE operator[o].pc = "idle"
    <3>1. operator'[o] = NoRepair
      BY <2>1 DEF ReportDead
    <3>2. QED
      BY <3>1, NoRepairFields
  <2>2. CASE operator[o].pc # "idle"
    <3> DEFINE q == operator[o]
               r == [q EXCEPT !.disturbed = TRUE]
    <3>1. operator'[o] = r /\ q \in Repairs /\ RepairOK(q, replica, day, Covered)
      BY <1>1, <2>2 DEF ReportDead
    <3> HIDE DEF q
    <3>2. /\ r \in Repairs
          /\ r.pc = q.pc /\ r.planned = q.planned /\ r.missing = q.missing /\ r.known = q.known /\ r.to = q.to
          /\ r.disturbed = TRUE
      BY <3>1 DEF Repairs
    <3> HIDE DEF r
    <3>3. RepairOK(r, replica', day', Covered')
      BY <1>2, <3>1, <3>2 DEF RepairOK
    <3>4. QED
      BY <3>1, <3>2, <3>3
  <2>3. QED
    BY <2>1, <2>2
<1>7. operator' \in [Operators -> Repairs]
  <2>1. operator' = [o \in Operators |-> operator'[o]]
    BY DEF ReportDead
  <2>2. QED
    BY <1>6, <2>1
<1>8. QED
  BY <1>1, <1>2, <1>4, <1>5, <1>6, <1>7 DEF RepairInv

LEMMA RepairInvStep ==
  ASSUME RepairInv, [ReplicaNext]_replicaVars
  PROVE  RepairInv'
<1>1. ASSUME NEW o \in Operators, RepairReturns(o) \/ RepairFails(o)
      PROVE  RepairInv'
  BY <1>1, GivesUp DEF RepairReturns, RepairFails
<1>2. ASSUME NEW h \in Hosts, LoseCopy(h)
      PROVE  RepairInv'
  <2>1. Covered' = Covered /\ UNCHANGED <<day, operator, replica>>
    BY <1>2 DEF LoseCopy, Covered
  <2>2. QED
    BY <2>1, YoungerSame, NoRepairStep DEF RepairInv, RecordsOK
<1>3. CASE NextDay
  <2>1. Covered' = Covered /\ UNCHANGED <<operator, replica>> /\ day' = day + 1
    BY <1>3 DEF NextDay, Covered
  <2>2. day \in Nat /\ day' \in Nat /\ day <= day' /\ Younger(replica, replica')
    BY <2>1, YoungerSame DEF RepairInv
  <2>3. RecordsOK'
    BY <2>1, <2>2 DEF RepairInv, RecordsOK, ReplicaRecords
  <2>4. QED
    BY <2>1, <2>2, <2>3, NoRepairStep
<1>4. CASE UNCHANGED replicaVars
  <2>1. Covered' = Covered /\ UNCHANGED <<day, operator, replica>>
    BY <1>4 DEF replicaVars, Covered
  <2>2. QED
    BY <2>1, YoungerSame, NoRepairStep DEF RepairInv, RecordsOK
<1>5. QED
  BY <1>1, <1>2, <1>3, <1>4, AuditKeepsInv, ListKeepsInv, FindKeepsInv, RecordedKeepsInv, CopyKeepsInv,
     ObserveKeepsInv, DeadKeepsInv DEF ReplicaNext

\* Only the operator itself ends its repair.
LEMMA RepairEnds ==
  ASSUME RepairInv, [ReplicaNext]_replicaVars, NEW o \in Operators,
         operator[o].pc = "copy", operator'[o].pc = "idle"
  PROVE  RepairReturns(o) \/ RepairFails(o)
<1>1. operator \in [Operators -> Repairs]
  BY DEF RepairInv
<1>2. ASSUME NEW p \in Operators, NEW r, RepairStep(p, r), p # o
      PROVE  FALSE
  <2>1. operator'[o] = operator[o]
    BY <1>1, <1>2 DEF RepairStep
  <2>2. QED
    BY <2>1
<1>3. ASSUME NEW p \in Operators,
             Audit(p) \/ ListReplicas(p) \/ FindSource(p) \/ RecordCopy(p) \/ \E h \in Hosts : CopyTo(p, h)
      PROVE  FALSE
  <2>1. \E r : RepairStep(p, r)
    BY <1>3 DEF Audit, ListReplicas, FindSource, RecordCopy, CopyTo
  <2>2. p = o
    BY <1>2, <2>1
  <2>3. PICK h \in Hosts : CopyTo(o, h)
    BY <1>3, <2>2 DEF Audit, ListReplicas, FindSource, RecordCopy
  <2>4. operator'[o].pc = "record"
    BY <1>1, <2>3 DEF CopyTo, RepairStep, Repairs
  <2>5. QED
    BY <2>4
<1>4. ASSUME NEW p \in Operators, RepairReturns(p) \/ RepairFails(p)
      PROVE  p = o
  BY <1>2, <1>4 DEF RepairReturns, RepairFails
<1>5. ASSUME NEW h \in Hosts, ReportDead(h)
      PROVE  FALSE
  <2>1. operator'[o] = [operator[o] EXCEPT !.disturbed = TRUE] /\ operator[o] \in Repairs
    BY <1>1, <1>5 DEF ReportDead
  <2>2. operator'[o].pc = operator[o].pc
    BY <2>1 DEF Repairs
  <2>3. QED
    BY <2>2
<1>6. operator' # operator
  OBVIOUS
<1>7. QED
  BY <1>3, <1>4, <1>5, <1>6 DEF ReplicaNext, replicaVars, Observe, LoseCopy, NextDay

\* What a repair that returns has done (ReplicaExecutor::execute): as many hosts
\* as the policy asks for are recorded, not too long before the audit, and every
\* one of them got the blob, unless hosts were reported dead meanwhile or none was
\* left to copy to.
THEOREM RepairsSatisfy == ReplicaSpec => RepairSatisfies
<1> DEFINE Satisfied(o) ==
      operator[o].pc = "copy" /\ operator'[o].pc = "idle" =>
         \/ operator[o].missing > 0 /\ (operator[o].known # Hosts \/ HealthyHosts = Hosts)
         \/ operator[o].disturbed
         \/ Enough(operator[o].planned) /\ Fresh(operator[o].planned) \subseteq holding \cup bereft
<1>1. ReplicaInit => RepairInv
  BY RepairInvInit
<1>2. RepairInv /\ [ReplicaNext]_replicaVars => RepairInv'
  BY RepairInvStep
<1>3. RepairInv /\ [ReplicaNext]_replicaVars => \A o \in Operators : Satisfied(o)
  <2> SUFFICES ASSUME RepairInv, [ReplicaNext]_replicaVars, NEW o \in Operators,
                      operator[o].pc = "copy", operator'[o].pc = "idle",
                      ~ operator[o].disturbed,
                      ~ (operator[o].missing > 0 /\ (operator[o].known # Hosts \/ HealthyHosts = Hosts))
               PROVE  Enough(operator[o].planned) /\ Fresh(operator[o].planned) \subseteq holding \cup bereft
    OBVIOUS
  <2> DEFINE r == operator[o]
  <2>1. /\ r \in Repairs /\ RepairOK(r, replica, day, Covered) /\ r.pc = "copy"
        /\ HealthyIn(replica) \subseteq Covered
    BY DEF RepairInv
  <2>2. RepairReturns(o) \/ RepairFails(o)
    BY RepairEnds
  <2>3. /\ r.known \subseteq HealthyIn(replica)
        /\ Cardinality(FreshIn(replica, r.planned) \cap r.known) + r.missing >= MinReplicas
    BY <2>1 DEF RepairOK
  <2>4. r.missing \in Nat /\ r.missing = 0
    <3>1. r.known = Hosts => HealthyHosts = Hosts
      BY <2>3, SameFresh DEF HealthyIn
    <3>2. r.missing \in Nat /\ ~ (r.missing > 0)
      BY <2>1, <3>1 DEF Repairs
    <3>3. QED
      BY <3>2
  <2>5. Fresh(r.planned) = FreshIn(replica, r.planned)
    BY SameFresh
  <2>6. Cardinality(FreshIn(replica, r.planned) \cap r.known) <= Cardinality(FreshIn(replica, r.planned))
    BY FreshFinite, FS_Subset
  <2> HIDE DEF r
  <2>7. Enough(r.planned)
    BY <2>3, <2>4, <2>5, <2>6, FreshFinite, ReplicaAssumption DEF Enough
  <2>8. Fresh(r.planned) \subseteq holding \cup bereft
    BY <2>1, <2>5 DEF FreshIn, Covered
  <2>9. QED
    BY <2>7, <2>8 DEF r
<1>4. ReplicaSpec => [][\A o \in Operators : Satisfied(o)]_replicaVars
  BY <1>1, <1>2, <1>3, PTL DEF ReplicaSpec
<1>5. QED
  BY <1>4 DEF RepairSatisfies

-----------------------------------------------------------------------------
(***************************************************************************)
(* What each component's state looks like, for SideProofs: what has to be      *)
(* added to its invariant, if anything, for its type invariant to be kept.      *)
(***************************************************************************)

\* Which file a put writes, overlapped or not: one that has been created.
FileTypes ==
  /\ PutsTypeOK
  /\ \A p \in Putters : Writing(p) => putter[p].at \in DOMAIN file

LEMMA FileTypesInit == FileInit => FileTypes
  BY DEF FileInit, FileTypes, PutsTypeOK, Writing, NotPutting

LEMMA OpenKeepsFileTypes ==
  ASSUME FileTypes, NEW p \in Putters, OpenTmp(p)
  PROVE  FileTypes'
<1> DEFINE at == IF tmpFile = 0 THEN Len(file) + 1 ELSE tmpFile
<1>1. /\ file \in Seq(SUBSET Parts) /\ Len(file) \in Nat /\ tmpFile \in 0..Len(file)
      /\ \A q \in Putters : Writing(q) => putter[q].at \in 1..Len(file)
  BY DEF FileTypes, PutsTypeOK
<1>2. PICK n \in Nat : Len(file) <= n /\ 1..Len(file) \cup {at} = 1..n /\ at \in 1..n
  <2>1. CASE tmpFile = 0
    BY <1>1, <2>1
  <2>2. CASE tmpFile # 0
    BY <1>1, <2>2
  <2>3. QED
    BY <2>1, <2>2
<1>3. file' = [f \in 1..n |-> IF f = at THEN {} ELSE file[f]]
  BY <1>2 DEF OpenTmp
<1>4. \A f \in 1..n : f # at => f \in 1..Len(file)
  BY <1>1, <1>2
<1>5. file' \in Seq(SUBSET Parts) /\ Len(file') = n
  BY <1>1, <1>3, <1>4
<1>6. tmpFile' = at /\ blobFile' = blobFile
      /\ putter' = [putter EXCEPT ![p] = [pc |-> "write", at |-> at, left |-> Parts]]
  BY DEF OpenTmp
<1>7. QED
  BY <1>1, <1>2, <1>5, <1>6 DEF FileTypes, PutsTypeOK, Writing

LEMMA FileTypesStep == FileTypes /\ [FileNext]_fileVars => FileTypes'
<1> SUFFICES ASSUME FileTypes, [FileNext]_fileVars PROVE FileTypes'
  OBVIOUS
<1>1. ASSUME NEW p \in Putters, PutSkips(p) \/ PutStarts(p) \/ PutDies(p)
      PROVE  FileTypes'
  BY <1>1 DEF PutSkips, PutStarts, PutDies, PutEnds, NotPutting, FileTypes, PutsTypeOK, Writing
<1>2. ASSUME NEW p \in Putters, RenameTmp(p) PROVE FileTypes'
  BY <1>2 DEF RenameTmp, PutEnds, NotPutting, FileTypes, PutsTypeOK, Writing
<1>3. ASSUME NEW p \in Putters, NEW part \in Parts, WritePart(p, part) PROVE FileTypes'
  <2>1. putter[p].at \in DOMAIN file
    BY <1>3 DEF WritePart, FileTypes, Writing
  <2>2. file' = [file EXCEPT ![putter[p].at] = @ \cup {part}]
    BY <1>3 DEF WritePart
  <2>3. file' \in Seq(SUBSET Parts) /\ Len(file') = Len(file)
    BY <2>1, <2>2 DEF FileTypes, PutsTypeOK
  <2>4. QED
    BY <1>3, <2>3 DEF WritePart, FileTypes, PutsTypeOK, Writing
<1>4. CASE DeleteFile
  BY <1>4 DEF DeleteFile, FileTypes, PutsTypeOK, Writing
<1>5. CASE UNCHANGED fileVars
  BY <1>5 DEF fileVars, FileTypes, PutsTypeOK, Writing
<1>6. QED
  BY <1>1, <1>2, <1>3, <1>4, <1>5, OpenKeepsFileTypes DEF FileNext

LEMMA FileTypesImply == FileTypes => FileTypeOK
  BY DEF FileTypes, PutsTypeOK, FileTypeOK

\* Who answers is one of the nodes asked.
LEMMA FirstOfList ==
  ASSUME NEW list, NEW T, list \in Seq(T), FirstAnswer(list) # Nobody
  PROVE  FirstAnswer(list) \in ToSet(list)
<1> DEFINE here == Answering(list)
<1>1. here # {} /\ here \subseteq DOMAIN list /\ here \subseteq Nat /\ FirstAnswer(list) = list[Min(here)]
  BY DEF FirstAnswer, Answering
<1>2. \E i \in here : \A j \in here : ~ (<<j, i>> \in OpToRel(<, Nat))
  <2> HIDE DEF here
  <2> QED BY <1>1, NatLessThanWellFounded, WFMin, Zenon
<1>3. \E i \in here : \A j \in here : i <= j
  <2>1. PICK i \in here : \A j \in here : ~ (<<j, i>> \in OpToRel(<, Nat))
    BY <1>2
  <2>2. \A j \in here : ~ (j < i)
    <3> HIDE DEF here
    <3> QED BY <1>1, <2>1, Zenon DEF OpToRel
  <2>3. \A j \in here : i <= j
    <3> HIDE DEF here
    <3> QED BY <1>1, <2>2
  <2>4. QED
    BY <2>3
<1>4. Min(here) \in here
  BY <1>3 DEF Min
<1>5. QED
  BY <1>1, <1>4 DEF ToSet

LEMMA NodesAsked ==
  /\ Remotes \in Seq(Nodes) /\ Peers \o Edges \in Seq(Nodes) /\ Sources \in Seq(Nodes)
  /\ ToSet(Peers \o Edges) \subseteq Nodes /\ ToSet(Sources) \subseteq Nodes
<1>1. PICK T : Peers \in Seq(T) /\ Edges \in Seq(T) /\ Sources \in Seq(T)
  <2> DEFINE T == ToSet(Peers) \cup ToSet(Edges) \cup ToSet(Sources)
  <2>1. ASSUME NEW list \in {Peers, Edges, Sources} PROVE list \in Seq(T)
    <3>1. list \in Seq(ToSet(list)) /\ ToSet(list) \subseteq T
      BY TransferAssumption
    <3> HIDE DEF T
    <3>2. QED
      BY <3>1
  <2>2. QED
    BY <2>1
<1>2. /\ Remotes \in Seq(T)
      /\ \A i \in DOMAIN (Peers \o Edges) : i \in DOMAIN Remotes /\ Remotes[i] = (Peers \o Edges)[i]
      /\ \A i \in DOMAIN Sources : /\ Len(Peers \o Edges) + i \in DOMAIN Remotes
                                   /\ Remotes[Len(Peers \o Edges) + i] = Sources[i]
  BY <1>1 DEF Remotes
<1>3. ToSet(Peers \o Edges) \subseteq Nodes /\ ToSet(Sources) \subseteq Nodes
  BY <1>2 DEF Nodes, ToSet
<1>4. \A list : list \in Seq(T) /\ ToSet(list) \subseteq Nodes => list \in Seq(Nodes)
  BY DEF ToSet
<1>5. Peers \o Edges \in Seq(T) /\ ToSet(Remotes) \subseteq Nodes
  BY <1>1 DEF Nodes
<1>6. QED
  BY <1>1, <1>2, <1>3, <1>4, <1>5

LEMMA AnswerTyped ==
  ASSUME TransferTypeOK
  PROVE  /\ \A list \in {Remotes, Peers \o Edges} : Answer(list) \in Answers \cup {"error"}
         /\ {FirstAnswer(Remotes), FirstAnswer(Sources)} \subseteq Nodes \cup {Nobody}
         /\ Served \subseteq Nodes \cup {Nobody}
<1>1. \A list : list \in Seq(Nodes) /\ ToSet(list) \subseteq Nodes => FirstAnswer(list) \in Nodes \cup {Nobody}
  BY FirstOfList
<1>2. /\ FirstAnswer(Remotes) \in Nodes \cup {Nobody} /\ FirstAnswer(Sources) \in Nodes \cup {Nobody}
      /\ FirstAnswer(Peers \o Edges) \in Nodes \cup {Nobody}
  BY <1>1, NodesAsked DEF Nodes
<1>3. \A list : FirstAnswer(list) \in Nodes \cup {Nobody} => Answer(list) \in Answers \cup {"error"}
  BY DEF TransferTypeOK, Answer, Answers
<1>4. Served \subseteq Nodes \cup {Nobody}
  BY <1>2, NodesAsked DEF Served
<1>5. QED
  BY <1>2, <1>3, <1>4

LEMMA TransferTypesInit == TransferInit => TransferTypeOK
  BY DEF TransferInit, TransferTypeOK, Answers

LEMMA TransferTypesStep == TransferTypeOK /\ [TransferNext]_transferVars => TransferTypeOK'
<1> SUFFICES ASSUME TransferTypeOK, [TransferNext]_transferVars PROVE TransferTypeOK'
  OBVIOUS
<1> USE AnswerTyped
<1>1. CASE AskBeforeStore
  BY <1>1 DEF AskBeforeStore, Record, TransferTypeOK
<1>2. CASE StoreFallback
  BY <1>2 DEF StoreFallback, Record, TransferTypeOK, Answers
<1>3. CASE GetNative
  <2>1. observed' \subseteq Nodes \cup {Self} /\ copy' = copy
    BY <1>3 DEF GetNative, Record, TransferTypeOK
  <2>2. cache' = cache \/ cache' = "good"
    BY <1>3 DEF GetNative, Verified
  <2>3. QED
    BY <2>1, <2>2 DEF TransferTypeOK, Answers
<1>4. CASE GetFallback
  BY <1>4 DEF GetFallback, Record, TransferTypeOK, Answers
<1>5. CASE DeleteLocal
  BY <1>5 DEF DeleteLocal, TransferTypeOK, Answers
<1>6. ASSUME NEW n \in Nodes, NodeChanges(n) PROVE TransferTypeOK'
  BY <1>6 DEF NodeChanges, TransferTypeOK
<1>7. CASE LocalDamage
  BY <1>7 DEF LocalDamage, TransferTypeOK, Answers
<1>8. CASE UNCHANGED transferVars
  BY <1>8 DEF transferVars, TransferTypeOK
<1>9. QED
  BY <1>1, <1>2, <1>3, <1>4, <1>5, <1>6, <1>7, <1>8 DEF TransferNext

\* A digest is made of edges that are there, and a key is the server's of then.
IsDigest(s) == s.digest \subseteq lineage /\ s.key \in Signers \cup {Unsigned}

ProofTypes ==
  /\ ProofInv /\ ProofTypeOK
  /\ \A c \in Clients : request[c].pc = "recording" => IsDigest(request[c].share)

LEMMA ProofTypesInit == ProofInit => ProofTypes
<1> SUFFICES ASSUME ProofInit PROVE ProofTypes
  OBVIOUS
<1>1. ProofTypeOK
  BY ProofAssumption DEF ProofInit, ProofTypeOK
<1>2. QED
  BY <1>1, ProofInvInit DEF ProofInit, ProofTypes, NoRequest

LEMMA ProofTypesStep == ProofTypes /\ [ProofNext]_proofVars => ProofTypes'
<1> SUFFICES ASSUME ProofTypes, [ProofNext]_proofVars
             PROVE  ProofTypeOK' /\ \A c \in Clients : request'[c].pc = "recording" => IsDigest(request[c].share)'
  BY ProofInvStep DEF ProofTypes
<1>0. /\ ProofTypeOK /\ request = [c \in Clients |-> request[c]]
      /\ \A c \in Clients : request[c].pc = "recording" => IsDigest(request[c].share)
      /\ \A s \in shares : IsDigest(s) /\ IsShare(s)
      /\ \A c \in Clients : request[c].pc = "recording" =>
           /\ request[c] = [pc |-> "recording", share |-> request[c].share] /\ IsShare(request[c].share)
  BY DEF ProofTypes, ProofInv, ProofTypeOK, IsDigest, RequestInv
<1>1. ASSUME NEW c \in Clients, StampEdge(c) \/ BeginShare(c) \/ StampShare(c) \/ AddEdge(c)
      PROVE  ProofTypeOK' /\ \A d \in Clients : request'[d].pc = "recording" => IsDigest(request[d].share)'
  <2>1. PICK r : Becomes(c, r) /\ r.pc # "recording"
    BY <1>1 DEF StampEdge, BeginShare, StampShare, AddEdge, NoRequest
  <2>2. UNCHANGED <<clock, signer, shares>> /\ lineage \subseteq lineage'
    BY <1>1 DEF StampEdge, BeginShare, StampShare, AddEdge
  <2>3. \A s : IsDigest(s) => IsDigest(s)'
    BY <2>2 DEF IsDigest
  <2>4. ASSUME NEW d \in Clients, request'[d].pc = "recording"
        PROVE  IsDigest(request[d].share)'
    <3>1. request'[d] = request[d]
      BY <1>0, <2>1, <2>4 DEF Becomes
    <3>2. QED
      BY <1>0, <2>2, <2>4, <3>1 DEF IsDigest
  <2>5. QED
    BY <1>0, <2>2, <2>4 DEF ProofTypeOK
<1>2. ASSUME NEW c \in Clients, Prove(c)
      PROVE  ProofTypeOK' /\ \A d \in Clients : request'[d].pc = "recording" => IsDigest(request[d].share)'
  <2> DEFINE cutoff == request[c].anchor
             share == [anchor |-> cutoff, digest |-> Before(lineage, cutoff),
                       key |-> SignedBy, safe |-> AllAdded(cutoff) /\ clock >= cutoff]
  <2>1. Becomes(c, [pc |-> "recording", share |-> share]) /\ UNCHANGED <<clock, signer, lineage, shares>>
    BY <1>2 DEF Prove
  <2>2. IsDigest(share)
    BY <1>0 DEF IsDigest, Before, SignedBy, ProofTypeOK
  <2> HIDE DEF share
  <2>3. ASSUME NEW d \in Clients, request'[d].pc = "recording"
        PROVE  IsDigest(request'[d].share)
    <3>1. d = c => request'[d].share = share
      BY <1>0, <2>1 DEF Becomes
    <3>2. d # c => request'[d] = request[d]
      BY <1>0, <2>1 DEF Becomes
    <3>3. QED
      BY <1>0, <2>2, <2>3, <3>1, <3>2
  <2>4. QED
    BY <1>0, <2>1, <2>3 DEF ProofTypeOK, IsDigest
<1>3. ASSUME NEW c \in Clients, RecordShare(c)
      PROVE  ProofTypeOK' /\ \A d \in Clients : request'[d].pc = "recording" => IsDigest(request[d].share)'
  <2>1. /\ request[c].pc = "recording" /\ shares' = shares \cup {request[c].share}
        /\ Becomes(c, [pc |-> "stamping"]) /\ UNCHANGED <<clock, signer, lineage>>
    BY <1>3 DEF RecordShare
  <2>2. \A d \in Clients : request'[d].pc = "recording" => request'[d] = request[d]
    BY <1>0, <2>1 DEF Becomes
  <2>3. QED
    BY <1>0, <2>1, <2>2 DEF ProofTypeOK, IsDigest
<1>4. CASE Tick
  <2>1. clock' \in 0..MaxTime
    BY <1>0, <1>4, ProofAssumption DEF Tick, ProofTypeOK
  <2>2. QED
    BY <1>0, <1>4, <2>1 DEF Tick, ProofTypeOK, IsDigest
<1>5. ASSUME NEW time \in 0..MaxTime, SetBack(time)
      PROVE  ProofTypeOK' /\ \A d \in Clients : request'[d].pc = "recording" => IsDigest(request[d].share)'
  <2> DEFINE back(s) == [s EXCEPT !.safe = @ /\ s.anchor <= time]
  <2>1. /\ clock' = time /\ UNCHANGED <<signer, lineage>>
        /\ shares' = {back(s) : s \in shares}
        /\ request' = [c \in Clients |-> IF request[c].pc = "recording"
                                         THEN [request[c] EXCEPT !.share = back(@)] ELSE request[c]]
    BY <1>5 DEF SetBack
  <2>2. \A s : IsShare(s) => back(s).digest = s.digest /\ back(s).key = s.key
    BY DEF IsShare
  <2> HIDE DEF back
  <2>3. \A s \in shares' : IsDigest(s)
    BY <1>0, <2>1, <2>2 DEF IsDigest
  <2>4. ASSUME NEW d \in Clients, request'[d].pc = "recording"
        PROVE  IsDigest(request'[d].share)
    <3>1. request[d].pc = "recording"
      BY <1>0, <2>1, <2>4
    <3>2. request'[d].share = back(request[d].share)
      <4>1. request'[d] = [request[d] EXCEPT !.share = back(@)]
        BY <2>1, <3>1
      <4>2. request[d] = [pc |-> "recording", share |-> request[d].share]
        BY <1>0, <3>1
      <4>3. QED
        BY <4>1, <4>2
    <3>3. QED
      BY <1>0, <2>2, <3>1, <3>2 DEF IsDigest
  <2>5. QED
    BY <1>0, <2>1, <2>3, <2>4 DEF ProofTypeOK, IsDigest
<1>6. ASSUME NEW key \in Signers \cup {Unsigned}, Restart(key)
      PROVE  ProofTypeOK' /\ \A d \in Clients : request'[d].pc = "recording" => IsDigest(request[d].share)'
  BY <1>0, <1>6 DEF Restart, ProofTypeOK, NoRequest
<1>7. CASE UNCHANGED proofVars
  BY <1>0, <1>7 DEF proofVars, ProofTypeOK, IsDigest
<1>8. QED
  BY <1>1, <1>2, <1>3, <1>4, <1>5, <1>6, <1>7 DEF ProofNext

LEMMA ProofTypesImply == ProofTypes => ProofTypeOK
  BY DEF ProofTypes

StoreTypes == MirrorInv /\ StoreTypeOK

CountsKnown(rows) == \A o \in DOMAIN rows : rows[o] \in 0..MaxRefs

LEMMA StoreTypesInit == StoreInit => StoreTypes
<1> SUFFICES ASSUME StoreInit PROVE StoreTypeOK
  BY MirrorInvInit DEF StoreTypes
<1>1. memory = Empty /\ sqlite = Empty /\ DOMAIN Empty.counts = {}
  BY DEF StoreInit, Empty, NoRows
<1>2. QED
  BY <1>1 DEF StoreInit, StoreTypeOK

LEMMA CountedRow ==
  ASSUME NEW rows, CountsKnown(rows), NEW o, NEW n \in 0..MaxRefs
  PROVE  CountsKnown(Row(rows, o, n))
  BY DEF CountsKnown, Row

LEMMA StoreTypesStep == StoreTypes /\ [StoreNext]_storeVars => StoreTypes'
<1> SUFFICES ASSUME StoreTypes, [StoreNext]_storeVars PROVE StoreTypeOK'
  BY MirrorStep DEF StoreTypes
<1>0. /\ table \in Tables /\ misused \subseteq Keys
      /\ CountsKnown(memory.counts) /\ CountsKnown(sqlite.counts)
      /\ HasTables(memory) /\ HasTables(sqlite) /\ CountsMirror(memory.counts, sqlite.counts)
  BY DEF StoreTypes, StoreTypeOK, MirrorInv, CountsKnown
<1>1. table' = table /\ misused' \subseteq Keys
  BY <1>0 DEF StoreNext, storeVars, IncRef, DecRef, StorePin, UpdatePin, MarkReleased, StoreEdge, CreateOrigin,
              UpdateOrigin, PutPolicy, DeleteOrigin, PutDerivation, PutShare, Fingerprint
<1>2. CountsKnown(memory'.counts) /\ CountsKnown(sqlite'.counts)
  <2>1. ASSUME NEW o \in Owners, IncRef(o)
        PROVE  CountsKnown(memory'.counts) /\ CountsKnown(sqlite'.counts)
    <3>1. GetCount(memory.counts, o) = GetCount(sqlite.counts, o) /\ GetCount(memory.counts, o) \in Nat
      BY <1>0 DEF CountsMirror, GetCount
    <3>2. GetCount(memory.counts, o) + 1 \in 0..MaxRefs
      BY <2>1, <3>1, MetadataAssumption DEF IncRef
    <3>3. /\ memory'.counts = Row(memory.counts, o, GetCount(memory.counts, o) + 1)
          /\ sqlite'.counts = Row(sqlite.counts, o, GetCount(sqlite.counts, o) + 1)
      BY <1>0, <2>1 DEF IncRef, HasTables
    <3>4. QED
      BY <1>0, <3>1, <3>2, <3>3, CountedRow
  <2>2. ASSUME NEW o \in Owners, DecRef(o)
        PROVE  CountsKnown(memory'.counts) /\ CountsKnown(sqlite'.counts)
    <3>1. /\ memory'.counts = MemDec(memory.counts, o)
          /\ sqlite'.counts = SqlDec(sqlite.counts, o)
      BY <1>0, <2>2 DEF DecRef, HasTables
    <3>2. ASSUME NEW rows, CountsKnown(rows)
          PROVE  /\ Less(GetCount(rows, o)) \in 0..MaxRefs
                 /\ o \in DOMAIN rows => Less(rows[o]) \in 0..MaxRefs
      BY <3>2, MetadataAssumption DEF CountsKnown, Less, GetCount
    <3>3. QED
      BY <1>0, <3>1, <3>2, CountedRow DEF MemDec, SqlDec
  <2>3. ASSUME ~ \E o \in Owners : IncRef(o) \/ DecRef(o)
        PROVE  memory'.counts = memory.counts /\ sqlite'.counts = sqlite.counts
    <3>1. CASE UNCHANGED storeVars
      BY <3>1 DEF storeVars
    <3>2. CASE StoreNext
      <4>1. CASE \E k \in Keys : \/ \E pin \in Pins : StorePin(k, pin) \/ UpdatePin(k, pin)
                               \/ MarkReleased(k) \/ \E o \in Owners : StoreEdge(k, o)
        BY <1>0, <4>1 DEF HasTables, StorePin, UpdatePin, MarkReleased, StoreEdge
      <4>2. CASE \E o \in Owners, v \in Versions : CreateOrigin(o, v) \/ UpdateOrigin(o, v) \/ PutPolicy(o, v)
        BY <1>0, <4>2 DEF HasTables, CreateOrigin, UpdateOrigin, PutPolicy
      <4>3. CASE \E o \in Owners : DeleteOrigin(o)
        BY <1>0, <4>3 DEF HasTables, DeleteOrigin
      <4>4. CASE \E r \in Records : PutDerivation(r) \/ PutShare(r)
        BY <1>0, <4>4 DEF HasTables, PutDerivation, PutShare
      <4>5. CASE \E o \in Owners, content \in Contents : Fingerprint(o, content)
        BY <1>0, <4>5 DEF HasTables, Fingerprint
      <4>6. QED
        BY <2>3, <3>2, <4>1, <4>2, <4>3, <4>4, <4>5 DEF StoreNext
    <3>3. QED
      BY <3>1, <3>2
  <2>4. QED
    BY <1>0, <2>1, <2>2, <2>3
<1>3. QED
  BY <1>0, <1>1, <1>2 DEF StoreTypeOK, CountsKnown

\* A repair copies to no more hosts than were missing when it was planned.
ReplicaTypes == RepairInv /\ ReplicaTypeOK

LEMMA ReplicaTypesInit == ReplicaInit => ReplicaTypes
<1> SUFFICES ASSUME ReplicaInit PROVE ReplicaTypeOK
  BY RepairInvInit DEF ReplicaTypes
<1>1. \A h \in Hosts : replica[h] = NoReplica
  BY DEF ReplicaInit
<1>2. \A o \in Operators : operator[o].missing = 0
  BY DEF ReplicaInit, NoRepair
<1>3. QED
  BY <1>1, <1>2, ReplicaAssumption DEF ReplicaInit, ReplicaTypeOK, NoReplica

\* The steps of one operator: the records stay or one is stamped today, and what
\* is missing stays, or gets less, or is what the audit found.
LEMMA RepairStepTyped ==
  ASSUME ReplicaTypes, NEW o \in Operators, NEW r, RepairStep(o, r), r.missing \in 0..MinReplicas
  PROVE  \A p \in Operators : operator'[p].missing \in 0..MinReplicas
  BY DEF ReplicaTypes, RepairInv, ReplicaTypeOK, RepairStep

LEMMA UpsertTyped ==
  ASSUME ReplicaTypes, NEW h \in Hosts, NEW state \in {"none", "healthy", "dead"}, Upsert(h, state)
  PROVE  \A g \in Hosts : replica'[g] \in [state : {"none", "healthy", "dead"}, seen : 0..MaxDays]
  BY DEF ReplicaTypes, RepairInv, ReplicaTypeOK, Upsert

LEMMA ReplicaTypesStep == ReplicaTypes /\ [ReplicaNext]_replicaVars => ReplicaTypes'
<1> SUFFICES ASSUME ReplicaTypes, [ReplicaNext]_replicaVars PROVE ReplicaTypeOK'
  BY RepairInvStep DEF ReplicaTypes
<1>0. /\ ReplicaTypeOK /\ operator \in [Operators -> Repairs]
      /\ \A o \in Operators : operator[o].missing \in 0..MinReplicas
  BY DEF ReplicaTypes, RepairInv, ReplicaTypeOK
<1>1. ASSUME NEW o \in Operators, Audit(o) PROVE ReplicaTypeOK'
  <2>1. Cardinality(Fresh(day)) \in Nat
    BY FreshFinite, SameFresh
  <2>2. MinReplicas - Cardinality(Fresh(day)) \in 0..MinReplicas
    BY <1>1, <2>1, ReplicaAssumption DEF Audit, Enough
  <2> DEFINE r == [NoRepair EXCEPT !.pc = "list", !.planned = day,
                                    !.missing = MinReplicas - Cardinality(Fresh(day))]
  <2>3. RepairStep(o, r) /\ UNCHANGED <<day, holding, replica, losses, bereft>>
    BY <1>1 DEF Audit
  <2>4. r.missing = MinReplicas - Cardinality(Fresh(day))
    BY DEF NoRepair
  <2> HIDE DEF r
  <2>5. QED
    BY <1>0, <2>2, <2>3, <2>4, RepairStepTyped DEF ReplicaTypeOK
<1>2. ASSUME NEW o \in Operators,
             ListReplicas(o) \/ FindSource(o) \/ RepairReturns(o) \/ RepairFails(o) \/ \E h \in Hosts : CopyTo(o, h)
      PROVE  ReplicaTypeOK'
  <2>1. /\ holding' \subseteq Hosts /\ bereft' \subseteq Hosts /\ UNCHANGED <<day, replica>>
    BY <1>0, <1>2 DEF ListReplicas, FindSource, RepairReturns, RepairFails, CopyTo, ReplicaTypeOK
  <2>2. \E r : RepairStep(o, r) /\ (r = NoRepair \/ \E pc, known, to :
            r = [operator[o] EXCEPT !.pc = pc, !.known = known, !.to = to])
    <3>1. operator[o] \in Repairs
      BY <1>0
    <3>2. ASSUME NEW h \in Hosts, CopyTo(o, h)
          PROVE  [operator[o] EXCEPT !.pc = "record", !.to = {h}]
                 = [operator[o] EXCEPT !.pc = "record", !.known = operator[o].known, !.to = {h}]
      BY <3>1 DEF Repairs
    <3>3. [operator[o] EXCEPT !.pc = "source", !.known = HealthyHosts]
                 = [operator[o] EXCEPT !.pc = "source", !.known = HealthyHosts, !.to = operator[o].to]
      BY <3>1 DEF Repairs
    <3>4. [operator[o] EXCEPT !.pc = "copy"]
                 = [operator[o] EXCEPT !.pc = "copy", !.known = operator[o].known, !.to = operator[o].to]
      BY <3>1 DEF Repairs
    <3>5. CASE ListReplicas(o)
      BY <3>3, <3>5 DEF ListReplicas
    <3>6. CASE FindSource(o)
      BY <3>4, <3>6 DEF FindSource
    <3>7. CASE RepairReturns(o) \/ RepairFails(o)
      BY <3>7 DEF RepairReturns, RepairFails
    <3>8. CASE \E h \in Hosts : CopyTo(o, h)
      BY <3>2, <3>8 DEF CopyTo
    <3>9. QED
      BY <1>2, <3>5, <3>6, <3>7, <3>8
  <2>3. PICK r : RepairStep(o, r) /\ (r = NoRepair \/ \E pc, known, to :
            r = [operator[o] EXCEPT !.pc = pc, !.known = known, !.to = to])
    BY <2>2
  <2>4. r.missing \in 0..MinReplicas
    <3>1. CASE r = NoRepair
      BY <3>1, ReplicaAssumption DEF NoRepair
    <3>2. CASE r # NoRepair
      <4>1. PICK pc, known, to : r = [operator[o] EXCEPT !.pc = pc, !.known = known, !.to = to]
        BY <2>3, <3>2
      <4>2. operator[o] \in Repairs
        BY <1>0
      <4>3. r.missing = operator[o].missing
        BY <4>1, <4>2 DEF Repairs
      <4>4. QED
        BY <1>0, <4>3
    <3>3. QED
      BY <3>1, <3>2
  <2>5. QED
    BY <1>0, <2>1, <2>3, <2>4, RepairStepTyped DEF ReplicaTypeOK
<1>3. ASSUME NEW o \in Operators, RecordCopy(o) PROVE ReplicaTypeOK'
  <2>1. operator[o] \in Repairs /\ operator[o].missing > 0 /\ \E h \in Hosts : operator[o].to = {h}
    BY <1>0, <1>3 DEF RecordCopy, ReplicaTypes, RepairInv, RepairOK
  <2> DEFINE r == [operator[o] EXCEPT !.pc = "copy", !.to = {}, !.missing = @ - 1,
                                       !.known = @ \cup operator[o].to]
  <2>2. r.missing = operator[o].missing - 1
    BY <2>1 DEF Repairs
  <2>3. r.missing \in 0..MinReplicas
    BY <1>0, <2>1, <2>2, ReplicaAssumption
  <2>4. RepairStep(o, r) /\ UNCHANGED <<day, holding, losses, bereft>>
    BY <1>3 DEF RecordCopy
  <2>5. PICK h \in Hosts : Upsert(h, "healthy")
    BY <1>3, <2>1 DEF RecordCopy
  <2> HIDE DEF r
  <2>6. \A p \in Operators : operator'[p].missing \in 0..MinReplicas
    BY <2>3, <2>4, RepairStepTyped
  <2>7. QED
    BY <1>0, <2>4, <2>5, <2>6, UpsertTyped DEF ReplicaTypeOK
<1>4. ASSUME NEW h \in Hosts, Observe(h) PROVE ReplicaTypeOK'
  <2>1. Upsert(h, "healthy") /\ UNCHANGED <<day, holding, operator>> /\ bereft' = bereft \ {h}
    BY <1>4 DEF Observe
  <2>2. QED
    BY <1>0, <2>1, UpsertTyped DEF ReplicaTypeOK
<1>5. ASSUME NEW h \in Hosts, ReportDead(h) PROVE ReplicaTypeOK'
  <2>1. Upsert(h, "dead") /\ UNCHANGED <<day, holding, bereft>>
    BY <1>5 DEF ReportDead
  <2>2. ASSUME NEW p \in Operators PROVE operator'[p].missing \in 0..MinReplicas
    <3>1. operator'[p] = NoRepair \/ operator'[p] = [operator[p] EXCEPT !.disturbed = TRUE]
      BY <1>5 DEF ReportDead
    <3>2. operator[p] \in Repairs /\ operator[p].missing \in 0..MinReplicas
      BY <1>0
    <3>3. QED
      BY <3>1, <3>2, ReplicaAssumption DEF NoRepair, Repairs
  <2>3. QED
    BY <1>0, <2>1, <2>2, UpsertTyped DEF ReplicaTypeOK
<1>6. ASSUME NEW h \in Hosts, LoseCopy(h) PROVE ReplicaTypeOK'
  BY <1>0, <1>6 DEF LoseCopy, ReplicaTypeOK
<1>7. CASE NextDay
  <2>1. day' \in 0..MaxDays /\ UNCHANGED <<holding, replica, operator, bereft>>
    BY <1>0, <1>7, ReplicaAssumption DEF NextDay, ReplicaTypeOK
  <2>2. QED
    BY <1>0, <2>1 DEF ReplicaTypeOK
<1>8. CASE UNCHANGED replicaVars
  BY <1>0, <1>8 DEF replicaVars, ReplicaTypeOK
<1>9. QED
  BY <1>1, <1>2, <1>3, <1>4, <1>5, <1>6, <1>7, <1>8 DEF ReplicaNext
=============================================================================
