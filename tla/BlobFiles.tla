------------------------------ MODULE BlobFiles ------------------------------
(***************************************************************************)
(* FsBlobStore on its file system: a put writes a temporary file beside the   *)
(* blob's and renames it.  The temporary file is named after the blob alone,  *)
(* so two puts of one blob write the same file.  Blobs do not share files;    *)
(* this is the life of one.                                                  *)
(* A file holds the parts of the content that were written to it: a part not  *)
(* written reads as missing or as zeros.                                     *)
(***************************************************************************)
EXTENDS Naturals, FiniteSets, Sequences

CONSTANTS
  Putters,  \* processes that put the blob
  Parts,    \* pieces of the content, one write call each
  MaxFiles  \* bound: files created

ASSUME FileAssumption == MaxFiles \in Nat

VARIABLES
  file,     \* the parts each file holds
  blobFile, \* the file at the blob's path, 0 when there is none
  tmpFile,  \* the file at the temporary path, 0 when there is none
  putter,   \* how far each put is
  overlapped, \* history: the temporary file was opened while another put wrote it
  promise   \* history: a put returned and nobody deleted the blob since

fileVars == <<file, blobFile, tmpFile, putter, overlapped, promise>>

NotPutting == [pc |-> "idle", at |-> 0, left |-> {}]

FileInit ==
  /\ file = <<>>
  /\ blobFile = 0 /\ tmpFile = 0
  /\ putter = [p \in Putters |-> NotPutting]
  /\ overlapped = FALSE /\ promise = FALSE

----------------------------------------------------------------------------
Exists == blobFile # 0
PutEnds(p) == putter' = [putter EXCEPT ![p] = NotPutting]

(* put returns at once when the path exists, whatever is in the file.         *)
PutSkips(p) ==
  /\ putter[p].pc = "idle"
  /\ Exists
  /\ promise' = TRUE
  /\ UNCHANGED <<file, blobFile, tmpFile, putter, overlapped>>

PutStarts(p) ==
  /\ putter[p].pc = "idle"
  /\ ~ Exists
  /\ putter' = [putter EXCEPT ![p].pc = "open"]
  /\ UNCHANGED <<file, blobFile, tmpFile, overlapped, promise>>

\* A fault: the file is written under its final name.
OpenTmp_Fault(p) ==
  LET at == Len(file) + 1
  IN  /\ putter[p].pc = "open"
      /\ at <= MaxFiles
      /\ file' = Append(file, {})
      /\ tmpFile' = at /\ blobFile' = at
      /\ putter' = [putter EXCEPT ![p] = [pc |-> "write", at |-> at, left |-> Parts]]
      /\ UNCHANGED <<overlapped, promise>>

(* fs::write opens the temporary file: it is created, or emptied if it is     *)
(* there, left by a crash or being written by another put.                   *)
OpenTmp(p) ==
  LET at == IF tmpFile = 0 THEN Len(file) + 1 ELSE tmpFile
  IN  /\ putter[p].pc = "open"
      /\ at <= MaxFiles
      /\ file' = [f \in 1..Len(file) \cup {at} |-> IF f = at THEN {} ELSE file[f]]
      /\ tmpFile' = at
      /\ putter' = [putter EXCEPT ![p] = [pc |-> "write", at |-> at, left |-> Parts]]
      /\ overlapped' = (overlapped \/ \E q \in Putters : putter[q].pc = "write" /\ putter[q].at = at)
      /\ UNCHANGED <<blobFile, promise>>

WritePart(p, part) ==
  /\ putter[p].pc = "write"
  /\ part \in putter[p].left
  /\ file' = [file EXCEPT ![putter[p].at] = @ \cup {part}]
  /\ putter' = [putter EXCEPT ![p].left = @ \ {part}]
  /\ UNCHANGED <<blobFile, tmpFile, overlapped, promise>>

(* The rename takes what the temporary path names by then; with nothing there *)
(* the put fails.                                                          *)
RenameTmp(p) ==
  /\ putter[p].pc = "write"
  /\ putter[p].left = {}
  /\ PutEnds(p)
  /\ IF tmpFile # 0
       THEN /\ blobFile' = tmpFile
            /\ tmpFile' = 0
            /\ promise' = TRUE
       ELSE UNCHANGED <<blobFile, tmpFile, promise>>
  /\ UNCHANGED <<file, overlapped>>

PutDies(p) ==
  /\ putter[p].pc # "idle"
  /\ PutEnds(p)
  /\ UNCHANGED <<file, blobFile, tmpFile, overlapped, promise>>

DeleteFile ==
  /\ Exists
  /\ blobFile' = 0
  /\ promise' = FALSE
  /\ UNCHANGED <<file, tmpFile, putter, overlapped>>

FileNext ==
  \/ \E p \in Putters :
       \/ PutSkips(p) \/ PutStarts(p) \/ OpenTmp(p) \/ RenameTmp(p) \/ PutDies(p)
       \/ \E part \in Parts : WritePart(p, part)
  \/ DeleteFile

FileSpec == FileInit /\ [][FileNext]_fileVars

----------------------------------------------------------------------------
FileTypeOK ==
  /\ file \in Seq(SUBSET Parts)
  /\ {blobFile, tmpFile} \subseteq 0..Len(file)
  /\ \A p \in Putters : putter[p].left \subseteq Parts

(* What get reads.                                                         *)
Whole == Exists /\ file[blobFile] = Parts

(* "Atomic put (crash-safe)": a put that returned has left the whole content  *)
(* under the blob's path, until the blob is deleted.                         *)
PutIsAtomic == promise => Whole

(* The same as far as the code has it: whatever puts were killed at any       *)
(* point, a file under the blob's path is whole, and is there once a put has   *)
(* returned, unless two puts had the temporary file open at once.             *)
WholeUnlessOverlapped == (Exists \/ promise) => Whole \/ overlapped
=============================================================================
