------------------------------- MODULE Chunking -------------------------------
(***************************************************************************)
(* How an upload is divided: by content (FastCdcChunker) or at a fixed width   *)
(* (FixedSizeChunker).  Two texts that end alike, say before and after an      *)
(* edit, are divided side by side; chunks of the common part are shared in the *)
(* blob store when both divisions cut it at the same places.                 *)
(*                                                                         *)
(* The rolling hash is exact in its low bits, the only ones the mask looks at; *)
(* bytes are few and the gear table gives each a number.                     *)
(***************************************************************************)
EXTENDS Integers, Sequences, FiniteSets, SequencesExt

CONSTANTS
  Gear,      \* GEAR_TABLE: the number of each byte
  MinSize,   \* min_size
  AvgSize,   \* avg_size
  MaxSize,   \* max_size, and the width of fixed chunks
  MaxHead,   \* bound: bytes before the common part
  TailSize   \* bound: bytes of the common part

ASSUME ChunkAssumption ==
  /\ MinSize \in Nat /\ AvgSize \in Nat /\ MaxSize \in Nat /\ TailSize \in Nat
  /\ MinSize < AvgSize /\ AvgSize < MaxSize

VARIABLES
  chunker,   \* "fastcdc" or "fixed"
  texts,     \* the two texts
  heads,     \* bytes of each before the common part
  ends       \* where the chunks of each end, in order

chunkVars == <<chunker, texts, heads, ends>>

Bytes == DOMAIN Gear

ChunkInit ==
  /\ chunker \in {"fastcdc", "fixed"}
  /\ \E one, two \in SeqOf(Bytes, MaxHead), tail \in [1..TailSize -> Bytes] :
       /\ texts = <<one \o tail, two \o tail>>
       /\ heads = <<Len(one), Len(two)>>
  /\ ends = <<<<>>, <<>>>>

----------------------------------------------------------------------------
Least(a, b) == IF a < b THEN a ELSE b

(* mask(): the highest power of two that is at most avg_size, less one; a hash   *)
(* has its masked bits zero when that power divides it.                       *)
MaskModulus == CHOOSE m \in {2 ^ k : k \in 0..AvgSize} : m <= AvgSize /\ AvgSize < 2 * m

(* The hash after the byte at i of a chunk: it starts anew at the first byte     *)
(* past the minimum.                                                        *)
HashAt(data, i) ==
  LET hash[j \in MinSize..i] ==
        IF j = MinSize THEN 0 ELSE (2 * hash[j - 1] + Gear[data[j]]) % MaskModulus
  IN  hash[i]

(* cut_point: the length of the first chunk of data.                          *)
CutPoint(data) ==
  LET last == Least(MaxSize, Len(data))
      cuts == {i \in MinSize + 1..last : HashAt(data, i) = 0}
  IN  IF cuts = {} THEN last ELSE CHOOSE i \in cuts : \A j \in cuts : i <= j

FixedCut(data) == Least(MaxSize, Len(data))

Offset(s) == IF ends[s] = <<>> THEN 0 ELSE Last(ends[s])
\* A fault: the text is read in blocks, each divided for itself.
Rest_Fault(s) == SubSeq(texts[s], Offset(s) + 1,
                        Least(Len(texts[s]), (Offset(s) \div AvgSize + 1) * AvgSize))

Rest(s) == SubSeq(texts[s], Offset(s) + 1, Len(texts[s]))

(* Empty data is one empty chunk of the content chunker, and none of the other.  *)
More(s) == \/ Offset(s) < Len(texts[s])
           \/ texts[s] = <<>> /\ ends[s] = <<>> /\ chunker = "fastcdc"

(* One turn of the loop of chunk(), for text s.                              *)
NextChunk(s) ==
  /\ More(s)
  /\ ends' = [ends EXCEPT ![s] =
       Append(@, Offset(s) + IF chunker = "fixed" THEN FixedCut(Rest(s)) ELSE CutPoint(Rest(s)))]
  /\ UNCHANGED <<chunker, texts, heads>>

(* What is left of a text after its next chunk depends on that text alone: the    *)
(* one that has more left goes first.                                        *)
Behind(s) == \A r \in 1..2 : More(r) => Len(Rest(r)) <= Len(Rest(s))

ChunkNext == \E s \in 1..2 : Behind(s) /\ NextChunk(s)
ChunkSpec == ChunkInit /\ [][ChunkNext]_chunkVars

----------------------------------------------------------------------------
(* No chunk but that of an empty text is empty, and none is too long.          *)
ChunkTypeOK ==
  \A s \in 1..2 : \A i \in DOMAIN ends[s] :
    LET size == ends[s][i] - IF i = 1 THEN 0 ELSE ends[s][i - 1]
    IN  /\ size > 0 \/ texts[s] = <<>>
        /\ size <= MaxSize

(* Places of the common part, counted from its start, where text s is cut.        *)
SharedCuts(s) == {e - heads[s] : e \in {e \in ToSet(ends[s]) : e >= heads[s]}}

(* Once the two divisions have cut the common part at one same place they cut it  *)
(* at the same places to its end, so all later chunks are stored once; nothing    *)
(* before that place has a say.                                              *)
Resynchronises ==
  \A cut \in SharedCuts(1) \cap SharedCuts(2) : \A later \in cut + 1..TailSize :
    later <= Offset(1) - heads[1] /\ later <= Offset(2) - heads[2]
      => (later \in SharedCuts(1) <=> later \in SharedCuts(2))
=============================================================================
