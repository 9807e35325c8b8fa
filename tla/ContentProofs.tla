---------------------------- MODULE ContentProofs ----------------------------
(***************************************************************************)
(* Theorems about contents that are cut into blobs, sealed and listed, for    *)
(* every text, key, process and run, and without use of a bound: two divisions *)
(* of a text meet again (Chunking), what was uploaded reads back (Payloads),   *)
(* what a registry lists can be loaded (Checkpoints), quantized vectors come    *)
(* back nearly as they were (PolarQuant), and tokens spell their words (Bpe).   *)
(***************************************************************************)
EXTENDS Chunking, Payloads, Checkpoints, PolarQuant, Bpe, SequenceTheorems, FiniteSetTheorems,
        WellFoundedInduction, TLAPS

(***************************************************************************)
(* The division of a text.  A cut is followed by the one that the text behind   *)
(* it alone decides, so that two divisions with one cut in common share the     *)
(* next one too: the last cuts of both are the same, or one division is ahead   *)
(* and has the cut that the other makes.                                    *)
(***************************************************************************)
\* The next chunk of a text is as long as its rest says.
ChunkLength(data) == IF chunker = "fixed" THEN FixedCut(data) ELSE CutPoint(data)

After(s, c) == SubSeq(texts[s], heads[s] + c + 1, Len(texts[s]))
Increasing(es) == \A i, j \in DOMAIN es : i < j => es[i] < es[j]
Chained(es, text) ==
  \A i \in DOMAIN es : i + 1 \in DOMAIN es =>
    es[i + 1] = es[i] + ChunkLength(SubSeq(text, es[i] + 1, Len(text)))

TextsOK ==
  /\ texts \in [1..2 -> Seq(Bytes)] /\ heads \in [1..2 -> Nat]
  /\ \A c \in 0..TailSize : After(1, c) = After(2, c)
EndsOK ==
  /\ ends \in [1..2 -> Seq(Nat)]
  /\ \A s \in 1..2 : Increasing(ends[s]) /\ Chained(ends[s], texts[s])

DivisionInv == TextsOK /\ EndsOK /\ Resynchronises

-----------------------------------------------------------------------------
LEMMA LeastNatural ==
  ASSUME NEW T, T \subseteq Nat, T # {}
  PROVE  \E x \in T : \A y \in T : x <= y
<1>1. \E x \in T : \A y \in T : ~ (<<y, x>> \in OpToRel(<, Nat))
  BY NatLessThanWellFounded, WFMin, Zenon
<1>2. PICK x \in T : \A y \in T : ~ (<<y, x>> \in OpToRel(<, Nat))
  BY <1>1
<1>3. ASSUME NEW y \in T
      PROVE  ~ (y < x)
  BY <1>2, <1>3, Zenon DEF OpToRel
<1>4. ASSUME NEW y \in T
      PROVE  x <= y
  <2>1. x \in Nat /\ y \in Nat /\ ~ (y < x)
    BY <1>3, <1>4
  <2>2. QED
    BY <2>1
<1>5. QED
  BY <1>4

\* Every chunk but that of an empty text has a byte.
LEMMA LengthPositive ==
  ASSUME NEW data \in Seq(Bytes)
  PROVE  ChunkLength(data) \in Nat /\ (data # <<>> => ChunkLength(data) > 0)
<1> DEFINE last == Least(MaxSize, Len(data))
           cuts == {i \in MinSize + 1..last : HashAt(data, i) = 0}
<1>1. last \in Nat /\ (data # <<>> => last > 0)
  <2>1. Len(data) \in Nat /\ (data # <<>> => Len(data) > 0)
    OBVIOUS
  <2>2. MaxSize \in Nat /\ MaxSize > 0
    BY ChunkAssumption
  <2>3. QED
    BY <2>1, <2>2 DEF Least
<1>2. CutPoint(data) = IF cuts = {} THEN last ELSE CHOOSE i \in cuts : \A j \in cuts : i <= j
  BY DEF CutPoint
<1>3. cuts \subseteq Nat /\ \A i \in cuts : i > 0
  BY <1>1, ChunkAssumption
<1> HIDE DEF cuts
<1>4. cuts # {} => CutPoint(data) \in cuts
  BY <1>2, <1>3, LeastNatural
<1>5. QED
  BY <1>1, <1>2, <1>3, <1>4 DEF ChunkLength, FixedCut

\* Concatenations that end alike.
LEMMA SameTails ==
  ASSUME NEW one \in Seq(Bytes), NEW two \in Seq(Bytes), NEW tail \in [1..TailSize -> Bytes],
         NEW c \in 0..TailSize
  PROVE  /\ one \o tail \in Seq(Bytes) /\ two \o tail \in Seq(Bytes)
         /\ SubSeq(one \o tail, Len(one) + c + 1, Len(one \o tail))
              = SubSeq(two \o tail, Len(two) + c + 1, Len(two \o tail))
<1>1. tail \in Seq(Bytes) /\ Len(tail) = TailSize
  BY ChunkAssumption
<1>2. /\ one \o tail \in Seq(Bytes) /\ two \o tail \in Seq(Bytes)
      /\ Len(one \o tail) = Len(one) + TailSize /\ Len(two \o tail) = Len(two) + TailSize
  BY <1>1
<1> DEFINE a == SubSeq(one \o tail, Len(one) + c + 1, Len(one \o tail))
           b == SubSeq(two \o tail, Len(two) + c + 1, Len(two \o tail))
<1>3. /\ a \in Seq(Bytes) /\ Len(a) = TailSize - c
      /\ \A i \in 1..TailSize - c : a[i] = tail[c + i]
  BY <1>1, <1>2, ChunkAssumption
<1>4. /\ b \in Seq(Bytes) /\ Len(b) = TailSize - c
      /\ \A i \in 1..TailSize - c : b[i] = tail[c + i]
  BY <1>1, <1>2, ChunkAssumption
<1> HIDE DEF a, b
<1>5. a = b
  BY <1>3, <1>4
<1>6. QED
  BY <1>2, <1>5 DEF a, b

LEMMA DivisionInit == ChunkInit => DivisionInv
<1> SUFFICES ASSUME ChunkInit
             PROVE  DivisionInv
  OBVIOUS
<1>1. PICK one \in SeqOf(Bytes, MaxHead), two \in SeqOf(Bytes, MaxHead), tail \in [1..TailSize -> Bytes] :
        /\ texts = <<one \o tail, two \o tail>>
        /\ heads = <<Len(one), Len(two)>>
  BY DEF ChunkInit
<1>2. one \in Seq(Bytes) /\ two \in Seq(Bytes)
  BY DEF SeqOf
<1>3. TextsOK
  <2>1. texts \in [1..2 -> Seq(Bytes)] /\ heads \in [1..2 -> Nat]
    <3>1. 0 \in 0..TailSize
      BY ChunkAssumption
    <3>2. one \o tail \in Seq(Bytes) /\ two \o tail \in Seq(Bytes)
      BY <1>2, <3>1, SameTails
    <3>3. Len(one) \in Nat /\ Len(two) \in Nat
      BY <1>2
    <3> DEFINE a == one \o tail
               b == two \o tail
    <3>4. texts = <<a, b>> /\ a \in Seq(Bytes) /\ b \in Seq(Bytes)
      BY <1>1, <3>2
    <3> HIDE DEF a, b
    <3>5. texts \in [1..2 -> Seq(Bytes)]
      BY <3>4
    <3>6. heads \in [1..2 -> Nat]
      BY <1>1, <3>3
    <3>7. QED
      BY <3>5, <3>6
  <2>2. \A c \in 0..TailSize : After(1, c) = After(2, c)
    BY <1>1, <1>2, SameTails DEF After
  <2>3. QED
    BY <2>1, <2>2 DEF TextsOK
<1>4. EndsOK /\ Resynchronises
  <2>1. ends \in [1..2 -> Seq(Nat)] /\ ends[1] = <<>> /\ ends[2] = <<>>
    <3> DEFINE none == <<>>
    <3>1. ends = <<none, none>>
      BY DEF ChunkInit
    <3>2. none \in Seq(Nat)
      OBVIOUS
    <3>3. none = <<>>
      OBVIOUS
    <3> HIDE DEF none
    <3>4. ends \in [1..2 -> Seq(Nat)] /\ ends[1] = none /\ ends[2] = none
      BY <3>1, <3>2
    <3>5. QED
      BY <3>3, <3>4
  <2>2. SharedCuts(1) = {}
    BY <2>1 DEF SharedCuts, ToSet
  <2>3. QED
    BY <2>1, <2>2 DEF EndsOK, Increasing, Chained, Resynchronises
<1>5. QED
  BY <1>3, <1>4 DEF DivisionInv

\* What a chunk does to the ends of its text.
LEMMA EndAdded ==
  ASSUME TextsOK, EndsOK, NEW s \in 1..2, NextChunk(s)
  PROVE  \E e \in Nat :
           /\ ends' = [ends EXCEPT ![s] = Append(ends[s], e)]
           /\ e = Offset(s) + ChunkLength(SubSeq(texts[s], Offset(s) + 1, Len(texts[s])))
           /\ Offset(s) \in Nat /\ (ends[s] # <<>> => Offset(s) < e)
<1> DEFINE rest == SubSeq(texts[s], Offset(s) + 1, Len(texts[s]))
           e == Offset(s) + ChunkLength(rest)
<1>1. texts[s] \in Seq(Bytes) /\ ends[s] \in Seq(Nat)
  BY DEF TextsOK, EndsOK
<1>2. Offset(s) \in Nat
  BY <1>1 DEF Offset, Last
<1>3. rest \in Seq(Bytes) /\ Len(texts[s]) \in Nat /\ (Offset(s) < Len(texts[s]) => rest # <<>>)
  <2> DEFINE text == texts[s]
             c == Offset(s)
  <2>1. text \in Seq(Bytes) /\ c \in Nat /\ rest = SubSeq(text, c + 1, Len(text))
    BY <1>1, <1>2
  <2> HIDE DEF text, c, rest
  <2>2. rest \in Seq(Bytes) /\ Len(text) \in Nat
    BY <2>1
  <2>3. ASSUME c < Len(text)
        PROVE  rest # <<>>
    <3>1. c + 1 <= Len(text)
      BY <2>1, <2>2, <2>3
    <3>2. Len(rest) = Len(text) - c /\ Len(rest) > 0
      BY <2>1, <2>2, <2>3, <3>1
    <3>3. QED
      BY <3>2
  <2>4. QED
    BY <2>2, <2>3 DEF text, c
<1>4. ChunkLength(rest) \in Nat /\ (rest # <<>> => ChunkLength(rest) > 0)
  BY <1>3, LengthPositive
<1>5. ends[s] # <<>> => Offset(s) < Len(texts[s])
  BY DEF NextChunk, More
<1>6. ends' = [ends EXCEPT ![s] = Append(ends[s], e)]
  BY DEF NextChunk, ChunkLength, Rest
<1> HIDE DEF rest
<1>7. e \in Nat /\ (ends[s] # <<>> => Offset(s) < e)
  BY <1>2, <1>3, <1>4, <1>5
<1>8. QED
  BY <1>2, <1>6, <1>7 DEF rest

\* The cuts of the common part, by their places in the list of ends.
LEMMA CutPlaces ==
  ASSUME TextsOK, EndsOK, NEW s \in 1..2
  PROVE  /\ \A c : c \in SharedCuts(s) <=> c \in Nat /\ \E i \in DOMAIN ends[s] : ends[s][i] = heads[s] + c
         /\ \A i \in DOMAIN ends[s] : ends[s][i] <= Offset(s)
         /\ ends[s] # <<>> => Len(ends[s]) \in DOMAIN ends[s] /\ ends[s][Len(ends[s])] = Offset(s)
<1> DEFINE es == ends[s]
           h == heads[s]
           n == Len(es)
<1>1. es \in Seq(Nat) /\ h \in Nat /\ n \in Nat /\ DOMAIN es = 1..n
      /\ \A i \in 1..n : es[i] \in Nat
  BY DEF TextsOK, EndsOK
<1>2. SharedCuts(s) = {x - h : x \in {y \in {es[i] : i \in 1..n} : y >= h}}
  BY <1>1 DEF SharedCuts, ToSet
<1>3. Offset(s) = IF es = <<>> THEN 0 ELSE es[n]
  BY DEF Offset, Last
<1>4. \A i, j \in 1..n : i < j => es[i] < es[j]
  BY <1>1 DEF EndsOK, Increasing
<1>5. es # <<>> <=> n >= 1
  BY <1>1
<1> HIDE DEF es, h, n
<1>6. \A c : c \in SharedCuts(s) <=> c \in Nat /\ \E i \in 1..n : es[i] = h + c
  <2>1. ASSUME NEW c, c \in SharedCuts(s)
        PROVE  c \in Nat /\ \E i \in 1..n : es[i] = h + c
    <3>1. PICK i \in 1..n : es[i] >= h /\ c = es[i] - h
      BY <1>2, <2>1
    <3>2. es[i] \in Nat
      BY <1>1
    <3>3. QED
      BY <1>1, <3>1, <3>2
  <2>2. ASSUME NEW c \in Nat, NEW i \in 1..n, es[i] = h + c
        PROVE  c \in SharedCuts(s)
    <3>1. es[i] >= h /\ c = es[i] - h
      BY <1>1, <2>2
    <3>2. QED
      BY <1>2, <3>1
  <2>3. QED
    BY <2>1, <2>2
<1>7. \A i \in 1..n : es[i] <= Offset(s)
  BY <1>1, <1>3, <1>4, <1>5
<1>8. es # <<>> => n \in 1..n /\ es[n] = Offset(s)
  BY <1>1, <1>3, <1>5
<1>9. QED
  BY <1>1, <1>6, <1>7, <1>8 DEF es, h, n

\* The cut after one in the common part, which the text behind that one decides.
LEMMA NextCut ==
  ASSUME TextsOK, EndsOK, NEW s \in 1..2, NEW c \in SharedCuts(s), heads[s] + c < Offset(s)
  PROVE  /\ c + ChunkLength(After(s, c)) \in SharedCuts(s)
         /\ \A d \in SharedCuts(s) : c < d => c + ChunkLength(After(s, c)) <= d
<1> DEFINE es == ends[s]
           h == heads[s]
           n == Len(es)
           size == ChunkLength(After(s, c))
<1>1. es \in Seq(Nat) /\ h \in Nat /\ n \in Nat /\ DOMAIN es = 1..n /\ c \in Nat /\ Offset(s) \in Nat
      /\ \A i \in 1..n : es[i] \in Nat
  <2>1. es \in Seq(Nat) /\ h \in Nat
    BY DEF TextsOK, EndsOK
  <2>2. c \in Nat
    BY CutPlaces
  <2>3. Offset(s) \in Nat
    BY <2>1 DEF Offset, Last
  <2>4. QED
    BY <2>1, <2>2, <2>3
<1>2. PICK i \in 1..n : es[i] = h + c
  BY <1>1, CutPlaces
<1>3. \A j \in 1..n : es[j] <= Offset(s)
  BY <1>1, CutPlaces
<1>4. n \in 1..n /\ es[n] = Offset(s)
  BY <1>1, <1>2, CutPlaces
<1>5. i + 1 \in 1..n
  BY <1>1, <1>2, <1>4
<1>6. After(s, c) = SubSeq(texts[s], es[i] + 1, Len(texts[s]))
  BY <1>2 DEF After
<1>7. es[i + 1] = es[i] + size
  BY <1>1, <1>5, <1>6 DEF EndsOK, Chained
<1>8. \A j, k \in 1..n : j < k => es[j] < es[k]
  BY <1>1 DEF EndsOK, Increasing
<1>9. \A d : d \in SharedCuts(s) <=> d \in Nat /\ \E j \in 1..n : es[j] = h + d
  BY <1>1, CutPlaces
<1>10. size \in Nat
  <2>1. texts[s] \in Seq(Bytes) /\ Len(texts[s]) \in Nat
    BY DEF TextsOK
  <2>2. After(s, c) \in Seq(Bytes)
    BY <1>1, <2>1 DEF After
  <2>3. QED
    BY <2>2, LengthPositive
<1> HIDE DEF es, h, n, size
<1>11. es[i + 1] = h + (c + size) /\ c + size \in Nat
  BY <1>1, <1>2, <1>7, <1>10
<1>12. c + size \in SharedCuts(s)
  BY <1>5, <1>9, <1>11
<1>13. ASSUME NEW d \in SharedCuts(s), c < d
       PROVE  c + size <= d
  <2>1. PICK j \in 1..n : es[j] = h + d /\ d \in Nat
    BY <1>9
  <2>2. j > i
    <3>1. es[i] < es[j]
      BY <1>1, <1>2, <1>13, <2>1
    <3>2. i \in Nat /\ j \in Nat /\ es[i] \in Nat /\ es[j] \in Nat
      BY <1>1
    <3>3. j < i => es[j] < es[i]
      BY <1>8
    <3>4. QED
      BY <3>1, <3>2, <3>3
  <2>3. es[i + 1] <= es[j]
    BY <1>1, <1>5, <1>8, <2>2
  <2>4. QED
    BY <1>1, <1>10, <1>11, <2>1, <2>3
<1>14. QED
  BY <1>12, <1>13 DEF size

LEMMA AppendedSet ==
  ASSUME NEW es \in Seq(Nat), NEW e \in Nat
  PROVE  ToSet(Append(es, e)) = ToSet(es) \cup {e}
<1> DEFINE n == Len(es)
           more == Append(es, e)
<1>1. n \in Nat /\ DOMAIN es = 1..n /\ DOMAIN more = 1..n + 1 /\ more[n + 1] = e
      /\ \A i \in 1..n : more[i] = es[i]
  OBVIOUS
<1> HIDE DEF n, more
<1>2. 1..n + 1 = (1..n) \cup {n + 1}
  BY <1>1
<1>3. {more[i] : i \in DOMAIN more} = {es[i] : i \in DOMAIN es} \cup {e}
  BY <1>1, <1>2
<1>4. QED
  BY <1>3 DEF ToSet, more

Agree(s, r) ==
  \A cut \in SharedCuts(s) \cap SharedCuts(r) : \A later \in cut + 1..TailSize :
    later <= Offset(s) - heads[s] /\ later <= Offset(r) - heads[r]
      => (later \in SharedCuts(s) <=> later \in SharedCuts(r))

\* Two divisions that agreed still do when one of them goes on.
LEMMA AgreeNext ==
  ASSUME DivisionInv, NEW s \in 1..2, NEW r \in 1..2, s # r, NextChunk(s)
  PROVE  Agree(s, r)'
<1>1. /\ TextsOK /\ EndsOK /\ Agree(s, r)
      /\ ends \in [1..2 -> Seq(Nat)] /\ heads[s] \in Nat /\ heads[r] \in Nat
      /\ \A c \in 0..TailSize : After(s, c) = After(r, c)
  BY DEF DivisionInv, Resynchronises, Agree, TextsOK, EndsOK
<1>2. PICK e \in Nat :
        /\ ends' = [ends EXCEPT ![s] = Append(ends[s], e)]
        /\ e = Offset(s) + ChunkLength(SubSeq(texts[s], Offset(s) + 1, Len(texts[s])))
        /\ Offset(s) \in Nat /\ (ends[s] # <<>> => Offset(s) < e)
  BY <1>1, EndAdded
<1>3. UNCHANGED <<texts, heads, chunker>>
  BY DEF NextChunk
<1>4. SharedCuts(r)' = SharedCuts(r) /\ Offset(r)' = Offset(r) /\ Offset(r) \in Nat
  BY <1>1, <1>2, <1>3 DEF SharedCuts, Offset, Last
<1>5. /\ Offset(s)' = e
      /\ SharedCuts(s)' = SharedCuts(s) \cup {c \in {e - heads[s]} : e >= heads[s]}
  <2>1. ends'[s] = Append(ends[s], e) /\ ends[s] \in Seq(Nat)
    BY <1>1, <1>2
  <2>2. Append(ends[s], e) # <<>> /\ Last(Append(ends[s], e)) = e
    BY <2>1 DEF Last
  <2>3. ToSet(Append(ends[s], e)) = ToSet(ends[s]) \cup {e}
    BY <2>1, AppendedSet
  <2>4. QED
    BY <1>3, <2>1, <2>2, <2>3 DEF Offset, SharedCuts
<1>6. ASSUME NEW t \in 1..2, NEW c \in SharedCuts(t)
      PROVE  c \in Nat /\ heads[t] + c <= Offset(t) /\ ends[t] # <<>>
  <2>1. c \in Nat /\ \E i \in DOMAIN ends[t] : ends[t][i] = heads[t] + c
    BY <1>1, <1>6, CutPlaces
  <2>2. \A i \in DOMAIN ends[t] : ends[t][i] <= Offset(t)
    BY <1>1, CutPlaces
  <2>3. QED
    BY <2>1, <2>2
<1>7. ASSUME NEW cut \in SharedCuts(s)' \cap SharedCuts(r)', NEW later \in cut + 1..TailSize,
             later <= Offset(s)' - heads[s]', later <= Offset(r)' - heads[r]'
      PROVE  later \in SharedCuts(s)' <=> later \in SharedCuts(r)'
  <2>1. cut \in SharedCuts(r) /\ cut \in Nat /\ later \in Nat /\ cut < later /\ later <= TailSize
    BY <1>4, <1>6, <1>7, ChunkAssumption
  <2>2. later <= e - heads[s] /\ later <= Offset(r) - heads[r] /\ cut # e - heads[s]
    BY <1>1, <1>3, <1>4, <1>5, <1>7, <2>1
  <2>3. cut \in SharedCuts(s) /\ ends[s] # <<>> /\ heads[s] + cut <= Offset(s)
    BY <1>5, <1>6, <1>7, <2>2
  <2> DEFINE p == Offset(s) - heads[s]
             q == e - heads[s]
  <2>4. p \in Nat /\ q \in Nat /\ p < q /\ cut <= p
    <3>1. Offset(s) \in Nat /\ e \in Nat /\ heads[s] \in Nat /\ cut \in Nat
      BY <1>1, <1>2, <2>1
    <3>2. heads[s] + cut <= Offset(s) /\ Offset(s) < e
      BY <1>2, <2>3
    <3>3. QED
      BY <3>1, <3>2
  <2>5. CASE later <= p
    <3>1. later \in SharedCuts(s) <=> later \in SharedCuts(r)
      BY <1>1, <1>7, <2>1, <2>2, <2>3, <2>5 DEF Agree
    <3>2. later # q
      BY <2>1, <2>4, <2>5
    <3>3. QED
      BY <1>4, <1>5, <3>1, <3>2
  <2>6. CASE p < later
    <3>1. p \in SharedCuts(s)
      <4>1. Len(ends[s]) \in DOMAIN ends[s] /\ ends[s][Len(ends[s])] = Offset(s)
        BY <1>1, <2>3, CutPlaces
      <4>2. Offset(s) = heads[s] + p
        <5>1. Offset(s) \in Nat /\ heads[s] \in Nat
          BY <1>1, <1>2
        <5>2. QED
          BY <5>1
      <4>3. QED
        BY <1>1, <2>4, <4>1, <4>2, CutPlaces
    <3>2. p \in cut + 1..TailSize \/ p = cut
      BY <2>1, <2>4, <2>6, ChunkAssumption
    <3>n. /\ p \in Nat /\ later \in Nat /\ p < later /\ later <= Offset(r) - heads[r]
          /\ Offset(r) \in Nat /\ heads[r] \in Nat
      BY <1>1, <1>4, <2>1, <2>2, <2>4, <2>6
    <3>l. p <= p /\ p <= Offset(r) - heads[r] /\ heads[r] + p < Offset(r)
      <4> HIDE DEF p
      <4>1. QED
        BY <3>n
    <3>3. p <= Offset(s) - heads[s] /\ p <= Offset(r) - heads[r]
      BY <3>l
    <3>4. p \in SharedCuts(r)
      BY <1>1, <2>1, <2>3, <3>1, <3>2, <3>3 DEF Agree
    <3>5. heads[r] + p < Offset(r)
      BY <3>l
    <3>6. p \in 0..TailSize
      BY <2>1, <2>4, <2>6, ChunkAssumption
    <3>7. After(s, p) = SubSeq(texts[s], Offset(s) + 1, Len(texts[s])) /\ heads[s] + p \in Nat
      <4>1. Offset(s) \in Nat /\ heads[s] \in Nat
        BY <1>1, <1>2
      <4>2. heads[s] + p = Offset(s)
        BY <4>1
      <4>3. QED
        BY <4>1, <4>2 DEF After
    <3>8. q = p + ChunkLength(After(r, p))
      <4>1. ChunkLength(After(s, p)) \in Nat
        <5>1. texts[s] \in Seq(Bytes) /\ Len(texts[s]) \in Nat
          BY <1>1 DEF TextsOK
        <5>2. After(s, p) \in Seq(Bytes)
          BY <3>7, <5>1 DEF After
        <5>3. QED
          BY <5>2, LengthPositive
      <4>2. e = Offset(s) + ChunkLength(After(s, p))
        BY <1>2, <3>7
      <4>3. After(s, p) = After(r, p)
        BY <1>1, <3>6
      <4>4. Offset(s) \in Nat /\ heads[s] \in Nat
        BY <1>1, <1>2
      <4>5. q = p + ChunkLength(After(s, p))
        <5> DEFINE c == ChunkLength(After(s, p))
        <5>1. c \in Nat /\ e = Offset(s) + c
          BY <4>1, <4>2
        <5> HIDE DEF c
        <5>2. q = p + c
          BY <4>4, <5>1
        <5>3. QED
          BY <5>2 DEF c
      <4> HIDE DEF p, q
      <4>6. QED
        BY <4>3, <4>5
    <3>9. q \in SharedCuts(r) /\ \A d \in SharedCuts(r) : p < d => q <= d
      BY <1>1, <3>4, <3>5, <3>8, NextCut
    <3>10. later \in SharedCuts(r) <=> later = q
      BY <2>1, <2>2, <2>4, <2>6, <3>9
    <3>11. later \notin SharedCuts(s)
      <4>1. later \in SharedCuts(s) => heads[s] + later <= Offset(s)
        BY <1>6
      <4>2. Offset(s) \in Nat /\ heads[s] \in Nat /\ later \in Nat
        BY <1>1, <1>2, <2>1
      <4>3. QED
        BY <2>6, <4>1, <4>2
    <3>12. e >= heads[s]
      BY <1>1, <1>2, <2>4
    <3>13. QED
      BY <1>4, <1>5, <3>10, <3>11, <3>12
  <2>7. QED
    BY <2>1, <2>4, <2>5, <2>6
<1>8. QED
  BY <1>7 DEF Agree

LEMMA OneEndMore ==
  ASSUME NEW es \in Seq(Nat), NEW e \in Nat, NEW text \in Seq(Bytes), Increasing(es), Chained(es, text),
         es # <<>> => /\ es[Len(es)] < e
                      /\ e = es[Len(es)] + ChunkLength(SubSeq(text, es[Len(es)] + 1, Len(text)))
  PROVE  Increasing(Append(es, e)) /\ Chained(Append(es, e), text)
<1> DEFINE n == Len(es)
           more == Append(es, e)
<1>1. /\ n \in Nat /\ DOMAIN es = 1..n /\ DOMAIN more = 1..n + 1 /\ more[n + 1] = e
      /\ \A i \in 1..n : more[i] = es[i] /\ es[i] \in Nat
  OBVIOUS
<1>2. n # 0 => es[n] < e /\ e = es[n] + ChunkLength(SubSeq(text, es[n] + 1, Len(text)))
  OBVIOUS
<1> HIDE DEF n, more
<1>3. ASSUME NEW i \in 1..n + 1, NEW j \in 1..n + 1, i < j
      PROVE  more[i] < more[j]
  <2>1. i \in 1..n /\ n # 0
    BY <1>1, <1>3
  <2>2. CASE j \in 1..n
    BY <1>1, <1>3, <2>1, <2>2 DEF Increasing
  <2>3. CASE j = n + 1
    <3>1. i < n => es[i] < es[n]
      BY <1>1, <2>1 DEF Increasing
    <3>2. es[i] \in Nat /\ es[n] \in Nat /\ i <= n
      BY <1>1, <2>1
    <3>3. es[i] <= es[n]
      BY <1>1, <2>1, <3>1, <3>2
    <3>4. QED
      BY <1>1, <1>2, <2>1, <2>3, <3>2, <3>3
  <2>4. QED
    BY <1>1, <2>2, <2>3
<1>4. ASSUME NEW i \in 1..n + 1, i + 1 \in 1..n + 1
      PROVE  more[i + 1] = more[i] + ChunkLength(SubSeq(text, more[i] + 1, Len(text)))
  <2>1. i \in 1..n /\ n # 0
    BY <1>1, <1>4
  <2>2. CASE i + 1 \in 1..n
    BY <1>1, <2>1, <2>2 DEF Chained
  <2>3. CASE i = n
    BY <1>1, <1>2, <2>1, <2>3
  <2>4. QED
    BY <1>1, <2>1, <2>2, <2>3
<1>5. QED
  BY <1>1, <1>3, <1>4 DEF Increasing, Chained, more

LEMMA DivisionNext ==
  ASSUME DivisionInv, NEW s \in 1..2, NextChunk(s)
  PROVE  DivisionInv'
<1>1. TextsOK /\ EndsOK
  BY DEF DivisionInv
<1>2. PICK e \in Nat :
        /\ ends' = [ends EXCEPT ![s] = Append(ends[s], e)]
        /\ e = Offset(s) + ChunkLength(SubSeq(texts[s], Offset(s) + 1, Len(texts[s])))
        /\ Offset(s) \in Nat /\ (ends[s] # <<>> => Offset(s) < e)
  BY <1>1, EndAdded
<1>3. texts' = texts /\ heads' = heads /\ chunker' = chunker
  BY DEF NextChunk
<1>4. TextsOK'
  BY <1>1, <1>3 DEF TextsOK, After
<1>5. EndsOK'
  <2>1. ends \in [1..2 -> Seq(Nat)] /\ ends[s] \in Seq(Nat) /\ texts[s] \in Seq(Bytes)
    BY <1>1 DEF EndsOK, TextsOK
  <2>2. Append(ends[s], e) \in Seq(Nat)
    BY <2>1
  <2>3. ends' \in [1..2 -> Seq(Nat)] /\ ends'[s] = Append(ends[s], e)
        /\ \A t \in (1..2) \ {s} : ends'[t] = ends[t]
    BY <1>2, <2>1, <2>2
  <2>4. ends[s] # <<>> => ends[s][Len(ends[s])] = Offset(s)
    BY <1>1, CutPlaces
  <2>5. Increasing(ends[s]) /\ Chained(ends[s], texts[s])
    BY <1>1 DEF EndsOK
  <2>6. Increasing(Append(ends[s], e)) /\ Chained(Append(ends[s], e), texts[s])
    BY <1>2, <2>1, <2>4, <2>5, OneEndMore
  <2>7. ASSUME NEW t \in 1..2
        PROVE  Increasing(ends'[t]) /\ Chained(ends'[t], texts[t])
    <3>1. Increasing(ends[t]) /\ Chained(ends[t], texts[t])
      BY <1>1 DEF EndsOK
    <3>2. QED
      BY <2>3, <2>6, <3>1
  <2>8. QED
    BY <1>3, <2>3, <2>7 DEF EndsOK, Chained, ChunkLength
<1>6. Resynchronises'
  <2>1. CASE s = 1
    <3>1. Agree(1, 2)'
      BY <2>1, AgreeNext
    <3>2. QED
      BY <3>1 DEF Agree, Resynchronises
  <2>2. CASE s = 2
    <3>1. Agree(2, 1)'
      BY <2>2, AgreeNext
    <3>2. QED
      BY <3>1 DEF Agree, Resynchronises
  <2>3. QED
    BY <2>1, <2>2
<1>7. QED
  BY <1>4, <1>5, <1>6 DEF DivisionInv

LEMMA DivisionKept == DivisionInv /\ [ChunkNext]_chunkVars => DivisionInv'
<1> SUFFICES ASSUME DivisionInv, [ChunkNext]_chunkVars
             PROVE  DivisionInv'
  OBVIOUS
<1>1. CASE ChunkNext
  BY <1>1, DivisionNext DEF ChunkNext
<1>2. CASE UNCHANGED chunkVars
  <2>1. chunker' = chunker /\ texts' = texts /\ heads' = heads /\ ends' = ends
    BY <1>2 DEF chunkVars
  <2>2. TextsOK' /\ EndsOK'
    BY <2>1 DEF DivisionInv, TextsOK, EndsOK, After, Chained, ChunkLength
  <2>3. \A s \in 1..2 : SharedCuts(s)' = SharedCuts(s) /\ Offset(s)' = Offset(s)
    BY <2>1 DEF SharedCuts, Offset
  <2>4. Resynchronises'
    BY <2>1, <2>3 DEF DivisionInv, Resynchronises
  <2>5. QED
    BY <2>2, <2>4 DEF DivisionInv
<1>3. QED
  BY <1>1, <1>2

\* Two texts that end alike, divided by the same chunker, are divided alike from
\* the first place that both divisions cut, whatever the hash says and wherever
\* max_size forced a cut: a deduplicated upload never loses step again
\* (FastCdcChunker::chunk, FixedSizeChunker::chunk).
THEOREM DivisionsResynchronise == ChunkSpec => []Resynchronises
<1>1. DivisionInv => Resynchronises
  BY DEF DivisionInv
<1>2. QED
  BY DivisionInit, DivisionKept, <1>1, PTL DEF ChunkSpec

-----------------------------------------------------------------------------
(***************************************************************************)
(* What is uploaded, in pieces and sealed, reads back.                         *)
(***************************************************************************)
LEMMA FlattenSmall ==
  ASSUME NEW S, NEW cs \in Seq(Seq(S)), Len(cs) \in 1..2
  PROVE  FlattenSeq(cs) = IF Len(cs) = 1 THEN cs[1] ELSE cs[1] \o cs[2]
<1> DEFINE n == Len(cs)
           f == [i \in 1..n |-> IF i = 1 THEN cs[1] ELSE cs[1] \o cs[2]]
           g == CHOOSE g : g = [i \in 1..n |-> IF i = 1 THEN cs[i] ELSE g[i - 1] \o cs[i]]
<1>1. n \in 1..2 /\ n \in 1..n
  OBVIOUS
<1>2. FlattenSeq(cs) = g[n]
  BY <1>1 DEF FlattenSeq
<1>3. f = [i \in 1..n |-> IF i = 1 THEN cs[i] ELSE f[i - 1] \o cs[i]]
  <2>1. ASSUME NEW i \in 1..n, i # 1
        PROVE  i = 2 /\ f[i - 1] = cs[1] /\ cs[i] = cs[2]
    <3>1. n = 2 /\ i = 2
      <4> HIDE DEF n
      <4>1. QED
        BY <1>1, <2>1
    <3>2. f[1] = cs[1]
      BY <1>1, <3>1
    <3> HIDE DEF f
    <3>3. QED
      BY <3>1, <3>2
  <2> HIDE DEF f
  <2>2. \A i \in 1..n : (IF i = 1 THEN cs[1] ELSE cs[1] \o cs[2]) = (IF i = 1 THEN cs[i] ELSE f[i - 1] \o cs[i])
    BY <2>1
  <2>3. QED
    BY <2>2 DEF f
<1>4. g = [i \in 1..n |-> IF i = 1 THEN cs[i] ELSE g[i - 1] \o cs[i]]
  <2> HIDE DEF f
  <2>1. QED
    BY <1>3
<1> HIDE DEF g
<1>5. g[1] = cs[1] /\ (n = 2 => g[2] = cs[1] \o cs[2])
  <2>1. 1 \in 1..n
    BY <1>1
  <2>2. g[1] = cs[1]
    BY <1>4, <2>1
  <2>3. ASSUME n = 2
        PROVE  g[2] = cs[1] \o cs[2]
    <3>1. 2 \in 1..n /\ 2 # 1 /\ 2 - 1 = 1
      BY <2>3
    <3>2. g[2] = g[2 - 1] \o cs[2]
      BY <1>4, <3>1
    <3>3. QED
      BY <2>2, <3>1, <3>2
  <2>4. QED
    BY <2>2, <2>3
<1>6. n = 1 \/ n = 2
  BY <1>1
<1>7. CASE n = 1
  BY <1>2, <1>5, <1>7
<1>8. CASE n = 2
  BY <1>2, <1>5, <1>8
<1>9. QED
  BY <1>6, <1>7, <1>8

LEMMA DivisionJoins ==
  ASSUME NEW S, NEW b \in Seq(S), NEW chunks \in Divisions(b)
  PROVE  chunks \in Seq(Seq(S)) /\ Len(chunks) \in 1..2 /\ FlattenSeq(chunks) = b
<1>1. CASE chunks = <<b>>
  <2>1. chunks \in Seq(Seq(S)) /\ Len(chunks) = 1 /\ chunks[1] = b
    BY <1>1
  <2>2. Len(chunks) \in 1..2
    BY <2>1
  <2>3. FlattenSeq(chunks) = chunks[1]
    BY <2>1, <2>2, FlattenSmall
  <2>4. QED
    BY <2>1, <2>2, <2>3
<1>2. CASE \E i \in 1..Len(b) - 1 : chunks = <<SubSeq(b, 1, i), SubSeq(b, i + 1, Len(b))>>
  <2>1. PICK i \in 1..Len(b) - 1 : chunks = <<SubSeq(b, 1, i), SubSeq(b, i + 1, Len(b))>>
    BY <1>2
  <2> DEFINE left == SubSeq(b, 1, i)
             right == SubSeq(b, i + 1, Len(b))
  <2>2. Len(b) \in Nat /\ i \in Nat /\ 1 <= i /\ i + 1 <= Len(b)
    OBVIOUS
  <2>3. left \in Seq(S) /\ right \in Seq(S)
    BY <2>2
  <2>4. left \o right = b
    <3>1. 1 \in 1..Len(b) + 1 /\ i \in 1 - 1..Len(b) /\ Len(b) \in i..Len(b)
      BY <2>2
    <3>2. left \o right = SubSeq(b, 1, Len(b))
      BY <3>1, ConcatAdjacentSubSeq
    <3>3. SubSeq(b, 1, Len(b)) = b
      OBVIOUS
    <3>4. QED
      BY <3>2, <3>3
  <2>5. chunks = <<left, right>>
    BY <2>1
  <2> HIDE DEF left, right
  <2>6. chunks \in Seq(Seq(S)) /\ Len(chunks) = 2 /\ chunks[1] = left /\ chunks[2] = right
    BY <2>3, <2>5
  <2>7. Len(chunks) \in 1..2 /\ Len(chunks) # 1
    BY <2>6
  <2>8. FlattenSeq(chunks) = chunks[1] \o chunks[2]
    BY <2>6, <2>7, FlattenSmall
  <2>9. QED
    BY <2>4, <2>6, <2>7, <2>8
<1>3. QED
  BY <1>1, <1>2 DEF Divisions

-----------------------------------------------------------------------------
(* What blobs are made of.                                                  *)
Raw == {Plain(x) : x \in Letters} \cup {Doc(<<Entry(<<Plain(x)>>)>>, 1) : x \in Letters}
SealedPieces == [kind : {"sealed"}, by : Assets, text : Seq(Raw), at : Nat]
Pieces == Raw \cup SealedPieces
ChunkEntries == [id : Seq(Pieces), length : Nat]
Docs == [kind : {"doc"}, chunks : {c \in Seq(ChunkEntries) : Len(c) \in 1..2}, size : Nat]
Symbols == Pieces \cup Docs

LEMMA RawKinds ==
  ASSUME NEW x \in Raw
  PROVE  x.kind # "sealed" /\ (x.kind = "doc" => x \in Docs)
<1>1. CASE x \in {Plain(y) : y \in Letters}
  BY <1>1 DEF Plain
<1>2. CASE x \in {Doc(<<Entry(<<Plain(y)>>)>>, 1) : y \in Letters}
  <2>1. PICK y \in Letters : x = Doc(<<Entry(<<Plain(y)>>)>>, 1)
    BY <1>2
  <2> DEFINE id == <<Plain(y)>>
             entry == Entry(id)
             list == <<entry>>
  <2>2. id \in Seq(Pieces) /\ Len(id) = 1
    BY DEF Pieces, Raw
  <2>3. x = [kind |-> "doc", chunks |-> list, size |-> 1]
    BY <2>1 DEF Doc
  <2> HIDE DEF id
  <2>4. entry \in ChunkEntries
    BY <2>2 DEF Entry, ChunkEntries
  <2> HIDE DEF entry
  <2>5. list \in Seq(ChunkEntries) /\ Len(list) \in 1..2
    BY <2>4
  <2> HIDE DEF list
  <2>6. QED
    BY <2>3, <2>5 DEF Docs
<1>3. QED
  BY <1>1, <1>2 DEF Raw

LEMMA SymbolKinds ==
  ASSUME NEW x \in Symbols
  PROVE  (x.kind = "sealed" => x \in SealedPieces) /\ (x.kind = "doc" => x \in Docs)
<1>1. CASE x \in Raw
  BY <1>1, RawKinds
<1>2. CASE x \in SealedPieces
  BY <1>2 DEF SealedPieces
<1>3. CASE x \in Docs
  BY <1>3 DEF Docs
<1>4. QED
  BY <1>1, <1>2, <1>3 DEF Symbols, Pieces

LEMMA SendableTyped ==
  ASSUME NEW bytes \in Sendable
  PROVE  bytes \in Seq(Raw)
<1>1. CASE bytes \in Texts
  <2>1. PICK t \in SeqOf(Letters, MaxLetters) : bytes = [i \in DOMAIN t |-> Plain(t[i])]
    BY <1>1 DEF Texts
  <2>2. t \in Seq(Letters) /\ DOMAIN t = 1..Len(t) /\ Len(t) \in Nat
    BY <2>1 DEF SeqOf
  <2>3. \A i \in 1..Len(t) : Plain(t[i]) \in Raw
    BY <2>2 DEF Raw
  <2>4. QED
    BY <2>1, <2>2, <2>3
<1>2. CASE bytes \in {<<Doc(<<Entry(<<Plain(x)>>)>>, 1)>> : x \in Letters}
  <2>1. PICK x \in Letters : bytes = <<Doc(<<Entry(<<Plain(x)>>)>>, 1)>>
    BY <1>2
  <2> DEFINE d == Doc(<<Entry(<<Plain(x)>>)>>, 1)
  <2>2. d \in Raw /\ bytes = <<d>>
    BY <2>1 DEF Raw
  <2> HIDE DEF d
  <2>3. QED
    BY <2>2
<1>3. QED
  BY <1>1, <1>2 DEF Sendable

\* Every sealed piece is one of what its origin sent.
Genuine(s, known) ==
  \A i \in 1..Len(s) : s[i].kind = "sealed" => s[i].by \in DOMAIN known /\ s[i].text = known[s[i].by]

LEMMA SealTyped ==
  ASSUME NEW o \in Assets, NEW bytes \in Sendable, NEW known, o \in DOMAIN known, known[o] = bytes,
         cipher \in {"null", "aead"}
  PROVE  Seal(o, bytes) \in Seq(Pieces) /\ Genuine(Seal(o, bytes), known)
<1>1. bytes \in Seq(Raw) /\ Len(bytes) \in Nat
  BY SendableTyped
<1>2. CASE cipher = "null"
  <2>1. Seal(o, bytes) = bytes
    BY <1>2 DEF Seal
  <2>2. bytes \in Seq(Pieces)
    BY <1>1 DEF Pieces
  <2>3. Genuine(bytes, known)
    BY <1>1, RawKinds DEF Genuine
  <2>4. QED
    BY <2>1, <2>2, <2>3
<1>3. CASE cipher = "aead"
  <2> DEFINE n == Len(bytes) + 1
             piece(i) == [kind |-> "sealed", by |-> o, text |-> bytes, at |-> i]
             whole == [i \in 1..n |-> piece(i)]
  <2>1. Seal(o, bytes) = whole /\ n \in Nat
    BY <1>1, <1>3 DEF Seal
  <2> HIDE DEF n
  <2>2. ASSUME NEW i \in 1..n
        PROVE  piece(i) \in SealedPieces /\ piece(i).by = o /\ piece(i).text = bytes
    BY <1>1, <2>1 DEF SealedPieces
  <2> HIDE DEF piece
  <2>3. whole \in Seq(Pieces) /\ Len(whole) = n
    BY <2>1, <2>2 DEF Pieces
  <2>4. Genuine(whole, known)
    BY <2>2, <2>3 DEF Genuine
  <2>5. QED
    BY <2>1, <2>3, <2>4
<1>4. QED
  BY <1>2, <1>3

\* Only what was sealed for o opens for o.
LEMMA OpensOwn ==
  ASSUME cipher = "aead", NEW o \in DOMAIN sent, NEW bytes \in Seq(Symbols), Genuine(bytes, sent)
  PROVE  Open(o, bytes) = Failure \/ Open(o, bytes) = Answered(sent[o])
<1>1. CASE bytes # <<>> /\ bytes[1].kind = "sealed" /\ bytes = Seal(o, bytes[1].text)
  <2> DEFINE x == bytes[1]
  <2>1. 1 \in 1..Len(bytes) /\ x \in Symbols
    BY <1>1
  <2>2. x \in SealedPieces
    BY <1>1, <2>1, SymbolKinds
  <2> DEFINE t == x.text
  <2>3. t \in Seq(Raw) /\ Len(t) \in Nat
    BY <2>2 DEF SealedPieces
  <2>4. bytes = [i \in 1..Len(t) + 1 |-> [kind |-> "sealed", by |-> o, text |-> t, at |-> i]]
    BY <1>1 DEF Seal
  <2>5. 1 \in 1..Len(t) + 1
    BY <2>3
  <2> HIDE DEF t
  <2>6. x.by = o
    BY <2>4, <2>5
  <2>7. t = sent[o]
    BY <1>1, <2>1, <2>6 DEF Genuine, t
  <2>8. Open(o, bytes) = Answered(t)
    BY <1>1 DEF Open, t
  <2>9. QED
    BY <2>7, <2>8
<1>2. CASE ~ (bytes # <<>> /\ bytes[1].kind = "sealed" /\ bytes = Seal(o, bytes[1].text))
  BY <1>2 DEF Open
<1>3. QED
  BY <1>1, <1>2

LEMMA OpensSealed ==
  ASSUME cipher \in {"null", "aead"}, NEW o, NEW bytes \in Seq(Raw)
  PROVE  Open(o, Seal(o, bytes)) = Answered(bytes)
<1>1. CASE cipher = "null"
  BY <1>1 DEF Open, Seal
<1>2. CASE cipher = "aead"
  <2> DEFINE whole == [i \in 1..Len(bytes) + 1 |-> [kind |-> "sealed", by |-> o, text |-> bytes, at |-> i]]
  <2>1. Seal(o, bytes) = whole
    BY <1>2 DEF Seal
  <2>2. Len(bytes) \in Nat /\ 1 \in 1..Len(bytes) + 1
    OBVIOUS
  <2>3. whole # <<>> /\ whole[1].kind = "sealed" /\ whole[1].text = bytes
    BY <2>2
  <2> HIDE DEF whole
  <2>4. QED
    BY <1>2, <2>1, <2>3 DEF Open
<1>3. QED
  BY <1>1, <1>2

KnownBlobs == DOMAIN blobs \cup harmed
Place(o, id, text, there) ==
  \/ id = Seal(o, text) /\ id \in there
  \/ \E chunks \in Divisions(Seal(o, text)) : id = Manifest(chunks) /\ {id} \cup ToSet(chunks) \subseteq there

PayloadInv ==
  /\ cipher \in {"null", "aead"}
  /\ DOMAIN root = DOMAIN sent /\ DOMAIN root \subseteq Assets
  /\ \A o \in DOMAIN sent : sent[o] \in Sendable
  /\ \A id \in DOMAIN blobs :
       /\ id \in Seq(Symbols) /\ blobs[id] \in Seq(Symbols)
       /\ Genuine(id, sent) /\ Genuine(blobs[id], sent)
       /\ id \in harmed \/ blobs[id] = id
  /\ \A o \in DOMAIN root : Place(o, root[o], sent[o], KnownBlobs)

LEMMA JoinedGenuine ==
  ASSUME NEW a \in Seq(Symbols), NEW b \in Seq(Symbols), NEW known, Genuine(a, known), Genuine(b, known)
  PROVE  a \o b \in Seq(Symbols) /\ Genuine(a \o b, known)
<1>1. /\ a \o b \in Seq(Symbols)
      /\ Len(a \o b) = Len(a) + Len(b)
      /\ \A i \in 1..Len(a) + Len(b) : (a \o b)[i] = IF i <= Len(a) THEN a[i] ELSE b[i - Len(a)]
  BY ConcatProperties
<1>2. ASSUME NEW i \in 1..Len(a \o b), (a \o b)[i].kind = "sealed"
      PROVE  (a \o b)[i].by \in DOMAIN known /\ (a \o b)[i].text = known[(a \o b)[i].by]
  <2>1. Len(a) \in Nat /\ Len(b) \in Nat
    OBVIOUS
  <2>2. CASE i <= Len(a)
    <3>1. (a \o b)[i] = a[i] /\ i \in 1..Len(a)
      BY <1>1, <2>1, <2>2
    <3>2. QED
      BY <1>2, <3>1 DEF Genuine
  <2>3. CASE ~ (i <= Len(a))
    <3>1. (a \o b)[i] = b[i - Len(a)] /\ i - Len(a) \in 1..Len(b)
      BY <1>1, <2>1, <2>3
    <3>2. QED
      BY <1>2, <3>1 DEF Genuine
  <2>4. QED
    BY <2>2, <2>3
<1>3. QED
  BY <1>1, <1>2 DEF Genuine

\* What is put together from any manifest is made of stored pieces.
LEMMA ReassembledGenuine ==
  ASSUME PayloadInv, NEW doc \in Docs
  PROVE  \/ Reassembled(doc) = Failure
         \/ \E bytes \in Seq(Symbols) : Reassembled(doc) = Answered(bytes) /\ Genuine(bytes, sent)
<1> DEFINE cs == [i \in DOMAIN doc.chunks |-> doc.chunks[i].id]
<1>1. doc.chunks \in Seq(ChunkEntries) /\ Len(doc.chunks) \in 1..2
  BY DEF Docs
<1>2. DOMAIN doc.chunks = 1..Len(doc.chunks) /\ \A i \in 1..Len(doc.chunks) : doc.chunks[i] \in ChunkEntries
  BY <1>1
<1>3. CASE \A i \in DOMAIN doc.chunks : doc.chunks[i].id \in DOMAIN blobs
  <2>1. \A i \in DOMAIN doc.chunks : doc.chunks[i].id \in Seq(Symbols) /\ Genuine(doc.chunks[i].id, sent)
    BY <1>3 DEF PayloadInv
  <2>2. cs \in Seq(Seq(Symbols)) /\ Len(cs) = Len(doc.chunks)
    BY <1>1, <1>2, <2>1
  <2>3. \A i \in 1..Len(cs) : cs[i] \in Seq(Symbols) /\ Genuine(cs[i], sent)
    BY <1>2, <2>1, <2>2
  <2>4. Reassembled(doc) = Failure \/ Reassembled(doc) = Answered(FlattenSeq(cs))
    BY DEF Reassembled
  <2> HIDE DEF cs
  <2>5. Len(cs) \in 1..2
    BY <1>1, <2>2
  <2>6. FlattenSeq(cs) = IF Len(cs) = 1 THEN cs[1] ELSE cs[1] \o cs[2]
    BY <2>2, <2>5, FlattenSmall
  <2>7. FlattenSeq(cs) \in Seq(Symbols) /\ Genuine(FlattenSeq(cs), sent)
    <3>1. CASE Len(cs) = 1
      BY <2>3, <2>6, <3>1
    <3>2. CASE Len(cs) = 2
      BY <2>3, <2>6, <3>2, JoinedGenuine
    <3>3. QED
      BY <2>5, <3>1, <3>2
  <2>8. QED
    BY <2>4, <2>7
<1>4. CASE ~ \A i \in DOMAIN doc.chunks : doc.chunks[i].id \in DOMAIN blobs
  BY <1>4 DEF Reassembled, Intact
<1>5. QED
  BY <1>3, <1>4

LEMMA AnswersDiffer == \A bytes : Answered(bytes) # Failure /\ Answered(bytes).bytes = bytes
<1>1. ASSUME NEW bytes
      PROVE  Answered(bytes).kind = "bytes" /\ Failure.kind = "failure" /\ Answered(bytes).bytes = bytes
  BY DEF Answered, Failure
<1>2. QED
  BY <1>1

\* Encrypted, whatever is stored under the root's id.
LEMMA EncryptedReads ==
  ASSUME PayloadInv, cipher = "aead", NEW o \in DOMAIN root
  PROVE  GetPayload(o) = Failure \/ GetPayload(o) = Answered(sent[o])
<1>1. CASE root[o] \notin DOMAIN blobs
  BY <1>1 DEF GetPayload
<1>2. CASE root[o] \in DOMAIN blobs
  <2> DEFINE b == blobs[root[o]]
  <2>1. b \in Seq(Symbols) /\ Genuine(b, sent) /\ o \in DOMAIN sent
    BY <1>2 DEF PayloadInv
  <2>2. CASE LooksLikeManifest(b)
    <3>1. 1 \in 1..Len(b) /\ b[1] \in Symbols /\ b[1].kind = "doc"
      BY <2>1, <2>2 DEF LooksLikeManifest
    <3>2. b[1] \in Docs
      BY <3>1, SymbolKinds
    <3> DEFINE whole == Reassembled(b[1])
    <3>3. GetPayload(o) = IF whole = Failure THEN Failure ELSE Open(o, whole.bytes)
      BY <1>2, <2>2 DEF GetPayload
    <3>4. whole = Failure \/ \E bytes \in Seq(Symbols) : whole = Answered(bytes) /\ Genuine(bytes, sent)
      BY <3>2, ReassembledGenuine
    <3> HIDE DEF whole
    <3>5. QED
      BY <2>1, <3>3, <3>4, OpensOwn, AnswersDiffer
  <2>3. CASE ~ LooksLikeManifest(b)
    <3>1. GetPayload(o) = Failure \/ GetPayload(o) = Open(o, b)
      BY <1>2, <2>3 DEF GetPayload
    <3>2. QED
      BY <2>1, <3>1, OpensOwn
  <2>4. QED
    BY <2>2, <2>3
<1>3. QED
  BY <1>1, <1>2

\* The manifest of a division is put together to what was divided, or fails.
LEMMA ManifestReassembles ==
  ASSUME NEW S, NEW b \in Seq(S), NEW chunks \in Divisions(b)
  PROVE  \E doc : /\ Manifest(chunks) = <<doc>> /\ doc.kind = "doc"
                  /\ \/ Reassembled(doc) = Answered(b)
                     \/ Reassembled(doc) = Failure /\ \E c \in ToSet(chunks) : ~ Intact(c)
<1> DEFINE n == Len(chunks)
           list == [i \in DOMAIN chunks |-> Entry(chunks[i])]
           doc == Doc(list, Len(FlattenSeq(chunks)))
           cs == [i \in DOMAIN list |-> list[i].id]
<1>1. chunks \in Seq(Seq(S)) /\ FlattenSeq(chunks) = b
  BY DivisionJoins
<1>2. \A i \in DOMAIN chunks : list[i].id = chunks[i] /\ list[i].length = Len(chunks[i])
  BY DEF Entry
<1>3. DOMAIN list = DOMAIN chunks
  OBVIOUS
<1> HIDE DEF list
<1>4. cs = chunks
  <2>1. DOMAIN chunks = 1..Len(chunks) /\ chunks = [i \in 1..Len(chunks) |-> chunks[i]]
    BY <1>1
  <2>2. QED
    BY <1>2, <1>3, <2>1
<1>5. doc.kind = "doc" /\ doc.chunks = list /\ doc.size = Len(b)
  BY <1>1 DEF Doc
<1>6. Manifest(chunks) = <<doc>>
  BY DEF Manifest, list
<1> HIDE DEF doc
<1>7. Reassembled(doc) = IF \A i \in DOMAIN list : Intact(list[i].id) /\ Len(list[i].id) = list[i].length
                           THEN Answered(b) ELSE Failure
  <2>1. [i \in DOMAIN doc.chunks |-> doc.chunks[i].id] = cs
    BY <1>5
  <2>2. FlattenSeq(cs) = b
    BY <1>1, <1>4
  <2> HIDE DEF cs
  <2>3. QED
    BY <1>5, <2>1, <2>2 DEF Reassembled
<1>8. CASE \A i \in DOMAIN chunks : Intact(chunks[i])
  BY <1>2, <1>3, <1>5, <1>6, <1>7, <1>8
<1>9. CASE \E i \in DOMAIN chunks : ~ Intact(chunks[i])
  <2>1. PICK i \in DOMAIN chunks : ~ Intact(chunks[i])
    BY <1>9
  <2>2. chunks[i] \in ToSet(chunks)
    BY DEF ToSet
  <2>3. Reassembled(doc) = Failure
    BY <1>2, <1>3, <1>7, <2>1
  <2>4. QED
    BY <1>5, <1>6, <2>1, <2>2, <2>3
<1>10. QED
  BY <1>8, <1>9

\* Whatever the encryption, as long as the root is unharmed.
LEMMA UnharmedReads ==
  ASSUME PayloadInv, NEW o \in DOMAIN root, root[o] \notin harmed,
         cipher = "null" => ~ LooksLikeManifest(sent[o])
  PROVE  GetPayload(o) = Answered(sent[o]) \/ (GetPayload(o) = Failure /\ harmed # {})
<1> DEFINE text == sent[o]
           b == Seal(o, text)
<1>1. o \in Assets /\ text \in Sendable /\ o \in DOMAIN sent /\ cipher \in {"null", "aead"}
  BY DEF PayloadInv
<1>2. text \in Seq(Raw) /\ b \in Seq(Pieces)
  BY <1>1, SendableTyped, SealTyped
<1>3. Open(o, b) = Answered(text)
  BY <1>1, <1>2, OpensSealed
<1>4. Place(o, root[o], text, KnownBlobs)
  BY DEF PayloadInv
<1>5. root[o] \in DOMAIN blobs /\ blobs[root[o]] = root[o]
  <2>1. root[o] \in KnownBlobs
    BY <1>4 DEF Place
  <2>2. QED
    BY <2>1 DEF KnownBlobs, PayloadInv
<1>6. ASSUME NEW id, id \in KnownBlobs, ~ Intact(id)
      PROVE  harmed # {}
  BY <1>6 DEF KnownBlobs, Intact, PayloadInv
<1>7. CASE root[o] = b
  <2>1. ~ LooksLikeManifest(b)
    <3>1. CASE cipher = "null"
      BY <3>1 DEF Seal
    <3>2. CASE cipher = "aead"
      <4> DEFINE whole == [i \in 1..Len(text) + 1 |-> [kind |-> "sealed", by |-> o, text |-> text, at |-> i]]
      <4>1. b = whole
        BY <3>2 DEF Seal
      <4>2. 1 \in 1..Len(text) + 1
        BY <1>2
      <4>3. whole[1].kind = "sealed"
        BY <4>2
      <4> HIDE DEF whole, b
      <4>4. QED
        BY <4>1, <4>3 DEF LooksLikeManifest
    <3>3. QED
      BY <1>1, <3>1, <3>2
  <2>2. GetPayload(o) = Open(o, b)
    BY <1>5, <1>7, <2>1 DEF GetPayload, Intact
  <2>3. QED
    BY <1>3, <2>2
<1>8. CASE \E chunks \in Divisions(b) : root[o] = Manifest(chunks) /\ {root[o]} \cup ToSet(chunks) \subseteq KnownBlobs
  <2>1. PICK chunks \in Divisions(b) : root[o] = Manifest(chunks) /\ {root[o]} \cup ToSet(chunks) \subseteq KnownBlobs
    BY <1>8
  <2>2. PICK doc : /\ Manifest(chunks) = <<doc>> /\ doc.kind = "doc"
                   /\ \/ Reassembled(doc) = Answered(b)
                      \/ Reassembled(doc) = Failure /\ \E c \in ToSet(chunks) : ~ Intact(c)
    <3> HIDE DEF b
    <3>1. QED
      BY <1>2, ManifestReassembles
  <2>3. blobs[root[o]] = <<doc>> /\ <<doc>>[1] = doc /\ Len(<<doc>>) = 1
    BY <1>5, <2>1, <2>2
  <2>4. LooksLikeManifest(blobs[root[o]]) /\ blobs[root[o]][1] = doc
    BY <2>2, <2>3 DEF LooksLikeManifest
  <2>5. GetPayload(o) = IF Reassembled(doc) = Failure THEN Failure ELSE Open(o, Reassembled(doc).bytes)
    BY <1>5, <2>4 DEF GetPayload
  <2> HIDE DEF b
  <2>6. CASE Reassembled(doc) = Answered(b)
    BY <1>3, <2>5, <2>6, AnswersDiffer
  <2>7. CASE Reassembled(doc) = Failure /\ \E c \in ToSet(chunks) : ~ Intact(c)
    BY <1>6, <2>1, <2>5, <2>7
  <2>8. QED
    BY <2>2, <2>6, <2>7
<1>9. QED
  BY <1>4, <1>7, <1>8 DEF Place

\* An uploaded manifest is stored as it is, or under a manifest of its own.
LEMMA ManifestsShow ==
  ASSUME PayloadInv, NEW o \in DOMAIN root, cipher = "null", LooksLikeManifest(sent[o]), root[o] \notin harmed
  PROVE  root[o] \in DOMAIN blobs /\ LooksLikeManifest(blobs[root[o]])
<1>1. Place(o, root[o], sent[o], KnownBlobs) /\ sent[o] \in Sendable
  BY DEF PayloadInv
<1>2. root[o] \in DOMAIN blobs /\ blobs[root[o]] = root[o]
  <2>1. root[o] \in KnownBlobs
    BY <1>1 DEF Place
  <2>2. QED
    BY <2>1 DEF KnownBlobs, PayloadInv
<1>3. root[o] = sent[o] \/ \E chunks : root[o] = Manifest(chunks)
  BY <1>1 DEF Place, Seal
<1>4. ASSUME NEW chunks
      PROVE  LooksLikeManifest(Manifest(chunks))
  BY DEF LooksLikeManifest, Manifest, Doc
<1>5. QED
  BY <1>2, <1>3, <1>4

\* Not encrypted, a damaged root is noticed unless it parses as a manifest.
LEMMA PlainReads ==
  ASSUME PayloadInv, cipher = "null", NEW o \in DOMAIN root, root[o] \in harmed,
         ~ (root[o] \in DOMAIN blobs /\ LooksLikeManifest(blobs[root[o]]))
  PROVE  GetPayload(o) = Answered(sent[o]) \/ (GetPayload(o) = Failure /\ harmed # {})
<1>1. CASE root[o] \notin DOMAIN blobs \/ ~ Intact(root[o])
  BY <1>1 DEF GetPayload, Intact
<1>2. CASE Intact(root[o])
  <2>1. Place(o, root[o], sent[o], KnownBlobs)
    BY DEF PayloadInv
  <2>2. ~ LooksLikeManifest(root[o])
    BY <1>2 DEF Intact
  <2>3. ASSUME NEW chunks
        PROVE  LooksLikeManifest(Manifest(chunks))
    BY DEF LooksLikeManifest, Manifest, Doc
  <2>4. root[o] = sent[o]
    BY <2>1, <2>2, <2>3 DEF Place, Seal
  <2>5. GetPayload(o) = Answered(blobs[root[o]])
    BY <1>2 DEF GetPayload, Intact, Open
  <2>6. QED
    BY <1>2, <2>4, <2>5 DEF Intact
<1>3. QED
  BY <1>1, <1>2

LEMMA PayloadsRead == PayloadInv => ReadsBack
<1> DEFINE believed(o) == /\ cipher = "null"
                          /\ root[o] \in DOMAIN blobs /\ LooksLikeManifest(blobs[root[o]])
                          /\ root[o] \in harmed \/ LooksLikeManifest(sent[o])
<1> SUFFICES ASSUME PayloadInv, NEW o \in DOMAIN root, ~ believed(o)
             PROVE  GetPayload(o) = Answered(sent[o]) \/ (GetPayload(o) = Failure /\ harmed # {})
  BY DEF ReadsBack
<1>1. CASE root[o] \notin harmed
  BY <1>1, UnharmedReads, ManifestsShow
<1>2. CASE root[o] \in harmed
  <2>1. cipher \in {"null", "aead"}
    BY DEF PayloadInv
  <2>2. CASE cipher = "null"
    BY <1>2, <2>2, PlainReads
  <2>3. CASE cipher = "aead"
    BY <1>2, <2>3, EncryptedReads
  <2>4. QED
    BY <2>1, <2>2, <2>3
<1>3. QED
  BY <1>1, <1>2

-----------------------------------------------------------------------------
LEMMA PartsGenuine ==
  ASSUME NEW b \in Seq(Pieces), NEW known, Genuine(b, known), NEW chunks \in Divisions(b)
  PROVE  /\ \A c \in ToSet(chunks) : c \in Seq(Pieces) /\ Genuine(c, known)
         /\ Manifest(chunks) \in Seq(Symbols) /\ Genuine(Manifest(chunks), known)
<1>1. chunks \in Seq(Seq(Pieces)) /\ Len(chunks) \in 1..2 /\ FlattenSeq(chunks) = b
  BY DivisionJoins
<1>2. \A c \in ToSet(chunks) : c \in Seq(Pieces)
  BY <1>1 DEF ToSet
<1>3. ASSUME NEW m \in 1..Len(b) + 1, NEW k \in 0..Len(b)
      PROVE  Genuine(SubSeq(b, m, k), known)
  <2> DEFINE c == SubSeq(b, m, k)
  <2>1. m \in Nat /\ k \in Nat /\ k <= Len(b) /\ Len(b) \in Nat
    OBVIOUS
  <2>2. \A i \in 1..Len(c) : c[i] = b[m + i - 1] /\ m + i - 1 \in 1..Len(b)
    BY <2>1
  <2> HIDE DEF c
  <2>3. QED
    BY <2>2 DEF Genuine, c
<1>4. \A c \in ToSet(chunks) : Genuine(c, known)
  <2>1. CASE chunks = <<b>>
    <3>1. ToSet(chunks) = {b}
      BY <2>1 DEF ToSet
    <3>2. QED
      BY <3>1
  <2>2. CASE \E i \in 1..Len(b) - 1 : chunks = <<SubSeq(b, 1, i), SubSeq(b, i + 1, Len(b))>>
    <3>1. PICK i \in 1..Len(b) - 1 : chunks = <<SubSeq(b, 1, i), SubSeq(b, i + 1, Len(b))>>
      BY <2>2
    <3>2. Len(b) \in Nat /\ 1 \in 1..Len(b) + 1 /\ i \in 0..Len(b) /\ i + 1 \in 1..Len(b) + 1 /\ Len(b) \in 0..Len(b)
      OBVIOUS
    <3>3. Genuine(SubSeq(b, 1, i), known) /\ Genuine(SubSeq(b, i + 1, Len(b)), known)
      BY <1>3, <3>2
    <3> DEFINE left == SubSeq(b, 1, i)
               right == SubSeq(b, i + 1, Len(b))
    <3>4. chunks = <<left, right>> /\ Genuine(left, known) /\ Genuine(right, known)
      BY <3>1, <3>3
    <3> HIDE DEF left, right
    <3>5. ToSet(chunks) = {left, right}
      BY <3>4 DEF ToSet
    <3>6. QED
      BY <3>4, <3>5
  <2>3. QED
    BY <2>1, <2>2 DEF Divisions
<1> DEFINE list == [i \in DOMAIN chunks |-> Entry(chunks[i])]
           doc == Doc(list, Len(FlattenSeq(chunks)))
<1>5. Manifest(chunks) = <<doc>>
  BY DEF Manifest
<1>6. \A i \in 1..Len(chunks) : Entry(chunks[i]) \in ChunkEntries
  BY <1>1 DEF Entry, ChunkEntries
<1>7. list \in Seq(ChunkEntries) /\ Len(list) = Len(chunks)
  BY <1>1, <1>6
<1> HIDE DEF list
<1>8. doc \in Docs /\ doc.kind = "doc"
  <2>1. Len(FlattenSeq(chunks)) \in Nat
    BY <1>1
  <2>2. Len(list) \in 1..2
    BY <1>1, <1>7
  <2>3. QED
    BY <1>7, <2>1, <2>2 DEF Doc, Docs
<1> HIDE DEF doc
<1>9. <<doc>> \in Seq(Symbols) /\ Genuine(<<doc>>, known)
  <2>1. doc \in Symbols
    BY <1>8 DEF Symbols
  <2>2. <<doc>> \in Seq(Symbols) /\ Len(<<doc>>) = 1 /\ <<doc>>[1] = doc
    BY <2>1
  <2>3. QED
    BY <1>8, <2>2 DEF Genuine
<1>10. QED
  BY <1>2, <1>4, <1>5, <1>9

LEMMA StaysGenuine ==
  ASSUME PayloadInv, NEW o \in Assets, o \notin DOMAIN root, NEW id, NEW text, Recorded(o, id, text), NEW s, Genuine(s, sent)
  PROVE  Genuine(s, sent')
<1>1. \A p \in DOMAIN sent : p \in DOMAIN sent' /\ sent'[p] = sent[p]
  BY DEF PayloadInv, Recorded
<1>2. QED
  BY <1>1 DEF Genuine

LEMMA PlaceStays ==
  ASSUME NEW o, NEW id, NEW text, NEW there, NEW there1, there \subseteq there1, Place(o, id, text, there)
  PROVE  Place(o, id, text, there1)
  BY DEF Place

LEMMA UploadKeepsInv ==
  ASSUME PayloadInv, NEW o \in Assets, o \notin DOMAIN root, NEW text \in Sendable, NEW id, NEW ids,
         ids \subseteq Seq(Symbols), \A i \in ids : Genuine(i, sent'),
         blobs' = PutAll(ids), Recorded(o, id, text), UNCHANGED <<cipher, harmed>>, Place(o, id, text, ids)
  PROVE  PayloadInv'
<1>1. /\ DOMAIN root' = DOMAIN root \cup {o} /\ DOMAIN sent' = DOMAIN sent \cup {o}
      /\ root'[o] = id /\ sent'[o] = text
      /\ \A p \in DOMAIN root : p # o /\ root'[p] = root[p] /\ sent'[p] = sent[p]
  BY DEF Recorded, PayloadInv
<1>2. DOMAIN blobs' = DOMAIN blobs \cup ids
      /\ \A i \in DOMAIN blobs' : blobs'[i] = IF i \in DOMAIN blobs THEN blobs[i] ELSE i
  BY DEF PutAll
<1>3. KnownBlobs \subseteq KnownBlobs' /\ ids \subseteq KnownBlobs'
  BY <1>2 DEF KnownBlobs
<1>4. ASSUME NEW i \in DOMAIN blobs'
      PROVE  /\ i \in Seq(Symbols) /\ blobs'[i] \in Seq(Symbols)
             /\ Genuine(i, sent') /\ Genuine(blobs'[i], sent')
             /\ i \in harmed' \/ blobs'[i] = i
  <2>1. CASE i \in DOMAIN blobs
    <3>1. /\ i \in Seq(Symbols) /\ blobs[i] \in Seq(Symbols)
          /\ Genuine(i, sent) /\ Genuine(blobs[i], sent)
          /\ i \in harmed \/ blobs[i] = i
      BY <2>1 DEF PayloadInv
    <3>2. QED
      BY <1>2, <2>1, <3>1, StaysGenuine
  <2>2. CASE i \notin DOMAIN blobs
    BY <1>2, <2>2
  <2>3. QED
    BY <2>1, <2>2
<1>5. ASSUME NEW p \in DOMAIN root'
      PROVE  Place(p, root'[p], sent'[p], KnownBlobs')
  <2>1. CASE p = o
    BY <1>1, <1>3, <2>1, PlaceStays
  <2>2. CASE p # o
    <3>1. Place(p, root[p], sent[p], KnownBlobs) /\ root'[p] = root[p] /\ sent'[p] = sent[p]
      BY <1>1, <2>2 DEF PayloadInv
    <3>2. QED
      BY <1>3, <3>1, PlaceStays
  <2>3. QED
    BY <2>1, <2>2
<1>6. ASSUME NEW p \in DOMAIN root'
      PROVE  Place(p, root[p], sent[p], KnownBlobs)'
  <2>1. Seal(p, sent'[p]) = Seal(p, sent[p])'
    BY DEF Seal
  <2>2. Place(p, root'[p], sent'[p], KnownBlobs')
    BY <1>5
  <2>3. QED
    BY <2>1, <2>2 DEF Place
<1>7. QED
  BY <1>1, <1>4, <1>6 DEF PayloadInv

LEMMA UploadsKeepInv ==
  ASSUME PayloadInv, NEW o \in Assets, NEW text \in Sendable,
         UploadInline(o, text) \/ \E chunks \in Divisions(Seal(o, text)) : UploadChunked(o, text, chunks)
  PROVE  PayloadInv'
<1> DEFINE b == Seal(o, text)
<1>1. PICK id, ids :
        /\ o \notin DOMAIN root /\ blobs' = PutAll(ids) /\ Recorded(o, id, text) /\ UNCHANGED <<cipher, harmed>>
        /\ \/ id = b /\ ids = {b}
           \/ \E chunks \in Divisions(b) : id = Manifest(chunks) /\ ids = ToSet(chunks) \cup {id}
  <2>1. CASE UploadInline(o, text)
    BY <2>1 DEF UploadInline
  <2>2. CASE \E chunks \in Divisions(b) : UploadChunked(o, text, chunks)
    <3>1. PICK chunks \in Divisions(b) : UploadChunked(o, text, chunks)
      BY <2>2
    <3> DEFINE all == ToSet(chunks) \cup {Manifest(chunks)}
    <3>2. /\ o \notin DOMAIN root /\ blobs' = PutAll(all) /\ Recorded(o, Manifest(chunks), text)
          /\ UNCHANGED <<cipher, harmed>>
      BY <3>1 DEF UploadChunked
    <3> HIDE DEF b
    <3>3. QED
      BY <3>2
  <2>3. QED
    BY <2>1, <2>2
<1>2. o \in DOMAIN sent' /\ sent'[o] = text /\ cipher \in {"null", "aead"}
  BY <1>1 DEF Recorded, PayloadInv
<1>3. b \in Seq(Pieces) /\ Genuine(b, sent')
  BY <1>2, SealTyped
<1>4. \A s \in Seq(Pieces) : s \in Seq(Symbols)
  BY DEF Symbols
<1> HIDE DEF b
<1>5. CASE id = b /\ ids = {b}
  <2>1. ids \subseteq Seq(Symbols) /\ \A i \in ids : Genuine(i, sent')
    BY <1>3, <1>4, <1>5
  <2>2. Place(o, id, text, ids)
    BY <1>5 DEF Place, b
  <2>3. QED
    BY <1>1, <2>1, <2>2, UploadKeepsInv
<1>6. CASE \E chunks \in Divisions(b) : id = Manifest(chunks) /\ ids = ToSet(chunks) \cup {id}
  <2>1. PICK chunks \in Divisions(b) : id = Manifest(chunks) /\ ids = ToSet(chunks) \cup {id}
    BY <1>6
  <2>2. ids \subseteq Seq(Symbols) /\ \A i \in ids : Genuine(i, sent')
    BY <1>3, <1>4, <2>1, PartsGenuine
  <2>3. Place(o, id, text, ids)
    BY <2>1 DEF Place, b
  <2>4. QED
    BY <1>1, <2>2, <2>3, UploadKeepsInv
<1>7. QED
  BY <1>1, <1>5, <1>6

LEMMA DiskKeepsInv ==
  ASSUME PayloadInv, NEW id \in DOMAIN blobs,
         Lose(id) \/ \E other \in DOMAIN blobs \cup Sendable : Damage(id, other)
  PROVE  PayloadInv'
<1>1. UNCHANGED <<cipher, root, sent>> /\ harmed' = harmed \cup {id}
  BY DEF Lose, Damage
<1>2. /\ DOMAIN blobs' \subseteq DOMAIN blobs /\ DOMAIN blobs \subseteq DOMAIN blobs' \cup {id}
      /\ \A i \in DOMAIN blobs' : blobs'[i] = blobs[i] \/ (i = id /\ blobs'[i] \in DOMAIN blobs \cup Sendable)
  BY DEF Lose, Damage
<1>3. \A s \in DOMAIN blobs \cup Sendable : s \in Seq(Symbols) /\ Genuine(s, sent)
  <2>1. ASSUME NEW s \in Sendable
        PROVE  s \in Seq(Symbols) /\ Genuine(s, sent)
    <3>1. s \in Seq(Raw)
      BY SendableTyped
    <3>2. QED
      BY <3>1, RawKinds DEF Genuine, Symbols, Pieces
  <2>2. QED
    BY <2>1 DEF PayloadInv
<1>4. ASSUME NEW i \in DOMAIN blobs'
      PROVE  /\ i \in Seq(Symbols) /\ blobs'[i] \in Seq(Symbols)
             /\ Genuine(i, sent') /\ Genuine(blobs'[i], sent')
             /\ i \in harmed' \/ blobs'[i] = i
  <2>1. /\ i \in Seq(Symbols) /\ blobs[i] \in Seq(Symbols)
        /\ Genuine(i, sent) /\ Genuine(blobs[i], sent)
        /\ i \in harmed \/ blobs[i] = i
    BY <1>2 DEF PayloadInv
  <2>2. QED
    BY <1>1, <1>2, <1>3, <2>1
<1>5. KnownBlobs \subseteq KnownBlobs'
  BY <1>1, <1>2 DEF KnownBlobs
<1>6. ASSUME NEW p \in DOMAIN root'
      PROVE  Place(p, root[p], sent[p], KnownBlobs)'
  <2>1. Place(p, root[p], sent[p], KnownBlobs')
    BY <1>1, <1>5, PlaceStays DEF PayloadInv
  <2>2. Seal(p, sent[p])' = Seal(p, sent[p]) /\ root' = root /\ sent' = sent
    BY <1>1 DEF Seal
  <2>3. QED
    BY <2>1, <2>2 DEF Place
<1>7. QED
  BY <1>1, <1>4, <1>6 DEF PayloadInv

LEMMA PayloadStart == PayloadInit => PayloadInv
BY DEF PayloadInit, NoBlobs, PayloadInv

LEMMA PayloadKept == PayloadInv /\ [PayloadNext]_payloadVars => PayloadInv'
<1> SUFFICES ASSUME PayloadInv, [PayloadNext]_payloadVars
             PROVE  PayloadInv'
  OBVIOUS
<1>1. CASE PayloadNext
  BY <1>1, UploadsKeepInv, DiskKeepsInv DEF PayloadNext
<1>2. CASE UNCHANGED payloadVars
  <2>1. UNCHANGED <<cipher, blobs, root, sent, harmed>>
    BY <1>2 DEF payloadVars
  <2>2. \A p \in DOMAIN root : Place(p, root[p], sent[p], KnownBlobs)'
    BY <2>1 DEF PayloadInv, Place, Seal, KnownBlobs
  <2>3. QED
    BY <2>1, <2>2 DEF PayloadInv
<1>3. QED
  BY <1>1, <1>2

\* What was uploaded is what get_payload returns, or it fails, and fails only
\* after harm: however it was divided, whoever else uploaded what, and whatever
\* became of the files, but for two ways to be fooled without encryption
\* (SodlService::upload, get_payload, reassemble, decrypt_for_origin).
THEOREM PayloadsReadBack == PayloadSpec => []ReadsBack
BY PayloadStart, PayloadKept, PayloadsRead, PTL DEF PayloadSpec

-----------------------------------------------------------------------------
(***************************************************************************)
(* The registries of checkpoints.                                            *)
(***************************************************************************)
Recs == [id : Nat, payload : Snapshots]
Phases == {"idle", "look", "put", "load", "write", "scan", "gc"}
Jobs == [pc : Phases, op : {"save", "delete"}, run : Runs \cup {Nothing}, id : Nat,
         payload : Snapshots \cup {Nothing}, read : SUBSET Recs, records : Seq(Recs),
         garbage : SUBSET Snapshots, alone : BOOLEAN]

\* What a call is at, as the method it is of goes.
Proper(q) ==
  /\ q.pc = "idle" => q = Quiet
  /\ q.pc # "idle" => q.run \in Runs /\ (q.op = "save" <=> q.payload \in Snapshots)
  /\ q.pc \in {"look", "put"} => q.op = "save"

RecordsTyped ==
  /\ kept \subseteq Snapshots /\ contested \subseteq Snapshots /\ residue \subseteq Snapshots
  /\ registry \in [Runs -> Seq(Recs)] /\ registered \in [Runs -> Seq(Nat)]
  /\ begun \in Nat /\ mixed \subseteq Runs
  /\ session \in [Sessions -> Jobs] /\ \A s \in Sessions : Proper(session[s])

LEMMA QuietFields ==
  /\ Quiet \in Jobs /\ Proper(Quiet) /\ Quiet.pc = "idle" /\ Quiet.garbage = {} /\ Quiet.payload = Nothing
  /\ Quiet.records = <<>> /\ Quiet.read = {} /\ Quiet.op = "save" /\ Quiet.alone = TRUE
<1> DEFINE none == <<>>
<1>1. none \in Seq(Recs)
  OBVIOUS
<1>2. Quiet = [pc |-> "idle", op |-> "save", run |-> Nothing, id |-> 0, payload |-> Nothing,
               read |-> {}, records |-> none, garbage |-> {}, alone |-> TRUE]
  BY DEF Quiet
<1> HIDE DEF none
<1>3. Quiet \in Jobs
  BY <1>1, <1>2 DEF Jobs, Phases
<1>4. /\ Quiet.pc = "idle" /\ Quiet.garbage = {} /\ Quiet.payload = Nothing
      /\ Quiet.records = none /\ Quiet.read = {} /\ Quiet.op = "save" /\ Quiet.alone = TRUE
  BY <1>2
<1>5. QED
  BY <1>3, <1>4 DEF Proper, none

-----------------------------------------------------------------------------
(* The lists of records.                                                    *)
LEMMA PushedFields ==
  ASSUME NEW records \in Seq(Recs), NEW q \in Jobs, q.payload \in Snapshots
  PROVE  /\ Pushed(records, q) \in Seq(Recs) /\ Len(Pushed(records, q)) = Len(records) + 1
         /\ \A i \in 1..Len(records) : Pushed(records, q)[i] = records[i]
         /\ Pushed(records, q)[Len(records) + 1].id = q.id
         /\ Pushed(records, q)[Len(records) + 1].payload = q.payload
         /\ Overflow(Pushed(records, q)) \in 0..Len(records) + 1
         /\ MaxCheckpoints = 0 => Overflow(Pushed(records, q)) = 0
         /\ MaxCheckpoints > 0 => /\ Overflow(Pushed(records, q)) <= Len(records)
                                  /\ Len(records) + 1 <= MaxCheckpoints + Overflow(Pushed(records, q))
                                  /\ \/ Overflow(Pushed(records, q)) = 0
                                     \/ Len(records) + 1 = MaxCheckpoints + Overflow(Pushed(records, q))
<1> DEFINE rec == [id |-> q.id, payload |-> q.payload]
           all == Append(records, rec)
           n == Len(records)
<1>1. rec \in Recs /\ rec.id = q.id /\ rec.payload = q.payload
  BY DEF Recs, Jobs
<1>2. Pushed(records, q) = all
  BY DEF Pushed
<1> HIDE DEF rec
<1>3. /\ all \in Seq(Recs) /\ Len(all) = n + 1 /\ n \in Nat /\ all[n + 1] = rec
      /\ \A i \in 1..n : all[i] = records[i]
  BY <1>1
<1> HIDE DEF all, n
<1>4. /\ Overflow(all) \in 0..n + 1
      /\ MaxCheckpoints = 0 => Overflow(all) = 0
      /\ MaxCheckpoints > 0 => /\ Overflow(all) <= n
                               /\ n + 1 <= MaxCheckpoints + Overflow(all)
                               /\ Overflow(all) = 0 \/ n + 1 = MaxCheckpoints + Overflow(all)
  BY <1>3, CheckpointAssumption DEF Overflow
<1>5. QED
  BY <1>1, <1>2, <1>3, <1>4 DEF n

\* What a save writes is the end of the longer list.
LEMMA SavedFields ==
  ASSUME NEW records \in Seq(Recs), NEW q \in Jobs, q.payload \in Snapshots
  PROVE  \E k \in 0..Len(records) :
           /\ Saved(records, q) \in Seq(Recs) /\ Len(Saved(records, q)) = Len(records) + 1 - k
           /\ \A i \in 1..Len(records) - k : Saved(records, q)[i] = records[i + k]
           /\ Saved(records, q)[Len(records) + 1 - k].id = q.id
           /\ Saved(records, q)[Len(records) + 1 - k].payload = q.payload
           /\ Evicted(records, q) = {records[i].payload : i \in 1..k}
           /\ k = 0 \/ (MaxCheckpoints > 0 /\ Len(records) + 1 = MaxCheckpoints + k)
<1> DEFINE all == Pushed(records, q)
           n == Len(records)
           k == Overflow(all)
           after == SubSeq(all, k + 1, n + 1)
           before == SubSeq(all, 1, k)
<1>1. /\ all \in Seq(Recs) /\ Len(all) = n + 1 /\ n \in Nat
      /\ \A i \in 1..n : all[i] = records[i]
      /\ all[n + 1].id = q.id /\ all[n + 1].payload = q.payload
  BY PushedFields
<1>2. k \in 0..n /\ (k = 0 \/ (MaxCheckpoints > 0 /\ n + 1 = MaxCheckpoints + k))
  <2>1. k \in 0..n + 1 /\ (MaxCheckpoints = 0 => k = 0)
        /\ (MaxCheckpoints > 0 => k <= n /\ (k = 0 \/ n + 1 = MaxCheckpoints + k))
    BY PushedFields
  <2> HIDE DEF k
  <2>2. QED
    BY <1>1, <2>1, CheckpointAssumption
<1>3. Saved(records, q) = after /\ Evicted(records, q) = Payload(before)
  BY <1>1 DEF Saved, Evicted
<1> HIDE DEF all, n, k
<1>4. /\ after \in Seq(Recs) /\ Len(after) = n + 1 - k
      /\ \A i \in 1..n + 1 - k : after[i] = all[i + k]
  BY <1>1, <1>2
<1>5. before \in Seq(Recs) /\ DOMAIN before = 1..k /\ \A i \in 1..k : before[i] = all[i] /\ all[i] = records[i]
  BY <1>1, <1>2
<1>6. Payload(before) = {records[i].payload : i \in 1..k}
  BY <1>5 DEF Payload
<1> HIDE DEF after, before
<1>7. \A i \in 1..n - k : after[i] = records[i + k]
  BY <1>1, <1>2, <1>4
<1>8. n + 1 - k \in 1..n + 1 - k /\ (n + 1 - k) + k = n + 1
  BY <1>1, <1>2
<1>9. after[n + 1 - k].id = q.id /\ after[n + 1 - k].payload = q.payload
  BY <1>1, <1>4, <1>8
<1>10. QED
  BY <1>2, <1>3, <1>4, <1>6, <1>7, <1>9 DEF n

\* What a deletion writes is the list without one record of the id.
LEMMA RetainedFields ==
  ASSUME NEW records \in Seq(Recs), NEW q \in Jobs, Deleted(records, q) # {}
  PROVE  \E k \in 1..Len(records) :
           /\ records[k].id = q.id /\ records[k].payload \in Deleted(records, q)
           /\ Retained(records, q) \in Seq(Recs) /\ Len(Retained(records, q)) = Len(records) - 1
           /\ \A i \in 1..Len(records) - 1 : Retained(records, q)[i] = IF i < k THEN records[i] ELSE records[i + 1]
<1> DEFINE n == Len(records)
           k == CHOOSE i \in DOMAIN records : records[i].id = q.id
           left == SubSeq(records, 1, k - 1)
           right == SubSeq(records, k + 1, n)
<1>1. k \in DOMAIN records /\ records[k].id = q.id
  BY DEF Deleted
<1>2. Retained(records, q) = left \o right
  BY DEF Retained, RemoveAt
<1> HIDE DEF k
<1>3. k \in 1..n /\ n \in Nat /\ records[k].payload \in Deleted(records, q)
  BY <1>1 DEF Deleted
<1>4. left \in Seq(Recs) /\ Len(left) = k - 1 /\ \A i \in 1..k - 1 : left[i] = records[i]
  BY <1>3
<1>5. right \in Seq(Recs) /\ Len(right) = n - k /\ \A i \in 1..n - k : right[i] = records[i + k]
  BY <1>3
<1> HIDE DEF left, right, n
<1>6. /\ left \o right \in Seq(Recs) /\ Len(left \o right) = Len(left) + Len(right)
      /\ \A i \in 1..Len(left) + Len(right) :
           (left \o right)[i] = IF i <= Len(left) THEN left[i] ELSE right[i - Len(left)]
  BY <1>4, <1>5, ConcatProperties
<1>7. Len(left \o right) = n - 1
  BY <1>3, <1>4, <1>5, <1>6
<1>8. ASSUME NEW i \in 1..n - 1
      PROVE  (left \o right)[i] = IF i < k THEN records[i] ELSE records[i + 1]
  <2>1. (left \o right)[i] = IF i <= k - 1 THEN left[i] ELSE right[i - (k - 1)]
    BY <1>3, <1>4, <1>5, <1>6
  <2>2. CASE i < k
    BY <1>3, <1>4, <2>1, <2>2
  <2>3. CASE ~ (i < k)
    <3>1. i - (k - 1) \in 1..n - k /\ (i - (k - 1)) + k = i + 1 /\ ~ (i <= k - 1)
      BY <1>3, <2>3
    <3>2. QED
      BY <1>5, <2>1, <2>3, <3>1
  <2>4. QED
    BY <2>2, <2>3
<1>9. QED
  BY <1>1, <1>2, <1>3, <1>6, <1>7, <1>8 DEF n

PayloadsOf(recs) == {rec.payload : rec \in recs}

LEMMA PayloadPlaces ==
  ASSUME NEW records \in Seq(Recs)
  PROVE  /\ Payload(records) = {records[i].payload : i \in 1..Len(records)}
         /\ Payload(records) = PayloadsOf(ToSet(records)) /\ Payload(records) \subseteq Snapshots
         /\ ToSet(records) \subseteq Recs /\ Len(records) \in Nat
<1>1. DOMAIN records = 1..Len(records) /\ \A i \in DOMAIN records : records[i] \in Recs
  OBVIOUS
<1>2. Payload(records) = {records[i].payload : i \in 1..Len(records)}
  BY <1>1 DEF Payload
<1>3. ToSet(records) = {records[i] : i \in 1..Len(records)}
  BY <1>1 DEF ToSet
<1>4. QED
  BY <1>1, <1>2, <1>3 DEF PayloadsOf, Recs

\* The blobs of the records read are written again or given up.
LEMMA SavedPayloads ==
  ASSUME NEW records \in Seq(Recs), NEW q \in Jobs, q.payload \in Snapshots
  PROVE  /\ Saved(records, q) \in Seq(Recs) /\ Evicted(records, q) \subseteq Snapshots
         /\ q.payload \in Payload(Saved(records, q))
         /\ Payload(Saved(records, q)) \subseteq Payload(records) \cup {q.payload}
         /\ Payload(records) \subseteq Payload(Saved(records, q)) \cup Evicted(records, q)
<1> DEFINE n == Len(records)
           new == Saved(records, q)
<1>1. PICK k \in 0..n :
           /\ new \in Seq(Recs) /\ Len(new) = n + 1 - k
           /\ \A i \in 1..n - k : new[i] = records[i + k]
           /\ new[n + 1 - k].payload = q.payload
           /\ Evicted(records, q) = {records[i].payload : i \in 1..k}
  BY SavedFields
<1>2. /\ Payload(records) = {records[i].payload : i \in 1..n} /\ n \in Nat /\ Payload(records) \subseteq Snapshots
      /\ Payload(new) = {new[i].payload : i \in 1..n + 1 - k}
  BY <1>1, PayloadPlaces
<1> HIDE DEF n, new
<1>3. q.payload \in Payload(new)
  <2>1. n + 1 - k \in 1..n + 1 - k
    BY <1>2
  <2>2. QED
    BY <1>1, <1>2, <2>1
<1>4. Payload(new) \subseteq Payload(records) \cup {q.payload}
  <2>1. ASSUME NEW i \in 1..n + 1 - k
        PROVE  new[i].payload \in Payload(records) \cup {q.payload}
    <3>1. CASE i \in 1..n - k
      <4>1. i + k \in 1..n
        BY <1>2, <3>1
      <4>2. QED
        BY <1>1, <1>2, <3>1, <4>1
    <3>2. CASE i = n + 1 - k
      BY <1>1, <3>2
    <3>3. QED
      BY <1>2, <3>1, <3>2
  <2>2. QED
    BY <1>2, <2>1
<1>5. ASSUME NEW i \in 1..n
      PROVE  records[i].payload \in Payload(new) \cup Evicted(records, q)
  <2>1. CASE i <= k
    BY <1>1, <1>2, <2>1
  <2>2. CASE i > k
    <3>1. i - k \in 1..n - k /\ (i - k) + k = i /\ i - k \in 1..n + 1 - k
      BY <1>2, <2>2
    <3>2. new[i - k] = records[i]
      BY <1>1, <3>1
    <3>3. QED
      BY <1>2, <3>1, <3>2
  <2>3. QED
    BY <1>2, <2>1, <2>2
<1>6. Evicted(records, q) \subseteq Payload(records)
  BY <1>1, <1>2
<1>7. QED
  BY <1>1, <1>2, <1>3, <1>4, <1>5, <1>6 DEF new

LEMMA RetainedPayloads ==
  ASSUME NEW records \in Seq(Recs), NEW q \in Jobs, Deleted(records, q) # {}
  PROVE  /\ Retained(records, q) \in Seq(Recs) /\ Deleted(records, q) \subseteq Snapshots
         /\ Payload(Retained(records, q)) \subseteq Payload(records)
         /\ Payload(records) \subseteq Payload(Retained(records, q)) \cup Deleted(records, q)
<1> DEFINE n == Len(records)
           new == Retained(records, q)
<1>1. PICK k \in 1..n :
           /\ records[k].payload \in Deleted(records, q)
           /\ new \in Seq(Recs) /\ Len(new) = n - 1
           /\ \A i \in 1..n - 1 : new[i] = IF i < k THEN records[i] ELSE records[i + 1]
  BY RetainedFields
<1>2. /\ Payload(records) = {records[i].payload : i \in 1..n} /\ n \in Nat /\ Payload(records) \subseteq Snapshots
      /\ Payload(new) = {new[i].payload : i \in 1..n - 1}
  BY <1>1, PayloadPlaces
<1>3. Deleted(records, q) \subseteq Payload(records)
  BY DEF Deleted, Payload
<1> HIDE DEF n, new
<1>4. ASSUME NEW i \in 1..n - 1
      PROVE  new[i].payload \in Payload(records)
  <2>1. i \in 1..n /\ i + 1 \in 1..n
    BY <1>2
  <2>2. CASE i < k
    BY <1>1, <1>2, <2>1, <2>2
  <2>3. CASE ~ (i < k)
    BY <1>1, <1>2, <2>1, <2>3
  <2>4. QED
    BY <2>2, <2>3
<1>5. ASSUME NEW i \in 1..n
      PROVE  records[i].payload \in Payload(new) \cup Deleted(records, q)
  <2>1. CASE i < k
    BY <1>1, <1>2, <2>1
  <2>2. CASE i = k
    BY <1>1, <2>2
  <2>3. CASE i > k
    <3>1. i - 1 \in 1..n - 1 /\ (i - 1) + 1 = i /\ ~ (i - 1 < k)
      BY <1>2, <2>3
    <3>2. new[i - 1] = records[i]
      BY <1>1, <3>1
    <3>3. QED
      BY <1>2, <3>1, <3>2
  <2>4. QED
    BY <1>2, <2>1, <2>2, <2>3
<1>6. QED
  BY <1>1, <1>2, <1>3, <1>4, <1>5 DEF new

-----------------------------------------------------------------------------
(* What each operation does to the call and to the files.                    *)
SameSession(q, p) ==
  /\ q.pc = p.pc /\ q.op = p.op /\ q.run = p.run /\ q.id = p.id /\ q.payload = p.payload
  /\ q.read = p.read /\ q.records = p.records /\ q.garbage = p.garbage
OthersStay(s) == \A t \in Sessions \ {s} : session'[t] = session[t]

BegunAs(s, op, r, id, p) ==
  /\ RecordsTyped' /\ session[s] = Quiet
  /\ session'[s].pc = IF op = "save" THEN "look" ELSE "load"
  /\ session'[s].op = op /\ session'[s].run = r /\ session'[s].id = id /\ session'[s].payload = p
  /\ session'[s].garbage = {}
  /\ session'[s].alone => \A t \in Sessions : ~ Active(t)
  /\ \A t \in Sessions \ {s} : /\ SameSession(session'[t], session[t])
                               /\ Active(t) => session'[t].alone = FALSE

LEMMA BegunCall ==
  ASSUME RecordsTyped, NEW s \in Sessions, NEW op \in {"save", "delete"}, NEW r \in Runs, NEW id \in Nat,
         NEW p \in Snapshots \cup {Nothing}, op = "save" <=> p \in Snapshots, BeginCall(s, op, r, id, p)
  PROVE  BegunAs(s, op, r, id, p)
<1> DEFINE first == IF op = "save" THEN "look" ELSE "load"
           lone == \A u \in Sessions : ~ Active(u)
           new == [Quiet EXCEPT !.pc = first, !.op = op, !.run = r, !.id = id, !.payload = p, !.alone = lone]
<1>1. session[s] = Quiet
  BY DEF BeginCall, Active, RecordsTyped, Proper
<1>2. /\ session'[s] = new
      /\ \A t \in Sessions \ {s} : session'[t] = IF Active(t) THEN [session[t] EXCEPT !.alone = FALSE] ELSE session[t]
      /\ session' = [t \in Sessions |-> session'[t]]
  BY DEF BeginCall
<1>3. /\ new.pc = first /\ new.op = op /\ new.run = r /\ new.id = id /\ new.payload = p /\ new.garbage = {}
      /\ new.alone = lone /\ new \in Jobs
  <2>1. first \in Phases /\ lone \in BOOLEAN
    BY DEF Phases
  <2> HIDE DEF first, lone
  <2>2. QED
    BY <2>1, QuietFields DEF Jobs
<1>4. Proper(new)
  BY <1>3 DEF Proper
<1>5. ASSUME NEW t \in Sessions \ {s}
      PROVE  /\ SameSession(session'[t], session[t])
             /\ Active(t) => session'[t].alone = FALSE
             /\ session'[t] \in Jobs /\ Proper(session'[t])
  <2>1. session[t] \in Jobs /\ Proper(session[t])
    BY DEF RecordsTyped
  <2>2. CASE ~ Active(t)
    BY <1>2, <2>1, <2>2 DEF SameSession
  <2>3. CASE Active(t)
    <3> DEFINE q == session[t]
               q2 == [q EXCEPT !.alone = FALSE]
    <3>1. session'[t] = q2 /\ q.pc # "idle" /\ q \in Jobs /\ Proper(q)
      BY <1>2, <2>1, <2>3 DEF Active
    <3> HIDE DEF q
    <3>2. SameSession(q2, q) /\ q2.alone = FALSE /\ q2 \in Jobs
      BY <3>1 DEF SameSession, Jobs
    <3>3. Proper(q2)
      BY <3>1, <3>2 DEF SameSession, Proper
    <3>4. QED
      BY <3>1, <3>2, <3>3 DEF q
  <2>4. QED
    BY <2>2, <2>3
<1> HIDE DEF new
<1>6. session' \in [Sessions -> Jobs] /\ \A t \in Sessions : Proper(session'[t])
  <2>1. \A t \in Sessions : session'[t] \in Jobs /\ Proper(session'[t])
    BY <1>2, <1>3, <1>4, <1>5
  <2>2. QED
    BY <1>2, <2>1
<1>7. RecordsTyped'
  <2>1. /\ begun' \in Nat /\ mixed' \subseteq Runs /\ kept' = kept /\ registry' = registry
        /\ registered' = registered /\ contested' = contested /\ residue' = residue
    <3>1. /\ begun' = begun + 1
          /\ UNCHANGED <<kept, registry, registered, removed, contested, residue>>
          /\ mixed' \subseteq mixed \cup {r}
      BY DEF BeginCall
    <3>2. begun \in Nat /\ mixed \subseteq Runs
      BY DEF RecordsTyped
    <3>3. QED
      BY <3>1, <3>2
  <2>2. QED
    BY <1>6, <2>1 DEF RecordsTyped
<1>8. /\ session'[s].pc = first /\ session'[s].op = op /\ session'[s].run = r /\ session'[s].id = id
      /\ session'[s].payload = p /\ session'[s].garbage = {} /\ session'[s].alone = lone
  BY <1>2, <1>3
<1>9. session'[s].alone => \A t \in Sessions : ~ Active(t)
  BY <1>8
<1>10. \A t \in Sessions \ {s} : SameSession(session'[t], session[t]) /\ (Active(t) => session'[t].alone = FALSE)
  BY <1>5
<1> HIDE DEF first, lone
<1>11. session'[s].pc = IF op = "save" THEN "look" ELSE "load"
  BY <1>8 DEF first
<1>12. QED
  BY <1>1, <1>7, <1>8, <1>9, <1>10, <1>11 DEF BegunAs

\* A step that leaves a call in a phase of its own.
LEMMA MovedCall ==
  ASSUME RecordsTyped, NEW s \in Sessions, NEW q2 \in Jobs, Proper(q2), session' = [session EXCEPT ![s] = q2]
  PROVE  /\ session' \in [Sessions -> Jobs] /\ \A t \in Sessions : Proper(session'[t])
         /\ session'[s] = q2 /\ OthersStay(s)
  BY DEF RecordsTyped, OthersStay

LEMMA EndedCall ==
  ASSUME RecordsTyped, NEW s \in Sessions, Idles(s)
  PROVE  /\ session' \in [Sessions -> Jobs] /\ \A t \in Sessions : Proper(session'[t])
         /\ session'[s] = Quiet /\ OthersStay(s)
  BY QuietFields, MovedCall DEF Idles

LEMMA ProceededCall ==
  ASSUME RecordsTyped, NEW s \in Sessions, NEW pc \in Phases \ {"idle"}, session[s].op = "save",
         Active(s), Proceed(s, pc)
  PROVE  /\ session' \in [Sessions -> Jobs] /\ \A t \in Sessions : Proper(session'[t])
         /\ session'[s].pc = pc /\ session'[s].op = "save" /\ session'[s].run = session[s].run
         /\ session'[s].id = session[s].id /\ session'[s].payload = session[s].payload
         /\ session'[s].garbage = session[s].garbage /\ session'[s].alone = session[s].alone
         /\ OthersStay(s)
<1> DEFINE q == session[s]
           q2 == [q EXCEPT !.pc = pc]
<1>1. q \in Jobs /\ Proper(q) /\ session \in [Sessions -> Jobs] /\ q.pc # "idle" /\ q.op = "save"
  BY DEF RecordsTyped, Active
<1>2. session' = [session EXCEPT ![s] = q2]
  BY DEF Proceed
<1> HIDE DEF q
<1>3. /\ q2.pc = pc /\ q2.op = "save" /\ q2.run = q.run /\ q2.id = q.id /\ q2.payload = q.payload
      /\ q2.garbage = q.garbage /\ q2.alone = q.alone /\ q2 \in Jobs
  BY <1>1 DEF Jobs
<1>4. Proper(q2)
  BY <1>1, <1>3 DEF Proper
<1> HIDE DEF q2
<1>5. QED
  BY <1>2, <1>3, <1>4, MovedCall DEF q

FilesStay == UNCHANGED <<kept, registry, begun, registered, mixed, contested, residue>>

LEMMA LookedUp ==
  ASSUME RecordsTyped, NEW s \in Sessions, LookUpBlob(s)
  PROVE  /\ RecordsTyped' /\ FilesStay /\ removed' = removed /\ OthersStay(s)
         /\ session[s].pc = "look" /\ session[s].payload \in Snapshots /\ session[s].run \in Runs
         /\ session'[s].pc = "put" \/ (session'[s].pc = "load" /\ session[s].payload \in kept)
         /\ session[s].op = "save" /\ session'[s].op = "save"
         /\ session'[s].run = session[s].run /\ session'[s].id = session[s].id
         /\ session'[s].payload = session[s].payload /\ session'[s].garbage = session[s].garbage
         /\ session'[s].alone = session[s].alone
<1>1. /\ session[s].pc = "look" /\ session[s].op = "save" /\ session[s].payload \in Snapshots
      /\ session[s].run \in Runs /\ Active(s)
  BY DEF LookUpBlob, Stands, Active, RecordsTyped, Proper
<1>2. FilesStay /\ removed' = removed
  BY DEF LookUpBlob, FilesStay
<1>3. PICK pc \in {"put", "load"} : Proceed(s, pc) /\ (pc = "load" => session[s].payload \in kept)
  BY DEF LookUpBlob
<1>4. /\ session' \in [Sessions -> Jobs] /\ \A t \in Sessions : Proper(session'[t])
      /\ session'[s].pc = pc /\ session'[s].op = "save" /\ session'[s].run = session[s].run
      /\ session'[s].id = session[s].id /\ session'[s].payload = session[s].payload
      /\ session'[s].garbage = session[s].garbage /\ session'[s].alone = session[s].alone
      /\ OthersStay(s)
  <2>1. pc \in Phases \ {"idle"}
    BY DEF Phases
  <2>2. QED
    BY <1>1, <1>3, <2>1, ProceededCall
<1>5. RecordsTyped'
  BY <1>2, <1>4 DEF RecordsTyped, FilesStay
<1>6. QED
  BY <1>1, <1>2, <1>3, <1>4, <1>5

LEMMA PutCall ==
  ASSUME RecordsTyped, NEW s \in Sessions, PutCheckpoint(s)
  PROVE  /\ RecordsTyped' /\ OthersStay(s) /\ kept' = kept \cup {session[s].payload}
         /\ UNCHANGED <<registry, begun, registered, removed, mixed, contested, residue>>
         /\ session[s].pc = "put" /\ session[s].payload \in Snapshots /\ session[s].run \in Runs
         /\ session'[s].pc = "load" /\ session[s].op = "save" /\ session'[s].op = "save"
         /\ session'[s].run = session[s].run /\ session'[s].id = session[s].id
         /\ session'[s].payload = session[s].payload /\ session'[s].garbage = session[s].garbage
         /\ session'[s].alone = session[s].alone
<1>1. /\ session[s].pc = "put" /\ session[s].op = "save" /\ session[s].payload \in Snapshots
      /\ session[s].run \in Runs /\ Active(s)
  BY DEF PutCheckpoint, Stands, Active, RecordsTyped, Proper
<1>2. /\ UNCHANGED <<registry, begun, registered, removed, mixed, contested, residue>>
      /\ kept' = kept \cup {session[s].payload} /\ Proceed(s, "load")
  BY DEF PutCheckpoint
<1>3. /\ session' \in [Sessions -> Jobs] /\ \A t \in Sessions : Proper(session'[t])
      /\ session'[s].pc = "load" /\ session'[s].op = "save" /\ session'[s].run = session[s].run
      /\ session'[s].id = session[s].id /\ session'[s].payload = session[s].payload
      /\ session'[s].garbage = session[s].garbage /\ session'[s].alone = session[s].alone
      /\ OthersStay(s)
  <2>1. "load" \in Phases \ {"idle"}
    BY DEF Phases
  <2>2. QED
    BY <1>1, <1>2, <2>1, ProceededCall
<1>4. RecordsTyped'
  BY <1>1, <1>2, <1>3 DEF RecordsTyped
<1>5. QED
  BY <1>1, <1>2, <1>3, <1>4

\* A call that has read the registry ends, or knows what it will write.
LEMMA LoadedCall ==
  ASSUME RecordsTyped, NEW s \in Sessions, LoadRegistry(s)
  PROVE  /\ RecordsTyped' /\ FilesStay /\ removed' = removed /\ OthersStay(s)
         /\ session[s].pc = "load" /\ session[s].run \in Runs /\ registry[session[s].run] \in Seq(Recs)
         /\ session[s] \in Jobs /\ (session[s].op = "save" <=> session[s].payload \in Snapshots)
         /\ session[s].op = "delete" => session[s].payload = Nothing
         /\ \/ session'[s] = Quiet /\ session[s].op = "delete"
            \/ /\ session'[s].pc = "write" /\ session'[s].run = session[s].run /\ session'[s].id = session[s].id
               /\ session'[s].op = session[s].op /\ session'[s].payload = session[s].payload
               /\ session'[s].alone = session[s].alone
               /\ session'[s].read = ToSet(registry[session[s].run])
               /\ \/ /\ session[s].op = "save"
                     /\ session'[s].records = Saved(registry[session[s].run], session[s])
                     /\ session'[s].garbage = Evicted(registry[session[s].run], session[s])
                  \/ /\ session[s].op = "delete" /\ Deleted(registry[session[s].run], session[s]) # {}
                     /\ session'[s].records = Retained(registry[session[s].run], session[s])
                     /\ session'[s].garbage = Deleted(registry[session[s].run], session[s])
<1> DEFINE q == session[s]
           had == registry[q.run]
<1>1. /\ q.pc = "load" /\ q.run \in Runs /\ had \in Seq(Recs) /\ q \in Jobs /\ session \in [Sessions -> Jobs]
      /\ (q.op = "save" <=> q.payload \in Snapshots) /\ q.op \in {"save", "delete"} /\ Active(s)
      /\ q.payload \in Snapshots \cup {Nothing}
  BY DEF LoadRegistry, Stands, Active, RecordsTyped, Proper, Jobs
<1>2. FilesStay /\ removed' = removed
  BY DEF LoadRegistry, FilesStay
<1>3. ASSUME NEW new, NEW garbage, new \in Seq(Recs), garbage \subseteq Snapshots,
             session' = [session EXCEPT ![s].pc = "write", ![s].read = ToSet(had),
                                        ![s].records = new, ![s].garbage = garbage]
      PROVE  /\ session' \in [Sessions -> Jobs] /\ \A t \in Sessions : Proper(session'[t]) /\ OthersStay(s)
             /\ session'[s].pc = "write" /\ session'[s].run = q.run /\ session'[s].id = q.id
             /\ session'[s].op = q.op /\ session'[s].payload = q.payload /\ session'[s].alone = q.alone
             /\ session'[s].read = ToSet(had) /\ session'[s].records = new /\ session'[s].garbage = garbage
  <2> DEFINE seen == ToSet(had)
             q2 == [q EXCEPT !.pc = "write", !.read = seen, !.records = new, !.garbage = garbage]
  <2>1. session' = [session EXCEPT ![s] = q2]
    BY <1>1, <1>3
  <2>2. seen \subseteq Recs
    BY <1>1, PayloadPlaces
  <2> HIDE DEF seen, q
  <2>3. /\ q2.pc = "write" /\ q2.run = q.run /\ q2.id = q.id /\ q2.op = q.op /\ q2.payload = q.payload
        /\ q2.alone = q.alone /\ q2.read = seen /\ q2.records = new /\ q2.garbage = garbage /\ q2 \in Jobs
    BY <1>1, <1>3, <2>2 DEF Jobs, Phases
  <2>4. Proper(q2)
    BY <1>1, <2>3 DEF Proper
  <2> HIDE DEF q2
  <2>5. QED
    BY <2>1, <2>3, <2>4, MovedCall DEF seen, q
<1>4. CASE q.op = "save"
  <2>1. Saved(had, q) \in Seq(Recs) /\ Evicted(had, q) \subseteq Snapshots
    BY <1>1, <1>4, SavedPayloads
  <2>2. session' = [session EXCEPT ![s].pc = "write", ![s].read = ToSet(had),
                                   ![s].records = Saved(had, q), ![s].garbage = Evicted(had, q)]
    BY <1>4 DEF LoadRegistry
  <2>3. /\ session' \in [Sessions -> Jobs] /\ \A t \in Sessions : Proper(session'[t]) /\ OthersStay(s)
        /\ session'[s].pc = "write" /\ session'[s].run = q.run /\ session'[s].id = q.id
        /\ session'[s].op = q.op /\ session'[s].payload = q.payload /\ session'[s].alone = q.alone
        /\ session'[s].read = ToSet(had)
        /\ session'[s].records = Saved(had, q) /\ session'[s].garbage = Evicted(had, q)
    BY <1>3, <2>1, <2>2
  <2>4. RecordsTyped'
    BY <1>2, <2>3 DEF RecordsTyped, FilesStay
  <2>5. QED
    BY <1>1, <1>2, <1>4, <2>3, <2>4
<1>5. CASE q.op = "delete" /\ Deleted(had, q) = {}
  <2>1. Idles(s)
    BY <1>5 DEF LoadRegistry
  <2>2. /\ session' \in [Sessions -> Jobs] /\ \A t \in Sessions : Proper(session'[t])
        /\ session'[s] = Quiet /\ OthersStay(s)
    BY <2>1, EndedCall
  <2>3. RecordsTyped'
    BY <1>2, <2>2 DEF RecordsTyped, FilesStay
  <2>4. QED
    BY <1>1, <1>2, <1>5, <2>2, <2>3
<1>6. CASE q.op = "delete" /\ Deleted(had, q) # {}
  <2>1. Retained(had, q) \in Seq(Recs) /\ Deleted(had, q) \subseteq Snapshots
    BY <1>1, <1>6, RetainedPayloads
  <2>2. session' = [session EXCEPT ![s].pc = "write", ![s].read = ToSet(had),
                                   ![s].records = Retained(had, q), ![s].garbage = Deleted(had, q)]
    BY <1>6 DEF LoadRegistry
  <2>3. /\ session' \in [Sessions -> Jobs] /\ \A t \in Sessions : Proper(session'[t]) /\ OthersStay(s)
        /\ session'[s].pc = "write" /\ session'[s].run = q.run /\ session'[s].id = q.id
        /\ session'[s].op = q.op /\ session'[s].payload = q.payload /\ session'[s].alone = q.alone
        /\ session'[s].read = ToSet(had)
        /\ session'[s].records = Retained(had, q) /\ session'[s].garbage = Deleted(had, q)
    BY <1>3, <2>1, <2>2
  <2>4. RecordsTyped'
    BY <1>2, <2>3 DEF RecordsTyped, FilesStay
  <2>5. QED
    BY <1>1, <1>2, <1>6, <2>3, <2>4
<1>7. QED
  BY <1>1, <1>4, <1>5, <1>6

LEMMA WrittenCall ==
  ASSUME RecordsTyped, NEW s \in Sessions, SaveRegistry(s)
  PROVE  /\ RecordsTyped' /\ OthersStay(s) /\ UNCHANGED <<kept, begun, mixed, contested>>
         /\ session[s].pc = "write" /\ session[s].run \in Runs /\ registry[session[s].run] \in Seq(Recs)
         /\ session[s] \in Jobs /\ (session[s].op = "save" <=> session[s].payload \in Snapshots)
         /\ registry' = [registry EXCEPT ![session[s].run] = session[s].records]
         /\ registered' = IF session[s].op = "save"
                            THEN [registered EXCEPT ![session[s].run] = Append(@, session[s].id)] ELSE registered
         /\ removed' = IF session[s].op = "delete" THEN removed \cup {session[s].id} ELSE removed
         /\ residue' = residue \cup {rec.payload : rec \in ToSet(registry[session[s].run]) \ session[s].read}
         /\ \/ session'[s] = Quiet /\ session[s].garbage = {}
            \/ /\ session'[s].pc = "scan" /\ session'[s].run = session[s].run /\ session'[s].id = session[s].id
               /\ session'[s].op = session[s].op /\ session'[s].payload = session[s].payload
               /\ session'[s].alone = session[s].alone /\ session'[s].garbage = session[s].garbage
<1> DEFINE q == session[s]
<1>1. /\ q.pc = "write" /\ q.run \in Runs /\ registry[q.run] \in Seq(Recs) /\ q \in Jobs
      /\ session \in [Sessions -> Jobs] /\ q.records \in Seq(Recs) /\ q.id \in Nat
      /\ (q.op = "save" <=> q.payload \in Snapshots) /\ Active(s) /\ Proper(q)
  BY DEF SaveRegistry, Stands, Active, RecordsTyped, Proper, Jobs
<1>2. /\ UNCHANGED <<kept, begun, mixed, contested>>
      /\ registry' = [registry EXCEPT ![q.run] = q.records]
      /\ registered' = IF q.op = "save" THEN [registered EXCEPT ![q.run] = Append(@, q.id)] ELSE registered
      /\ removed' = IF q.op = "delete" THEN removed \cup {q.id} ELSE removed
      /\ residue' = residue \cup {rec.payload : rec \in ToSet(registry[q.run]) \ q.read}
      /\ IF q.garbage = {} THEN Idles(s)
         ELSE session' = [session EXCEPT ![s].pc = "scan", ![s].read = {}, ![s].records = <<>>]
  BY DEF SaveRegistry
<1>3. /\ registry' \in [Runs -> Seq(Recs)] /\ residue' \subseteq Snapshots
  <2>1. registry' \in [Runs -> Seq(Recs)]
    BY <1>1, <1>2 DEF RecordsTyped
  <2>2. ToSet(registry[q.run]) \subseteq Recs
    BY <1>1, PayloadPlaces
  <2>3. \A rec \in Recs : rec.payload \in Snapshots
    BY DEF Recs
  <2>4. residue \subseteq Snapshots
    BY DEF RecordsTyped
  <2>5. residue' \subseteq Snapshots
    BY <1>2, <2>2, <2>3, <2>4
  <2>6. QED
    BY <2>1, <2>5
<1>4. registered' \in [Runs -> Seq(Nat)]
  <2>1. Append(registered[q.run], q.id) \in Seq(Nat)
    BY <1>1 DEF RecordsTyped
  <2>2. QED
    BY <1>1, <1>2, <2>1 DEF RecordsTyped
<1>5. CASE q.garbage = {}
  <2>1. /\ session' \in [Sessions -> Jobs] /\ \A t \in Sessions : Proper(session'[t])
        /\ session'[s] = Quiet /\ OthersStay(s)
    BY <1>2, <1>5, EndedCall
  <2>2. RecordsTyped'
    BY <1>2, <1>3, <1>4, <2>1 DEF RecordsTyped
  <2>3. QED
    BY <1>1, <1>2, <1>5, <2>1, <2>2
<1>6. CASE q.garbage # {}
  <2> DEFINE none == <<>>
             q2 == [q EXCEPT !.pc = "scan", !.read = {}, !.records = none]
  <2>1. session' = [session EXCEPT ![s] = q2]
    BY <1>1, <1>2, <1>6
  <2>2. none \in Seq(Recs)
    OBVIOUS
  <2> HIDE DEF none, q
  <2>3. /\ q2.pc = "scan" /\ q2.run = q.run /\ q2.id = q.id /\ q2.op = q.op /\ q2.payload = q.payload
        /\ q2.alone = q.alone /\ q2.garbage = q.garbage /\ q2 \in Jobs
    BY <1>1, <2>2 DEF Jobs, Phases
  <2>4. Proper(q2)
    BY <1>1, <2>3 DEF Proper
  <2> HIDE DEF q2
  <2>5. session' \in [Sessions -> Jobs] /\ (\A t \in Sessions : Proper(session'[t])) /\ session'[s] = q2 /\ OthersStay(s)
    BY <2>1, <2>3, <2>4, MovedCall
  <2>6. RecordsTyped'
    BY <1>2, <1>3, <1>4, <2>5 DEF RecordsTyped
  <2>7. QED
    BY <1>1, <1>2, <2>3, <2>5, <2>6 DEF q
<1>7. QED
  BY <1>5, <1>6

LEMMA ScannedCall ==
  ASSUME RecordsTyped, NEW s \in Sessions, ScanRegistries(s)
  PROVE  /\ RecordsTyped' /\ FilesStay /\ removed' = removed /\ OthersStay(s)
         /\ session[s].pc = "scan" /\ session[s].run \in Runs
         /\ \/ session'[s] = Quiet /\ session[s].garbage \subseteq Named
            \/ /\ session'[s].pc = "gc" /\ session'[s].run = session[s].run /\ session'[s].id = session[s].id
               /\ session'[s].op = session[s].op /\ session'[s].payload = session[s].payload
               /\ session'[s].alone = session[s].alone /\ session'[s].garbage = session[s].garbage \ Named
<1> DEFINE q == session[s]
           left == q.garbage \ Named
           q2 == [q EXCEPT !.pc = "gc", !.garbage = left]
<1>1. /\ q.pc = "scan" /\ q.run \in Runs /\ q \in Jobs /\ session \in [Sessions -> Jobs] /\ Proper(q)
  BY DEF ScanRegistries, Stands, RecordsTyped, Proper
<1>2. FilesStay /\ removed' = removed
  BY DEF ScanRegistries, FilesStay
<1>3. CASE left = {}
  <2>1. /\ session' \in [Sessions -> Jobs] /\ \A t \in Sessions : Proper(session'[t])
        /\ session'[s] = Quiet /\ OthersStay(s)
    BY <1>3, EndedCall DEF ScanRegistries
  <2>2. RecordsTyped'
    BY <1>2, <2>1 DEF RecordsTyped, FilesStay
  <2>3. QED
    BY <1>1, <1>2, <1>3, <2>1, <2>2
<1>4. CASE left # {}
  <2>1. session' = [session EXCEPT ![s].pc = "gc", ![s].garbage = left]
    BY <1>4 DEF ScanRegistries
  <2>2. session' = [session EXCEPT ![s] = q2]
    BY <1>1, <2>1
  <2>3. left \subseteq Snapshots
    BY <1>1 DEF Jobs
  <2> HIDE DEF left, q
  <2>4. /\ q2.pc = "gc" /\ q2.run = q.run /\ q2.id = q.id /\ q2.op = q.op /\ q2.payload = q.payload
        /\ q2.alone = q.alone /\ q2.garbage = left /\ q2 \in Jobs
    BY <1>1, <2>3 DEF Jobs, Phases
  <2>5. Proper(q2)
    BY <1>1, <2>4 DEF Proper
  <2> HIDE DEF q2
  <2>6. session' \in [Sessions -> Jobs] /\ (\A t \in Sessions : Proper(session'[t])) /\ session'[s] = q2 /\ OthersStay(s)
    BY <2>2, <2>4, <2>5, MovedCall
  <2>7. RecordsTyped'
    BY <1>2, <2>6 DEF RecordsTyped, FilesStay
  <2>8. QED
    BY <1>1, <1>2, <2>4, <2>6, <2>7 DEF left, q
<1>5. QED
  BY <1>3, <1>4

LEMMA DeletedCall ==
  ASSUME RecordsTyped, NEW s \in Sessions, NEW p \in Snapshots, DeleteGarbage(s, p)
  PROVE  /\ RecordsTyped' /\ OthersStay(s) /\ UNCHANGED <<registry, begun, registered, removed, mixed, residue>>
         /\ kept' = kept \ {p} /\ contested' = IF session[s].alone THEN contested ELSE contested \cup {p}
         /\ session[s].pc = "gc" /\ session[s].run \in Runs /\ p \in session[s].garbage
         /\ \/ session'[s] = Quiet /\ session[s].garbage = {p}
            \/ /\ session'[s].pc = "gc" /\ session'[s].run = session[s].run /\ session'[s].id = session[s].id
               /\ session'[s].op = session[s].op /\ session'[s].payload = session[s].payload
               /\ session'[s].alone = session[s].alone /\ session'[s].garbage = session[s].garbage \ {p}
<1> DEFINE q == session[s]
           left == q.garbage \ {p}
           q2 == [q EXCEPT !.garbage = left]
<1>1. /\ q.pc = "gc" /\ q.run \in Runs /\ q \in Jobs /\ session \in [Sessions -> Jobs] /\ Proper(q) /\ p \in q.garbage
  BY DEF DeleteGarbage, Stands, RecordsTyped, Proper
<1>2. /\ UNCHANGED <<registry, begun, registered, removed, mixed, residue>>
      /\ kept' = kept \ {p} /\ contested' = IF session[s].alone THEN contested ELSE contested \cup {p}
  BY DEF DeleteGarbage
<1>3. CASE q.garbage = {p}
  <2>1. /\ session' \in [Sessions -> Jobs] /\ \A t \in Sessions : Proper(session'[t])
        /\ session'[s] = Quiet /\ OthersStay(s)
    BY <1>3, EndedCall DEF DeleteGarbage
  <2>2. RecordsTyped'
    BY <1>2, <2>1 DEF RecordsTyped
  <2>3. QED
    BY <1>1, <1>2, <1>3, <2>1, <2>2
<1>4. CASE q.garbage # {p}
  <2>1. session' = [session EXCEPT ![s].garbage = session[s].garbage \ {p}]
    BY <1>1, <1>4 DEF DeleteGarbage
  <2>2. session' = [session EXCEPT ![s] = q2]
    BY <1>1, <2>1
  <2>3. left \subseteq Snapshots
    BY <1>1 DEF Jobs
  <2> HIDE DEF left, q
  <2>4. /\ q2.pc = "gc" /\ q2.run = q.run /\ q2.id = q.id /\ q2.op = q.op /\ q2.payload = q.payload
        /\ q2.alone = q.alone /\ q2.garbage = left /\ q2 \in Jobs
    BY <1>1, <2>3 DEF Jobs, Phases
  <2>5. Proper(q2)
    BY <1>1, <2>4 DEF Proper
  <2> HIDE DEF q2
  <2>6. session' \in [Sessions -> Jobs] /\ (\A t \in Sessions : Proper(session'[t])) /\ session'[s] = q2 /\ OthersStay(s)
    BY <2>2, <2>4, <2>5, MovedCall
  <2>7. RecordsTyped'
    BY <1>2, <2>6 DEF RecordsTyped
  <2>8. QED
    BY <1>1, <1>2, <2>4, <2>6, <2>7 DEF left, q
<1>5. QED
  BY <1>3, <1>4

LEMMA CutCall ==
  ASSUME RecordsTyped, NEW s \in Sessions, CutShort(s)
  PROVE  /\ RecordsTyped' /\ OthersStay(s) /\ session'[s] = Quiet /\ Active(s)
         /\ UNCHANGED <<kept, registry, begun, registered, removed, mixed, contested>>
         /\ residue' = residue \cup (({session[s].payload} \cup session[s].garbage) \ {Nothing})
<1>1. /\ session' \in [Sessions -> Jobs] /\ \A t \in Sessions : Proper(session'[t])
      /\ session'[s] = Quiet /\ OthersStay(s)
  BY EndedCall DEF CutShort
<1>2. /\ UNCHANGED <<kept, registry, begun, registered, removed, mixed, contested>> /\ Active(s)
      /\ residue' = residue \cup (({session[s].payload} \cup session[s].garbage) \ {Nothing})
  BY DEF CutShort
<1>3. session[s].payload \in Snapshots \cup {Nothing} /\ session[s].garbage \subseteq Snapshots
  BY DEF RecordsTyped, Jobs
<1>4. residue' \subseteq Snapshots
  BY <1>2, <1>3 DEF RecordsTyped
<1>5. RecordsTyped'
  BY <1>1, <1>2, <1>4 DEF RecordsTyped
<1>6. QED
  BY <1>1, <1>2, <1>5

-----------------------------------------------------------------------------
(* What is listed is stored.                                                *)
CallBacked(q, held, named) ==
  /\ q.pc = "load" /\ q.op = "save" => q.payload \in held
  /\ q.pc = "write" => Payload(q.records) \subseteq held
  /\ q.pc = "gc" /\ q.alone => q.garbage \cap named = {}

RestoreInv ==
  /\ RecordsTyped
  /\ Named \subseteq kept \cup contested
  /\ \A s \in Sessions : session[s].alone /\ Active(s) => \A t \in Sessions \ {s} : ~ Active(t)
  /\ \A s \in Sessions : CallBacked(session[s], kept \cup contested, Named)

LEMMA NamedPayloads ==
  ASSUME RecordsTyped
  PROVE  /\ Named = UNION {Payload(registry[r]) : r \in Runs}
         /\ \A r \in Runs : Payload(registry[r]) \subseteq Named
  BY DEF Named, Payload

\* A blob that goes while others run is contested, and one that goes otherwise
\* was found unnamed.
LEMMA RestoreStep ==
  ASSUME RestoreInv, RecordsTyped', NEW s \in Sessions, Active(s), OthersStay(s),
         Named' \subseteq (kept \cup contested)',
         session'[s].pc # "idle" => session'[s].alone = session[s].alone,
         CallBacked(session'[s], kept' \cup contested', Named'),
         kept \cup contested \subseteq kept' \cup contested' \/ session[s].alone
  PROVE  RestoreInv'
<1>1. ASSUME NEW t \in Sessions \ {s}
      PROVE  /\ session'[t] = session[t] /\ CallBacked(session'[t], kept' \cup contested', Named')
             /\ Active(t) => session[t].alone = FALSE /\ session[s].alone = FALSE
  <2>1. session'[t] = session[t] /\ CallBacked(session[t], kept \cup contested, Named)
    BY DEF OthersStay, RestoreInv
  <2>2. session[t].alone \in BOOLEAN /\ session[s].alone \in BOOLEAN
    BY DEF RestoreInv, RecordsTyped, Jobs
  <2>3. CASE Active(t)
    <3>1. session[t].alone = FALSE /\ session[s].alone = FALSE
      BY <2>2, <2>3 DEF RestoreInv
    <3>2. QED
      BY <2>1, <3>1 DEF CallBacked
  <2>4. CASE ~ Active(t)
    BY <2>1, <2>4 DEF CallBacked, Active
  <2>5. QED
    BY <2>3, <2>4
<1>2. \A t \in Sessions : CallBacked(session'[t], kept' \cup contested', Named')
  BY <1>1
<1>3. ASSUME NEW t \in Sessions, session'[t].alone /\ session'[t].pc # "idle", NEW u \in Sessions \ {t}
      PROVE  session'[u].pc = "idle"
  <2>1. CASE t = s
    <3>1. session[s].alone
      BY <1>3, <2>1
    <3>2. ~ Active(u) /\ session'[u] = session[u]
      BY <1>1, <2>1, <3>1 DEF RestoreInv
    <3>3. QED
      BY <3>2 DEF Active
  <2>2. CASE t # s
    BY <1>1, <1>3, <2>2 DEF Active
  <2>3. QED
    BY <2>1, <2>2
<1>4. QED
  BY <1>2, <1>3 DEF RestoreInv, Active

LEMMA RestoreKept == RestoreInv /\ [CheckpointNext]_checkpointVars => RestoreInv'
<1> SUFFICES ASSUME RestoreInv, [CheckpointNext]_checkpointVars PROVE RestoreInv'
  OBVIOUS
<1>0. RecordsTyped /\ Named \subseteq kept \cup contested
  BY DEF RestoreInv
<1>q. \A held, named : CallBacked(Quiet, held, named)
  BY QuietFields DEF CallBacked
<1>1. ASSUME NEW s \in Sessions, NEW op \in {"save", "delete"}, NEW r \in Runs, NEW id \in Nat,
             NEW p \in Snapshots \cup {Nothing}, op = "save" <=> p \in Snapshots, BeginCall(s, op, r, id, p)
      PROVE  RestoreInv'
  <2>1. /\ RecordsTyped' /\ session[s] = Quiet
        /\ session'[s].pc = IF op = "save" THEN "look" ELSE "load"
        /\ session'[s].op = op
        /\ session'[s].alone => \A t \in Sessions : ~ Active(t)
        /\ \A t \in Sessions \ {s} : /\ SameSession(session'[t], session[t])
                                     /\ Active(t) => session'[t].alone = FALSE
    <3>1. BegunAs(s, op, r, id, p)
      BY <1>0, <1>1, BegunCall
    <3>2. QED
      BY <3>1 DEF BegunAs
  <2>2. kept' = kept /\ contested' = contested /\ registry' = registry
    BY <1>1 DEF BeginCall
  <2>3. Named' = Named
    BY <2>2 DEF Named
  <2>4. CallBacked(session'[s], kept \cup contested, Named)
    BY <2>1 DEF CallBacked
  <2>5. ASSUME NEW t \in Sessions \ {s}
        PROVE  CallBacked(session'[t], kept \cup contested, Named)
    <3>1. CallBacked(session[t], kept \cup contested, Named)
      BY DEF RestoreInv
    <3>2. CASE Active(t)
      BY <2>1, <3>1, <3>2 DEF CallBacked, SameSession
    <3>3. CASE ~ Active(t)
      BY <2>1, <3>1, <3>3 DEF CallBacked, SameSession, Active
    <3>4. QED
      BY <3>2, <3>3
  <2>6. ASSUME NEW t \in Sessions, session'[t].alone /\ session'[t].pc # "idle", NEW u \in Sessions \ {t}
        PROVE  session'[u].pc = "idle"
    <3>1. CASE t = s
      BY <2>1, <2>6, <3>1 DEF SameSession, Active
    <3>2. CASE t # s
      BY <2>1, <2>6, <3>2 DEF SameSession, Active
    <3>3. QED
      BY <3>1, <3>2
  <2>7. Named' \subseteq (kept \cup contested)'
    BY <1>0, <2>2, <2>3
  <2>8. \A t \in Sessions : CallBacked(session'[t], (kept \cup contested)', Named')
    BY <2>2, <2>3, <2>4, <2>5
  <2>9. QED
    BY <2>1, <2>6, <2>7, <2>8 DEF RestoreInv, Active
<1>2. ASSUME NEW s \in Sessions, NEW r \in Runs, NEW p \in Snapshots, SaveCheckpoint(s, r, p)
      PROVE  RestoreInv'
  <2>1. BeginCall(s, "save", r, begun + 1, p) /\ begun + 1 \in Nat
    BY <1>0, <1>2 DEF SaveCheckpoint, RecordsTyped
  <2>2. QED
    BY <1>1, <2>1
<1>3. ASSUME NEW s \in Sessions, NEW r \in Runs, NEW id \in 1..begun, DeleteCheckpoint(s, r, id)
      PROVE  RestoreInv'
  <2>1. BeginCall(s, "delete", r, id, Nothing) /\ id \in Nat
    BY <1>0, <1>3 DEF DeleteCheckpoint, RecordsTyped
  <2>2. QED
    BY <1>1, <2>1, CheckpointAssumption
<1>4. ASSUME NEW s \in Sessions, LookUpBlob(s)
      PROVE  RestoreInv'
  <2>1. /\ RecordsTyped' /\ FilesStay /\ OthersStay(s) /\ session[s].pc = "look"
        /\ session'[s].pc = "put" \/ (session'[s].pc = "load" /\ session[s].payload \in kept)
        /\ session'[s].payload = session[s].payload /\ session'[s].alone = session[s].alone
    BY <1>0, <1>4, LookedUp
  <2>2. Named' = Named /\ kept' = kept /\ contested' = contested
    BY <2>1 DEF FilesStay, Named
  <2>3. CallBacked(session'[s], kept' \cup contested', Named') /\ Active(s)
    BY <2>1, <2>2 DEF CallBacked, Active
  <2>4. QED
    BY <1>0, <2>1, <2>2, <2>3, RestoreStep
<1>5. ASSUME NEW s \in Sessions, PutCheckpoint(s)
      PROVE  RestoreInv'
  <2>1. /\ RecordsTyped' /\ OthersStay(s) /\ kept' = kept \cup {session[s].payload}
        /\ registry' = registry /\ contested' = contested
        /\ session[s].pc = "put" /\ session'[s].pc = "load"
        /\ session'[s].payload = session[s].payload /\ session'[s].alone = session[s].alone
    BY <1>0, <1>5, PutCall
  <2>2. Named' = Named
    BY <2>1 DEF Named
  <2>3. CallBacked(session'[s], kept' \cup contested', Named') /\ Active(s)
    BY <2>1, <2>2 DEF CallBacked, Active
  <2>4. QED
    BY <1>0, <2>1, <2>2, <2>3, RestoreStep
<1>6. ASSUME NEW s \in Sessions, LoadRegistry(s)
      PROVE  RestoreInv'
  <2> DEFINE q == session[s]
             had == registry[q.run]
  <2>1. /\ RecordsTyped' /\ FilesStay /\ OthersStay(s)
        /\ q.pc = "load" /\ q.run \in Runs /\ had \in Seq(Recs) /\ q \in Jobs
        /\ (q.op = "save" <=> q.payload \in Snapshots)
        /\ \/ session'[s] = Quiet
           \/ /\ session'[s].pc = "write" /\ session'[s].alone = q.alone
              /\ \/ q.op = "save" /\ session'[s].records = Saved(had, q)
                 \/ q.op = "delete" /\ Deleted(had, q) # {} /\ session'[s].records = Retained(had, q)
    BY <1>0, <1>6, LoadedCall
  <2>2. Named' = Named /\ kept' = kept /\ contested' = contested
    BY <2>1 DEF FilesStay, Named
  <2>3. Payload(had) \subseteq kept \cup contested
    BY <1>0, <2>1, NamedPayloads
  <2>4. q.op = "save" => q.payload \in kept \cup contested
    BY <2>1 DEF RestoreInv, CallBacked
  <2> HIDE DEF q, had
  <2>5. session'[s].pc = "write" => Payload(session'[s].records) \subseteq kept \cup contested
    <3>1. ASSUME q.op = "save"
          PROVE  Payload(Saved(had, q)) \subseteq kept \cup contested
      BY <2>1, <2>3, <2>4, <3>1, SavedPayloads
    <3>2. ASSUME Deleted(had, q) # {}
          PROVE  Payload(Retained(had, q)) \subseteq kept \cup contested
      BY <2>1, <2>3, <3>2, RetainedPayloads
    <3>3. QED
      BY <2>1, <3>1, <3>2, QuietFields
  <2>6. CallBacked(session'[s], kept' \cup contested', Named') /\ Active(s)
    BY <2>1, <2>2, <2>5, QuietFields DEF CallBacked, Active, q
  <2>7. QED
    BY <1>0, <2>1, <2>2, <2>6, QuietFields, RestoreStep DEF q
<1>7. ASSUME NEW s \in Sessions, SaveRegistry(s)
      PROVE  RestoreInv'
  <2>1. /\ RecordsTyped' /\ OthersStay(s) /\ kept' = kept /\ contested' = contested
        /\ session[s].pc = "write" /\ session[s].run \in Runs
        /\ registry' = [registry EXCEPT ![session[s].run] = session[s].records]
        /\ session'[s] = Quiet \/ (session'[s].pc = "scan" /\ session'[s].alone = session[s].alone)
    BY <1>0, <1>7, WrittenCall
  <2>2. Named' \subseteq kept \cup contested
    <3>1. ASSUME NEW r \in Runs
          PROVE  Payload(registry'[r]) \subseteq kept \cup contested
      <4>1. CASE r = session[s].run
        <5>1. registry'[r] = session[s].records
          BY <1>0, <2>1, <4>1 DEF RecordsTyped
        <5>2. QED
          BY <2>1, <5>1 DEF RestoreInv, CallBacked
      <4>2. CASE r # session[s].run
        <5>1. registry'[r] = registry[r]
          BY <1>0, <2>1, <4>2 DEF RecordsTyped
        <5>2. QED
          BY <1>0, <5>1, NamedPayloads
      <4>3. QED
        BY <4>1, <4>2
    <3>2. Named' = UNION {Payload(registry'[r]) : r \in Runs}
      BY DEF Named, Payload
    <3>3. QED
      BY <3>1, <3>2
  <2>3. CallBacked(session'[s], kept' \cup contested', Named') /\ Active(s)
    BY <2>1, <1>q DEF CallBacked, Active
  <2>4. QED
    BY <1>0, <2>1, <2>2, <2>3, QuietFields, RestoreStep
<1>8. ASSUME NEW s \in Sessions, ScanRegistries(s)
      PROVE  RestoreInv'
  <2>1. /\ RecordsTyped' /\ FilesStay /\ OthersStay(s) /\ session[s].pc = "scan"
        /\ \/ session'[s] = Quiet
           \/ /\ session'[s].pc = "gc" /\ session'[s].alone = session[s].alone
              /\ session'[s].garbage = session[s].garbage \ Named
    BY <1>0, <1>8, ScannedCall
  <2>2. Named' = Named /\ kept' = kept /\ contested' = contested
    BY <2>1 DEF FilesStay, Named
  <2>3. CallBacked(session'[s], kept' \cup contested', Named') /\ Active(s)
    BY <2>1, <2>2, <1>q DEF CallBacked, Active
  <2>4. QED
    BY <1>0, <2>1, <2>2, <2>3, QuietFields, RestoreStep
<1>9. ASSUME NEW s \in Sessions, NEW p \in Snapshots, DeleteGarbage(s, p)
      PROVE  RestoreInv'
  <2>1. /\ RecordsTyped' /\ OthersStay(s) /\ registry' = registry
        /\ kept' = kept \ {p} /\ contested' = IF session[s].alone THEN contested ELSE contested \cup {p}
        /\ session[s].pc = "gc" /\ p \in session[s].garbage
        /\ \/ session'[s] = Quiet
           \/ /\ session'[s].pc = "gc" /\ session'[s].alone = session[s].alone
              /\ session'[s].garbage = session[s].garbage \ {p}
    BY <1>0, <1>9, DeletedCall
  <2>2. Named' = Named
    BY <2>1 DEF Named
  <2>3. CallBacked(session[s], kept \cup contested, Named)
    BY DEF RestoreInv
  <2>4. CallBacked(session'[s], kept' \cup contested', Named') /\ Active(s)
    BY <2>1, <2>2, <2>3, <1>q DEF CallBacked, Active
  <2>5. Named' \subseteq kept' \cup contested'
    <3>1. CASE session[s].alone
      BY <1>0, <2>1, <2>2, <2>3, <3>1 DEF CallBacked
    <3>2. CASE ~ session[s].alone
      BY <1>0, <2>1, <2>2, <3>2
    <3>3. QED
      BY <3>1, <3>2
  <2>6. kept \cup contested \subseteq kept' \cup contested' \/ session[s].alone
    BY <2>1
  <2>7. QED
    BY <1>0, <2>1, <2>4, <2>5, <2>6, QuietFields, RestoreStep
<1>10. ASSUME NEW s \in Sessions, CutShort(s)
       PROVE  RestoreInv'
  <2>1. /\ RecordsTyped' /\ OthersStay(s) /\ session'[s] = Quiet /\ Active(s)
        /\ kept' = kept /\ registry' = registry /\ contested' = contested
    BY <1>0, <1>10, CutCall
  <2>2. Named' = Named
    BY <2>1 DEF Named
  <2>3. QED
    BY <1>0, <1>q, <2>1, <2>2, QuietFields, RestoreStep
<1>11. CASE UNCHANGED checkpointVars
  <2>1. /\ kept' = kept /\ registry' = registry /\ session' = session /\ begun' = begun /\ contested' = contested
        /\ registered' = registered /\ mixed' = mixed /\ residue' = residue
    BY <1>11 DEF checkpointVars
  <2>2. RecordsTyped' /\ Named' = Named
    BY <1>0, <2>1 DEF RecordsTyped, Named
  <2>3. QED
    BY <2>1, <2>2 DEF RestoreInv, Active
<1>12. QED
  BY <1>2, <1>3, <1>4, <1>5, <1>6, <1>7, <1>8, <1>9, <1>10, <1>11 DEF CheckpointNext, CheckpointStep

LEMMA RecordsStart == CheckpointInit => RecordsTyped
<1> SUFFICES ASSUME CheckpointInit PROVE RecordsTyped
  OBVIOUS
<1> DEFINE none == <<>>
<1>1. none \in Seq(Recs) /\ none \in Seq(Nat)
  OBVIOUS
<1>2. registry = [r \in Runs |-> none] /\ registered = [r \in Runs |-> none]
  BY DEF CheckpointInit
<1> HIDE DEF none
<1>3. registry \in [Runs -> Seq(Recs)] /\ registered \in [Runs -> Seq(Nat)]
  BY <1>1, <1>2
<1>4. session \in [Sessions -> Jobs] /\ \A s \in Sessions : session[s] = Quiet
  BY QuietFields DEF CheckpointInit
<1>5. QED
  BY <1>3, <1>4, QuietFields DEF RecordsTyped, CheckpointInit

\* Every checkpoint a registry lists can be loaded, whatever calls interleave
\* and wherever they end, unless a call that ran beside another deleted its blob.
THEOREM ListedStayRestorable == CheckpointSpec => []ListedRestorable
<1>1. CheckpointInit => RestoreInv
  <2> SUFFICES ASSUME CheckpointInit PROVE RestoreInv
    OBVIOUS
  <2>1. RecordsTyped /\ \A s \in Sessions : session[s] = Quiet
    BY RecordsStart DEF CheckpointInit
  <2>2. Named = {}
    BY DEF CheckpointInit, Named
  <2>3. QED
    BY <2>1, <2>2, QuietFields DEF RestoreInv, CallBacked, Active
<1>2. RestoreInv => ListedRestorable
  <2> SUFFICES ASSUME RestoreInv, NEW r \in Runs, NEW id, NEW rec \in FindRecord(r, id)
               PROVE  Restorable(rec) \/ rec.payload \in contested
    BY DEF ListedRestorable
  <2>1. rec.payload \in Named
    BY DEF FindRecord, Named
  <2>2. QED
    BY <2>1 DEF RestoreInv, Restorable
<1>3. QED
  BY <1>1, <1>2, RestoreKept, PTL DEF CheckpointSpec

-----------------------------------------------------------------------------
(* What is stored is listed, or somebody still gives it up.                  *)
Owed(q) == (IF q.pc \in {"look", "put", "load", "write"} THEN {q.payload} ELSE {})
           \cup (IF q.pc = "idle" THEN {} ELSE q.garbage)

\* What a call has not yet taken over, it accounts for.
AccountsFor(q) ==
  /\ q.pc \in {"look", "put", "load"} => q.garbage = {}
  /\ q.pc = "write" => /\ PayloadsOf(q.read) \subseteq Payload(q.records) \cup q.garbage
                       /\ q.op = "save" => q.payload \in Payload(q.records)

OrphanInv ==
  /\ RecordsTyped
  /\ kept \subseteq Named \cup residue \cup UNION {Owed(session[s]) : s \in Sessions}
  /\ \A s \in Sessions : AccountsFor(session[s])

LEMMA OrphanStep ==
  ASSUME OrphanInv, RecordsTyped', NEW s \in Sessions, OthersStay(s), AccountsFor(session'[s]),
         \A p \in kept' :
           \/ p \in Named' \cup residue' \cup Owed(session'[s])
           \/ p \in kept /\ p \notin Named \cup residue \cup Owed(session[s])
  PROVE  OrphanInv'
<1>1. ASSUME NEW t \in Sessions
      PROVE  AccountsFor(session'[t])
  BY DEF OthersStay, OrphanInv
<1>2. ASSUME NEW p \in kept', p \notin Named' \cup residue'
      PROVE  \E t \in Sessions : p \in Owed(session'[t])
  <2>1. CASE p \in Owed(session'[s])
    BY <2>1
  <2>2. CASE p \in kept /\ p \notin Named \cup residue \cup Owed(session[s])
    <3>1. PICK t \in Sessions : p \in Owed(session[t])
      BY <2>2 DEF OrphanInv
    <3>2. session'[t] = session[t]
      BY <2>2, <3>1 DEF OthersStay
    <3>3. QED
      BY <3>1, <3>2
  <2>3. QED
    BY <1>2, <2>1, <2>2
<1>3. kept' \subseteq Named' \cup residue' \cup UNION {Owed(session'[t]) : t \in Sessions}
  BY <1>2
<1>4. QED
  BY <1>1, <1>3 DEF OrphanInv

LEMMA OrphanKept == OrphanInv /\ [CheckpointNext]_checkpointVars => OrphanInv'
<1> SUFFICES ASSUME OrphanInv, [CheckpointNext]_checkpointVars PROVE OrphanInv'
  OBVIOUS
<1>0. RecordsTyped
  BY DEF OrphanInv
<1>q. AccountsFor(Quiet) /\ Owed(Quiet) = {}
  BY QuietFields DEF AccountsFor, Owed
<1>1. ASSUME NEW s \in Sessions, NEW op \in {"save", "delete"}, NEW r \in Runs, NEW id \in Nat,
             NEW p \in Snapshots \cup {Nothing}, op = "save" <=> p \in Snapshots, BeginCall(s, op, r, id, p)
      PROVE  OrphanInv'
  <2>1. /\ RecordsTyped' /\ session[s] = Quiet
        /\ session'[s].pc = IF op = "save" THEN "look" ELSE "load"
        /\ session'[s].garbage = {}
        /\ \A t \in Sessions \ {s} : SameSession(session'[t], session[t])
    <3>1. BegunAs(s, op, r, id, p)
      BY <1>0, <1>1, BegunCall
    <3>2. QED
      BY <3>1 DEF BegunAs
  <2>2. Named' = Named /\ kept' = kept /\ residue' = residue
    <3>1. registry' = registry /\ kept' = kept /\ residue' = residue
      BY <1>1 DEF BeginCall
    <3>2. QED
      BY <3>1 DEF Named
  <2>3. AccountsFor(session'[s])
    BY <2>1 DEF AccountsFor
  <2>4. ASSUME NEW t \in Sessions \ {s}
        PROVE  AccountsFor(session'[t]) /\ Owed(session'[t]) = Owed(session[t])
    <3>1. SameSession(session'[t], session[t]) /\ AccountsFor(session[t])
      BY <2>1 DEF OrphanInv
    <3>2. QED
      BY <3>1 DEF SameSession, AccountsFor, Owed
  <2>5. ASSUME NEW x \in kept', x \notin Named' \cup residue'
        PROVE  \E t \in Sessions : x \in Owed(session'[t])
    <3>1. PICK t \in Sessions : x \in Owed(session[t])
      BY <2>2, <2>5 DEF OrphanInv
    <3>2. t # s
      BY <2>1, <1>q, <3>1
    <3>3. QED
      BY <2>4, <3>1, <3>2
  <2>6. kept' \subseteq Named' \cup residue' \cup UNION {Owed(session'[t]) : t \in Sessions}
    BY <2>5
  <2>7. QED
    BY <2>1, <2>3, <2>4, <2>6 DEF OrphanInv
<1>2. ASSUME NEW s \in Sessions, NEW r \in Runs, NEW p \in Snapshots, SaveCheckpoint(s, r, p)
      PROVE  OrphanInv'
  <2>1. BeginCall(s, "save", r, begun + 1, p) /\ begun + 1 \in Nat
    BY <1>0, <1>2 DEF SaveCheckpoint, RecordsTyped
  <2>2. QED
    BY <1>1, <2>1
<1>3. ASSUME NEW s \in Sessions, NEW r \in Runs, NEW id \in 1..begun, DeleteCheckpoint(s, r, id)
      PROVE  OrphanInv'
  <2>1. BeginCall(s, "delete", r, id, Nothing) /\ id \in Nat
    BY <1>0, <1>3 DEF DeleteCheckpoint, RecordsTyped
  <2>2. QED
    BY <1>1, <2>1, CheckpointAssumption
<1>a. \A s \in Sessions : AccountsFor(session[s])
  BY DEF OrphanInv
<1>4. ASSUME NEW s \in Sessions, LookUpBlob(s)
      PROVE  OrphanInv'
  <2>1. /\ RecordsTyped' /\ FilesStay /\ OthersStay(s) /\ session[s].pc = "look"
        /\ session'[s].pc \in {"put", "load"} /\ session'[s].garbage = session[s].garbage
        /\ session'[s].payload = session[s].payload
    BY <1>0, <1>4, LookedUp
  <2>2. Named' = Named /\ kept' = kept /\ residue' = residue
    BY <2>1 DEF FilesStay, Named
  <2>3. AccountsFor(session[s])
    BY <1>a
  <2>4. AccountsFor(session'[s]) /\ Owed(session'[s]) = Owed(session[s])
    BY <2>1, <2>3 DEF AccountsFor, Owed
  <2>5. QED
    BY <2>1, <2>2, <2>4, OrphanStep
<1>5. ASSUME NEW s \in Sessions, PutCheckpoint(s)
      PROVE  OrphanInv'
  <2>1. /\ RecordsTyped' /\ OthersStay(s) /\ kept' = kept \cup {session[s].payload}
        /\ registry' = registry /\ residue' = residue
        /\ session[s].pc = "put" /\ session'[s].pc = "load"
        /\ session'[s].payload = session[s].payload /\ session'[s].garbage = session[s].garbage
    BY <1>0, <1>5, PutCall
  <2>2. Named' = Named
    BY <2>1 DEF Named
  <2>3. AccountsFor(session[s])
    BY <1>a
  <2>4. AccountsFor(session'[s]) /\ Owed(session'[s]) = Owed(session[s]) /\ session[s].payload \in Owed(session[s])
    BY <2>1, <2>3 DEF AccountsFor, Owed
  <2>5. QED
    BY <2>1, <2>2, <2>4, OrphanStep
<1>6. ASSUME NEW s \in Sessions, LoadRegistry(s)
      PROVE  OrphanInv'
  <2> DEFINE q == session[s]
             had == registry[q.run]
             q2 == session'[s]
  <2>1. /\ RecordsTyped' /\ FilesStay /\ OthersStay(s)
        /\ q.pc = "load" /\ q.run \in Runs /\ had \in Seq(Recs) /\ q \in Jobs
        /\ (q.op = "save" <=> q.payload \in Snapshots)
        /\ q.op = "delete" => q.payload = Nothing
        /\ \/ q2 = Quiet /\ q.op = "delete"
           \/ /\ q2.pc = "write" /\ q2.payload = q.payload /\ q2.op = q.op /\ q2.read = ToSet(had)
              /\ \/ q.op = "save" /\ q2.records = Saved(had, q) /\ q2.garbage = Evicted(had, q)
                 \/ q.op = "delete" /\ Deleted(had, q) # {} /\ q2.records = Retained(had, q)
                    /\ q2.garbage = Deleted(had, q)
    BY <1>0, <1>6, LoadedCall
  <2>2. Named' = Named /\ kept' = kept /\ residue' = residue /\ kept \subseteq Snapshots
    BY <1>0, <2>1 DEF FilesStay, Named, RecordsTyped
  <2>3. q.garbage = {}
    BY <1>a, <2>1 DEF AccountsFor
  <2>4. Payload(had) = PayloadsOf(ToSet(had))
    BY <2>1, PayloadPlaces
  <2> HIDE DEF q, had, q2
  <2>5. CASE q2 = Quiet /\ q.op = "delete"
    <3>1. Owed(q) \subseteq {Nothing}
      BY <2>1, <2>3, <2>5 DEF Owed
    <3>2. \A p \in kept' : p \in kept /\ p \notin Owed(q)
      BY <2>2, <3>1, CheckpointAssumption
    <3>3. QED
      BY <1>q, <2>1, <2>2, <2>5, <3>2, OrphanStep DEF q, q2
  <2>6. CASE q2.pc = "write"
    <3>1. PayloadsOf(q2.read) \subseteq Payload(q2.records) \cup q2.garbage
      <4>1. ASSUME q.op = "save"
            PROVE  Payload(had) \subseteq Payload(Saved(had, q)) \cup Evicted(had, q)
        BY <2>1, <4>1, SavedPayloads
      <4>2. ASSUME Deleted(had, q) # {}
            PROVE  Payload(had) \subseteq Payload(Retained(had, q)) \cup Deleted(had, q)
        BY <2>1, <4>2, RetainedPayloads
      <4>3. QED
        BY <2>1, <2>4, <2>6, <4>1, <4>2, QuietFields
    <3>2. q2.op = "save" => q2.payload \in Payload(q2.records)
      <4>1. ASSUME q.op = "save"
            PROVE  q.payload \in Payload(Saved(had, q))
        BY <2>1, <4>1, SavedPayloads
      <4>2. QED
        BY <2>1, <2>6, <4>1, QuietFields
    <3>3. AccountsFor(q2)
      BY <2>6, <3>1, <3>2 DEF AccountsFor
    <3>4. Owed(q) \subseteq Owed(q2)
      BY <2>1, <2>3, <2>6, QuietFields DEF Owed
    <3>5. QED
      BY <2>1, <2>2, <3>3, <3>4, OrphanStep DEF q, q2
  <2>7. QED
    BY <2>1, <2>5, <2>6
<1>7. ASSUME NEW s \in Sessions, SaveRegistry(s)
      PROVE  OrphanInv'
  <2> DEFINE q == session[s]
             q2 == session'[s]
             had == registry[q.run]
  <2>1. /\ RecordsTyped' /\ OthersStay(s) /\ kept' = kept
        /\ q.pc = "write" /\ q.run \in Runs /\ had \in Seq(Recs) /\ q \in Jobs
        /\ (q.op = "save" <=> q.payload \in Snapshots)
        /\ registry' = [registry EXCEPT ![q.run] = q.records]
        /\ residue' = residue \cup {rec.payload : rec \in ToSet(had) \ q.read}
        /\ \/ q2 = Quiet /\ q.garbage = {}
           \/ q2.pc = "scan" /\ q2.garbage = q.garbage
    BY <1>0, <1>7, WrittenCall
  <2>2. /\ PayloadsOf(q.read) \subseteq Payload(q.records) \cup q.garbage
        /\ q.op = "save" => q.payload \in Payload(q.records)
    BY <1>a, <2>1 DEF AccountsFor
  <2>3. Payload(had) = PayloadsOf(ToSet(had))
    BY <2>1, PayloadPlaces
  <2>4. /\ Named = UNION {Payload(registry[r]) : r \in Runs}
        /\ Named' = UNION {Payload(registry'[r]) : r \in Runs}
    BY DEF Named, Payload
  <2>5. /\ registry'[q.run] = q.records
        /\ \A r \in Runs : r # q.run => registry'[r] = registry[r]
    BY <1>0, <2>1 DEF RecordsTyped
  <2> HIDE DEF q, q2, had
  <2>6. Payload(q.records) \subseteq Named'
    BY <2>1, <2>4, <2>5
  <2>7. Payload(had) \subseteq Named' \cup residue' \cup q.garbage
    <3>1. Payload(had) \subseteq PayloadsOf(q.read) \cup {rec.payload : rec \in ToSet(had) \ q.read}
      BY <2>3 DEF PayloadsOf
    <3>2. QED
      BY <2>1, <2>2, <2>6, <3>1
  <2>8. Named \subseteq Named' \cup residue' \cup q.garbage
    <3>1. ASSUME NEW r \in Runs
          PROVE  Payload(registry[r]) \subseteq Named' \cup residue' \cup q.garbage
      <4>1. CASE r = q.run
        BY <2>7, <4>1 DEF had
      <4>2. CASE r # q.run
        BY <2>4, <2>5, <4>2
      <4>3. QED
        BY <4>1, <4>2
    <3>2. QED
      BY <2>4, <3>1
  <2>9. q.garbage \subseteq Owed(q2)
    BY <2>1 DEF Owed
  <2>10. \A p \in kept' : p \in Owed(q) => p \in Named' \cup Owed(q2)
    <3>1. kept' \subseteq Snapshots
      BY <1>0, <2>1 DEF RecordsTyped
    <3>2. Owed(q) = {q.payload} \cup q.garbage
      BY <2>1 DEF Owed
    <3>3. q.payload \in Snapshots => q.payload \in Named'
      BY <2>1, <2>2, <2>6
    <3>4. QED
      BY <2>9, <3>1, <3>2, <3>3
  <2>11. AccountsFor(q2)
    BY <1>q, <2>1 DEF AccountsFor
  <2>12. residue \subseteq residue'
    BY <2>1
  <2>13. \A p \in kept' : \/ p \in Named' \cup residue' \cup Owed(q2)
                          \/ p \in kept /\ p \notin Named \cup residue \cup Owed(q)
    BY <2>1, <2>8, <2>9, <2>10, <2>12
  <2>14. QED
    BY <2>1, <2>11, <2>13, OrphanStep DEF q, q2
<1>8. ASSUME NEW s \in Sessions, ScanRegistries(s)
      PROVE  OrphanInv'
  <2>1. /\ RecordsTyped' /\ FilesStay /\ OthersStay(s) /\ session[s].pc = "scan"
        /\ \/ session'[s] = Quiet /\ session[s].garbage \subseteq Named
           \/ session'[s].pc = "gc" /\ session'[s].garbage = session[s].garbage \ Named
    BY <1>0, <1>8, ScannedCall
  <2>2. Named' = Named /\ kept' = kept /\ residue' = residue
    BY <2>1 DEF FilesStay, Named
  <2>3. AccountsFor(session'[s])
    BY <2>1, <1>q DEF AccountsFor
  <2>4. Owed(session[s]) \subseteq Named \cup Owed(session'[s])
    BY <2>1 DEF Owed
  <2>5. QED
    BY <2>1, <2>2, <2>3, <2>4, OrphanStep
<1>9. ASSUME NEW s \in Sessions, NEW p \in Snapshots, DeleteGarbage(s, p)
      PROVE  OrphanInv'
  <2>1. /\ RecordsTyped' /\ OthersStay(s) /\ registry' = registry /\ residue' = residue
        /\ kept' = kept \ {p} /\ session[s].pc = "gc"
        /\ \/ session'[s] = Quiet /\ session[s].garbage = {p}
           \/ session'[s].pc = "gc" /\ session'[s].garbage = session[s].garbage \ {p}
    BY <1>0, <1>9, DeletedCall
  <2>2. Named' = Named
    BY <2>1 DEF Named
  <2>3. AccountsFor(session'[s])
    BY <2>1, <1>q DEF AccountsFor
  <2>4. Owed(session[s]) \subseteq {p} \cup Owed(session'[s])
    BY <2>1 DEF Owed
  <2>5. QED
    BY <2>1, <2>2, <2>3, <2>4, OrphanStep
<1>10. ASSUME NEW s \in Sessions, CutShort(s)
       PROVE  OrphanInv'
  <2>1. /\ RecordsTyped' /\ OthersStay(s) /\ session'[s] = Quiet /\ kept' = kept /\ registry' = registry
        /\ residue' = residue \cup (({session[s].payload} \cup session[s].garbage) \ {Nothing})
    BY <1>0, <1>10, CutCall
  <2>2. Named' = Named /\ kept' \subseteq Snapshots
    BY <1>0, <2>1 DEF Named, RecordsTyped
  <2>3. Owed(session[s]) \subseteq {session[s].payload} \cup session[s].garbage
    BY DEF Owed
  <2>4. \A p \in kept' : p \in Owed(session[s]) => p \in residue'
    BY <2>1, <2>2, <2>3, CheckpointAssumption
  <2>5. QED
    BY <1>q, <2>1, <2>2, <2>4, OrphanStep
<1>11. CASE UNCHANGED checkpointVars
  <2>1. /\ kept' = kept /\ registry' = registry /\ session' = session /\ begun' = begun /\ contested' = contested
        /\ registered' = registered /\ mixed' = mixed /\ residue' = residue
    BY <1>11 DEF checkpointVars
  <2>2. RecordsTyped' /\ Named' = Named
    BY <1>0, <2>1 DEF RecordsTyped, Named
  <2>3. QED
    BY <2>1, <2>2 DEF OrphanInv
<1>12. QED
  BY <1>2, <1>3, <1>4, <1>5, <1>6, <1>7, <1>8, <1>9, <1>10, <1>11 DEF CheckpointNext, CheckpointStep

-----------------------------------------------------------------------------
(* What is registered stays.                                                *)
\* The checkpoints `ids` of a run, in the order they were registered, against the
\* records the run has: each is there unless deleted or pushed out, and none is
\* further from the end of the file than it is from the last registered.
Tracks(have, ids, gone) ==
  \A i \in 1..Len(ids) :
    /\ \/ ids[i] \in gone
       \/ MaxCheckpoints > 0 /\ Len(ids) - i >= MaxCheckpoints
       \/ \E j \in 1..Len(have) : have[j].id = ids[i]
    /\ \A j \in 1..Len(have) : have[j].id = ids[i] => Len(have) - j <= Len(ids) - i

LEMMA SavedTracks ==
  ASSUME NEW had \in Seq(Recs), NEW ids \in Seq(Nat), NEW gone, NEW q \in Jobs, q.payload \in Snapshots,
         Tracks(had, ids, gone), \A j \in 1..Len(had) : had[j].id # q.id
  PROVE  Tracks(Saved(had, q), Append(ids, q.id), gone)
<1> DEFINE n == Len(had)
           m == Len(ids)
           new == Saved(had, q)
           all == Append(ids, q.id)
<1>1. PICK k \in 0..n :
           /\ Len(new) = n + 1 - k /\ \A i \in 1..n - k : new[i] = had[i + k]
           /\ new[n + 1 - k].id = q.id
           /\ k = 0 \/ (MaxCheckpoints > 0 /\ n + 1 = MaxCheckpoints + k)
  BY SavedFields
<1>2. /\ n \in Nat /\ m \in Nat /\ Len(all) = m + 1 /\ all[m + 1] = q.id
      /\ \A i \in 1..m : all[i] = ids[i]
  BY DEF Jobs
<1>3. /\ \A i \in 1..m :
           /\ \/ ids[i] \in gone
              \/ MaxCheckpoints > 0 /\ m - i >= MaxCheckpoints
              \/ \E j \in 1..n : had[j].id = ids[i]
           /\ \A j \in 1..n : had[j].id = ids[i] => n - j <= m - i
      /\ \A j \in 1..n : had[j].id # q.id
  BY DEF Tracks
<1> HIDE DEF n, m, new, all
<1>4. ASSUME NEW i \in 1..m
      PROVE  \/ all[i] \in gone
             \/ MaxCheckpoints > 0 /\ (m + 1) - i >= MaxCheckpoints
             \/ \E j \in 1..n + 1 - k : new[j].id = all[i]
  <2>1. CASE ids[i] \in gone
    BY <1>2, <2>1
  <2>2. CASE MaxCheckpoints > 0 /\ m - i >= MaxCheckpoints
    BY <1>2, <2>2, CheckpointAssumption
  <2>3. ASSUME NEW j \in 1..n, had[j].id = ids[i]
        PROVE  \/ MaxCheckpoints > 0 /\ (m + 1) - i >= MaxCheckpoints
               \/ \E l \in 1..n + 1 - k : new[l].id = all[i]
    <3>1. CASE j <= k
      <4>1. n - j <= m - i /\ k # 0
        BY <1>2, <1>3, <2>3, <3>1
      <4>2. MaxCheckpoints > 0 /\ n + 1 = MaxCheckpoints + k
        BY <1>1, <4>1
      <4>3. QED
        BY <1>2, <3>1, <4>1, <4>2, CheckpointAssumption
    <3>2. CASE j > k
      <4>1. j - k \in 1..n - k /\ (j - k) + k = j /\ j - k \in 1..n + 1 - k
        BY <1>2, <3>2
      <4>2. new[j - k] = had[j]
        BY <1>1, <4>1
      <4>3. QED
        BY <1>2, <2>3, <4>1, <4>2
    <3>3. QED
      BY <1>2, <3>1, <3>2
  <2>4. QED
    BY <1>3, <2>1, <2>2, <2>3
<1>5. ASSUME NEW i \in 1..m + 1, NEW j \in 1..n + 1 - k, new[j].id = all[i]
      PROVE  (n + 1 - k) - j <= (m + 1) - i
  <2>1. CASE j = n + 1 - k
    BY <1>2, <2>1
  <2>2. CASE j # n + 1 - k
    <3>1. j \in 1..n - k /\ j + k \in 1..n
      BY <1>2, <2>2
    <3>2. new[j] = had[j + k]
      BY <1>1, <3>1
    <3>3. i # m + 1
      BY <1>2, <1>3, <1>5, <3>1, <3>2
    <3>4. i \in 1..m
      BY <1>2, <3>3
    <3>5. had[j + k].id = ids[i]
      BY <1>2, <1>5, <3>2, <3>4
    <3>6. n - (j + k) <= m - i
      BY <1>3, <3>1, <3>4, <3>5
    <3>7. QED
      BY <1>2, <3>1, <3>4, <3>6
  <2>3. QED
    BY <2>1, <2>2
<1>6. \E j \in 1..n + 1 - k : new[j].id = all[m + 1]
  <2>1. n + 1 - k \in 1..n + 1 - k
    BY <1>2
  <2>2. QED
    BY <1>1, <1>2, <2>1
<1>7. ASSUME NEW i \in 1..m + 1
      PROVE  /\ \/ all[i] \in gone
                \/ MaxCheckpoints > 0 /\ (m + 1) - i >= MaxCheckpoints
                \/ \E j \in 1..n + 1 - k : new[j].id = all[i]
             /\ \A j \in 1..n + 1 - k : new[j].id = all[i] => (n + 1 - k) - j <= (m + 1) - i
  <2>1. i \in 1..m \/ i = m + 1
    BY <1>2
  <2>2. QED
    BY <1>4, <1>5, <1>6, <2>1
<1>8. QED
  BY <1>1, <1>2, <1>7 DEF Tracks, new, all

LEMMA RetainedTracks ==
  ASSUME NEW had \in Seq(Recs), NEW ids \in Seq(Nat), NEW gone, NEW q \in Jobs, Deleted(had, q) # {},
         Tracks(had, ids, gone)
  PROVE  Tracks(Retained(had, q), ids, gone \cup {q.id})
<1> DEFINE n == Len(had)
           m == Len(ids)
           new == Retained(had, q)
<1>1. PICK k \in 1..n :
           /\ had[k].id = q.id /\ Len(new) = n - 1
           /\ \A i \in 1..n - 1 : new[i] = IF i < k THEN had[i] ELSE had[i + 1]
  BY RetainedFields
<1>2. n \in Nat /\ m \in Nat
  OBVIOUS
<1>3. \A i \in 1..m :
        /\ \/ ids[i] \in gone
           \/ MaxCheckpoints > 0 /\ m - i >= MaxCheckpoints
           \/ \E j \in 1..n : had[j].id = ids[i]
        /\ \A j \in 1..n : had[j].id = ids[i] => n - j <= m - i
  BY DEF Tracks
<1> HIDE DEF n, m, new
<1>4. ASSUME NEW i \in 1..m, NEW j \in 1..n, had[j].id = ids[i], ids[i] # q.id
      PROVE  \E l \in 1..n - 1 : new[l].id = ids[i]
  <2>1. CASE j < k
    <3>1. j \in 1..n - 1
      BY <1>2, <2>1
    <3>2. new[j] = had[j]
      BY <1>1, <2>1, <3>1
    <3>3. QED
      BY <1>4, <3>1, <3>2
  <2>2. CASE j > k
    <3>1. j - 1 \in 1..n - 1 /\ (j - 1) + 1 = j /\ ~ (j - 1 < k)
      BY <1>2, <2>2
    <3>2. new[j - 1] = had[j]
      BY <1>1, <3>1
    <3>3. QED
      BY <1>4, <3>1, <3>2
  <2>3. j # k
    BY <1>1, <1>4
  <2>4. QED
    BY <1>2, <2>1, <2>2, <2>3
<1>5. ASSUME NEW i \in 1..m, NEW j \in 1..n - 1, new[j].id = ids[i]
      PROVE  (n - 1) - j <= m - i
  <2>1. CASE j < k
    <3>1. j \in 1..n /\ had[j].id = ids[i]
      BY <1>1, <1>2, <1>5, <2>1
    <3>2. n - j <= m - i
      BY <1>3, <3>1
    <3>3. QED
      BY <1>2, <3>2
  <2>2. CASE ~ (j < k)
    <3>1. j + 1 \in 1..n /\ had[j + 1].id = ids[i]
      BY <1>1, <1>2, <1>5, <2>2
    <3>2. n - (j + 1) <= m - i
      BY <1>3, <3>1
    <3>3. QED
      BY <1>2, <3>2
  <2>3. QED
    BY <2>1, <2>2
<1>6. ASSUME NEW i \in 1..m
      PROVE  \/ ids[i] \in gone \cup {q.id}
             \/ MaxCheckpoints > 0 /\ m - i >= MaxCheckpoints
             \/ \E j \in 1..n - 1 : new[j].id = ids[i]
  BY <1>3, <1>4
<1>7. QED
  BY <1>1, <1>5, <1>6 DEF Tracks, new, m

\* The ids and the payload of a call are all that its lists depend on.
LEMMA SameLists ==
  ASSUME NEW records, NEW q, NEW p, q.id = p.id, q.payload = p.payload
  PROVE  /\ Saved(records, q) = Saved(records, p) /\ Retained(records, q) = Retained(records, p)
         /\ Deleted(records, q) = Deleted(records, p)
  BY DEF Saved, Pushed, Overflow, Retained, Deleted

IdsUpTo(records, n) == \A j \in 1..Len(records) : records[j].id <= n

LEMMA WrittenIds ==
  ASSUME NEW had \in Seq(Recs), NEW q \in Jobs, NEW n \in Nat, IdsUpTo(had, n), q.id <= n
  PROVE  /\ q.payload \in Snapshots => IdsUpTo(Saved(had, q), n)
         /\ Deleted(had, q) # {} => IdsUpTo(Retained(had, q), n)
<1>1. ASSUME q.payload \in Snapshots PROVE IdsUpTo(Saved(had, q), n)
  <2> DEFINE m == Len(had)
             new == Saved(had, q)
  <2>1. PICK k \in 0..m :
             /\ Len(new) = m + 1 - k /\ \A i \in 1..m - k : new[i] = had[i + k]
             /\ new[m + 1 - k].id = q.id
    BY <1>1, SavedFields
  <2>2. m \in Nat /\ \A j \in 1..m : had[j].id <= n
    BY DEF IdsUpTo
  <2> HIDE DEF m, new
  <2>3. ASSUME NEW j \in 1..m + 1 - k
        PROVE  new[j].id <= n
    <3>1. CASE j = m + 1 - k
      BY <2>1, <3>1
    <3>2. CASE j # m + 1 - k
      <4>1. j \in 1..m - k /\ j + k \in 1..m
        BY <2>2, <3>2
      <4>2. QED
        BY <2>1, <2>2, <4>1
    <3>3. QED
      BY <3>1, <3>2
  <2>4. QED
    BY <2>1, <2>3 DEF IdsUpTo, new
<1>2. ASSUME Deleted(had, q) # {} PROVE IdsUpTo(Retained(had, q), n)
  <2> DEFINE m == Len(had)
             new == Retained(had, q)
  <2>1. PICK k \in 1..m :
             /\ Len(new) = m - 1
             /\ \A i \in 1..m - 1 : new[i] = IF i < k THEN had[i] ELSE had[i + 1]
    BY <1>2, RetainedFields
  <2>2. m \in Nat /\ \A j \in 1..m : had[j].id <= n
    BY DEF IdsUpTo
  <2> HIDE DEF m, new
  <2>3. ASSUME NEW j \in 1..m - 1
        PROVE  new[j].id <= n
    <3>1. j \in 1..m /\ j + 1 \in 1..m
      BY <2>2
    <3>2. CASE j < k
      BY <2>1, <2>2, <3>1, <3>2
    <3>3. CASE ~ (j < k)
      BY <2>1, <2>2, <3>1, <3>3
    <3>4. QED
      BY <3>2, <3>3
  <2>4. QED
    BY <2>1, <2>3 DEF IdsUpTo, new
<1>3. QED
  BY <1>1, <1>2

\* What a call is about to write, on a run that no other call is in.
Orderly(q, n, mix, reg) ==
  /\ q.id <= n
  /\ q.pc = "write" => IdsUpTo(q.records, n)
  /\ q.pc # "idle" /\ q.run \notin mix =>
       /\ q.op = "save" /\ q.pc \in {"look", "put", "load", "write"} =>
            \A j \in 1..Len(reg[q.run]) : reg[q.run][j].id # q.id
       /\ q.pc = "write" /\ q.op = "save" => q.records = Saved(reg[q.run], q)
       /\ q.pc = "write" /\ q.op = "delete" => /\ Deleted(reg[q.run], q) # {}
                                               /\ q.records = Retained(reg[q.run], q)

NewestInv ==
  /\ RecordsTyped
  /\ \A s, t \in Sessions :
       s # t /\ Active(s) /\ Active(t) /\ session[s].run = session[t].run => session[s].run \in mixed
  /\ \A r \in Runs : IdsUpTo(registry[r], begun)
  /\ \A s \in Sessions : Orderly(session[s], begun, mixed, registry)
  /\ \A r \in Runs \ mixed : Tracks(registry[r], registered[r], removed)

LEMMA TracksMore ==
  ASSUME NEW have, NEW ids, NEW gone, NEW more, gone \subseteq more, Tracks(have, ids, gone)
  PROVE  Tracks(have, ids, more)
  BY DEF Tracks

LEMMA NewestStep ==
  ASSUME NewestInv, RecordsTyped', NEW s \in Sessions, Active(s), OthersStay(s), begun' = begun, mixed' = mixed,
         session'[s].pc # "idle" => session'[s].run = session[s].run,
         \A r \in Runs \ {session[s].run} : registry'[r] = registry[r] /\ registered'[r] = registered[r],
         removed \subseteq removed', IdsUpTo(registry'[session[s].run], begun),
         session[s].run \notin mixed =>
           Tracks(registry'[session[s].run], registered'[session[s].run], removed'),
         Orderly(session'[s], begun, mixed, registry')
  PROVE  NewestInv'
<1>1. ASSUME NEW t \in Sessions \ {s}
      PROVE  session'[t] = session[t] /\ Orderly(session'[t], begun', mixed', registry')
  <2>1. session'[t] = session[t] /\ Orderly(session[t], begun, mixed, registry)
    BY DEF OthersStay, NewestInv
  <2>2. CASE Active(t) /\ session[t].run \notin mixed
    <3>1. session[t].run \in Runs \ {session[s].run}
      BY <2>2 DEF NewestInv, RecordsTyped, Proper, Active
    <3>2. registry'[session[t].run] = registry[session[t].run]
      BY <3>1
    <3>3. QED
      BY <2>1, <3>2 DEF Orderly
  <2>3. CASE ~ (Active(t) /\ session[t].run \notin mixed)
    BY <2>1, <2>3 DEF Orderly, Active
  <2>4. QED
    BY <2>1, <2>2, <2>3
<1>2. \A t \in Sessions : Orderly(session'[t], begun', mixed', registry')
  BY <1>1
<1>3. ASSUME NEW t \in Sessions, NEW u \in Sessions, t # u,
             session'[t].pc # "idle", session'[u].pc # "idle", session'[t].run = session'[u].run
      PROVE  session'[t].run \in mixed'
  <2>1. ASSUME NEW w \in Sessions, session'[w].pc # "idle"
        PROVE  Active(w) /\ session'[w].run = session[w].run
    BY <1>1, <2>1 DEF Active
  <2>2. QED
    BY <1>3, <2>1 DEF NewestInv
<1>4. \A r \in Runs : IdsUpTo(registry'[r], begun')
  BY DEF NewestInv
<1>5. ASSUME NEW r \in Runs \ mixed'
      PROVE  Tracks(registry'[r], registered'[r], removed')
  <2>1. CASE r = session[s].run
    BY <1>5, <2>1
  <2>2. CASE r # session[s].run
    <3>1. Tracks(registry[r], registered[r], removed)
      BY <1>5 DEF NewestInv
    <3>2. Tracks(registry[r], registered[r], removed')
      BY <3>1, TracksMore
    <3>3. QED
      BY <1>5, <2>2, <3>2
  <2>3. QED
    BY <2>1, <2>2
<1>6. QED
  BY <1>2, <1>3, <1>4, <1>5 DEF NewestInv, Active

\* A step that writes no registry.
LEMMA NewestQuietStep ==
  ASSUME NewestInv, RecordsTyped', NEW s \in Sessions, Active(s), OthersStay(s),
         begun' = begun, mixed' = mixed, registry' = registry, registered' = registered, removed' = removed,
         session'[s].pc # "idle" => session'[s].run = session[s].run,
         Orderly(session'[s], begun, mixed, registry)
  PROVE  NewestInv'
<1>1. session[s].run \in Runs
  BY DEF NewestInv, RecordsTyped, Proper, Active
<1>2. /\ IdsUpTo(registry[session[s].run], begun)
      /\ session[s].run \notin mixed => Tracks(registry[session[s].run], registered[session[s].run], removed)
  BY <1>1 DEF NewestInv
<1>3. QED
  BY <1>2, NewestStep

LEMMA NewestKeptOn == NewestInv /\ [CheckpointNext]_checkpointVars => NewestInv'
<1> SUFFICES ASSUME NewestInv, [CheckpointNext]_checkpointVars PROVE NewestInv'
  OBVIOUS
<1>0. RecordsTyped /\ begun \in Nat
  BY DEF NewestInv, RecordsTyped
<1>q. Orderly(Quiet, begun, mixed, registry) /\ Orderly(Quiet, begun, mixed, registry')
  BY <1>0, QuietFields DEF Orderly, Quiet
<1>o. \A s \in Sessions : Orderly(session[s], begun, mixed, registry)
  BY DEF NewestInv
<1>1. ASSUME NEW s \in Sessions, NEW op \in {"save", "delete"}, NEW r \in Runs, NEW id \in Nat,
             NEW p \in Snapshots \cup {Nothing}, op = "save" <=> p \in Snapshots, BeginCall(s, op, r, id, p),
             id <= begun + 1, op = "save" => id = begun + 1, UNCHANGED removed
      PROVE  NewestInv'
  <2>1. /\ RecordsTyped' /\ session[s] = Quiet
        /\ session'[s].pc = IF op = "save" THEN "look" ELSE "load"
        /\ session'[s].op = op /\ session'[s].run = r /\ session'[s].id = id
        /\ \A t \in Sessions \ {s} : SameSession(session'[t], session[t])
    <3>1. BegunAs(s, op, r, id, p)
      BY <1>0, <1>1, BegunCall
    <3>2. QED
      BY <3>1 DEF BegunAs
  <2>2. /\ begun' = begun + 1 /\ registry' = registry /\ registered' = registered
        /\ mixed' = IF \E t \in Sessions : Active(t) /\ session[t].run = r THEN mixed \cup {r} ELSE mixed
    BY <1>1 DEF BeginCall
  <2>3. \A q \in Runs : IdsUpTo(registry[q], begun) /\ registry[q] \in Seq(Recs)
    BY DEF NewestInv, RecordsTyped
  <2>4. Orderly(session'[s], begun', mixed', registry')
    <3>1. \A j \in 1..Len(registry[r]) : registry[r][j].id # begun + 1
      BY <1>0, <2>3 DEF IdsUpTo
    <3>2. session'[s].pc # "write"
      BY <2>1
    <3>3. QED
      BY <1>1, <2>1, <2>2, <3>1, <3>2 DEF Orderly
  <2>5. ASSUME NEW records \in Seq(Recs), IdsUpTo(records, begun)
        PROVE  IdsUpTo(records, begun')
    <3>1. \A j \in 1..Len(records) : records[j].id \in Nat /\ records[j].id <= begun
      <4>1. \A j \in 1..Len(records) : records[j] \in Recs
        BY <2>5
      <4>2. QED
        BY <2>5, <4>1 DEF IdsUpTo, Recs
    <3>2. QED
      BY <1>0, <2>2, <3>1 DEF IdsUpTo
  <2>6. ASSUME NEW t \in Sessions \ {s}
        PROVE  Orderly(session'[t], begun', mixed', registry')
    <3> DEFINE q == session[t]
               q2 == session'[t]
    <3>1. SameSession(q2, q) /\ Orderly(q, begun, mixed, registry) /\ q \in Jobs
      BY <1>o, <1>0, <2>1 DEF RecordsTyped
    <3> HIDE DEF q, q2
    <3>2. q2.id <= begun' /\ (q2.pc = "write" => IdsUpTo(q2.records, begun'))
      <4>1. q.id \in Nat /\ q.id <= begun /\ q.records \in Seq(Recs) /\ q2.id = q.id /\ q2.records = q.records
            /\ q2.pc = q.pc /\ (q.pc = "write" => IdsUpTo(q.records, begun))
        BY <3>1 DEF Jobs, Orderly, SameSession
      <4>2. QED
        BY <1>0, <2>2, <2>5, <4>1
    <3>3. \A records : /\ Saved(records, q2) = Saved(records, q) /\ Retained(records, q2) = Retained(records, q)
                       /\ Deleted(records, q2) = Deleted(records, q)
      BY <3>1, SameLists DEF SameSession
    <3>4. q2.run \notin mixed' => q.run \notin mixed
      BY <2>2, <3>1 DEF SameSession
    <3>5. QED
      BY <2>2, <3>1, <3>2, <3>3, <3>4 DEF Orderly, SameSession, q2
  <2>7. ASSUME NEW t \in Sessions, NEW u \in Sessions, t # u,
               session'[t].pc # "idle", session'[u].pc # "idle", session'[t].run = session'[u].run
        PROVE  session'[t].run \in mixed'
    <3>1. \A w \in Sessions \ {s} : session'[w].pc # "idle" => Active(w) /\ session'[w].run = session[w].run
      BY <2>1 DEF SameSession, Active
    <3>2. CASE t = s \/ u = s
      BY <2>1, <2>2, <2>7, <3>1, <3>2
    <3>3. CASE t # s /\ u # s
      <4>1. session[t].run \in mixed
        BY <2>7, <3>1, <3>3 DEF NewestInv
      <4>2. QED
        BY <2>2, <2>7, <3>1, <3>3, <4>1
    <3>4. QED
      BY <3>2, <3>3
  <2>8. \A q \in Runs : IdsUpTo(registry'[q], begun')
    BY <2>2, <2>3, <2>5
  <2>9. \A q \in Runs \ mixed' : Tracks(registry'[q], registered'[q], removed')
    BY <1>1, <2>2 DEF NewestInv
  <2>10. \A t \in Sessions : Orderly(session'[t], begun', mixed', registry')
    BY <2>4, <2>6
  <2>11. QED
    BY <2>1, <2>7, <2>8, <2>9, <2>10 DEF NewestInv, Active
<1>2. ASSUME NEW s \in Sessions, NEW r \in Runs, NEW p \in Snapshots, SaveCheckpoint(s, r, p)
      PROVE  NewestInv'
  <2>1. BeginCall(s, "save", r, begun + 1, p) /\ begun + 1 \in Nat
    BY <1>0, <1>2 DEF SaveCheckpoint
  <2>2. removed' = removed
    BY <2>1 DEF BeginCall
  <2>3. QED
    BY <1>0, <1>1, <2>1, <2>2
<1>3. ASSUME NEW s \in Sessions, NEW r \in Runs, NEW id \in 1..begun, DeleteCheckpoint(s, r, id)
      PROVE  NewestInv'
  <2>1. BeginCall(s, "delete", r, id, Nothing) /\ id \in Nat /\ id <= begun + 1
    BY <1>0, <1>3 DEF DeleteCheckpoint
  <2>2. removed' = removed
    BY <2>1 DEF BeginCall
  <2>3. QED
    BY <1>1, <2>1, <2>2, CheckpointAssumption
<1>4. ASSUME NEW s \in Sessions, LookUpBlob(s)
      PROVE  NewestInv'
  <2>1. /\ RecordsTyped' /\ FilesStay /\ removed' = removed /\ OthersStay(s) /\ session[s].pc = "look"
        /\ session'[s].pc \in {"put", "load"} /\ session[s].op = "save" /\ session'[s].op = "save"
        /\ session'[s].run = session[s].run /\ session'[s].id = session[s].id
    BY <1>0, <1>4, LookedUp
  <2>2. Orderly(session'[s], begun, mixed, registry) /\ Active(s)
    BY <1>o, <2>1 DEF Orderly, Active
  <2>3. QED
    BY <2>1, <2>2, NewestQuietStep DEF FilesStay
<1>5. ASSUME NEW s \in Sessions, PutCheckpoint(s)
      PROVE  NewestInv'
  <2>1. /\ RecordsTyped' /\ OthersStay(s) /\ UNCHANGED <<registry, begun, registered, removed, mixed>>
        /\ session[s].pc = "put" /\ session'[s].pc = "load" /\ session[s].op = "save" /\ session'[s].op = "save"
        /\ session'[s].run = session[s].run /\ session'[s].id = session[s].id
    BY <1>0, <1>5, PutCall
  <2>2. Orderly(session'[s], begun, mixed, registry) /\ Active(s)
    BY <1>o, <2>1 DEF Orderly, Active
  <2>3. QED
    BY <2>1, <2>2, NewestQuietStep
<1>6. ASSUME NEW s \in Sessions, LoadRegistry(s)
      PROVE  NewestInv'
  <2> DEFINE q == session[s]
             had == registry[q.run]
             q2 == session'[s]
  <2>1. /\ RecordsTyped' /\ FilesStay /\ removed' = removed /\ OthersStay(s)
        /\ q.pc = "load" /\ q.run \in Runs /\ had \in Seq(Recs) /\ q \in Jobs
        /\ (q.op = "save" <=> q.payload \in Snapshots)
        /\ \/ q2 = Quiet
           \/ /\ q2.pc = "write" /\ q2.run = q.run /\ q2.id = q.id /\ q2.payload = q.payload /\ q2.op = q.op
              /\ \/ q.op = "save" /\ q2.records = Saved(had, q)
                 \/ q.op = "delete" /\ Deleted(had, q) # {} /\ q2.records = Retained(had, q)
    BY <1>0, <1>6, LoadedCall
  <2>2. Orderly(q, begun, mixed, registry) /\ IdsUpTo(had, begun) /\ Active(s)
    BY <1>o, <2>1 DEF NewestInv, Active
  <2> HIDE DEF q, had, q2
  <2>3. CASE q2 = Quiet
    BY <1>q, <2>1, <2>2, <2>3, QuietFields, NewestQuietStep DEF FilesStay, q2
  <2>4. CASE q2.pc = "write"
    <3>1. /\ q2.run = q.run /\ q2.id = q.id /\ q2.payload = q.payload /\ q2.op = q.op
          /\ \/ q.op = "save" /\ q2.records = Saved(had, q)
             \/ q.op = "delete" /\ Deleted(had, q) # {} /\ q2.records = Retained(had, q)
      BY <2>1, <2>4, QuietFields
    <3>2. /\ Saved(had, q2) = Saved(had, q) /\ Retained(had, q2) = Retained(had, q)
          /\ Deleted(had, q2) = Deleted(had, q)
      BY <3>1, SameLists
    <3>3. q2.id <= begun /\ IdsUpTo(q2.records, begun)
      <4>1. q.id <= begun
        BY <2>2 DEF Orderly
      <4>2. QED
        BY <1>0, <2>1, <2>2, <3>1, <4>1, WrittenIds
    <3>4. had = registry[q2.run]
      BY <3>1 DEF had
    <3>5. q2.run \notin mixed /\ q2.op = "save" => \A j \in 1..Len(had) : had[j].id # q2.id
      BY <2>1, <2>2, <3>1 DEF Orderly, had
    <3>6. Orderly(q2, begun, mixed, registry)
      BY <2>4, <3>1, <3>2, <3>3, <3>4, <3>5 DEF Orderly
    <3>7. QED
      BY <2>1, <2>2, <3>1, <3>6, NewestQuietStep DEF FilesStay, q, q2
  <2>5. QED
    BY <2>1, <2>3, <2>4
<1>7. ASSUME NEW s \in Sessions, SaveRegistry(s)
      PROVE  NewestInv'
  <2> DEFINE q == session[s]
             q2 == session'[s]
             had == registry[q.run]
             ids == registered[q.run]
  <2>1. /\ RecordsTyped' /\ OthersStay(s) /\ begun' = begun /\ mixed' = mixed
        /\ q.pc = "write" /\ q.run \in Runs /\ had \in Seq(Recs) /\ q \in Jobs
        /\ (q.op = "save" <=> q.payload \in Snapshots)
        /\ registry' = [registry EXCEPT ![q.run] = q.records]
        /\ registered' = IF q.op = "save" THEN [registered EXCEPT ![q.run] = Append(@, q.id)] ELSE registered
        /\ removed' = IF q.op = "delete" THEN removed \cup {q.id} ELSE removed
        /\ q2 = Quiet \/ (q2.pc = "scan" /\ q2.run = q.run /\ q2.id = q.id)
    BY <1>0, <1>7, WrittenCall
  <2>2. /\ registry'[q.run] = q.records
        /\ registered'[q.run] = IF q.op = "save" THEN Append(ids, q.id) ELSE ids
        /\ \A r \in Runs \ {q.run} : registry'[r] = registry[r] /\ registered'[r] = registered[r]
    BY <1>0, <2>1 DEF RecordsTyped
  <2>3. /\ Orderly(q, begun, mixed, registry) /\ Active(s) /\ ids \in Seq(Nat)
        /\ q.run \notin mixed => Tracks(had, ids, removed)
    BY <1>o, <2>1 DEF NewestInv, Active, RecordsTyped
  <2>4. q.op \in {"save", "delete"}
    BY <2>1 DEF Jobs
  <2>5. /\ IdsUpTo(q.records, begun) /\ q.id <= begun
        /\ q.run \notin mixed /\ q.op = "save" => /\ q.records = Saved(had, q)
                                                  /\ \A j \in 1..Len(had) : had[j].id # q.id
        /\ q.run \notin mixed /\ q.op = "delete" => Deleted(had, q) # {} /\ q.records = Retained(had, q)
    BY <2>1, <2>3 DEF Orderly
  <2> HIDE DEF q, q2, had, ids
  <2>6. ASSUME q.run \notin mixed
        PROVE  Tracks(registry'[q.run], registered'[q.run], removed')
    <3>1. CASE q.op = "save"
      <4>1. Tracks(Saved(had, q), Append(ids, q.id), removed)
        BY <2>1, <2>3, <2>5, <2>6, <3>1, SavedTracks
      <4>2. removed' = removed
        BY <2>1, <3>1
      <4>3. QED
        BY <2>2, <2>5, <2>6, <3>1, <4>1, <4>2
    <3>2. CASE q.op = "delete"
      <4>1. Tracks(Retained(had, q), ids, removed \cup {q.id})
        BY <2>1, <2>3, <2>5, <2>6, <3>2, RetainedTracks
      <4>2. registered'[q.run] = ids /\ removed' = removed \cup {q.id}
        BY <2>1, <2>2, <3>2
      <4>3. QED
        BY <2>2, <2>5, <2>6, <3>2, <4>1, <4>2
    <3>3. QED
      BY <2>4, <3>1, <3>2
  <2>7. Orderly(q2, begun, mixed, registry')
    <3>1. CASE q2 = Quiet
      BY <1>q, <3>1
    <3>2. CASE q2.pc = "scan" /\ q2.id = q.id
      BY <2>5, <3>2 DEF Orderly
    <3>3. QED
      BY <2>1, <3>1, <3>2
  <2>8. removed \subseteq removed' /\ (q2.pc # "idle" => q2.run = q.run)
    BY <2>1, QuietFields
  <2>9. IdsUpTo(registry'[q.run], begun)
    BY <2>2, <2>5
  <2>10. QED
    BY <2>1, <2>2, <2>3, <2>6, <2>7, <2>8, <2>9, NewestStep DEF q, q2
<1>8. ASSUME NEW s \in Sessions, ScanRegistries(s)
      PROVE  NewestInv'
  <2>1. /\ RecordsTyped' /\ FilesStay /\ removed' = removed /\ OthersStay(s) /\ session[s].pc = "scan"
        /\ session'[s] = Quiet \/ (session'[s].pc = "gc" /\ session'[s].run = session[s].run
                                   /\ session'[s].id = session[s].id)
    BY <1>0, <1>8, ScannedCall
  <2>2. Orderly(session'[s], begun, mixed, registry) /\ Active(s)
    BY <1>o, <1>q, <2>1 DEF Orderly, Active
  <2>3. QED
    BY <2>1, <2>2, QuietFields, NewestQuietStep DEF FilesStay
<1>9. ASSUME NEW s \in Sessions, NEW p \in Snapshots, DeleteGarbage(s, p)
      PROVE  NewestInv'
  <2>1. /\ RecordsTyped' /\ OthersStay(s) /\ UNCHANGED <<registry, begun, registered, removed, mixed>>
        /\ session[s].pc = "gc"
        /\ session'[s] = Quiet \/ (session'[s].pc = "gc" /\ session'[s].run = session[s].run
                                   /\ session'[s].id = session[s].id)
    BY <1>0, <1>9, DeletedCall
  <2>2. Orderly(session'[s], begun, mixed, registry) /\ Active(s)
    BY <1>o, <1>q, <2>1 DEF Orderly, Active
  <2>3. QED
    BY <2>1, <2>2, QuietFields, NewestQuietStep
<1>10. ASSUME NEW s \in Sessions, CutShort(s)
       PROVE  NewestInv'
  <2>1. /\ RecordsTyped' /\ OthersStay(s) /\ session'[s] = Quiet /\ Active(s)
        /\ UNCHANGED <<registry, begun, registered, removed, mixed>>
    BY <1>0, <1>10, CutCall
  <2>2. QED
    BY <1>q, <2>1, QuietFields, NewestQuietStep
<1>11. CASE UNCHANGED checkpointVars
  <2>1. /\ kept' = kept /\ registry' = registry /\ session' = session /\ begun' = begun /\ contested' = contested
        /\ registered' = registered /\ mixed' = mixed /\ residue' = residue /\ removed' = removed
    BY <1>11 DEF checkpointVars
  <2>2. RecordsTyped'
    BY <1>0, <2>1 DEF RecordsTyped
  <2>3. QED
    BY <2>1, <2>2 DEF NewestInv, Active
<1>12. QED
  BY <1>2, <1>3, <1>4, <1>5, <1>6, <1>7, <1>8, <1>9, <1>10, <1>11 DEF CheckpointNext, CheckpointStep

LEMMA NewestStart == CheckpointInit => NewestInv
<1> SUFFICES ASSUME CheckpointInit PROVE NewestInv
  OBVIOUS
<1>1. /\ RecordsTyped /\ (\A s \in Sessions : session[s] = Quiet) /\ begun = 0
      /\ \A r \in Runs : registry[r] = <<>> /\ registered[r] = <<>>
  BY RecordsStart DEF CheckpointInit
<1>2. IdsUpTo(<<>>, 0) /\ Tracks(<<>>, <<>>, removed)
  BY DEF IdsUpTo, Tracks
<1>3. Orderly(Quiet, begun, mixed, registry)
  BY <1>1, QuietFields DEF Orderly, Quiet
<1>4. QED
  BY <1>1, <1>2, <1>3, QuietFields DEF NewestInv, Active

\* A registered checkpoint stays listed until it is deleted or as many newer ones
\* as the run keeps have pushed it out, and nothing else stays in the store.
THEOREM RegistriesKept == CheckpointSpec => []RegistryKept
<1>1. CheckpointInit => NewestInv
  BY NewestStart
<1>2. CheckpointInit => OrphanInv
  <2> SUFFICES ASSUME CheckpointInit PROVE OrphanInv
    OBVIOUS
  <2>1. RecordsTyped /\ (\A s \in Sessions : session[s] = Quiet) /\ kept = {}
    BY RecordsStart DEF CheckpointInit
  <2>2. QED
    BY <2>1, QuietFields DEF OrphanInv, AccountsFor
<1>3. NewestInv => NewestKept
  <2> SUFFICES ASSUME NewestInv, NEW r \in Runs \ mixed, NEW i \in DOMAIN registered[r]
               PROVE  \/ registered[r][i] \in removed
                      \/ MaxCheckpoints > 0 /\ Len(registered[r]) - i >= MaxCheckpoints
                      \/ \E j \in DOMAIN registry[r] : registry[r][j].id = registered[r][i]
    BY DEF NewestKept
  <2>1. Tracks(registry[r], registered[r], removed)
    BY DEF NewestInv
  <2>2. DOMAIN registry[r] = 1..Len(registry[r]) /\ DOMAIN registered[r] = 1..Len(registered[r])
    BY DEF NewestInv, RecordsTyped
  <2>3. QED
    BY <2>1, <2>2 DEF Tracks
<1>4. OrphanInv => NoOrphans
  <2> SUFFICES ASSUME OrphanInv, \A s \in Sessions : ~ Active(s)
               PROVE  kept \subseteq Named \cup residue
    BY DEF NoOrphans
  <2>1. \A s \in Sessions : Owed(session[s]) = {}
    BY DEF Owed, Active
  <2>2. QED
    BY <2>1 DEF OrphanInv
<1>5. NewestInv /\ OrphanInv => RegistryKept
  BY <1>3, <1>4 DEF RegistryKept
<1>6. QED
  BY <1>1, <1>2, <1>5, NewestKeptOn, OrphanKept, PTL DEF CheckpointSpec

(***************************************************************************)
(* Quantization.  The bytes are those of the vector or a part of them from  *)
(* the start, and what is restored is what they say.                       *)
(***************************************************************************)
Written == ToBytes(QuantizeVector(vector))

VectorOK ==
  /\ vector.log \in Int /\ vector.negative \in BOOLEAN
  /\ vector.tilts \in Seq(0..Turn)

QuantInv ==
  /\ VectorOK
  /\ encoded = <<>> \/ \E n \in 1..Len(Written) : encoded = SubSeq(Written, 1, n)
  /\ \/ restored = NotRead
     \/ /\ encoded # <<>>
        /\ restored = IF FromBytes(encoded) = Refused THEN Refused ELSE DequantizeVector(FromBytes(encoded))

LEMMA Divided ==
  ASSUME NEW a \in Int, NEW d \in Nat \ {0}
  PROVE  /\ a \div d \in Int /\ a % d \in Int
         /\ a = d * (a \div d) + (a % d) /\ 0 <= a % d /\ a % d < d
  OBVIOUS

\* Multiples of d are ordered as their factors.
LEMMA Scaled ==
  ASSUME NEW q \in Int, NEW r \in Int, NEW d \in Nat \ {0}, NEW b \in Int, q * d <= b, b < (r + 1) * d
  PROVE  q <= r
  OBVIOUS

LEMMA Wrapped ==
  ASSUME NEW a \in Int, NEW d \in Nat \ {0}
  PROVE  /\ 0 <= a /\ a < d => a % d = a
         /\ -d <= a /\ a < 0 => a % d = a + d
         /\ a = d => a % d = 0
  OBVIOUS

LEMMA QuantNumbers ==
  /\ Levels \in Nat \ {0} /\ Scale \in Nat \ {0} /\ Turn \in Nat \ {0} /\ Turn = Levels * Scale
  /\ Scale \div 2 \in Nat /\ Scale = 2 * (Scale \div 2) /\ Scale \div 2 < Scale
  /\ Levels \div 2 \in Nat \ {0} /\ Levels = 2 * (Levels \div 2)
  BY QuantAssumption DEF Turn

\* Rounding moves by at most half a step.
LEMMA Rounded ==
  ASSUME NEW u \in Int
  PROVE  /\ RoundStep(u) \in Int
         /\ RoundStep(u) * Scale <= u + Scale \div 2
         /\ u + Scale \div 2 < (RoundStep(u) + 1) * Scale
         /\ 2 * (RoundStep(u) * Scale - u) <= Scale
         /\ 2 * (u - RoundStep(u) * Scale) <= Scale
<1> DEFINE h == Scale \div 2
           a == u + h
           q == a \div Scale
           r == a % Scale
<1>1. Scale \in Nat \ {0} /\ h \in Nat /\ Scale = 2 * h
  BY QuantNumbers
<1>2. a \in Int /\ a = u + h
  BY <1>1
<1>3. RoundStep(u) = q
  BY DEF RoundStep
<1> HIDE DEF h, a
<1>4. q \in Int /\ r \in Int /\ a = Scale * q + r /\ 0 <= r /\ r < Scale
  BY <1>1, <1>2, Divided
<1> HIDE DEF q, r
<1>5. Scale * q = q * Scale /\ (q + 1) * Scale = q * Scale + Scale /\ q * Scale \in Int
  BY <1>1, <1>4
<1> DEFINE p == q * Scale
<1> HIDE DEF p
<1>6. p \in Int /\ a = p + r /\ (q + 1) * Scale = p + Scale
  BY <1>4, <1>5 DEF p
<1>7. p <= a /\ a < p + Scale /\ 2 * (p - u) <= Scale /\ 2 * (u - p) <= Scale
  BY <1>1, <1>2, <1>4, <1>6
<1>8. QED
  BY <1>3, <1>4, <1>6, <1>7 DEF p, h, a

LEMMA NearEnough ==
  ASSUME NEW a \in Int, NEW b \in Int, NEW e \in Int, 2 * e <= Scale, -(2 * e) <= Scale,
         -Turn <= a - b, a - b < Turn,
         a - b = e \/ a - b = e - Turn \/ (a - b = e + Turn)
  PROVE  2 * AngleError(a, b) <= Scale
<1> DEFINE d == a - b
           gap == d % Turn
<1>1. Turn \in Nat \ {0} /\ Scale \in Nat /\ d \in Int /\ -Turn <= d /\ d < Turn
  BY QuantNumbers
<1>2. AngleError(a, b) = IF gap < Turn - gap THEN gap ELSE Turn - gap
  BY DEF AngleError
<1>3. d = e \/ d = e - Turn \/ d = e + Turn
  OBVIOUS
<1> HIDE DEF d
<1>4. (0 <= d => gap = d) /\ (d < 0 => gap = d + Turn)
  BY <1>1, Wrapped
<1> HIDE DEF gap
<1>5. gap \in Int /\ AngleError(a, b) \in Int /\ AngleError(a, b) <= gap /\ AngleError(a, b) <= Turn - gap
  BY <1>1, <1>2, <1>4
<1>6. gap <= e \/ gap <= -e \/ Turn - gap <= e \/ Turn - gap <= -e
  BY <1>1, <1>3, <1>4
<1>7. QED
  BY <1>1, <1>5, <1>6

\* An angle is restored half a step off at most, counted around the turn.
LEMMA AngleRestored ==
  ASSUME NEW s \in 0..Turn
  PROVE  /\ QuantizeAngle(s) \in 0..Levels - 1
         /\ 2 * AngleError(DequantizeAngle(QuantizeAngle(s)), s) <= Scale
<1> DEFINE t == s % Turn
           q == RoundStep(t)
           h == Scale \div 2
<1>1. /\ Levels \in Nat \ {0} /\ Scale \in Nat \ {0} /\ Turn \in Nat \ {0} /\ Turn = Levels * Scale
      /\ h \in Nat /\ Scale = 2 * h /\ h < Scale
  BY QuantNumbers
<1>2. t \in 0..Turn - 1 /\ s \in Int /\ (t = s \/ (t = 0 /\ s = Turn))
  BY <1>1, Wrapped
<1>3. QuantizeAngle(s) = q % Levels
  BY DEF QuantizeAngle
<1> HIDE DEF t
<1>4. /\ q \in Int /\ q * Scale <= t + h /\ t + h < (q + 1) * Scale
      /\ 2 * (q * Scale - t) <= Scale /\ 2 * (t - q * Scale) <= Scale
  BY <1>2, Rounded
<1> HIDE DEF q, h
<1>5. 0 <= q
  <2>1. 0 * Scale <= t + h
    BY <1>1, <1>2
  <2>2. QED
    BY <1>1, <1>2, <1>4, <2>1, Scaled
<1>6. q <= Levels
  <2>1. (Levels + 1) * Scale = Turn + Scale
    BY <1>1
  <2>2. t + h < (Levels + 1) * Scale /\ t + h \in Int
    BY <1>1, <1>2, <2>1
  <2>3. QED
    BY <1>1, <1>4, <2>2, Scaled
<1>7. q % Levels = IF q = Levels THEN 0 ELSE q
  <2>1. CASE q = Levels
    BY <1>1, <2>1, Wrapped
  <2>2. CASE q # Levels
    <3>1. q < Levels
      BY <1>1, <1>4, <1>6, <2>2
    <3>2. Levels \in Nat \ {0} /\ q \in Int
      BY <1>1, <1>4
    <3>3. q % Levels = q
      BY <3>1, <3>2, <1>5, Wrapped
    <3>4. QED
      BY <2>2, <3>3
  <2>3. QED
    BY <2>1, <2>2
<1>8. QuantizeAngle(s) \in 0..Levels - 1
  BY <1>1, <1>3, <1>4, <1>5, <1>6, <1>7
<1> DEFINE back == DequantizeAngle(QuantizeAngle(s))
           p == q * Scale
<1>9. p \in Int /\ back = IF q = Levels THEN 0 ELSE p
  BY <1>1, <1>3, <1>4, <1>7 DEF DequantizeAngle
<1>10. (q = Levels => p = Turn) /\ 0 <= p /\ (q # Levels => p <= Turn - Scale)
  <2>1. q = Levels => p = Turn
    BY <1>1
  <2>2. 0 <= p
    BY <1>1, <1>4, <1>5
  <2>3. ASSUME q # Levels PROVE p <= Turn - Scale
    <3>1. Levels - (q + 1) \in Nat
      BY <1>1, <1>4, <1>5, <1>6, <2>3
    <3>2. (Levels - (q + 1)) * Scale >= 0
      BY <1>1, <3>1
    <3>3. (Levels - (q + 1)) * Scale = Turn - p - Scale
      BY <1>1, <1>4
    <3>4. QED
      BY <1>1, <1>9, <3>2, <3>3
  <2>4. QED
    BY <2>1, <2>2, <2>3
<1>11. 2 * (p - t) <= Scale /\ 2 * (t - p) <= Scale
  BY <1>4
<1> HIDE DEF p, back
<1>12. back \in Int /\ -Turn <= back - s /\ back - s < Turn
  BY <1>1, <1>2, <1>9, <1>10
<1>13. /\ p - t \in Int /\ 2 * (p - t) <= Scale /\ -(2 * (p - t)) <= Scale
       /\ back - s = p - t \/ back - s = (p - t) - Turn \/ back - s = (p - t) + Turn
  BY <1>1, <1>2, <1>9, <1>10, <1>11
<1>14. 2 * AngleError(back, s) <= Scale
  BY <1>2, <1>12, <1>13, NearEnough
<1>15. QED
  BY <1>8, <1>14 DEF back

LEMMA NormRestored ==
  ASSUME NEW log \in Int
  PROVE  LET back == DequantizeNorm(QuantizeNorm(log))
         IN  /\ QuantizeNorm(log) \in 0..Levels - 1
             /\ IF log \in {ZeroNorm, OverflownNorm} THEN back = DequantizeNorm(0)
                ELSE IF InRange(log) THEN 2 * NormError(log, back) <= Scale
                ELSE /\ back \in {DequantizeNorm(0), DequantizeNorm(Levels - 1)}
                     /\ back > log <=> log < DequantizeNorm(0)
<1> DEFINE m == RoundStep(log)
           h == Scale \div 2
           half == Levels \div 2
           p == m * Scale
           low == -half * Scale
           back == DequantizeNorm(QuantizeNorm(log))
<1>1. /\ Scale \in Nat \ {0} /\ h \in Nat /\ Scale = 2 * h /\ h < Scale
      /\ half \in Nat \ {0} /\ Levels = 2 * half
  BY QuantNumbers
<1>2. /\ m \in Int /\ p <= log + h /\ log + h < (m + 1) * Scale
      /\ 2 * (p - log) <= Scale /\ 2 * (log - p) <= Scale
  BY Rounded
<1>3. CASE log \in {ZeroNorm, OverflownNorm}
  BY <1>1, <1>3 DEF QuantizeNorm
<1>4. CASE log \notin {ZeroNorm, OverflownNorm}
  <2>1. QuantizeNorm(log) = Clamp(m + half)
    BY <1>4 DEF QuantizeNorm
  <2>2. Clamp(m + half) \in 0..Levels - 1
    <3> HIDE DEF m, half
    <3>1. QED
      BY <1>1, <1>2 DEF Clamp
  <2>3. /\ DequantizeNorm(0) = -half * Scale /\ DequantizeNorm(Levels - 1) = (half - 1) * Scale
        /\ DequantizeNorm(m + half) = p
    <3>1. \A q : DequantizeNorm(q) = (q - half) * Scale
      BY DEF DequantizeNorm
    <3> HIDE DEF m, half
    <3>2. (0 - half = -half) /\ (Levels - 1) - half = half - 1 /\ (m + half) - half = m
      BY <1>1, <1>2
    <3>3. DequantizeNorm(0) = (0 - half) * Scale
      BY <3>1
    <3>4. DequantizeNorm(Levels - 1) = ((Levels - 1) - half) * Scale
      BY <3>1
    <3>5. DequantizeNorm(m + half) = ((m + half) - half) * Scale
      BY <3>1
    <3>6. (-half) * Scale = -half * Scale
      BY <1>1
    <3> HIDE DEF p
    <3>7. p = m * Scale
      BY DEF p
    <3>8. QED
      BY <3>2, <3>3, <3>4, <3>5, <3>6, <3>7
  <2>4. -half * Scale <= (half - 1) * Scale /\ -half * Scale \in Int /\ (half - 1) * Scale \in Int /\ p \in Int
    <3> HIDE DEF m, half
    <3>0. half * Scale \in Nat /\ (half - 1) * Scale \in Nat /\ -half * Scale = -(half * Scale)
      BY <1>1
    <3>1. QED
      BY <1>1, <1>2, <3>0
  <2>5. CASE InRange(log)
    <3>1. -half * Scale <= log /\ log <= (half - 1) * Scale
      BY <2>3, <2>5 DEF InRange
    <3>2. -half <= m
      BY <1>1, <1>2, <2>4, <3>1, Scaled
    <3>3. m <= half - 1
      <4>1. ((half - 1) + 1) * Scale = (half - 1) * Scale + Scale
        BY <1>1
      <4>2. log + h < ((half - 1) + 1) * Scale
        BY <1>1, <2>4, <3>1, <4>1
      <4>3. log + h \in Int /\ half - 1 \in Int
        BY <1>1
      <4>4. QED
        BY <1>1, <1>2, <4>2, <4>3, Scaled
    <3>4. Clamp(m + half) = m + half
      BY <1>1, <1>2, <3>2, <3>3 DEF Clamp
    <3>5. back = p
      BY <2>1, <2>3, <3>4
    <3> HIDE DEF p, back
    <3>6. 2 * NormError(log, back) <= Scale
      BY <1>1, <1>2, <2>4, <3>5 DEF NormError
    <3>7. QED
      BY <1>4, <2>1, <2>2, <2>5, <3>6 DEF back
  <2>6. CASE log < -half * Scale
    <3>1. m <= -half
      <4>1. (-half + 1) * Scale = -half * Scale + Scale
        BY <1>1
      <4>2. log + h < (-half + 1) * Scale /\ log + h \in Int /\ -half \in Int
        BY <1>1, <2>4, <2>6, <4>1
      <4>3. QED
        BY <1>1, <1>2, <4>2, Scaled
    <3>2. Clamp(m + half) = 0
      BY <1>1, <1>2, <3>1 DEF Clamp
    <3>3. back = DequantizeNorm(0) /\ ~ InRange(log)
      BY <2>1, <2>3, <2>4, <2>6, <3>2 DEF InRange
    <3>4. back > log /\ log < DequantizeNorm(0)
      BY <2>3, <2>4, <2>6, <3>3
    <3>5. QED
      BY <1>4, <2>1, <2>2, <3>3, <3>4
  <2>7. CASE log > (half - 1) * Scale
    <3>1. half - 1 <= m
      <4>1. (half - 1) * Scale <= log + h /\ log + h \in Int /\ half - 1 \in Int
        BY <1>1, <2>4, <2>7
      <4>2. QED
        BY <1>1, <1>2, <4>1, Scaled
    <3>2. Clamp(m + half) = Levels - 1
      BY <1>1, <1>2, <3>1 DEF Clamp
    <3>3. back = DequantizeNorm(Levels - 1) /\ ~ InRange(log)
      BY <2>1, <2>3, <2>4, <2>7, <3>2 DEF InRange
    <3>4. ~ (back > log) /\ ~ (log < DequantizeNorm(0))
      BY <2>3, <2>4, <2>7, <3>3
    <3>5. QED
      BY <1>4, <2>1, <2>2, <3>3, <3>4
  <2>8. QED
    BY <2>3, <2>4, <2>5, <2>6, <2>7 DEF InRange
<1>5. QED
  BY <1>3, <1>4

LEMMA SeqElement ==
  ASSUME NEW S, NEW s \in Seq(S), NEW i \in 1..Len(s)
  PROVE  s[i] \in S
  OBVIOUS

LEMMA Joined ==
  ASSUME NEW S, NEW s \in Seq(S), NEW t \in Seq(S)
  PROVE  /\ s \o t \in Seq(S) /\ Len(s \o t) = Len(s) + Len(t)
         /\ \A i \in 1..Len(s) : (s \o t)[i] = s[i]
         /\ \A i \in 1..Len(t) : (s \o t)[Len(s) + i] = t[i]
  OBVIOUS

LEMMA SeqFunction ==
  ASSUME NEW S, NEW n \in Nat, NEW f \in [1..n -> S]
  PROVE  f \in Seq(S) /\ Len(f) = n
  OBVIOUS

\* The codes of the angles: one for each of them, or that of the sign.
LEMMA AngleCodes ==
  ASSUME VectorOK
  PROVE  LET k == Len(vector.tilts)
             e == ExpectedAngles(k + 1)
             a == QuantizeVector(vector).angles
         IN  /\ k \in Nat /\ e \in Nat \ {0} /\ (k # 0 => e = k) /\ (k = 0 => e = 1)
             /\ a \in Seq(0..Levels - 1) /\ Len(a) = e
             /\ k = 0 => a[1] = IF vector.negative THEN Levels \div 2 ELSE 0
             /\ \A i \in 1..k : SignedTilt(vector, i) \in 0..Turn /\ a[i] = QuantizeAngle(SignedTilt(vector, i))
<1> DEFINE k == Len(vector.tilts)
           e == ExpectedAngles(k + 1)
           a == QuantizeVector(vector).angles
<1>1. k \in Nat /\ vector.tilts \in Seq(0..Turn) /\ vector.log \in Int
  BY DEF VectorOK
<1>2. e \in Nat \ {0} /\ (k # 0 => e = k) /\ (k = 0 => e = 1)
  BY <1>1 DEF ExpectedAngles
<1>3. /\ Levels \in Nat \ {0} /\ Turn \in Nat /\ Levels \div 2 \in 0..Levels - 1 /\ 0 \in 0..Levels - 1
  BY QuantNumbers
<1>4. CASE k = 0
  <2>1. vector.tilts = <<>>
    BY <1>1, <1>4
  <2>2. a = <<IF vector.negative THEN Levels \div 2 ELSE 0>>
    BY <2>1 DEF QuantizeVector
  <2>3. (IF vector.negative THEN Levels \div 2 ELSE 0) \in 0..Levels - 1
    BY <1>3
  <2> HIDE DEF a, k, e
  <2>4. a \in Seq(0..Levels - 1) /\ Len(a) = e /\ a[1] = IF vector.negative THEN Levels \div 2 ELSE 0
    BY <1>2, <1>4, <2>2, <2>3
  <2>5. QED
    BY <1>1, <1>2, <1>4, <2>4 DEF a, k, e
<1>5. CASE k # 0
  <2>1. vector.tilts # <<>>
    BY <1>1, <1>5
  <2>2. a = [i \in DOMAIN vector.tilts |-> QuantizeAngle(SignedTilt(vector, i))]
    BY <2>1 DEF QuantizeVector
  <2>3. DOMAIN vector.tilts = 1..k
    BY <1>1
  <2>4. ASSUME NEW i \in 1..k PROVE SignedTilt(vector, i) \in 0..Turn
    <3>1. vector.tilts[i] \in 0..Turn
      BY <1>1, <2>4, SeqElement
    <3>2. QED
      BY <1>3, <3>1 DEF SignedTilt
  <2>5. ASSUME NEW i \in 1..k PROVE QuantizeAngle(SignedTilt(vector, i)) \in 0..Levels - 1
    BY <2>4, AngleRestored
  <2>6. a = [i \in 1..k |-> QuantizeAngle(SignedTilt(vector, i))]
    BY <2>2, <2>3
  <2> HIDE DEF a, k, e
  <2>7. a \in [1..k -> 0..Levels - 1]
    BY <2>5, <2>6
  <2>8. a \in Seq(0..Levels - 1) /\ Len(a) = e
    BY <1>1, <1>2, <1>5, <2>7, SeqFunction
  <2>9. QED
    BY <1>1, <1>2, <1>5, <2>4, <2>6, <2>8 DEF a, k, e
<1>6. QED
  BY <1>4, <1>5

\* The bytes of a vector: its dimension, its norm, its angles.
LEMMA BytesWritten ==
  ASSUME VectorOK
  PROVE  LET k == Len(vector.tilts)
             e == ExpectedAngles(k + 1)
             a == QuantizeVector(vector).angles
         IN  /\ Written \in Seq(Int) /\ Len(Written) = 2 + e
             /\ Written[1] = k + 1 /\ Written[2] = QuantizeNorm(vector.log)
             /\ \A i \in 1..e : Written[2 + i] = a[i]
<1> DEFINE k == Len(vector.tilts)
           e == ExpectedAngles(k + 1)
           a == QuantizeVector(vector).angles
           n == QuantizeNorm(vector.log)
           head == <<k + 1, n>>
<1>1. k \in Nat /\ e \in Nat \ {0} /\ a \in Seq(0..Levels - 1) /\ Len(a) = e
  BY AngleCodes
<1>2. Written = head \o a
  BY DEF Written, ToBytes, QuantizeVector
<1>3. n \in Int /\ Levels \in Nat
  <2>1. Levels \in Nat
    BY QuantNumbers
  <2>2. vector.log \in Int
    BY DEF VectorOK
  <2>3. n \in 0..Levels - 1
    BY <2>2, NormRestored
  <2> HIDE DEF n
  <2>4. QED
    BY <2>1, <2>3
<1> HIDE DEF a, e, k, n
<1>4. head \in Seq(Int) /\ Len(head) = 2 /\ head[1] = k + 1 /\ head[2] = n
  BY <1>1, <1>3
<1>5. a \in Seq(Int)
  BY <1>1, <1>3
<1> HIDE DEF head
<1>6. /\ Written \in Seq(Int) /\ Len(Written) = 2 + Len(a)
      /\ \A i \in 1..2 : Written[i] = head[i]
      /\ \A i \in 1..Len(a) : Written[2 + i] = a[i]
  <2>1. /\ head \o a \in Seq(Int) /\ Len(head \o a) = Len(head) + Len(a)
        /\ \A i \in 1..Len(head) : (head \o a)[i] = head[i]
        /\ \A i \in 1..Len(a) : (head \o a)[Len(head) + i] = a[i]
    <3>1. head \in Seq(Int) /\ a \in Seq(Int)
      BY <1>4, <1>5
    <3>2. QED
      BY <3>1, Joined
  <2>2. QED
    BY <1>2, <1>4, <2>1
<1>7. Written[1] = k + 1 /\ Written[2] = n
  BY <1>4, <1>6
<1>8. QED
  BY <1>1, <1>6, <1>7 DEF k, e, a, n

LEMMA Prefix ==
  ASSUME NEW S, NEW w \in Seq(S), NEW m \in 1..Len(w), NEW n \in 1..m
  PROVE  /\ SubSeq(w, 1, m) \in Seq(S) /\ Len(SubSeq(w, 1, m)) = m /\ SubSeq(w, 1, m) # <<>>
         /\ SubSeq(w, 1, m)[n] = w[n]
         /\ SubSeq(SubSeq(w, 1, m), 1, n) = SubSeq(w, 1, n)
         /\ SubSeq(w, 1, Len(w)) = w
  OBVIOUS

\* Bytes that were cut short are refused, and all of them give back the codes.
LEMMA BytesReadBack ==
  ASSUME VectorOK, NEW n \in 1..Len(Written)
  PROVE  LET e == ExpectedAngles(Len(vector.tilts) + 1)
             bytes == SubSeq(Written, 1, n)
             pq == FromBytes(bytes)
         IN  /\ Len(bytes) = n
             /\ n < 2 + e => pq = Refused
             /\ n = 2 + e => /\ pq # Refused
                             /\ pq.dim = Len(vector.tilts) + 1 /\ pq.norm = QuantizeNorm(vector.log)
                             /\ pq.angles = QuantizeVector(vector).angles
             /\ n <= 2 + e
<1> DEFINE k == Len(vector.tilts)
           e == ExpectedAngles(k + 1)
           a == QuantizeVector(vector).angles
           bytes == SubSeq(Written, 1, n)
           pq == FromBytes(bytes)
<1>1. k \in Nat /\ e \in Nat \ {0} /\ a \in Seq(0..Levels - 1) /\ Len(a) = e
  BY AngleCodes
<1>2. /\ Written \in Seq(Int) /\ Len(Written) = 2 + e /\ Written[1] = k + 1
      /\ Written[2] = QuantizeNorm(vector.log) /\ \A i \in 1..e : Written[2 + i] = a[i]
  BY BytesWritten
<1>3. Len(bytes) = n /\ bytes[1] = k + 1 /\ bytes \in Seq(Int)
  BY <1>2, Prefix
<1>4. pq = IF n < 2 \/ n < 2 + e THEN Refused
           ELSE [kind |-> "quantized", dim |-> bytes[1], norm |-> bytes[2], angles |-> SubSeq(bytes, 3, 2 + e)]
  BY <1>3 DEF FromBytes
<1> HIDE DEF e, a, k, pq
<1>5. n <= 2 + e /\ (n < 2 + e => pq = Refused)
  BY <1>1, <1>2, <1>4
<1>6. ASSUME n = 2 + e
      PROVE  pq # Refused /\ pq.dim = k + 1 /\ pq.norm = QuantizeNorm(vector.log) /\ pq.angles = a
  <2>1. bytes = Written
    BY <1>2, <1>6, Prefix
  <2>2. pq = [kind |-> "quantized", dim |-> Written[1], norm |-> Written[2], angles |-> SubSeq(Written, 3, 2 + e)]
    <3> HIDE DEF bytes
    <3>1. ~ (n < 2 \/ n < 2 + e)
      BY <1>1, <1>6
    <3>2. QED
      BY <1>4, <2>1, <3>1
  <2>3. pq # Refused
    BY <2>2 DEF Refused
  <2>4. SubSeq(Written, 3, 2 + e) = a
    <3>1. SubSeq(Written, 3, 2 + e) = [i \in 1..e |-> Written[2 + i]]
      BY <1>1, <1>2
    <3>2. a = [i \in 1..e |-> a[i]]
      BY <1>1
    <3>3. QED
      BY <1>2, <3>1, <3>2
  <2>5. QED
    BY <1>2, <2>2, <2>3, <2>4
<1>7. QED
  BY <1>3, <1>5, <1>6 DEF e, a, k, pq

LEMMA QuantStart == QuantInit => QuantInv
<1> SUFFICES ASSUME QuantInit PROVE QuantInv
  OBVIOUS
<1>1. PICK dim \in 1..MaxDim : vector \in Directions(dim)
  BY DEF QuantInit, Vectors
<1>2. dim - 1 \in Nat /\ Turn \in Nat /\ ZeroNorm \in Int /\ OverflownNorm \in Int
  BY QuantNumbers, QuantAssumption DEF ZeroNorm, OverflownNorm
<1>3. vector.log \in Int /\ vector.negative \in BOOLEAN
  <2>1. \/ vector.log \in Logs \/ vector.log = ZeroNorm \/ vector.log = OverflownNorm
    BY <1>1 DEF Directions
  <2>2. vector.negative \in BOOLEAN
    BY <1>1 DEF Directions
  <2>3. QED
    BY <1>2, <2>1, <2>2, QuantAssumption
<1>4. vector.tilts \in [1..dim - 1 -> Tilts] \/ vector.tilts \in [1..dim - 1 -> {Turn \div 4}]
  BY <1>1 DEF Directions
<1>5. Turn \div 4 \in 0..Turn
  BY <1>2
<1>6. Tilts \subseteq 0..Turn
  <2>1. Tilts \subseteq 0..(Levels \div 2) * Scale
    BY QuantAssumption
  <2>2. (Levels \div 2) * Scale \in Nat /\ Turn = (Levels \div 2) * Scale + (Levels \div 2) * Scale
    BY QuantNumbers
  <2>3. QED
    BY <1>2, <2>1, <2>2
<1>7. vector.tilts \in [1..dim - 1 -> 0..Turn]
  BY <1>4, <1>5, <1>6
<1>8. vector.tilts \in Seq(0..Turn)
  BY <1>2, <1>7, SeqFunction
<1>9. QED
  BY <1>3, <1>8 DEF QuantInit, QuantInv, VectorOK

LEMMA QuantKept == QuantInv /\ [QuantNext]_quantVars => QuantInv'
<1> SUFFICES ASSUME QuantInv, [QuantNext]_quantVars PROVE QuantInv'
  OBVIOUS
<1>1. vector' = vector
  BY DEF QuantNext, Encode, LoseEnd, Decode, quantVars
<1>2. VectorOK' /\ Written' = Written
  BY <1>1 DEF QuantInv, VectorOK, Written
<1>3. Written \in Seq(Int) /\ Len(Written) \in Nat \ {0}
  BY BytesWritten, AngleCodes DEF QuantInv
<1>4. CASE Encode
  <2>1. encoded' = Written /\ restored' = NotRead
    BY <1>4 DEF Encode, QuantInv, Written
  <2>2. Len(Written) \in 1..Len(Written) /\ Written = SubSeq(Written, 1, Len(Written))
    BY <1>3, Prefix
  <2>3. QED
    BY <1>2, <2>1, <2>2 DEF QuantInv
<1>5. ASSUME NEW n \in 1..MaxDim + 2, LoseEnd(n) PROVE QuantInv'
  <2>1. restored' = NotRead /\ encoded' = SubSeq(encoded, 1, n) /\ n < Len(encoded)
    BY <1>5 DEF LoseEnd
  <2>2. n \in Nat \ {0}
    BY QuantAssumption
  <2>3. PICK m \in 1..Len(Written) : encoded = SubSeq(Written, 1, m)
    BY <2>1, <2>2 DEF QuantInv
  <2>4. n \in 1..m
    BY <1>3, <2>1, <2>2, <2>3, Prefix
  <2>5. encoded' = SubSeq(Written, 1, n) /\ n \in 1..Len(Written)
    BY <1>3, <2>1, <2>3, <2>4, Prefix
  <2>6. QED
    BY <1>2, <2>1, <2>5 DEF QuantInv
<1>6. CASE Decode
  BY <1>2, <1>6 DEF Decode, QuantInv
<1>7. CASE UNCHANGED quantVars
  BY <1>2, <1>7 DEF quantVars, QuantInv
<1>8. QED
  BY <1>4, <1>5, <1>6, <1>7 DEF QuantNext

LEMMA QuantReads == QuantInv => QuantRoundTrip
<1> SUFFICES ASSUME QuantInv PROVE QuantRoundTrip
  OBVIOUS
<1> DEFINE k == Len(vector.tilts)
           e == ExpectedAngles(k + 1)
           a == QuantizeVector(vector).angles
           pq == FromBytes(encoded)
<1>1. VectorOK
  BY DEF QuantInv
<1>2. CASE restored = NotRead
  BY <1>2 DEF QuantRoundTrip, NotRead, Refused
<1>3. CASE restored # NotRead
  <2>1. /\ restored = IF pq = Refused THEN Refused ELSE DequantizeVector(pq)
        /\ \E n \in 1..Len(Written) : encoded = SubSeq(Written, 1, n)
    BY <1>3 DEF QuantInv
  <2>2. PICK n \in 1..Len(Written) : encoded = SubSeq(Written, 1, n)
    BY <2>1
  <2>3. /\ Len(encoded) = n /\ n <= 2 + e
        /\ n < 2 + e => pq = Refused
        /\ n = 2 + e => pq # Refused /\ pq.dim = k + 1 /\ pq.norm = QuantizeNorm(vector.log) /\ pq.angles = a
    BY <1>1, <2>2, BytesReadBack
  <2>4. /\ k \in Nat /\ e \in Nat \ {0} /\ (k # 0 => e = k) /\ (k = 0 => e = 1)
        /\ a \in Seq(0..Levels - 1) /\ Len(a) = e
        /\ k = 0 => a[1] = IF vector.negative THEN Levels \div 2 ELSE 0
        /\ \A i \in 1..k : SignedTilt(vector, i) \in 0..Turn /\ a[i] = QuantizeAngle(SignedTilt(vector, i))
    BY <1>1, AngleCodes
  <2>5. vector.tilts \in Seq(0..Turn) /\ vector.log \in Int /\ vector.negative \in BOOLEAN /\ n \in Nat
    BY <1>1 DEF VectorOK
  <2>6. CASE n < 2 + e
    BY <1>3, <2>1, <2>3, <2>6 DEF QuantRoundTrip, NotRead, Refused
  <2>7. CASE n = 2 + e
    <3> DEFINE angles == IF pq.dim = 1 THEN <<>> ELSE [i \in DOMAIN pq.angles |-> DequantizeAngle(pq.angles[i])]
               negative == pq.dim = 1 /\ pq.angles[1] >= Levels \div 2
    <3>1. restored = [kind |-> "vector", log |-> DequantizeNorm(pq.norm), angles |-> angles, negative |-> negative]
      BY <2>1, <2>3, <2>7 DEF DequantizeVector
    <3>2. /\ restored # Refused /\ restored.angles = angles
          /\ restored.log = DequantizeNorm(QuantizeNorm(vector.log)) /\ restored.negative = negative
      BY <2>3, <2>7, <3>1 DEF Refused
    <3>3. ~ (Len(encoded) < 2 + e)
      BY <2>3, <2>4, <2>7
    <3>4. IF vector.log \in {ZeroNorm, OverflownNorm} THEN restored.log = DequantizeNorm(0)
          ELSE IF InRange(vector.log) THEN 2 * NormError(vector.log, restored.log) <= Scale
          ELSE restored.log \in {DequantizeNorm(0), DequantizeNorm(Levels - 1)}
                 /\ (restored.log > vector.log <=> vector.log < DequantizeNorm(0))
      BY <2>5, <3>2, NormRestored
    <3>5. /\ Len(restored.angles) = k
          /\ \A i \in 1..k : restored.angles[i] = DequantizeAngle(a[i])
      <4>1. CASE k = 0
        BY <2>3, <2>7, <3>2, <4>1
      <4>2. CASE k # 0
        <5>1. DOMAIN a = 1..k /\ pq.dim # 1 /\ pq.angles = a
          BY <2>3, <2>4, <2>7, <4>2
        <5>2. angles = [i \in 1..k |-> DequantizeAngle(a[i])]
          BY <5>1
        <5> HIDE DEF angles, k, a
        <5>3. Len(angles) = k
          BY <2>4, <5>2
        <5>4. QED
          BY <3>2, <5>2, <5>3
      <4>3. QED
        BY <4>1, <4>2
    <3>6. DOMAIN vector.tilts = 1..k
      BY <2>5
    <3>7. \A i \in 1..k : 2 * AngleError(restored.angles[i], SignedTilt(vector, i)) <= Scale
      BY <2>4, <3>5, AngleRestored
    <3>8. vector.tilts = <<>> => restored.negative = vector.negative
      <4> HAVE vector.tilts = <<>>
      <4>1. k = 0
        OBVIOUS
      <4>2. pq.dim = 1 /\ pq.angles[1] = IF vector.negative THEN Levels \div 2 ELSE 0
        BY <2>3, <2>4, <2>7, <4>1
      <4>3. negative <=> vector.negative
        BY <2>5, <4>2, QuantNumbers
      <4>4. QED
        BY <2>5, <3>2, <4>3
    <3>9. QED
      BY <3>2, <3>3, <3>4, <3>5, <3>6, <3>7, <3>8 DEF QuantRoundTrip
  <2>8. QED
    BY <2>3, <2>4, <2>5, <2>6, <2>7
<1>4. QED
  BY <1>2, <1>3

THEOREM QuantizationRoundTrips == QuantSpec => []QuantRoundTrip
<1>1. QED
  BY QuantStart, QuantKept, QuantReads, PTL DEF QuantSpec

(***************************************************************************)
(* Training of the tokenizer.  A round rewrites every word from left to right,  *)
(* each place from what is made of the rest, so what it does to a word is shown  *)
(* from the end of the word: it spells the same bytes (MergeSpells), two old     *)
(* tokens that meet in it met before and are not the merged pair                *)
(* (MergeSeparates), and it is shorter by half of the counted places or more     *)
(* (MergeShortens).  Sums over the words are taken as the functions that        *)
(* MapThenSumSet builds them from (SumRule).                                  *)
(***************************************************************************)
LEMMA AllNumbers ==
  ASSUME NEW T, 0 \in T, \A n \in Nat : n \in T => n + 1 \in T
  PROVE  \A n \in Nat : n \in T
<1> DEFINE U == {n \in Nat : n \notin T}
<1>1. SUFFICES ASSUME U # {} PROVE FALSE
  OBVIOUS
<1>2. PICK x \in U : \A y \in U : x <= y
  BY <1>1, LeastNatural
<1>3. x # 0
  OBVIOUS
<1>4. x - 1 \in Nat /\ x - 1 \notin U /\ (x - 1) + 1 = x
  BY <1>2, <1>3
<1>5. QED
  BY <1>4

\* A place may rest on the two behind it.
LEMMA FromTheEnd ==
  ASSUME NEW n \in Nat, NEW T, n + 1 \in T,
         \A i \in 1..n : i + 1 \in T /\ (i = n \/ i + 2 \in T) => i \in T
  PROVE  \A i \in 1..n + 1 : i \in T
<1> DEFINE U == {k \in Nat : k <= n => (n + 1) - k \in T /\ (k = 0 \/ (n + 2) - k \in T)}
<1>1. 0 \in U
  OBVIOUS
<1>2. \A k \in Nat : k \in U => k + 1 \in U
  <2> TAKE k \in Nat
  <2> SUFFICES ASSUME k \in U, k + 1 <= n
               PROVE  (n + 1) - (k + 1) \in T /\ (n + 2) - (k + 1) \in T
    OBVIOUS
  <2> DEFINE i == n - k
  <2>1. /\ i \in 1..n /\ i + 1 = (n + 1) - k /\ i + 2 = (n + 2) - k /\ (k = 0 => i = n) /\ k <= n
        /\ (n + 1) - (k + 1) = i /\ (n + 2) - (k + 1) = i + 1
    OBVIOUS
  <2> HIDE DEF i
  <2>2. i + 1 \in T /\ (i = n \/ i + 2 \in T)
    BY <2>1
  <2>3. QED
    BY <2>1, <2>2
<1>3. \A k \in Nat : k \in U
  <2> HIDE DEF U
  <2>1. QED
    BY <1>1, <1>2, AllNumbers
<1>4. ASSUME NEW i \in 1..n + 1 PROVE i \in T
  <2>1. (n + 1) - i \in Nat /\ (n + 1) - i <= n /\ (n + 1) - ((n + 1) - i) = i
    OBVIOUS
  <2>2. (n + 1) - i \in U
    BY <1>3, <2>1
  <2>3. QED
    BY <2>1, <2>2
<1>5. QED
  BY <1>4

\* The joined sequences up to each place.
Joins(S, cs, g) ==
  /\ g \in [0..Len(cs) -> Seq(S)] /\ g[0] = <<>>
  /\ \A i \in 1..Len(cs) : g[i] = g[i - 1] \o cs[i]

LEMMA JoinsTyped ==
  ASSUME NEW S, NEW cs \in Seq(Seq(S)), NEW g, Joins(S, cs, g)
  PROVE  /\ Len(cs) \in Nat /\ g \in [0..Len(cs) -> Seq(S)] /\ g[0] = <<>>
         /\ \A i \in 1..Len(cs) : g[i] = g[i - 1] \o cs[i]
<1>1. Len(cs) \in Nat
  OBVIOUS
<1>2. QED
  BY <1>1, Zenon DEF Joins

LEMMA JoinsExist ==
  ASSUME NEW S, NEW cs \in Seq(Seq(S))
  PROVE  \E g : Joins(S, cs, g)
<1> DEFINE Up(n) == \E g \in [0..n -> Seq(S)] :
             g[0] = <<>> /\ \A i \in 1..n : g[i] = g[i - 1] \o cs[i]
           T == {n \in Nat : n <= Len(cs) => Up(n)}
<1>1. 0 \in T
  <2>1. [i \in 0..0 |-> <<>>] \in [0..0 -> Seq(S)] /\ [i \in 0..0 |-> <<>>][0] = <<>>
    OBVIOUS
  <2>2. 1..0 = {}
    OBVIOUS
  <2>3. Up(0)
    BY <2>1, <2>2
  <2>4. QED
    BY <2>3
<1>2. ASSUME NEW n \in Nat, n \in T PROVE n + 1 \in T
  <2> HIDE DEF Up
  <2> SUFFICES ASSUME n + 1 <= Len(cs) PROVE Up(n + 1)
    OBVIOUS
  <2>0. Up(n)
    <3>1. Len(cs) \in Nat
      OBVIOUS
    <3>2. QED
      BY <1>2, <3>1
  <2>1. PICK g \in [0..n -> Seq(S)] : g[0] = <<>> /\ \A i \in 1..n : g[i] = g[i - 1] \o cs[i]
    BY <2>0, Zenon DEF Up
  <2> DEFINE f == [i \in 0..n + 1 |-> IF i = n + 1 THEN g[n] \o cs[n + 1] ELSE g[i]]
  <2>2. cs[n + 1] \in Seq(S) /\ g[n] \in Seq(S)
    <3>1. n + 1 \in 1..Len(cs) /\ n \in 0..n
      OBVIOUS
    <3>2. QED
      BY <3>1, SeqElement
  <2>3. g[n] \o cs[n + 1] \in Seq(S)
    BY <2>2, Joined
  <2>4. f \in [0..n + 1 -> Seq(S)]
    BY <2>3
  <2>5. f[0] = <<>>
    BY <2>1
  <2>6. ASSUME NEW i \in 1..n + 1 PROVE f[i] = f[i - 1] \o cs[i]
    <3>1. i \in 0..n + 1 /\ i - 1 \in 0..n /\ i - 1 \in 0..n + 1 /\ i - 1 # n + 1
      OBVIOUS
    <3>2. f[i - 1] = g[i - 1]
      BY <3>1
    <3>3. CASE i = n + 1
      <4>1. f[i] = g[n] \o cs[n + 1] /\ i - 1 = n
        BY <3>3
      <4>2. QED
        BY <3>2, <3>3, <4>1
    <3>4. CASE i # n + 1
      <4>1. f[i] = g[i] /\ i \in 1..n
        BY <3>4
      <4>2. QED
        BY <2>1, <3>2, <4>1
    <3>5. QED
      BY <3>3, <3>4
  <2> HIDE DEF f
  <2>7. QED
    BY <2>4, <2>5, <2>6, Zenon DEF Up
<1> HIDE DEF T, Up
<1>3. \A n \in Nat : n \in T
  BY <1>1, <1>2, AllNumbers
<1>4. Up(Len(cs))
  <2>1. Len(cs) \in Nat
    OBVIOUS
  <2>2. Len(cs) \in T
    BY <1>3, <2>1
  <2>3. QED
    BY <2>1, <2>2 DEF T
<1>5. QED
  BY <1>4, Zenon DEF Joins, Up

LEMMA JoinsAre ==
  ASSUME NEW S, NEW cs \in Seq(Seq(S)), NEW g, Joins(S, cs, g)
  PROVE  FlattenSeq(cs) = g[Len(cs)] /\ FlattenSeq(cs) \in Seq(S)
<1> DEFINE n == Len(cs)
           f == [i \in 1..n |-> g[i]]
           h == CHOOSE h : h = [i \in 1..n |-> IF i = 1 THEN cs[i] ELSE h[i - 1] \o cs[i]]
<1>0. n \in Nat /\ g \in [0..n -> Seq(S)] /\ g[0] = <<>> /\ \A i \in 1..n : g[i] = g[i - 1] \o cs[i]
  BY JoinsTyped
<1>1. CASE n = 0
  <2>1. FlattenSeq(cs) = cs /\ cs = <<>>
    BY <1>1 DEF FlattenSeq
  <2>2. QED
    BY <1>0, <1>1, <2>1
<1>2. CASE n # 0
  <2>1. FlattenSeq(cs) = h[n]
    BY <1>2 DEF FlattenSeq
  <2>2. 1 \in 1..n /\ n \in 1..n
    <3> HIDE DEF n
    <3>1. QED
      BY <1>0, <1>2
  <2>3. g[1] = cs[1]
    <3>1. g[1] = <<>> \o cs[1]
      <4>1. g[1] = g[1 - 1] \o cs[1]
        BY <1>0, <2>2, Zenon
      <4>2. 1 - 1 = 0
        OBVIOUS
      <4>3. QED
        BY <1>0, <4>1, <4>2
    <3>2. cs[1] \in Seq(S)
      BY <2>2, SeqElement
    <3>3. QED
      BY <3>1, <3>2
  <2>4. f = [i \in 1..n |-> IF i = 1 THEN cs[i] ELSE f[i - 1] \o cs[i]]
    <3>1. ASSUME NEW i \in 1..n
          PROVE  f[i] = IF i = 1 THEN cs[i] ELSE f[i - 1] \o cs[i]
      <4>1. CASE i = 1
        BY <2>3, <4>1
      <4>2. CASE i # 1
        <5>1. i - 1 \in 1..n
          BY <4>2
        <5>2. f[i - 1] = g[i - 1] /\ f[i] = g[i]
          BY <5>1
        <5>3. QED
          BY <1>0, <4>2, <5>2
      <4>3. QED
        BY <4>1, <4>2
    <3>2. f = [i \in 1..n |-> f[i]]
      OBVIOUS
    <3> HIDE DEF f
    <3>3. QED
      BY <3>1, <3>2
  <2>5. h = [i \in 1..n |-> IF i = 1 THEN cs[i] ELSE h[i - 1] \o cs[i]]
    <3> HIDE DEF f
    <3>1. QED
      BY <2>4
  <2> HIDE DEF h
  <2> DEFINE T == {k \in Nat : k + 1 <= n => h[k + 1] = g[k + 1]}
  <2>6. 0 \in T
    <3>1. h[1] = cs[1]
      BY <2>2, <2>5
    <3>2. QED
      BY <2>3, <3>1
  <2>7. ASSUME NEW k \in Nat, k \in T PROVE k + 1 \in T
    <3> HIDE DEF n
    <3> SUFFICES ASSUME (k + 1) + 1 <= n PROVE h[(k + 1) + 1] = g[(k + 1) + 1]
      OBVIOUS
    <3>1. /\ (k + 1) + 1 \in 1..n /\ (k + 1) + 1 # 1 /\ ((k + 1) + 1) - 1 = k + 1 /\ k + 1 <= n
      BY <1>0
    <3>2. h[(k + 1) + 1] = h[((k + 1) + 1) - 1] \o cs[(k + 1) + 1]
      BY <2>5, <3>1
    <3>3. h[k + 1] = g[k + 1]
      BY <2>7, <3>1
    <3>4. QED
      BY <1>0, <3>1, <3>2, <3>3
  <2>8. \A k \in Nat : k \in T
    <3> HIDE DEF T
    <3>1. QED
      BY <2>6, <2>7, AllNumbers
  <2>9. h[n] = g[n]
    <3> HIDE DEF n
    <3>1. n - 1 \in Nat /\ (n - 1) + 1 = n /\ n <= n
      BY <1>0, <1>2
    <3>2. n - 1 \in T
      BY <2>8, <3>1
    <3> HIDE DEF T
    <3>3. (n - 1) + 1 <= n => h[(n - 1) + 1] = g[(n - 1) + 1]
      BY <3>2 DEF T
    <3>4. QED
      BY <3>1, <3>3
  <2>10. QED
    BY <1>0, <2>1, <2>2, <2>9
<1>3. QED
  BY <1>1, <1>2

LEMMA FlattenTyped ==
  ASSUME NEW S, NEW cs \in Seq(Seq(S))
  PROVE  FlattenSeq(cs) \in Seq(S)
  BY JoinsExist, JoinsAre

LEMMA FlattenFirst ==
  ASSUME NEW S, NEW c \in Seq(S), NEW cs \in Seq(Seq(S))
  PROVE  FlattenSeq(<<c>> \o cs) = c \o FlattenSeq(cs)
<1> DEFINE n == Len(cs)
           ds == <<c>> \o cs
<1>1. PICK g : Joins(S, cs, g)
  BY JoinsExist
<1> DEFINE f == [i \in 0..n + 1 |-> IF i = 0 THEN <<>> ELSE c \o g[i - 1]]
<1>2. n \in Nat /\ g \in [0..n -> Seq(S)] /\ g[0] = <<>> /\ \A i \in 1..n : g[i] = g[i - 1] \o cs[i]
  BY <1>1, JoinsTyped
<1>3. /\ ds \in Seq(Seq(S)) /\ Len(ds) = n + 1 /\ ds[1] = c
      /\ \A i \in 1..n : ds[i + 1] = cs[i]
  OBVIOUS
<1>4. Joins(S, ds, f)
  <2> HIDE DEF n, ds
  <2>1. ASSUME NEW i \in 1..n + 1
        PROVE  i - 1 \in 0..n /\ g[i - 1] \in Seq(S) /\ c \o g[i - 1] \in Seq(S)
    <3>1. i - 1 \in 0..n
      BY <1>2
    <3>2. g[i - 1] \in Seq(S)
      BY <1>2, <3>1
    <3>3. QED
      BY <3>1, <3>2, Joined
  <2>2. f \in [0..n + 1 -> Seq(S)]
    BY <2>1
  <2>3. f[0] = <<>>
    BY <1>2
  <2>4. ASSUME NEW i \in 1..n + 1 PROVE f[i] = f[i - 1] \o ds[i]
    <3>1. f[i] = c \o g[i - 1]
      <4>1. i \in 0..n + 1 /\ i # 0
        BY <1>2
      <4>2. QED
        BY <4>1
    <3>2. CASE i = 1
      <4>1. f[i] = c /\ f[i - 1] = <<>> /\ ds[i] = c
        <5>1. g[0] = <<>> /\ i - 1 = 0
          BY <1>2, <3>2
        <5>2. c \o <<>> = c
          OBVIOUS
        <5>3. QED
          BY <1>3, <2>3, <3>1, <3>2, <5>1, <5>2
      <4> HIDE DEF f
      <4>2. QED
        BY <4>1
    <3>3. CASE i # 1
      <4> DEFINE j == i - 1
      <4>1. j \in 1..n /\ i = j + 1 /\ j \in 0..n + 1 /\ j # 0 /\ j - 1 \in 0..n /\ j \in 1..Len(cs)
        BY <1>2, <3>3 DEF n
      <4> HIDE DEF j
      <4>2. f[j] = c \o g[j - 1]
        BY <4>1
      <4>3. g[j] = g[j - 1] \o cs[j]
        BY <1>2, <4>1
      <4>4. g[j - 1] \in Seq(S) /\ cs[j] \in Seq(S)
        BY <1>2, <4>1, SeqElement
      <4>5. (c \o g[j - 1]) \o cs[j] = c \o (g[j - 1] \o cs[j])
        <5>1. \A x, y \in Seq(S) : (c \o x) \o y = c \o (x \o y)
          BY ConcatAssociative
        <5>2. QED
          BY <4>4, <5>1
      <4> HIDE DEF f
      <4>6. f[i] = c \o g[j] /\ ds[i] = cs[j] /\ i - 1 = j
        <5>1. i - 1 = j
          BY <4>1
        <5>2. ds[j + 1] = cs[j]
          BY <1>3, <4>1
        <5>3. QED
          BY <3>1, <4>1, <5>1, <5>2
      <4>7. QED
        BY <4>2, <4>3, <4>5, <4>6
    <3>4. QED
      BY <3>2, <3>3
  <2>5. QED
    BY <1>3, <2>2, <2>3, <2>4 DEF Joins
<1>5. FlattenSeq(ds) = f[n + 1]
  BY <1>3, <1>4, JoinsAre
<1>6. FlattenSeq(cs) = g[n]
  BY <1>1, JoinsAre
<1>7. f[n + 1] = c \o g[n]
  <2> HIDE DEF n
  <2>1. n + 1 \in 0..n + 1 /\ n + 1 # 0 /\ (n + 1) - 1 = n
    BY <1>2
  <2>2. QED
    BY <2>1
<1>8. QED
  BY <1>5, <1>6, <1>7

\* What a vocabulary v makes of tokens.
Spell(v, ts) == FlattenSeq([i \in DOMAIN ts |-> v[ts[i]]])

Put(t, ts) == <<t>> \o ts
Vocabulary(v, D, S) == v \in [D -> Seq(S)]

LEMMA SpelledEach ==
  ASSUME NEW S, NEW D, NEW v \in [D -> Seq(S)], NEW ts \in Seq(D)
  PROVE  LET cs == [i \in DOMAIN ts |-> v[ts[i]]]
         IN  cs \in Seq(Seq(S)) /\ Len(cs) = Len(ts) /\ \A i \in 1..Len(ts) : cs[i] = v[ts[i]]
<1>1. DOMAIN ts = 1..Len(ts) /\ Len(ts) \in Nat
  OBVIOUS
<1>2. \A i \in 1..Len(ts) : v[ts[i]] \in Seq(S)
  BY SeqElement
<1>3. [i \in DOMAIN ts |-> v[ts[i]]] \in [1..Len(ts) -> Seq(S)]
  BY <1>1, <1>2
<1>4. QED
  BY <1>1, <1>3, SeqFunction

LEMMA SpellEmpty ==
  ASSUME NEW v
  PROVE  Spell(v, <<>>) = <<>>
<1>1. [i \in DOMAIN <<>> |-> v[<<>>[i]]] = <<>>
  OBVIOUS
<1>2. FlattenSeq(<<>>) = <<>>
  BY DEF FlattenSeq
<1>3. QED
  BY <1>1, <1>2 DEF Spell

LEMMA SpellTyped ==
  ASSUME NEW S, NEW D, NEW v, Vocabulary(v, D, S), NEW ts \in Seq(D)
  PROVE  Spell(v, ts) \in Seq(S)
<1>1. [i \in DOMAIN ts |-> v[ts[i]]] \in Seq(Seq(S))
  BY SpelledEach DEF Vocabulary
<1>2. QED
  BY <1>1, FlattenTyped DEF Spell

LEMMA SpellFirst ==
  ASSUME NEW S, NEW D, NEW v, Vocabulary(v, D, S), NEW t \in D, NEW ts \in Seq(D)
  PROVE  Put(t, ts) \in Seq(D) /\ Spell(v, Put(t, ts)) = v[t] \o Spell(v, ts)
<1> DEFINE us == <<t>> \o ts
           cs == [i \in DOMAIN ts |-> v[ts[i]]]
           ds == [i \in DOMAIN us |-> v[us[i]]]
           es == <<v[t]>> \o cs
<1>0. v \in [D -> Seq(S)]
  BY DEF Vocabulary
<1>1. us \in Seq(D) /\ Len(us) = Len(ts) + 1 /\ us[1] = t /\ (\A i \in 1..Len(ts) : us[1 + i] = ts[i])
  OBVIOUS
<1>2. /\ cs \in Seq(Seq(S)) /\ Len(cs) = Len(ts) /\ \A i \in 1..Len(ts) : cs[i] = v[ts[i]]
  BY <1>0, SpelledEach
<1>3. ds \in Seq(Seq(S)) /\ Len(ds) = Len(us) /\ \A i \in 1..Len(us) : ds[i] = v[us[i]]
  BY <1>0, <1>1, SpelledEach
<1> HIDE DEF cs, ds, us
<1>4. /\ es \in Seq(Seq(S)) /\ Len(es) = Len(cs) + 1 /\ es[1] = v[t]
      /\ \A i \in 1..Len(cs) : es[1 + i] = cs[i]
  <2>1. <<v[t]>> \in Seq(Seq(S)) /\ Len(<<v[t]>>) = 1 /\ <<v[t]>>[1] = v[t]
    BY <1>0
  <2>2. QED
    BY <1>2, <2>1, Joined
<1> HIDE DEF es
<1>5. ASSUME NEW i \in 1..Len(ds) PROVE ds[i] = es[i]
  <2>1. Len(ts) \in Nat /\ Len(ds) = Len(ts) + 1
    BY <1>1, <1>3
  <2>2. CASE i = 1
    BY <1>1, <1>3, <1>4, <2>2
  <2>3. CASE i # 1
    <3>1. i - 1 \in 1..Len(ts) /\ 1 + (i - 1) = i /\ i \in 1..Len(us)
      BY <1>3, <2>1, <2>3
    <3>2. ds[i] = v[us[i]] /\ us[i] = ts[i - 1]
      BY <1>1, <1>3, <3>1
    <3>3. es[i] = cs[i - 1] /\ cs[i - 1] = v[ts[i - 1]]
      BY <1>2, <1>4, <3>1
    <3>4. QED
      BY <3>2, <3>3
  <2>4. QED
    BY <2>2, <2>3
<1>6. ds = es
  <2>1. Len(ds) = Len(es)
    BY <1>1, <1>2, <1>3, <1>4
  <2>2. QED
    BY <1>3, <1>4, <1>5, <2>1, SeqEqual
<1>7. FlattenSeq(es) = v[t] \o FlattenSeq(cs)
  BY <1>0, <1>2, FlattenFirst DEF es
<1>8. QED
  BY <1>1, <1>6, <1>7 DEF Spell, Put, cs, ds, us

SpellsOn(v, D) ==
  \A t \in D, us \in Seq(D) : Put(t, us) \in Seq(D) /\ Spell(v, Put(t, us)) = v[t] \o Spell(v, us)

LEMMA SpellingGoesOn ==
  ASSUME NEW S, NEW D, NEW v, Vocabulary(v, D, S)
  PROVE  SpellsOn(v, D)
<1>1. SUFFICES ASSUME NEW t \in D, NEW us \in Seq(D)
               PROVE  Put(t, us) \in Seq(D) /\ Spell(v, Put(t, us)) = v[t] \o Spell(v, us)
  BY DEF SpellsOn
<1>2. QED
  BY SpellFirst

LEMMA Beginning ==
  ASSUME NEW S, NEW w \in Seq(S), NEW i \in 0..Len(w)
  PROVE  SubSeq(w, 1, i) \in Seq(S)
  OBVIOUS

\* Byte tokens spell the bytes.
LEMMA BytesSpell ==
  ASSUME NEW w \in Seq(0..ByteCount - 1),
         NEW v, v = [t \in Specials..Specials + ByteCount - 1 |-> <<t - Specials>>]
  PROVE  /\ ByteTokens(w) \in Seq(Specials..Specials + ByteCount - 1) /\ Spell(v, ByteTokens(w)) = w
<1> DEFINE B == 0..ByteCount - 1
           D == Specials..Specials + ByteCount - 1
           n == Len(w)
           ts == ByteTokens(w)
           cs == [i \in DOMAIN ts |-> v[ts[i]]]
           g == [i \in 0..n |-> SubSeq(w, 1, i)]
<1>1. n \in Nat /\ DOMAIN w = 1..n /\ ts = [i \in 1..n |-> w[i] + Specials]
  BY DEF ByteTokens
<1>2. \A i \in 1..n : w[i] \in B
  BY SeqElement
<1>3. \A b \in B : b + Specials \in D /\ (b + Specials) - Specials = b
  BY BpeAssumption
<1>4. ts \in [1..n -> D]
  <2> HIDE DEF ts, D, B
  <2>1. QED
    BY <1>1, <1>2, <1>3
<1>5. ASSUME NEW i \in 1..n PROVE v[ts[i]] = <<w[i]>>
  <2>1. ts[i] = w[i] + Specials /\ w[i] + Specials \in D /\ (w[i] + Specials) - Specials = w[i]
    BY <1>1, <1>2, <1>3
  <2> HIDE DEF ts
  <2>2. QED
    BY <2>1
<1>6. cs = [i \in 1..n |-> <<w[i]>>]
  <2>1. DOMAIN ts = 1..n
    BY <1>1
  <2> HIDE DEF ts
  <2>2. QED
    BY <1>5, <2>1
<1> HIDE DEF cs, ts, D
<1>7. cs \in [1..n -> Seq(B)]
  <2>1. \A i \in 1..n : <<w[i]>> \in Seq(B)
    BY <1>2
  <2>2. QED
    BY <1>6, <2>1
<1>8. cs \in Seq(Seq(B)) /\ Len(cs) = n
  BY <1>1, <1>7, SeqFunction
<1>9. Joins(B, cs, g)
  <2>1. g \in [0..n -> Seq(B)] /\ g[0] = <<>>
    <3>1. ASSUME NEW i \in 0..n PROVE SubSeq(w, 1, i) \in Seq(B)
      BY Beginning
    <3>2. 0 \in 0..n /\ SubSeq(w, 1, 0) = <<>>
      BY <1>1
    <3>3. QED
      BY <3>1, <3>2
  <2>2. ASSUME NEW i \in 1..n PROVE g[i] = g[i - 1] \o cs[i]
    <3>1. i \in 0..n /\ i - 1 \in 0..n
      BY <1>1
    <3>2. cs[i] = <<w[i]>>
      BY <1>6
    <3>3. SubSeq(w, 1, i) = SubSeq(w, 1, i - 1) \o <<w[i]>>
      BY <1>1
    <3>4. QED
      BY <3>1, <3>2, <3>3
  <2> HIDE DEF g, n
  <2>3. QED
    BY <1>8, <2>1, <2>2 DEF Joins
<1>10. FlattenSeq(cs) = g[n]
  BY <1>8, <1>9, JoinsAre
<1>11. g[n] = w
  BY <1>1
<1>12. ts \in Seq(D)
  BY <1>1, <1>4, SeqFunction
<1>13. QED
  BY <1>10, <1>11, <1>12 DEF Spell, cs, ts, D

\* The rests of a word as merge_word_tokens leaves them, from each place on.
RestsMerged(ts, pair, new, r) ==
  r = [i \in 1..Len(ts) + 1 |->
         IF i > Len(ts) THEN <<>>
         ELSE IF i < Len(ts) /\ PairAt(ts, i) = pair THEN <<new>> \o r[i + 2]
         ELSE <<ts[i]>> \o r[i + 1]]

LEMMA MergedExists ==
  ASSUME NEW ts, Len(ts) \in Nat, NEW pair, NEW new
  PROVE  \E r : RestsMerged(ts, pair, new, r)
<1> DEFINE n == Len(ts)
           Body(r, i) == IF i > n THEN <<>>
                         ELSE IF i < n /\ PairAt(ts, i) = pair THEN <<new>> \o r[i + 2]
                         ELSE <<ts[i]>> \o r[i + 1]
           T == {i \in 1..n + 1 : \E r : r = [j \in i..n + 1 |-> Body(r, j)]}
<1> HIDE DEF n
<1>0. n \in Nat
  BY DEF n
<1>1. n + 1 \in T
  <2> DEFINE r == [j \in n + 1..n + 1 |-> <<>>]
  <2>1. \A j \in n + 1..n + 1 : Body(r, j) = <<>>
    BY <1>0
  <2>2. r = [j \in n + 1..n + 1 |-> Body(r, j)]
    <3> HIDE DEF Body
    <3>1. QED
      BY <2>1
  <2> HIDE DEF r, Body
  <2>3. QED
    BY <1>0, <2>2
<1>2. ASSUME NEW i \in 1..n, i + 1 \in T PROVE i \in T
  <2> HIDE DEF Body
  <2>1. PICK r : r = [j \in i + 1..n + 1 |-> Body(r, j)]
    BY <1>2
  <2> DEFINE f == [j \in i..n + 1 |-> IF j = i THEN Body(r, i) ELSE r[j]]
  <2>2. ASSUME NEW j \in i..n + 1 PROVE f[j] = Body(f, j)
    <3>0. \A m \in i + 1..n + 1 : f[m] = r[m]
      BY <1>0
    <3>1. Body(f, j) = Body(r, j)
      <4> HIDE DEF f
      <4>1. CASE j > n
        BY <1>0, <4>1 DEF Body
      <4>2. CASE ~ (j > n)
        <5>1. f[j + 1] = r[j + 1]
          BY <1>0, <3>0, <4>2
        <5>2. j < n => f[j + 2] = r[j + 2]
          BY <1>0, <3>0, <4>2
        <5>3. QED
          BY <4>2, <5>1, <5>2 DEF Body
      <4>3. QED
        BY <4>1, <4>2
    <3>2. CASE j = i
      BY <3>1, <3>2
    <3>3. CASE j # i
      <4>1. j \in i + 1..n + 1
        BY <1>0, <3>3
      <4>2. r[j] = Body(r, j)
        BY <2>1, <4>1
      <4>3. f[j] = r[j]
        BY <3>0, <4>1
      <4>4. QED
        BY <3>1, <4>2, <4>3
    <3>4. QED
      BY <3>2, <3>3
  <2>3. f = [j \in i..n + 1 |-> f[j]]
    OBVIOUS
  <2> HIDE DEF f
  <2>4. f = [j \in i..n + 1 |-> Body(f, j)]
    BY <2>2, <2>3
  <2>5. i \in 1..n + 1
    BY <1>0
  <2>6. QED
    BY <2>4, <2>5
<1> HIDE DEF T
<1>3. \A i \in 1..n + 1 : i \in T
  BY <1>0, <1>1, <1>2, FromTheEnd
<1>4. 1 \in T
  BY <1>0, <1>3
<1>5. QED
  BY <1>4 DEF T, Body, n, RestsMerged

Rests(ts, pair, new, r) ==
  /\ MergeWord(ts, pair, new) = r[1] /\ r[Len(ts) + 1] = <<>>
  /\ \A i \in 1..Len(ts) :
       r[i] = IF i < Len(ts) /\ PairAt(ts, i) = pair THEN Put(new, r[i + 2]) ELSE Put(ts[i], r[i + 1])

LEMMA MergedRests ==
  ASSUME NEW ts, Len(ts) \in Nat, NEW pair, NEW new
  PROVE  \E r : Rests(ts, pair, new, r)
<1> DEFINE n == Len(ts)
           g == CHOOSE g : RestsMerged(ts, pair, new, g)
<1>1. MergeWord(ts, pair, new) = g[1]
  BY DEF MergeWord, RestsMerged
<1>2. RestsMerged(ts, pair, new, g)
  BY MergedExists
<1> HIDE DEF g
<1>3. \A i \in 1..n + 1 : g[i] = IF i > n THEN <<>>
         ELSE IF i < n /\ PairAt(ts, i) = pair THEN <<new>> \o g[i + 2]
         ELSE <<ts[i]>> \o g[i + 1]
  BY <1>2 DEF RestsMerged
<1> HIDE DEF n
<1>4. n \in Nat
  BY DEF n
<1>5. n + 1 \in 1..n + 1 /\ n + 1 > n /\ \A i \in 1..n : i \in 1..n + 1 /\ ~ (i > n)
  BY <1>4
<1>6. g[n + 1] = <<>>
  BY <1>3, <1>5
<1>7. ASSUME NEW i \in 1..n
      PROVE  g[i] = IF i < n /\ PairAt(ts, i) = pair THEN <<new>> \o g[i + 2] ELSE <<ts[i]>> \o g[i + 1]
  BY <1>3, <1>5
<1>8. Rests(ts, pair, new, g)
  BY <1>1, <1>6, <1>7 DEF n, Rests, Put
<1>9. QED
  BY <1>8

LEMMA Prepended ==
  ASSUME NEW S, NEW t \in S, NEW s \in Seq(S)
  PROVE  /\ Put(t, s) \in Seq(S) /\ Len(Put(t, s)) = Len(s) + 1 /\ Put(t, s)[1] = t
         /\ \A i \in 1..Len(s) : Put(t, s)[i + 1] = s[i]
  BY DEF Put

LEMMA PartsOfRest ==
  ASSUME NEW D, NEW ts \in Seq(D), NEW i \in 1..Len(ts)
  PROVE  /\ SubSeq(ts, i, Len(ts)) = Put(ts[i], SubSeq(ts, i + 1, Len(ts)))
         /\ SubSeq(ts, i, Len(ts)) \in Seq(D) /\ SubSeq(ts, i + 1, Len(ts)) \in Seq(D) /\ ts[i] \in D
<1>1. Len(ts) \in Nat /\ Len(ts) \in i..Len(ts) /\ ts[i] \in D
  BY SeqElement
<1>2. SubSeq(ts, i, Len(ts)) = Put(ts[i], SubSeq(ts, i + 1, Len(ts)))
  BY <1>1, SubSeqRecursiveFirst DEF Put
<1>3. SubSeq(ts, i + 1, Len(ts)) \in Seq(D)
  BY <1>1
<1>4. QED
  BY <1>1, <1>2, <1>3, Prepended

LEMMA Regrouped ==
  ASSUME NEW S
  PROVE  \A x, y, z \in Seq(S) : (x \o y) \o z = x \o (y \o z)
<1> TAKE x, y, z \in Seq(S)
<1>1. QED
  BY ConcatAssociative

MergeFits(D, S, v, ts, a, b, new) ==
  /\ ts \in Seq(D) /\ a \in D /\ b \in D /\ new \in D
  /\ Vocabulary(v, D, S) /\ v[new] = v[a] \o v[b]

\* Merging a pair whose bytes the new token stands for changes no spelling.
LEMMA MergeSpells ==
  ASSUME NEW D, NEW S, NEW v, NEW ts, NEW a, NEW b, NEW new, MergeFits(D, S, v, ts, a, b, new)
  PROVE  /\ MergeWord(ts, <<a, b>>, new) \in Seq(D)
         /\ Spell(v, MergeWord(ts, <<a, b>>, new)) = Spell(v, ts)
<1> SUFFICES ASSUME ts \in Seq(D), a \in D, b \in D, new \in D, Vocabulary(v, D, S), v[new] = v[a] \o v[b]
             PROVE  /\ MergeWord(ts, <<a, b>>, new) \in Seq(D)
                    /\ Spell(v, MergeWord(ts, <<a, b>>, new)) = Spell(v, ts)
  BY DEF MergeFits
<1> DEFINE n == Len(ts)
           LeftOver(i) == SubSeq(ts, i, n)
           pair == <<a, b>>
<1>0. n \in Nat
  OBVIOUS
<1> HIDE DEF pair
<1>a. PICK r : Rests(ts, pair, new, r)
  <2>1. Len(ts) \in Nat
    OBVIOUS
  <2>2. QED
    BY <2>1, MergedRests
<1>1. /\ MergeWord(ts, pair, new) = r[1] /\ r[n + 1] = <<>>
      /\ \A i \in 1..n : r[i] = IF i < n /\ PairAt(ts, i) = pair THEN Put(new, r[i + 2])
                                ELSE Put(ts[i], r[i + 1])
  BY <1>a, Zenon DEF Rests
<1>9. ASSUME NEW us \in Seq(D) PROVE Spell(v, us) \in Seq(S)
  BY SpellTyped
<1>11. ASSUME NEW t \in D, NEW us \in Seq(D)
       PROVE  Put(t, us) \in Seq(D) /\ Spell(v, Put(t, us)) = v[t] \o Spell(v, us)
  <2>1. SpellsOn(v, D)
    BY SpellingGoesOn
  <2>2. QED
    BY <2>1 DEF SpellsOn
<1>10. \A x, y, z \in Seq(S) : (x \o y) \o z = x \o (y \o z)
  BY Regrouped
<1> DEFINE T == {i \in Nat : r[i] \in Seq(D) /\ Spell(v, r[i]) = Spell(v, LeftOver(i))}
<1>2. LeftOver(n + 1) = <<>> /\ LeftOver(1) = ts
  BY <1>0
<1>3. n + 1 \in T
  <2>1. <<>> \in Seq(D)
    OBVIOUS
  <2>2. n + 1 \in Nat /\ r[n + 1] = LeftOver(n + 1) /\ r[n + 1] \in Seq(D)
    BY <1>0, <1>1, <1>2, <2>1
  <2> HIDE DEF n, LeftOver
  <2>3. QED
    BY <2>2
<1>4. ASSUME NEW i \in 1..n PROVE /\ LeftOver(i) = Put(ts[i], LeftOver(i + 1))
                                  /\ LeftOver(i) \in Seq(D) /\ LeftOver(i + 1) \in Seq(D) /\ ts[i] \in D
  BY PartsOfRest
<1> HIDE DEF n, LeftOver
<1>5. ASSUME NEW i \in 1..n, i + 1 \in T, i = n \/ i + 2 \in T PROVE i \in T
  <2>1. CASE i < n /\ PairAt(ts, i) = pair
    <3>1. i + 2 \in T /\ i + 1 \in 1..n /\ (i + 1) + 1 = i + 2 /\ i \in Nat
      BY <1>0, <1>5, <2>1
    <3>2. r[i] = Put(new, r[i + 2]) /\ r[i + 2] \in Seq(D) /\ Spell(v, r[i + 2]) = Spell(v, LeftOver(i + 2))
      BY <1>1, <2>1, <3>1
    <3>3. ts[i] = a /\ ts[i + 1] = b
      BY <2>1 DEF PairAt, pair
    <3>4. r[i] \in Seq(D) /\ Spell(v, r[i]) = (v[a] \o v[b]) \o Spell(v, r[i + 2])
      BY <3>2, <1>11
    <3>5. LeftOver(i) = Put(a, LeftOver(i + 1)) /\ LeftOver(i + 1) = Put(b, LeftOver(i + 2)) /\ LeftOver(i + 2) \in Seq(D) /\ LeftOver(i + 1) \in Seq(D)
      BY <1>4, <3>1, <3>3
    <3>6. Spell(v, LeftOver(i)) = v[a] \o Spell(v, LeftOver(i + 1)) /\ Spell(v, LeftOver(i + 1)) = v[b] \o Spell(v, LeftOver(i + 2))
      BY <3>5, <1>11
    <3>7. (v[a] \o v[b]) \o Spell(v, LeftOver(i + 2)) = v[a] \o (v[b] \o Spell(v, LeftOver(i + 2)))
      <4>1. v[a] \in Seq(S) /\ v[b] \in Seq(S) /\ Spell(v, LeftOver(i + 2)) \in Seq(S)
        BY <3>5, <1>9 DEF Vocabulary
      <4>2. QED
        BY <4>1, <1>10
    <3>8. QED
      BY <3>1, <3>2, <3>4, <3>6, <3>7
  <2>2. CASE ~ (i < n /\ PairAt(ts, i) = pair)
    <3>1. r[i] = Put(ts[i], r[i + 1]) /\ r[i + 1] \in Seq(D) /\ Spell(v, r[i + 1]) = Spell(v, LeftOver(i + 1))
      BY <1>1, <1>5, <2>2
    <3>2. Spell(v, LeftOver(i)) = v[ts[i]] \o Spell(v, LeftOver(i + 1))
      BY <1>4, <1>11
    <3>3. r[i] \in Seq(D) /\ Spell(v, r[i]) = v[ts[i]] \o Spell(v, r[i + 1])
      BY <1>4, <3>1, <1>11
    <3>4. QED
      <4>1. i \in Nat /\ r[i] \in Seq(D) /\ Spell(v, r[i]) = Spell(v, LeftOver(i))
        BY <1>0, <3>1, <3>2, <3>3
      <4>2. QED
        BY <4>1
  <2>3. QED
    BY <2>1, <2>2
<1> HIDE DEF T
<1>6. \A i \in 1..n + 1 : i \in T
  BY <1>0, <1>3, <1>5, FromTheEnd
<1>7. 1 \in T
  BY <1>0, <1>6
<1>8. QED
  BY <1>1, <1>2, <1>7 DEF T, pair

PutsOn(S) ==
  \A t \in S, s \in Seq(S) :
    /\ Put(t, s) \in Seq(S) /\ Len(Put(t, s)) = Len(s) + 1 /\ Put(t, s)[1] = t
    /\ \A i \in 1..Len(s) : Put(t, s)[i + 1] = s[i]
    /\ Len(s) \in Nat /\ (s # <<>> => Len(s) > 0) /\ (s = <<>> => Len(s) = 0)

LEMMA PuttingOn ==
  ASSUME NEW S
  PROVE  PutsOn(S)
<1>1. SUFFICES ASSUME NEW t \in S, NEW s \in Seq(S)
      PROVE  /\ Put(t, s) \in Seq(S) /\ Len(Put(t, s)) = Len(s) + 1 /\ Put(t, s)[1] = t
             /\ \A i \in 1..Len(s) : Put(t, s)[i + 1] = s[i]
             /\ Len(s) \in Nat /\ (s # <<>> => Len(s) > 0) /\ (s = <<>> => Len(s) = 0)
  BY DEF PutsOn
<1>2. Len(s) \in Nat /\ (s # <<>> => Len(s) > 0) /\ (s = <<>> => Len(s) = 0)
  OBVIOUS
<1>3. QED
  BY <1>2, Prepended

\* Neighbours in what a merge leaves.
Apart(D, pair, ts, m) ==
  \A j \in 1..Len(m) - 1 :
    m[j] \in D /\ m[j + 1] \in D => /\ PairAt(m, j) # pair
                                    /\ \E k \in 1..Len(ts) - 1 : PairAt(m, j) = PairAt(ts, k)

\* What stands in front of a rest is at the end of no pair but the first one.
LEMMA ApartPut ==
  ASSUME NEW D, NEW pair, NEW ts, NEW E, NEW t \in E, NEW m \in Seq(E), Apart(D, pair, ts, m),
         m # <<>> /\ t \in D /\ m[1] \in D
           => <<t, m[1]>> # pair /\ \E k \in 1..Len(ts) - 1 : <<t, m[1]>> = PairAt(ts, k)
  PROVE  Apart(D, pair, ts, Put(t, m))
<1> DEFINE p == Put(t, m)
<1>1. /\ p \in Seq(E) /\ Len(p) = Len(m) + 1 /\ p[1] = t /\ \A i \in 1..Len(m) : p[i + 1] = m[i]
      /\ Len(m) \in Nat /\ (m # <<>> => Len(m) > 0) /\ (m = <<>> => Len(m) = 0)
  <2>1. PutsOn(E)
    BY PuttingOn
  <2>2. QED
    BY <2>1 DEF PutsOn
<1> HIDE DEF p
<1>2. ASSUME NEW j \in 1..Len(p) - 1, p[j] \in D, p[j + 1] \in D
      PROVE  PairAt(p, j) # pair /\ \E k \in 1..Len(ts) - 1 : PairAt(p, j) = PairAt(ts, k)
  <2>1. CASE j = 1
    <3>1. m # <<>> /\ 1 \in 1..Len(m)
      BY <1>1, <2>1
    <3>2. p[j] = t /\ p[j + 1] = m[1]
      BY <1>1, <2>1, <3>1
    <3>3. PairAt(p, j) = <<t, m[1]>>
      BY <3>2 DEF PairAt
    <3>4. QED
      BY <1>2, <3>1, <3>2, <3>3
  <2>2. CASE j # 1
    <3> DEFINE i == j - 1
    <3>1. i \in 1..Len(m) - 1 /\ i \in 1..Len(m) /\ i + 1 \in 1..Len(m) /\ j = i + 1 /\ (i + 1) + 1 = j + 1
      BY <1>1, <2>2
    <3> HIDE DEF i
    <3>2. p[j] = m[i] /\ p[j + 1] = m[i + 1]
      BY <1>1, <3>1
    <3>3. PairAt(p, j) = PairAt(m, i)
      BY <3>2 DEF PairAt
    <3>4. QED
      BY <1>2, <3>1, <3>2, <3>3 DEF Apart
  <2>3. QED
    BY <2>1, <2>2
<1>3. QED
  BY <1>2 DEF Apart, p

\* Two old tokens that are neighbours after a merge were neighbours before it,
\* and are not the pair that was merged.
LEMMA MergeSeparates ==
  ASSUME NEW D, NEW ts \in Seq(D), NEW new, new \notin D, NEW pair
  PROVE  Apart(D, pair, ts, MergeWord(ts, pair, new))
<1> DEFINE n == Len(ts)
           E == D \cup {new}
<1>0. n \in Nat /\ \A i \in 1..n : ts[i] \in D
  BY SeqElement
<1>a. PICK r : Rests(ts, pair, new, r)
  BY <1>0, MergedRests
<1>1. /\ MergeWord(ts, pair, new) = r[1] /\ r[n + 1] = <<>>
      /\ \A i \in 1..n : r[i] = IF i < n /\ PairAt(ts, i) = pair THEN Put(new, r[i + 2])
                                ELSE Put(ts[i], r[i + 1])
  BY <1>a, Zenon DEF Rests
<1>2. new \in E /\ \A i \in 1..n : ts[i] \in E
  BY <1>0
<1> DEFINE StartsSo(i) == IF i = n + 1 THEN r[i] = <<>> ELSE r[i][1] \in {new, ts[i]}
           T == {i \in Nat : r[i] \in Seq(E) /\ StartsSo(i) /\ Apart(D, pair, ts, r[i])}
<1>3. n + 1 \in T
  <2>1. <<>> \in Seq(E) /\ Len(<<>>) = 0 /\ n + 1 \in Nat
    BY <1>0
  <2>2. Apart(D, pair, ts, <<>>)
    BY <2>1 DEF Apart
  <2> HIDE DEF n, E
  <2>3. QED
    BY <1>1, <2>1, <2>2
<1> HIDE DEF n, E, StartsSo
<1>4. /\ \A t \in E, us \in Seq(E) : Put(t, us) \in Seq(E) /\ Put(t, us)[1] = t
  <2>1. PutsOn(E)
    BY PuttingOn
  <2>2. QED
    BY <2>1 DEF PutsOn
<1>5. ASSUME NEW i \in 1..n, i + 1 \in T, i = n \/ i + 2 \in T PROVE i \in T
  <2>0. i \in Nat /\ i # n + 1 /\ i + 1 \in 1..n + 1
    BY <1>0
  <2>1. CASE i < n /\ PairAt(ts, i) = pair
    <3>1. r[i] = Put(new, r[i + 2]) /\ r[i + 2] \in Seq(E) /\ Apart(D, pair, ts, r[i + 2])
      BY <1>0, <1>1, <1>5, <2>1
    <3>2. r[i] \in Seq(E) /\ r[i][1] = new
      BY <1>2, <1>4, <3>1
    <3>3. Apart(D, pair, ts, r[i])
      BY <1>2, <3>1, ApartPut
    <3>4. QED
      BY <2>0, <3>2, <3>3 DEF StartsSo
  <2>2. CASE ~ (i < n /\ PairAt(ts, i) = pair)
    <3>1. r[i] = Put(ts[i], r[i + 1]) /\ r[i + 1] \in Seq(E) /\ Apart(D, pair, ts, r[i + 1]) /\ StartsSo(i + 1)
      BY <1>1, <1>5, <2>2
    <3>2. r[i] \in Seq(E) /\ r[i][1] = ts[i]
      BY <1>2, <1>4, <3>1
    <3>3. ASSUME r[i + 1] # <<>>, r[i + 1][1] \in D
          PROVE  /\ <<ts[i], r[i + 1][1]>> # pair
                 /\ \E k \in 1..Len(ts) - 1 : <<ts[i], r[i + 1][1]>> = PairAt(ts, k)
      <4>1. i + 1 # n + 1 /\ r[i + 1][1] = ts[i + 1]
        BY <3>1, <3>3 DEF StartsSo
      <4>2. i < n /\ i \in 1..n - 1
        BY <1>0, <4>1
      <4>3. <<ts[i], r[i + 1][1]>> = PairAt(ts, i)
        BY <4>1 DEF PairAt
      <4>4. QED
        BY <2>2, <4>2, <4>3 DEF n
    <3>4. Apart(D, pair, ts, r[i])
      BY <1>2, <3>1, <3>3, ApartPut
    <3>5. QED
      BY <2>0, <3>2, <3>4 DEF StartsSo
  <2>3. QED
    BY <2>1, <2>2
<1> HIDE DEF T
<1>6. \A i \in 1..n + 1 : i \in T
  BY <1>0, <1>3, <1>5, FromTheEnd
<1>7. 1 \in T
  BY <1>0, <1>6
<1>8. QED
  BY <1>1, <1>7 DEF T

LEMMA OneMore ==
  ASSUME NEW A, IsFiniteSet(A), NEW x
  PROVE  /\ IsFiniteSet(A \cup {x}) /\ Cardinality(A) \in Nat /\ Cardinality(A \cup {x}) \in Nat
         /\ Cardinality(A \cup {x}) <= Cardinality(A) + 1
  BY FS_AddElement, FS_CardinalityType

LEMMA TwoMore ==
  ASSUME NEW A, IsFiniteSet(A), NEW x, NEW y, NEW B, B \subseteq (A \cup {x}) \cup {y}
  PROVE  Cardinality(B) <= Cardinality(A) + 2
<1>1. IsFiniteSet(A \cup {x}) /\ Cardinality(A) \in Nat /\ Cardinality(A \cup {x}) \in Nat
  BY OneMore
<1>2. Cardinality(A \cup {x}) <= Cardinality(A) + 1
  BY OneMore
<1> DEFINE C == A \cup {x}
<1> HIDE DEF C
<1>3. /\ IsFiniteSet(C \cup {y}) /\ Cardinality(C \cup {y}) \in Nat
      /\ Cardinality(C \cup {y}) <= Cardinality(C) + 1
  BY <1>1, OneMore DEF C
<1>4. Cardinality(B) <= Cardinality(C \cup {y}) /\ Cardinality(B) \in Nat
  <2>1. B \subseteq C \cup {y}
    BY DEF C
  <2>2. QED
    BY <1>3, <2>1, FS_Subset, FS_CardinalityType
<1>5. Cardinality(C) <= Cardinality(A) + 1 /\ Cardinality(C) \in Nat
  BY <1>1, <1>2 DEF C
<1>6. QED
  BY <1>1, <1>3, <1>4, <1>5

LEMMA HalfSaved ==
  ASSUME NEW n \in Nat, NEW i \in Nat, NEW m \in Nat, NEW c \in Nat, NEW d \in Nat
  PROVE  /\ 2 * (((n + 1) - (i + 2)) - m) >= d /\ c <= d + 2 => 2 * (((n + 1) - i) - (m + 1)) >= c
         /\ 2 * (((n + 1) - (i + 1)) - m) >= c => 2 * (((n + 1) - i) - (m + 1)) >= c
  OBVIOUS

\* A merge shortens a word by half of the pairs counted in it, or more.
LEMMA MergeShortens ==
  ASSUME NEW E, NEW ts \in Seq(E), NEW new \in E, NEW pair
  PROVE  LET count == Cardinality({i \in 1..Len(ts) - 1 : PairAt(ts, i) = pair})
             m == MergeWord(ts, pair, new)
         IN  /\ count \in Nat /\ Len(ts) \in Nat /\ Len(m) \in Nat
             /\ 2 * (Len(ts) - Len(m)) >= count
<1> DEFINE n == Len(ts)
           Places(i) == {k \in i..n - 1 : PairAt(ts, k) = pair}
<1>0. n \in Nat /\ \A i \in 1..n : ts[i] \in E
  BY SeqElement
<1>a. PICK r : Rests(ts, pair, new, r)
  BY <1>0, MergedRests
<1>1. /\ MergeWord(ts, pair, new) = r[1] /\ r[n + 1] = <<>>
      /\ \A i \in 1..n : r[i] = IF i < n /\ PairAt(ts, i) = pair THEN Put(new, r[i + 2])
                                ELSE Put(ts[i], r[i + 1])
  BY <1>a, Zenon DEF Rests
<1> HIDE DEF n
<1>2. \A i \in Nat : IsFiniteSet(Places(i)) /\ Cardinality(Places(i)) \in Nat
  <2>1. ASSUME NEW i \in Nat PROVE IsFiniteSet(Places(i)) /\ Cardinality(Places(i)) \in Nat
    <3>1. IsFiniteSet(i..n - 1)
      BY <1>0, FS_Interval
    <3>2. Places(i) \subseteq i..n - 1
      OBVIOUS
    <3>3. QED
      BY <3>1, <3>2, FS_Subset, FS_CardinalityType
  <2>2. QED
    BY <2>1
<1> DEFINE T == {i \in Nat : r[i] \in Seq(E) /\ 2 * (((n + 1) - i) - Len(r[i])) >= Cardinality(Places(i))}
<1>3. n + 1 \in T
  <2>1. <<>> \in Seq(E) /\ Len(<<>>) = 0 /\ n + 1 \in Nat /\ (n + 1)..n - 1 = {}
    BY <1>0
  <2>2. Places(n + 1) = {}
    BY <2>1
  <2>3. Cardinality(Places(n + 1)) = 0
    BY <2>2, FS_EmptySet
  <2> HIDE DEF Places
  <2>4. QED
    <3>1. 2 * (((n + 1) - (n + 1)) - 0) >= 0
      BY <1>0
    <3>2. QED
      BY <1>1, <2>1, <2>3, <3>1
<1>4. /\ \A t \in E, us \in Seq(E) : /\ Put(t, us) \in Seq(E) /\ Len(Put(t, us)) = Len(us) + 1
                                    /\ Len(us) \in Nat
  <2>1. PutsOn(E)
    BY PuttingOn
  <2>2. QED
    BY <2>1 DEF PutsOn
<1>5. ASSUME NEW i \in 1..n, i + 1 \in T, i = n \/ i + 2 \in T PROVE i \in T
  <2>0. i \in Nat /\ i + 1 \in Nat /\ i + 2 \in Nat
    BY <1>0
  <2>1. CASE i < n /\ PairAt(ts, i) = pair
    <3>1. /\ r[i] = Put(new, r[i + 2]) /\ r[i + 2] \in Seq(E)
          /\ 2 * (((n + 1) - (i + 2)) - Len(r[i + 2])) >= Cardinality(Places(i + 2))
      <4> HIDE DEF Places, T
      <4>1. i + 2 \in T
        <5>1. i # n
          BY <1>0, <2>1
        <5>2. QED
          BY <1>5, <5>1
      <4>2. r[i] = Put(new, r[i + 2])
        BY <1>1, <2>1
      <4>3. QED
        BY <4>1, <4>2 DEF T
    <3>2. r[i] \in Seq(E) /\ Len(r[i]) = Len(r[i + 2]) + 1 /\ Len(r[i + 2]) \in Nat
      BY <1>4, <3>1
    <3>3. Cardinality(Places(i)) <= Cardinality(Places(i + 2)) + 2
      <4>1. Places(i) \subseteq (Places(i + 2) \cup {i}) \cup {i + 1}
        BY <1>0
      <4> HIDE DEF Places
      <4>2. QED
        BY <1>2, <2>0, <4>1, TwoMore
    <3> HIDE DEF Places
    <3>4. 2 * (((n + 1) - i) - Len(r[i])) >= Cardinality(Places(i))
      BY <1>0, <1>2, <2>0, <3>1, <3>2, <3>3, HalfSaved
    <3>5. QED
      BY <2>0, <3>2, <3>4
  <2>2. CASE ~ (i < n /\ PairAt(ts, i) = pair)
    <3>1. /\ r[i] = Put(ts[i], r[i + 1]) /\ r[i + 1] \in Seq(E)
          /\ 2 * (((n + 1) - (i + 1)) - Len(r[i + 1])) >= Cardinality(Places(i + 1))
      BY <1>1, <1>5, <2>2
    <3>2. r[i] \in Seq(E) /\ Len(r[i]) = Len(r[i + 1]) + 1 /\ Len(r[i + 1]) \in Nat
      <4>1. ts[i] \in E /\ r[i] = Put(ts[i], r[i + 1]) /\ r[i + 1] \in Seq(E)
        BY <1>0, <3>1
      <4>2. QED
        BY <1>4, <4>1
    <3>3. Places(i) = Places(i + 1)
      BY <1>0, <2>2
    <3> HIDE DEF Places
    <3>4. 2 * (((n + 1) - i) - Len(r[i])) >= Cardinality(Places(i))
      BY <1>0, <1>2, <2>0, <3>1, <3>2, <3>3, HalfSaved
    <3>5. QED
      BY <2>0, <3>2, <3>4
  <2>3. QED
    BY <2>1, <2>2
<1> HIDE DEF T
<1>6. \A i \in 1..n + 1 : i \in T
  BY <1>0, <1>3, <1>5, FromTheEnd
<1>7. 1 \in T
  BY <1>0, <1>6
<1>8. r[1] \in Seq(E) /\ 2 * (((n + 1) - 1) - Len(r[1])) >= Cardinality(Places(1)) /\ Cardinality(Places(1)) \in Nat
  BY <1>2, <1>7 DEF T
<1>9. Len(r[1]) \in Nat /\ (n + 1) - 1 = n
  BY <1>0, <1>8
<1> HIDE DEF Places
<1>10. 2 * (n - Len(r[1])) >= Cardinality(Places(1))
  BY <1>0, <1>8, <1>9
<1>11. QED
  BY <1>0, <1>1, <1>8, <1>9, <1>10 DEF Places, n

\* Sums over a finite set, element by element as CHOOSE takes them.
SumRule(S, h, g) ==
  g = [s \in SUBSET S |-> IF s = {} THEN 0
                          ELSE h[CHOOSE x \in s : TRUE] + g[s \ {CHOOSE x \in s : TRUE}]]

LEMMA SumExists ==
  ASSUME NEW S, IsFiniteSet(S), NEW h
  PROVE  \E g : SumRule(S, h, g)
<1> DEFINE Some(s) == CHOOSE x \in s : TRUE
           Body(g, s) == IF s = {} THEN 0 ELSE h[Some(s)] + g[s \ {Some(s)}]
           Level(n) == {s \in SUBSET S : Cardinality(s) <= n}
           T == {n \in Nat : \E g : g = [s \in Level(n) |-> Body(g, s)]}
<1>1. ASSUME NEW s \in SUBSET S
      PROVE  /\ Cardinality(s) \in Nat /\ (Cardinality(s) = 0 <=> s = {})
             /\ s # {} => /\ Some(s) \in s /\ s \ {Some(s)} \in SUBSET S
                          /\ Cardinality(s \ {Some(s)}) = Cardinality(s) - 1
  <2>1. IsFiniteSet(s)
    BY FS_Subset
  <2>2. Cardinality(s) \in Nat /\ (Cardinality(s) = 0 <=> s = {})
    BY <2>1, FS_CardinalityType, FS_EmptySet
  <2>3. s # {} => Some(s) \in s
    OBVIOUS
  <2> HIDE DEF Some
  <2>4. QED
    BY <2>1, <2>2, <2>3, FS_RemoveElement
<1> HIDE DEF Some
<1>2. 0 \in T
  <2> DEFINE g == [s \in Level(0) |-> 0]
  <2>1. \A s \in Level(0) : Body(g, s) = 0
    <3>1. ASSUME NEW s \in Level(0) PROVE s = {}
      <4>1. s \in SUBSET S /\ Cardinality(s) <= 0
        OBVIOUS
      <4>2. Cardinality(s) \in Nat /\ (Cardinality(s) = 0 <=> s = {})
        BY <1>1, <4>1
      <4>3. QED
        BY <4>1, <4>2
    <3> HIDE DEF Level, g
    <3>2. QED
      BY <3>1
  <2>2. g = [s \in Level(0) |-> Body(g, s)]
    <3> HIDE DEF Body, Level
    <3>1. QED
      BY <2>1
  <2> HIDE DEF g, Body, Level
  <2>3. QED
    BY <2>2
<1>3. ASSUME NEW n \in Nat, n \in T PROVE n + 1 \in T
  <2>1. PICK g : g = [s \in Level(n) |-> Body(g, s)]
    BY <1>3
  <2> DEFINE f == [s \in Level(n + 1) |-> IF Cardinality(s) <= n THEN g[s] ELSE Body(g, s)]
  <2>2. \A s \in Level(n) : s \in Level(n + 1) /\ Cardinality(s) <= n
    <3>1. ASSUME NEW s \in Level(n) PROVE s \in Level(n + 1) /\ Cardinality(s) <= n
      <4>1. s \in SUBSET S /\ Cardinality(s) <= n
        OBVIOUS
      <4>2. Cardinality(s) \in Nat
        BY <1>1, <4>1
      <4>3. Cardinality(s) <= n + 1
        BY <4>1, <4>2
      <4>4. QED
        BY <4>1, <4>3
    <3> HIDE DEF Level
    <3>2. QED
      BY <3>1
  <2>3. \A s \in Level(n) : f[s] = g[s]
    BY <2>2
  <2>4. ASSUME NEW s \in Level(n + 1) PROVE Body(f, s) = Body(g, s)
    <3>1. CASE s = {}
      BY <3>1
    <3>2. CASE s # {}
      <4>1. s \ {Some(s)} \in Level(n)
        BY <1>1, <3>2
      <4> HIDE DEF f, Level
      <4>2. f[s \ {Some(s)}] = g[s \ {Some(s)}]
        BY <2>3, <4>1
      <4>3. QED
        BY <3>2, <4>2
    <3>3. QED
      BY <3>1, <3>2
  <2>5. ASSUME NEW s \in Level(n + 1) PROVE f[s] = Body(f, s)
    <3> HIDE DEF Body
    <3>1. CASE Cardinality(s) <= n
      <4>1. s \in Level(n)
        BY <3>1
      <4>2. g[s] = Body(g, s)
        <5> HIDE DEF Level
        <5>1. QED
          BY <2>1, <4>1
      <4>3. QED
        BY <2>3, <2>4, <4>1, <4>2
    <3>2. CASE ~ (Cardinality(s) <= n)
      BY <2>4, <3>2
    <3>3. QED
      BY <3>1, <3>2
  <2>6. f = [s \in Level(n + 1) |-> f[s]]
    OBVIOUS
  <2> HIDE DEF f, Body, Level
  <2>7. f = [s \in Level(n + 1) |-> Body(f, s)]
    BY <2>5, <2>6
  <2>8. QED
    BY <2>7
<1> HIDE DEF T
<1>4. \A n \in Nat : n \in T
  BY <1>2, <1>3, AllNumbers
<1>5. Cardinality(S) \in Nat /\ SUBSET S = Level(Cardinality(S))
  <2>1. Cardinality(S) \in Nat
    BY FS_CardinalityType
  <2>2. \A s \in SUBSET S : Cardinality(s) <= Cardinality(S)
    BY FS_Subset
  <2>3. QED
    BY <2>1, <2>2
<1>6. \E g : g = [s \in Level(Cardinality(S)) |-> Body(g, s)]
  BY <1>4, <1>5 DEF T
<1> HIDE DEF Level
<1>7. QED
  BY <1>5, <1>6 DEF SumRule, Some

\* Sums compare as their terms do.
LEMMA SumsCompare ==
  ASSUME NEW S, IsFiniteSet(S), NEW h1 \in [S -> Nat], NEW h2 \in [S -> Nat], NEW h3 \in [S -> Nat],
         \A x \in S : 2 * (h1[x] - h2[x]) >= h3[x],
         NEW g1, SumRule(S, h1, g1), NEW g2, SumRule(S, h2, g2), NEW g3, SumRule(S, h3, g3)
  PROVE  2 * (g1[S] - g2[S]) >= g3[S]
<1> DEFINE Some(s) == CHOOSE x \in s : TRUE
           Good(s) == /\ g1[s] \in Nat /\ g2[s] \in Nat /\ g3[s] \in Nat
                      /\ 2 * (g1[s] - g2[s]) >= g3[s]
           T == {n \in Nat : \A s \in SUBSET S : Cardinality(s) = n => Good(s)}
<1>1. ASSUME NEW s \in SUBSET S
      PROVE  /\ Cardinality(s) \in Nat /\ (Cardinality(s) = 0 <=> s = {})
             /\ s # {} => /\ Some(s) \in s /\ s \ {Some(s)} \in SUBSET S
                          /\ Cardinality(s \ {Some(s)}) = Cardinality(s) - 1
  <2>1. IsFiniteSet(s)
    BY FS_Subset
  <2>2. Cardinality(s) \in Nat /\ (Cardinality(s) = 0 <=> s = {})
    BY <2>1, FS_CardinalityType, FS_EmptySet
  <2>3. s # {} => Some(s) \in s
    OBVIOUS
  <2> HIDE DEF Some
  <2>4. QED
    BY <2>1, <2>2, <2>3, FS_RemoveElement
<1>2. ASSUME NEW s \in SUBSET S
      PROVE  /\ g1[s] = IF s = {} THEN 0 ELSE h1[Some(s)] + g1[s \ {Some(s)}]
             /\ g2[s] = IF s = {} THEN 0 ELSE h2[Some(s)] + g2[s \ {Some(s)}]
             /\ g3[s] = IF s = {} THEN 0 ELSE h3[Some(s)] + g3[s \ {Some(s)}]
  BY DEF SumRule
<1> HIDE DEF Some
<1>3. 0 \in T
  <2>1. ASSUME NEW s \in SUBSET S, Cardinality(s) = 0 PROVE Good(s)
    <3>1. s = {}
      BY <1>1, <2>1
    <3>2. g1[s] = 0 /\ g2[s] = 0 /\ g3[s] = 0
      BY <1>2, <3>1
    <3>3. QED
      BY <3>2
  <2> HIDE DEF Good
  <2>2. QED
    BY <2>1
<1>4. ASSUME NEW n \in Nat, n \in T PROVE n + 1 \in T
  <2>1. ASSUME NEW s \in SUBSET S, Cardinality(s) = n + 1 PROVE Good(s)
    <3> DEFINE x == Some(s)
               t == s \ {Some(s)}
    <3>1. s # {} /\ x \in S /\ t \in SUBSET S /\ Cardinality(t) = n
      <4> HIDE DEF x, t, Good, T
      <4>0. Cardinality(s) # 0
        BY <2>1
      <4>1. s # {}
        BY <1>1, <4>0, Zenon
      <4> USE DEF x, t
      <4>2. x \in s /\ t \in SUBSET S /\ Cardinality(t) = Cardinality(s) - 1
        BY <1>1, <4>1
      <4> HIDE DEF x, t
      <4>3. QED
        BY <2>1, <4>1, <4>2
    <3>2. Good(t)
      <4> HIDE DEF Good, t
      <4>1. QED
        BY <1>4, <3>1
    <3>3. g1[s] = h1[x] + g1[t] /\ g2[s] = h2[x] + g2[t] /\ g3[s] = h3[x] + g3[t]
      <4>1. /\ g1[s] = IF s = {} THEN 0 ELSE h1[x] + g1[t]
            /\ g2[s] = IF s = {} THEN 0 ELSE h2[x] + g2[t]
            /\ g3[s] = IF s = {} THEN 0 ELSE h3[x] + g3[t]
        BY <1>2
      <4> HIDE DEF x, t
      <4>2. QED
        BY <3>1, <4>1
    <3> HIDE DEF x, t
    <3>4. h1[x] \in Nat /\ h2[x] \in Nat /\ h3[x] \in Nat /\ 2 * (h1[x] - h2[x]) >= h3[x]
      BY <3>1
    <3>5. QED
      BY <3>2, <3>3, <3>4
  <2> HIDE DEF Good
  <2>2. QED
    BY <2>1
<1> HIDE DEF T
<1>5. \A n \in Nat : n \in T
  BY <1>3, <1>4, AllNumbers
<1>6. Good(S)
  <2>1. S \in SUBSET S /\ Cardinality(S) \in Nat
    BY FS_CardinalityType
  <2> HIDE DEF Good
  <2>2. QED
    BY <1>5, <2>1 DEF T
<1>7. QED
  BY <1>6

SumOfLengths(f, ts) == MapThenSumSet(LAMBDA w : f[w] * Len(ts[w]), DOMAIN ts)

LEMMA LengthsSum ==
  ASSUME NEW f, NEW ts, IsFiniteSet(DOMAIN ts),
         NEW h, h = [w \in DOMAIN ts |-> f[w] * Len(ts[w])]
  PROVE  \E g : SumRule(DOMAIN ts, h, g) /\ SumOfLengths(f, ts) = g[DOMAIN ts]
<1> DEFINE S == DOMAIN ts
           Rule(g) == g = [s \in SUBSET S |-> IF s = {} THEN 0
                             ELSE f[CHOOSE x \in s : TRUE] * Len(ts[CHOOSE x \in s : TRUE])
                                    + g[s \ {CHOOSE x \in s : TRUE}]]
           g == CHOOSE g : Rule(g)
<1>1. SumOfLengths(f, ts) = g[S]
  BY DEF SumOfLengths, MapThenSumSet, MapThenFoldSet
<1>2. ASSUME NEW e PROVE SumRule(S, h, e) <=> Rule(e)
  <2>1. ASSUME NEW s \in SUBSET S, s # {}
        PROVE  h[CHOOSE x \in s : TRUE] = f[CHOOSE x \in s : TRUE] * Len(ts[CHOOSE x \in s : TRUE])
    <3>1. (CHOOSE x \in s : TRUE) \in S
      BY <2>1
    <3>2. QED
      BY <3>1
  <2>2. QED
    BY <2>1 DEF SumRule
<1>3. \E e : Rule(e)
  <2> HIDE DEF Rule
  <2>1. QED
    BY <1>2, SumExists
<1>4. Rule(g)
  <2> HIDE DEF Rule
  <2>1. QED
    BY <1>3
<1> HIDE DEF g, Rule
<1>5. QED
  BY <1>1, <1>2, <1>4

CountIn(ts, pair) == Cardinality({i \in 1..Len(ts) - 1 : PairAt(ts, i) = pair})
SumOfCounts(f, ts, pair) == MapThenSumSet(LAMBDA w : f[w] * CountIn(ts[w], pair), DOMAIN ts)

LEMMA CountsSum ==
  ASSUME NEW f, NEW ts, NEW pair, IsFiniteSet(DOMAIN ts),
         NEW h, h = [w \in DOMAIN ts |-> f[w] * CountIn(ts[w], pair)]
  PROVE  \E g : SumRule(DOMAIN ts, h, g) /\ SumOfCounts(f, ts, pair) = g[DOMAIN ts]
<1> DEFINE S == DOMAIN ts
           Rule(g) == g = [s \in SUBSET S |-> IF s = {} THEN 0
                             ELSE f[CHOOSE x \in s : TRUE] * CountIn(ts[CHOOSE x \in s : TRUE], pair)
                                    + g[s \ {CHOOSE x \in s : TRUE}]]
           g == CHOOSE g : Rule(g)
<1>1. SumOfCounts(f, ts, pair) = g[S]
  BY DEF SumOfCounts, MapThenSumSet, MapThenFoldSet
<1>2. ASSUME NEW e PROVE SumRule(S, h, e) <=> Rule(e)
  <2>1. ASSUME NEW s \in SUBSET S, s # {}
        PROVE  h[CHOOSE x \in s : TRUE]
                 = f[CHOOSE x \in s : TRUE] * CountIn(ts[CHOOSE x \in s : TRUE], pair)
    <3>1. (CHOOSE x \in s : TRUE) \in S
      BY <2>1
    <3>2. QED
      BY <3>1
  <2>2. QED
    BY <2>1 DEF SumRule
<1>3. \E e : Rule(e)
  <2> HIDE DEF Rule
  <2>1. QED
    BY <1>2, SumExists
<1>4. Rule(g)
  <2> HIDE DEF Rule
  <2>1. QED
    BY <1>3
<1> HIDE DEF g, Rule
<1>5. QED
  BY <1>1, <1>2, <1>4

TokenIds == Specials..NextId - 1
ByteValues == 0..ByteCount - 1

\* The two tokens of a rule, and what a rule says of the vocabulary and of the
\* tokens the words have now.
Left(k) == merges[k][1]
Right(k) == merges[k][2]
BpeTyped ==
  /\ IsFiniteSet(DOMAIN tokens)
  /\ freq \in [DOMAIN tokens -> Nat]
  /\ tokens \in [DOMAIN tokens -> Seq(TokenIds)]
  /\ Vocabulary(vocab, TokenIds, ByteValues)
  /\ merges \in Seq(Nat \X Nat \X Nat)

WordsSpelled == \A w \in DOMAIN tokens : Spell(vocab, tokens[w]) = w

RulesStand ==
  \A k \in 1..Len(merges) :
    /\ merges[k][3] = ByteCount + Specials + k - 1
    /\ Left(k) \in Specials..merges[k][3] - 1 /\ Right(k) \in Specials..merges[k][3] - 1
    /\ vocab[merges[k][3]] = vocab[Left(k)] \o vocab[Right(k)]
    /\ <<Left(k), Right(k)>> \notin Pairs

RulesDiffer ==
  \A j, k \in 1..Len(merges) : j # k => <<Left(j), Right(j)>> # <<Left(k), Right(k)>>

BpeInv == BpeTyped /\ WordsSpelled /\ RulesStand /\ RulesDiffer

LEMMA ShortText ==
  ASSUME NEW text \in SeqOf(ByteValues, MaxText)
  PROVE  text \in Seq(ByteValues)
<1>1. PICK m \in 0..MaxText : text \in [1..m -> ByteValues]
  BY DEF SeqOf
<1>2. m \in Nat
  BY BpeAssumption
<1>3. QED
  BY <1>1, <1>2

LEMMA SpansFinite ==
  ASSUME NEW text \in Seq(ByteValues)
  PROVE  IsFiniteSet(WordSpans(text))
<1>1. DOMAIN text = 1..Len(text) /\ 1 \in Int /\ Len(text) \in Int
  OBVIOUS
<1>2. IsFiniteSet(1..Len(text))
  BY <1>1, FS_Interval
<1>3. IsFiniteSet((DOMAIN text) \X (DOMAIN text))
  BY <1>1, <1>2, FS_Product
<1>4. WordSpans(text) \in SUBSET ((DOMAIN text) \X (DOMAIN text))
  BY DEF WordSpans
<1>5. QED
  BY <1>3, <1>4, FS_Subset

\* A part of a sequence.
LEMMA PartTyped ==
  ASSUME NEW S, NEW ts \in Seq(S), NEW a \in 1..Len(ts), NEW b \in 1..Len(ts)
  PROVE  SubSeq(ts, a, b) \in Seq(S)
  OBVIOUS

LEMMA WordsTyped ==
  ASSUME NEW text \in Seq(ByteValues)
  PROVE  /\ IsFiniteSet(DOMAIN PreTokenize(text))
         /\ PreTokenize(text) \in [DOMAIN PreTokenize(text) -> Nat]
         /\ \A w \in DOMAIN PreTokenize(text) : w \in Seq(ByteValues)
<1> DEFINE spans == WordSpans(text)
           word(s) == SubSeq(text, s[1], s[2])
           words == {word(s) : s \in spans}
           f == [s \in spans |-> word(s)]
           counts == [w \in words |-> Cardinality({s \in spans : word(s) = w})]
<1>1. PreTokenize(text) = counts
  BY DEF PreTokenize
<1>2. IsFiniteSet(spans)
  BY SpansFinite
<1>3. \A s \in spans : s[1] \in 1..Len(text) /\ s[2] \in 1..Len(text)
  BY DEF WordSpans
<1>4. ASSUME NEW w \in words PROVE w \in Seq(ByteValues)
  <2>1. PICK s \in spans : w = SubSeq(text, s[1], s[2])
    OBVIOUS
  <2>2. s[1] \in 1..Len(text) /\ s[2] \in 1..Len(text)
    BY <1>3, <2>1
  <2> HIDE DEF spans
  <2>3. QED
    BY <2>1, <2>2, PartTyped
<1>5. f \in Surjection(spans, words)
  <2> HIDE DEF spans
  <2>1. QED
    BY DEF Surjection
<1> HIDE DEF f, spans
<1>6. IsFiniteSet(words)
  <2> HIDE DEF words
  <2>1. QED
    BY <1>2, <1>5, FS_Surjection
<1>7. ASSUME NEW w \in words PROVE counts[w] \in Nat
  <2> DEFINE of == {s \in spans : word(s) = w}
  <2>1. of \in SUBSET spans
    OBVIOUS
  <2> HIDE DEF of
  <2>2. Cardinality(of) \in Nat
    BY <1>2, <2>1, FS_Subset, FS_CardinalityType
  <2>3. counts[w] = Cardinality(of)
    BY DEF of
  <2>4. QED
    BY <2>2, <2>3
<1>8. DOMAIN counts = words /\ counts = [w \in words |-> counts[w]]
  OBVIOUS
<1> HIDE DEF counts, words
<1>9. QED
  BY <1>1, <1>4, <1>6, <1>7, <1>8

LEMMA BpeStart == BpeInit => BpeInv
<1> SUFFICES ASSUME BpeInit PROVE BpeInv
  OBVIOUS
<1>1. PICK text \in SeqOf(ByteValues, MaxText) :
        /\ freq = PreTokenize(text)
        /\ tokens = [w \in DOMAIN freq |-> ByteTokens(w)]
        /\ vocab = [t \in Specials..Specials + ByteCount - 1 |-> <<t - Specials>>]
        /\ merges = <<>>
  BY DEF BpeInit, ByteValues
<1>2. text \in Seq(ByteValues)
  BY ShortText
<1>3. /\ IsFiniteSet(DOMAIN freq) /\ freq \in [DOMAIN freq -> Nat]
      /\ \A w \in DOMAIN freq : w \in Seq(ByteValues)
  BY <1>1, <1>2, WordsTyped
<1>4. TokenIds = Specials..Specials + ByteCount - 1
  BY <1>1, BpeAssumption DEF TokenIds, NextId
<1>5. ASSUME NEW w \in DOMAIN freq
      PROVE  ByteTokens(w) \in Seq(TokenIds) /\ Spell(vocab, ByteTokens(w)) = w
  <2>1. w \in Seq(0..ByteCount - 1)
    BY <1>3 DEF ByteValues
  <2>2. QED
    BY <1>1, <1>4, <2>1, BytesSpell
<1>6. DOMAIN tokens = DOMAIN freq /\ \A w \in DOMAIN tokens : tokens[w] = ByteTokens(w)
  BY <1>1
<1>7. tokens \in [DOMAIN tokens -> Seq(TokenIds)]
  BY <1>1, <1>5, <1>6
<1>8. Vocabulary(vocab, TokenIds, ByteValues)
  <2>1. \A t \in TokenIds : <<t - Specials>> \in Seq(ByteValues)
    BY <1>4, BpeAssumption DEF ByteValues
  <2>2. vocab = [t \in TokenIds |-> <<t - Specials>>]
    BY <1>1, <1>4
  <2>3. QED
    BY <2>1, <2>2 DEF Vocabulary
<1>9. merges \in Seq(Nat \X Nat \X Nat) /\ Len(merges) = 0
  BY <1>1
<1>10. WordsSpelled
  BY <1>5, <1>6 DEF WordsSpelled
<1>11. BpeTyped
  BY <1>3, <1>6, <1>7, <1>8, <1>9 DEF BpeTyped
<1>12. RulesStand /\ RulesDiffer
  BY <1>9 DEF RulesStand, RulesDiffer
<1>13. QED
  BY <1>10, <1>11, <1>12 DEF BpeInv

\* The tokens of a pair of neighbours.
LEMMA PairsTyped ==
  ASSUME NEW D, NEW ts \in Seq(D), NEW i \in 1..Len(ts) - 1
  PROVE  PairAt(ts, i) = <<ts[i], ts[i + 1]>> /\ ts[i] \in D /\ ts[i + 1] \in D
<1>1. i \in 1..Len(ts) /\ i + 1 \in 1..Len(ts)
  OBVIOUS
<1>2. QED
  BY <1>1, SeqElement DEF PairAt

\* A new token changes no spelling of old ones.
LEMMA SameSpelling ==
  ASSUME NEW D, NEW ts \in Seq(D), NEW v, NEW u, \A t \in D : u[t] = v[t]
  PROVE  Spell(u, ts) = Spell(v, ts)
<1>1. DOMAIN ts = 1..Len(ts)
  OBVIOUS
<1>2. \A i \in DOMAIN ts : u[ts[i]] = v[ts[i]]
  BY <1>1, SeqElement
<1>3. QED
  BY <1>2 DEF Spell

LEMMA OneNumberMore ==
  ASSUME NEW i \in Nat, NEW j \in Nat, i <= j
  PROVE  i..j = (i..j - 1) \cup {j}
  OBVIOUS

LEMMA WiderSequence ==
  ASSUME NEW S, NEW T, S \subseteq T, NEW ts \in Seq(S)
  PROVE  ts \in Seq(T)
<1>1. \A i \in 1..Len(ts) : ts[i] \in T
  BY SeqElement
<1>2. ts \in [1..Len(ts) -> T] /\ Len(ts) \in Nat
  BY <1>1
<1>3. QED
  BY <1>2, SeqFunction

LEMMA JoinedTyped ==
  ASSUME NEW S, NEW s \in Seq(S), NEW t \in Seq(S)
  PROVE  s \o t \in Seq(S)
  OBVIOUS

\* The rule of a round, and the pair of tokens it takes.
LEMMA RuleAdded ==
  ASSUME BpeInv, NEW pair \in Pairs, merges' = Append(merges, <<pair[1], pair[2], NextId>>)
  PROVE  /\ pair = <<pair[1], pair[2]>> /\ pair[1] \in TokenIds /\ pair[2] \in TokenIds
         /\ NextId \in Nat /\ NextId \notin TokenIds /\ NextId' = NextId + 1
         /\ TokenIds' = TokenIds \cup {NextId} /\ TokenIds \subseteq Nat
         /\ merges' \in Seq(Nat \X Nat \X Nat) /\ Len(merges') = Len(merges) + 1 /\ Len(merges) \in Nat
         /\ merges'[Len(merges')] = <<pair[1], pair[2], NextId>>
         /\ \A k \in 1..Len(merges) : merges'[k] = merges[k]
<1>1. PICK w \in DOMAIN tokens : \E i \in 1..Len(tokens[w]) - 1 : pair = PairAt(tokens[w], i)
  BY DEF Pairs
<1>2. PICK i \in 1..Len(tokens[w]) - 1 : pair = PairAt(tokens[w], i)
  BY <1>1
<1>3. tokens[w] \in Seq(TokenIds) /\ merges \in Seq(Nat \X Nat \X Nat)
  BY DEF BpeInv, BpeTyped
<1>4. pair = <<pair[1], pair[2]>> /\ pair[1] \in TokenIds /\ pair[2] \in TokenIds
  BY <1>2, <1>3, PairsTyped DEF PairAt
<1>5. Len(merges) \in Nat
  BY <1>3
<1>6. /\ NextId \in Nat /\ NextId \notin TokenIds /\ TokenIds \subseteq Nat
      /\ NextId = ByteCount + Specials + Len(merges)
  BY <1>5, BpeAssumption DEF NextId, TokenIds
<1>7. <<pair[1], pair[2], NextId>> \in Nat \X Nat \X Nat
  BY <1>4, <1>6
<1> DEFINE rule == <<pair[1], pair[2], NextId>>
<1> HIDE DEF rule
<1>8. /\ merges' \in Seq(Nat \X Nat \X Nat) /\ Len(merges') = Len(merges) + 1
      /\ merges'[Len(merges')] = rule /\ \A k \in 1..Len(merges) : merges'[k] = merges[k]
  <2>1. merges' = Append(merges, rule) /\ rule \in Nat \X Nat \X Nat
    BY <1>7 DEF rule
  <2>2. QED
    BY <1>3, <2>1
<1>9. NextId' = NextId + 1
  BY <1>5, <1>8, BpeAssumption DEF NextId
<1>10. TokenIds' = TokenIds \cup {NextId}
  <2>1. TokenIds' = Specials..NextId
    BY <1>6, <1>9 DEF TokenIds
  <2>2. Specials \in Nat /\ Specials <= NextId
    BY <1>5, <1>6, BpeAssumption
  <2>3. NextId \in Nat
    BY <1>6
  <2> HIDE DEF NextId
  <2>4. Specials..NextId = (Specials..NextId - 1) \cup {NextId}
    BY <2>2, <2>3, OneNumberMore
  <2>5. QED
    BY <2>1, <2>4 DEF TokenIds
<1>11. QED
  BY <1>4, <1>5, <1>6, <1>8, <1>9, <1>10 DEF rule

LEMMA BpeStep == BpeInv /\ MergePair => BpeInv'
<1> SUFFICES ASSUME BpeInv, MergePair PROVE BpeInv'
  OBVIOUS
<1>1. PICK pair \in Pairs :
        /\ tokens' = [w \in DOMAIN tokens |-> MergeWord(tokens[w], pair, NextId)]
        /\ vocab' = [t \in DOMAIN vocab \cup {NextId} |->
                       IF t = NextId THEN vocab[pair[1]] \o vocab[pair[2]] ELSE vocab[t]]
        /\ merges' = Append(merges, <<pair[1], pair[2], NextId>>)
        /\ freq' = freq
  BY DEF MergePair
<1> DEFINE a == pair[1]
           b == pair[2]
           new == NextId
           D == TokenIds
           E == D \cup {new}
           n == Len(merges)
<1>2. /\ pair = <<a, b>> /\ a \in D /\ b \in D /\ new \in Nat /\ new \notin D
      /\ NextId' = new + 1 /\ TokenIds' = E /\ D \subseteq Nat
      /\ merges' \in Seq(Nat \X Nat \X Nat) /\ Len(merges') = n + 1 /\ n \in Nat
      /\ merges'[n + 1] = <<a, b, new>> /\ \A k \in 1..n : merges'[k] = merges[k]
  BY <1>1, RuleAdded
<1> HIDE DEF a, b, new
<1>3. /\ IsFiniteSet(DOMAIN tokens) /\ freq \in [DOMAIN tokens -> Nat]
      /\ \A w \in DOMAIN tokens : tokens[w] \in Seq(D) /\ Spell(vocab, tokens[w]) = w
      /\ vocab \in [D -> Seq(ByteValues)]
  BY DEF BpeInv, BpeTyped, WordsSpelled, Vocabulary
<1>4. /\ vocab' \in [E -> Seq(ByteValues)] /\ vocab'[new] = vocab'[a] \o vocab'[b]
      /\ \A t \in D : vocab'[t] = vocab[t]
  <2>1. vocab' = [t \in E |-> IF t = new THEN vocab[a] \o vocab[b] ELSE vocab[t]]
    BY <1>1, <1>3 DEF new, a, b
  <2>2. \A t \in D : vocab[t] \in Seq(ByteValues)
    BY <1>3
  <2>3. vocab[a] \in Seq(ByteValues) /\ vocab[b] \in Seq(ByteValues)
    BY <1>2, <2>2
  <2> DEFINE c == vocab[a] \o vocab[b]
  <2>4. c \in Seq(ByteValues)
    BY <2>3, JoinedTyped
  <2> HIDE DEF c, D
  <2>5. vocab' = [t \in E |-> IF t = new THEN c ELSE vocab[t]]
    BY <2>1 DEF c
  <2>6. \A t \in D : t # new /\ t \in E
    BY <1>2
  <2>7. vocab' \in [E -> Seq(ByteValues)] /\ vocab'[new] = c /\ \A t \in D : vocab'[t] = vocab[t]
    <3>1. \A t \in E : (IF t = new THEN c ELSE vocab[t]) \in Seq(ByteValues)
      BY <2>2, <2>4
    <3> DEFINE Gives(t) == IF t = new THEN c ELSE vocab[t]
    <3>2. vocab' = [t \in E |-> Gives(t)] /\ \A t \in E : Gives(t) \in Seq(ByteValues)
      BY <2>5, <3>1
    <3>3. vocab' \in [E -> Seq(ByteValues)]
      <4> HIDE DEF Gives, E
      <4>1. QED
        BY <3>2
    <3>4. QED
      BY <2>5, <2>6, <3>3
  <2>8. QED
    BY <1>2, <2>7 DEF c
<1>5. ASSUME NEW w \in DOMAIN tokens
      PROVE  /\ tokens'[w] \in Seq(E) /\ Spell(vocab', tokens'[w]) = w
             /\ Apart(D, pair, tokens[w], tokens'[w])
  <2>1. tokens[w] \in Seq(D) /\ Spell(vocab, tokens[w]) = w
    BY <1>3
  <2>2. tokens'[w] = MergeWord(tokens[w], pair, new)
    BY <1>1 DEF new
  <2> HIDE DEF D, E
  <2>a. a \in E /\ b \in E /\ new \in E /\ D \subseteq E
    BY <1>2 DEF E
  <2>3. tokens[w] \in Seq(E)
    BY <2>1, <2>a, WiderSequence
  <2>b. \A t \in D : vocab'[t] = vocab[t]
    BY <1>4
  <2>4. Spell(vocab', tokens[w]) = w
    <3>1. Spell(vocab', tokens[w]) = Spell(vocab, tokens[w])
      BY <2>1, <2>b, SameSpelling
    <3>2. QED
      BY <2>1, <3>1
  <2>5. Vocabulary(vocab', E, ByteValues)
    BY <1>4 DEF Vocabulary
  <2>6. tokens'[w] \in Seq(E) /\ Spell(vocab', tokens'[w]) = Spell(vocab', tokens[w])
    <3>1. vocab'[new] = vocab'[a] \o vocab'[b]
      BY <1>4
    <3>2. /\ MergeWord(tokens[w], <<a, b>>, new) \in Seq(E)
          /\ Spell(vocab', MergeWord(tokens[w], <<a, b>>, new)) = Spell(vocab', tokens[w])
      <4> DEFINE v == vocab'
                 ts == tokens[w]
      <4>1. v[new] = v[a] \o v[b] /\ Vocabulary(v, E, ByteValues) /\ ts \in Seq(E)
        BY <2>3, <2>5, <3>1
      <4> HIDE DEF v, ts
      <4>2. MergeWord(ts, <<a, b>>, new) \in Seq(E) /\ Spell(v, MergeWord(ts, <<a, b>>, new)) = Spell(v, ts)
        <5>1. MergeFits(E, ByteValues, v, ts, a, b, new)
          BY <2>a, <4>1 DEF MergeFits
        <5>2. QED
          BY <5>1, MergeSpells
      <4>3. QED
        BY <4>2 DEF v, ts
    <3>3. tokens'[w] = MergeWord(tokens[w], <<a, b>>, new)
      BY <1>2, <2>2
    <3>4. QED
      BY <3>2, <3>3
  <2>7. Apart(D, pair, tokens[w], tokens'[w])
    BY <1>2, <2>1, <2>2, MergeSeparates
  <2>8. QED
    BY <2>4, <2>6, <2>7
<1>6. DOMAIN tokens' = DOMAIN tokens /\ tokens' = [w \in DOMAIN tokens |-> tokens'[w]]
  BY <1>1
<1>7. BpeTyped'
  <2>1. tokens' \in [DOMAIN tokens' -> Seq(TokenIds')]
    <3> HIDE DEF E
    <3>1. \A w \in DOMAIN tokens : tokens'[w] \in Seq(TokenIds')
      BY <1>2, <1>5
    <3>2. QED
      BY <1>6, <3>1
  <2>2. Vocabulary(vocab', TokenIds', ByteValues')
    BY <1>2, <1>4 DEF Vocabulary, ByteValues
  <2>3. QED
    BY <1>1, <1>2, <1>3, <1>6, <2>1, <2>2 DEF BpeTyped
<1>8. WordsSpelled'
  BY <1>5, <1>6 DEF WordsSpelled
<1>9. ASSUME NEW x \in D, NEW y \in D, <<x, y>> \in Pairs'
      PROVE  <<x, y>> \in Pairs /\ <<x, y>> # pair
  <2>1. PICK w \in DOMAIN tokens' : \E j \in 1..Len(tokens'[w]) - 1 : <<x, y>> = PairAt(tokens'[w], j)
    BY <1>9 DEF Pairs
  <2>2. PICK j \in 1..Len(tokens'[w]) - 1 : <<x, y>> = PairAt(tokens'[w], j)
    BY <2>1
  <2>3. w \in DOMAIN tokens /\ Apart(D, pair, tokens[w], tokens'[w])
    BY <1>5, <1>6
  <2>4. tokens'[w][j] = x /\ tokens'[w][j + 1] = y
    BY <2>2 DEF PairAt
  <2> HIDE DEF D
  <2>5. /\ PairAt(tokens'[w], j) # pair
        /\ \E k \in 1..Len(tokens[w]) - 1 : PairAt(tokens'[w], j) = PairAt(tokens[w], k)
    BY <1>9, <2>3, <2>4 DEF Apart
  <2>6. QED
    BY <2>2, <2>3, <2>5 DEF Pairs
<1>10. ASSUME NEW k \in 1..n
       PROVE  /\ merges[k][3] = ByteCount + Specials + k - 1
              /\ Left(k) \in Specials..merges[k][3] - 1 /\ Right(k) \in Specials..merges[k][3] - 1
              /\ vocab[merges[k][3]] = vocab[Left(k)] \o vocab[Right(k)]
              /\ <<Left(k), Right(k)>> \notin Pairs
              /\ Left(k) \in D /\ Right(k) \in D /\ merges[k][3] \in D
              /\ Left(k)' = Left(k) /\ Right(k)' = Right(k)
  <2>1. /\ merges[k][3] = ByteCount + Specials + k - 1
        /\ Left(k) \in Specials..merges[k][3] - 1 /\ Right(k) \in Specials..merges[k][3] - 1
        /\ vocab[merges[k][3]] = vocab[Left(k)] \o vocab[Right(k)]
        /\ <<Left(k), Right(k)>> \notin Pairs
    BY DEF BpeInv, RulesStand
  <2>2. merges[k][3] \in D /\ \A i \in Specials..merges[k][3] - 1 : i \in D
    BY <1>2, <2>1, BpeAssumption DEF TokenIds, NextId
  <2>3. Left(k)' = Left(k) /\ Right(k)' = Right(k)
    BY <1>2 DEF Left, Right
  <2>4. QED
    BY <2>1, <2>2, <2>3
<1>11. ASSUME NEW k, k = n + 1 PROVE Left(k)' = a /\ Right(k)' = b
  BY <1>2, <1>11 DEF Left, Right
<1>12. RulesStand'
  <2>1. ASSUME NEW k \in 1..n
        PROVE  /\ merges'[k][3] = ByteCount + Specials + k - 1
               /\ Left(k)' \in Specials..merges'[k][3] - 1 /\ Right(k)' \in Specials..merges'[k][3] - 1
               /\ vocab'[merges'[k][3]] = vocab'[Left(k)'] \o vocab'[Right(k)']
               /\ <<Left(k)', Right(k)'>> \notin Pairs'
    <3>1. merges'[k] = merges[k]
      BY <1>2
    <3>2. <<Left(k), Right(k)>> \notin Pairs'
      BY <1>9, <1>10
    <3> HIDE DEF D
    <3>3. QED
      BY <1>4, <1>10, <3>1, <3>2
  <2>2. /\ merges'[n + 1][3] = ByteCount + Specials + (n + 1) - 1
        /\ a \in Specials..merges'[n + 1][3] - 1 /\ b \in Specials..merges'[n + 1][3] - 1
        /\ vocab'[merges'[n + 1][3]] = vocab'[a] \o vocab'[b]
        /\ <<a, b>> \notin Pairs'
    <3>1. merges'[n + 1][3] = new /\ new = ByteCount + Specials + n
      BY <1>2 DEF new, NextId
    <3>2. new = ByteCount + Specials + (n + 1) - 1
      BY <1>2, <3>1, BpeAssumption
    <3>3. D = Specials..new - 1
      BY DEF TokenIds, new
    <3>4. <<a, b>> \notin Pairs'
      BY <1>2, <1>9
    <3> HIDE DEF D
    <3>5. QED
      BY <1>2, <1>4, <3>1, <3>2, <3>3, <3>4
  <2>3. ASSUME NEW k \in 1..Len(merges')
        PROVE  /\ merges'[k][3] = ByteCount + Specials + k - 1
               /\ Left(k)' \in Specials..merges'[k][3] - 1 /\ Right(k)' \in Specials..merges'[k][3] - 1
               /\ vocab'[merges'[k][3]] = vocab'[Left(k)'] \o vocab'[Right(k)']
               /\ <<Left(k)', Right(k)'>> \notin Pairs'
    <3>1. k \in 1..n \/ k = n + 1
      BY <1>2
    <3>2. CASE k \in 1..n
      BY <2>1, <3>2
    <3>3. CASE k = n + 1
      <4>1. Left(k)' = a /\ Right(k)' = b
        BY <1>11, <3>3
      <4>2. QED
        BY <2>2, <3>3, <4>1
    <3>4. QED
      BY <3>1, <3>2, <3>3
  <2>4. QED
    BY <2>3 DEF RulesStand
<1>13. RulesDiffer'
  <2>1. ASSUME NEW j \in 1..n, NEW k \in 1..n, j # k
        PROVE  <<Left(j)', Right(j)'>> # <<Left(k)', Right(k)'>>
    BY <1>10, <2>1 DEF BpeInv, RulesDiffer
  <2>2. ASSUME NEW j \in 1..n PROVE <<Left(j)', Right(j)'>> # <<a, b>>
    BY <1>2, <1>10
  <2>3. \A k \in 1..Len(merges') : k \in 1..n \/ k = n + 1
    BY <1>2
  <2>4. ASSUME NEW j \in 1..Len(merges'), NEW k \in 1..Len(merges'), j # k
        PROVE  <<Left(j)', Right(j)'>> # <<Left(k)', Right(k)'>>
    <3>1. CASE j \in 1..n /\ k \in 1..n
      BY <2>1, <2>4, <3>1
    <3>2. CASE j \in 1..n /\ k = n + 1
      <4>1. Left(k)' = a /\ Right(k)' = b
        BY <1>11, <3>2
      <4>2. QED
        BY <2>2, <3>2, <4>1
    <3>3. CASE j = n + 1 /\ k \in 1..n
      <4>1. Left(j)' = a /\ Right(j)' = b
        BY <1>11, <3>3
      <4>2. QED
        BY <2>2, <3>3, <4>1
    <3>4. QED
      BY <2>3, <2>4, <3>1, <3>2, <3>3
  <2>5. QED
    BY <2>4 DEF RulesDiffer
<1>14. QED
  BY <1>7, <1>8, <1>12, <1>13 DEF BpeInv

LEMMA BpeKept == BpeInv /\ [BpeNext]_bpeVars => BpeInv'
<1> SUFFICES ASSUME BpeInv, [BpeNext]_bpeVars PROVE BpeInv'
  OBVIOUS
<1>1. CASE MergePair
  BY <1>1, BpeStep
<1>2. CASE UNCHANGED bpeVars
  <2>1. freq' = freq /\ tokens' = tokens /\ vocab' = vocab /\ merges' = merges
    BY <1>2 DEF bpeVars
  <2>2. Pairs' = Pairs /\ TokenIds' = TokenIds /\ ByteValues' = ByteValues
    BY <2>1 DEF Pairs, TokenIds, NextId, ByteValues
  <2>3. BpeTyped'
    BY <2>1, <2>2 DEF BpeInv, BpeTyped
  <2>4. WordsSpelled'
    BY <2>1 DEF BpeInv, WordsSpelled
  <2>5. RulesStand'
    BY <2>1, <2>2 DEF BpeInv, RulesStand, Left, Right
  <2>6. RulesDiffer'
    BY <2>1 DEF BpeInv, RulesDiffer, Left, Right
  <2>7. QED
    BY <2>3, <2>4, <2>5, <2>6 DEF BpeInv
<1>3. QED
  BY <1>1, <1>2 DEF BpeNext

LEMMA TwoPut ==
  ASSUME NEW S, NEW a \in S, NEW b \in S
  PROVE  <<a, b>> = Put(a, Put(b, <<>>))
<1> DEFINE p == Put(b, <<>>)
           q == Put(a, p)
<1>1. <<>> \in Seq(S) /\ Len(<<>>) = 0 /\ PutsOn(S)
  BY PuttingOn
<1>2. p \in Seq(S) /\ Len(p) = 1 /\ p[1] = b
  <2>1. p \in Seq(S) /\ Len(p) = Len(<<>>) + 1 /\ p[1] = b
    BY <1>1, Zenon DEF PutsOn
  <2>2. QED
    BY <1>1, <2>1
<1> HIDE DEF p
<1>3. q \in Seq(S) /\ Len(q) = 2 /\ q[1] = a /\ q[2] = b
  <2>1. q \in Seq(S) /\ Len(q) = Len(p) + 1 /\ q[1] = a /\ \A i \in 1..Len(p) : q[i + 1] = p[i]
    BY <1>1, <1>2 DEF PutsOn
  <2>2. 1 \in 1..Len(p) /\ 1 + 1 = 2
    BY <1>2
  <2> HIDE DEF q
  <2>3. q[2] = p[1]
    BY <2>1, <2>2
  <2>4. QED
    BY <1>2, <2>1, <2>3
<1> HIDE DEF q
<1>4. q = <<a, b>>
  <2>1. <<a, b>> \in Seq(S) /\ Len(<<a, b>>) = 2 /\ <<a, b>>[1] = a /\ <<a, b>>[2] = b
    OBVIOUS
  <2>2. \A i \in 1..Len(q) : q[i] = <<a, b>>[i]
    BY <1>3
  <2>3. QED
    BY <1>3, <2>1, <2>2, SeqEqual
<1>5. QED
  BY <1>4 DEF p, q

LEMMA InvariantSpells == BpeInv => TokensSpellText
<1> SUFFICES ASSUME BpeInv PROVE TokensSpellText
  OBVIOUS
<1>1. /\ \A w \in DOMAIN tokens : tokens[w] \in Seq(TokenIds) /\ Spell(vocab, tokens[w]) = w
      /\ Vocabulary(vocab, TokenIds, ByteValues) /\ DOMAIN vocab = TokenIds
      /\ merges \in Seq(Nat \X Nat \X Nat)
  BY DEF BpeInv, BpeTyped, WordsSpelled, Vocabulary
<1>2. ASSUME NEW w \in DOMAIN tokens
      PROVE  ToSet(tokens[w]) \subseteq DOMAIN vocab /\ Spelling(tokens[w]) = w
  <2>1. tokens[w] \in Seq(TokenIds) /\ Spell(vocab, tokens[w]) = w
    BY <1>1
  <2>2. \A i \in DOMAIN tokens[w] : tokens[w][i] \in TokenIds
    BY <2>1, SeqElement
  <2>3. QED
    BY <1>1, <2>1, <2>2 DEF ToSet, Spelling, Spell
<1>3. ASSUME NEW k \in DOMAIN merges
      PROVE  /\ merges[k][1] < merges[k][3] /\ merges[k][2] < merges[k][3]
             /\ vocab[merges[k][3]] = Spelling(<<merges[k][1], merges[k][2]>>)
  <2> DEFINE a == merges[k][1]
             b == merges[k][2]
             c == merges[k][3]
  <2>1. k \in 1..Len(merges) /\ Len(merges) \in Nat
    BY <1>1
  <2>2. /\ c = ByteCount + Specials + k - 1 /\ a \in Specials..c - 1 /\ b \in Specials..c - 1
        /\ vocab[c] = vocab[a] \o vocab[b]
    BY <2>1 DEF BpeInv, RulesStand, Left, Right
  <2> HIDE DEF a, b, c
  <2>3. a < c /\ b < c /\ a \in TokenIds /\ b \in TokenIds
    BY <2>1, <2>2, BpeAssumption DEF TokenIds, NextId
  <2>4. Spell(vocab, <<a, b>>) = vocab[a] \o vocab[b]
    <3>1. <<a, b>> = Put(a, Put(b, <<>>)) /\ <<>> \in Seq(TokenIds)
      BY <2>3, TwoPut
    <3>2. SpellsOn(vocab, TokenIds)
      BY <1>1, SpellingGoesOn
    <3>3. /\ Put(b, <<>>) \in Seq(TokenIds)
          /\ Spell(vocab, Put(b, <<>>)) = vocab[b] \o Spell(vocab, <<>>)
      BY <2>3, <3>1, <3>2 DEF SpellsOn
    <3>4. Spell(vocab, Put(a, Put(b, <<>>))) = vocab[a] \o Spell(vocab, Put(b, <<>>))
      BY <2>3, <3>2, <3>3 DEF SpellsOn
    <3>5. Spell(vocab, <<>>) = <<>>
      BY SpellEmpty
    <3>6. vocab[b] \in Seq(ByteValues)
      BY <1>1, <2>3 DEF Vocabulary
    <3>7. vocab[b] \o <<>> = vocab[b]
      BY <3>6
    <3>8. QED
      BY <3>1, <3>3, <3>4, <3>5, <3>7
  <2>5. Spelling(<<a, b>>) = Spell(vocab, <<a, b>>)
    BY DEF Spelling, Spell
  <2>6. a < c /\ b < c /\ vocab[c] = Spelling(<<a, b>>)
    BY <2>2, <2>3, <2>4, <2>5
  <2>7. QED
    BY <2>6 DEF a, b, c
<1>4. ASSUME NEW j \in DOMAIN merges, NEW k \in DOMAIN merges, j # k
      PROVE  <<merges[j][1], merges[j][2]>> # <<merges[k][1], merges[k][2]>>
  <2>1. merges \in Seq(Nat \X Nat \X Nat)
    BY <1>1
  <2>2. DOMAIN merges = 1..Len(merges)
    BY <2>1
  <2>3. QED
    BY <1>4, <2>2 DEF BpeInv, RulesDiffer, Left, Right
<1>5. QED
  BY <1>2, <1>3, <1>4 DEF TokensSpellText

\* The tokens of a word spell it after any number of rounds, every rule joins
\* two tokens made before its own, and no pair becomes a token twice.
THEOREM TokensSpell == BpeSpec => []TokensSpellText
<1>1. BpeInit => BpeInv
  BY BpeStart
<1>2. BpeInv /\ [BpeNext]_bpeVars => BpeInv'
  BY BpeKept
<1>3. BpeInv => TokensSpellText
  BY InvariantSpells
<1>4. QED
  BY <1>1, <1>2, <1>3, PTL DEF BpeSpec

LEMMA TermsCompare ==
  ASSUME NEW f \in Nat, NEW l \in Nat, NEW m \in Nat, NEW c \in Nat, 2 * (l - m) >= c
  PROVE  /\ f * l \in Nat /\ f * m \in Nat /\ f * c \in Nat
         /\ 2 * (f * l - f * m) >= f * c
<1>1. f * l \in Nat /\ f * m \in Nat /\ f * c \in Nat
  OBVIOUS
<1>2. PICK e \in Nat : 2 * (l - m) = c + e
  <2>1. 2 * (l - m) - c \in Nat
    OBVIOUS
  <2>2. QED
    BY <2>1
<1>3. f * (2 * (l - m)) = f * c + f * e /\ f * e \in Nat
  BY <1>2
<1>4. f * (2 * (l - m)) = 2 * (f * l - f * m)
  OBVIOUS
<1>5. QED
  BY <1>1, <1>3, <1>4

LEMMA RoundShortens ==
  BpeInv /\ BpeInv' /\ MergePair
    => LET rule == merges'[Len(merges')]
       IN  2 * (CorpusLength - CorpusLength') >= PairCount(<<rule[1], rule[2]>>)
<1> SUFFICES ASSUME BpeInv, BpeInv', MergePair
             PROVE  LET rule == merges'[Len(merges')]
                    IN  2 * (CorpusLength - CorpusLength') >= PairCount(<<rule[1], rule[2]>>)
  OBVIOUS
<1>1. PICK pair \in Pairs :
        /\ tokens' = [w \in DOMAIN tokens |-> MergeWord(tokens[w], pair, NextId)]
        /\ merges' = Append(merges, <<pair[1], pair[2], NextId>>)
        /\ freq' = freq
  BY DEF MergePair
<1>2. /\ pair = <<pair[1], pair[2]>>
      /\ merges'[Len(merges')] = <<pair[1], pair[2], NextId>>
  BY <1>1, RuleAdded
<1> DEFINE S == DOMAIN tokens
           E == TokenIds \cup {NextId}
           h1 == [w \in S |-> freq[w] * Len(tokens[w])]
           h2 == [w \in S |-> freq[w] * Len(tokens'[w])]
           h3 == [w \in S |-> freq[w] * CountIn(tokens[w], pair)]
<1>3. /\ IsFiniteSet(S) /\ S = DOMAIN tokens'
      /\ \A w \in S : freq[w] \in Nat /\ tokens[w] \in Seq(TokenIds)
                      /\ tokens'[w] = MergeWord(tokens[w], pair, NextId)
  BY <1>1 DEF BpeInv, BpeTyped
<1>4. ASSUME NEW w \in S
      PROVE  /\ freq[w] * Len(tokens[w]) \in Nat /\ freq[w] * Len(tokens'[w]) \in Nat
             /\ freq[w] * CountIn(tokens[w], pair) \in Nat
             /\ 2 * (freq[w] * Len(tokens[w]) - freq[w] * Len(tokens'[w])) >= freq[w] * CountIn(tokens[w], pair)
  <2>1. tokens[w] \in Seq(E) /\ NextId \in E
    <3>1. TokenIds \subseteq E /\ NextId \in E
      OBVIOUS
    <3> HIDE DEF E
    <3>2. QED
      BY <1>3, <3>1, WiderSequence
  <2> HIDE DEF E
  <2>2. /\ CountIn(tokens[w], pair) \in Nat /\ Len(tokens[w]) \in Nat
        /\ Len(MergeWord(tokens[w], pair, NextId)) \in Nat
        /\ 2 * (Len(tokens[w]) - Len(MergeWord(tokens[w], pair, NextId))) >= CountIn(tokens[w], pair)
    BY <2>1, MergeShortens DEF CountIn
  <2>3. /\ freq[w] \in Nat /\ Len(tokens'[w]) \in Nat
        /\ 2 * (Len(tokens[w]) - Len(tokens'[w])) >= CountIn(tokens[w], pair)
    BY <1>3, <2>2
  <2>4. QED
    BY <2>2, <2>3, TermsCompare
<1>5. /\ h1 \in [S -> Nat] /\ h2 \in [S -> Nat] /\ h3 \in [S -> Nat]
      /\ \A w \in S : 2 * (h1[w] - h2[w]) >= h3[w]
  <2> HIDE DEF S
  <2>1. QED
    BY <1>4
<1>6. CorpusLength = SumOfLengths(freq, tokens) /\ CorpusLength' = SumOfLengths(freq', tokens')
  BY DEF CorpusLength, SumOfLengths, MapThenSumSet, MapThenFoldSet
<1>7. PairCount(pair) = SumOfCounts(freq, tokens, pair)
  BY DEF PairCount, SumOfCounts, CountIn, MapThenSumSet, MapThenFoldSet
<1>8. PICK g1 : SumRule(S, h1, g1) /\ CorpusLength = g1[S]
  BY <1>3, <1>6, LengthsSum
<1>9. PICK g2 : SumRule(S, h2, g2) /\ CorpusLength' = g2[S]
  <2>1. IsFiniteSet(DOMAIN tokens') /\ h2 = [w \in DOMAIN tokens' |-> freq'[w] * Len(tokens'[w])]
    BY <1>1, <1>3
  <2> HIDE DEF h2
  <2>2. \E g : SumRule(DOMAIN tokens', h2, g) /\ SumOfLengths(freq', tokens') = g[DOMAIN tokens']
    BY <2>1, LengthsSum
  <2>3. QED
    BY <1>3, <1>6, <2>2
<1>10. PICK g3 : SumRule(S, h3, g3) /\ PairCount(pair) = g3[S]
  <2>1. h3 = [w \in DOMAIN tokens |-> freq[w] * CountIn(tokens[w], pair)] /\ IsFiniteSet(DOMAIN tokens)
    BY <1>3
  <2> HIDE DEF h3
  <2>2. \E g : SumRule(DOMAIN tokens, h3, g) /\ SumOfCounts(freq, tokens, pair) = g[DOMAIN tokens]
    BY <2>1, CountsSum
  <2>3. QED
    BY <1>7, <2>2
<1> HIDE DEF h1, h2, h3, S
<1>11. 2 * (g1[S] - g2[S]) >= g3[S]
  BY <1>3, <1>5, <1>8, <1>9, <1>10, SumsCompare
<1>12. QED
  BY <1>2, <1>8, <1>9, <1>10, <1>11

\* A round of training shortens the counted corpus by half of the places of the
\* pair it merges, or more, although places that overlap cannot all be merged.
THEOREM MergesShortenCorpus == BpeSpec => MergesShorten
<1> DEFINE Shorter == LET rule == merges'[Len(merges')]
                      IN  merges' # merges
                            => 2 * (CorpusLength - CorpusLength') >= PairCount(<<rule[1], rule[2]>>)
<1>1. BpeInit => BpeInv
  BY BpeStart
<1>2. BpeInv /\ [BpeNext]_bpeVars => BpeInv'
  BY BpeKept
<1>3. BpeInv /\ BpeInv' /\ [BpeNext]_bpeVars => [Shorter]_bpeVars
  <2>1. BpeInv /\ BpeInv' /\ BpeNext => Shorter
    BY RoundShortens DEF BpeNext
  <2>2. QED
    BY <2>1
<1>4. BpeSpec => [][Shorter]_bpeVars
  BY <1>1, <1>2, <1>3, PTL DEF BpeSpec
<1>5. QED
  BY <1>4 DEF MergesShorten

(***************************************************************************)
(* What each component's state looks like, for SideProofs.  The registries of   *)
(* checkpoints: an id is the number of a call that has begun.                  *)
(***************************************************************************)
IdsFromOne(records) == \A j \in 1..Len(records) : records[j].id >= 1

CheckpointTypes ==
  /\ NewestInv /\ begun <= MaxSaves /\ removed \subseteq 1..MaxSaves
  /\ \A r \in Runs : IdsFromOne(registry[r])
  /\ \A s \in Sessions : Active(s) => session[s].id >= 1
  /\ \A s \in Sessions : Stands(s, "write") => IdsFromOne(session[s].records)

LEMMA CheckpointTypesImply == CheckpointTypes => CheckpointTypeOK
<1> SUFFICES ASSUME CheckpointTypes PROVE CheckpointTypeOK
  OBVIOUS
<1>1. RecordsTyped /\ begun \in Nat /\ begun <= MaxSaves /\ MaxSaves \in Nat
  BY CheckpointAssumption DEF CheckpointTypes, NewestInv, RecordsTyped
<1>2. ASSUME NEW r \in Runs
      PROVE  registry[r] \in Seq([id : 1..MaxSaves, payload : Snapshots])
  <2> DEFINE have == registry[r]
             S == [id : 1..MaxSaves, payload : Snapshots]
  <2>1. have \in Seq(Recs) /\ IdsUpTo(have, begun) /\ IdsFromOne(have)
    BY <1>1 DEF RecordsTyped, CheckpointTypes, NewestInv
  <2> HIDE DEF have
  <2>2. ASSUME NEW j \in 1..Len(have) PROVE have[j] \in S
    <3>1. have[j] \in Recs /\ have[j].id <= begun /\ have[j].id >= 1
      BY <2>1 DEF IdsUpTo, IdsFromOne
    <3>2. have[j].id \in 1..MaxSaves
      BY <1>1, <3>1 DEF Recs
    <3>3. QED
      BY <3>1, <3>2 DEF Recs
  <2> HIDE DEF S
  <2>3. have \in Seq(S)
    BY <2>1, <2>2
  <2>4. QED
    BY <2>3 DEF have, S
<1>3. QED
  BY <1>1, <1>2 DEF CheckpointTypeOK, RecordsTyped, CheckpointTypes

LEMMA CheckpointTypesInit == CheckpointInit => CheckpointTypes
<1> SUFFICES ASSUME CheckpointInit PROVE CheckpointTypes
  OBVIOUS
<1>1. NewestInv /\ removed = {} /\ begun <= MaxSaves
  BY NewestStart, CheckpointAssumption DEF CheckpointInit
<1>2. \A s \in Sessions : session[s] = Quiet /\ ~ Active(s) /\ ~ Stands(s, "write")
  BY QuietFields DEF CheckpointInit, Active, Stands
<1>3. \A r \in Runs : IdsFromOne(registry[r])
  BY DEF CheckpointInit, IdsFromOne
<1>4. QED
  BY <1>1, <1>2, <1>3 DEF CheckpointTypes

LEMMA WrittenFromOne ==
  ASSUME NEW had \in Seq(Recs), NEW q \in Jobs, IdsFromOne(had), q.id >= 1
  PROVE  /\ q.payload \in Snapshots => IdsFromOne(Saved(had, q))
         /\ Deleted(had, q) # {} => IdsFromOne(Retained(had, q))
<1> DEFINE m == Len(had)
<1>0. m \in Nat /\ \A j \in 1..m : had[j].id >= 1
  BY DEF IdsFromOne
<1>1. ASSUME q.payload \in Snapshots PROVE IdsFromOne(Saved(had, q))
  <2> DEFINE new == Saved(had, q)
  <2>1. PICK k \in 0..m :
             /\ Len(new) = m + 1 - k /\ \A i \in 1..m - k : new[i] = had[i + k]
             /\ new[m + 1 - k].id = q.id
    BY <1>1, SavedFields
  <2> HIDE DEF m, new
  <2>2. ASSUME NEW j \in 1..m + 1 - k, j # m + 1 - k
        PROVE  new[j].id >= 1
    <3>1. j \in 1..m - k /\ j + k \in 1..m
      BY <1>0, <2>2
    <3>2. QED
      BY <1>0, <2>1, <3>1
  <2>3. QED
    BY <2>1, <2>2 DEF IdsFromOne, new
<1>2. ASSUME Deleted(had, q) # {} PROVE IdsFromOne(Retained(had, q))
  <2> DEFINE new == Retained(had, q)
  <2>1. PICK k \in 1..m :
             /\ Len(new) = m - 1
             /\ \A i \in 1..m - 1 : new[i] = IF i < k THEN had[i] ELSE had[i + 1]
    BY <1>2, RetainedFields
  <2> HIDE DEF m, new
  <2>2. ASSUME NEW j \in 1..m - 1
        PROVE  new[j].id >= 1
    <3>1. j \in 1..m /\ j + 1 \in 1..m
      BY <1>0
    <3>2. new[j] = had[j] \/ new[j] = had[j + 1]
      BY <2>1
    <3>3. QED
      BY <1>0, <3>1, <3>2
  <2>3. QED
    BY <2>1, <2>2 DEF IdsFromOne, new
<1>3. QED
  BY <1>1, <1>2

\* A step of a call: the ids it has to show.
LEMMA CheckpointIds ==
  ASSUME CheckpointTypes, NewestInv', NEW s \in Sessions, OthersStay(s), begun' = begun,
         removed' \subseteq 1..MaxSaves, \A r \in Runs : IdsFromOne(registry'[r]),
         session'[s].pc # "idle" => session'[s].id >= 1,
         session'[s].pc = "write" => IdsFromOne(session'[s].records)
  PROVE  CheckpointTypes'
<1>1. \A t \in Sessions \ {s} : session'[t] = session[t]
  BY DEF OthersStay
<1>2. QED
  BY <1>1 DEF CheckpointTypes, Active, Stands

LEMMA CheckpointTypesStep == CheckpointTypes /\ [CheckpointNext]_checkpointVars => CheckpointTypes'
<1> SUFFICES ASSUME CheckpointTypes, [CheckpointNext]_checkpointVars PROVE CheckpointTypes'
  OBVIOUS
<1>n. NewestInv'
  BY NewestKeptOn DEF CheckpointTypes
<1>0. /\ RecordsTyped /\ begun \in Nat /\ begun <= MaxSaves /\ MaxSaves \in Nat /\ removed \subseteq 1..MaxSaves
      /\ \A r \in Runs : IdsFromOne(registry[r])
  BY CheckpointAssumption DEF CheckpointTypes, NewestInv, RecordsTyped
<1>1. ASSUME NEW s \in Sessions, NEW op \in {"save", "delete"}, NEW r \in Runs, NEW id \in Nat, id >= 1,
             NEW p \in Snapshots \cup {Nothing}, op = "save" <=> p \in Snapshots, BeginCall(s, op, r, id, p)
      PROVE  CheckpointTypes'
  <2>1. /\ session'[s].pc \in {"look", "load"} /\ session'[s].id = id
        /\ \A t \in Sessions \ {s} : SameSession(session'[t], session[t])
    <3>1. BegunAs(s, op, r, id, p)
      BY <1>0, <1>1, BegunCall
    <3>2. QED
      BY <3>1 DEF BegunAs
  <2>2. begun' = begun + 1 /\ begun < MaxSaves /\ registry' = registry /\ removed' = removed
    BY <1>1 DEF BeginCall
  <2>3. begun' <= MaxSaves
    BY <1>0, <2>2
  <2>4. \A t \in Sessions : Active(t)' => session'[t].id >= 1
    BY <1>1, <2>1 DEF CheckpointTypes, Active, SameSession
  <2>5. \A t \in Sessions : Stands(t, "write")' => IdsFromOne(session'[t].records)
    BY <2>1 DEF CheckpointTypes, Stands, SameSession
  <2>6. QED
    BY <1>n, <1>0, <2>2, <2>3, <2>4, <2>5 DEF CheckpointTypes
<1>2. ASSUME NEW s \in Sessions, NEW r \in Runs, NEW p \in Snapshots, SaveCheckpoint(s, r, p)
      PROVE  CheckpointTypes'
  <2>1. begun + 1 \in Nat /\ begun + 1 >= 1
    BY <1>0
  <2>2. QED
    BY <1>1, <1>2, <2>1 DEF SaveCheckpoint
<1>3. ASSUME NEW s \in Sessions, NEW r \in Runs, NEW id \in 1..begun, DeleteCheckpoint(s, r, id)
      PROVE  CheckpointTypes'
  <2>1. Nothing \notin Snapshots /\ id \in Nat /\ id >= 1
    BY <1>0, CheckpointAssumption
  <2>2. QED
    BY <1>1, <1>3, <2>1 DEF DeleteCheckpoint
<1>4. ASSUME NEW s \in Sessions, LookUpBlob(s) PROVE CheckpointTypes'
  <2>1. /\ OthersStay(s) /\ begun' = begun /\ registry' = registry /\ removed' = removed
        /\ session[s].pc = "look" /\ session'[s].pc # "write" /\ session'[s].id = session[s].id
    BY <1>0, <1>4, LookedUp DEF FilesStay
  <2>2. session'[s].id >= 1
    BY <2>1 DEF CheckpointTypes, Active
  <2>3. QED
    BY <1>n, <1>0, <2>1, <2>2, CheckpointIds
<1>5. ASSUME NEW s \in Sessions, PutCheckpoint(s) PROVE CheckpointTypes'
  <2>1. /\ OthersStay(s) /\ begun' = begun /\ registry' = registry /\ removed' = removed
        /\ session[s].pc = "put" /\ session'[s].pc # "write" /\ session'[s].id = session[s].id
    BY <1>0, <1>5, PutCall
  <2>2. session'[s].id >= 1
    BY <2>1 DEF CheckpointTypes, Active
  <2>3. QED
    BY <1>n, <1>0, <2>1, <2>2, CheckpointIds
<1>6. ASSUME NEW s \in Sessions, LoadRegistry(s) PROVE CheckpointTypes'
  <2> DEFINE q == session[s]
             q2 == session'[s]
             had == registry[q.run]
  <2>1. /\ OthersStay(s) /\ begun' = begun /\ registry' = registry /\ removed' = removed
        /\ q.pc = "load" /\ q.run \in Runs /\ had \in Seq(Recs) /\ q \in Jobs
        /\ (q.op = "save" <=> q.payload \in Snapshots)
        /\ \/ q2 = Quiet
           \/ /\ q2.id = q.id
              /\ \/ q.op = "save" /\ q2.records = Saved(had, q)
                 \/ Deleted(had, q) # {} /\ q2.records = Retained(had, q)
    BY <1>0, <1>6, LoadedCall DEF FilesStay
  <2>2. q.id >= 1 /\ IdsFromOne(had)
    BY <1>0, <2>1 DEF CheckpointTypes, Active
  <2>3. /\ q.payload \in Snapshots => IdsFromOne(Saved(had, q))
        /\ Deleted(had, q) # {} => IdsFromOne(Retained(had, q))
    BY <2>1, <2>2, WrittenFromOne
  <2> HIDE DEF q, had, q2
  <2>4. (q2.pc # "idle" => q2.id >= 1) /\ (q2.pc = "write" => IdsFromOne(q2.records))
    BY <2>1, <2>2, <2>3, QuietFields
  <2>5. QED
    BY <1>n, <1>0, <2>1, <2>4, CheckpointIds DEF q2
<1>7. ASSUME NEW s \in Sessions, SaveRegistry(s) PROVE CheckpointTypes'
  <2> DEFINE q == session[s]
  <2>1. /\ OthersStay(s) /\ begun' = begun
        /\ q.pc = "write" /\ q.run \in Runs /\ q \in Jobs
        /\ registry' = [registry EXCEPT ![q.run] = q.records]
        /\ removed' = IF q.op = "delete" THEN removed \cup {q.id} ELSE removed
        /\ session'[s] = Quiet \/ (session'[s].pc = "scan" /\ session'[s].id = q.id)
    BY <1>0, <1>7, WrittenCall
  <2>2. q.id >= 1 /\ q.id <= begun /\ IdsFromOne(q.records)
    BY <2>1 DEF CheckpointTypes, Active, Stands, NewestInv, Orderly
  <2>3. q.id \in 1..MaxSaves
    BY <1>0, <2>1, <2>2 DEF Jobs
  <2>4. \A r \in Runs : IdsFromOne(registry'[r])
    <3>1. \A r \in Runs : registry'[r] = IF r = q.run THEN q.records ELSE registry[r]
      BY <1>0, <2>1 DEF RecordsTyped
    <3>2. QED
      BY <1>0, <2>2, <3>1
  <2>5. removed' \subseteq 1..MaxSaves
    BY <1>0, <2>1, <2>3
  <2>6. (session'[s].pc # "idle" => session'[s].id >= 1) /\ session'[s].pc # "write"
    BY <2>1, <2>2, QuietFields
  <2>7. QED
    BY <1>n, <2>1, <2>4, <2>5, <2>6, CheckpointIds
<1>8. ASSUME NEW s \in Sessions, ScanRegistries(s) PROVE CheckpointTypes'
  <2>1. /\ OthersStay(s) /\ begun' = begun /\ registry' = registry /\ removed' = removed /\ session[s].pc = "scan"
        /\ session'[s] = Quiet \/ (session'[s].pc = "gc" /\ session'[s].id = session[s].id)
    BY <1>0, <1>8, ScannedCall DEF FilesStay
  <2>2. (session'[s].pc # "idle" => session'[s].id >= 1) /\ session'[s].pc # "write"
    BY <2>1, QuietFields DEF CheckpointTypes, Active
  <2>3. QED
    BY <1>n, <1>0, <2>1, <2>2, CheckpointIds
<1>9. ASSUME NEW s \in Sessions, NEW p \in Snapshots, DeleteGarbage(s, p) PROVE CheckpointTypes'
  <2>1. /\ OthersStay(s) /\ begun' = begun /\ registry' = registry /\ removed' = removed /\ session[s].pc = "gc"
        /\ session'[s] = Quiet \/ (session'[s].pc = "gc" /\ session'[s].id = session[s].id)
    BY <1>0, <1>9, DeletedCall
  <2>2. (session'[s].pc # "idle" => session'[s].id >= 1) /\ session'[s].pc # "write"
    BY <2>1, QuietFields DEF CheckpointTypes, Active
  <2>3. QED
    BY <1>n, <1>0, <2>1, <2>2, CheckpointIds
<1>10. ASSUME NEW s \in Sessions, CutShort(s) PROVE CheckpointTypes'
  <2>1. OthersStay(s) /\ begun' = begun /\ registry' = registry /\ removed' = removed /\ session'[s] = Quiet
    BY <1>0, <1>10, CutCall
  <2>2. session'[s].pc = "idle"
    BY <2>1, QuietFields
  <2>3. QED
    BY <1>n, <1>0, <2>1, <2>2, CheckpointIds
<1>11. CASE UNCHANGED checkpointVars
  <2>1. begun' = begun /\ registry' = registry /\ removed' = removed /\ session' = session
    BY <1>11 DEF checkpointVars
  <2>2. QED
    BY <1>n, <2>1 DEF CheckpointTypes, Active, Stands
<1>12. QED
  BY <1>2, <1>3, <1>4, <1>5, <1>6, <1>7, <1>8, <1>9, <1>10, <1>11 DEF CheckpointNext, CheckpointStep

\* Payloads, and the chunks they are cut into.
LEMMA PayloadTypesImply == PayloadInv => PayloadTypeOK
BY DEF PayloadInv, PayloadTypeOK

\* A chunk is cut at the width at the latest.
LEMMA LengthBounded ==
  ASSUME NEW data \in Seq(Bytes)
  PROVE  ChunkLength(data) <= MaxSize
<1> DEFINE last == Least(MaxSize, Len(data))
           cuts == {i \in MinSize + 1..last : HashAt(data, i) = 0}
<1>1. last \in Nat /\ last <= MaxSize
  <2>1. Len(data) \in Nat
    OBVIOUS
  <2>2. QED
    BY <2>1, ChunkAssumption DEF Least
<1>2. CutPoint(data) = IF cuts = {} THEN last ELSE CHOOSE i \in cuts : \A j \in cuts : i <= j
  BY DEF CutPoint
<1>3. cuts \subseteq Nat /\ \A i \in cuts : i <= last
  BY <1>1, ChunkAssumption
<1> HIDE DEF cuts
<1>4. cuts # {} => CutPoint(data) \in cuts
  BY <1>2, <1>3, LeastNatural
<1>5. CutPoint(data) <= MaxSize
  <2>1. CASE cuts = {}
    BY <1>1, <1>2, <2>1
  <2>2. CASE cuts # {}
    <3>1. CutPoint(data) \in Nat /\ CutPoint(data) <= last
      BY <1>3, <1>4, <2>2
    <3> HIDE DEF last
    <3>2. QED
      BY <1>1, <3>1, ChunkAssumption
  <2>3. QED
    BY <2>1, <2>2
<1>6. FixedCut(data) <= MaxSize
  BY <1>1 DEF FixedCut
<1>7. QED
  BY <1>5, <1>6 DEF ChunkLength

ChunkTypes == DivisionInv /\ ChunkTypeOK

LEMMA ChunkTypesInit == ChunkInit => ChunkTypes
<1> SUFFICES ASSUME ChunkInit PROVE ChunkTypes
  OBVIOUS
<1>1. ends = <<<<>>, <<>>>>
  BY DEF ChunkInit
<1> DEFINE none == <<>>
<1>2. none = <<>> /\ ends = <<none, none>>
  BY <1>1
<1>3. DOMAIN none = {}
  OBVIOUS
<1> HIDE DEF none
<1>4. \A s \in 1..2 : ends[s] = none
  BY <1>2
<1>5. QED
  BY <1>3, <1>4, DivisionInit DEF ChunkTypes, ChunkTypeOK

\* The chunk that is cut now: the places before it stay.
LEMMA SizesKept ==
  ASSUME ChunkTypes, NEW s \in 1..2, NextChunk(s)
  PROVE  ChunkTypeOK'
<1>1. TextsOK /\ EndsOK
  BY DEF ChunkTypes, DivisionInv
<1> DEFINE rest == SubSeq(texts[s], Offset(s) + 1, Len(texts[s]))
<1>2. PICK e \in Nat :
        /\ ends' = [ends EXCEPT ![s] = Append(ends[s], e)]
        /\ e = Offset(s) + ChunkLength(rest)
        /\ Offset(s) \in Nat
  BY <1>1, EndAdded
<1>3. texts' = texts /\ More(s)
  BY DEF NextChunk
<1>4. texts[s] \in Seq(Bytes) /\ ends[s] \in Seq(Nat) /\ ends \in [1..2 -> Seq(Nat)]
  BY <1>1 DEF TextsOK, EndsOK
<1>5. rest \in Seq(Bytes) /\ (Offset(s) < Len(texts[s]) => rest # <<>>)
  <2> DEFINE text == texts[s]
             c == Offset(s)
  <2>1. text \in Seq(Bytes) /\ c \in Nat /\ rest = SubSeq(text, c + 1, Len(text))
    BY <1>2, <1>4
  <2> HIDE DEF text, c, rest
  <2>2. rest \in Seq(Bytes) /\ Len(text) \in Nat
    BY <2>1
  <2>3. c < Len(text) => Len(rest) > 0
    BY <2>1, <2>2
  <2>4. rest = <<>> => Len(rest) = 0
    OBVIOUS
  <2>5. QED
    BY <2>2, <2>3, <2>4 DEF text, c
<1>6. ChunkLength(rest) \in Nat /\ ChunkLength(rest) <= MaxSize /\ (ChunkLength(rest) > 0 \/ texts[s] = <<>>)
  BY <1>3, <1>5, LengthPositive, LengthBounded DEF More
<1> HIDE DEF rest
<1>7. Offset(s) = IF ends[s] = <<>> THEN 0 ELSE ends[s][Len(ends[s])]
  BY DEF Offset, Last
<1> DEFINE es == ends[s]
           n == Len(es)
<1>8. es \in Seq(Nat) /\ n \in Nat /\ DOMAIN es = 1..n /\ (es = <<>> <=> n = 0)
  BY <1>4
<1> HIDE DEF es, n
<1>9. /\ DOMAIN Append(es, e) = 1..n + 1 /\ Append(es, e)[n + 1] = e
      /\ \A i \in 1..n : Append(es, e)[i] = es[i]
  BY <1>2, <1>8 DEF n
<1>10. Offset(s) = IF n = 0 THEN 0 ELSE es[n]
  BY <1>7, <1>8 DEF es, n
<1>11. \A i \in 1..n : LET size == es[i] - IF i = 1 THEN 0 ELSE es[i - 1]
                       IN  (size > 0 \/ texts[s] = <<>>) /\ size <= MaxSize
  BY <1>8 DEF ChunkTypes, ChunkTypeOK, es
<1> DEFINE es2 == Append(es, e)
           Size(i) == es2[i] - IF i = 1 THEN 0 ELSE es2[i - 1]
<1>12. ASSUME NEW i \in 1..n + 1
       PROVE  (Size(i) > 0 \/ texts[s] = <<>>) /\ Size(i) <= MaxSize
  <2>1. ASSUME i \in 1..n
        PROVE  (Size(i) > 0 \/ texts[s] = <<>>) /\ Size(i) <= MaxSize
    <3>1. i # 1 => i - 1 \in 1..n
      BY <1>8, <2>1
    <3>2. Size(i) = es[i] - IF i = 1 THEN 0 ELSE es[i - 1]
      BY <1>9, <2>1, <3>1
    <3>3. QED
      BY <1>11, <2>1, <3>2
  <2>2. ASSUME i = n + 1
        PROVE  (Size(i) > 0 \/ texts[s] = <<>>) /\ Size(i) <= MaxSize
    <3>1. n # 0 => n \in 1..n /\ i # 1 /\ i - 1 = n
      BY <1>8, <2>2
    <3>2. Size(i) = e - Offset(s)
      BY <1>8, <1>9, <1>10, <2>2, <3>1
    <3> DEFINE len == ChunkLength(rest)
               off == Offset(s)
    <3>3. Size(i) = e - off /\ e = off + len /\ off \in Nat /\ len \in Nat
      BY <1>2, <1>6, <3>2
    <3> HIDE DEF len, off, Size
    <3>4. Size(i) = len
      BY <3>3
    <3>5. QED
      BY <1>6, <3>4 DEF len
  <2>3. i \in 1..n \/ i = n + 1
    BY <1>8
  <2>4. QED
    BY <2>1, <2>2, <2>3
<1>13. ends'[s] = es2 /\ \A t \in (1..2) \ {s} : ends'[t] = ends[t]
  BY <1>2, <1>4 DEF es
<1> HIDE DEF es2
<1>14. ASSUME NEW t \in 1..2, NEW i \in DOMAIN ends'[t]
       PROVE  LET size == ends'[t][i] - IF i = 1 THEN 0 ELSE ends'[t][i - 1]
              IN  (size > 0 \/ texts[t] = <<>>) /\ size <= MaxSize
  <2>1. CASE t = s
    BY <1>9, <1>12, <1>13, <2>1 DEF es2
  <2>2. CASE t # s
    BY <1>13, <2>2 DEF ChunkTypes, ChunkTypeOK
  <2>3. QED
    BY <2>1, <2>2
<1>15. QED
  BY <1>3, <1>14 DEF ChunkTypeOK

LEMMA ChunkTypesStep == ChunkTypes /\ [ChunkNext]_chunkVars => ChunkTypes'
<1> SUFFICES ASSUME ChunkTypes, [ChunkNext]_chunkVars PROVE ChunkTypes'
  OBVIOUS
<1>1. DivisionInv'
  BY DivisionKept DEF ChunkTypes
<1>2. CASE ChunkNext
  BY <1>1, <1>2, SizesKept DEF ChunkNext, ChunkTypes
<1>3. CASE UNCHANGED chunkVars
  BY <1>1, <1>3 DEF chunkVars, ChunkTypes, ChunkTypeOK
<1>4. QED
  BY <1>2, <1>3

\* Vectors, and the bytes they are written as.
QuantTypes == QuantInv /\ vector \in Vectors

LEMMA QuantTypesInit == QuantInit => QuantTypes
BY QuantStart DEF QuantInit, QuantTypes

LEMMA QuantTypesStep == QuantTypes /\ [QuantNext]_quantVars => QuantTypes'
<1> SUFFICES ASSUME QuantTypes, [QuantNext]_quantVars PROVE QuantTypes'
  OBVIOUS
<1>1. vector' = vector
  BY DEF QuantNext, Encode, LoseEnd, Decode, quantVars
<1>2. Vectors' = Vectors
  BY DEF Vectors, Directions, Turn, ZeroNorm, OverflownNorm
<1>3. QED
  BY <1>1, <1>2, QuantKept DEF QuantTypes

LEMMA QuantTypesImply == QuantTypes => QuantTypeOK
<1> SUFFICES ASSUME QuantTypes, NEW i \in 2..Len(encoded)
             PROVE  encoded[i] \in 0..Levels - 1
  BY DEF QuantTypes, QuantTypeOK
<1> DEFINE k == Len(vector.tilts)
           e == ExpectedAngles(k + 1)
           a == QuantizeVector(vector).angles
<1>1. VectorOK
  BY DEF QuantTypes, QuantInv
<1>2. /\ e \in Nat \ {0} /\ a \in Seq(0..Levels - 1) /\ Len(a) = e
  BY <1>1, AngleCodes
<1>3. /\ Written \in Seq(Int) /\ Len(Written) = 2 + e
      /\ Written[2] = QuantizeNorm(vector.log)
      /\ \A j \in 1..e : Written[2 + j] = a[j]
  BY <1>1, BytesWritten
<1>4. QuantizeNorm(vector.log) \in 0..Levels - 1
  BY <1>1, NormRestored DEF VectorOK
<1> HIDE DEF e, a
<1> DEFINE w == Written
<1>5. encoded # <<>>
  <2>1. encoded = <<>> => Len(encoded) = 0
    OBVIOUS
  <2>2. QED
    BY <2>1
<1>6. PICK n \in 1..Len(w) : encoded = SubSeq(w, 1, n)
  BY <1>5 DEF QuantTypes, QuantInv
<1>7. w \in Seq(Int) /\ Len(w) = 2 + e
  BY <1>3
<1>8. \A j \in 3..2 + e : w[j] = a[j - 2] /\ j - 2 \in 1..e
  <2>1. ASSUME NEW j \in 3..2 + e
        PROVE  w[j] = a[j - 2] /\ j - 2 \in 1..e
    <3>1. j - 2 \in 1..e /\ 2 + (j - 2) = j
      BY <1>2
    <3>2. w[2 + (j - 2)] = a[j - 2]
      BY <1>3, <3>1
    <3>3. QED
      BY <3>1, <3>2
  <2>2. QED
    BY <2>1
<1> HIDE DEF w
<1>9. Len(encoded) = n /\ i \in 2..2 + e /\ i \in 1..n /\ encoded[i] = w[i]
  BY <1>2, <1>6, <1>7
<1>10. CASE i = 2
  BY <1>3, <1>4, <1>9, <1>10 DEF w
<1>11. CASE i # 2
  <2>1. i \in 3..2 + e
    BY <1>2, <1>9, <1>11
  <2>2. i - 2 \in 1..e /\ encoded[i] = a[i - 2]
    BY <1>8, <1>9, <2>1
  <2>3. \A j \in 1..Len(a) : a[j] \in 0..Levels - 1
    BY <1>2, SeqElement
  <2>4. QED
    BY <1>2, <2>2, <2>3
<1>12. QED
  BY <1>10, <1>11

\* Tokens: a word that is counted occurs, and rules are no more than the vocabulary allows.
BpeTypes == BpeInv /\ (\A w \in DOMAIN freq : freq[w] # 0) /\ Len(merges) <= NumMerges

LEMMA BpeTypesImply == BpeTypes => BpeTypeOK
<1> SUFFICES ASSUME BpeTypes PROVE BpeTypeOK
  OBVIOUS
<1>1. BpeTyped
  BY DEF BpeTypes, BpeInv
<1>2. freq \in [DOMAIN tokens -> Nat]
  BY <1>1 DEF BpeTyped
<1>3. DOMAIN tokens = DOMAIN freq /\ \A w \in DOMAIN freq : freq[w] \in Nat
  BY <1>2
<1>4. DOMAIN vocab = Specials..NextId - 1
  BY <1>1 DEF BpeTyped, Vocabulary, TokenIds
<1>5. QED
  BY <1>3, <1>4 DEF BpeTypes, BpeTypeOK

\* A word that was cut out of the text occurs in it.
LEMMA BpeTypesInit == BpeInit => BpeTypes
<1> SUFFICES ASSUME BpeInit PROVE BpeTypes
  OBVIOUS
<1>1. PICK text \in SeqOf(ByteValues, MaxText) : freq = PreTokenize(text) /\ merges = <<>>
  BY DEF BpeInit, ByteValues
<1>2. IsFiniteSet(WordSpans(text))
  BY ShortText, SpansFinite
<1> DEFINE word(s) == SubSeq(text, s[1], s[2])
           of(w) == {s \in WordSpans(text) : word(s) = w}
<1>3. freq = [w \in {word(s) : s \in WordSpans(text)} |-> Cardinality(of(w))]
  BY <1>1 DEF PreTokenize
<1>4. ASSUME NEW w \in DOMAIN freq
      PROVE  freq[w] # 0
  <2>1. PICK s \in WordSpans(text) : word(s) = w
    BY <1>3, <1>4
  <2>2. of(w) \in SUBSET WordSpans(text) /\ s \in of(w)
    BY <2>1
  <2>3. IsFiniteSet(of(w)) /\ of(w) # {}
    BY <1>2, <2>2, FS_Subset
  <2>4. Cardinality(of(w)) # 0
    BY <2>3, FS_EmptySet
  <2>5. QED
    BY <1>3, <1>4, <2>4
<1>5. Len(merges) <= NumMerges
  BY <1>1, BpeAssumption DEF NumMerges
<1>6. QED
  BY <1>4, <1>5, BpeStart DEF BpeTypes

LEMMA BpeTypesStep == BpeTypes /\ [BpeNext]_bpeVars => BpeTypes'
<1> SUFFICES ASSUME BpeTypes, [BpeNext]_bpeVars PROVE BpeTypes'
  OBVIOUS
<1>1. BpeInv /\ BpeInv'
  BY BpeKept DEF BpeTypes
<1>2. freq' = freq
  BY DEF BpeNext, MergePair, bpeVars
<1>3. NumMerges' = NumMerges /\ NumMerges \in Nat
  BY BpeAssumption DEF NumMerges
<1>4. Len(merges') <= NumMerges
  <2>1. CASE MergePair
    <3>1. PICK pair \in Pairs : merges' = Append(merges, <<pair[1], pair[2], NextId>>)
      BY <2>1 DEF MergePair
    <3>2. Len(merges') = Len(merges) + 1 /\ Len(merges) \in Nat
      BY <1>1, <3>1, RuleAdded
    <3>3. Len(merges) < NumMerges
      BY <2>1 DEF MergePair
    <3>4. QED
      BY <1>3, <3>2, <3>3
  <2>2. CASE UNCHANGED bpeVars
    BY <2>2 DEF bpeVars, BpeTypes
  <2>3. QED
    BY <2>1, <2>2 DEF BpeNext
<1>5. QED
  BY <1>1, <1>2, <1>3, <1>4 DEF BpeTypes
=============================================================================
