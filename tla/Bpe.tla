---------------------------------- MODULE Bpe ----------------------------------
(***************************************************************************)
(* Training of the tokenizer: the text is cut into words, and in every round   *)
(* the pair of neighbouring tokens that is most frequent over the counted      *)
(* words becomes a token of its own.  Bytes are small numbers; the special     *)
(* tokens come first, then one token per byte, then the merged ones.          *)
(*                                                                         *)
(* Ties between pairs go to whichever the hash map yields last: any of them.  *)
(***************************************************************************)
EXTENDS Naturals, Sequences, FiniteSets, SequencesExt, FiniteSetsExt

CONSTANTS
  ByteCount,  \* 256
  Boundary,   \* bytes that end a word: blanks, brackets, punctuation
  Specials,   \* special_token_count
  VocabSize,  \* vocab_size
  MaxText     \* bound: bytes of text

ASSUME BpeAssumption ==
  /\ ByteCount \in Nat \ {0} /\ Specials \in Nat /\ VocabSize \in Nat /\ MaxText \in Nat
  /\ Boundary \subseteq 0..ByteCount - 1

VARIABLES
  freq,     \* how often each word occurs in the text
  tokens,   \* the tokens of each word so far
  vocab,    \* the bytes each token stands for
  merges    \* the rules, oldest first

bpeVars == <<freq, tokens, vocab, merges>>

----------------------------------------------------------------------------
(* pre_tokenize: a word is a boundary byte, or a longest run of others.       *)
InWord(text, i) == i \in DOMAIN text /\ text[i] \notin Boundary

WordSpans(text) ==
  {s \in (DOMAIN text) \X (DOMAIN text) :
     \/ s[1] = s[2] /\ ~InWord(text, s[1])
     \/ /\ \A i \in s[1]..s[2] : InWord(text, i)
        /\ s[1] <= s[2] /\ ~InWord(text, s[1] - 1) /\ ~InWord(text, s[2] + 1)}

PreTokenize(text) ==
  LET spans == WordSpans(text)
      word(s) == SubSeq(text, s[1], s[2])
  IN  [w \in {word(s) : s \in spans} |-> Cardinality({s \in spans : word(s) = w})]

ByteTokens(word) == [i \in DOMAIN word |-> word[i] + Specials]

BpeInit ==
  \E text \in SeqOf(0..ByteCount - 1, MaxText) :
    /\ freq = PreTokenize(text)
    /\ tokens = [w \in DOMAIN freq |-> ByteTokens(w)]
    /\ vocab = [t \in Specials..Specials + ByteCount - 1 |-> <<t - Specials>>]
    /\ merges = <<>>

----------------------------------------------------------------------------
(* count_weighted_pairs counts neighbours, so a run of one token counts every  *)
(* overlapping pair although only every other one can be merged.             *)
PairAt(ts, i) == <<ts[i], ts[i + 1]>>
Pairs == UNION {{PairAt(tokens[w], i) : i \in 1..Len(tokens[w]) - 1} : w \in DOMAIN tokens}

PairCount(pair) ==
  MapThenSumSet(LAMBDA w : freq[w] * Cardinality({i \in 1..Len(tokens[w]) - 1 : PairAt(tokens[w], i) = pair}),
                DOMAIN tokens)

\* A fault: both tokens of the pair are looked at again.
MergeWord_Fault(ts, pair, new) ==
  [i \in DOMAIN ts |-> IF i < Len(ts) /\ PairAt(ts, i) = pair THEN new ELSE ts[i]]

(* merge_word_tokens, left to right: what a merged pair used up is not looked  *)
(* at again.                                                                *)
MergeWord(ts, pair, new) ==
  LET rest[i \in 1..Len(ts) + 1] ==
        IF i > Len(ts) THEN <<>>
        ELSE IF i < Len(ts) /\ PairAt(ts, i) = pair THEN <<new>> \o rest[i + 2]
        ELSE <<ts[i]>> \o rest[i + 1]
  IN  rest[1]

(* vocab_size.saturating_sub(256 + special_token_count)                       *)
NumMerges == IF VocabSize > ByteCount + Specials THEN VocabSize - (ByteCount + Specials) ELSE 0
NextId == ByteCount + Specials + Len(merges)

Mergeable(pair) == PairCount(pair) >= 2 /\ \A other \in Pairs : PairCount(other) <= PairCount(pair)

(* One round of train_bpe; training stops when no pair occurs twice.          *)
MergePair ==
  /\ Len(merges) < NumMerges
  /\ \E pair \in Pairs :
       /\ Mergeable(pair)
       /\ tokens' = [w \in DOMAIN tokens |-> MergeWord(tokens[w], pair, NextId)]
       /\ vocab' = [t \in DOMAIN vocab \cup {NextId} |->
                      IF t = NextId THEN vocab[pair[1]] \o vocab[pair[2]] ELSE vocab[t]]
       /\ merges' = Append(merges, <<pair[1], pair[2], NextId>>)
       /\ UNCHANGED freq

BpeNext == MergePair
BpeSpec == BpeInit /\ [][BpeNext]_bpeVars

----------------------------------------------------------------------------
BpeTypeOK ==
  /\ DOMAIN tokens = DOMAIN freq
  /\ \A w \in DOMAIN freq : freq[w] \in Nat \ {0}
  /\ Len(merges) <= NumMerges
  /\ DOMAIN vocab = Specials..NextId - 1

Spelling(ts) == FlattenSeq([i \in DOMAIN ts |-> vocab[ts[i]]])

(* However many merges have been made, and whichever of equal pairs each of     *)
(* them took: the tokens of a word spell it, no rule uses a token made later,   *)
(* and no pair is merged twice.                                             *)
TokensSpellText ==
  /\ \A w \in DOMAIN tokens : ToSet(tokens[w]) \subseteq DOMAIN vocab /\ Spelling(tokens[w]) = w
  /\ \A k \in DOMAIN merges :
       /\ merges[k][1] < merges[k][3] /\ merges[k][2] < merges[k][3]
       /\ vocab[merges[k][3]] = Spelling(<<merges[k][1], merges[k][2]>>)
  /\ \A j, k \in DOMAIN merges :
       j # k => <<merges[j][1], merges[j][2]>> # <<merges[k][1], merges[k][2]>>

CorpusLength == MapThenSumSet(LAMBDA w : freq[w] * Len(tokens[w]), DOMAIN tokens)

(* Overlapping pairs are counted but cannot all be merged; a round still        *)
(* shortens the corpus by at least half of what it counted, so by at least one  *)
(* token, and the number of rounds is bounded by the text even without          *)
(* vocab_size.                                                              *)
MergesShorten ==
  [][LET rule == merges'[Len(merges')]
     IN  merges' # merges
           => 2 * (CorpusLength - CorpusLength') >= PairCount(<<rule[1], rule[2]>>)]_bpeVars
=============================================================================
