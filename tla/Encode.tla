------------------------------- MODULE Encode -------------------------------
(***************************************************************************)
(* Tokenizer.Encode, bpe and Decode (tokenizer/tokenizer.go): the pieces   *)
(* of PreTokenize, one after the other, are spelled in bytes, merged by    *)
(* rank until no merge applies, and looked up in the vocabulary.           *)
(*                                                                         *)
(* A symbol is the sequence of its bytes.                                  *)
(***************************************************************************)
EXTENDS PreTokenize, SequencesExt

CONSTANTS
  Bytes, Nul,  \* the bytes that occur in the texts; byte 0
  BytesOf(_),  \* the UTF-8 bytes of a character
  Models       \* what a model file says, and what is encoded with it:
               \* [merges, tokens, control, texts]

Spelling == Seq(Bytes \cup {Nul})

\* Every byte is a token, and so is what a merge makes.
ASSUME ModelsAssumption ==
  /\ \A c \in Chars : BytesOf(c) \in Seq(Bytes)
  /\ \A x \in Models :
       /\ x.tokens \in Seq(Spelling) /\ x.merges \in Seq(Spelling \X Spelling)
       /\ \A b \in Bytes \cup {Nul} : \E k \in DOMAIN x.tokens : x.tokens[k] = <<b>>
       /\ \A k \in DOMAIN x.merges : \E j \in DOMAIN x.tokens :
            x.tokens[j] = x.merges[k][1] \o x.merges[k][2]

\* The text of a control token is no byte and no merge makes it.
ASSUME ControlAssumption ==
  \A x \in Models : \A k \in DOMAIN x.tokens :
    k - 1 \in x.control =>
      /\ \A b \in Bytes \cup {Nul} : x.tokens[k] # <<b>>
      /\ \A j \in DOMAIN x.merges : x.tokens[k] # x.merges[j][1] \o x.merges[j][2]

VARIABLES
  merges, tokens, control,   \* the model file's, fixed; control: ids
  pc,
  syms,    \* the symbols of the piece being merged
  done,    \* pieces looked up
  ids

encVars == <<merges, tokens, control, pc, syms, done, ids>>
allVars == <<vars, encVars>>

-----------------------------------------------------------------------------
\* t.ids: of two tokens with one text the later has it.
IsToken(s) == \E k \in DOMAIN tokens : tokens[k] = s
ID(s) == (CHOOSE k \in DOMAIN tokens : tokens[k] = s /\ \A j \in DOMAIN tokens : tokens[j] = s => j <= k) - 1

\* A symbol that is no token is replaced by the token of byte 0.
Lookup(s) == IF IsToken(s) THEN ID(s) ELSE ID(<<Nul>>)

\* t.merges: a pair listed twice has the rank of its last place.
Places(a, b) == {k \in DOMAIN merges : merges[k] = <<a, b>>}
RankOf(a, b) == CHOOSE k \in Places(a, b) : \A j \in Places(a, b) : j <= k

\* The adjacent pairs of ss that have a rank, each with it.
Ranked(ss) == {k \in 1 .. Len(ss) - 1 : Places(ss[k], ss[k + 1]) # {}}
Rank(ss, k) == RankOf(ss[k], ss[k + 1])

\* rank <= best: the rightmost of equals
RightmostBest(ss) == CHOOSE k \in Ranked(ss) : \A j \in Ranked(ss) :
  Rank(ss, k) < Rank(ss, j) \/ (Rank(ss, k) = Rank(ss, j) /\ k >= j)

\* The first pair, whatever its rank.
FirstRanked(ss) == CHOOSE k \in Ranked(ss) : \A j \in Ranked(ss) : k <= j

\* rank < best: the lowest rank, the leftmost of equals
Best(ss) == CHOOSE k \in Ranked(ss) : \A j \in Ranked(ss) :
  Rank(ss, k) < Rank(ss, j) \/ (Rank(ss, k) = Rank(ss, j) /\ k <= j)

\* syms[at] += syms[at+1]; syms = append(syms[:at+1], syms[at+2:]...)
Join(ss, k) ==
  SubSeq(ss, 1, k - 1) \o <<ss[k] \o ss[k + 1]>> \o SubSeq(ss, k + 2, Len(ss))

BytesIn(from, to) == FlattenSeq([j \in 1 .. to - from |-> BytesOf(text[from + j])])

\* The characters of the piece as they are.
SpellChars(k) == [j \in 1 .. out[k].to - out[k].from |-> BytesOf(text[out[k].from + j])]

\* A piece that is a token needs no merging.
SpellWhole(k) ==
  LET b == BytesIn(out[k].from, out[k].to)
  IN  IF IsToken(b) THEN <<b>> ELSE [j \in 1 .. Len(b) |-> <<b[j]>>]

\* The characters of byteToRune, one per byte of the piece.
Spell(k) == LET b == BytesIn(out[k].from, out[k].to) IN [j \in 1 .. Len(b) |-> <<b[j]>>]

\* appendToken: nothing for an id past the vocabulary or a control token
Decode(id) == IF id >= Len(tokens) \/ id \in control THEN <<>> ELSE tokens[id + 1]

-----------------------------------------------------------------------------
EncInit ==
  /\ \E m \in Models : text \in m.texts /\ merges = m.merges /\ tokens = m.tokens /\ control = m.control
  /\ Init
  /\ pc = "cut" /\ syms = <<>> /\ done = 0 /\ ids = <<>>

\* PreTokenize returns before anything is merged.
CutNext == pc = "cut" /\ Cut /\ UNCHANGED encVars

\* range over the pieces
NextPiece ==
  /\ pc = "cut" /\ i >= Len(text)
  /\ done < Len(out)
  /\ pc' = "bpe" /\ syms' = Spell(done + 1)
  /\ UNCHANGED <<vars, merges, tokens, control, done, ids>>

MergeBest ==
  /\ pc = "bpe" /\ Ranked(syms) # {}
  /\ syms' = Join(syms, Best(syms))
  /\ UNCHANGED <<vars, merges, tokens, control, pc, done, ids>>

\* The ids of the symbols of the piece.
Emit ==
  /\ pc = "bpe" /\ Ranked(syms) = {}
  /\ ids' = ids \o [k \in 1 .. Len(syms) |-> Lookup(syms[k])]
  /\ pc' = "cut" /\ done' = done + 1 /\ syms' = <<>>
  /\ UNCHANGED <<vars, merges, tokens, control>>

EncNext == CutNext \/ NextPiece \/ MergeBest \/ Emit

EncSpec     == EncInit /\ [][EncNext]_allVars
\* Encode is one sequential call.
EncFairSpec == EncSpec /\ WF_allVars(EncNext)

-----------------------------------------------------------------------------
(* BPE as it is trained: each merge joins bytes or the products of earlier *)
(* merges, no two merges make one symbol, and a text is encoded by doing   *)
(* every merge, in the order it was learned, wherever it applies.          *)

Product(k) == merges[k][1] \o merges[k][2]
Trained ==
  \A k \in DOMAIN merges :
    /\ \A part \in {1, 2} : Len(merges[k][part]) = 1 \/ \E j \in 1 .. k - 1 : merges[k][part] = Product(j)
    /\ \A j \in 1 .. k - 1 : Product(j) # Product(k)

\* One symbol more, and the pair it may complete.
MergeLast(pair, acc, s) ==
  IF acc # <<>> /\ Last(acc) = pair[1] /\ s = pair[2]
  THEN Append(Front(acc), pair[1] \o pair[2])
  ELSE Append(acc, s)

\* Every place of one pair, from left to right.
MergeAll(pair, ss) ==
  LET upTo[n \in 0 .. Len(ss)] == IF n = 0 THEN <<>> ELSE MergeLast(pair, upTo[n - 1], ss[n])
  IN  upTo[Len(ss)]

\* The merges of ms, one after the other.
MergeInOrder(ms, ss) ==
  LET upTo[n \in 0 .. Len(ms)] == IF n = 0 THEN ss ELSE MergeAll(ms[n], upTo[n - 1])
  IN  upTo[Len(ms)]

-----------------------------------------------------------------------------
(* Properties                                                              *)

\* Decode(Encode(text)) = text: what is encoded so far decodes to the bytes of
\* the pieces done, and the symbols at hand spell the piece they come from.
RoundTrip ==
  /\ FlattenSeq([k \in 1 .. Len(ids) |-> Decode(ids[k])])
       = (IF done = 0 THEN <<>> ELSE BytesIn(0, out[done].to))
  /\ pc = "bpe" => FlattenSeq(syms) = BytesIn(out[done + 1].from, out[done + 1].to)

\* "The order is the priority when encoding": the loop of bpe, which does one
\* merge at a time, ends where the merges done in the order learned end.
MergedInOrder ==
  pc = "bpe" /\ Ranked(syms) = {} /\ Trained => syms = MergeInOrder(merges, Spell(done + 1))

\* No merge of a trained model makes way for one of a lower rank: the ranks
\* used on a piece never fall.
RanksRise ==
  [][pc = "bpe" /\ pc' = "bpe" /\ Trained /\ Ranked(syms) # {} /\ Ranked(syms') # {}
       => Rank(syms', Best(syms')) >= Rank(syms, Best(syms))]_allVars

\* Control tokens never come out of Encode.
NoControl == \A k \in DOMAIN ids : ids[k] \notin control

\* Encode returns, with every piece of the whole text looked up: the two loops
\* of PreTokenize and bpe end on every text.
Encodes == <>(i = Len(text) /\ done = Len(out))
=============================================================================
