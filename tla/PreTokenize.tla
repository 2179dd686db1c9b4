----------------------------- MODULE PreTokenize -----------------------------
(***************************************************************************)
(* PreTokenize and matchAt (tokenizer/tokenizer.go): a text is cut, from   *)
(* left to right, into the pieces that BPE may not merge across.  The code *)
(* is a hand-written matcher; what it must agree with is a regular         *)
(* expression with lookahead, which Go cannot run.                         *)
(*                                                                         *)
(* A text is a sequence of characters.  Characters are told apart as far   *)
(* as the expression does.                                                 *)
(***************************************************************************)
EXTENDS Integers, Sequences, FiniteSets

CONSTANTS
  Chars,       \* the characters of a text
  Letters, Numbers, Spaces, Newlines,   \* \p{L} \p{N} \s [\r\n]
  Apostrophe, Blank,                    \* ' and the blank
  Contractions,    \* what makes a contraction after an apostrophe, any case
  Texts        \* the inputs

ASSUME CharsAssumption ==
  /\ Letters \subseteq Chars /\ Numbers \subseteq Chars /\ Spaces \subseteq Chars
  /\ Letters \cap Numbers = {} /\ Letters \cap Spaces = {} /\ Numbers \cap Spaces = {}
  /\ Newlines \subseteq Spaces /\ Blank \in Spaces \ Newlines
  /\ Apostrophe \in Chars \ (Letters \cup Numbers \cup Spaces)
  /\ Contractions \subseteq Seq(Letters) \ {<<>>}
  /\ Texts \subseteq Seq(Chars)

\* s t re ve m ll d: none begins another.
ASSUME ContractionsAssumption ==
  \A c, d \in Contractions : Len(c) <= Len(d) /\ (\A j \in 1 .. Len(c) : c[j] = d[j]) => c = d

Punct == Chars \ (Letters \cup Numbers \cup Spaces)

VARIABLES
  text,
  i,       \* characters cut off so far
  out      \* the pieces: text from (exclusive) to (inclusive)

vars == <<text, i, out>>

-----------------------------------------------------------------------------
(* matchAt, at the characters of s after the first k                       *)

\* spanRunes: how many characters in a row, after the first k, are in C
Span(s, k, C) ==
  CHOOSE n \in 0 .. Len(s) - k :
    /\ \A j \in k + 1 .. k + n : s[j] \in C
    /\ k + n < Len(s) => s[k + n + 1] \notin C

\* The first of the suffixes that follows character k + 1.
ContractionsAt(s, k) ==
  {c \in Contractions : Len(c) <= Len(s) - k - 1 /\ \A j \in 1 .. Len(c) : s[k + 1 + j] = c[j]}

\* Up to the last newline of a run of n spaces; 0 without one.
ToLastNewline(s, k, n) ==
  LET ends == {j \in 1 .. n : s[k + j] \in Newlines}
  IN  IF ends = {} THEN 0 ELSE CHOOSE j \in ends : \A e \in ends : e <= j

\* A run of spaces is one piece whatever follows.
SpacesGreedy(s, k) ==
  LET n == Span(s, k, Spaces)
      toNewline == ToLastNewline(s, k, n)
  IN  IF toNewline > 0 THEN toNewline ELSE n

\* The run of spaces: up to its last newline, or without the space that goes
\* with what follows.
MatchSpaces(s, k) ==
  LET n == Span(s, k, Spaces)
      toNewline == ToLastNewline(s, k, n)
  IN  IF toNewline > 0 THEN toNewline
      ELSE IF k + n < Len(s) /\ n > 1 THEN n - 1
      ELSE n

\* An optional blank and punctuation, with the newlines after it; 0 without any.
MatchPunct(s, k) ==
  LET start == IF s[k + 1] = Blank THEN 1 ELSE 0
      n == Span(s, k + start, Punct)
  IN  IF n = 0 THEN 0 ELSE start + n + Span(s, k + start + n, Newlines)

\* A word, with at most one character before it that is no letter; 0 without a letter.
MatchWord(s, k) ==
  LET c == s[k + 1]
      n == Span(s, k + 1, Letters)
  IN  IF c \in Letters THEN 1 + n
      ELSE IF c \notin Newlines \cup Numbers /\ n > 0 THEN 1 + n
      ELSE 0

MatchAt(s, k) ==
  LET c == s[k + 1] IN
  IF c = Apostrophe /\ ContractionsAt(s, k) # {} THEN 1 + Len(CHOOSE x \in ContractionsAt(s, k) : TRUE)
  ELSE IF MatchWord(s, k) > 0 THEN MatchWord(s, k)
  ELSE IF c \in Numbers THEN (IF Span(s, k, Numbers) < 3 THEN Span(s, k, Numbers) ELSE 3)
  ELSE IF MatchPunct(s, k) > 0 THEN MatchPunct(s, k)
  ELSE IF c \in Spaces THEN MatchSpaces(s, k)
  ELSE 1

-----------------------------------------------------------------------------
Init == text \in Texts /\ i = 0 /\ out = <<>>

\* i < len(text) - 1
CutShort ==
  /\ i < Len(text) - 1
  /\ out' = Append(out, [from |-> i, to |-> i + MatchAt(text, i)])
  /\ i' = i + MatchAt(text, i)
  /\ UNCHANGED text

\* for i := 0; i < len(text); { n := matchAt(text[i:]); ... }
Cut ==
  /\ i < Len(text)
  /\ out' = Append(out, [from |-> i, to |-> i + MatchAt(text, i)])
  /\ i' = i + MatchAt(text, i)
  /\ UNCHANGED text

-----------------------------------------------------------------------------
(* The regular expression: the lengths that each alternative could match,  *)
(* as a language with a lookahead.  The first alternative with a match is  *)
(* taken, and its longest match (every repetition in it is greedy).        *)

All(s, from, to, C) == \A j \in from .. to : s[j] \in C
Lengths(s, k) == 1 .. Len(s) - k

Contraction(s, k) == {n \in Lengths(s, k) :
  s[k + 1] = Apostrophe /\ SubSeq(s, k + 2, k + n) \in Contractions}

Word(s, k) == {n \in Lengths(s, k) : \E lead \in {0, 1} :
  /\ lead = 1 => s[k + 1] \notin Newlines \cup Letters \cup Numbers
  /\ n > lead /\ All(s, k + lead + 1, k + n, Letters)}

Digits(s, k) == {n \in Lengths(s, k) : n <= 3 /\ All(s, k + 1, k + n, Numbers)}

Punctuation(s, k) == {n \in Lengths(s, k) : \E lead \in {0, 1}, p \in 1 .. n :
  /\ lead = 1 => s[k + 1] = Blank
  /\ p > lead /\ All(s, k + lead + 1, k + p, Punct)
  /\ All(s, k + p + 1, k + n, Newlines)}

ToNewline(s, k) == {n \in Lengths(s, k) :
  s[k + n] \in Newlines /\ All(s, k + 1, k + n, Spaces)}

SpacesBeforeSpace(s, k) == {n \in Lengths(s, k) :
  All(s, k + 1, k + n, Spaces) /\ (k + n < Len(s) => s[k + n + 1] \in Spaces)}

AnySpaces(s, k) == {n \in Lengths(s, k) : All(s, k + 1, k + n, Spaces)}

Alternatives(s, k) ==
  << Contraction(s, k), Word(s, k), Digits(s, k), Punctuation(s, k),
     ToNewline(s, k), SpacesBeforeSpace(s, k), AnySpaces(s, k) >>

RegexMatches(s, k, n) ==
  \E a \in 1 .. 7 :
    /\ n \in Alternatives(s, k)[a]
    /\ \A m \in Alternatives(s, k)[a] : m <= n
    /\ \A b \in 1 .. a - 1 : Alternatives(s, k)[b] = {}

-----------------------------------------------------------------------------
(* Properties                                                              *)

\* PreTokenize "splits text like the llama-bpe regex, with the alternatives
\* tried in that order at each position".
MatchesRegex ==
  \A k \in 1 .. Len(out) : RegexMatches(text, out[k].from, out[k].to - out[k].from)
=============================================================================
