---------------------------- MODULE EncodeProofs ----------------------------
(***************************************************************************)
(* Proofs about module Encode, for every vocabulary, table of merges and   *)
(* text. In order: matchAt, case by case, takes what the alternatives of   *)
(* the expression take (Cutting); the symbols of a piece are bytes or      *)
(* products of merges and spell the piece, so the ids decode to the bytes  *)
(* of the text (EncInv); the best merge done once leaves the rank of no    *)
(* pair lower, and what all merges in order make of the symbols unchanged  *)
(* (Ordered).                                                              *)
(***************************************************************************)
EXTENDS Encode, SequenceTheorems, WellFoundedInduction, TLAPS

-----------------------------------------------------------------------------
(* Numbers and runs.                                                       *)

\* A set of numbers with a member has a least one.
LEMMA Least ==
  ASSUME NEW S, S \subseteq Nat, S # {}
  PROVE  \E x \in S : \A y \in S : x <= y
<1> DEFINE R == OpToRel(<, Nat)
<1>1. IsWellFoundedOn(R, Nat)
  BY NatLessThanWellFounded
<1> HIDE DEF R
<1>2. PICK x \in S : \A y \in S : ~(<<y, x>> \in R)
  BY <1>1, WFMin
<1>3. \A y \in S : ~(y < x)
  BY <1>2 DEF R, OpToRel
<1>4. \A y \in S : x <= y
  <2> TAKE y \in S
  <2>1. x \in Nat /\ y \in Nat /\ ~(y < x)
    BY <1>3
  <2> QED BY <2>1
<1> QED BY <1>4

\* Induction over a set.
LEMMA InductionOnNat ==
  ASSUME NEW S, 0 \in S, \A k \in Nat : k \in S => k + 1 \in S
  PROVE  Nat \subseteq S
<1> SUFFICES ASSUME ~(Nat \subseteq S) PROVE FALSE
  OBVIOUS
<1> DEFINE T == Nat \ S
<1>1. T # {} /\ T \subseteq Nat
  OBVIOUS
<1> HIDE DEF T
<1>2. PICK m \in T : \A y \in T : m <= y
  BY <1>1, Least
<1> USE DEF T
<1>3. m \in Nat /\ m # 0 /\ m - 1 \in Nat /\ (m - 1) + 1 = m
  BY <1>2
<1>4. m - 1 \in T
  BY <1>3
<1> QED BY <1>2, <1>3, <1>4

\* A bounded one has a greatest.
LEMMA Greatest ==
  ASSUME NEW S, NEW m \in Nat, S \subseteq 0 .. m, S # {}
  PROVE  \E x \in S : \A y \in S : y <= x
<1> DEFINE T == {m - y : y \in S}
<1>1. T # {} /\ T \subseteq Nat
  <2>1. \A y \in S : m - y \in Nat
    OBVIOUS
  <2> QED BY <2>1
<1> HIDE DEF T
<1>2. PICK t \in T : \A u \in T : t <= u
  BY <1>1, Least
<1> USE DEF T
<1>3. PICK x \in S : t = m - x
  BY <1>2
<1>4. ASSUME NEW y \in S PROVE y <= x
  <2>1. m - y \in T /\ x \in Nat /\ y \in Nat
    OBVIOUS
  <2>2. m - x <= m - y
    BY <1>2, <1>3, <2>1
  <2> QED BY <2>1, <2>2
<1> QED BY <1>3, <1>4

\* n characters in a row after the first k are in C, and the next is not.
Run(s, k, C, n) ==
  /\ n \in 0 .. Len(s) - k
  /\ \A j \in k + 1 .. k + n : s[j] \in C
  /\ k + n < Len(s) => s[k + n + 1] \notin C

\* There is such an n, and Span is it.
LEMMA SpanIs ==
  ASSUME NEW s, Len(s) \in Nat, NEW k \in 0 .. Len(s), NEW C
  PROVE  Run(s, k, C, Span(s, k, C))
<1> DEFINE S == {n \in 0 .. Len(s) - k : \A j \in k + 1 .. k + n : s[j] \in C}
           m == Len(s) - k
<1>1. m \in Nat /\ S \subseteq 0 .. m /\ 0 \in S
  OBVIOUS
<1>2. PICK n \in S : \A y \in S : y <= n
  <2> HIDE DEF S, m
  <2> QED BY <1>1, Greatest
<1>3. k + n < Len(s) => s[k + n + 1] \notin C
  <2> SUFFICES ASSUME k + n < Len(s), s[k + n + 1] \in C PROVE FALSE
    OBVIOUS
  <2>1. n \in 0 .. Len(s) - k /\ \A j \in k + 1 .. k + n : s[j] \in C
    BY <1>2
  <2>2. n + 1 \in 0 .. Len(s) - k
    BY <2>1
  <2>3. \A j \in k + 1 .. k + (n + 1) : j \in k + 1 .. k + n \/ j = k + n + 1
    BY <2>1
  <2>4. n + 1 \in S
    BY <2>1, <2>2, <2>3
  <2>5. n + 1 <= n
    BY <1>2, <2>4
  <2> QED BY <2>1, <2>5
<1>4. \E x \in 0 .. Len(s) - k : /\ \A j \in k + 1 .. k + x : s[j] \in C
                                 /\ k + x < Len(s) => s[k + x + 1] \notin C
  BY <1>2, <1>3
<1> QED BY <1>4 DEF Span, Run

\* No run is longer.
LEMMA RunMost ==
  ASSUME NEW s, Len(s) \in Nat, NEW k \in 0 .. Len(s), NEW C, NEW n, Run(s, k, C, n),
         NEW m \in 0 .. Len(s) - k, All(s, k + 1, k + m, C)
  PROVE  m <= n
<1>1. n \in 0 .. Len(s) - k
  BY DEF Run
<1> SUFFICES ASSUME n < m PROVE FALSE
  BY <1>1
<1>2. k + n < Len(s) /\ k + n + 1 \in k + 1 .. k + m
  BY <1>1
<1> QED BY <1>2 DEF Run, All

-----------------------------------------------------------------------------
(* One piece: each case of matchAt is an alternative of the expression.    *)

Longest(S, n) == n \in S /\ \A m \in S : m <= n

\* A text, and how much of it is cut off.
At(s, k) == s \in Seq(Chars) /\ k \in 0 .. Len(s) - 1

\* Facts about such a place.
LEMMA AtIs ==
  ASSUME NEW s, NEW k, At(s, k)
  PROVE  /\ Len(s) \in Nat /\ k \in Nat /\ k < Len(s) /\ k \in 0 .. Len(s) /\ k + 1 \in 0 .. Len(s)
         /\ k + 1 \in 1 .. Len(s) /\ \A j \in 1 .. Len(s) : s[j] \in Chars
  BY DEF At

\* The case of the apostrophe is the alternative of contractions.
LEMMA MatchContraction ==
  ASSUME NEW s, NEW k, At(s, k)
  PROVE  IF s[k + 1] = Apostrophe /\ ContractionsAt(s, k) # {}
         THEN Longest(Contraction(s, k), 1 + Len(CHOOSE x \in ContractionsAt(s, k) : TRUE))
         ELSE Contraction(s, k) = {}
<1>1. /\ Len(s) \in Nat /\ k \in Nat /\ k < Len(s) /\ s \in Seq(Chars)
  BY AtIs DEF At
<1>2. \A c \in Contractions : c \in Seq(Letters) /\ Len(c) \in Nat /\ Len(c) # 0
  <2> TAKE c \in Contractions
  <2>1. c \in Seq(Letters) /\ c # <<>>
    BY CharsAssumption
  <2> QED BY <2>1
\* What a contraction of the expression is.
<1>3. ASSUME NEW n \in 1 .. Len(s) - k
      PROVE  /\ SubSeq(s, k + 2, k + n) \in Contractions =>
                  /\ SubSeq(s, k + 2, k + n) \in ContractionsAt(s, k)
                  /\ Len(SubSeq(s, k + 2, k + n)) = n - 1
             /\ \A c \in ContractionsAt(s, k) : Len(c) = n - 1 => c = SubSeq(s, k + 2, k + n)
  <2> DEFINE q == SubSeq(s, k + 2, k + n)
  <2>1. \A j \in k + 2 .. k + n : s[j] \in Chars
    BY <1>1, ElementOfSeq
  <2>2. q \in Seq(Chars) /\ Len(q) = n - 1 /\ \A j \in 1 .. n - 1 : q[j] = s[k + 1 + j]
    <3> DEFINE b == k + 2
               t == k + n
    <3>1. b \in Int /\ t \in Int /\ \A j \in b .. t : s[j] \in Chars
      BY <1>1, <2>1
    <3>2. q = SubSeq(s, b, t)
      OBVIOUS
    <3>3. b <= t + 1 /\ t - b + 1 = n - 1 /\ (~(b <= t) => n - 1 = 0) /\ \A j \in 1 .. n - 1 : b + j - 1 = k + 1 + j
      BY <1>1
    <3> HIDE DEF b, t, q
    <3>4. /\ SubSeq(s, b, t) \in Seq(Chars)
          /\ Len(SubSeq(s, b, t)) = IF b <= t THEN t - b + 1 ELSE 0
          /\ \A j \in 1 .. t - b + 1 : SubSeq(s, b, t)[j] = s[b + j - 1]
      BY <3>1, SubSeqProperties
    <3>5. q \in Seq(Chars) /\ Len(q) = n - 1
      BY <3>2, <3>3, <3>4
    <3>6. \A j \in 1 .. n - 1 : q[j] = s[b + j - 1]
      BY <3>2, <3>3, <3>4, Zenon
    <3> QED BY <3>3, <3>5, <3>6
  <2> HIDE DEF q
  <2>3. ASSUME q \in Contractions PROVE q \in ContractionsAt(s, k)
    BY <1>1, <2>2, <2>3 DEF ContractionsAt
  <2>4. ASSUME NEW c \in ContractionsAt(s, k), Len(c) = n - 1 PROVE c = q
    <3>1. c \in Contractions /\ \A j \in 1 .. Len(c) : s[k + 1 + j] = c[j]
      BY DEF ContractionsAt
    <3>2. c \in Seq(Letters)
      BY <1>2, <3>1
    <3> QED BY <2>2, <2>4, <3>1, <3>2, SeqEqual
  <2> QED BY <2>2, <2>3, <2>4 DEF q
\* No contraction goes on where another ends.
<1>4. \A c, d \in ContractionsAt(s, k) : c = d
  <2> SUFFICES ASSUME NEW c \in ContractionsAt(s, k), NEW d \in ContractionsAt(s, k), Len(c) <= Len(d)
               PROVE  c = d
    <3>1. \A c, d \in ContractionsAt(s, k) : Len(c) <= Len(d) \/ Len(d) <= Len(c)
      BY <1>2 DEF ContractionsAt
    <3> QED BY <3>1
  <2>1. /\ c \in Contractions /\ d \in Contractions
        /\ (\A j \in 1 .. Len(c) : s[k + 1 + j] = c[j]) /\ (\A j \in 1 .. Len(d) : s[k + 1 + j] = d[j])
    BY DEF ContractionsAt
  <2>2. Len(c) \in Nat /\ Len(d) \in Nat
    BY <1>2, <2>1
  <2>3. \A j \in 1 .. Len(c) : c[j] = d[j]
    <3> TAKE j \in 1 .. Len(c)
    <3>1. j \in 1 .. Len(d)
      BY <2>2
    <3> QED BY <2>1, <3>1
  <2> QED BY <2>1, <2>3, ContractionsAssumption
<1>5. ASSUME s[k + 1] = Apostrophe, ContractionsAt(s, k) # {}
      PROVE  Longest(Contraction(s, k), 1 + Len(CHOOSE x \in ContractionsAt(s, k) : TRUE))
  <2> DEFINE c == CHOOSE x \in ContractionsAt(s, k) : TRUE
             n == 1 + Len(c)
  <2>1. c \in ContractionsAt(s, k)
    BY <1>5
  <2> HIDE DEF c
  <2>2. c \in Contractions /\ Len(c) <= Len(s) - k - 1
    BY <2>1 DEF ContractionsAt
  <2>3. Len(c) \in Nat /\ n \in 1 .. Len(s) - k /\ n - 1 = Len(c)
    BY <1>1, <1>2, <2>2
  <2>4. n \in Contraction(s, k)
    BY <1>3, <1>5, <2>1, <2>2, <2>3 DEF Contraction, Lengths
  <2>5. ASSUME NEW m \in Contraction(s, k) PROVE m <= n
    <3>1. m \in 1 .. Len(s) - k /\ SubSeq(s, k + 2, k + m) \in Contractions
      BY DEF Contraction, Lengths
    <3>2. SubSeq(s, k + 2, k + m) = c /\ Len(SubSeq(s, k + 2, k + m)) = m - 1
      BY <1>3, <1>4, <2>1, <3>1
    <3>3. Len(c) = m - 1
      BY <3>2, Zenon
    <3> QED BY <2>3, <3>1, <3>3
  <2> QED BY <2>4, <2>5 DEF Longest, c
<1>6. ASSUME ~(s[k + 1] = Apostrophe /\ ContractionsAt(s, k) # {}) PROVE Contraction(s, k) = {}
  BY <1>3, <1>6 DEF Contraction, Lengths
<1> QED BY <1>5, <1>6

\* matchWord finds what the alternative of words matches, or nothing as it does.
LEMMA MatchWordIs ==
  ASSUME NEW s, NEW k, At(s, k)
  PROVE  /\ MatchWord(s, k) \in Nat
         /\ IF MatchWord(s, k) > 0 THEN Longest(Word(s, k), MatchWord(s, k)) ELSE Word(s, k) = {}
<1> DEFINE c == s[k + 1]
           n == Span(s, k + 1, Letters)
<1>1. /\ Len(s) \in Nat /\ k \in Nat /\ k < Len(s) /\ k \in 0 .. Len(s) /\ k + 1 \in 0 .. Len(s) /\ c \in Chars
  BY AtIs
<1>2. Run(s, k + 1, Letters, n)
  BY <1>1, SpanIs
<1> HIDE DEF n
<1>3. n \in 0 .. Len(s) - (k + 1) /\ \A j \in k + 2 .. k + 1 + n : s[j] \in Letters
  BY <1>1, <1>2 DEF Run
<1>4. 1 + n \in 1 .. Len(s) - k
  BY <1>1, <1>3
<1>5. \A m \in 1 .. Len(s) - k : All(s, k + 2, k + m, Letters) => m <= 1 + n
  <2> TAKE m \in 1 .. Len(s) - k
  <2>1. m - 1 \in 0 .. Len(s) - (k + 1) /\ (k + 1) + (m - 1) = k + m /\ (k + 1) + 1 = k + 2
    BY <1>1
  <2>2. All(s, (k + 1) + 1, (k + 1) + (m - 1), Letters) => m - 1 <= n
    BY <1>1, <1>2, <2>1, RunMost
  <2> QED BY <1>3, <2>1, <2>2
\* The two kinds of words: with a character that is no letter in front, and without.
<1>6. \A m : m \in Word(s, k) <=>
        /\ m \in 1 .. Len(s) - k
        /\ \/ All(s, k + 1, k + m, Letters)
           \/ c \notin Newlines \cup Letters \cup Numbers /\ m > 1 /\ All(s, k + 2, k + m, Letters)
  BY <1>1 DEF Word, Lengths
<1>7. CASE c \in Letters
  <2>1. MatchWord(s, k) = 1 + n
    BY <1>7 DEF MatchWord, n
  <2>2. All(s, k + 1, k + (1 + n), Letters)
    <3>1. \A j \in k + 1 .. k + (1 + n) : j = k + 1 \/ j \in k + 2 .. k + 1 + n
      BY <1>1, <1>3
    <3> QED BY <1>3, <1>7, <3>1 DEF All
  <2>3. \A m \in 1 .. Len(s) - k : All(s, k + 1, k + m, Letters) => m <= 1 + n
    <3> TAKE m \in 1 .. Len(s) - k
    <3>1. \A j \in k + 2 .. k + m : j \in k + 1 .. k + m
      BY <1>1
    <3>2. All(s, k + 1, k + m, Letters) => All(s, k + 2, k + m, Letters)
      BY <3>1 DEF All
    <3> QED BY <1>5, <3>2
  <2>4. Longest(Word(s, k), 1 + n)
    BY <1>4, <1>6, <1>7, <2>2, <2>3 DEF Longest
  <2> QED BY <1>3, <2>1, <2>4
<1>8. CASE c \notin Letters
  <2>1. \A m \in 1 .. Len(s) - k : ~All(s, k + 1, k + m, Letters)
    <3> TAKE m \in 1 .. Len(s) - k
    <3>1. k + 1 \in k + 1 .. k + m
      BY <1>1
    <3> QED BY <1>8, <3>1 DEF All
  <2>2. CASE c \notin Newlines \cup Numbers /\ n > 0
    <3>1. MatchWord(s, k) = 1 + n
      BY <1>8, <2>2 DEF MatchWord, n
    <3>2. All(s, k + 2, k + (1 + n), Letters)
      <4>1. k + (1 + n) = k + 1 + n
        BY <1>1, <1>3
      <4> QED BY <1>3, <4>1 DEF All
    <3>3. Longest(Word(s, k), 1 + n)
      BY <1>3, <1>4, <1>5, <1>6, <1>8, <2>1, <2>2, <3>2 DEF Longest
    <3> QED BY <1>3, <3>1, <3>3
  <2>3. CASE ~(c \notin Newlines \cup Numbers /\ n > 0)
    <3>1. MatchWord(s, k) = 0
      BY <1>8, <2>3 DEF MatchWord, n
    <3>2. ASSUME NEW m \in Word(s, k) PROVE FALSE
      <4>1. m \in 1 .. Len(s) - k /\ c \notin Newlines \cup Numbers /\ m > 1 /\ All(s, k + 2, k + m, Letters)
        BY <1>6, <2>1
      <4>2. m <= 1 + n
        BY <1>5, <4>1
      <4> QED BY <1>3, <2>3, <4>1, <4>2
    <3> QED BY <3>1, <3>2
  <2> QED BY <2>2, <2>3
<1> QED BY <1>7, <1>8

\* Up to three digits.
LEMMA MatchDigits ==
  ASSUME NEW s, NEW k, At(s, k)
  PROVE  IF s[k + 1] \in Numbers
         THEN Longest(Digits(s, k), IF Span(s, k, Numbers) < 3 THEN Span(s, k, Numbers) ELSE 3)
         ELSE Digits(s, k) = {}
<1> DEFINE n == Span(s, k, Numbers)
<1>1. /\ Len(s) \in Nat /\ k \in Nat /\ k < Len(s) /\ k \in 0 .. Len(s)
  BY AtIs
<1>2. Run(s, k, Numbers, n)
  BY <1>1, SpanIs
<1> HIDE DEF n
<1>3. n \in 0 .. Len(s) - k /\ \A j \in k + 1 .. k + n : s[j] \in Numbers
  BY <1>2 DEF Run
<1>4. \A m : m \in Digits(s, k) <=> m \in 1 .. Len(s) - k /\ m <= 3 /\ All(s, k + 1, k + m, Numbers)
  BY DEF Digits, Lengths
<1>5. ASSUME s[k + 1] \in Numbers PROVE Longest(Digits(s, k), IF n < 3 THEN n ELSE 3)
  <2> DEFINE d == IF n < 3 THEN n ELSE 3
  <2>1. n # 0
    BY <1>1, <1>2, <1>5 DEF Run
  <2>2. d \in 1 .. Len(s) - k /\ d <= 3 /\ d <= n
    BY <1>1, <1>3, <2>1
  <2>3. \A j \in k + 1 .. k + d : j \in k + 1 .. k + n
    BY <1>1, <1>3, <2>2
  <2>4. All(s, k + 1, k + d, Numbers)
    BY <1>3, <2>3 DEF All
  <2>5. ASSUME NEW m \in Digits(s, k) PROVE m <= d
    <3>1. m \in 1 .. Len(s) - k /\ m \in 0 .. Len(s) - k /\ m <= 3 /\ All(s, k + 1, k + m, Numbers)
      BY <1>4
    <3>2. m <= n
      BY <1>1, <1>2, <3>1, RunMost
    <3> QED BY <1>3, <3>1, <3>2
  <2> QED BY <1>4, <2>2, <2>4, <2>5 DEF Longest
<1>6. ASSUME s[k + 1] \notin Numbers PROVE Digits(s, k) = {}
  <2> SUFFICES ASSUME NEW m \in Digits(s, k) PROVE FALSE
    OBVIOUS
  <2>1. m \in 1 .. Len(s) - k /\ All(s, k + 1, k + m, Numbers)
    BY <1>4
  <2>2. k + 1 \in k + 1 .. k + m
    BY <1>1, <2>1
  <2> QED BY <1>6, <2>1, <2>2 DEF All
<1> QED BY <1>5, <1>6 DEF n

\* No space is punctuation.
LEMMA SpaceOrPunct == /\ \A x \in Spaces : x \notin Punct
                      /\ \A x \in Newlines : x \in Spaces
                      /\ Blank \in Spaces /\ Blank \notin Punct
                      /\ \A x \in Chars : x \in Letters \/ x \in Numbers \/ x \in Spaces \/ x \in Punct
                      /\ \A x \in Spaces : x \notin Letters /\ x \notin Numbers
  BY CharsAssumption DEF Punct

\* matchPunct is the alternative of punctuation with its newlines.
LEMMA MatchPunctIs ==
  ASSUME NEW s, NEW k, At(s, k)
  PROVE  /\ MatchPunct(s, k) \in Nat
         /\ IF MatchPunct(s, k) > 0 THEN Longest(Punctuation(s, k), MatchPunct(s, k)) ELSE Punctuation(s, k) = {}
<1> DEFINE a == IF s[k + 1] = Blank THEN 1 ELSE 0
           n == Span(s, k + a, Punct)
           e == Span(s, k + a + n, Newlines)
<1>1. /\ Len(s) \in Nat /\ k \in Nat /\ k < Len(s) /\ k \in 0 .. Len(s)
  BY AtIs
<1>2. a \in 0 .. 1 /\ k + a \in 0 .. Len(s)
  BY <1>1
<1>3. (a = 1 <=> s[k + 1] = Blank)
  OBVIOUS
<1> HIDE DEF a
<1>4. Run(s, k + a, Punct, n)
  BY <1>1, <1>2, SpanIs
<1> HIDE DEF n
<1>5. n \in 0 .. Len(s) - (k + a) /\ \A j \in k + a + 1 .. k + a + n : s[j] \in Punct
  BY <1>4 DEF Run
<1>6. k + a + n \in 0 .. Len(s)
  BY <1>1, <1>2, <1>5
<1>7. Run(s, k + a + n, Newlines, e)
  BY <1>1, <1>6, SpanIs
<1> HIDE DEF e
<1>8. e \in 0 .. Len(s) - (k + a + n) /\ \A j \in k + a + n + 1 .. k + a + n + e : s[j] \in Newlines
  BY <1>7 DEF Run
<1>9. MatchPunct(s, k) = IF n = 0 THEN 0 ELSE a + n + e
  BY DEF MatchPunct, a, n, e
\* What the expression matches begins as matchAt does.
<1>10. ASSUME NEW m \in Punctuation(s, k)
       PROVE  \E p \in 1 .. m : /\ m \in 1 .. Len(s) - k
                                /\ p > a /\ All(s, k + a + 1, k + p, Punct)
                                /\ All(s, k + p + 1, k + m, Newlines)
  <2>1. m \in 1 .. Len(s) - k
    BY DEF Punctuation, Lengths
  <2>2. PICK lead \in {0, 1}, p \in 1 .. m :
          /\ lead = 1 => s[k + 1] = Blank
          /\ p > lead /\ All(s, k + lead + 1, k + p, Punct)
          /\ All(s, k + p + 1, k + m, Newlines)
    BY DEF Punctuation
  <2>3. lead = a
    <3>1. CASE lead = 1
      BY <1>3, <2>2, <3>1
    <3>2. CASE lead = 0
      <4>1. k + 1 \in k + 0 + 1 .. k + p
        BY <1>1, <2>2
      <4>2. s[k + 1] \in Punct
        BY <2>2, <3>2, <4>1 DEF All
      <4>3. s[k + 1] # Blank
        BY <4>2, SpaceOrPunct
      <4> QED BY <1>2, <1>3, <3>2, <4>3
    <3> QED BY <3>1, <3>2
  <2> QED BY <2>1, <2>2, <2>3
<1>11. ASSUME NEW m \in Punctuation(s, k) PROVE n # 0 /\ m <= a + n + e
  <2>1. PICK p \in 1 .. m : /\ m \in 1 .. Len(s) - k
                            /\ p > a /\ All(s, k + a + 1, k + p, Punct)
                            /\ All(s, k + p + 1, k + m, Newlines)
    BY <1>10
  <2>2. p - a \in 0 .. Len(s) - (k + a) /\ (k + a) + (p - a) = k + p /\ p - a > 0
    BY <1>1, <1>2, <2>1
  <2>3. p - a <= n
    BY <1>1, <1>2, <1>4, <2>1, <2>2, RunMost
  <2>4. CASE p - a = n
    <3>1. m - p \in 0 .. Len(s) - (k + a + n) /\ (k + a + n) + 1 = k + p + 1 /\ (k + a + n) + (m - p) = k + m
      BY <1>1, <1>2, <1>5, <2>1, <2>4
    <3>2. m - p <= e
      BY <1>1, <1>6, <1>7, <2>1, <3>1, RunMost
    <3> QED BY <1>2, <1>5, <1>8, <2>1, <2>2, <2>4, <3>2
  <2>5. CASE p - a < n
    <3>1. k + p + 1 \in k + a + 1 .. k + a + n
      BY <1>1, <1>2, <1>5, <2>1, <2>2, <2>5
    <3>2. s[k + p + 1] \in Punct
      BY <1>5, <3>1
    <3>3. m = p
      <4> SUFFICES ASSUME p < m PROVE FALSE
        BY <2>1
      <4>1. k + p + 1 \in k + p + 1 .. k + m
        BY <1>1, <2>1
      <4>2. s[k + p + 1] \in Newlines
        BY <2>1, <4>1 DEF All
      <4> QED BY <3>2, <4>2, SpaceOrPunct
    <3> QED BY <1>2, <1>5, <1>8, <2>1, <2>2, <2>5, <3>3
  <2> QED BY <1>2, <1>5, <2>1, <2>2, <2>3, <2>4, <2>5
<1>12. ASSUME n # 0 PROVE a + n + e \in Punctuation(s, k)
  <2> DEFINE m == a + n + e
             p == a + n
  <2>1. m \in 1 .. Len(s) - k /\ p \in 1 .. m /\ p > a /\ a \in {0, 1}
    BY <1>1, <1>2, <1>5, <1>8, <1>12
  <2>2. k + p = k + a + n /\ k + p + 1 = k + a + n + 1 /\ k + m = k + a + n + e
    BY <1>1, <1>2, <1>5, <1>8
  <2>3. All(s, k + a + 1, k + p, Punct) /\ All(s, k + p + 1, k + m, Newlines)
    BY <1>5, <1>8, <2>2 DEF All
  <2> HIDE DEF m, p
  <2>4. \E lead \in {0, 1}, q \in 1 .. m :
          /\ lead = 1 => s[k + 1] = Blank
          /\ q > lead /\ All(s, k + lead + 1, k + q, Punct)
          /\ All(s, k + q + 1, k + m, Newlines)
    BY <1>3, <2>1, <2>3
  <2>5. m \in Punctuation(s, k)
    BY <2>1, <2>4 DEF Punctuation, Lengths
  <2> QED BY <2>5 DEF m
<1> QED BY <1>2, <1>5, <1>8, <1>9, <1>11, <1>12 DEF Longest

\* matchSpaces is the three alternatives of spaces, the last with its lookahead.
LEMMA MatchSpacesIs ==
  ASSUME NEW s, NEW k, At(s, k), s[k + 1] \in Spaces
  PROVE  \/ Longest(ToNewline(s, k), MatchSpaces(s, k))
         \/ ToNewline(s, k) = {} /\ Longest(SpacesBeforeSpace(s, k), MatchSpaces(s, k))
         \/ /\ ToNewline(s, k) = {} /\ SpacesBeforeSpace(s, k) = {}
            /\ Longest(AnySpaces(s, k), MatchSpaces(s, k))
<1> DEFINE n == Span(s, k, Spaces)
           ends == {j \in 1 .. n : s[k + j] \in Newlines}
           last == CHOOSE j \in ends : \A h \in ends : h <= j
<1>1. /\ Len(s) \in Nat /\ k \in Nat /\ k < Len(s) /\ k \in 0 .. Len(s)
  BY AtIs
<1>2. Run(s, k, Spaces, n)
  BY <1>1, SpanIs
<1>3. MatchSpaces(s, k) = IF (IF ends = {} THEN 0 ELSE last) > 0 THEN (IF ends = {} THEN 0 ELSE last)
                          ELSE IF k + n < Len(s) /\ n > 1 THEN n - 1 ELSE n
  BY DEF MatchSpaces, ToLastNewline
<1> HIDE DEF n
<1>4. /\ n \in 0 .. Len(s) - k /\ \A j \in k + 1 .. k + n : s[j] \in Spaces
      /\ k + n < Len(s) => s[k + n + 1] \notin Spaces
  BY <1>2 DEF Run
<1>5. n # 0
  BY <1>1, <1>2 DEF Run
<1>6. \A m \in 0 .. n : All(s, k + 1, k + m, Spaces)
  <2> TAKE m \in 0 .. n
  <2>1. \A j \in k + 1 .. k + m : j \in k + 1 .. k + n
    BY <1>1, <1>4
  <2> QED BY <1>4, <2>1 DEF All
<1>7. \A m \in 1 .. Len(s) - k : All(s, k + 1, k + m, Spaces) => m <= n
  <2> TAKE m \in 1 .. Len(s) - k
  <2>1. m \in 0 .. Len(s) - k
    OBVIOUS
  <2> QED BY <1>1, <1>2, <2>1, RunMost
<1>8. \A m : m \in ToNewline(s, k) <=> m \in 1 .. Len(s) - k /\ s[k + m] \in Newlines /\ All(s, k + 1, k + m, Spaces)
  BY DEF ToNewline, Lengths
<1>9. \A m : m \in ToNewline(s, k) <=> m \in ends
  <2>1. \A m : m \in 1 .. n <=> m \in 1 .. Len(s) - k /\ All(s, k + 1, k + m, Spaces)
    BY <1>1, <1>4, <1>6, <1>7
  <2> QED BY <1>8, <2>1
<1>10. CASE ends # {}
  <2>1. ends \subseteq 0 .. n /\ n \in Nat
    BY <1>1, <1>4
  <2> HIDE DEF ends
  <2>2. \E j \in ends : \A h \in ends : h <= j
    BY <1>10, <2>1, Greatest
  <2>3. last \in ends /\ \A h \in ends : h <= last
    BY <2>2
  <2> HIDE DEF last
  <2>4. last > 0
    BY <2>3 DEF ends
  <2>5. MatchSpaces(s, k) = last
    BY <1>3, <1>10, <2>4
  <2> QED BY <1>9, <2>3, <2>5 DEF Longest
<1>11. CASE ends = {}
  <2>1. MatchSpaces(s, k) = IF k + n < Len(s) /\ n > 1 THEN n - 1 ELSE n
    BY <1>3, <1>11
  <2>2. ToNewline(s, k) = {}
    BY <1>9, <1>11
  <2> HIDE DEF ends, last
  <2>3. \A m : m \in SpacesBeforeSpace(s, k) <=>
          /\ m \in 1 .. Len(s) - k /\ All(s, k + 1, k + m, Spaces)
          /\ k + m < Len(s) => s[k + m + 1] \in Spaces
    BY DEF SpacesBeforeSpace, Lengths
  <2>4. n \in 1 .. Len(s) - k
    BY <1>1, <1>4, <1>5
  <2>5. CASE k + n < Len(s)
    <3>1. \A m \in SpacesBeforeSpace(s, k) : m \in 1 .. n - 1
      <4> TAKE m \in SpacesBeforeSpace(s, k)
      <4>1. m \in 1 .. Len(s) - k /\ m <= n
        BY <1>7, <2>3
      <4>2. m # n
        BY <1>4, <2>3, <2>5
      <4> QED BY <1>4, <4>1, <4>2
    <3>2. CASE n > 1
      <4>1. n - 1 \in 0 .. n /\ n - 1 \in 1 .. Len(s) - k /\ k + (n - 1) + 1 = k + n /\ k + n \in k + 1 .. k + n
        BY <1>1, <2>4, <3>2
      <4>2. All(s, k + 1, k + (n - 1), Spaces) /\ s[k + (n - 1) + 1] \in Spaces
        BY <1>4, <1>6, <4>1
      <4>3. n - 1 \in SpacesBeforeSpace(s, k)
        BY <2>3, <4>1, <4>2
      <4>4. \A m \in SpacesBeforeSpace(s, k) : m <= n - 1
        BY <2>4, <3>1
      <4>5. MatchSpaces(s, k) = n - 1
        BY <2>1, <2>5, <3>2
      <4> QED BY <2>2, <4>3, <4>4, <4>5 DEF Longest
    <3>3. CASE n = 1
      <4>1. MatchSpaces(s, k) = n
        BY <2>1, <3>3
      <4>2. SpacesBeforeSpace(s, k) = {}
        BY <3>1, <3>3
      <4>3. \A m : m \in AnySpaces(s, k) <=> m \in 1 .. Len(s) - k /\ All(s, k + 1, k + m, Spaces)
        BY DEF AnySpaces, Lengths
      <4>4. n \in AnySpaces(s, k)
        BY <1>6, <2>4, <4>3
      <4>5. \A m \in AnySpaces(s, k) : m <= n
        BY <1>7, <4>3
      <4> QED BY <2>2, <4>1, <4>2, <4>4, <4>5 DEF Longest
    <3> QED BY <2>4, <3>2, <3>3
  <2>6. CASE ~(k + n < Len(s))
    <3>1. n \in SpacesBeforeSpace(s, k)
      BY <1>6, <2>3, <2>4, <2>6
    <3>2. \A m \in SpacesBeforeSpace(s, k) : m <= n
      BY <1>7, <2>3
    <3>3. MatchSpaces(s, k) = n
      BY <2>1, <2>6
    <3> QED BY <2>2, <3>1, <3>2, <3>3 DEF Longest
  <2> QED BY <2>5, <2>6
<1> QED BY <1>10, <1>11

\* The alternatives, one by one.
LEMMA AlternativesAre ==
  ASSUME NEW s, NEW k
  PROVE  /\ Alternatives(s, k)[1] = Contraction(s, k) /\ Alternatives(s, k)[2] = Word(s, k)
         /\ Alternatives(s, k)[3] = Digits(s, k) /\ Alternatives(s, k)[4] = Punctuation(s, k)
         /\ Alternatives(s, k)[5] = ToNewline(s, k) /\ Alternatives(s, k)[6] = SpacesBeforeSpace(s, k)
         /\ Alternatives(s, k)[7] = AnySpaces(s, k)
  BY DEF Alternatives

\* The first alternative with a match is taken.
LEMMA Taken ==
  ASSUME NEW s, NEW k, At(s, k), NEW a \in 1 .. 7, NEW n,
         Longest(Alternatives(s, k)[a], n), \A b \in 1 .. a - 1 : Alternatives(s, k)[b] = {}
  PROVE  n \in 1 .. Len(s) - k /\ RegexMatches(s, k, n)
<1>1. n \in Alternatives(s, k)[a] /\ \A m \in Alternatives(s, k)[a] : m <= n
  BY DEF Longest
<1>2. a = 1 \/ a = 2 \/ a = 3 \/ a = 4 \/ a = 5 \/ a = 6 \/ a = 7
  OBVIOUS
<1>3. n \in Lengths(s, k)
  BY <1>1, <1>2, AlternativesAre
     DEF Contraction, Word, Digits, Punctuation, ToNewline, SpacesBeforeSpace, AnySpaces
<1> QED BY <1>1, <1>3 DEF RegexMatches, Lengths

\* matchAt takes at least one character, and as many as the expression.
LEMMA MatchAtIs ==
  ASSUME NEW s, NEW k, At(s, k)
  PROVE  MatchAt(s, k) \in 1 .. Len(s) - k /\ RegexMatches(s, k, MatchAt(s, k))
<1> DEFINE c == s[k + 1]
           m == MatchAt(s, k)
           A == Alternatives(s, k)
           ends == c = Apostrophe /\ ContractionsAt(s, k) # {}
           suffix == CHOOSE x \in ContractionsAt(s, k) : TRUE
           d == IF Span(s, k, Numbers) < 3 THEN Span(s, k, Numbers) ELSE 3
<1>1. c \in Chars
  BY AtIs
<1>2. m = IF ends THEN 1 + Len(suffix)
          ELSE IF MatchWord(s, k) > 0 THEN MatchWord(s, k)
          ELSE IF c \in Numbers THEN d
          ELSE IF MatchPunct(s, k) > 0 THEN MatchPunct(s, k)
          ELSE IF c \in Spaces THEN MatchSpaces(s, k)
          ELSE 1
  BY DEF MatchAt
<1>3. IF ends THEN Longest(A[1], 1 + Len(suffix)) ELSE A[1] = {}
  BY AlternativesAre, MatchContraction
<1>4. IF MatchWord(s, k) > 0 THEN Longest(A[2], MatchWord(s, k)) ELSE A[2] = {}
  BY AlternativesAre, MatchWordIs
<1>5. IF c \in Numbers THEN Longest(A[3], d) ELSE A[3] = {}
  BY AlternativesAre, MatchDigits
<1>6. IF MatchPunct(s, k) > 0 THEN Longest(A[4], MatchPunct(s, k)) ELSE A[4] = {}
  BY AlternativesAre, MatchPunctIs
<1>7. c \in Spaces => \/ Longest(A[5], MatchSpaces(s, k))
                      \/ A[5] = {} /\ Longest(A[6], MatchSpaces(s, k))
                      \/ A[5] = {} /\ A[6] = {} /\ Longest(A[7], MatchSpaces(s, k))
  BY AlternativesAre, MatchSpacesIs
\* A character that is in no other class is punctuation.
<1>8. MatchWord(s, k) > 0 \/ c \in Numbers \/ MatchPunct(s, k) > 0 \/ c \in Spaces
  <2> SUFFICES ASSUME ~(MatchWord(s, k) > 0), c \notin Numbers, ~(MatchPunct(s, k) > 0), c \notin Spaces PROVE FALSE
    OBVIOUS
  <2>1. Word(s, k) = {} /\ Punctuation(s, k) = {}
    BY MatchWordIs, MatchPunctIs
  <2>2. Len(s) \in Nat /\ k \in Nat /\ k < Len(s) /\ 1 \in 1 .. Len(s) - k
    BY AtIs
  <2>3. \A C : c \in C => All(s, k + 1, k + 1, C)
    <3>1. \A j \in k + 1 .. k + 1 : j = k + 1
      BY <2>2
    <3> QED BY <3>1 DEF All
  <2>4. CASE c \in Letters
    <3>1. 0 \in {0, 1} /\ 1 > 0 /\ k + 0 + 1 = k + 1 /\ All(s, k + 0 + 1, k + 1, Letters) /\ 0 # 1
      BY <2>2, <2>3, <2>4
    <3>2. 1 \in Word(s, k)
      BY <2>2, <3>1 DEF Word, Lengths
    <3> QED BY <2>1, <3>2
  <2>5. CASE c \in Punct
    <3>1. k + 0 + 1 = k + 1 /\ All(s, k + 0 + 1, k + 1, Punct)
      BY <2>2, <2>3, <2>5
    <3>2. All(s, k + 1 + 1, k + 1, Newlines)
      BY <2>2 DEF All
    <3>3. 0 \in {0, 1} /\ 1 \in 1 .. 1 /\ 1 > 0 /\ 0 # 1
      OBVIOUS
    <3>4. 1 \in Punctuation(s, k)
      BY <2>2, <3>1, <3>2, <3>3 DEF Punctuation, Lengths
    <3> QED BY <2>1, <3>4
  <2> QED BY <1>1, <2>4, <2>5, SpaceOrPunct
<1> HIDE DEF c, m, A, ends, suffix, d
<1>9. \E a \in 1 .. 7 : Longest(A[a], m) /\ \A b \in 1 .. a - 1 : A[b] = {}
  <2>1. CASE Longest(A[1], m)
    BY <2>1
  <2>2. CASE A[1] = {} /\ Longest(A[2], m)
    <3>1. \A b \in 1 .. 2 - 1 : b = 1
      OBVIOUS
    <3> QED BY <2>2, <3>1
  <2>3. CASE A[1] = {} /\ A[2] = {} /\ Longest(A[3], m)
    <3>1. \A b \in 1 .. 3 - 1 : b = 1 \/ b = 2
      OBVIOUS
    <3> QED BY <2>3, <3>1
  <2>4. CASE A[1] = {} /\ A[2] = {} /\ A[3] = {} /\ Longest(A[4], m)
    <3>1. \A b \in 1 .. 4 - 1 : b = 1 \/ b = 2 \/ b = 3
      OBVIOUS
    <3> QED BY <2>4, <3>1
  <2>5. CASE A[1] = {} /\ A[2] = {} /\ A[3] = {} /\ A[4] = {} /\ Longest(A[5], m)
    <3>1. \A b \in 1 .. 5 - 1 : b = 1 \/ b = 2 \/ b = 3 \/ b = 4
      OBVIOUS
    <3> QED BY <2>5, <3>1
  <2>6. CASE A[1] = {} /\ A[2] = {} /\ A[3] = {} /\ A[4] = {} /\ A[5] = {} /\ Longest(A[6], m)
    <3>1. \A b \in 1 .. 6 - 1 : b = 1 \/ b = 2 \/ b = 3 \/ b = 4 \/ b = 5
      OBVIOUS
    <3> QED BY <2>6, <3>1
  <2>7. CASE A[1] = {} /\ A[2] = {} /\ A[3] = {} /\ A[4] = {} /\ A[5] = {} /\ A[6] = {} /\ Longest(A[7], m)
    <3>1. \A b \in 1 .. 7 - 1 : b = 1 \/ b = 2 \/ b = 3 \/ b = 4 \/ b = 5 \/ b = 6
      OBVIOUS
    <3> QED BY <2>7, <3>1
  <2> QED BY <1>2, <1>3, <1>4, <1>5, <1>6, <1>7, <1>8, <2>1, <2>2, <2>3, <2>4, <2>5, <2>6, <2>7
<1>10. PICK a \in 1 .. 7 : Longest(A[a], m) /\ \A b \in 1 .. a - 1 : A[b] = {}
  BY <1>9
<1>11. m \in 1 .. Len(s) - k /\ RegexMatches(s, k, m)
  BY <1>10, Taken DEF A
<1> QED BY <1>11 DEF m

-----------------------------------------------------------------------------
(* The pieces of a text.                                                   *)

\* The pieces found so far cut the text up to i, each as the expression matches.
Cutting ==
  /\ text \in Seq(Chars) /\ i \in 0 .. Len(text)
  /\ out \in Seq([from : Nat, to : Nat])
  /\ i = IF Len(out) = 0 THEN 0 ELSE out[Len(out)].to
  /\ \A k \in 1 .. Len(out) :
       /\ out[k].from = IF k = 1 THEN 0 ELSE out[k - 1].to
       /\ out[k].from < out[k].to /\ out[k].to <= Len(text)
       /\ RegexMatches(text, out[k].from, out[k].to - out[k].from)

\* Nothing is cut at first.
LEMMA InitCutting == EncInit => Cutting
<1> SUFFICES ASSUME EncInit PROVE Cutting
  OBVIOUS
<1>1. text \in Seq(Chars) /\ i = 0 /\ out = <<>>
  BY CharsAssumption DEF EncInit, Init
<1>2. Len(text) \in Nat /\ Len(out) = 0
  BY <1>1
<1> QED BY <1>1, <1>2 DEF Cutting

\* One more piece, from where the last one ends.
LEMMA CutCutting == Cutting /\ Cut => Cutting'
<1> SUFFICES ASSUME Cutting, Cut PROVE Cutting'
  OBVIOUS
<1> DEFINE n == MatchAt(text, i)
           e == [from |-> i, to |-> i + n]
           P == [from : Nat, to : Nat]
<1>1. text \in Seq(Chars) /\ i \in 0 .. Len(text) /\ Len(text) \in Nat /\ i < Len(text) /\ out \in Seq(P)
  BY DEF Cutting, Cut
<1>2. text' = text /\ i' = i + n /\ out' = Append(out, e)
  BY DEF Cut
<1>3. n \in 1 .. Len(text) - i /\ RegexMatches(text, i, n)
  <2>1. At(text, i)
    BY <1>1 DEF At
  <2> QED BY <2>1, MatchAtIs
<1> HIDE DEF n
<1>4. i + n \in 0 .. Len(text) /\ e \in P /\ i < i + n /\ (i + n) - i = n
  BY <1>1, <1>3
<1>5. e.from = i /\ e.to = i + n
  OBVIOUS
<1> HIDE DEF e, P
<1>6. /\ Len(out) \in Nat /\ out' \in Seq(P) /\ Len(out') = Len(out) + 1 /\ out'[Len(out) + 1] = e
      /\ \A k \in 1 .. Len(out) : out'[k] = out[k]
  BY <1>1, <1>2, <1>4, AppendProperties
<1>7. i' = IF Len(out') = 0 THEN 0 ELSE out'[Len(out')].to
  BY <1>2, <1>5, <1>6
<1>8. ASSUME NEW k \in 1 .. Len(out')
      PROVE  /\ out'[k].from = IF k = 1 THEN 0 ELSE out'[k - 1].to
             /\ out'[k].from < out'[k].to /\ out'[k].to <= Len(text)
             /\ RegexMatches(text, out'[k].from, out'[k].to - out'[k].from)
  <2>1. CASE k = Len(out) + 1
    <3>1. i = IF k = 1 THEN 0 ELSE out[k - 1].to
      BY <1>6, <2>1 DEF Cutting
    <3>2. k # 1 => out'[k - 1] = out[k - 1]
      <4>1. k # 1 => k - 1 \in 1 .. Len(out)
        BY <1>6, <2>1
      <4> QED BY <1>6, <4>1
    <3>3. out'[k] = e
      BY <1>6, <2>1
    <3>4. out'[k].from = i /\ out'[k].to = i + n
      BY <1>5, <3>3
    <3>5. out'[k].from = IF k = 1 THEN 0 ELSE out'[k - 1].to
      <4>1. k # 1 => i = out[k - 1].to
        BY <3>1
      <4> QED BY <3>1, <3>2, <3>4, <4>1
    <3>6. out'[k].from < out'[k].to /\ out'[k].to <= Len(text)
      BY <1>1, <1>3, <1>4, <3>4
    <3>7. RegexMatches(text, out'[k].from, out'[k].to - out'[k].from)
      BY <1>3, <1>4, <3>4
    <3> QED BY <3>5, <3>6, <3>7
  <2>2. CASE k \in 1 .. Len(out)
    <3>1. out'[k] = out[k] /\ (k # 1 => k - 1 \in 1 .. Len(out))
      BY <1>6, <2>2
    <3>2. k # 1 => out'[k - 1] = out[k - 1]
      BY <1>6, <3>1
    <3> QED BY <2>2, <3>1, <3>2 DEF Cutting
  <2> QED BY <1>6, <2>1, <2>2
<1> QED BY <1>1, <1>2, <1>4, <1>6, <1>7, <1>8 DEF Cutting, P

\* Merging cuts nothing.
LEMMA SameCutting == Cutting /\ UNCHANGED <<text, i, out>> => Cutting'
  BY DEF Cutting

\* Every step keeps the pieces.
LEMMA NextCutting == Cutting /\ [EncNext]_allVars => Cutting'
<1> SUFFICES ASSUME Cutting, [EncNext]_allVars PROVE Cutting'
  OBVIOUS
<1>1. Cut \/ UNCHANGED <<text, i, out>>
  BY DEF EncNext, CutNext, NextPiece, MergeBest, Emit, allVars, vars
<1> QED BY <1>1, CutCutting, SameCutting

\* Cutting is an invariant.
LEMMA SpecCutting == EncSpec => []Cutting
  BY InitCutting, NextCutting, PTL DEF EncSpec

\* Whatever the text, PreTokenize cuts it as the regular expression with
\* lookahead would, each alternative tried in order and taken at its longest.
THEOREM AlwaysRegex == EncSpec => []MatchesRegex
<1>1. Cutting => MatchesRegex
  BY DEF Cutting, MatchesRegex
<1> QED BY <1>1, SpecCutting, PTL

-----------------------------------------------------------------------------
(* Sequences of bytes joined, one after the other.                         *)

\* F joins the first m pieces of s, one by one.
Joins(s, F, m) == \A l \in 1 .. m : F[l] = IF l = 1 THEN s[l] ELSE F[l - 1] \o s[l]

\* There is such a function.
LEMMA JoinsExist ==
  ASSUME NEW s, Len(s) \in Nat
  PROVE  \E F : Joins(s, F, Len(s)) /\ F = [l \in 1 .. Len(s) |-> F[l]]
<1> DEFINE S == {m \in Nat : m <= Len(s) => \E F : Joins(s, F, m) /\ F = [l \in 1 .. Len(s) |-> F[l]]}
<1>1. 0 \in S
  <2> DEFINE F == [l \in 1 .. Len(s) |-> 0]
  <2>1. Joins(s, F, 0) /\ F = [l \in 1 .. Len(s) |-> F[l]]
    BY DEF Joins
  <2> HIDE DEF F
  <2> QED BY <2>1
<1>2. ASSUME NEW m \in Nat, m \in S PROVE m + 1 \in S
  <2> SUFFICES ASSUME m + 1 <= Len(s)
               PROVE  \E F : Joins(s, F, m + 1) /\ F = [l \in 1 .. Len(s) |-> F[l]]
    OBVIOUS
  <2>1. PICK F : Joins(s, F, m) /\ F = [l \in 1 .. Len(s) |-> F[l]]
    BY <1>2
  <2> DEFINE x == IF m + 1 = 1 THEN s[m + 1] ELSE F[m] \o s[m + 1]
             G == [l \in 1 .. Len(s) |-> IF l = m + 1 THEN x ELSE F[l]]
  <2>2. G = [l \in 1 .. Len(s) |-> G[l]]
    OBVIOUS
  <2> HIDE DEF x
  <2>3. G[m + 1] = x /\ \A l \in 1 .. m : G[l] = F[l]
    <3>1. m + 1 \in 1 .. Len(s) /\ \A l \in 1 .. m : l \in 1 .. Len(s) /\ l # m + 1
      OBVIOUS
    <3> QED BY <3>1
  <2> HIDE DEF G
  <2> USE DEF x
  <2>4. ASSUME NEW l \in 1 .. m + 1
        PROVE  G[l] = IF l = 1 THEN s[l] ELSE G[l - 1] \o s[l]
    <3>1. CASE l = m + 1
      <4>1. l # 1 => m \in 1 .. m /\ l - 1 = m
        BY <3>1
      <4>2. l # 1 => G[l - 1] = F[m]
        BY <2>3, <4>1
      <4> QED BY <2>3, <3>1, <4>2
    <3>2. CASE l # m + 1
      <4>1. l \in 1 .. m /\ (l # 1 => l - 1 \in 1 .. m)
        BY <3>2
      <4>2. F[l] = IF l = 1 THEN s[l] ELSE F[l - 1] \o s[l]
        BY <2>1, <4>1 DEF Joins
      <4> QED BY <2>3, <4>1, <4>2
    <3> QED BY <3>1, <3>2
  <2>5. Joins(s, G, m + 1)
    BY <2>4 DEF Joins
  <2> QED BY <2>2, <2>5
<1> HIDE DEF S
<1>3. Nat \subseteq S
  BY <1>1, <1>2, InductionOnNat
<1>4. Len(s) \in S
  BY <1>3
<1> QED BY <1>4 DEF S

\* FlattenSeq joins all the pieces.
LEMMA FlattenIs ==
  ASSUME NEW s, Len(s) \in Nat \ {0}
  PROVE  \E F : Joins(s, F, Len(s)) /\ FlattenSeq(s) = F[Len(s)]
<1> DEFINE Eqn(F) == F = [l \in 1 .. Len(s) |-> IF l = 1 THEN s[l] ELSE F[l - 1] \o s[l]]
           Q == CHOOSE F : Eqn(F)
<1>1. FlattenSeq(s) = Q[Len(s)]
  BY DEF FlattenSeq
<1>2. \E F : Eqn(F)
  <2>1. PICK F : Joins(s, F, Len(s)) /\ F = [l \in 1 .. Len(s) |-> F[l]]
    BY JoinsExist
  <2>2. \A l \in 1 .. Len(s) : F[l] = IF l = 1 THEN s[l] ELSE F[l - 1] \o s[l]
    BY <2>1 DEF Joins
  <2>3. Eqn(F)
    BY <2>1, <2>2
  <2> QED BY <2>3
<1>3. Eqn(Q)
  BY <1>2
<1> HIDE DEF Q
<1>4. \A l \in 1 .. Len(s) : Q[l] = IF l = 1 THEN s[l] ELSE Q[l - 1] \o s[l]
  BY <1>3
<1>5. Joins(s, Q, Len(s))
  BY <1>4 DEF Joins
<1> QED BY <1>1, <1>5

\* One more piece comes last.
LEMMA FlattenAppend ==
  ASSUME NEW B, NEW s \in Seq(Seq(B)), NEW x \in Seq(B)
  PROVE  FlattenSeq(Append(s, x)) = FlattenSeq(s) \o x
<1> DEFINE t == Append(s, x)
           m == Len(s)
<1>1. m \in Nat /\ Len(t) = m + 1 /\ t[m + 1] = x /\ \A l \in 1 .. m : t[l] = s[l]
  BY AppendProperties
<1> HIDE DEF t
<1>2. Len(t) \in Nat \ {0}
  BY <1>1
<1>3. PICK G : Joins(t, G, Len(t)) /\ FlattenSeq(t) = G[Len(t)]
  BY <1>2, FlattenIs
<1>4. CASE m = 0
  <2>1. 1 \in 1 .. Len(t)
    BY <1>1
  <2>2. G[1] = x
    BY <1>1, <1>3, <1>4, <2>1 DEF Joins
  <2>3. s = <<>> /\ FlattenSeq(s) = <<>>
    BY <1>4 DEF FlattenSeq
  <2>4. <<>> \o x = x
    BY ConcatEmptySeq
  <2> QED BY <1>1, <1>3, <1>4, <2>2, <2>3, <2>4 DEF t
<1>5. CASE m # 0
  <2>1. m \in Nat \ {0}
    BY <1>1, <1>5
  <2>2. PICK F : Joins(s, F, m) /\ FlattenSeq(s) = F[m]
    BY <2>1, FlattenIs
  <2> DEFINE S == {k \in Nat : k + 1 <= m => G[k + 1] = F[k + 1]}
  <2>3. 0 \in S
    <3>1. 1 \in 1 .. Len(t) /\ 1 \in 1 .. m
      BY <1>1, <2>1
    <3>2. G[1] = t[1] /\ F[1] = s[1] /\ t[1] = s[1]
      BY <1>1, <1>3, <2>2, <3>1 DEF Joins
    <3> QED BY <3>2
  <2>4. ASSUME NEW k \in Nat, k \in S PROVE k + 1 \in S
    <3> SUFFICES ASSUME k + 2 <= m PROVE G[k + 2] = F[k + 2]
      OBVIOUS
    <3>1. k + 2 \in 1 .. Len(t) /\ k + 2 \in 1 .. m /\ k + 2 # 1 /\ (k + 2) - 1 = k + 1 /\ k + 1 <= m
      BY <1>1
    <3>2. G[k + 2] = G[k + 1] \o t[k + 2] /\ F[k + 2] = F[k + 1] \o s[k + 2]
      BY <1>3, <2>2, <3>1 DEF Joins
    <3>3. G[k + 1] = F[k + 1]
      BY <2>4, <3>1
    <3> QED BY <1>1, <3>1, <3>2, <3>3
  <2> HIDE DEF S
  <2>5. Nat \subseteq S
    BY <2>3, <2>4, InductionOnNat
  <2>6. m - 1 \in S /\ (m - 1) + 1 = m
    BY <2>1, <2>5
  <2>7. G[m] = F[m]
    BY <2>1, <2>6 DEF S
  <2>8. m + 1 \in 1 .. Len(t) /\ m + 1 # 1 /\ (m + 1) - 1 = m
    BY <1>1, <2>1
  <2>9. G[m + 1] = G[m] \o t[m + 1]
    BY <1>3, <2>8 DEF Joins
  <2> QED BY <1>1, <1>3, <2>2, <2>7, <2>9 DEF t
<1> QED BY <1>4, <1>5

\* The first n values of f, joined.
Flat(f, n) == FlattenSeq([j \in 1 .. n |-> f[j]])

Spells(f, n) == n \in Nat /\ \A j \in 1 .. n : f[j] \in Spelling

\* Joining is associative.
LEMMA Associate == \A x, y, z \in Spelling : (x \o y) \o z = x \o (y \o z) /\ x \o y \in Spelling
<1> SUFFICES ASSUME NEW x \in Spelling, NEW y \in Spelling, NEW z \in Spelling
             PROVE  (x \o y) \o z = x \o (y \o z) /\ x \o y \in Spelling
  OBVIOUS
<1>1. (x \o y) \o z = x \o (y \o z)
  BY ConcatAssociative DEF Spelling
<1>2. x \o y \in Spelling
  BY ConcatProperties DEF Spelling
<1> QED BY <1>1, <1>2

\* No bytes joined to some leave them as they are.
LEMMA NoBytes == <<>> \in Spelling /\ \A x \in Spelling : <<>> \o x = x /\ x \o <<>> = x
  BY EmptySeq, ConcatEmptySeq DEF Spelling

\* None joined are no bytes.
LEMMA FlatNone ==
  ASSUME NEW f
  PROVE  Flat(f, 0) = <<>>
<1> DEFINE s == [j \in 1 .. 0 |-> f[j]]
<1>1. s = <<>> /\ Len(s) = 0
  OBVIOUS
<1> QED BY <1>1 DEF Flat, FlattenSeq

\* One more comes last.
LEMMA FlatMore ==
  ASSUME NEW f, NEW n \in Nat, Spells(f, n + 1)
  PROVE  Flat(f, n + 1) = Flat(f, n) \o f[n + 1]
<1> DEFINE s == [j \in 1 .. n |-> f[j]]
           t == [j \in 1 .. n + 1 |-> f[j]]
<1>1. \A j \in 1 .. n + 1 : f[j] \in Spelling
  BY DEF Spells
<1>2. t \in Seq(Spelling) /\ Len(t) = n + 1
  BY <1>1
<1>3. s \in Seq(Spelling) /\ Len(s) = n
  <2>1. \A j \in 1 .. n : f[j] \in Spelling
    BY <1>1
  <2> QED BY <2>1
<1>4. \A j \in 1 .. n : s[j] = t[j]
  OBVIOUS
<1>5. n + 1 \in 1 .. n + 1 /\ t[n + 1] = f[n + 1]
  OBVIOUS
<1>6. FlattenSeq(s) = Flat(f, n) /\ FlattenSeq(t) = Flat(f, n + 1)
  BY DEF Flat
<1> HIDE DEF s, t
<1>7. /\ Append(s, f[n + 1]) \in Seq(Spelling) /\ Len(Append(s, f[n + 1])) = n + 1
      /\ Append(s, f[n + 1])[n + 1] = f[n + 1]
      /\ \A j \in 1 .. n : Append(s, f[n + 1])[j] = s[j]
  BY <1>1, <1>3, <1>5, AppendProperties
<1>8. \A j \in 1 .. n + 1 : t[j] = Append(s, f[n + 1])[j]
  <2>1. \A j \in 1 .. n + 1 : j \in 1 .. n \/ j = n + 1
    OBVIOUS
  <2> QED BY <1>4, <1>5, <1>7, <2>1
<1>9. t = Append(s, f[n + 1])
  BY <1>2, <1>7, <1>8, SeqEqual
<1>10. FlattenSeq(Append(s, f[n + 1])) = FlattenSeq(s) \o f[n + 1]
  <2>1. s \in Seq(Seq(Bytes \cup {Nul})) /\ f[n + 1] \in Seq(Bytes \cup {Nul})
    BY <1>1, <1>3, <1>5 DEF Spelling
  <2> QED BY <2>1, FlattenAppend
<1> QED BY <1>6, <1>9, <1>10

\* What is joined is a spelling.
LEMMA FlatSpells ==
  ASSUME NEW f, NEW n, Spells(f, n)
  PROVE  Flat(f, n) \in Spelling
<1> DEFINE S == {m \in Nat : m <= n => Flat(f, m) \in Spelling}
<1>1. 0 \in S
  BY FlatNone, NoBytes
<1>2. ASSUME NEW m \in Nat, m \in S PROVE m + 1 \in S
  <2> SUFFICES ASSUME m + 1 <= n PROVE Flat(f, m + 1) \in Spelling
    OBVIOUS
  <2>1. Spells(f, m + 1) /\ m <= n /\ f[m + 1] \in Spelling
    BY DEF Spells
  <2>2. Flat(f, m) \in Spelling /\ Flat(f, m + 1) = Flat(f, m) \o f[m + 1]
    BY <1>2, <2>1, FlatMore
  <2> QED BY <2>1, <2>2, Associate
<1> HIDE DEF S
<1>3. Nat \subseteq S
  BY <1>1, <1>2, InductionOnNat
<1>4. n \in S
  BY <1>3 DEF Spells
<1> QED BY <1>4 DEF S, Spells

\* The same values joined are the same.
LEMMA FlatSame ==
  ASSUME NEW f, NEW g, NEW n \in Nat, \A j \in 1 .. n : f[j] = g[j]
  PROVE  Flat(f, n) = Flat(g, n)
<1>1. [j \in 1 .. n |-> f[j]] = [j \in 1 .. n |-> g[j]]
  OBVIOUS
<1> QED BY <1>1 DEF Flat

\* f continues with h after a values.
LEMMA FlatSplit ==
  ASSUME NEW f, NEW h, NEW a \in Nat, NEW m \in Nat, Spells(f, a), Spells(h, m),
         \A j \in 1 .. m : f[a + j] = h[j]
  PROVE  Spells(f, a + m) /\ Flat(f, a + m) = Flat(f, a) \o Flat(h, m)
<1>1. Spells(f, a + m)
  <2> SUFFICES ASSUME NEW j \in 1 .. a + m PROVE f[j] \in Spelling
    BY DEF Spells
  <2>1. CASE j \in 1 .. a
    BY <2>1 DEF Spells
  <2>2. CASE j \notin 1 .. a
    <3>1. j - a \in 1 .. m /\ a + (j - a) = j
      BY <2>2
    <3>2. f[j] = h[j - a]
      BY <3>1
    <3> QED BY <3>1, <3>2 DEF Spells
  <2> QED BY <2>1, <2>2
<1> DEFINE S == {k \in Nat : k <= m => Flat(f, a + k) = Flat(f, a) \o Flat(h, k)}
<1>2. 0 \in S
  <2>1. a + 0 = a /\ Flat(f, a) \in Spelling
    BY FlatSpells
  <2> QED BY <2>1, FlatNone, NoBytes
<1>3. ASSUME NEW k \in Nat, k \in S PROVE k + 1 \in S
  <2> SUFFICES ASSUME k + 1 <= m PROVE Flat(f, a + (k + 1)) = Flat(f, a) \o Flat(h, k + 1)
    OBVIOUS
  <2>1. /\ a + (k + 1) = (a + k) + 1 /\ a + k \in Nat /\ k <= m
        /\ k + 1 \in 1 .. m /\ f[a + (k + 1)] = h[k + 1]
    OBVIOUS
  <2>2. Spells(f, (a + k) + 1) /\ Spells(h, k + 1) /\ Spells(h, k) /\ h[k + 1] \in Spelling
    BY <1>1, <2>1 DEF Spells
  <2>3. Flat(f, (a + k) + 1) = Flat(f, a + k) \o f[(a + k) + 1]
    BY <2>1, <2>2, FlatMore
  <2>4. Flat(h, k + 1) = Flat(h, k) \o h[k + 1]
    BY <2>2, FlatMore
  <2>5. Flat(f, a + k) = Flat(f, a) \o Flat(h, k)
    BY <1>3, <2>1
  <2>6. Flat(f, a) \in Spelling /\ Flat(h, k) \in Spelling
    BY <2>2, FlatSpells
  <2>7. (Flat(f, a) \o Flat(h, k)) \o h[k + 1] = Flat(f, a) \o (Flat(h, k) \o h[k + 1])
    BY <2>2, <2>6, Associate
  <2>8. f[(a + k) + 1] = h[k + 1]
    BY <2>1
  <2> QED BY <2>1, <2>3, <2>4, <2>5, <2>7, <2>8, Zenon
<1> HIDE DEF S
<1>4. Nat \subseteq S
  BY <1>2, <1>3, InductionOnNat
<1>5. m \in S
  BY <1>4
<1> QED BY <1>1, <1>5 DEF S

\* A spelling is its bytes joined.
LEMMA FlatBytes ==
  ASSUME NEW b \in Spelling
  PROVE  LET f == [j \in 1 .. Len(b) |-> <<b[j]>>]
         IN  Spells(f, Len(b)) /\ Flat(f, Len(b)) = b
<1> DEFINE B == Bytes \cup {Nul}
           f == [j \in 1 .. Len(b) |-> <<b[j]>>]
           S == {m \in Nat : m <= Len(b) => Flat(f, m) = SubSeq(b, 1, m)}
<1>1. b \in Seq(B) /\ Len(b) \in Nat /\ \A j \in 1 .. Len(b) : b[j] \in B
  BY DEF Spelling
<1>2. \A j \in 1 .. Len(b) : f[j] = <<b[j]>> /\ <<b[j]>> \in Spelling
  BY <1>1 DEF Spelling
<1>3. Spells(f, Len(b))
  <2> HIDE DEF f
  <2> QED BY <1>1, <1>2 DEF Spells
<1>4. 0 \in S
  <2>1. SubSeq(b, 1, 0) = <<>>
    BY SubSeqEmpty
  <2> HIDE DEF f
  <2> QED BY <2>1, FlatNone
<1> HIDE DEF f, B
<1>5. ASSUME NEW m \in Nat, m \in S PROVE m + 1 \in S
  <2> SUFFICES ASSUME m + 1 <= Len(b) PROVE Flat(f, m + 1) = SubSeq(b, 1, m + 1)
    OBVIOUS
  <2>1. Spells(f, m + 1) /\ m <= Len(b) /\ m + 1 \in 1 .. Len(b)
    BY <1>3 DEF Spells
  <2>2. Flat(f, m + 1) = Flat(f, m) \o <<b[m + 1]>>
    BY <1>2, <2>1, FlatMore
  <2>3. Flat(f, m) = SubSeq(b, 1, m)
    BY <1>5, <2>1
  <2>4. SubSeq(b, 1, m) \o <<b[m + 1]>> = SubSeq(b, 1, m + 1)
    <3>1. 1 \in 1 .. Len(b) /\ m + 1 \in 1 .. Len(b) /\ (m + 1) - 1 = m
      BY <1>1, <2>1
    <3>2. SubSeq(b, 1, m + 1) = SubSeq(b, 1, (m + 1) - 1) \o <<b[m + 1]>>
      BY <1>1, <3>1, SubSeqRecursiveSecond
    <3> QED BY <3>1, <3>2
  <2> QED BY <2>2, <2>3, <2>4
<1> HIDE DEF S
<1>6. Nat \subseteq S
  BY <1>4, <1>5, InductionOnNat
<1>7. Len(b) \in S
  BY <1>1, <1>6
<1>8. Flat(f, Len(b)) = SubSeq(b, 1, Len(b))
  BY <1>1, <1>7 DEF S
<1>9. SubSeq(b, 1, Len(b)) = b
  BY <1>1, SubSeqFull
<1> QED BY <1>3, <1>8, <1>9 DEF f

\* A sequence of spellings.
LEMMA FlatAll ==
  ASSUME NEW s \in Seq(Spelling)
  PROVE  Spells(s, Len(s)) /\ FlattenSeq(s) = Flat(s, Len(s))
<1>1. Len(s) \in Nat /\ \A j \in 1 .. Len(s) : s[j] \in Spelling
  OBVIOUS
<1>2. [j \in 1 .. Len(s) |-> s[j]] = s
  OBVIOUS
<1> QED BY <1>1, <1>2 DEF Spells, Flat

-----------------------------------------------------------------------------
(* The vocabulary.                                                         *)

Vocabulary ==
  /\ tokens \in Seq(Spelling) /\ merges \in Seq(Spelling \X Spelling)
  /\ \A b \in Bytes \cup {Nul} : IsToken(<<b>>)
  /\ \A k \in 1 .. Len(merges) : IsToken(Product(k))
  /\ \A k \in 1 .. Len(tokens) : k - 1 \in control =>
       /\ \A b \in Bytes \cup {Nul} : tokens[k] # <<b>>
       /\ \A j \in 1 .. Len(merges) : tokens[k] # Product(j)

\* What BPE makes: bytes and the products of merges.
Symbol(s) == (\E b \in Bytes \cup {Nul} : s = <<b>>) \/ (\E k \in 1 .. Len(merges) : s = Product(k))

\* It is what the model file says.
LEMMA InitVocabulary == EncInit => Vocabulary
<1> SUFFICES ASSUME EncInit PROVE Vocabulary
  OBVIOUS
<1>1. PICK x \in Models : merges = x.merges /\ tokens = x.tokens /\ control = x.control
  BY DEF EncInit
<1>2. tokens \in Seq(Spelling) /\ merges \in Seq(Spelling \X Spelling)
  BY <1>1, ModelsAssumption
<1>3. DOMAIN tokens = 1 .. Len(tokens) /\ DOMAIN merges = 1 .. Len(merges)
  BY <1>2
<1>4. \A b \in Bytes \cup {Nul} : IsToken(<<b>>)
  BY <1>1, ModelsAssumption DEF IsToken
<1>5. \A k \in 1 .. Len(merges) : IsToken(Product(k))
  BY <1>1, <1>3, ModelsAssumption DEF IsToken, Product
<1>6. \A k \in 1 .. Len(tokens) : k - 1 \in control =>
       /\ \A b \in Bytes \cup {Nul} : tokens[k] # <<b>>
       /\ \A j \in 1 .. Len(merges) : tokens[k] # Product(j)
  <2>1. \A k \in DOMAIN tokens : k - 1 \in control =>
         /\ \A b \in Bytes \cup {Nul} : tokens[k] # <<b>>
         /\ \A j \in DOMAIN merges : tokens[k] # merges[j][1] \o merges[j][2]
    BY <1>1, ControlAssumption, Zenon
  <2> QED BY <1>3, <2>1 DEF Product
<1> QED BY <1>2, <1>4, <1>5, <1>6 DEF Vocabulary

\* A symbol is looked up, and what is found decodes to it.
LEMMA Looked ==
  ASSUME Vocabulary, NEW s, Symbol(s)
  PROVE  /\ s \in Spelling
         /\ Lookup(s) \in 0 .. Len(tokens) - 1 /\ Lookup(s) \notin control /\ Decode(Lookup(s)) = s
<1> DEFINE S == {k \in DOMAIN tokens : tokens[k] = s}
           p == CHOOSE k \in DOMAIN tokens : tokens[k] = s /\ \A j \in DOMAIN tokens : tokens[j] = s => j <= k
<1>1. tokens \in Seq(Spelling) /\ Len(tokens) \in Nat /\ DOMAIN tokens = 1 .. Len(tokens)
  BY DEF Vocabulary
<1>2. IsToken(s)
  BY DEF Symbol, Vocabulary
<1>3. S # {} /\ S \subseteq 0 .. Len(tokens)
  BY <1>1, <1>2 DEF IsToken
<1>4. \E k \in S : \A j \in S : j <= k
  <2> HIDE DEF S
  <2> QED BY <1>1, <1>3, Greatest
<1>5. p \in DOMAIN tokens /\ tokens[p] = s
  BY <1>4
<1>6. Lookup(s) = p - 1
  BY <1>2 DEF Lookup, ID
<1> HIDE DEF p
<1>7. p \in 1 .. Len(tokens) /\ (p - 1) + 1 = p /\ ~(p - 1 >= Len(tokens))
  BY <1>1, <1>5
<1>8. p - 1 \notin control
  BY <1>5, <1>7 DEF Vocabulary, Symbol
<1>9. Decode(p - 1) = s
  BY <1>5, <1>7, <1>8 DEF Decode
<1> QED BY <1>1, <1>5, <1>6, <1>7, <1>8, <1>9

-----------------------------------------------------------------------------
(* Merging.                                                                *)

\* The rank of a pair that has one.
LEMMA RankIs ==
  ASSUME Vocabulary, NEW a, NEW b, Places(a, b) # {}
  PROVE  /\ RankOf(a, b) \in 1 .. Len(merges) /\ merges[RankOf(a, b)] = <<a, b>>
         /\ \A j \in 1 .. Len(merges) : merges[j] = <<a, b>> => j <= RankOf(a, b)
<1>1. DOMAIN merges = 1 .. Len(merges) /\ Len(merges) \in Nat
  BY DEF Vocabulary
<1>2. Places(a, b) = {k \in 1 .. Len(merges) : merges[k] = <<a, b>>}
  BY <1>1 DEF Places
<1>3. Places(a, b) \subseteq 0 .. Len(merges)
  BY <1>2
<1>4. \E k \in Places(a, b) : \A j \in Places(a, b) : j <= k
  BY <1>1, <1>3, Greatest
<1>5. RankOf(a, b) \in Places(a, b) /\ \A j \in Places(a, b) : j <= RankOf(a, b)
  BY <1>4 DEF RankOf
<1> QED BY <1>2, <1>5

\* The pair that bpe merges: of the lowest rank, the leftmost.
LEMMA BestIs ==
  ASSUME Vocabulary, NEW ss, Len(ss) \in Nat, Ranked(ss) # {}
  PROVE  /\ Best(ss) \in Ranked(ss) /\ Best(ss) \in 1 .. Len(ss) - 1
         /\ \A j \in Ranked(ss) : /\ Rank(ss, j) \in 1 .. Len(merges)
                                  /\ \/ Rank(ss, Best(ss)) < Rank(ss, j)
                                     \/ Rank(ss, Best(ss)) = Rank(ss, j) /\ Best(ss) <= j
<1> DEFINE R == {Rank(ss, k) : k \in Ranked(ss)}
<1>1. \A k \in Ranked(ss) : k \in 1 .. Len(ss) - 1 /\ k \in Nat /\ Rank(ss, k) \in 1 .. Len(merges)
  BY RankIs DEF Ranked, Rank
<1>2. R \subseteq Nat /\ R # {}
  BY <1>1
<1> HIDE DEF R
<1>3. PICK r \in R : \A x \in R : r <= x
  BY <1>2, Least
<1> DEFINE L == {k \in Ranked(ss) : Rank(ss, k) = r}
<1>4. L \subseteq Nat /\ L # {}
  BY <1>1, <1>3 DEF R
<1> HIDE DEF L
<1>5. PICK k \in L : \A j \in L : k <= j
  BY <1>4, Least
<1>6. k \in Ranked(ss) /\ \A j \in Ranked(ss) : Rank(ss, k) < Rank(ss, j) \/ (Rank(ss, k) = Rank(ss, j) /\ k <= j)
  <2>1. k \in Ranked(ss) /\ Rank(ss, k) = r
    BY <1>5 DEF L
  <2>2. ASSUME NEW j \in Ranked(ss)
        PROVE  Rank(ss, k) < Rank(ss, j) \/ (Rank(ss, k) = Rank(ss, j) /\ k <= j)
    <3>1. r <= Rank(ss, j) /\ r \in 1 .. Len(merges) /\ Rank(ss, j) \in 1 .. Len(merges)
      BY <1>1, <1>3, <2>1 DEF R
    <3>2. r = Rank(ss, j) => k <= j
      BY <1>5 DEF L
    <3> QED BY <2>1, <3>1, <3>2
  <2> QED BY <2>1, <2>2
<1>7. /\ Best(ss) \in Ranked(ss)
      /\ \A j \in Ranked(ss) : \/ Rank(ss, Best(ss)) < Rank(ss, j)
                               \/ Rank(ss, Best(ss)) = Rank(ss, j) /\ Best(ss) <= j
  BY <1>6 DEF Best
<1> QED BY <1>1, <1>7

\* One symbol in place of two.
LEMMA JoinIs ==
  ASSUME NEW ss \in Seq(Spelling), NEW k \in 1 .. Len(ss) - 1
  PROVE  /\ Join(ss, k) \in Seq(Spelling) /\ Len(Join(ss, k)) = Len(ss) - 1
         /\ \A j \in 1 .. k - 1 : Join(ss, k)[j] = ss[j]
         /\ Join(ss, k)[k] = ss[k] \o ss[k + 1]
         /\ \A j \in k + 1 .. Len(ss) - 1 : Join(ss, k)[j] = ss[j + 1]
<1> DEFINE l == Len(ss)
           a == SubSeq(ss, 1, k - 1)
           x == ss[k] \o ss[k + 1]
           c == SubSeq(ss, k + 2, l)
           h == a \o <<x>>
<1>1. l \in Nat /\ k \in 1 .. l /\ k + 1 \in 1 .. l /\ \A j \in 1 .. l : ss[j] \in Spelling
  OBVIOUS
<1>2. x \in Spelling
  BY <1>1, Associate
<1>3. a \in Seq(Spelling) /\ Len(a) = k - 1 /\ \A j \in 1 .. k - 1 : a[j] = ss[j]
  <2> DEFINE m == k - 1
  <2>1. 1 \in Int /\ m \in Int /\ \A j \in 1 .. m : ss[j] \in Spelling
    BY <1>1
  <2>2. (1 <= m => m - 1 + 1 = m) /\ (~(1 <= m) => m = 0) /\ \A j \in 1 .. m : j \in 1 .. m - 1 + 1 /\ 1 + j - 1 = j
    BY <1>1
  <2> HIDE DEF m
  <2>3. /\ SubSeq(ss, 1, m) \in Seq(Spelling)
        /\ Len(SubSeq(ss, 1, m)) = IF 1 <= m THEN m - 1 + 1 ELSE 0
        /\ \A j \in 1 .. m - 1 + 1 : SubSeq(ss, 1, m)[j] = ss[1 + j - 1]
    BY <2>1, SubSeqProperties
  <2>4. \A j \in 1 .. m : SubSeq(ss, 1, m)[j] = ss[j]
    BY <2>2, <2>3, Zenon
  <2>5. SubSeq(ss, 1, m) \in Seq(Spelling) /\ Len(SubSeq(ss, 1, m)) = m
    BY <2>2, <2>3
  <2> QED BY <2>4, <2>5 DEF m
<1>4. c \in Seq(Spelling) /\ Len(c) = l - k - 1 /\ \A j \in 1 .. l - k - 1 : c[j] = ss[k + 1 + j]
  <2> DEFINE b == k + 2
  <2>1. b \in Int /\ l \in Int /\ \A j \in b .. l : ss[j] \in Spelling
    BY <1>1
  <2>2. /\ (b <= l => l - b + 1 = l - k - 1) /\ (~(b <= l) => l - k - 1 = 0)
        /\ \A j \in 1 .. l - k - 1 : j \in 1 .. l - b + 1 /\ b + j - 1 = k + 1 + j
    BY <1>1
  <2> HIDE DEF b, l
  <2>3. /\ SubSeq(ss, b, l) \in Seq(Spelling)
        /\ Len(SubSeq(ss, b, l)) = IF b <= l THEN l - b + 1 ELSE 0
        /\ \A j \in 1 .. l - b + 1 : SubSeq(ss, b, l)[j] = ss[b + j - 1]
    BY <2>1, SubSeqProperties
  <2>4. \A j \in 1 .. l - k - 1 : SubSeq(ss, b, l)[j] = ss[k + 1 + j]
    BY <2>2, <2>3, Zenon
  <2>5. SubSeq(ss, b, l) \in Seq(Spelling) /\ Len(SubSeq(ss, b, l)) = l - k - 1
    BY <2>2, <2>3
  <2> QED BY <2>4, <2>5 DEF b
<1>5. Join(ss, k) = h \o c
  BY DEF Join
<1> HIDE DEF a, x, c, l
<1>6. h \in Seq(Spelling) /\ Len(h) = k /\ h[k] = x /\ \A j \in 1 .. k - 1 : h[j] = a[j]
  <2>1. <<x>> \in Seq(Spelling) /\ Len(<<x>>) = 1 /\ <<x>>[1] = x
    BY <1>2
  <2>2. h \in Seq(Spelling) /\ Len(h) = k - 1 + 1
    BY <1>3, <2>1, ConcatProperties
  <2>3. \A j \in 1 .. (k - 1) + 1 : h[j] = IF j <= k - 1 THEN a[j] ELSE <<x>>[j - (k - 1)]
    BY <1>3, <2>1, ConcatProperties
  <2>4. k \in 1 .. (k - 1) + 1 /\ ~(k <= k - 1) /\ k - (k - 1) = 1
    OBVIOUS
  <2>5. h[k] = x
    BY <2>1, <2>3, <2>4
  <2> HIDE DEF h
  <2> QED BY <2>2, <2>3, <2>5
<1> HIDE DEF h
<1>7. /\ h \o c \in Seq(Spelling) /\ Len(h \o c) = k + (l - k - 1)
      /\ \A j \in 1 .. k + (l - k - 1) : (h \o c)[j] = IF j <= k THEN h[j] ELSE c[j - k]
  <2>1. /\ h \o c \in Seq(Spelling) /\ Len(h \o c) = Len(h) + Len(c)
        /\ \A j \in 1 .. Len(h) + Len(c) : (h \o c)[j] = IF j <= Len(h) THEN h[j] ELSE c[j - Len(h)]
    BY <1>4, <1>6, ConcatProperties
  <2>2. Len(h) = k /\ Len(c) = l - k - 1
    BY <1>4, <1>6
  <2> QED BY <2>1, <2>2
<1>8. k + (l - k - 1) = l - 1
  BY <1>1
<1>9. \A j \in 1 .. k : (h \o c)[j] = h[j]
  BY <1>1, <1>7, <1>8
<1>10. \A j \in k + 1 .. l - 1 : (h \o c)[j] = ss[j + 1]
  <2> TAKE j \in k + 1 .. l - 1
  <2>1. j \in 1 .. k + (l - k - 1) /\ ~(j <= k) /\ j - k \in 1 .. l - k - 1 /\ k + 1 + (j - k) = j + 1
    BY <1>1
  <2> QED BY <1>4, <1>7, <2>1
<1>11. k \in 1 .. k /\ \A j \in 1 .. k - 1 : j \in 1 .. k
  OBVIOUS
<1> QED BY <1>3, <1>5, <1>6, <1>7, <1>8, <1>9, <1>10, <1>11 DEF x, l

\* It spells the same.
LEMMA JoinFlat ==
  ASSUME NEW ss \in Seq(Spelling), NEW k \in 1 .. Len(ss) - 1
  PROVE  FlattenSeq(Join(ss, k)) = FlattenSeq(ss)
<1> DEFINE l == Len(ss)
           J == Join(ss, k)
           m == l - k - 1
           h == [j \in 1 .. m |-> ss[k + 1 + j]]
<1>1. /\ l \in Nat /\ k \in Nat /\ k - 1 \in Nat /\ (k - 1) + 1 = k /\ k + 1 \in Nat /\ m \in Nat
      /\ k + m = l - 1 /\ (k + 1) + m = l
  OBVIOUS
<1>2. Spells(ss, l) /\ FlattenSeq(ss) = Flat(ss, l)
  BY FlatAll
<1>3. Spells(J, l - 1) /\ FlattenSeq(J) = Flat(J, l - 1)
  BY JoinIs, FlatAll
<1>4. /\ \A j \in 1 .. k - 1 : J[j] = ss[j]
      /\ J[k] = ss[k] \o ss[k + 1]
      /\ \A j \in k + 1 .. l - 1 : J[j] = ss[j + 1]
  BY JoinIs
<1> HIDE DEF J
<1>5. Spells(ss, k - 1) /\ Spells(ss, k) /\ Spells(ss, k + 1) /\ Spells(J, k) /\ ss[k] \in Spelling /\ ss[k + 1] \in Spelling
  <2>1. \A j \in 1 .. k + 1 : j \in 1 .. l
    BY <1>1
  <2>2. \A j \in 1 .. k : j \in 1 .. l - 1
    BY <1>1
  <2>3. \A j \in 1 .. k - 1 : j \in 1 .. l
    BY <1>1
  <2>4. \A j \in 1 .. k : j \in 1 .. l
    BY <1>1
  <2>5. k \in 1 .. l /\ k + 1 \in 1 .. l
    BY <1>1
  <2> HIDE DEF l, h, m
  <2> QED BY <1>1, <1>2, <1>3, <2>1, <2>2, <2>3, <2>4, <2>5 DEF Spells
<1>6. Flat(J, k) = Flat(ss, k + 1)
  <2>1. Flat(J, k - 1) = Flat(ss, k - 1)
    BY <1>1, <1>4, FlatSame
  <2>2. Flat(J, (k - 1) + 1) = Flat(J, k - 1) \o J[(k - 1) + 1]
    BY <1>1, <1>5, FlatMore
  <2>3. Flat(ss, (k - 1) + 1) = Flat(ss, k - 1) \o ss[(k - 1) + 1]
    BY <1>1, <1>5, FlatMore
  <2>4. Flat(ss, k + 1) = Flat(ss, k) \o ss[k + 1]
    BY <1>1, <1>5, FlatMore
  <2>5. Flat(ss, k - 1) \in Spelling
    BY <1>5, FlatSpells
  <2>6. Flat(ss, k - 1) \o (ss[k] \o ss[k + 1]) = (Flat(ss, k - 1) \o ss[k]) \o ss[k + 1]
    BY <1>5, <2>5, Associate
  <2>7. Flat(J, k) = Flat(ss, k - 1) \o (ss[k] \o ss[k + 1]) /\ Flat(ss, k) = Flat(ss, k - 1) \o ss[k]
    BY <1>1, <1>4, <2>1, <2>2, <2>3
  <2> QED BY <2>4, <2>6, <2>7, Zenon
<1>7. Spells(h, m)
  <2>1. \A j \in 1 .. m : h[j] = ss[k + 1 + j] /\ k + 1 + j \in 1 .. l
    BY <1>1
  <2> HIDE DEF h, m, l
  <2> QED BY <1>1, <1>2, <2>1 DEF Spells
<1>8. \A j \in 1 .. m : J[k + j] = h[j] /\ ss[(k + 1) + j] = h[j]
  <2> TAKE j \in 1 .. m
  <2>1. k + j \in k + 1 .. l - 1 /\ (k + j) + 1 = k + 1 + j /\ (k + 1) + j = k + 1 + j
    BY <1>1
  <2>2. h[j] = ss[k + 1 + j]
    OBVIOUS
  <2> HIDE DEF h
  <2> QED BY <1>4, <2>1, <2>2
<1> HIDE DEF h, m
<1>9. Flat(J, k + m) = Flat(J, k) \o Flat(h, m)
  BY <1>1, <1>5, <1>7, <1>8, FlatSplit
<1>10. Flat(ss, (k + 1) + m) = Flat(ss, k + 1) \o Flat(h, m)
  <2> DEFINE b == k + 1
  <2>1. b \in Nat /\ m \in Nat /\ Spells(ss, b) /\ \A j \in 1 .. m : ss[b + j] = h[j]
    BY <1>1, <1>5, <1>8
  <2> HIDE DEF b
  <2>2. Flat(ss, b + m) = Flat(ss, b) \o Flat(h, m)
    BY <1>7, <2>1, FlatSplit
  <2> QED BY <2>2 DEF b
<1> HIDE DEF l
<1>11. FlattenSeq(J) = FlattenSeq(ss)
  BY <1>1, <1>2, <1>3, <1>6, <1>9, <1>10
<1> QED BY <1>11 DEF J

-----------------------------------------------------------------------------
(* The bytes of a text.                                                    *)

\* The text up to b is the text up to a and what is between them.
LEMMA BytesJoin ==
  ASSUME text \in Seq(Chars), NEW a \in 0 .. Len(text), NEW b \in a .. Len(text)
  PROVE  BytesIn(a, b) \in Spelling /\ BytesIn(0, b) = BytesIn(0, a) \o BytesIn(a, b)
<1> DEFINE f == [j \in 1 .. b - 0 |-> BytesOf(text[0 + j])]
           g == [j \in 1 .. a - 0 |-> BytesOf(text[0 + j])]
           h == [j \in 1 .. b - a |-> BytesOf(text[a + j])]
           m == b - a
<1>1. /\ Len(text) \in Nat /\ a \in Nat /\ b \in Nat /\ m \in Nat /\ a + m = b /\ b - 0 = b /\ a - 0 = a
      /\ a <= b /\ b <= Len(text)
  OBVIOUS
<1>2. \A j \in 1 .. Len(text) : BytesOf(text[j]) \in Spelling
  <2> TAKE j \in 1 .. Len(text)
  <2>1. BytesOf(text[j]) \in Seq(Bytes)
    BY ModelsAssumption
  <2> QED BY <2>1, SeqMonotonic DEF Spelling
<1>3. f \in Seq(Spelling) /\ Len(f) = b
  <2>1. \A j \in 1 .. b - 0 : 0 + j \in 1 .. Len(text)
    BY <1>1
  <2>2. \A j \in 1 .. b - 0 : BytesOf(text[0 + j]) \in Spelling
    BY <1>2, <2>1
  <2> QED BY <1>1, <2>2
<1>4. g \in Seq(Spelling) /\ Len(g) = a
  <2>1. \A j \in 1 .. a - 0 : 0 + j \in 1 .. Len(text)
    BY <1>1
  <2>2. \A j \in 1 .. a - 0 : BytesOf(text[0 + j]) \in Spelling
    BY <1>2, <2>1
  <2> QED BY <1>1, <2>2
<1>5. h \in Seq(Spelling) /\ Len(h) = m
  <2>1. \A j \in 1 .. b - a : a + j \in 1 .. Len(text)
    BY <1>1
  <2>2. \A j \in 1 .. b - a : BytesOf(text[a + j]) \in Spelling
    BY <1>2, <2>1
  <2> QED BY <1>1, <2>2
<1>6. \A j \in 1 .. a : f[j] = g[j]
  <2>1. \A j \in 1 .. a : j \in 1 .. b - 0 /\ j \in 1 .. a - 0
    BY <1>1
  <2> QED BY <2>1
<1>7. \A j \in 1 .. m : f[a + j] = h[j]
  <2>1. \A j \in 1 .. m : a + j \in 1 .. b - 0 /\ j \in 1 .. b - a /\ 0 + (a + j) = a + j
    BY <1>1
  <2> QED BY <2>1
<1>8. BytesIn(0, b) = FlattenSeq(f) /\ BytesIn(0, a) = FlattenSeq(g) /\ BytesIn(a, b) = FlattenSeq(h)
  BY DEF BytesIn
<1> HIDE DEF f, g, h, m
<1>9. /\ Spells(f, b) /\ FlattenSeq(f) = Flat(f, b)
      /\ Spells(g, a) /\ FlattenSeq(g) = Flat(g, a)
      /\ Spells(h, m) /\ FlattenSeq(h) = Flat(h, m)
  BY <1>3, <1>4, <1>5, FlatAll
<1>10. Spells(f, a) /\ Flat(f, a) = Flat(g, a)
  <2>1. \A j \in 1 .. a : j \in 1 .. b
    BY <1>1
  <2>2. Spells(f, a)
    BY <1>1, <1>9, <2>1 DEF Spells
  <2> QED BY <1>1, <1>6, <2>2, FlatSame
<1>11. Flat(f, a + m) = Flat(f, a) \o Flat(h, m)
  <2>1. a \in Nat /\ m \in Nat /\ Spells(f, a) /\ Spells(h, m)
    BY <1>1, <1>9, <1>10
  <2> QED BY <1>7, <2>1, FlatSplit
<1>12. Flat(h, m) \in Spelling
  BY <1>9, FlatSpells
<1> QED BY <1>1, <1>8, <1>9, <1>10, <1>11, <1>12

\* Spell spells a piece in bytes.
LEMMA SpellIs ==
  ASSUME NEW k, BytesIn(out[k].from, out[k].to) \in Spelling
  PROVE  /\ Spell(k) \in Seq(Spelling) /\ FlattenSeq(Spell(k)) = BytesIn(out[k].from, out[k].to)
         /\ \A j \in 1 .. Len(Spell(k)) : Symbol(Spell(k)[j])
<1> DEFINE b == BytesIn(out[k].from, out[k].to)
           f == [j \in 1 .. Len(b) |-> <<b[j]>>]
<1>1. Spell(k) = f
  BY DEF Spell
<1> HIDE DEF b
<1>2. b \in Spelling
  BY DEF b
<1>3. Len(b) \in Nat /\ \A j \in 1 .. Len(b) : b[j] \in Bytes \cup {Nul} /\ <<b[j]>> \in Spelling
  BY <1>2 DEF Spelling
<1>4. Spells(f, Len(b)) /\ Flat(f, Len(b)) = b
  BY <1>2, FlatBytes
<1>5. f \in Seq(Spelling) /\ Len(f) = Len(b)
  BY <1>3
<1>6. \A j \in 1 .. Len(b) : f[j] = <<b[j]>>
  OBVIOUS
<1> HIDE DEF f
<1>7. FlattenSeq(f) = b
  BY <1>4, <1>5, FlatAll
<1>8. \A j \in 1 .. Len(f) : Symbol(f[j])
  BY <1>3, <1>5, <1>6 DEF Symbol
<1> QED BY <1>1, <1>5, <1>7, <1>8 DEF b

-----------------------------------------------------------------------------
(* The invariant of Encode.                                                *)

Stage ==
  /\ pc \in {"cut", "bpe"} /\ done \in 0 .. Len(out)
  /\ pc = "bpe" => i >= Len(text) /\ done < Len(out)
  /\ done > 0 => i >= Len(text)

Symbols ==
  pc = "bpe" =>
    /\ syms \in Seq(Spelling)
    /\ \A k \in 1 .. Len(syms) : Symbol(syms[k])
    /\ FlattenSeq(syms) = BytesIn(out[done + 1].from, out[done + 1].to)

\* The end of the pieces looked up.
DoneTo == IF done = 0 THEN 0 ELSE out[done].to

Encoded ==
  /\ ids \in Seq(0 .. Len(tokens) - 1) /\ \A k \in 1 .. Len(ids) : ids[k] \notin control
  /\ Spells([k \in 1 .. Len(ids) |-> Decode(ids[k])], Len(ids))
  /\ Flat([k \in 1 .. Len(ids) |-> Decode(ids[k])], Len(ids)) = BytesIn(0, DoneTo)

EncInv == Cutting /\ Vocabulary /\ Stage /\ Symbols /\ Encoded

\* Where the pieces start and end.
LEMMA Ends ==
  ASSUME Cutting, NEW k \in 1 .. Len(out)
  PROVE  /\ out[k].from \in 0 .. Len(text) /\ out[k].to \in out[k].from .. Len(text)
         /\ out[k].from = IF k = 1 THEN 0 ELSE out[k - 1].to
<1>1. Len(text) \in Nat /\ Len(out) \in Nat /\ out[k] \in [from : Nat, to : Nat]
  <2> DEFINE P == [from : Nat, to : Nat]
  <2>1. out \in Seq(P) /\ text \in Seq(Chars)
    BY DEF Cutting
  <2> HIDE DEF P
  <2>2. out[k] \in P /\ Len(text) \in Nat /\ Len(out) \in Nat
    BY <2>1, ElementOfSeq
  <2> QED BY <2>2 DEF P
<1>2. out[k].from \in Nat /\ out[k].to \in Nat
  BY <1>1
<1> QED BY <1>1, <1>2 DEF Cutting

\* No bytes before the first character.
LEMMA NothingIn == text \in Seq(Chars) => BytesIn(0, 0) = <<>>
<1> SUFFICES ASSUME text \in Seq(Chars) PROVE BytesIn(0, 0) = <<>>
  OBVIOUS
<1> DEFINE g == [j \in 1 .. 0 - 0 |-> BytesOf(text[0 + j])]
<1>1. g = <<>> /\ Len(g) = 0
  OBVIOUS
<1> QED BY <1>1 DEF BytesIn, FlattenSeq

\* EncInv holds before the first piece.
LEMMA InitEnc == EncInit => EncInv
<1> SUFFICES ASSUME EncInit PROVE EncInv
  OBVIOUS
<1>1. Cutting /\ Vocabulary
  BY InitCutting, InitVocabulary
<1>2. pc = "cut" /\ done = 0 /\ ids = <<>> /\ out = <<>> /\ Len(ids) = 0 /\ Len(out) = 0
  BY DEF EncInit, Init
<1>3. Stage /\ Symbols
  BY <1>2 DEF Stage, Symbols
<1>4. Encoded
  <2> DEFINE g == [k \in 1 .. Len(ids) |-> Decode(ids[k])]
  <2>1. ids \in Seq(0 .. Len(tokens) - 1)
    BY <1>2
  <2>2. Spells(g, 0)
    BY DEF Spells
  <2> HIDE DEF g
  <2>3. Flat(g, 0) = BytesIn(0, DoneTo)
    BY <1>1, <1>2, FlatNone, NothingIn DEF DoneTo, Cutting
  <2> QED BY <1>2, <2>1, <2>2, <2>3 DEF Encoded, g
<1> QED BY <1>1, <1>3, <1>4 DEF EncInv

\* q are ids of tokens that decode to the text up to n.
Coded(q, n) ==
  /\ q \in Seq(0 .. Len(tokens) - 1) /\ \A k \in 1 .. Len(q) : q[k] \notin control
  /\ Spells([k \in 1 .. Len(q) |-> Decode(q[k])], Len(q))
  /\ Flat([k \in 1 .. Len(q) |-> Decode(q[k])], Len(q)) = BytesIn(0, n)

\* What Encoded says of the ids so far.
LEMMA EncodedIs == Encoded <=> Coded(ids, DoneTo)
  BY DEF Encoded, Coded

\* The ids of the symbols of a piece continue those of the pieces before it.
LEMMA MoreCoded ==
  ASSUME Vocabulary, text \in Seq(Chars), NEW q, NEW a \in 0 .. Len(text), NEW b \in a .. Len(text), Coded(q, a),
         NEW ss \in Seq(Spelling), \A k \in 1 .. Len(ss) : Symbol(ss[k]), FlattenSeq(ss) = BytesIn(a, b)
  PROVE  Coded(q \o [k \in 1 .. Len(ss) |-> Lookup(ss[k])], b)
<1> DEFINE T == 0 .. Len(tokens) - 1
           more == [k \in 1 .. Len(ss) |-> Lookup(ss[k])]
           all == q \o more
           n == Len(q)
           m == Len(ss)
           f == [k \in 1 .. Len(all) |-> Decode(all[k])]
           g == [k \in 1 .. n |-> Decode(q[k])]
<1>1. \A k \in 1 .. m : Lookup(ss[k]) \in T /\ Lookup(ss[k]) \notin control /\ Decode(Lookup(ss[k])) = ss[k]
  BY Looked
<1>2. more \in Seq(T) /\ Len(more) = m /\ m \in Nat /\ \A k \in 1 .. m : more[k] = Lookup(ss[k])
  <2> HIDE DEF T
  <2> QED BY <1>1
<1>3. q \in Seq(T) /\ n \in Nat /\ Spells(g, n) /\ Flat(g, n) = BytesIn(0, a) /\ \A k \in 1 .. n : q[k] \notin control
  BY DEF Coded
<1> HIDE DEF T, more
<1>4. all \in Seq(T) /\ Len(all) = n + m /\ \A j \in 1 .. n + m : all[j] = IF j <= n THEN q[j] ELSE more[j - n]
  <2> HIDE DEF f, g
  <2>1. /\ all \in Seq(T) /\ Len(all) = Len(q) + Len(more)
        /\ \A j \in 1 .. Len(q) + Len(more) : all[j] = IF j <= Len(q) THEN q[j] ELSE more[j - Len(q)]
    BY <1>2, <1>3, ConcatProperties
  <2> QED BY <1>2, <2>1
<1>5. \A j \in 1 .. n : j \in 1 .. n + m /\ all[j] = q[j]
  BY <1>2, <1>3, <1>4
<1>6. \A j \in 1 .. m : n + j \in 1 .. n + m /\ all[n + j] = more[j]
  <2> TAKE j \in 1 .. m
  <2>1. n + j \in 1 .. n + m /\ ~(n + j <= n) /\ (n + j) - n = j
    BY <1>2, <1>3
  <2> QED BY <1>4, <2>1
<1> HIDE DEF all
<1>7. \A j \in 1 .. n : f[j] = g[j]
  <2>1. \A j \in 1 .. n : j \in 1 .. Len(all)
    BY <1>4, <1>5
  <2> HIDE DEF n
  <2> QED BY <1>5, <2>1
<1>8. \A j \in 1 .. m : f[n + j] = ss[j]
  <2> TAKE j \in 1 .. m
  <2>1. n + j \in 1 .. Len(all) /\ all[n + j] = Lookup(ss[j])
    BY <1>2, <1>4, <1>6
  <2>2. f[n + j] = Decode(all[n + j])
    BY <2>1
  <2> QED BY <1>1, <2>1, <2>2
<1> HIDE DEF f, g
<1>9. Spells(ss, m) /\ FlattenSeq(ss) = Flat(ss, m)
  BY FlatAll
<1>10. Spells(f, n) /\ Flat(f, n) = BytesIn(0, a)
  <2>1. Spells(f, n)
    BY <1>3, <1>7 DEF Spells
  <2> QED BY <1>3, <1>7, <2>1, FlatSame
<1> HIDE DEF n, m
<1>11. Spells(f, n + m) /\ Flat(f, n + m) = Flat(f, n) \o Flat(ss, m)
  <2>1. n \in Nat /\ m \in Nat /\ Spells(f, n) /\ Spells(ss, m)
    BY <1>2, <1>3, <1>9, <1>10
  <2> QED BY <1>8, <2>1, FlatSplit
<1>12. Flat(f, n + m) = BytesIn(0, b)
  BY <1>9, <1>10, <1>11, BytesJoin
<1>13. \A k \in 1 .. Len(all) : all[k] \notin control
  <2> SUFFICES ASSUME NEW k \in 1 .. n + m PROVE all[k] \notin control
    BY <1>4
  <2>1. CASE k \in 1 .. n
    BY <1>3, <1>5, <2>1
  <2>2. CASE k \notin 1 .. n
    <3>1. k - n \in 1 .. m /\ n + (k - n) = k
      BY <1>2, <1>3, <2>2
    <3>2. all[k] = Lookup(ss[k - n])
      BY <1>2, <1>6, <3>1
    <3> QED BY <1>1, <3>1, <3>2
  <2> QED BY <2>1, <2>2
<1>14. Coded(all, b)
  <2>1. Spells(f, Len(all)) /\ Flat(f, Len(all)) = BytesIn(0, b)
    BY <1>4, <1>11, <1>12
  <2> QED BY <1>4, <1>13, <2>1 DEF Coded, T, f
<1> QED BY <1>14 DEF all, more

\* What the steps take from EncInv.
LEMMA EncInvHolds ==
  EncInv => /\ text \in Seq(Chars) /\ Len(text) \in Nat /\ Len(out) \in Nat
            /\ DoneTo \in 0 .. Len(text)
            /\ \A k \in 1 .. Len(out) : BytesIn(out[k].from, out[k].to) \in Spelling
<1> SUFFICES ASSUME EncInv PROVE /\ text \in Seq(Chars) /\ Len(text) \in Nat /\ Len(out) \in Nat
            /\ DoneTo \in 0 .. Len(text)
            /\ \A k \in 1 .. Len(out) : BytesIn(out[k].from, out[k].to) \in Spelling
  OBVIOUS
<1>1. text \in Seq(Chars) /\ Len(text) \in Nat /\ Len(out) \in Nat
  <2>1. text \in Seq(Chars) /\ out \in Seq([from : Nat, to : Nat])
    BY DEF EncInv, Cutting
  <2> QED BY <2>1
<1>2. \A k \in 1 .. Len(out) : BytesIn(out[k].from, out[k].to) \in Spelling
  BY <1>1, Ends, BytesJoin DEF EncInv
<1>3. DoneTo \in 0 .. Len(text)
  <2>1. done \in 0 .. Len(out)
    BY DEF EncInv, Stage
  <2>2. done # 0 => done \in 1 .. Len(out)
    BY <1>1, <2>1
  <2>3. done # 0 => out[done].to \in 0 .. Len(text)
    <3> SUFFICES ASSUME done # 0 PROVE out[done].to \in 0 .. Len(text)
      OBVIOUS
    <3>1. out[done].from \in 0 .. Len(text) /\ out[done].to \in out[done].from .. Len(text)
      BY <2>2, Ends DEF EncInv
    <3> QED BY <1>1, <3>1
  <2> QED BY <1>1, <2>3 DEF DoneTo
<1> QED BY <1>1, <1>2, <1>3

\* The vocabulary never changes.
LEMMA SameVocabulary == Vocabulary /\ UNCHANGED <<merges, tokens, control>> => Vocabulary'
  BY DEF Vocabulary, IsToken, Product

\* PreTokenize runs before any piece is looked up.
LEMMA StepCutNext == EncInv /\ CutNext => (Stage /\ Symbols /\ Encoded)'
<1> SUFFICES ASSUME EncInv, CutNext PROVE (Stage /\ Symbols /\ Encoded)'
  OBVIOUS
<1>1. pc = "cut" /\ Cut /\ UNCHANGED encVars /\ i < Len(text) /\ UNCHANGED text
  BY DEF CutNext, Cut
<1>2. done = 0
  BY <1>1, EncInvHolds DEF EncInv, Stage, Cutting
<1>3. Len(out') \in Nat
  <2>1. Cutting'
    BY <1>1, CutCutting DEF EncInv
  <2>2. out' \in Seq([from : Nat, to : Nat])
    BY <2>1 DEF Cutting
  <2> QED BY <2>2
<1>4. Stage' /\ Symbols'
  BY <1>1, <1>2, <1>3 DEF Stage, Symbols, encVars
<1>5. DoneTo' = DoneTo
  BY <1>1, <1>2 DEF DoneTo, encVars
<1>6. Encoded'
  BY <1>1, <1>5 DEF EncInv, Encoded, Decode, BytesIn, encVars
<1> QED BY <1>4, <1>6

\* The next piece is spelled in bytes.
LEMMA StepNextPiece == EncInv /\ NextPiece => (Stage /\ Symbols /\ Encoded)'
<1> SUFFICES ASSUME EncInv, NextPiece PROVE (Stage /\ Symbols /\ Encoded)'
  OBVIOUS
<1>1. /\ pc = "cut" /\ i >= Len(text) /\ done < Len(out) /\ pc' = "bpe" /\ syms' = Spell(done + 1)
      /\ UNCHANGED <<text, i, out, merges, tokens, control, done, ids>>
  BY DEF NextPiece, vars
<1>2. done + 1 \in 1 .. Len(out)
  BY <1>1, EncInvHolds DEF EncInv, Stage
<1>3. /\ Spell(done + 1) \in Seq(Spelling) /\ \A j \in 1 .. Len(Spell(done + 1)) : Symbol(Spell(done + 1)[j])
      /\ FlattenSeq(Spell(done + 1)) = BytesIn(out[done + 1].from, out[done + 1].to)
  BY <1>2, EncInvHolds, SpellIs
<1>4. Stage'
  BY <1>1 DEF EncInv, Stage
<1>5. Symbols'
  BY <1>1, <1>3 DEF Symbols, Symbol, Product, BytesIn
<1>6. Encoded'
  BY <1>1 DEF EncInv, Encoded, Decode, BytesIn, DoneTo
<1> QED BY <1>4, <1>5, <1>6

\* A merge makes a symbol of two and loses no byte.
LEMMA StepMergeBest == EncInv /\ MergeBest => (Stage /\ Symbols /\ Encoded)'
<1> SUFFICES ASSUME EncInv, MergeBest PROVE (Stage /\ Symbols /\ Encoded)'
  OBVIOUS
<1> DEFINE b == Best(syms)
           J == Join(syms, b)
<1>1. /\ pc = "bpe" /\ Ranked(syms) # {} /\ syms' = J
      /\ UNCHANGED <<text, i, out, merges, tokens, control, pc, done, ids>>
  BY DEF MergeBest, vars
<1>2. /\ syms \in Seq(Spelling) /\ Len(syms) \in Nat /\ \A k \in 1 .. Len(syms) : Symbol(syms[k])
      /\ FlattenSeq(syms) = BytesIn(out[done + 1].from, out[done + 1].to)
  <2>1. /\ syms \in Seq(Spelling) /\ \A k \in 1 .. Len(syms) : Symbol(syms[k])
        /\ FlattenSeq(syms) = BytesIn(out[done + 1].from, out[done + 1].to)
    BY <1>1 DEF EncInv, Symbols
  <2> QED BY <2>1
<1>3. b \in Ranked(syms) /\ b \in 1 .. Len(syms) - 1
  BY <1>1, <1>2, BestIs DEF EncInv
<1>4. PICK r \in 1 .. Len(merges) : merges[r] = <<syms[b], syms[b + 1]>>
  <2>1. Places(syms[b], syms[b + 1]) # {}
    BY <1>3 DEF Ranked
  <2> QED BY <2>1, RankIs DEF EncInv
<1> HIDE DEF b
<1>5. Product(r) = syms[b] \o syms[b + 1]
  <2>1. merges[r][1] = syms[b] /\ merges[r][2] = syms[b + 1]
    BY <1>4
  <2> QED BY <2>1, Zenon DEF Product
<1>6. /\ J \in Seq(Spelling) /\ Len(J) = Len(syms) - 1 /\ \A j \in 1 .. b - 1 : J[j] = syms[j]
      /\ J[b] = syms[b] \o syms[b + 1]
      /\ \A j \in b + 1 .. Len(syms) - 1 : J[j] = syms[j + 1]
  <2>1. J \in Seq(Spelling) /\ Len(J) = Len(syms) - 1
    BY <1>2, <1>3, JoinIs
  <2>2. /\ \A j \in 1 .. b - 1 : J[j] = syms[j]
        /\ J[b] = syms[b] \o syms[b + 1]
        /\ \A j \in b + 1 .. Len(syms) - 1 : J[j] = syms[j + 1]
    BY <1>2, <1>3, JoinIs
  <2> QED BY <2>1, <2>2
<1>7. FlattenSeq(J) = FlattenSeq(syms)
  BY <1>2, <1>3, JoinFlat
<1> HIDE DEF J
<1>8. ASSUME NEW k \in 1 .. Len(J) PROVE Symbol(J[k])
  <2>1. k \in 1 .. b - 1 \/ k = b \/ k \in b + 1 .. Len(syms) - 1
    BY <1>2, <1>3, <1>6
  <2>2. CASE k \in 1 .. b - 1
    <3>1. J[k] = syms[k] /\ k \in 1 .. Len(syms)
      BY <1>2, <1>3, <1>6, <2>2
    <3> QED BY <1>2, <3>1
  <2>3. CASE k = b
    BY <1>5, <1>6, <2>3 DEF Symbol
  <2>4. CASE k \in b + 1 .. Len(syms) - 1
    <3>1. J[k] = syms[k + 1] /\ k + 1 \in 1 .. Len(syms)
      BY <1>2, <1>3, <1>6, <2>4
    <3> QED BY <1>2, <3>1
  <2> QED BY <2>1, <2>2, <2>3, <2>4
<1>9. Symbols'
  BY <1>1, <1>2, <1>6, <1>7, <1>8 DEF Symbols, Symbol, Product, BytesIn
<1>10. Stage'
  BY <1>1 DEF EncInv, Stage
<1>11. Encoded'
  BY <1>1 DEF EncInv, Encoded, Decode, BytesIn, DoneTo
<1> QED BY <1>9, <1>10, <1>11

\* The symbols of a piece are looked up.
LEMMA StepEmit == EncInv /\ Emit => (Stage /\ Symbols /\ Encoded)'
<1> SUFFICES ASSUME EncInv, Emit PROVE (Stage /\ Symbols /\ Encoded)'
  OBVIOUS
<1> DEFINE all == ids \o [k \in 1 .. Len(syms) |-> Lookup(syms[k])]
<1>1. /\ pc = "bpe" /\ ids' = all /\ pc' = "cut" /\ done' = done + 1
      /\ UNCHANGED <<text, i, out, merges, tokens, control>>
  BY DEF Emit, vars
<1>2. /\ syms \in Seq(Spelling) /\ \A k \in 1 .. Len(syms) : Symbol(syms[k])
      /\ FlattenSeq(syms) = BytesIn(out[done + 1].from, out[done + 1].to)
  BY <1>1 DEF EncInv, Symbols
<1>3. done + 1 \in 1 .. Len(out) /\ done \in Nat /\ i >= Len(text)
  BY <1>1, EncInvHolds DEF EncInv, Stage
<1>4. /\ out[done + 1].from = DoneTo /\ DoneTo \in 0 .. Len(text)
      /\ out[done + 1].to \in DoneTo .. Len(text)
  <2>1. /\ out[done + 1].to \in out[done + 1].from .. Len(text)
        /\ out[done + 1].from = IF done + 1 = 1 THEN 0 ELSE out[done + 1 - 1].to
    BY <1>3, Ends DEF EncInv
  <2>2. (done + 1 = 1 <=> done = 0) /\ done + 1 - 1 = done
    BY <1>3
  <2>3. out[done + 1].from = DoneTo
    BY <2>1, <2>2 DEF DoneTo
  <2> QED BY <2>1, <2>3, EncInvHolds
<1>5. Coded(ids, DoneTo)
  BY EncodedIs DEF EncInv
<1>6. FlattenSeq(syms) = BytesIn(DoneTo, out[done + 1].to)
  BY <1>2, <1>4
<1> DEFINE a == DoneTo
           e == out[done + 1].to
<1>7. Coded(all, e)
  <2>1. a \in 0 .. Len(text) /\ e \in a .. Len(text) /\ Coded(ids, a) /\ FlattenSeq(syms) = BytesIn(a, e)
    BY <1>4, <1>5, <1>6
  <2>2. Vocabulary /\ text \in Seq(Chars)
    BY EncInvHolds DEF EncInv
  <2> HIDE DEF a, e
  <2> QED BY <1>2, <2>1, <2>2, MoreCoded
<1>8. DoneTo' = e
  <2>1. done' # 0
    BY <1>1, <1>3
  <2> QED BY <1>1, <2>1 DEF DoneTo
<1> HIDE DEF all, e
<1>9. Encoded'
  BY <1>1, <1>7, <1>8 DEF Encoded, Coded, Decode, BytesIn
<1>10. Stage' /\ Symbols'
  BY <1>1, <1>3, EncInvHolds DEF Stage, Symbols
<1> QED BY <1>9, <1>10

\* Every step keeps EncInv.
LEMMA NextEnc == EncInv /\ [EncNext]_allVars => EncInv'
<1> SUFFICES ASSUME EncInv, [EncNext]_allVars PROVE EncInv'
  OBVIOUS
<1>1. Cutting'
  BY NextCutting DEF EncInv
<1>2. Vocabulary'
  <2>1. UNCHANGED <<merges, tokens, control>>
    BY DEF EncNext, CutNext, NextPiece, MergeBest, Emit, allVars, encVars
  <2> QED BY <2>1, SameVocabulary DEF EncInv
<1>3. CASE UNCHANGED allVars
  <2>1. UNCHANGED <<text, i, out, merges, tokens, control, pc, syms, done, ids>>
    BY <1>3 DEF allVars, vars, encVars
  <2>2. Stage' /\ Symbols' /\ Encoded'
    BY <2>1 DEF EncInv, Stage, Symbols, Symbol, Product, Encoded, Decode, BytesIn, DoneTo
  <2> QED BY <1>1, <1>2, <2>2 DEF EncInv
<1>4. CASE EncNext
  <2>1. (Stage /\ Symbols /\ Encoded)'
    BY <1>4, StepCutNext, StepNextPiece, StepMergeBest, StepEmit DEF EncNext
  <2> QED BY <1>1, <1>2, <2>1 DEF EncInv
<1> QED BY <1>3, <1>4

\* EncInv is an invariant.
LEMMA SpecEnc == EncSpec => []EncInv
  BY InitEnc, NextEnc, PTL DEF EncSpec

\* What Encode returns decodes to the bytes of the text, whatever the merges
\* made of it, and no symbol is lost on the way.
THEOREM AlwaysRoundTrip == EncSpec => []RoundTrip
<1>1. EncInv => RoundTrip
  <2> SUFFICES ASSUME EncInv PROVE RoundTrip
    OBVIOUS
  <2>1. pc = "bpe" => FlattenSeq(syms) = BytesIn(out[done + 1].from, out[done + 1].to)
    BY DEF EncInv, Symbols
  <2> DEFINE g == [k \in 1 .. Len(ids) |-> Decode(ids[k])]
             n == Len(ids)
  <2>2. Spells(g, n) /\ Flat(g, n) = BytesIn(0, DoneTo) /\ n \in Nat
    BY DEF EncInv, Encoded
  <2>3. g = [k \in 1 .. n |-> g[k]]
    OBVIOUS
  <2>4. FlattenSeq(g) = Flat(g, n)
    <3> HIDE DEF g
    <3> QED BY <2>3 DEF Flat
  <2>5. BytesIn(0, DoneTo) = IF done = 0 THEN <<>> ELSE BytesIn(0, out[done].to)
    BY NothingIn, EncInvHolds DEF DoneTo
  <2> QED BY <2>1, <2>2, <2>4, <2>5 DEF RoundTrip
<1> QED BY <1>1, SpecEnc, PTL

\* No id that Encode returns is a control token's, whatever the text says.
THEOREM AlwaysNoControl == EncSpec => []NoControl
<1>1. EncInv => NoControl
  <2> SUFFICES ASSUME EncInv PROVE NoControl
    OBVIOUS
  <2>1. ids \in Seq(0 .. Len(tokens) - 1) /\ \A k \in 1 .. Len(ids) : ids[k] \notin control
    BY DEF EncInv, Encoded
  <2>2. DOMAIN ids = 1 .. Len(ids)
    BY <2>1
  <2> QED BY <2>1, <2>2 DEF NoControl
<1> QED BY <1>1, SpecEnc, PTL

-----------------------------------------------------------------------------
(* Trained merges: a table in which every part was made before it is used. *)

\* The parts of a merge are not empty and no two merges make one symbol.
LEMMA TrainedIs ==
  ASSUME Vocabulary, Trained
  PROVE  \A k \in 1 .. Len(merges) :
           /\ merges[k][1] \in Spelling /\ merges[k][2] \in Spelling
           /\ merges[k] = <<merges[k][1], merges[k][2]>>
           /\ Len(merges[k][1]) \in Nat \ {0} /\ Len(merges[k][2]) \in Nat \ {0}
           /\ Len(Product(k)) = Len(merges[k][1]) + Len(merges[k][2])
<1> DEFINE S == {k \in 1 .. Len(merges) : Len(Product(k)) < 2}
<1>1. Len(merges) \in Nat /\ DOMAIN merges = 1 .. Len(merges) /\ \A k \in 1 .. Len(merges) : merges[k] \in Spelling \X Spelling
  BY DEF Vocabulary
<1>2. \A k \in 1 .. Len(merges) : /\ merges[k][1] \in Spelling /\ merges[k][2] \in Spelling
                                  /\ merges[k] = <<merges[k][1], merges[k][2]>>
  BY <1>1
<1>3. \A x, y \in Spelling : Len(x) \in Nat /\ Len(y) \in Nat /\ Len(x \o y) = Len(x) + Len(y)
  BY ConcatProperties DEF Spelling
<1>4. \A k \in 1 .. Len(merges) :
        /\ Len(merges[k][1]) \in Nat /\ Len(merges[k][2]) \in Nat
        /\ Len(Product(k)) = Len(merges[k][1]) + Len(merges[k][2])
  BY <1>2, <1>3 DEF Product
<1>5. \A k \in 1 .. Len(merges) : /\ Len(merges[k][1]) = 1 \/ \E j \in 1 .. k - 1 : merges[k][1] = Product(j)
                                  /\ Len(merges[k][2]) = 1 \/ \E j \in 1 .. k - 1 : merges[k][2] = Product(j)
  BY <1>1 DEF Trained
<1>6. ASSUME NEW k \in 1 .. Len(merges), \A j \in 1 .. k - 1 : j \notin S
      PROVE  Len(merges[k][1]) \in Nat \ {0} /\ Len(merges[k][2]) \in Nat \ {0}
  <2>1. \A j \in 1 .. k - 1 : Len(Product(j)) # 0
    <3> TAKE j \in 1 .. k - 1
    <3>1. j \in 1 .. Len(merges)
      BY <1>1
    <3>2. Len(Product(j)) \in Nat /\ ~(Len(Product(j)) < 2)
      BY <1>4, <1>6, <3>1
    <3> QED BY <3>2
  <2>2. Len(merges[k][1]) # 0
    <3>1. CASE Len(merges[k][1]) = 1
      BY <3>1
    <3>2. CASE \E j \in 1 .. k - 1 : merges[k][1] = Product(j)
      BY <2>1, <3>2, Zenon
    <3> QED BY <1>5, <3>1, <3>2
  <2>3. Len(merges[k][2]) # 0
    <3>1. CASE Len(merges[k][2]) = 1
      BY <3>1
    <3>2. CASE \E j \in 1 .. k - 1 : merges[k][2] = Product(j)
      BY <2>1, <3>2, Zenon
    <3> QED BY <1>5, <3>1, <3>2
  <2> QED BY <1>4, <2>2, <2>3
<1>7. S = {}
  <2> SUFFICES ASSUME S # {} PROVE FALSE
    OBVIOUS
  <2>1. S \subseteq Nat
    OBVIOUS
  <2> HIDE DEF S
  <2>2. PICK k \in S : \A j \in S : k <= j
    BY <2>1, Least
  <2>3. k \in 1 .. Len(merges) /\ Len(Product(k)) < 2
    BY DEF S
  <2>4. \A j \in 1 .. k - 1 : j \notin S
    BY <2>1, <2>2
  <2>5. Len(merges[k][1]) \in Nat \ {0} /\ Len(merges[k][2]) \in Nat \ {0}
    BY <1>6, <2>3, <2>4
  <2>6. Len(Product(k)) = Len(merges[k][1]) + Len(merges[k][2])
    BY <1>4, <2>3
  <2>7. \A x, y \in Nat \ {0} : ~(x + y < 2)
    OBVIOUS
  <2>8. ~(Len(Product(k)) < 2)
    BY <2>5, <2>6, <2>7, Zenon
  <2> QED BY <2>3, <2>8
<1> HIDE DEF S
<1>8. \A k \in 1 .. Len(merges) : Len(merges[k][1]) \in Nat \ {0} /\ Len(merges[k][2]) \in Nat \ {0}
  BY <1>6, <1>7
<1> QED BY <1>2, <1>4, <1>8

\* A merge is known by what it makes.
LEMMA OneProduct ==
  ASSUME Vocabulary, Trained, NEW j \in 1 .. Len(merges), NEW k \in 1 .. Len(merges), Product(j) = Product(k)
  PROVE  j = k
<1>1. Len(merges) \in Nat /\ DOMAIN merges = 1 .. Len(merges)
  BY DEF Vocabulary
<1>2. \A a \in 1 .. Len(merges) : \A c \in 1 .. a - 1 : Product(c) # Product(a)
  BY <1>1 DEF Trained
<1>3. j < k => j \in 1 .. k - 1
  OBVIOUS
<1>4. k < j => k \in 1 .. j - 1
  OBVIOUS
<1> QED BY <1>1, <1>2, <1>3, <1>4

\* A pair that is merged has one rank, its only place.
LEMMA OneRank ==
  ASSUME Vocabulary, Trained, NEW a, NEW b, NEW k \in 1 .. Len(merges), merges[k] = <<a, b>>
  PROVE  Places(a, b) # {} /\ RankOf(a, b) = k
<1>1. DOMAIN merges = 1 .. Len(merges)
  BY DEF Vocabulary
<1>2. Places(a, b) # {}
  BY <1>1 DEF Places
<1>3. RankOf(a, b) \in 1 .. Len(merges) /\ merges[RankOf(a, b)] = <<a, b>>
  BY <1>2, RankIs
<1>4. merges[RankOf(a, b)] = merges[k]
  BY <1>3
<1>5. Product(RankOf(a, b)) = Product(k)
  BY <1>4 DEF Product
<1> QED BY <1>2, <1>3, <1>5, OneProduct

\* A merge whose left or right part is what merge r makes was learned after r.
LEMMA Later ==
  ASSUME Vocabulary, Trained, NEW p \in 1 .. Len(merges), NEW r \in 1 .. Len(merges),
         merges[p][1] = Product(r) \/ merges[p][2] = Product(r)
  PROVE  r < p
<1>1. Len(merges) \in Nat /\ DOMAIN merges = 1 .. Len(merges)
  BY DEF Vocabulary
<1>2. Len(Product(r)) # 1
  <2>1. /\ Len(merges[r][1]) \in Nat \ {0} /\ Len(merges[r][2]) \in Nat \ {0}
        /\ Len(Product(r)) = Len(merges[r][1]) + Len(merges[r][2])
    BY TrainedIs
  <2>2. \A x, y \in Nat \ {0} : x + y # 1
    OBVIOUS
  <2> QED BY <2>1, <2>2, Zenon
<1>3. PICK part \in {1, 2} : merges[p][part] = Product(r)
  OBVIOUS
<1>4. \E j \in 1 .. p - 1 : merges[p][part] = Product(j)
  BY <1>1, <1>2, <1>3 DEF Trained
<1>5. PICK j \in 1 .. p - 1 : Product(r) = Product(j)
  BY <1>3, <1>4
<1>6. j \in 1 .. Len(merges)
  BY <1>1
<1>7. r = j
  BY <1>5, <1>6, OneProduct
<1> QED BY <1>1, <1>7

\* After the best merge no pair has a lower rank than it had.
LEMMA JoinRanks ==
  ASSUME Vocabulary, Trained, NEW ss \in Seq(Spelling), Ranked(ss) # {},
         NEW k \in Ranked(Join(ss, Best(ss)))
  PROVE  /\ Rank(Join(ss, Best(ss)), k) \in 1 .. Len(merges)
         /\ Rank(ss, Best(ss)) \in 1 .. Len(merges)
         /\ Rank(Join(ss, Best(ss)), k) >= Rank(ss, Best(ss))
<1> DEFINE b == Best(ss)
           J == Join(ss, b)
           r == Rank(ss, b)
           p == Rank(J, k)
<1>1. /\ Len(ss) \in Nat /\ b \in Ranked(ss) /\ b \in 1 .. Len(ss) - 1
      /\ \A j \in Ranked(ss) : Rank(ss, j) \in 1 .. Len(merges) /\ r <= Rank(ss, j)
  <2>1. /\ b \in Ranked(ss) /\ b \in 1 .. Len(ss) - 1
        /\ \A j \in Ranked(ss) : /\ Rank(ss, j) \in 1 .. Len(merges)
                                 /\ \/ r < Rank(ss, j)
                                    \/ r = Rank(ss, j) /\ b <= j
    BY BestIs
  <2> HIDE DEF b
  <2>2. r \in 1 .. Len(merges)
    BY <2>1
  <2> HIDE DEF r
  <2> QED BY <2>1, <2>2
<1>2. /\ Places(ss[b], ss[b + 1]) # {} /\ r \in 1 .. Len(merges)
      /\ merges[r] = <<ss[b], ss[b + 1]>>
  <2>1. Places(ss[b], ss[b + 1]) # {}
    BY <1>1 DEF Ranked
  <2> HIDE DEF b
  <2> QED BY <2>1, RankIs DEF Rank
<1> HIDE DEF b
<1>3. Product(r) = ss[b] \o ss[b + 1]
  <2> HIDE DEF r
  <2>1. merges[r][1] = ss[b] /\ merges[r][2] = ss[b + 1]
    BY <1>2
  <2> QED BY <2>1, Zenon DEF Product
<1>4. Len(J) = Len(ss) - 1
  BY <1>1, JoinIs
<1>5. /\ \A j \in 1 .. b - 1 : J[j] = ss[j]
      /\ J[b] = ss[b] \o ss[b + 1]
      /\ \A j \in b + 1 .. Len(ss) - 1 : J[j] = ss[j + 1]
  BY <1>1, JoinIs
<1>6. k \in Ranked(J)
  BY DEF b
<1> HIDE DEF J
<1>7. k \in 1 .. Len(ss) - 2 /\ Places(J[k], J[k + 1]) # {}
  BY <1>1, <1>4, <1>6 DEF Ranked
<1>8. p \in 1 .. Len(merges) /\ merges[p] = <<J[k], J[k + 1]>>
  BY <1>7, RankIs DEF Rank
<1>9. p >= r
  <2>1. CASE k + 1 < b
    <3>1. J[k] = ss[k] /\ J[k + 1] = ss[k + 1] /\ k \in 1 .. Len(ss) - 1
      BY <1>1, <1>5, <1>7, <2>1
    <3>2. k \in Ranked(ss)
      BY <1>7, <3>1 DEF Ranked
    <3>3. Rank(ss, k) = p
      BY <3>1 DEF Rank
    <3> QED BY <1>1, <1>8, <3>2, <3>3
  <2>2. CASE k + 1 = b
    <3>1. merges[p][2] = J[b]
      <4> HIDE DEF p, r
      <4> QED BY <1>8, <2>2
    <3>2. merges[p][2] = Product(r)
      BY <1>3, <1>5, <3>1, Zenon
    <3>3. r < p
      <4> HIDE DEF p, r
      <4> QED BY <1>2, <1>8, <3>2, Later
    <3> QED BY <1>2, <1>8, <3>3
  <2>3. CASE k = b
    <3>1. merges[p][1] = J[b]
      <4> HIDE DEF p, r
      <4> QED BY <1>8, <2>3
    <3>2. merges[p][1] = Product(r)
      BY <1>3, <1>5, <3>1, Zenon
    <3>3. r < p
      <4> HIDE DEF p, r
      <4> QED BY <1>2, <1>8, <3>2, Later
    <3> QED BY <1>2, <1>8, <3>3
  <2>4. CASE b < k
    <3>1. J[k] = ss[k + 1] /\ J[k + 1] = ss[(k + 1) + 1] /\ k + 1 \in 1 .. Len(ss) - 1
      <4>1. k \in b + 1 .. Len(ss) - 1 /\ k + 1 \in b + 1 .. Len(ss) - 1 /\ k + 1 \in 1 .. Len(ss) - 1
        BY <1>1, <1>7, <2>4
      <4> QED BY <1>5, <4>1
    <3>2. k + 1 \in Ranked(ss)
      BY <1>7, <3>1 DEF Ranked
    <3>3. Rank(ss, k + 1) = p
      BY <3>1 DEF Rank
    <3> QED BY <1>1, <1>8, <3>2, <3>3
  <2> QED BY <1>1, <1>7, <2>1, <2>2, <2>3, <2>4
<1>10. p \in 1 .. Len(merges) /\ r \in 1 .. Len(merges) /\ p >= r
  BY <1>2, <1>8, <1>9
<1> QED BY <1>10 DEF J, b

\* With the merges of a trained model, the ranks bpe uses on a piece never
\* fall: no merge makes way for one of a lower rank.
THEOREM AlwaysRise == EncSpec => RanksRise
<1> DEFINE A == pc = "bpe" /\ pc' = "bpe" /\ Trained /\ Ranked(syms) # {} /\ Ranked(syms') # {}
                  => Rank(syms', Best(syms')) >= Rank(syms, Best(syms))
<1>1. EncInv /\ [EncNext]_allVars => [A]_allVars
  <2> SUFFICES ASSUME EncInv, EncNext, pc = "bpe", pc' = "bpe", Trained, Ranked(syms) # {}, Ranked(syms') # {}
               PROVE  Rank(syms', Best(syms')) >= Rank(syms, Best(syms))
    OBVIOUS
  <2>1. MergeBest
    BY DEF EncNext, CutNext, NextPiece, Emit
  <2>2. syms' = Join(syms, Best(syms)) /\ UNCHANGED merges
    BY <2>1 DEF MergeBest
  <2>3. syms \in Seq(Spelling) /\ Vocabulary
    BY DEF EncInv, Symbols
  <2>4. Join(syms, Best(syms)) \in Seq(Spelling)
    <3>1. Best(syms) \in 1 .. Len(syms) - 1
      BY <2>3, BestIs
    <3> QED BY <2>3, <3>1, JoinIs
  <2>5. Best(syms') \in Ranked(syms')
    BY <2>2, <2>3, <2>4, BestIs
  <2> QED BY <2>2, <2>3, <2>5, JoinRanks
<1> QED BY <1>1, SpecEnc, PTL DEF EncSpec, RanksRise

-----------------------------------------------------------------------------
(* Every merge in the order learned.                                       *)

\* step[k] takes a value of T to a value of T.
Stays(step, n, T) == \A k \in 1 .. n : \A x \in T : step[k][x] \in T

\* F computes n values from f0, one step after the other.
Computed(F, step, n, T, f0) == F \in [0 .. n -> T] /\ F[0] = f0 /\ \A k \in 1 .. n : F[k] = step[k][F[k - 1]]

\* There is one.
LEMMA Computation ==
  ASSUME NEW T, NEW f0 \in T, NEW n \in Nat, NEW step, Stays(step, n, T)
  PROVE  \E F : Computed(F, step, n, T, f0)
<1> USE DEF Stays
<1> DEFINE Computes(F, m) == F \in [0 .. n -> T] /\ F[0] = f0 /\ \A k \in 1 .. m : F[k] = step[k][F[k - 1]]
           S == {m \in Nat : m <= n => \E F : Computes(F, m)}
<1>1. 0 \in S
  <2>1. Computes([k \in 0 .. n |-> f0], 0)
    OBVIOUS
  <2> HIDE DEF Computes
  <2> QED BY <2>1
<1>2. ASSUME NEW m \in Nat, m \in S PROVE m + 1 \in S
  <2> SUFFICES ASSUME m + 1 <= n PROVE \E F : Computes(F, m + 1)
    OBVIOUS
  <2>1. m <= n /\ m \in 0 .. n /\ m + 1 \in 1 .. n /\ (m + 1) - 1 = m
    OBVIOUS
  <2> HIDE DEF Computes
  <2>2. PICK F : Computes(F, m)
    BY <1>2, <2>1
  <2> USE DEF Computes
  <2> DEFINE x == step[m + 1][F[m]]
             G == [k \in 0 .. n |-> IF k = m + 1 THEN x ELSE F[k]]
  <2>3. F[m] \in T /\ x \in T
    BY <2>1, <2>2
  <2>4. G \in [0 .. n -> T] /\ G[0] = f0 /\ G[m + 1] = x /\ \A k \in 0 .. m : G[k] = F[k]
    <3> HIDE DEF x
    <3>1. G \in [0 .. n -> T]
      BY <2>2, <2>3
    <3>2. \A k \in 0 .. m : k \in 0 .. n /\ k # m + 1
      BY <2>1
    <3>3. \A k \in 0 .. m : G[k] = F[k]
      BY <3>2
    <3>4. 0 \in 0 .. m /\ m + 1 \in 0 .. n
      BY <2>1
    <3> QED BY <2>2, <3>1, <3>3, <3>4
  <2> HIDE DEF G
  <2>5. ASSUME NEW k \in 1 .. m + 1 PROVE G[k] = step[k][G[k - 1]]
    <3>1. CASE k = m + 1
      <4>1. G[k - 1] = F[m]
        <5>1. k - 1 = m /\ m \in 0 .. m
          BY <3>1
        <5> QED BY <2>4, <5>1
      <4> QED BY <2>4, <3>1, <4>1
    <3>2. CASE k # m + 1
      <4>1. k \in 1 .. m /\ k \in 0 .. m /\ k - 1 \in 0 .. m
        BY <3>2
      <4>2. F[k] = step[k][F[k - 1]]
        BY <2>2, <4>1
      <4> QED BY <2>4, <4>1, <4>2
    <3> QED BY <3>1, <3>2
  <2>6. Computes(G, m + 1)
    BY <2>4, <2>5
  <2> HIDE DEF Computes
  <2> QED BY <2>6
<1> HIDE DEF S
<1>3. n \in S
  BY <1>1, <1>2, InductionOnNat
<1>4. PICK F : Computes(F, n)
  <2> HIDE DEF Computes
  <2> QED BY <1>3 DEF S
<1>5. Computed(F, step, n, T, f0)
  BY <1>4 DEF Computed
<1> QED BY <1>5

Pair(p) == p \in Spelling \X Spelling /\ p[1] \in Spelling /\ p[2] \in Spelling

\* One step of MergeAll.
LEMMA MergeLastIs ==
  ASSUME NEW pair, Pair(pair), NEW acc \in Seq(Spelling), NEW s \in Spelling
  PROVE  MergeLast(pair, acc, s) \in Seq(Spelling)
<1>1. pair[1] \o pair[2] \in Spelling
  BY Associate DEF Pair
<1>2. Append(acc, s) \in Seq(Spelling)
  OBVIOUS
<1>3. ASSUME acc # <<>> PROVE Append(Front(acc), pair[1] \o pair[2]) \in Seq(Spelling)
  <2> DEFINE x == pair[1] \o pair[2]
  <2>1. Front(acc) \in Seq(Spelling)
    <3> DEFINE m == Len(acc) - 1
    <3>1. Len(acc) \in Nat /\ m \in Int /\ 1 \in Int /\ \A j \in 1 .. m : acc[j] \in Spelling
      OBVIOUS
    <3> HIDE DEF m
    <3>2. SubSeq(acc, 1, m) \in Seq(Spelling)
      BY <3>1, SubSeqProperties
    <3> QED BY <3>2 DEF Front, m
  <2>2. x \in Spelling
    BY <1>1
  <2> HIDE DEF x
  <2>3. Append(Front(acc), x) \in Seq(Spelling)
    BY <2>1, <2>2, AppendProperties
  <2> QED BY <2>3 DEF x
<1> QED BY <1>2, <1>3 DEF MergeLast

\* F is how MergeAll comes to its result.
Merging(pair, ss, F) ==
  /\ F \in [0 .. Len(ss) -> Seq(Spelling)] /\ F[0] = <<>>
  /\ \A n \in 1 .. Len(ss) : F[n] = MergeLast(pair, F[n - 1], ss[n])

\* There is such a function, and MergeAll is its last value.
LEMMA MergeAllIs ==
  ASSUME NEW pair, Pair(pair), NEW ss \in Seq(Spelling)
  PROVE  \E F : Merging(pair, ss, F) /\ MergeAll(pair, ss) = F[Len(ss)]
<1> DEFINE N == Len(ss)
           step == [n \in 1 .. N |-> [acc \in Seq(Spelling) |-> MergeLast(pair, acc, ss[n])]]
           Eqn(F) == F = [n \in 0 .. N |-> IF n = 0 THEN <<>> ELSE MergeLast(pair, F[n - 1], ss[n])]
           Q == CHOOSE F : Eqn(F)
<1>1. N \in Nat /\ \A n \in 1 .. N : ss[n] \in Spelling
  OBVIOUS
<1>2. MergeAll(pair, ss) = Q[N]
  BY DEF MergeAll
<1> HIDE DEF N
<1>3. \A n \in 1 .. N : \A acc \in Seq(Spelling) : step[n][acc] = MergeLast(pair, acc, ss[n]) /\ step[n][acc] \in Seq(Spelling)
  BY <1>1, MergeLastIs
<1> HIDE DEF step
<1>4. <<>> \in Seq(Spelling)
  BY EmptySeq
<1>5. PICK F \in [0 .. N -> Seq(Spelling)] : F[0] = <<>> /\ \A n \in 1 .. N : F[n] = step[n][F[n - 1]]
  <2> DEFINE T == Seq(Spelling)
             e == <<>>
  <2>1. N \in Nat /\ e \in T /\ Stays(step, N, T)
    BY <1>1, <1>3, <1>4 DEF Stays
  <2> HIDE DEF T, e
  <2>2. \E F : Computed(F, step, N, T, e)
    BY <2>1, Computation
  <2> QED BY <2>2 DEF T, e, Computed
<1>6. \A n \in 1 .. N : n - 1 \in 0 .. N /\ n # 0 /\ n \in 0 .. N
  BY <1>1
<1>7. \A n \in 1 .. N : F[n] = MergeLast(pair, F[n - 1], ss[n])
  BY <1>3, <1>5, <1>6
<1>8. \A n \in 0 .. N : F[n] = IF n = 0 THEN <<>> ELSE MergeLast(pair, F[n - 1], ss[n])
  <2>1. \A n \in 0 .. N : n # 0 => n \in 1 .. N
    BY <1>1
  <2> QED BY <1>5, <1>7, <2>1, Zenon
<1>9. Eqn(F)
  BY <1>5, <1>8
<1>10. Eqn(Q)
  BY <1>9
<1> HIDE DEF Q
<1>11. Q = F
  <2>1. \A n \in 0 .. N : Q[n] = IF n = 0 THEN <<>> ELSE MergeLast(pair, Q[n - 1], ss[n])
    BY <1>10
  <2> DEFINE S == {n \in Nat : n <= N => Q[n] = F[n]}
  <2>2. 0 \in S
    <3>1. 0 \in 0 .. N
      BY <1>1
    <3> QED BY <1>5, <2>1, <3>1
  <2>3. ASSUME NEW n \in Nat, n \in S PROVE n + 1 \in S
    <3> SUFFICES ASSUME n + 1 <= N PROVE Q[n + 1] = F[n + 1]
      OBVIOUS
    <3>1. n + 1 \in 0 .. N /\ n + 1 # 0 /\ (n + 1) - 1 = n /\ n <= N
      BY <1>1
    <3>2. Q[n + 1] = MergeLast(pair, Q[n], ss[n + 1]) /\ F[n + 1] = MergeLast(pair, F[n], ss[n + 1])
      BY <1>8, <2>1, <3>1
    <3> QED BY <2>3, <3>1, <3>2
  <2> HIDE DEF S
  <2>4. Nat \subseteq S
    BY <2>2, <2>3, InductionOnNat
  <2>5. \A n \in 0 .. N : Q[n] = F[n]
    BY <2>4 DEF S
  <2> QED BY <1>5, <1>10, <2>5
<1>12. Merging(pair, ss, F)
  BY <1>5, <1>7 DEF Merging, N
<1> QED BY <1>2, <1>11, <1>12 DEF N

\* q is what ss starts with.
Starts(q, ss, n) == q \in Seq(Spelling) /\ Len(q) = n /\ \A j \in 1 .. n : q[j] = ss[j]

\* The pair is nowhere among the first m symbols.
Absent(pair, ss, m) == \A k \in 1 .. m - 1 : ~(ss[k] = pair[1] /\ ss[k + 1] = pair[2])

\* Until then nothing is merged.
LEMMA Unmerged ==
  ASSUME NEW pair, NEW ss \in Seq(Spelling), NEW F, Merging(pair, ss, F),
         NEW m \in 0 .. Len(ss), Absent(pair, ss, m)
  PROVE  Starts(F[m], ss, m)
<1> DEFINE S == {n \in Nat : n <= m => Starts(F[n], ss, n)}
<1>1. 0 \in S
  BY EmptySeq DEF Merging, Starts
<1>2. ASSUME NEW n \in Nat, n \in S PROVE n + 1 \in S
  <2> SUFFICES ASSUME n + 1 <= m PROVE Starts(F[n + 1], ss, n + 1)
    OBVIOUS
  <2> DEFINE q == F[n]
  <2>1. /\ n <= m /\ n + 1 \in 1 .. Len(ss) /\ (n + 1) - 1 = n /\ ss[n + 1] \in Spelling
        /\ (n # 0 => n \in 1 .. m - 1)
    OBVIOUS
  <2>2. q \in Seq(Spelling) /\ Len(q) = n /\ \A j \in 1 .. n : q[j] = ss[j]
    BY <1>2, <2>1 DEF Starts
  <2>3. F[n + 1] = MergeLast(pair, q, ss[n + 1])
    BY <2>1 DEF Merging
  <2> HIDE DEF q
  <2>4. ~(q # <<>> /\ Last(q) = pair[1] /\ ss[n + 1] = pair[2])
    <3> SUFFICES ASSUME q # <<>> PROVE ~(Last(q) = pair[1] /\ ss[n + 1] = pair[2])
      OBVIOUS
    <3>1. n # 0
      BY <2>2
    <3>2. n \in 1 .. n /\ n \in 1 .. m - 1
      BY <2>1, <3>1
    <3>3. Last(q) = ss[n]
      BY <2>2, <3>2 DEF Last
    <3> QED BY <3>2, <3>3 DEF Absent
  <2>5. F[n + 1] = Append(q, ss[n + 1])
    BY <2>3, <2>4 DEF MergeLast
  <2>6. /\ Append(q, ss[n + 1]) \in Seq(Spelling) /\ Len(Append(q, ss[n + 1])) = n + 1
        /\ Append(q, ss[n + 1])[n + 1] = ss[n + 1]
        /\ \A j \in 1 .. n : Append(q, ss[n + 1])[j] = q[j]
    BY <2>1, <2>2, AppendProperties
  <2>7. \A j \in 1 .. n + 1 : Append(q, ss[n + 1])[j] = ss[j]
    <3>1. \A j \in 1 .. n + 1 : j \in 1 .. n \/ j = n + 1
      OBVIOUS
    <3> QED BY <2>2, <2>6, <3>1
  <2> QED BY <2>5, <2>6, <2>7 DEF Starts
<1> HIDE DEF S
<1>3. m \in S
  BY <1>1, <1>2, InductionOnNat
<1> QED BY <1>3 DEF S

\* Where a pair does not occur its merge changes nothing.
LEMMA NothingToMerge ==
  ASSUME NEW pair, Pair(pair), NEW ss \in Seq(Spelling), Absent(pair, ss, Len(ss))
  PROVE  MergeAll(pair, ss) = ss
<1>1. PICK F : Merging(pair, ss, F) /\ MergeAll(pair, ss) = F[Len(ss)]
  BY MergeAllIs
<1>2. Len(ss) \in 0 .. Len(ss)
  OBVIOUS
<1>3. Starts(F[Len(ss)], ss, Len(ss))
  BY <1>1, <1>2, Unmerged
<1> QED BY <1>1, <1>3, SeqEqual DEF Starts

\* The pair once joined where it occurs first, the rest comes out the same.
LEMMA MergeAllJoin ==
  ASSUME NEW pair, Pair(pair), NEW ss \in Seq(Spelling), NEW b \in 1 .. Len(ss) - 1,
         ss[b] = pair[1], ss[b + 1] = pair[2], Absent(pair, ss, b), pair[1] \o pair[2] # pair[2]
  PROVE  MergeAll(pair, Join(ss, b)) = MergeAll(pair, ss)
<1> DEFINE N == Len(ss)
           J == Join(ss, b)
           x == pair[1] \o pair[2]
<1>1. N \in Nat /\ b \in Nat /\ b \in 0 .. N /\ b \in 0 .. N - 1 /\ b + 1 \in 1 .. N /\ b + 1 \in Nat /\ (b + 1) - 1 = b
  OBVIOUS
<1>2. J \in Seq(Spelling) /\ Len(J) = N - 1
  BY JoinIs
<1>3. \A j \in 1 .. b - 1 : J[j] = ss[j]
  BY JoinIs
<1>4. J[b] = x
  BY JoinIs
<1>5. \A j \in b + 1 .. N - 1 : J[j] = ss[j + 1]
  BY JoinIs
<1>6. x \in Spelling /\ x # pair[2]
  BY Associate DEF Pair
<1> HIDE DEF J, x
<1>7. PICK F : Merging(pair, ss, F) /\ MergeAll(pair, ss) = F[N]
  BY MergeAllIs
<1>8. PICK G : Merging(pair, J, G) /\ MergeAll(pair, J) = G[N - 1]
  BY <1>2, MergeAllIs
<1>9. Starts(F[b], ss, b)
  BY <1>1, <1>7, Unmerged
<1>10. Starts(G[b], J, b)
  <2>1. Absent(pair, J, b)
    <3> SUFFICES ASSUME NEW k \in 1 .. b - 1 PROVE ~(J[k] = pair[1] /\ J[k + 1] = pair[2])
      BY DEF Absent
    <3>1. CASE k + 1 = b
      BY <1>4, <1>6, <3>1
    <3>2. CASE k + 1 # b
      <4>1. k + 1 \in 1 .. b - 1
        BY <3>2
      <4> QED BY <1>3, <4>1 DEF Absent
    <3> QED BY <3>1, <3>2
  <2>2. b \in 0 .. Len(J)
    BY <1>1, <1>2
  <2> QED BY <1>2, <1>8, <2>1, <2>2, Unmerged
<1>11. F[b + 1] = G[b]
  <2> DEFINE q == F[b]
             h == Front(q)
  <2>1. q \in Seq(Spelling) /\ Len(q) = b /\ \A j \in 1 .. b : q[j] = ss[j]
    BY <1>9 DEF Starts
  <2>2. F[b + 1] = MergeLast(pair, q, ss[b + 1])
    BY <1>1, <1>7 DEF Merging
  <2> HIDE DEF q
  <2>3. q # <<>> /\ Last(q) = pair[1]
    BY <1>1, <2>1 DEF Last
  <2>4. F[b + 1] = Append(h, x)
    BY <2>2, <2>3 DEF MergeLast, x
  <2>5. h \in Seq(Spelling) /\ Len(h) = b - 1 /\ \A j \in 1 .. b - 1 : h[j] = ss[j]
    <3> DEFINE m == b - 1
    <3>1. 1 \in Int /\ m \in Int /\ \A j \in 1 .. m : q[j] \in Spelling
      BY <2>1
    <3>2. (1 <= m => m - 1 + 1 = m) /\ (~(1 <= m) => m = 0) /\ \A j \in 1 .. m : j \in 1 .. m - 1 + 1 /\ 1 + j - 1 = j /\ j \in 1 .. b
      BY <1>1
    <3>3. h = SubSeq(q, 1, m)
      BY <2>1 DEF Front
    <3> HIDE DEF m, h
    <3>4. /\ SubSeq(q, 1, m) \in Seq(Spelling)
          /\ Len(SubSeq(q, 1, m)) = IF 1 <= m THEN m - 1 + 1 ELSE 0
          /\ \A j \in 1 .. m - 1 + 1 : SubSeq(q, 1, m)[j] = q[1 + j - 1]
      BY <3>1, SubSeqProperties
    <3>5. \A j \in 1 .. m : SubSeq(q, 1, m)[j] = ss[j]
      BY <2>1, <3>2, <3>4, Zenon
    <3>6. Len(SubSeq(q, 1, m)) = m
      BY <3>2, <3>4
    <3> QED BY <3>3, <3>4, <3>5, <3>6 DEF m
  <2> HIDE DEF h
  <2>6. /\ Append(h, x) \in Seq(Spelling) /\ Len(Append(h, x)) = (b - 1) + 1
        /\ Append(h, x)[(b - 1) + 1] = x /\ \A j \in 1 .. b - 1 : Append(h, x)[j] = h[j]
    BY <1>6, <2>5, AppendProperties
  <2>7. (b - 1) + 1 = b /\ \A j \in 1 .. b : j \in 1 .. b - 1 \/ j = b
    OBVIOUS
  <2>8. Append(h, x) \in Seq(Spelling) /\ Len(Append(h, x)) = b /\ \A j \in 1 .. b : Append(h, x)[j] = J[j]
    BY <1>3, <1>4, <2>5, <2>6, <2>7, Zenon
  <2>9. G[b] \in Seq(Spelling) /\ Len(G[b]) = b /\ \A j \in 1 .. b : G[b][j] = J[j]
    BY <1>10 DEF Starts
  <2>10. Append(h, x) = G[b]
    <3> DEFINE y == Append(h, x)
               z == G[b]
    <3>1. y \in Seq(Spelling) /\ z \in Seq(Spelling) /\ Len(y) = Len(z) /\ \A j \in 1 .. Len(y) : y[j] = z[j]
      BY <2>8, <2>9
    <3> HIDE DEF y, z
    <3>2. y = z
      BY <3>1, SeqEqual
    <3> QED BY <3>2 DEF y, z
  <2> QED BY <2>4, <2>10
<1> DEFINE S == {j \in Nat : b + j <= N - 1 => F[(b + j) + 1] = G[b + j]}
<1>12. 0 \in S
  <2>1. b + 0 = b
    OBVIOUS
  <2> QED BY <1>11, <2>1
<1>13. ASSUME NEW j \in Nat, j \in S PROVE j + 1 \in S
  <2> SUFFICES ASSUME b + (j + 1) <= N - 1 PROVE F[(b + (j + 1)) + 1] = G[b + (j + 1)]
    OBVIOUS
  <2> DEFINE n == b + j
             n1 == n + 1
             n2 == n1 + 1
  <2>1. /\ b + (j + 1) = n1 /\ n2 \in 1 .. N /\ n1 \in 1 .. N - 1 /\ n2 - 1 = n1 /\ n1 - 1 = n
        /\ n <= N - 1 /\ n1 \in b + 1 .. N - 1
    BY <1>1
  <2>2. F[n1] = G[n]
    BY <1>13, <2>1
  <2> HIDE DEF n2, n1, n
  <2>3. F[n2] = MergeLast(pair, F[n1], ss[n2])
    BY <1>7, <2>1 DEF Merging
  <2>4. G[n1] = MergeLast(pair, G[n], J[n1])
    BY <1>2, <1>8, <2>1 DEF Merging
  <2>5. J[n1] = ss[n2]
    BY <1>5, <2>1 DEF n2
  <2>6. F[n2] = G[n1]
    BY <2>2, <2>3, <2>4, <2>5
  <2> QED BY <2>1, <2>6 DEF n2
<1> HIDE DEF S
<1>14. Nat \subseteq S
  BY <1>12, <1>13, InductionOnNat
<1>15. N - 1 - b \in S /\ b + (N - 1 - b) = N - 1 /\ (N - 1) + 1 = N
  BY <1>1, <1>14
<1>16. F[N] = G[N - 1]
  BY <1>1, <1>15 DEF S
<1> QED BY <1>7, <1>8, <1>16 DEF J

\* What MergeAll returns.
LEMMA MergeAllSpells ==
  ASSUME NEW pair, Pair(pair), NEW ss \in Seq(Spelling)
  PROVE  MergeAll(pair, ss) \in Seq(Spelling)
<1>1. PICK F : Merging(pair, ss, F) /\ MergeAll(pair, ss) = F[Len(ss)]
  BY MergeAllIs
<1>2. Len(ss) \in 0 .. Len(ss)
  OBVIOUS
<1> QED BY <1>1, <1>2 DEF Merging

\* F is how MergeInOrder comes to its result.
Learning(ms, ss, F) ==
  /\ F \in [0 .. Len(ms) -> Seq(Spelling)] /\ F[0] = ss
  /\ \A n \in 1 .. Len(ms) : F[n] = MergeAll(ms[n], F[n - 1])

\* There is such a function, and MergeInOrder is its last value.
LEMMA MergeInOrderIs ==
  ASSUME NEW ms, Len(ms) \in Nat, \A n \in 1 .. Len(ms) : Pair(ms[n]), NEW ss \in Seq(Spelling)
  PROVE  \E F : Learning(ms, ss, F) /\ MergeInOrder(ms, ss) = F[Len(ms)]
<1> DEFINE N == Len(ms)
           T == Seq(Spelling)
           step == [n \in 1 .. N |-> [acc \in T |-> MergeAll(ms[n], acc)]]
           Eqn(F) == F = [n \in 0 .. N |-> IF n = 0 THEN ss ELSE MergeAll(ms[n], F[n - 1])]
           Q == CHOOSE F : Eqn(F)
<1>1. N \in Nat /\ ss \in T
  OBVIOUS
<1>2. MergeInOrder(ms, ss) = Q[N]
  BY DEF MergeInOrder
<1>3. \A n \in 1 .. N : \A acc \in T : step[n][acc] = MergeAll(ms[n], acc) /\ step[n][acc] \in T
  BY MergeAllSpells
<1> HIDE DEF N, step, T
<1>4. PICK F : Computed(F, step, N, T, ss)
  <2>1. Stays(step, N, T)
    BY <1>3 DEF Stays
  <2> QED BY <1>1, <2>1, Computation
<1>5. F \in [0 .. N -> T] /\ F[0] = ss /\ \A n \in 1 .. N : F[n] = step[n][F[n - 1]]
  BY <1>4 DEF Computed
<1>6. \A n \in 1 .. N : n - 1 \in 0 .. N /\ n # 0 /\ n \in 0 .. N
  BY <1>1
<1>7. \A n \in 1 .. N : F[n] = MergeAll(ms[n], F[n - 1])
  BY <1>3, <1>5, <1>6
<1>8. \A n \in 0 .. N : F[n] = IF n = 0 THEN ss ELSE MergeAll(ms[n], F[n - 1])
  <2>1. \A n \in 0 .. N : n # 0 => n \in 1 .. N
    BY <1>1
  <2> QED BY <1>5, <1>7, <2>1, Zenon
<1>9. Eqn(F)
  BY <1>5, <1>8
<1>10. Eqn(Q)
  BY <1>9
<1> HIDE DEF Q
<1>11. Q = F
  <2>1. \A n \in 0 .. N : Q[n] = IF n = 0 THEN ss ELSE MergeAll(ms[n], Q[n - 1])
    BY <1>10
  <2> DEFINE S == {n \in Nat : n <= N => Q[n] = F[n]}
  <2>2. 0 \in S
    <3>1. 0 \in 0 .. N
      BY <1>1
    <3> QED BY <1>5, <2>1, <3>1
  <2>3. ASSUME NEW n \in Nat, n \in S PROVE n + 1 \in S
    <3> SUFFICES ASSUME n + 1 <= N PROVE Q[n + 1] = F[n + 1]
      OBVIOUS
    <3>1. n + 1 \in 0 .. N /\ n + 1 # 0 /\ (n + 1) - 1 = n /\ n <= N
      BY <1>1
    <3>2. Q[n + 1] = MergeAll(ms[n + 1], Q[n]) /\ F[n + 1] = MergeAll(ms[n + 1], F[n])
      BY <1>8, <2>1, <3>1
    <3> QED BY <2>3, <3>1, <3>2
  <2> HIDE DEF S
  <2>4. Nat \subseteq S
    BY <2>2, <2>3, InductionOnNat
  <2>5. \A n \in 0 .. N : Q[n] = F[n]
    BY <2>4 DEF S
  <2> QED BY <1>5, <1>10, <2>5
<1>12. Learning(ms, ss, F)
  BY <1>5, <1>7 DEF Learning, N, T
<1> QED BY <1>2, <1>11, <1>12 DEF N

\* The merges are pairs.
LEMMA PairsAre ==
  ASSUME Vocabulary
  PROVE  Len(merges) \in Nat /\ \A n \in 1 .. Len(merges) : Pair(merges[n])
<1>1. Len(merges) \in Nat /\ \A n \in 1 .. Len(merges) : merges[n] \in Spelling \X Spelling
  BY DEF Vocabulary
<1> QED BY <1>1 DEF Pair

\* The merges learned before any that applies change nothing.
LEMMA NotBefore ==
  ASSUME Vocabulary, Trained, NEW ss \in Seq(Spelling), NEW F, Learning(merges, ss, F),
         NEW m \in 0 .. Len(merges), \A k \in Ranked(ss) : m < Rank(ss, k)
  PROVE  F[m] = ss
<1> DEFINE S == {n \in Nat : n <= m => F[n] = ss}
<1>1. 0 \in S
  BY DEF Learning
<1>2. ASSUME NEW n \in Nat, n \in S PROVE n + 1 \in S
  <2> SUFFICES ASSUME n + 1 <= m PROVE F[n + 1] = ss
    OBVIOUS
  <2> DEFINE p == n + 1
  <2>1. p \in 1 .. Len(merges) /\ p - 1 = n /\ n <= m /\ p <= m /\ p \in Nat
    BY PairsAre
  <2> HIDE DEF p
  <2>2. F[p] = MergeAll(merges[p], ss)
    BY <1>2, <2>1 DEF Learning
  <2>3. Absent(merges[p], ss, Len(ss))
    <3> SUFFICES ASSUME NEW k \in 1 .. Len(ss) - 1, ss[k] = merges[p][1], ss[k + 1] = merges[p][2]
                 PROVE  FALSE
      BY DEF Absent
    <3>1. merges[p] = <<ss[k], ss[k + 1]>>
      BY <2>1, TrainedIs
    <3>2. Places(ss[k], ss[k + 1]) # {} /\ RankOf(ss[k], ss[k + 1]) = p
      BY <2>1, <3>1, OneRank
    <3>3. k \in Ranked(ss) /\ Rank(ss, k) = p
      BY <3>2 DEF Ranked, Rank
    <3> QED BY <2>1, <3>3
  <2>4. MergeAll(merges[p], ss) = ss
    BY <2>1, <2>3, PairsAre, NothingToMerge
  <2> QED BY <2>2, <2>4 DEF p
<1> HIDE DEF S
<1>3. Nat \subseteq S
  BY <1>1, <1>2, InductionOnNat
<1>4. m \in S /\ m <= m
  BY <1>3
<1> QED BY <1>4 DEF S

\* Where no merge applies, all of them in order change nothing.
LEMMA InOrderDone ==
  ASSUME Vocabulary, Trained, NEW ss \in Seq(Spelling), Ranked(ss) = {}
  PROVE  MergeInOrder(merges, ss) = ss
<1>1. PICK F : Learning(merges, ss, F) /\ MergeInOrder(merges, ss) = F[Len(merges)]
  BY PairsAre, MergeInOrderIs
<1>2. Len(merges) \in 0 .. Len(merges)
  BY PairsAre
<1> QED BY <1>1, <1>2, NotBefore

\* The best merge done once does not change what the merges in order make.
LEMMA InOrderJoin ==
  ASSUME Vocabulary, Trained, NEW ss \in Seq(Spelling), Ranked(ss) # {}
  PROVE  MergeInOrder(merges, Join(ss, Best(ss))) = MergeInOrder(merges, ss)
<1> DEFINE b == Best(ss)
           J == Join(ss, b)
           r == Rank(ss, b)
           N == Len(merges)
<1>1. /\ b \in Ranked(ss) /\ b \in 1 .. Len(ss) - 1
      /\ \A j \in Ranked(ss) : /\ Rank(ss, j) \in 1 .. N
                               /\ r < Rank(ss, j) \/ (r = Rank(ss, j) /\ b <= j)
  BY BestIs
<1>2. \A k \in Ranked(J) : Rank(J, k) \in 1 .. N /\ Rank(J, k) >= r
  BY JoinRanks
<1> HIDE DEF b
<1>3. r \in 1 .. N /\ merges[r] = <<ss[b], ss[b + 1]>>
  <2>1. Places(ss[b], ss[b + 1]) # {}
    BY <1>1 DEF Ranked
  <2> QED BY <2>1, RankIs DEF Rank
<1>4. J \in Seq(Spelling)
  BY <1>1, JoinIs
<1>5. merges[r][1] = ss[b] /\ merges[r][2] = ss[b + 1]
  <2> HIDE DEF r
  <2> QED BY <1>3
<1>6. MergeAll(merges[r], J) = MergeAll(merges[r], ss)
  <2>1. Pair(merges[r])
    BY <1>3, PairsAre
  <2>2. Absent(merges[r], ss, b)
    <3> SUFFICES ASSUME NEW k \in 1 .. b - 1, ss[k] = merges[r][1], ss[k + 1] = merges[r][2]
                 PROVE  FALSE
      BY DEF Absent
    <3>1. ss[k] = ss[b] /\ ss[k + 1] = ss[b + 1] /\ k \in 1 .. Len(ss) - 1
      BY <1>1, <1>5
    <3>2. k \in Ranked(ss) /\ Rank(ss, k) = r
      BY <1>1, <3>1 DEF Ranked, Rank
    <3> QED BY <1>1, <1>3, <3>2
  <2>3. merges[r][1] \o merges[r][2] # merges[r][2]
    <3>1. /\ Len(merges[r][1]) \in Nat \ {0} /\ Len(merges[r][2]) \in Nat \ {0}
          /\ Len(merges[r][1] \o merges[r][2]) = Len(merges[r][1]) + Len(merges[r][2])
      BY <1>3, TrainedIs DEF Product
    <3>2. \A x, y \in Nat \ {0} : x + y # y
      OBVIOUS
    <3>3. Len(merges[r][1] \o merges[r][2]) # Len(merges[r][2])
      BY <3>1, <3>2, Zenon
    <3> QED BY <3>3
  <2> HIDE DEF r
  <2> QED BY <1>1, <1>5, <2>1, <2>2, <2>3, MergeAllJoin
<1> HIDE DEF r, J
<1>7. N \in Nat /\ r - 1 \in 0 .. N /\ r \in Nat
  BY <1>3, PairsAre
<1>8. PICK F : Learning(merges, ss, F) /\ MergeInOrder(merges, ss) = F[N]
  BY PairsAre, MergeInOrderIs
<1>9. PICK G : Learning(merges, J, G) /\ MergeInOrder(merges, J) = G[N]
  BY <1>4, PairsAre, MergeInOrderIs
<1>10. F[r - 1] = ss
  <2>1. \A k \in Ranked(ss) : r - 1 < Rank(ss, k)
    BY <1>1, <1>3
  <2> QED BY <1>7, <1>8, <2>1, NotBefore
<1>11. G[r - 1] = J
  <2>1. \A k \in Ranked(J) : r - 1 < Rank(J, k)
    BY <1>2, <1>3
  <2> QED BY <1>4, <1>7, <1>9, <2>1, NotBefore
<1>12. F[r] = G[r]
  BY <1>3, <1>6, <1>8, <1>9, <1>10, <1>11 DEF Learning
<1> DEFINE S == {j \in Nat : r + j <= N => F[r + j] = G[r + j]}
<1>13. 0 \in S
  <2>1. r + 0 = r
    BY <1>7
  <2> QED BY <1>12, <2>1
<1>14. ASSUME NEW j \in Nat, j \in S PROVE j + 1 \in S
  <2> SUFFICES ASSUME r + (j + 1) <= N PROVE F[r + (j + 1)] = G[r + (j + 1)]
    OBVIOUS
  <2> DEFINE n == r + (j + 1)
  <2>1. n \in 1 .. N /\ n - 1 = r + j /\ r + j <= N
    BY <1>3, <1>7
  <2> HIDE DEF n
  <2>2. F[n - 1] = G[n - 1]
    BY <1>14, <2>1
  <2>3. F[n] = MergeAll(merges[n], F[n - 1]) /\ G[n] = MergeAll(merges[n], G[n - 1])
    BY <1>8, <1>9, <2>1 DEF Learning
  <2> QED BY <2>2, <2>3 DEF n
<1> HIDE DEF S
<1>15. Nat \subseteq S
  BY <1>13, <1>14, InductionOnNat
<1>16. N - r \in S /\ r + (N - r) = N
  BY <1>3, <1>7, <1>15
<1>17. F[N] = G[N]
  BY <1>7, <1>16 DEF S
<1> QED BY <1>8, <1>9, <1>17 DEF J, b

\* What the symbols at hand become, merge after merge, is what the bytes of
\* the piece become.
Ordered == pc = "bpe" /\ Trained => MergeInOrder(merges, syms) = MergeInOrder(merges, Spell(done + 1))

\* A merge of bpe keeps it.
LEMMA NextOrdered == EncInv /\ Ordered /\ [EncNext]_allVars => Ordered'
<1> SUFFICES ASSUME EncInv, Ordered, [EncNext]_allVars PROVE Ordered'
  OBVIOUS
<1>1. merges' = merges
  BY DEF EncNext, CutNext, NextPiece, MergeBest, Emit, allVars, encVars
<1>2. Trained' => Trained
  <2> SUFFICES ASSUME Trained' PROVE Trained
    OBVIOUS
  <2>1. \A k : Product(k)' = Product(k)
    BY <1>1 DEF Product
  <2> SUFFICES ASSUME NEW k \in DOMAIN merges
               PROVE  /\ \A part \in {1, 2} : Len(merges[k][part]) = 1 \/ \E j \in 1 .. k - 1 : merges[k][part] = Product(j)
                      /\ \A j \in 1 .. k - 1 : Product(j) # Product(k)
    BY DEF Trained
  <2>2. \A part \in {1, 2} : Len(merges'[k][part]) = 1 \/ \E j \in 1 .. k - 1 : merges'[k][part] = Product(j)'
    BY <1>1, Zenon DEF Trained
  <2>3. \A j \in 1 .. k - 1 : Product(j)' # Product(k)'
    BY <1>1, Zenon DEF Trained
  <2> QED BY <1>1, <2>1, <2>2, <2>3
<1>3. UNCHANGED <<text, out, done>> => Spell(done + 1)' = Spell(done + 1)
  BY DEF Spell, BytesIn
<1>4. CASE NextPiece
  <2>1. syms' = Spell(done + 1) /\ UNCHANGED <<text, out, done>>
    BY <1>4 DEF NextPiece, vars
  <2> QED BY <1>1, <1>3, <2>1 DEF Ordered
<1>5. CASE MergeBest
  <2>1. /\ pc = "bpe" /\ Ranked(syms) # {} /\ syms' = Join(syms, Best(syms))
        /\ UNCHANGED <<text, out, done, pc>>
    BY <1>5 DEF MergeBest, vars
  <2>2. syms \in Seq(Spelling) /\ Vocabulary
    BY <2>1 DEF EncInv, Symbols
  <2>3. Trained => MergeInOrder(merges, syms') = MergeInOrder(merges, syms)
    BY <2>1, <2>2, InOrderJoin
  <2> QED BY <1>1, <1>2, <1>3, <2>1, <2>3 DEF Ordered
<1>6. CASE UNCHANGED allVars
  <2>1. UNCHANGED <<text, out, done, pc, syms>>
    BY <1>6 DEF allVars, vars, encVars
  <2> QED BY <1>1, <1>2, <1>3, <2>1 DEF Ordered
<1>7. CASE CutNext \/ Emit
  <2>1. pc' # "bpe"
    BY <1>7 DEF CutNext, Emit, encVars
  <2> QED BY <2>1 DEF Ordered
<1> QED BY <1>4, <1>5, <1>6, <1>7 DEF EncNext

\* Ordered is an invariant.
LEMMA SpecOrdered == EncSpec => []Ordered
<1>1. EncInit => Ordered
  BY DEF EncInit, Ordered
<1> QED BY <1>1, NextOrdered, SpecEnc, PTL DEF EncSpec

\* The loop of bpe, one merge at a time and the lowest rank first, ends where
\* doing each merge in the order it was learned, wherever it applies, ends.
THEOREM AlwaysInOrder == EncSpec => []MergedInOrder
<1>1. EncInv /\ Ordered => MergedInOrder
  <2> SUFFICES ASSUME EncInv, Ordered, pc = "bpe", Ranked(syms) = {}, Trained
               PROVE  syms = MergeInOrder(merges, Spell(done + 1))
    BY DEF MergedInOrder
  <2>1. syms \in Seq(Spelling) /\ Vocabulary
    BY DEF EncInv, Symbols
  <2> QED BY <2>1, InOrderDone DEF Ordered
<1> QED BY <1>1, SpecEnc, SpecOrdered, PTL

-----------------------------------------------------------------------------
(* The two loops end.                                                      *)

\* What is left to do: characters to cut, pieces to look up.
Uncut    == Len(text) - i
Unlooked == Len(out) - done

\* From n down to m, numbers that cannot fall for ever.
Falls(m, n) == m \in Nat /\ n \in Nat /\ m < n

\* In lexicographic order: characters left, pieces left, whether the next one
\* waits to be spelled, its symbols.
Shrinks ==
  \/ Falls(Uncut', Uncut)
  \/ Uncut' = Uncut /\ Falls(Unlooked', Unlooked)
  \/ Uncut' = Uncut /\ Unlooked' = Unlooked /\ pc = "cut" /\ pc' = "bpe"
  \/ Uncut' = Uncut /\ Unlooked' = Unlooked /\ pc' = pc /\ Falls(Len(syms'), Len(syms))

\* No step of Encode leaves as much to do as before it: matchAt takes at least
\* a character, bpe has a symbol fewer after a merge.  With numbers that
\* cannot fall for ever, no text keeps the loops of PreTokenize or bpe going.
THEOREM EveryStepShrinks == EncSpec => [][Shrinks]_allVars
<1>1. EncInv /\ [EncNext]_allVars => [Shrinks]_allVars
  <2> SUFFICES ASSUME EncInv, EncNext PROVE Shrinks
    OBVIOUS
  <2>1. /\ text \in Seq(Chars) /\ Len(text) \in Nat /\ i \in 0 .. Len(text)
        /\ Len(out) \in Nat /\ done \in 0 .. Len(out)
    BY DEF EncInv, Cutting, Stage
  <2>2. CASE CutNext
    <3>1. At(text, i)
      BY <2>1, <2>2 DEF CutNext, Cut, At
    <3>2. MatchAt(text, i) \in 1 .. Len(text) - i
      BY <3>1, MatchAtIs
    <3>3. text' = text /\ i' = i + MatchAt(text, i)
      BY <2>2 DEF CutNext, Cut
    <3> QED BY <2>1, <3>2, <3>3 DEF Shrinks, Falls, Uncut
  <2>3. CASE NextPiece
    <3>1. UNCHANGED <<text, i, out, done>> /\ pc = "cut" /\ pc' = "bpe"
      BY <2>3 DEF NextPiece, vars
    <3> QED BY <3>1 DEF Shrinks, Uncut, Unlooked
  <2>4. CASE MergeBest
    <3>1. /\ UNCHANGED <<text, i, out, done, pc>> /\ pc = "bpe"
          /\ Ranked(syms) # {} /\ syms' = Join(syms, Best(syms))
      BY <2>4 DEF MergeBest, vars
    <3>2. syms \in Seq(Spelling) /\ Len(syms) \in Nat
      <4>1. syms \in Seq(Spelling)
        BY <3>1 DEF EncInv, Symbols
      <4> QED BY <4>1
    <3>3. Best(syms) \in 1 .. Len(syms) - 1
      BY <3>1, <3>2, BestIs DEF EncInv
    <3>4. Len(syms') = Len(syms) - 1
      BY <3>1, <3>2, <3>3, JoinIs
    <3>5. Falls(Len(syms'), Len(syms))
      BY <3>2, <3>3, <3>4 DEF Falls
    <3> QED BY <3>1, <3>5 DEF Shrinks, Uncut, Unlooked
  <2>5. CASE Emit
    <3>1. UNCHANGED <<text, i, out>> /\ done' = done + 1 /\ done < Len(out)
      BY <2>5 DEF Emit, vars, EncInv, Stage
    <3> QED BY <2>1, <3>1 DEF Shrinks, Falls, Uncut, Unlooked
  <2> QED BY <2>2, <2>3, <2>4, <2>5 DEF EncNext
<1> QED BY <1>1, SpecEnc, PTL DEF EncSpec
=============================================================================
