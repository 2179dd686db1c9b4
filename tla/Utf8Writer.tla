----------------------------- MODULE Utf8Writer -----------------------------
(***************************************************************************)
(* utf8Writer (cmd/gollama/run.go): the bytes of the tokens are printed as *)
(* they come, but those of an incomplete UTF-8 sequence at the end are     *)
(* held back until the next token completes them.                          *)
(*                                                                         *)
(* Bytes are told apart as UTF-8 does: by the length of the sequence they  *)
(* start, and for leads such as E0 by which continuations may follow.      *)
(***************************************************************************)
EXTENDS Integers, Sequences

\* The bytes that start a rune; the continuation bytes, of which ContLow may not
\* follow Lead3Narrow.
Ascii       == "ascii"
Lead2       == "lead2"
Lead3       == "lead3"
Lead3Narrow == "lead3narrow"
Lead4       == "lead4"
Invalid     == "invalid"
Cont        == "cont"
ContLow     == "contlow"

Starts == {Ascii, Lead2, Lead3, Lead3Narrow, Lead4, Invalid}
Conts  == {Cont, ContLow}
Byte   == Starts \cup Conts
UTFMax == 4

\* The length of the sequence that b starts; 1 for a byte that starts none.
Size(b) == CASE b = Lead2 -> 2 [] b \in {Lead3, Lead3Narrow} -> 3 [] b = Lead4 -> 4 [] OTHER -> 1

\* utf8.RuneStart
RuneStart(b) == b \in Starts

\* c may be byte k of the sequence that b starts.
Continues(b, c, k) == c \in Conts /\ ~(b = Lead3Narrow /\ k = 2 /\ c = ContLow)

\* utf8.FullRune: p begins with a whole rune, or with bytes that never will be one.
FullRune(p) ==
  p # <<>> /\ (Len(p) >= Size(p[1]) \/ \E k \in 2 .. Len(p) : ~Continues(p[1], p[k], k))

VARIABLES
  pending,
  given,     \* all bytes written so far
  printed,   \* all bytes printed so far
  flushed    \* what Flush found

vars == <<pending, given, printed, flushed>>

Init == pending = <<>> /\ given = <<>> /\ printed = <<>> /\ flushed = <<>>

\* Looking back two bytes is one too few.
BackTwo(p) == {i \in 1 .. Len(p) : i > Len(p) - 2 /\ RuneStart(p[i])}

\* for i := len-1; i >= 0 && i >= len-utf8.UTFMax: the last rune start
Back(p) == {i \in 1 .. Len(p) : i > Len(p) - UTFMax /\ RuneStart(p[i])}

\* How many trailing bytes to hold back.
Keep(p) ==
  IF Back(p) = {} THEN 0
  ELSE LET i == CHOOSE i \in Back(p) : \A j \in Back(p) : j <= i
       IN  IF FullRune(SubSeq(p, i, Len(p))) THEN 0 ELSE Len(p) - i + 1

Write(piece) ==
  LET p == pending \o piece
      n == Len(p) - Keep(p)
  IN  /\ flushed = <<>>
      /\ printed' = printed \o SubSeq(p, 1, n)
      /\ pending' = SubSeq(p, n + 1, Len(p))
      /\ given' = given \o piece
      /\ UNCHANGED flushed

\* A replacement character is printed for what stayed incomplete.
Flush ==
  /\ flushed = <<>> /\ pending # <<>>
  /\ flushed' = pending
  /\ printed' = Append(printed, "replacement")
  /\ pending' = <<>>
  /\ UNCHANGED given

-----------------------------------------------------------------------------
(* Properties                                                              *)

\* The sequence that the last bytes of b start and do not complete.
Incomplete(b) ==
  LET starts == {i \in 1 .. Len(b) : RuneStart(b[i]) /\ ~FullRune(SubSeq(b, i, Len(b)))}
  IN  IF starts = {} THEN <<>> ELSE SubSeq(b, CHOOSE i \in starts : TRUE, Len(b))

\* Wherever the tokens cut the bytes, exactly the sequence that the last bytes
\* leave incomplete is held back: no rune is ever printed in two writes, and
\* none that is complete, or can no longer be, waits.
HeldBack == flushed = <<>> => pending = Incomplete(given)
=============================================================================
