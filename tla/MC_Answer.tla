----------------------------- MODULE MC_Answer -----------------------------
(* Answer for TLC: the command lines of MC_Generate with a plain vocabulary, *)
(* and answers of up to four tokens that cut the bytes anywhere.             *)
EXTENDS Answer, MC_Generate

\* Answers of three tokens over any two pieces, and of four over two bytes.
Three == Cmd("short", "none", TRUE, 3, 0)
Four  == Cmd("short", "none", TRUE, 4, 0)

\* Tokens 0 to 2 are control tokens, 3 and 4 have bytes.
Vocabulary(p, q) == [t \in Vocab |-> CASE t = 3 -> p [] t = 4 -> q [] OTHER -> <<>>]

Samples == << <<>>, <<W!Ascii>>, <<W!Lead2>>, <<W!Lead3>>, <<W!Lead3Narrow>>, <<W!Lead4>>, <<W!Invalid>>,
  <<W!Cont>>, <<W!ContLow>>, <<W!Lead4, W!Cont>>, <<W!Cont, W!Lead3>>, <<W!Lead3Narrow, W!ContLow>>,
  <<W!ContLow, W!Ascii>>, <<W!Lead4, W!Cont, W!Cont>>, <<W!Cont, W!Cont, W!Cont>>, <<W!Ascii, W!Lead2>> >>

MCPieces(c) ==
  CASE c = Three -> UNION {{Vocabulary(Samples[k], Samples[j]) : j \in 1 .. k} : k \in DOMAIN Samples}
    [] c = Four  -> {Vocabulary(<<p>>, <<q>>) : p \in {W!Lead4, W!Lead3Narrow}, q \in {W!Cont, W!ContLow, W!Invalid}}
    [] OTHER     -> {Vocabulary(<<W!Ascii>>, <<W!Lead2>>)}

AnswerCommands == AllCommands \cup {Three, Four}
=============================================================================
