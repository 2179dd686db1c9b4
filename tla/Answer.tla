------------------------------- MODULE Answer -------------------------------
(***************************************************************************)
(* The answer of gollama run (cmd/gollama/run.go): the decode loop of      *)
(* module Generate prints every token through the utf8Writer of module     *)
(* Utf8Writer, and flushes it when the loop ends, but not when Forward     *)
(* fails.                                                                  *)
(***************************************************************************)
EXTENDS Generate, SequencesExt

CONSTANT PiecesOf(_)   \* bound: the vocabularies tried with a command line

VARIABLES
  piece,     \* tk.Piece: the bytes of each token, none for a control token
  pending, given, printed, flushed

writerVars == <<pending, given, printed, flushed>>
answerVars == <<vars, piece, writerVars>>

W == INSTANCE Utf8Writer

ASSUME PiecesAssumption ==
  \A c \in Commands : PiecesOf(c) \subseteq [Vocab -> Seq(W!Byte)]

-----------------------------------------------------------------------------
AnswerInit == Init /\ W!Init /\ piece \in PiecesOf(cmd)

\* Everything that prints nothing.
Quiet ==
  /\ Acquire \/ AcquireFails \/ CloseNext \/ Exit \/ Plan \/ Prefill \/ StartDecoding
  /\ UNCHANGED <<piece, writerVars>>

\* out.Write(tk.Piece(next)), then Forward
PrintToken ==
  /\ Decode
  /\ W!Write(piece[logits.best])
  /\ UNCHANGED piece

\* A stop token ends the run at once.
ReturnOnStop ==
  /\ Finish
  /\ IF pending = <<>> \/ StopNow THEN UNCHANGED writerVars ELSE W!Flush
  /\ UNCHANGED piece

\* out.Flush()
FlushAnswer ==
  /\ Finish
  /\ IF pending = <<>> THEN UNCHANGED writerVars ELSE W!Flush
  /\ UNCHANGED piece

AnswerNext == Quiet \/ PrintToken \/ FlushAnswer

AnswerSpec     == AnswerInit /\ [][AnswerNext]_answerVars
\* run is one sequential call, and so is every call it makes.
AnswerFairSpec == AnswerSpec /\ WF_answerVars(AnswerNext)

-----------------------------------------------------------------------------
(* Properties                                                              *)

\* The bytes of the tokens chosen.
Text == FlattenSeq([k \in 1 .. Len(out) |-> piece[out[k].token]])

\* What is on the screen is the answer, wherever the tokens cut it: all of it
\* and a replacement for an incomplete end when run succeeds; until then, and
\* when Forward fails and the writer is not flushed, all but the incomplete
\* end, so that an error never hides a whole character.
StreamIsAnswer ==
  LET cut  == W!Incomplete(Text)
      head == SubSeq(Text, 1, Len(Text) - Len(cut))
  IN  printed = IF status = "ok" /\ cut # <<>> THEN Append(head, "replacement") ELSE head

\* Whatever the tokens hold, exactly the bytes of an incomplete sequence wait.
HeldBack == W!HeldBack

\* run returns, with everything it acquired closed.
Exits == <>(pc = "exited")
=============================================================================
