------------------------------- MODULE Decode -------------------------------
(***************************************************************************)
(* What Model.Forward promises its caller (model/model.go): positions are  *)
(* fed in order, each once, and a call answers with the logits of the      *)
(* tokens fed so far.  A call that fails has fed nothing.                  *)
(***************************************************************************)
EXTENDS Reference

CONSTANTS
  Vocab,      \* the token ids 0 .. c.Vocab - 1
  MaxLen,     \* positions in the KV cache
  NoAnswer,   \* before the first call
  Failure     \* a non-nil error

VARIABLES
  history,    \* the tokens fed, position 0 first
  answer      \* what the last call returned

Init == history = <<>> /\ answer = NoAnswer

Feed(tok) ==
  /\ Len(history) < MaxLen
  /\ history' = Append(history, tok)
  /\ answer' = LogitsOf(history')

Fail == answer' = Failure /\ UNCHANGED history

Next == Fail \/ \E tok \in Vocab : Feed(tok)

Spec == Init /\ [][Next]_<<history, answer>>
=============================================================================
