------------------------------ MODULE Generate ------------------------------
(***************************************************************************)
(* gollama run (cmd/gollama/run.go): acquire the file, the CUDA context,   *)
(* the kernels and the model, each with a deferred Close; plan how many    *)
(* tokens to generate; feed the prompt, then decode greedily.              *)
(*                                                                         *)
(* Model.Forward is taken at its interface (Decode): it refuses a position *)
(* outside the cache or a token outside the vocabulary, it may fail, and   *)
(* otherwise returns logits with some arg max.                             *)
(***************************************************************************)
EXTENDS Integers, Sequences

CONSTANTS
  Commands,    \* command lines: [prompt, system, raw, n, ctx]
  Tokenizers,  \* what a model file says: [BOS, EOS, id], id of special tokens
  Encode(_),   \* Tokenizer.Encode
  NoText,      \* the empty -system
  VocabSize,   \* c.Vocab
  CtxLen,      \* llama.context_length
  IntMax       \* largest int (2^63 - 1)

ASSUME GenerateAssumption ==
  /\ VocabSize \in Nat \ {0} /\ CtxLen \in Nat \ {0} /\ IntMax \in Nat
  /\ CtxLen <= IntMax
  /\ \A c \in Commands : c.n \in -IntMax .. IntMax /\ c.ctx \in -IntMax .. IntMax

Vocab == 0 .. VocabSize - 1

\* The content of a turn is tokenized together with the two newlines before it.
Content(text) == <<"newlines", text>>

\* Tokenizer.Encode gives tokens; the tokenizer's special ids may be anything.
ASSUME TokensAssumption ==
  /\ \A c \in Commands : /\ Encode(c.prompt) \in Seq(Vocab)
                         /\ Encode(Content(c.prompt)) \in Seq(Vocab)
                         /\ Encode(Content(c.system)) \in Seq(Vocab)
  /\ Encode("system") \in Seq(Vocab) /\ Encode("user") \in Seq(Vocab)
  /\ Encode("assistant") \in Seq(Vocab) /\ Encode(Content(NoText)) \in Seq(Vocab)
  /\ \A t \in Tokenizers : /\ t.BOS \in Int /\ t.EOS \in Int
                           /\ \A s \in {"start_header", "end_header", "eot", "end_of_text"} : t.id[s] \in Int

\* Signed machine arithmetic.
Wrap(x) == ((x + IntMax + 1) % (2 * (IntMax + 1))) - (IntMax + 1)

VARIABLES
  pc,
  step,       \* the next setup call
  cmd, tk,    \* the command line and the tokenizer, fixed
  open,       \* deferred closers, the latest last
  maxLen,     \* m.MaxLen
  ids,        \* the prompt's tokens
  n,          \* tokens to generate
  calls,      \* the calls of Forward: [token, pos]
  logits,     \* the arg max of the last logits, and after how many calls
  out,        \* tokens printed, each with the logits it was chosen from
  status      \* run's return value

vars == <<pc, step, cmd, tk, open, maxLen, ids, n, calls, logits, out, status>>

generated == Len(out)

-----------------------------------------------------------------------------
(* run: resources.                                                         *)

Setup     == <<"resolve", "file", "tokenizer", "cuda", "device", "ctx", "kernels", "model">>
Resources == <<"file", "ctx", "kernels", "model">>     \* those with a Close
IsResource(s) == \E k \in 1 .. Len(Resources) : Resources[k] = s

Init ==
  /\ pc = "setup" /\ step = 1
  /\ cmd \in Commands /\ tk \in Tokenizers
  /\ open = <<>> /\ maxLen = 0
  /\ ids = <<>> /\ n = 0 /\ calls = <<>> /\ out = <<>>
  /\ logits = [best |-> 0, after |-> 0]
  /\ status = "running"

Return(s) == pc' = "return" /\ status' = s

\* -ctx is not clamped to the model's own length.
ClampNonPositive(ctx) == IF ctx <= 0 THEN CtxLen ELSE ctx

\* model.Load: -ctx 0 and what exceeds the model's own length mean that length
ClampLen(ctx) == IF ctx <= 0 \/ ctx > CtxLen THEN CtxLen ELSE ctx

\* The next of the setup calls succeeds.
Acquire ==
  /\ pc = "setup"
  /\ open' = IF IsResource(Setup[step]) THEN Append(open, Setup[step]) ELSE open
  /\ maxLen' = IF Setup[step] = "model" THEN ClampLen(cmd.ctx) ELSE maxLen
  /\ IF step = Len(Setup) THEN pc' = "plan" /\ UNCHANGED step
                          ELSE step' = step + 1 /\ UNCHANGED pc
  /\ UNCHANGED <<cmd, tk, ids, n, calls, logits, out, status>>

AcquireFails ==
  /\ pc = "setup"
  /\ Return("setup")
  /\ UNCHANGED <<step, cmd, tk, open, maxLen, ids, n, calls, logits, out>>

\* First come, first closed.
CloseOldest ==
  /\ pc = "return" /\ open # <<>>
  /\ open' = Tail(open)
  /\ UNCHANGED <<pc, step, cmd, tk, maxLen, ids, n, calls, logits, out, status>>

\* Deferred calls run last in, first out.
CloseNext ==
  /\ pc = "return" /\ open # <<>>
  /\ open' = SubSeq(open, 1, Len(open) - 1)
  /\ UNCHANGED <<pc, step, cmd, tk, maxLen, ids, n, calls, logits, out, status>>

Exit ==
  /\ pc = "return" /\ open = <<>>
  /\ pc' = "exited"
  /\ UNCHANGED <<step, cmd, tk, open, maxLen, ids, n, calls, logits, out, status>>

-----------------------------------------------------------------------------
(* promptTokens                                                            *)

Turn(role, text) == <<tk.id["start_header"]>> \o Encode(role)
                    \o <<tk.id["end_header"]>> \o Encode(Content(text))

PromptTokens ==
  IF cmd.raw THEN <<tk.BOS>> \o Encode(cmd.prompt)
  ELSE <<tk.BOS>>
       \o (IF cmd.system = NoText THEN <<>> ELSE Turn("system", cmd.system) \o <<tk.id["eot"]>>)
       \o Turn("user", cmd.prompt) \o <<tk.id["eot"]>>
       \o Turn("assistant", NoText)

Stop == {tk.EOS} \cup (IF tk.id["end_of_text"] >= 0 THEN {tk.id["end_of_text"]} ELSE {})

\* The sum is checked against the cache length of the model file.
FitsContext(prompt, m) == Wrap(Len(prompt) + m) <= CtxLen

Fits(prompt, m) == Wrap(Len(prompt) + m) <= maxLen

Plan ==
  /\ pc = "plan"
  /\ ids' = PromptTokens
  /\ n' = IF cmd.n <= 0 THEN maxLen - Len(ids') ELSE cmd.n
  /\ \/ Fits(ids', n') /\ n' # 0 /\ pc' = "prefill" /\ UNCHANGED status
     \/ ~Fits(ids', n') /\ Return("exceeds")
     \/ Fits(ids', n') /\ n' = 0 /\ Return("fills")
  /\ UNCHANGED <<step, cmd, tk, open, maxLen, calls, logits, out>>

-----------------------------------------------------------------------------
(* The loops.                                                              *)

Accepts(tok, pos) == pos \in 0 .. maxLen - 1 /\ tok \in Vocab

\* `if logits, err := ...' declares new variables: the outer logits stay.
ShadowedResult(best) == logits

Answered(best) == [best |-> best, after |-> Len(calls) + 1]

Forward(tok, pos) ==
  /\ calls' = Append(calls, [token |-> tok, pos |-> pos])
  /\ \/ Accepts(tok, pos) /\ (\E best \in Vocab : logits' = Answered(best)) /\ UNCHANGED <<pc, status>>
     \/ Accepts(tok, pos) /\ Return("device") /\ UNCHANGED logits
     \/ ~Accepts(tok, pos) /\ Return("refused") /\ UNCHANGED logits

\* for i, id := range ids
Prefill ==
  /\ pc = "prefill" /\ Len(calls) < Len(ids)
  /\ Forward(ids[Len(calls) + 1], Len(calls))
  /\ UNCHANGED <<step, cmd, tk, open, maxLen, ids, n, out>>

StartDecoding ==
  /\ pc = "prefill" /\ Len(calls) >= Len(ids)
  /\ pc' = "decode"
  /\ UNCHANGED <<step, cmd, tk, open, maxLen, ids, n, calls, logits, out, status>>

\* pos of the i-th generated token, counted from the prompt's last position
DecodePosFromLast(i) == Len(ids) + i - 1

\* pos := len(ids); pos++ with each generated token
DecodePos(i) == Len(ids) + i

\* The stop test is made when the token has been printed.
StopAfterPrint == generated > 0 /\ out[generated].token \in Stop

StopNow == logits.best \in Stop

Decode ==
  /\ pc = "decode" /\ generated < n /\ ~StopNow
  /\ out' = Append(out, [token |-> logits.best, after |-> logits.after])
  /\ Forward(logits.best, DecodePos(generated))
  /\ UNCHANGED <<step, cmd, tk, open, maxLen, ids, n>>

\* `break' leaves a switch on the token, not the loop.
FinishAtBudget ==
  /\ pc = "decode" /\ generated >= n
  /\ Return("ok")
  /\ UNCHANGED <<step, cmd, tk, open, maxLen, ids, n, calls, logits, out>>

Finish ==
  /\ pc = "decode" /\ (generated >= n \/ StopNow)
  /\ Return("ok")
  /\ UNCHANGED <<step, cmd, tk, open, maxLen, ids, n, calls, logits, out>>

-----------------------------------------------------------------------------
Next ==
  \/ Acquire \/ AcquireFails \/ CloseNext \/ Exit
  \/ Plan \/ Prefill \/ StartDecoding \/ Decode \/ Finish

Spec == Init /\ [][Next]_vars

-----------------------------------------------------------------------------
(* Properties                                                              *)

TypeOK ==
  /\ pc \in {"setup", "plan", "prefill", "decode", "return", "exited"}
  /\ step \in 1 .. Len(Setup)
  /\ cmd \in Commands /\ tk \in Tokenizers
  /\ maxLen \in 0 .. CtxLen
  /\ ids \in Seq(Int) /\ n \in Int
  /\ calls \in Seq([token : Int, pos : Nat])
  /\ logits \in [best : Vocab, after : Nat]
  /\ out \in Seq([token : Vocab, after : Nat])
  /\ status \in {"running", "setup", "exceeds", "fills", "device", "refused", "ok"}

\* Forward's contract, "positions must be fed in order, each once", and what
\* is fed: the prompt, then every token printed, with nothing skipped.
FedInOrder ==
  \A k \in 1 .. Len(calls) :
    /\ calls[k].pos = k - 1
    /\ k <= Len(ids) + Len(out)
    /\ calls[k].token = IF k <= Len(ids) THEN ids[k] ELSE out[k - Len(ids)].token

\* Every token printed is the arg max of the logits of all the tokens before
\* it, although Forward hands out one slice again and again; none is a stop token.
GreedyFromLatest ==
  \A k \in 1 .. Len(out) : out[k].after = Len(ids) + k - 1 /\ out[k].token \notin Stop

\* A run that ends well has used its budget or has met a stop token.
CompleteAnswer ==
  status = "ok" => generated = n \/ (generated < n /\ logits.best \in Stop)

\* The plan reserves every position: Forward refuses a call only for a token
\* of the prompt the model lacks, unless -n is negative or 0 with a prompt that
\* is too long, or so large that the sum wraps.
PlanFits ==
  status = "refused" =>
    \/ calls[Len(calls)].token \notin Vocab
    \/ cmd.n <= 0 /\ Len(ids) > maxLen
    \/ cmd.n > IntMax - Len(ids)

\* What is in use is open, with everything it depends on: the closers nest
\* (model before kernels before context before file) and all run.
ResourcesNest ==
  /\ open = SubSeq(Resources, 1, Len(open))
  /\ pc \in {"plan", "prefill", "decode"} => open = Resources
  /\ pc = "exited" => open = <<>>

\* run.go says of a prompt as long as the cache: "prompt (%d) fills the
\* %d-token cache; raise -ctx", before anything is fed.
LongPromptReported == calls # <<>> => Len(ids) < maxLen
=============================================================================
