---------------------------- MODULE AnswerProofs ----------------------------
(***************************************************************************)
(* Proofs about the run command: module Generate, for every set of command *)
(* lines, tokenizer, vocabulary, context length and word size, and module  *)
(* Answer, for every vocabulary and prompt.                                *)
(*                                                                         *)
(* That the screen shows the answer: a position of a text is open when the *)
(* bytes from it on are the start of one sequence, not all of it; a text   *)
(* has at most one, both the writer's keep and the reference Incomplete    *)
(* find it, and bytes in front of it do not change it. So a write prints   *)
(* the right prefix of pending and piece together, and Screen is           *)
(* inductive; the text of the tokens grows by the same piece.              *)
(***************************************************************************)
EXTENDS Answer, SequenceTheorems, WellFoundedInduction, TLAPS

-----------------------------------------------------------------------------
(* Module Generate.                                                        *)

\* How far the loops are: the last logits are those of the last call, and
\* every token of the prompt and every token printed has been fed once.
Progress ==
  /\ pc \in {"setup", "plan"} => calls = <<>> /\ out = <<>> /\ logits.after = 0
  /\ pc = "prefill" => out = <<>> /\ Len(calls) <= Len(ids) /\ logits.after = Len(calls)
  /\ pc = "decode" => Len(calls) = Len(ids) + Len(out) /\ logits.after = Len(calls)

\* The closers deferred are the first of the four, as many as the setup is far.
Depth(s) == IF s <= 2 THEN 0 ELSE IF s <= 6 THEN 1 ELSE s - 5
Closers  == {"file", "ctx", "kernels", "model"}
Prefix   == /\ open \in Seq(Closers) /\ Len(open) <= 4
            /\ \A i \in 1 .. Len(open) : open[i] = Resources[i]
Deferred ==
  /\ Prefix
  /\ pc = "setup" => Len(open) = Depth(step)
  /\ pc \in {"plan", "prefill", "decode"} => Len(open) = 4
  /\ pc = "exited" => Len(open) = 0

\* The inductive invariant.
IInv == TypeOK /\ Progress /\ FedInOrder /\ GreedyFromLatest

\* The prompt is a sequence of token ids.
LEMMA PromptTyped ==
  ASSUME cmd \in Commands, tk \in Tokenizers
  PROVE  PromptTokens \in Seq(Int)
<1> DEFINE SeqInt == Seq(Int)
<1>1. \A s \in Seq(Vocab) : s \in SeqInt
  <2>1. Vocab \subseteq Int
    BY GenerateAssumption DEF Vocab
  <2> QED BY <2>1, SeqMonotonic
<1>2. \A x \in Int : <<x>> \in SeqInt
  OBVIOUS
<1>3. \A s, t \in SeqInt : s \o t \in SeqInt
  BY ConcatProperties
<1>4. <<>> \in SeqInt
  OBVIOUS
<1>5. /\ tk.BOS \in Int /\ tk.id["start_header"] \in Int
      /\ tk.id["end_header"] \in Int /\ tk.id["eot"] \in Int
  BY TokensAssumption
<1> HIDE DEF SeqInt
<1>6. /\ Encode(cmd.prompt) \in SeqInt /\ Encode(Content(cmd.prompt)) \in SeqInt
      /\ Encode(Content(cmd.system)) \in SeqInt /\ Encode(Content(NoText)) \in SeqInt
      /\ Encode("system") \in SeqInt /\ Encode("user") \in SeqInt /\ Encode("assistant") \in SeqInt
  BY <1>1, TokensAssumption
<1>7. /\ Turn("system", cmd.system) \in SeqInt /\ Turn("user", cmd.prompt) \in SeqInt
      /\ Turn("assistant", NoText) \in SeqInt
  BY <1>2, <1>3, <1>5, <1>6 DEF Turn
<1>8. (IF cmd.system = NoText THEN <<>> ELSE Turn("system", cmd.system) \o <<tk.id["eot"]>>) \in SeqInt
  BY <1>2, <1>3, <1>4, <1>5, <1>7
<1>9. PromptTokens \in SeqInt
  BY <1>2, <1>3, <1>5, <1>6, <1>7, <1>8 DEF PromptTokens
<1> QED BY <1>9 DEF SeqInt

\* Nothing is fed or printed before the setup is done.
LEMMA InitIInv == Init => IInv
<1> SUFFICES ASSUME Init PROVE IInv
  OBVIOUS
<1>1. /\ calls = <<>> /\ out = <<>> /\ ids = <<>> /\ pc = "setup" /\ step = 1 /\ n = 0 /\ maxLen = 0
      /\ status = "running" /\ logits.after = 0 /\ Len(calls) = 0 /\ Len(out) = 0
  BY DEF Init
<1>2. /\ ids \in Seq(Int) /\ calls \in Seq([token : Int, pos : Nat])
      /\ out \in Seq([token : Vocab, after : Nat])
  BY <1>1
<1>3. logits \in [best : Vocab, after : Nat]
  BY GenerateAssumption DEF Init, Vocab
<1>4. TypeOK
  BY <1>1, <1>2, <1>3, GenerateAssumption DEF TypeOK, Init, Setup
<1>5. Progress /\ FedInOrder /\ GreedyFromLatest
  BY <1>1 DEF Progress, FedInOrder, GreedyFromLatest
<1> QED BY <1>4, <1>5 DEF IInv

\* A call of Forward for the next position extends the transcript.
LEMMA ForwardFeeds ==
  ASSUME IInv, NEW tok \in Int, Forward(tok, Len(calls))
  PROVE  /\ calls' \in Seq([token : Int, pos : Nat]) /\ Len(calls') = Len(calls) + 1
         /\ \A k \in 1 .. Len(calls) : calls'[k] = calls[k]
         /\ calls'[Len(calls')] = [token |-> tok, pos |-> Len(calls)]
         /\ logits' \in [best : Vocab, after : Nat]
         /\ pc' = "return" \/ (pc' = pc /\ logits'.after = Len(calls'))
         /\ status' \in {"device", "refused", status}
<1> DEFINE Calls == [token : Int, pos : Nat]
           call  == [token |-> tok, pos |-> Len(calls)]
<1>1. calls \in Seq(Calls) /\ Len(calls) \in Nat /\ calls' = Append(calls, call)
  BY DEF IInv, TypeOK, Forward
<1>2. call \in Calls
  BY <1>1
<1>3. /\ calls' \in Seq(Calls) /\ Len(calls') = Len(calls) + 1
      /\ \A k \in 1 .. Len(calls) : calls'[k] = calls[k]
      /\ calls'[Len(calls')] = call
  <2> HIDE DEF Calls, call
  <2> QED BY <1>1, <1>2, AppendProperties
<1>4. CASE \E best \in Vocab : logits' = Answered(best) /\ UNCHANGED <<pc, status>>
  BY <1>1, <1>3, <1>4 DEF Answered
<1>5. CASE (Return("device") \/ Return("refused")) /\ UNCHANGED logits
  BY <1>3, <1>5 DEF Return, IInv, TypeOK
<1> QED BY <1>4, <1>5 DEF Forward

\* Every step keeps the invariant.
LEMMA NextIInv == IInv /\ [Next]_vars => IInv'
<1> SUFFICES ASSUME IInv, [Next]_vars PROVE IInv'
  OBVIOUS
<1>a. /\ ids \in Seq(Int) /\ Len(ids) \in Nat
      /\ calls \in Seq([token : Int, pos : Nat]) /\ Len(calls) \in Nat
      /\ out \in Seq([token : Vocab, after : Nat]) /\ Len(out) \in Nat
  BY DEF IInv, TypeOK
<1>1. CASE Acquire
  <2>1. UNCHANGED <<cmd, tk, ids, n, calls, logits, out, status>> /\ pc = "setup"
    BY <1>1 DEF Acquire
  <2>2. step' \in 1 .. Len(Setup) /\ pc' \in {"setup", "plan"}
    <3>1. Len(Setup) = 8
      BY DEF Setup
    <3>2. step \in 1 .. 8
      BY <3>1 DEF IInv, TypeOK
    <3> QED BY <1>1, <2>1, <3>1, <3>2 DEF Acquire
  <2>3. maxLen' \in 0 .. CtxLen
    <3>1. cmd.ctx \in Int
      BY GenerateAssumption DEF IInv, TypeOK
    <3>2. ClampLen(cmd.ctx) \in 0 .. CtxLen
      BY <3>1, GenerateAssumption DEF ClampLen
    <3> QED BY <1>1, <3>2 DEF Acquire, IInv, TypeOK
  <2>4. Len(Setup)' = Len(Setup)
    BY DEF Setup
  <2>5. TypeOK'
    BY <2>1, <2>2, <2>3, <2>4 DEF IInv, TypeOK
  <2>6. Progress'
    BY <2>1, <2>2 DEF IInv, Progress
  <2>7. FedInOrder' /\ GreedyFromLatest'
    BY <2>1 DEF IInv, FedInOrder, GreedyFromLatest, Stop
  <2> QED BY <2>5, <2>6, <2>7 DEF IInv
<1>2. CASE AcquireFails \/ CloseNext \/ Exit \/ Finish
  BY <1>2
  DEF AcquireFails, CloseNext, Exit, Finish, Return, IInv, TypeOK, Progress, FedInOrder, GreedyFromLatest, Stop
<1>3. CASE Plan
  <2>1. ids' \in Seq(Int) /\ Len(ids') \in Nat
    BY <1>3, PromptTyped DEF Plan, IInv, TypeOK
  <2>2. n' \in Int
    BY <1>3, <2>1, GenerateAssumption DEF Plan, IInv, TypeOK
  <2>3. calls = <<>> /\ out = <<>> /\ Len(calls) = 0 /\ Len(out) = 0 /\ UNCHANGED <<calls, out>>
    BY <1>3 DEF Plan, IInv, Progress
  <2>4. TypeOK'
    BY <1>3, <2>1, <2>2 DEF Plan, Return, IInv, TypeOK
  <2>5. UNCHANGED logits /\ logits.after = 0 /\ pc' \in {"prefill", "return"}
    BY <1>3 DEF Plan, Return, IInv, Progress
  <2> QED BY <2>1, <2>3, <2>4, <2>5 DEF IInv, Progress, FedInOrder, GreedyFromLatest
<1>4. CASE Prefill
  <2>1. ids[Len(calls) + 1] \in Int
    BY <1>4, <1>a, ElementOfSeq DEF Prefill
  <2>2. UNCHANGED <<step, cmd, tk, open, maxLen, ids, n, out>> /\ out = <<>> /\ Len(out) = 0
    BY <1>4 DEF Prefill, IInv, Progress
  <2>3. pc = "prefill" /\ Len(calls) < Len(ids) /\ Forward(ids[Len(calls) + 1], Len(calls))
    BY <1>4 DEF Prefill
  <2>4. /\ calls' \in Seq([token : Int, pos : Nat]) /\ Len(calls') = Len(calls) + 1
        /\ \A k \in 1 .. Len(calls) : calls'[k] = calls[k]
        /\ calls'[Len(calls')] = [token |-> ids[Len(calls) + 1], pos |-> Len(calls)]
        /\ logits' \in [best : Vocab, after : Nat]
        /\ pc' = "return" \/ (pc' = pc /\ logits'.after = Len(calls'))
        /\ status' \in {"device", "refused", status}
    BY <1>a, <2>1, <2>3, ForwardFeeds
  <2>5. TypeOK'
    BY <2>2, <2>3, <2>4 DEF IInv, TypeOK
  <2>6. Progress'
    BY <1>a, <2>2, <2>3, <2>4 DEF Progress
  <2>7. FedInOrder'
    <3> SUFFICES ASSUME NEW k \in 1 .. Len(calls')
                 PROVE  /\ calls'[k].pos = k - 1 /\ k <= Len(ids)
                        /\ calls'[k].token = ids[k]
      BY <1>a, <2>2 DEF FedInOrder
    <3>1. CASE k = Len(calls')
      BY <1>a, <2>3, <2>4, <3>1
    <3>2. CASE k # Len(calls')
      <4>1. k \in 1 .. Len(calls)
        BY <1>a, <2>4, <3>2
      <4>2. calls[k].pos = k - 1 /\ k <= Len(ids) /\ calls[k].token = ids[k]
        BY <1>a, <2>2, <4>1 DEF IInv, FedInOrder
      <4> QED BY <2>4, <4>1, <4>2
    <3> QED BY <3>1, <3>2
  <2>8. GreedyFromLatest'
    BY <2>2 DEF IInv, GreedyFromLatest
  <2> QED BY <2>5, <2>6, <2>7, <2>8 DEF IInv
<1>5. CASE StartDecoding
  BY <1>5, <1>a DEF StartDecoding, IInv, TypeOK, Progress, FedInOrder, GreedyFromLatest, Stop
<1>6. CASE Decode
  <2>1. /\ logits.best \in Int /\ logits.best \in Vocab /\ logits.after = Len(calls)
        /\ Len(calls) = Len(ids) + Len(out)
    BY <1>6 DEF Decode, IInv, TypeOK, Progress, Vocab
  <2>2. /\ UNCHANGED <<step, cmd, tk, open, maxLen, ids, n>> /\ pc = "decode"
        /\ logits.best \notin Stop /\ Forward(logits.best, Len(calls))
    BY <1>6, <2>1 DEF Decode, DecodePos, generated, StopNow
  <2>3. /\ out' \in Seq([token : Vocab, after : Nat]) /\ Len(out') = Len(out) + 1
        /\ \A k \in 1 .. Len(out) : out'[k] = out[k]
        /\ out'[Len(out')] = [token |-> logits.best, after |-> Len(calls)]
    BY <1>6, <1>a, <2>1 DEF Decode
  <2>4. /\ calls' \in Seq([token : Int, pos : Nat]) /\ Len(calls') = Len(calls) + 1
        /\ \A k \in 1 .. Len(calls) : calls'[k] = calls[k]
        /\ calls'[Len(calls')] = [token |-> logits.best, pos |-> Len(calls)]
        /\ logits' \in [best : Vocab, after : Nat]
        /\ pc' = "return" \/ (pc' = pc /\ logits'.after = Len(calls'))
        /\ status' \in {"device", "refused", status}
    BY <1>a, <2>1, <2>2, ForwardFeeds
  <2>5. TypeOK'
    BY <2>2, <2>3, <2>4 DEF IInv, TypeOK
  <2>6. Progress'
    <3>1. Len(calls') = Len(ids') + Len(out')
      BY <1>a, <2>1, <2>2, <2>3, <2>4
    <3>2. pc' = "return" \/ (pc' = "decode" /\ logits'.after = Len(calls'))
      BY <2>2, <2>4
    <3> QED BY <3>1, <3>2 DEF Progress
  <2>7. FedInOrder'
    <3> SUFFICES ASSUME NEW k \in 1 .. Len(calls')
                 PROVE  /\ calls'[k].pos = k - 1
                        /\ k <= Len(ids) + Len(out')
                        /\ calls'[k].token = IF k <= Len(ids) THEN ids[k] ELSE out'[k - Len(ids)].token
      BY <2>2 DEF FedInOrder
    <3>1. CASE k = Len(calls')
      BY <1>a, <2>1, <2>3, <2>4, <3>1
    <3>2. CASE k # Len(calls')
      <4>1. k \in 1 .. Len(calls) /\ k - Len(ids) <= Len(out)
        BY <1>a, <2>1, <2>4, <3>2
      <4>2. /\ calls[k].pos = k - 1 /\ k <= Len(ids) + Len(out)
            /\ calls[k].token = IF k <= Len(ids) THEN ids[k] ELSE out[k - Len(ids)].token
        BY <4>1 DEF IInv, FedInOrder
      <4>3. calls'[k] = calls[k]
        BY <2>4, <4>1
      <4>4. k <= Len(ids) + Len(out') /\ k \in Nat
        BY <1>a, <2>3, <4>1, <4>2
      <4>5. k > Len(ids) => out'[k - Len(ids)] = out[k - Len(ids)]
        <5>1. k > Len(ids) => k - Len(ids) \in 1 .. Len(out)
          BY <1>a, <4>1
        <5> QED BY <2>3, <5>1
      <4>6. calls'[k].token = IF k <= Len(ids) THEN ids[k] ELSE out'[k - Len(ids)].token
        <5>1. CASE k <= Len(ids)
          BY <4>2, <4>3, <5>1
        <5>2. CASE k > Len(ids)
          BY <1>a, <4>2, <4>3, <4>4, <4>5, <5>2
        <5> QED BY <1>a, <4>4, <5>1, <5>2
      <4> QED BY <4>2, <4>3, <4>4, <4>6
    <3> QED BY <3>1, <3>2
  <2>8. GreedyFromLatest'
    <3>1. Stop' = Stop
      BY <2>2 DEF Stop
    <3> SUFFICES ASSUME NEW k \in 1 .. Len(out')
                 PROVE  out'[k].after = Len(ids) + k - 1 /\ out'[k].token \notin Stop
      BY <2>2, <3>1 DEF GreedyFromLatest
    <3>2. CASE k = Len(out')
      BY <1>a, <2>1, <2>2, <2>3, <3>2
    <3>3. CASE k # Len(out')
      <4>1. k \in 1 .. Len(out)
        BY <1>a, <2>3, <3>3
      <4> QED BY <2>3, <4>1 DEF IInv, GreedyFromLatest
    <3> QED BY <3>2, <3>3
  <2> QED BY <2>5, <2>6, <2>7, <2>8 DEF IInv
<1>7. CASE UNCHANGED vars
  BY <1>7 DEF vars, IInv, TypeOK, Progress, FedInOrder, GreedyFromLatest, Stop
<1> QED BY <1>1, <1>2, <1>3, <1>4, <1>5, <1>6, <1>7 DEF Next

\* The invariant holds in every state of a run.
LEMMA SpecIInv == Spec => []IInv
  BY InitIInv, NextIInv, PTL DEF Spec

\* The state of a run always has its type.
THEOREM TypeCorrect == Spec => []TypeOK
<1>1. IInv => TypeOK
  BY DEF IInv
<1> QED BY <1>1, SpecIInv, PTL

\* Forward's contract is kept, and the tokens fed are the transcript.
THEOREM AlwaysFedInOrder == Spec => []FedInOrder
<1>1. IInv => FedInOrder
  BY DEF IInv
<1> QED BY <1>1, SpecIInv, PTL

\* Every token printed comes from the logits of all the tokens before it.
THEOREM AlwaysGreedyFromLatest == Spec => []GreedyFromLatest
<1>1. IInv => GreedyFromLatest
  BY DEF IInv
<1> QED BY <1>1, SpecIInv, PTL

-----------------------------------------------------------------------------
(* The plan.                                                               *)

\* What Plan has checked, while the loops run on it.
Planned ==
  pc \in {"prefill", "decode"} =>
    /\ n = IF cmd.n <= 0 THEN maxLen - Len(ids) ELSE cmd.n
    /\ Fits(ids, n)

\* The second inductive invariant, on top of the first: the cache is never
\* overrun, nor the budget.
PlanInv ==
  /\ Planned
  /\ pc \in {"setup", "plan", "prefill", "decode"} => status = "running"
  /\ pc \in {"prefill", "decode"} => Len(calls) <= maxLen
  /\ pc = "decode" => generated <= n
  /\ CompleteAnswer
  /\ PlanFits

\* Sums that a machine word holds are what they are.
LEMMA WrapIsExact ==
  ASSUME NEW x \in Int, -(IntMax + 1) <= x, x <= IntMax
  PROVE  Wrap(x) = x
<1>1. IntMax \in Nat
  BY GenerateAssumption
<1> DEFINE M == 2 * (IntMax + 1)
           y == x + IntMax + 1
<1>2. M \in Nat /\ M > 0 /\ y \in Nat /\ y < M
  BY <1>1
<1>3. y % M = y
  <2> HIDE DEF M, y
  <2> QED BY <1>2
<1> QED BY <1>1, <1>3 DEF Wrap

\* A position below the sum that Plan has checked is in the cache, but for a
\* prompt that is too long and a sum that wraps.
LEMMA PlannedPositions ==
  ASSUME IInv, Planned, pc \in {"prefill", "decode"},
         ~(cmd.n <= 0 /\ Len(ids) > maxLen), ~(cmd.n > IntMax - Len(ids))
  PROVE  n >= 0 /\ Len(ids) + n <= maxLen
<1>1. /\ Len(ids) \in Nat /\ maxLen \in Nat /\ maxLen <= IntMax /\ IntMax \in Nat
      /\ cmd.n \in Int /\ cmd.n <= IntMax
  BY GenerateAssumption DEF IInv, TypeOK
<1>2. CASE cmd.n <= 0
  BY <1>1, <1>2 DEF Planned
<1>3. CASE cmd.n > 0
  <2>1. n = cmd.n /\ Wrap(Len(ids) + n) <= maxLen
    BY <1>1, <1>3 DEF Planned, Fits
  <2>2. Wrap(Len(ids) + n) = Len(ids) + n
    BY <1>1, <1>3, <2>1, WrapIsExact
  <2> QED BY <1>1, <1>3, <2>1, <2>2
<1> QED BY <1>1, <1>2, <1>3

\* A refused call keeps to what PlanFits says of it.
LEMMA RefusalFits ==
  ASSUME IInv, Planned, pc \in {"prefill", "decode"},
         NEW tok \in Int, NEW pos \in Nat, ~Accepts(tok, pos),
         pos < Len(ids) \/ pos < Len(ids) + n
  PROVE  \/ tok \notin Vocab
         \/ cmd.n <= 0 /\ Len(ids) > maxLen
         \/ cmd.n > IntMax - Len(ids)
<1> SUFFICES ASSUME ~(cmd.n <= 0 /\ Len(ids) > maxLen), ~(cmd.n > IntMax - Len(ids))
             PROVE  tok \notin Vocab
  OBVIOUS
<1>1. Len(ids) \in Nat /\ maxLen \in Nat /\ n \in Int
  BY DEF IInv, TypeOK
<1>2. pos \in 0 .. maxLen - 1
  BY <1>1, PlannedPositions
<1> QED BY <1>2 DEF Accepts

\* Nothing is planned, fed or refused yet.
LEMMA InitPlanInv == Init => PlanInv
  BY DEF Init, PlanInv, Planned, CompleteAnswer, PlanFits

\* Every step keeps the second invariant.
LEMMA NextPlanInv == IInv /\ PlanInv /\ [Next]_vars => PlanInv'
<1> SUFFICES ASSUME IInv, PlanInv, [Next]_vars PROVE PlanInv'
  OBVIOUS
<1>a. /\ ids \in Seq(Int) /\ Len(ids) \in Nat /\ n \in Int /\ maxLen \in Nat
      /\ Len(calls) \in Nat /\ generated \in Nat
  BY DEF IInv, TypeOK, generated
<1>1. CASE Acquire
  BY <1>1 DEF Acquire, PlanInv, Planned, CompleteAnswer, PlanFits
<1>2. CASE AcquireFails \/ CloseNext \/ Exit
  BY <1>2 DEF AcquireFails, CloseNext, Exit, Return, PlanInv, Planned, CompleteAnswer, PlanFits,
              Fits, generated, Stop
<1>3. CASE Plan
  <2>1. /\ calls' = <<>> /\ Len(calls') = 0 /\ status = "running" /\ UNCHANGED <<cmd, maxLen>>
        /\ pc' \in {"prefill", "return"} /\ (pc' = "prefill" => status' = "running" /\ Fits(ids', n'))
        /\ n' = IF cmd.n <= 0 THEN maxLen - Len(ids') ELSE cmd.n
        /\ status' \notin {"ok", "refused"}
    BY <1>3 DEF Plan, Return, IInv, Progress, PlanInv
  <2> QED BY <1>a, <2>1 DEF PlanInv, Planned, Fits, CompleteAnswer, PlanFits
<1>4. CASE Prefill
  <2>1. ids[Len(calls) + 1] \in Int
    BY <1>4, <1>a, ElementOfSeq DEF Prefill
  <2>2. /\ UNCHANGED <<cmd, maxLen, ids, n, out>> /\ pc = "prefill" /\ status = "running"
        /\ Len(calls) < Len(ids) /\ Forward(ids[Len(calls) + 1], Len(calls))
    BY <1>4 DEF Prefill, PlanInv
  <2>3. Len(calls') = Len(calls) + 1 /\ calls'[Len(calls')].token = ids[Len(calls) + 1]
    <3>1. /\ Len(calls') = Len(calls) + 1
          /\ calls'[Len(calls')] = [token |-> ids[Len(calls) + 1], pos |-> Len(calls)]
      BY <2>1, <2>2, ForwardFeeds
    <3> QED BY <3>1
  <2>4. CASE Accepts(ids[Len(calls) + 1], Len(calls))
    BY <1>a, <2>2, <2>3, <2>4
    DEF Forward, Accepts, Return, PlanInv, Planned, Fits, CompleteAnswer, PlanFits
  <2>5. CASE ~Accepts(ids[Len(calls) + 1], Len(calls))
    <3>1. pc' = "return" /\ status' = "refused"
      BY <2>2, <2>5 DEF Forward, Return
    <3>2. \/ ids[Len(calls) + 1] \notin Vocab
          \/ cmd.n <= 0 /\ Len(ids) > maxLen
          \/ cmd.n > IntMax - Len(ids)
      BY <1>a, <2>1, <2>2, <2>5, RefusalFits DEF PlanInv
    <3> QED BY <2>2, <2>3, <3>1, <3>2 DEF PlanInv, Planned, CompleteAnswer, PlanFits
  <2> QED BY <2>4, <2>5
<1>5. CASE StartDecoding
  <2>1. /\ pc = "prefill" /\ pc' = "decode" /\ out = <<>> /\ generated = 0 /\ Len(calls) >= Len(ids)
        /\ UNCHANGED <<cmd, maxLen, ids, n, calls, out, logits, tk, status>>
    BY <1>5 DEF StartDecoding, IInv, Progress, generated
  <2>2. Len(ids) <= maxLen /\ Planned
    BY <1>a, <2>1 DEF PlanInv
  <2>3. n >= 0
    <3>1. cmd.n \in Int
      BY GenerateAssumption DEF IInv, TypeOK
    <3> QED BY <1>a, <2>1, <2>2, <3>1 DEF Planned
  <2> QED BY <1>a, <2>1, <2>2, <2>3 DEF PlanInv, Planned, Fits, CompleteAnswer, PlanFits, generated
<1>6. CASE Decode
  <2>1. /\ UNCHANGED <<cmd, maxLen, ids, n>> /\ pc = "decode" /\ status = "running"
        /\ generated < n /\ Len(calls) = Len(ids) + generated /\ generated' = generated + 1
        /\ logits.best \in Int /\ Forward(logits.best, Len(calls))
    <3>1. Len(out') = Len(out) + 1
      BY <1>6 DEF Decode, IInv, TypeOK
    <3>2. pc = "decode" /\ Len(calls) = Len(ids) + Len(out) /\ logits.best \in Int
      BY <1>6 DEF Decode, IInv, TypeOK, Progress, Vocab
    <3> QED BY <1>6, <3>1, <3>2 DEF Decode, DecodePos, PlanInv, generated
  <2>2. Len(calls') = Len(calls) + 1 /\ calls'[Len(calls')].token = logits.best
    <3>1. Len(calls') = Len(calls) + 1 /\ calls'[Len(calls')] = [token |-> logits.best, pos |-> Len(calls)]
      BY <2>1, ForwardFeeds
    <3> QED BY <3>1
  <2>3. CASE Accepts(logits.best, Len(calls))
    BY <1>a, <2>1, <2>2, <2>3
    DEF Forward, Accepts, Return, PlanInv, Planned, Fits, CompleteAnswer, PlanFits
  <2>4. CASE ~Accepts(logits.best, Len(calls))
    <3>1. pc' = "return" /\ status' = "refused"
      BY <2>1, <2>4 DEF Forward, Return
    <3>2. \/ logits.best \notin Vocab
          \/ cmd.n <= 0 /\ Len(ids) > maxLen
          \/ cmd.n > IntMax - Len(ids)
      BY <1>a, <2>1, <2>4, RefusalFits DEF PlanInv
    <3> QED BY <2>1, <2>2, <3>1, <3>2 DEF PlanInv, Planned, CompleteAnswer, PlanFits
  <2> QED BY <2>3, <2>4
<1>7. CASE Finish
  <2>1. pc = "decode" /\ generated <= n /\ (generated >= n \/ logits.best \in Stop)
    BY <1>7 DEF Finish, PlanInv, StopNow
  <2>2. generated = n \/ (generated < n /\ logits.best \in Stop)
    BY <1>a, <2>1
  <2>3. UNCHANGED <<logits, out, n, tk>> /\ status' = "ok" /\ pc' = "return"
    BY <1>7 DEF Finish, Return
  <2> QED BY <2>2, <2>3 DEF PlanInv, Planned, CompleteAnswer, PlanFits, generated, Stop
<1>8. CASE UNCHANGED vars
  BY <1>8 DEF vars, PlanInv, Planned, Fits, CompleteAnswer, PlanFits, generated, Stop
<1> QED BY <1>1, <1>2, <1>3, <1>4, <1>5, <1>6, <1>7, <1>8 DEF Next

\* The second invariant holds in every state of a run.
LEMMA SpecPlanInv == Spec => []PlanInv
  BY SpecIInv, InitPlanInv, NextPlanInv, PTL DEF Spec

\* A position is refused only to a prompt that is too long with no -n, or to a
\* -n whose sum with the prompt wraps.
THEOREM PlanAlwaysFits == Spec => []PlanFits
<1>1. PlanInv => PlanFits
  BY DEF PlanInv
<1> QED BY <1>1, SpecPlanInv, PTL

\* A run that ends well has spent its budget or met a stop token.
THEOREM AnswersAreComplete == Spec => []CompleteAnswer
<1>1. PlanInv => CompleteAnswer
  BY DEF PlanInv
<1> QED BY <1>1, SpecPlanInv, PTL

-----------------------------------------------------------------------------
(* Resources.                                                              *)

\* What the setup calls are, one by one.
LEMMA SetupCalls ==
  /\ Len(Setup) = 8 /\ Len(Resources) = 4 /\ Resources \in Seq(Closers)
  /\ \A k \in {1, 3, 4, 5} : ~IsResource(Setup[k])
  /\ \A k \in {2, 6, 7, 8} : IsResource(Setup[k]) /\ Setup[k] = Resources[Depth(k) + 1]
<1>1. /\ Len(Setup) = 8 /\ Len(Resources) = 4
      /\ Setup[1] = "resolve" /\ Setup[2] = "file" /\ Setup[3] = "tokenizer" /\ Setup[4] = "cuda"
      /\ Setup[5] = "device" /\ Setup[6] = "ctx" /\ Setup[7] = "kernels" /\ Setup[8] = "model"
      /\ Resources[1] = "file" /\ Resources[2] = "ctx" /\ Resources[3] = "kernels" /\ Resources[4] = "model"
  BY DEF Setup, Resources
<1>4. Resources \in Seq(Closers)
  BY DEF Resources, Closers
<1>2. \A s : IsResource(s) <=> s \in {"file", "ctx", "kernels", "model"}
  <2>1. \A k \in 1 .. 4 : k = 1 \/ k = 2 \/ k = 3 \/ k = 4
    OBVIOUS
  <2> QED BY <1>1, <2>1 DEF IsResource
<1>3. Depth(2) = 0 /\ Depth(6) = 1 /\ Depth(7) = 2 /\ Depth(8) = 3
  BY DEF Depth
<1> QED BY <1>1, <1>2, <1>3, <1>4

\* One more closer.
LEMMA OneMore ==
  ASSUME Prefix, Len(open) < 4, open' = Append(open, Resources[Len(open) + 1])
  PROVE  Prefix' /\ Len(open') = Len(open) + 1
<1> DEFINE r == Resources[Len(open) + 1]
<1>1. r \in Closers
  BY SetupCalls, ElementOfSeq DEF Prefix
<1>2. open \in Seq(Closers) /\ open' = Append(open, r) /\ Len(open) \in Nat
  BY DEF Prefix
<1>3. /\ open' \in Seq(Closers) /\ Len(open') = Len(open) + 1
      /\ \A i \in 1 .. Len(open) : open'[i] = open[i]
      /\ open'[Len(open) + 1] = r
  <2> HIDE DEF r
  <2> QED BY <1>1, <1>2, AppendProperties
<1>4. Resources' = Resources
  BY DEF Resources
<1> QED BY <1>2, <1>3, <1>4 DEF Prefix

\* One closer less.
LEMMA OneLess ==
  ASSUME Prefix, open # <<>>, open' = SubSeq(open, 1, Len(open) - 1)
  PROVE  Prefix' /\ Len(open) \in Nat \ {0} /\ Len(open') = Len(open) - 1
<1>1. open \in Seq(Closers) /\ Len(open) \in Nat
  BY DEF Prefix
<1>2. Len(open) > 0
  BY <1>1, EmptySeq
<1>5. \A i \in 1 .. Len(open) - 1 : open[i] \in Closers
  BY <1>1, ElementOfSeq
<1>3. /\ open' \in Seq(Closers) /\ Len(open') = Len(open) - 1
      /\ \A i \in 1 .. Len(open') : open'[i] = open[i]
  <2> DEFINE k == Len(open) - 1
             s == SubSeq(open, 1, k)
  <2>1. k \in Nat /\ open' = s
    BY <1>1, <1>2
  <2>2. /\ s \in Seq(Closers) /\ Len(s) = IF 1 <= k THEN k - 1 + 1 ELSE 0
        /\ \A i \in 1 .. k - 1 + 1 : s[i] = open[1 + i - 1]
    <3> HIDE DEF k
    <3> QED BY <1>5, <2>1, SubSeqProperties DEF k
  <2> HIDE DEF s, k
  <2>3. k - 1 + 1 = k /\ (IF 1 <= k THEN k - 1 + 1 ELSE 0) = k /\ \A i \in 1 .. k : 1 + i - 1 = i
    BY <2>1
  <2>4. s \in Seq(Closers) /\ Len(s) = k /\ \A i \in 1 .. k : s[i] = open[i]
    BY <2>2, <2>3
  <2> QED BY <2>1, <2>4 DEF k
<1>4. Resources' = Resources
  BY DEF Resources
<1> QED BY <1>1, <1>2, <1>3, <1>4 DEF Prefix

\* Each setup call, and each Close, leaves the closers as they should be.
LEMMA NextDeferred == IInv /\ Deferred /\ [Next]_vars => Deferred'
<1> SUFFICES ASSUME IInv, Deferred, [Next]_vars PROVE Deferred'
  OBVIOUS
<1>1. CASE Acquire
  <2>1. step \in 1 .. 8 /\ pc = "setup" /\ Len(open) = Depth(step)
    BY <1>1, SetupCalls DEF Acquire, IInv, TypeOK, Deferred
  <2>2. CASE step \in {1, 3, 4, 5}
    <3>1. UNCHANGED <<open, pc>> /\ step' = step + 1
      BY <1>1, <2>1, <2>2, SetupCalls DEF Acquire
    <3>2. Depth(step + 1) = Depth(step)
      BY <2>2 DEF Depth
    <3>3. Prefix'
      BY <3>1 DEF Prefix, Deferred, Resources
    <3>4. Len(open') = Depth(step') /\ pc' = "setup"
      BY <2>1, <3>1, <3>2
    <3> QED BY <3>3, <3>4 DEF Deferred
  <2>3. CASE step \in {2, 6, 7, 8}
    <3>1. Len(open) < 4
      BY <2>1, <2>3 DEF Depth
    <3>2. open' = Append(open, Resources[Len(open) + 1])
      BY <1>1, <2>1, <2>3, SetupCalls DEF Acquire
    <3>3. Prefix' /\ Len(open') = Len(open) + 1
      BY <3>1, <3>2, OneMore DEF Deferred
    <3>4. CASE step = 8
      <4>1. pc' = "plan" /\ Len(open') = 4
        BY <1>1, <2>1, <3>3, <3>4, SetupCalls DEF Acquire, Depth
      <4> QED BY <3>3, <4>1 DEF Deferred
    <3>5. CASE step \in {2, 6, 7}
      <4>1. pc' = "setup" /\ step' = step + 1
        BY <1>1, <2>1, <3>5, SetupCalls DEF Acquire
      <4>2. Depth(step + 1) = Depth(step) + 1
        BY <3>5 DEF Depth
      <4>3. Len(open') = Depth(step')
        BY <2>1, <3>3, <4>1, <4>2
      <4> QED BY <3>3, <4>1, <4>3 DEF Deferred
    <3> QED BY <2>3, <3>4, <3>5
  <2> QED BY <2>1, <2>2, <2>3
<1>2. CASE CloseNext
  <2>1. pc' = "return" /\ open # <<>> /\ open' = SubSeq(open, 1, Len(open) - 1)
    BY <1>2 DEF CloseNext
  <2>2. Prefix'
    BY <2>1, OneLess DEF Deferred
  <2> QED BY <2>1, <2>2 DEF Deferred
<1>3. CASE Exit
  <2>1. open = <<>> /\ open' = open /\ pc' = "exited" /\ Len(open') = 0
    BY <1>3 DEF Exit
  <2>2. Prefix'
    BY <2>1 DEF Deferred, Prefix, Resources
  <2> QED BY <2>1, <2>2 DEF Deferred
<1>4. CASE AcquireFails \/ Plan \/ Prefill \/ StartDecoding \/ Decode \/ Finish
  <2>1. open' = open /\ pc # "exited" /\ pc' \notin {"setup", "exited"}
    BY <1>4 DEF AcquireFails, Plan, Prefill, StartDecoding, Decode, Finish, Forward, Return
  <2>2. pc' \in {"plan", "prefill", "decode"} => pc \in {"plan", "prefill", "decode"}
    BY <1>4 DEF AcquireFails, Plan, Prefill, StartDecoding, Decode, Finish, Forward, Return
  <2>3. Prefix'
    BY <2>1 DEF Deferred, Prefix, Resources
  <2> QED BY <2>1, <2>2, <2>3 DEF Deferred
<1>5. CASE UNCHANGED vars
  BY <1>5 DEF vars, Deferred, Prefix, Resources
<1> QED BY <1>1, <1>2, <1>3, <1>4, <1>5 DEF Next

\* What is deferred is what is in use, in the order it was acquired.
LEMMA DeferredNests == Deferred => ResourcesNest
<1> SUFFICES ASSUME Deferred PROVE ResourcesNest
  OBVIOUS
<1>1. open \in Seq(Closers) /\ Len(open) \in 0 .. 4
  <2>1. open \in Seq(Closers) /\ Len(open) <= 4
    BY DEF Deferred, Prefix
  <2>2. Len(open) \in Nat
    BY <2>1, LenProperties
  <2>3. \A k \in Nat : k <= 4 => k \in 0 .. 4
    OBVIOUS
  <2>4. Len(open) \in 0 .. 4
    BY <2>1, <2>2, <2>3, Zenon
  <2> QED BY <2>1, <2>4
<1> DEFINE pre == SubSeq(Resources, 1, Len(open))
<1>2. /\ pre \in Seq(Closers) /\ Len(pre) = Len(open)
      /\ \A i \in 1 .. Len(open) : pre[i] = Resources[i]
  <2>1. \A i \in 1 .. Len(open) : Resources[i] \in Closers
    BY <1>1, SetupCalls, ElementOfSeq
  <2> DEFINE k == Len(open)
  <2>2. /\ pre \in Seq(Closers) /\ Len(pre) = IF 1 <= k THEN k - 1 + 1 ELSE 0
        /\ \A i \in 1 .. k - 1 + 1 : pre[i] = Resources[1 + i - 1]
    BY <1>1, <2>1, SubSeqProperties
  <2> HIDE DEF pre
  <2> QED BY <1>1, <2>2
<1>3. open = pre
  <2> HIDE DEF pre
  <2> QED BY <1>1, <1>2, SeqEqual DEF Deferred, Prefix
<1>4. Len(open) = 4 => open = Resources
  BY <1>1, SetupCalls, SeqEqual DEF Deferred, Prefix
<1>5. Len(open) = 0 => open = <<>>
  BY <1>1, EmptySeq
<1> QED BY <1>3, <1>4, <1>5 DEF ResourcesNest, Deferred

\* Deferred holds in every state of a run.
LEMMA SpecDeferred == Spec => []Deferred
<1>1. Init => Deferred
  BY DEF Init, Deferred, Prefix, Resources, Depth
<1> QED BY <1>1, SpecIInv, NextDeferred, PTL DEF Spec

\* Whatever is in use is open with all it depends on, and nothing stays open.
THEOREM ResourcesAlwaysNest == Spec => []ResourcesNest
  BY DeferredNests, SpecDeferred, PTL

-----------------------------------------------------------------------------
(* run comes to an end.                                                    *)

\* The parts of run, counted from its end.
Part ==
  CASE pc = "setup"   -> 5
    [] pc = "plan"    -> 4
    [] pc = "prefill" -> 3
    [] pc = "decode"  -> 2
    [] pc = "return"  -> 1
    [] OTHER          -> 0

\* What is left of the part: calls of the setup, prompt tokens to feed, tokens
\* of the budget, closers to call.
Left ==
  CASE pc = "setup"   -> Len(Setup) - step
    [] pc = "prefill" -> Len(ids) - Len(calls)
    [] pc = "decode"  -> n - generated
    [] pc = "return"  -> Len(open)
    [] OTHER          -> 0

Shrinks ==
  \/ Part' < Part
  \/ Part' = Part /\ Left \in Nat /\ Left' \in Nat /\ Left' < Left

\* Every step of run begins a later part or leaves less of its part: whatever
\* -n and -ctx say, however large, negative or 0, and whatever the model
\* answers, run cannot go on for ever.
THEOREM EveryStepShrinks == Spec => [][Shrinks]_vars
<1>1. IInv /\ Deferred /\ [Next]_vars => [Shrinks]_vars
  <2> SUFFICES ASSUME IInv, Deferred, Next PROVE Shrinks
    OBVIOUS
  <2>1. /\ Len(Setup) = 8 /\ step \in 1 .. 8 /\ Len(ids) \in Nat /\ Len(calls) \in Nat
        /\ Len(out) \in Nat /\ n \in Int /\ Len(open) \in Nat
    BY DEF Setup, IInv, TypeOK, Deferred, Prefix
  <2>2. CASE Acquire
    BY <2>1, <2>2 DEF Acquire, Shrinks, Part, Left
  <2>3. CASE AcquireFails
    BY <2>3 DEF AcquireFails, Return, Shrinks, Part
  <2>4. CASE CloseNext
    <3>1. pc = "return" /\ pc' = pc /\ Len(open) \in Nat \ {0} /\ Len(open') = Len(open) - 1
      BY <2>4, OneLess DEF CloseNext, Deferred
    <3> QED BY <3>1 DEF Shrinks, Part, Left
  <2>5. CASE Exit
    BY <2>5 DEF Exit, Shrinks, Part
  <2>6. CASE Plan
    BY <2>6 DEF Plan, Return, Shrinks, Part
  <2>7. CASE Prefill
    <3>1. /\ pc = "prefill" /\ Len(calls) < Len(ids) /\ UNCHANGED ids
          /\ Forward(ids[Len(calls) + 1], Len(calls)) /\ ids[Len(calls) + 1] \in Int
      <4>1. Len(calls) + 1 \in 1 .. Len(ids) /\ ids \in Seq(Int)
        BY <2>1, <2>7 DEF Prefill, IInv, TypeOK
      <4> QED BY <2>7, <4>1 DEF Prefill
    <3>2. Len(calls') = Len(calls) + 1 /\ (pc' = "return" \/ pc' = pc)
      BY <3>1, ForwardFeeds
    <3> QED BY <2>1, <3>1, <3>2 DEF Shrinks, Part, Left
  <2>8. CASE StartDecoding
    BY <2>8 DEF StartDecoding, Shrinks, Part
  <2>9. CASE Decode
    <3>1. pc = "decode" /\ Len(out) < n /\ n' = n /\ (pc' = "return" \/ pc' = pc)
      BY <2>9 DEF Decode, Forward, Return, generated
    <3>2. Len(out') = Len(out) + 1
      <4>1. /\ out \in Seq([token : Vocab, after : Nat])
            /\ out' = Append(out, [token |-> logits.best, after |-> logits.after])
            /\ [token |-> logits.best, after |-> logits.after] \in [token : Vocab, after : Nat]
        BY <2>9 DEF Decode, IInv, TypeOK
      <4> QED BY <4>1, AppendProperties
    <3> QED BY <2>1, <3>1, <3>2 DEF Shrinks, Part, Left, generated
  <2>10. CASE Finish
    BY <2>10 DEF Finish, Return, Shrinks, Part
  <2> QED BY <2>2, <2>3, <2>4, <2>5, <2>6, <2>7, <2>8, <2>9, <2>10 DEF Next
<1> QED BY <1>1, SpecIInv, SpecDeferred, PTL DEF Spec

-----------------------------------------------------------------------------
(* The incomplete end of a sequence of bytes, found by the writer and by   *)
(* the reference definition alike.                                         *)

\* Position i of b starts a sequence that b's last bytes do not complete.
Open(b, i) ==
  /\ W!RuneStart(b[i])
  /\ Len(b) - i + 1 < W!Size(b[i])
  /\ \A j \in i + 1 .. Len(b) : W!Continues(b[i], b[j], j - i + 1)

\* No sequence is longer than four bytes.
LEMMA SizeIs == \A x : W!Size(x) \in 1 .. 4
  BY DEF W!Size, W!Lead2, W!Lead3, W!Lead3Narrow, W!Lead4

\* The last bytes of b.
LEMMA SuffixIs ==
  ASSUME NEW b \in Seq(W!Byte), NEW i \in 1 .. Len(b)
  PROVE  /\ SubSeq(b, i, Len(b)) \in Seq(W!Byte)
         /\ Len(SubSeq(b, i, Len(b))) = Len(b) - i + 1
         /\ \A k \in 1 .. Len(b) - i + 1 : SubSeq(b, i, Len(b))[k] = b[i + k - 1]
  BY SubSeqProperties

\* That is how FullRune and RuneStart see it.
LEMMA OpenIs ==
  ASSUME NEW b \in Seq(W!Byte), NEW i \in 1 .. Len(b)
  PROVE  W!RuneStart(b[i]) /\ ~W!FullRune(SubSeq(b, i, Len(b))) <=> Open(b, i)
<1> DEFINE q == SubSeq(b, i, Len(b))
           m == Len(b) - i + 1
<1>1. Len(q) = m /\ m \in Nat /\ m >= 1 /\ \A k \in 1 .. m : q[k] = b[i + k - 1]
  <2>1. m \in Nat /\ m >= 1
    <3>1. Len(b) \in Nat
      OBVIOUS
    <3> QED BY <3>1
  <2> QED BY <2>1, SuffixIs
<1> HIDE DEF q, m
<1>2. q # <<>> /\ q[1] = b[i]
  <2>1. 1 \in 1 .. m /\ i + 1 - 1 = i
    BY <1>1
  <2>2. Len(q) # 0
    BY <1>1
  <2> QED BY <1>1, <2>1, <2>2
<1>3. W!FullRune(q) <=> m >= W!Size(b[i]) \/ \E k \in 2 .. m : ~W!Continues(b[i], b[i + k - 1], k)
  BY <1>1, <1>2 DEF W!FullRune
<1> USE DEF m
<1>4. (\E k \in 2 .. m : ~W!Continues(b[i], b[i + k - 1], k))
        <=> (\E j \in i + 1 .. Len(b) : ~W!Continues(b[i], b[j], j - i + 1))
  <2>1. ASSUME NEW k \in 2 .. m, ~W!Continues(b[i], b[i + k - 1], k)
        PROVE  \E j \in i + 1 .. Len(b) : ~W!Continues(b[i], b[j], j - i + 1)
    <3>1. i + k - 1 \in i + 1 .. Len(b) /\ (i + k - 1) - i + 1 = k
      OBVIOUS
    <3> QED BY <2>1, <3>1
  <2>2. ASSUME NEW j \in i + 1 .. Len(b), ~W!Continues(b[i], b[j], j - i + 1)
        PROVE  \E k \in 2 .. m : ~W!Continues(b[i], b[i + k - 1], k)
    <3>1. j - i + 1 \in 2 .. m /\ i + (j - i + 1) - 1 = j
      OBVIOUS
    <3> QED BY <2>2, <3>1
  <2> QED BY <2>1, <2>2
<1>5. W!Size(b[i]) \in Nat
  BY SizeIs
<1> QED BY <1>3, <1>4, <1>5 DEF Open, q

\* Nothing after an open position starts a rune: there is at most one, and in the last three bytes.
LEMMA OpenIsLast ==
  ASSUME NEW b \in Seq(W!Byte), NEW i \in 1 .. Len(b), Open(b, i)
  PROVE  /\ i > Len(b) - 3
         /\ \A j \in i + 1 .. Len(b) : ~W!RuneStart(b[j])
         /\ \A j \in 1 .. Len(b) : Open(b, j) => j = i
<1>1. i > Len(b) - 3
  BY SizeIs DEF Open
<1>2. \A k, j \in 1 .. Len(b) : Open(b, k) /\ k < j => ~W!RuneStart(b[j])
  <2> SUFFICES ASSUME NEW k \in 1 .. Len(b), NEW j \in 1 .. Len(b), Open(b, k), k < j
               PROVE  ~W!RuneStart(b[j])
    OBVIOUS
  <2>1. W!Continues(b[k], b[j], j - k + 1)
    BY DEF Open
  <2>2. b[j] \in W!Conts
    BY <2>1 DEF W!Continues
  <2> QED BY <2>2 DEF W!RuneStart, W!Conts, W!Starts, W!Cont, W!ContLow, W!Ascii, W!Lead2, W!Lead3, W!Lead3Narrow,
                      W!Lead4, W!Invalid
<1>3. \A j \in 1 .. Len(b) : Open(b, j) => W!RuneStart(b[j])
  BY DEF Open
<1>4. \A j \in 1 .. Len(b) : j < i \/ i < j \/ j = i
  OBVIOUS
<1> QED BY <1>1, <1>2, <1>3, <1>4

\* The reference's incomplete end starts at the open position.
LEMMA IncompleteIs ==
  ASSUME NEW b \in Seq(W!Byte)
  PROVE  /\ \A i \in 1 .. Len(b) : Open(b, i) => W!Incomplete(b) = SubSeq(b, i, Len(b))
         /\ (\A i \in 1 .. Len(b) : ~Open(b, i)) => W!Incomplete(b) = <<>>
<1> DEFINE starts == {i \in 1 .. Len(b) : W!RuneStart(b[i]) /\ ~W!FullRune(SubSeq(b, i, Len(b)))}
<1>1. W!Incomplete(b) = IF starts = {} THEN <<>> ELSE SubSeq(b, CHOOSE i \in starts : TRUE, Len(b))
  BY DEF W!Incomplete
<1>2. \A i : i \in starts <=> i \in 1 .. Len(b) /\ Open(b, i)
  BY OpenIs
<1> HIDE DEF starts
<1>3. ASSUME NEW i \in 1 .. Len(b), Open(b, i) PROVE W!Incomplete(b) = SubSeq(b, i, Len(b))
  <2>1. \A j \in starts : j = i
    BY <1>2, <1>3, OpenIsLast
  <2>2. i \in starts
    BY <1>2, <1>3
  <2>3. (CHOOSE j \in starts : TRUE) = i
    BY <2>1, <2>2
  <2> QED BY <1>1, <2>2, <2>3
<1>4. ASSUME \A i \in 1 .. Len(b) : ~Open(b, i) PROVE W!Incomplete(b) = <<>>
  BY <1>1, <1>2, <1>4
<1> QED BY <1>3, <1>4

\* Looking back four bytes for the last rune start, Keep finds the open position too.
LEMMA KeepIs ==
  ASSUME NEW b \in Seq(W!Byte)
  PROVE  /\ \A i \in 1 .. Len(b) : Open(b, i) => W!Keep(b) = Len(b) - i + 1
         /\ (\A i \in 1 .. Len(b) : ~Open(b, i)) => W!Keep(b) = 0
<1> DEFINE B == W!Back(b)
           last == CHOOSE i \in B : \A j \in B : j <= i
<1>1. W!Keep(b) = IF B = {} THEN 0 ELSE IF W!FullRune(SubSeq(b, last, Len(b))) THEN 0 ELSE Len(b) - last + 1
  BY DEF W!Keep
<1>2. B = {i \in 1 .. Len(b) : i > Len(b) - 4 /\ W!RuneStart(b[i])}
  BY DEF W!Back, W!UTFMax
<1> HIDE DEF B
<1>3. ASSUME NEW i \in 1 .. Len(b), Open(b, i) PROVE W!Keep(b) = Len(b) - i + 1
  <2>1. i \in B
    BY <1>2, <1>3, OpenIsLast DEF Open
  <2>2. \A j \in B : j <= i
    BY <1>2, <1>3, OpenIsLast
  <2>3. last = i
    <3>1. \A k \in B : (\A j \in B : j <= k) => k = i
      BY <1>2, <2>1, <2>2
    <3> QED BY <2>1, <2>2, <3>1
  <2>4. ~W!FullRune(SubSeq(b, i, Len(b)))
    BY <1>3, OpenIs
  <2> QED BY <1>1, <2>1, <2>3, <2>4
<1>4. ASSUME \A i \in 1 .. Len(b) : ~Open(b, i) PROVE W!Keep(b) = 0
  <2>1. CASE B = {}
    BY <1>1, <2>1
  <2>2. CASE B # {}
    <3>1. \E i \in B : \A j \in B : j <= i
      <4>1. \A x, y \in 1 .. Len(b) : x \in Int /\ y \in Int
        OBVIOUS
      <4>2. Len(b) \in Nat
        OBVIOUS
      <4>3. Len(b) \in B \/ Len(b) - 1 \in B \/ Len(b) - 2 \in B \/ Len(b) - 3 \in B
        BY <1>2, <2>2, <4>2
      <4>4. \A j \in B : j = Len(b) \/ j = Len(b) - 1 \/ j = Len(b) - 2 \/ j = Len(b) - 3
        BY <1>2, <4>2
      <4> QED BY <4>2, <4>3, <4>4
    <3>2. last \in B
      BY <3>1
    <3> HIDE DEF last
    <3>3. last \in 1 .. Len(b) /\ W!RuneStart(b[last])
      BY <1>2, <3>2
    <3>4. W!FullRune(SubSeq(b, last, Len(b)))
      BY <1>4, <3>3, OpenIs
    <3> QED BY <1>1, <2>2, <3>4
  <2> QED BY <2>1, <2>2
<1> QED BY <1>3, <1>4

-----------------------------------------------------------------------------
(* One write.                                                              *)

\* How much of p a write prints.
Whole(p) == Len(p) - W!Keep(p)

\* What precedes an open position does not matter.
LEMMA OpenShifts ==
  ASSUME NEW c \in Seq(W!Byte), NEW p \in Seq(W!Byte), NEW i \in 1 .. Len(p)
  PROVE  Open(c \o p, Len(c) + i) <=> Open(p, i)
<1> DEFINE g == c \o p
           a == Len(c)
           l == Len(p)
<1>1. a \in Nat /\ l \in Nat /\ i \in 1 .. l
  OBVIOUS
<1>2. Len(g) = a + l
  BY ConcatProperties
<1>3. \A k \in 1 .. l : g[a + k] = p[k]
  <2> TAKE k \in 1 .. l
  <2>1. a + k \in 1 .. Len(c) + Len(p) /\ ~(a + k <= Len(c)) /\ (a + k) - Len(c) = k
    BY <1>1
  <2> QED BY <2>1, ConcatProperties
<1>4. Open(p, i) <=> /\ W!RuneStart(p[i])
                     /\ l - i + 1 < W!Size(p[i])
                     /\ \A j \in i + 1 .. l : W!Continues(p[i], p[j], j - i + 1)
  BY DEF Open
<1>5. Open(g, a + i) <=> /\ W!RuneStart(g[a + i])
                         /\ Len(g) - (a + i) + 1 < W!Size(g[a + i])
                         /\ \A j \in (a + i) + 1 .. Len(g) : W!Continues(g[a + i], g[j], j - (a + i) + 1)
  BY DEF Open
<1> HIDE DEF g, a, l
<1>6. g[a + i] = p[i] /\ Len(g) - (a + i) + 1 = l - i + 1
  BY <1>1, <1>2, <1>3
<1>7. ASSUME \A j \in i + 1 .. l : W!Continues(p[i], p[j], j - i + 1), NEW j \in (a + i) + 1 .. Len(g)
      PROVE  W!Continues(g[a + i], g[j], j - (a + i) + 1)
  <2>1. j - a \in i + 1 .. l /\ (j - a) - i + 1 = j - (a + i) + 1 /\ j - a \in 1 .. l /\ a + (j - a) = j
    BY <1>1, <1>2
  <2> QED BY <1>3, <1>6, <1>7, <2>1
<1>8. ASSUME \A j \in (a + i) + 1 .. Len(g) : W!Continues(g[a + i], g[j], j - (a + i) + 1), NEW j \in i + 1 .. l
      PROVE  W!Continues(p[i], p[j], j - i + 1)
  <2>1. a + j \in (a + i) + 1 .. Len(g) /\ (a + j) - (a + i) + 1 = j - i + 1 /\ j \in 1 .. l
    BY <1>1, <1>2
  <2> QED BY <1>3, <1>6, <1>8, <2>1
<1>9. Open(g, a + i) <=> Open(p, i)
  BY <1>4, <1>5, <1>6, <1>7, <1>8
<1> QED BY <1>9 DEF g, a

\* A position open in spite of more bytes was open without them.
LEMMA OpenBefore ==
  ASSUME NEW g \in Seq(W!Byte), NEW r \in Seq(W!Byte), NEW i \in 1 .. Len(g), Open(g \o r, i)
  PROVE  Open(g, i)
<1> DEFINE b == g \o r
           l == Len(g)
<1>1. l \in Nat /\ Len(b) \in Nat /\ Len(b) >= l
  <2>1. Len(r) \in Nat
    OBVIOUS
  <2> QED BY <2>1, ConcatProperties
<1>2. \A k \in 1 .. l : b[k] = g[k]
  <2> TAKE k \in 1 .. l
  <2>1. k \in 1 .. Len(g) + Len(r) /\ k <= Len(g)
    <3>1. Len(r) \in Nat
      OBVIOUS
    <3> QED BY <1>1, <3>1
  <2> QED BY <2>1, ConcatProperties
<1>3. /\ W!RuneStart(b[i])
      /\ Len(b) - i + 1 < W!Size(b[i])
      /\ \A j \in i + 1 .. Len(b) : W!Continues(b[i], b[j], j - i + 1)
  BY DEF Open
<1>4. W!Size(b[i]) \in Nat
  BY SizeIs
<1> HIDE DEF b
<1>5. \A j \in i + 1 .. l : j \in i + 1 .. Len(b) /\ j \in 1 .. l
  BY <1>1
<1>6. l - i + 1 < W!Size(b[i])
  BY <1>1, <1>3, <1>4
<1> QED BY <1>2, <1>3, <1>5, <1>6 DEF Open

\* Concatenation is associative.
LEMMA BytesAssociate == \A x, y, z \in Seq(W!Byte) : (x \o y) \o z = x \o (y \o z)
  BY ConcatAssociative

\* What a write of r leaves: the incomplete end pending, the rest printed.
Holds(c, d, r) ==
  LET p == d \o r
  IN  /\ SubSeq(p, Whole(p) + 1, Len(p)) = W!Incomplete((c \o d) \o r)
      /\ SubSeq(p, Whole(p) + 1, Len(p)) \in Seq(W!Byte)
      /\ SubSeq(p, 1, Whole(p)) \in Seq(W!Byte)
      /\ (c \o SubSeq(p, 1, Whole(p))) \o SubSeq(p, Whole(p) + 1, Len(p)) = (c \o d) \o r

\* A write: from c printed and d pending, the incomplete end of both, and the piece r.
LEMMA WriteHolds ==
  ASSUME NEW c \in Seq(W!Byte), NEW d \in Seq(W!Byte), NEW r \in Seq(W!Byte), d = W!Incomplete(c \o d)
  PROVE  Holds(c, d, r)
<1> DEFINE p == d \o r
           m == Len(p) - W!Keep(p)
           b == (c \o d) \o r
<1>1. p \in Seq(W!Byte) /\ c \o d \in Seq(W!Byte) /\ b \in Seq(W!Byte) /\ b = c \o p
  BY ConcatProperties, ConcatAssociative
<1>2. Len(c) \in Nat /\ Len(p) \in Nat /\ Len(d) \in Nat /\ Len(c \o d) = Len(c) + Len(d) /\ Len(b) = Len(c) + Len(p)
  <2>1. Len(c) \in Nat /\ Len(d) \in Nat
    OBVIOUS
  <2>2. Len(p) \in Nat
    <3> HIDE DEF p
    <3> QED BY <1>1
  <2>3. Len(c \o p) = Len(c) + Len(p)
    <3> HIDE DEF p
    <3> QED BY <1>1, ConcatProperties
  <2> QED BY <1>1, <2>1, <2>2, <2>3, ConcatProperties
<1>3. \A i \in 1 .. Len(c) : ~Open(b, i)
  <2> SUFFICES ASSUME NEW i \in 1 .. Len(c), Open((c \o d) \o r, i) PROVE FALSE
    OBVIOUS
  <2>1. i \in 1 .. Len(c \o d)
    BY <1>2
  <2>2. Open(c \o d, i)
    BY <1>1, <2>1, OpenBefore
  <2>3. d = SubSeq(c \o d, i, Len(c \o d))
    BY <1>1, <2>1, <2>2, IncompleteIs
  <2>4. Len(d) = Len(c \o d) - i + 1
    BY <1>1, <2>1, <2>3, SuffixIs
  <2> QED BY <1>2, <2>4
<1> HIDE DEF p, b
<1>4. /\ m \in 0 .. Len(p)
      /\ SubSeq(p, m + 1, Len(p)) = W!Incomplete(b)
      /\ SubSeq(p, m + 1, Len(p)) \in Seq(W!Byte)
  <2>1. ASSUME NEW i \in 1 .. Len(p), Open(p, i)
        PROVE  /\ m \in 0 .. Len(p)
               /\ SubSeq(p, m + 1, Len(p)) = W!Incomplete(b)
               /\ SubSeq(p, m + 1, Len(p)) \in Seq(W!Byte)
    <3> DEFINE k == Len(c) + i
    <3>1. W!Keep(p) = Len(p) - i + 1
      BY <1>1, <2>1, KeepIs
    <3>2. m + 1 = i /\ m \in 0 .. Len(p)
      BY <1>2, <3>1
    <3>3. Open(b, k)
      BY <1>1, <2>1, OpenShifts
    <3>4. k \in Len(c) + 1 .. Len(c) + Len(p) /\ k \in 1 .. Len(b) /\ Len(b) \in Len(c) + 1 .. Len(c) + Len(p)
          /\ k - Len(c) = i /\ Len(b) - Len(c) = Len(p)
      BY <1>2
    <3> HIDE DEF k, m
    <3>5. W!Incomplete(b) = SubSeq(b, k, Len(b))
      BY <1>1, <3>3, <3>4, IncompleteIs
    <3>6. SubSeq(c \o p, k, Len(b)) = SubSeq(p, k - Len(c), Len(b) - Len(c))
      BY <1>1, <3>4, SubSeqOfConcat2
    <3>7. SubSeq(p, i, Len(p)) \in Seq(W!Byte)
      BY <1>1, SuffixIs
    <3> QED BY <1>1, <3>2, <3>4, <3>5, <3>6, <3>7
  <2>2. ASSUME \A i \in 1 .. Len(p) : ~Open(p, i)
        PROVE  /\ m \in 0 .. Len(p)
               /\ SubSeq(p, m + 1, Len(p)) = W!Incomplete(b)
               /\ SubSeq(p, m + 1, Len(p)) \in Seq(W!Byte)
    <3>1. W!Keep(p) = 0
      BY <1>1, <2>2, KeepIs
    <3>2. m = Len(p)
      BY <1>2, <3>1
    <3>3. \A k \in 1 .. Len(b) : ~Open(b, k)
      <4> SUFFICES ASSUME NEW k \in 1 .. Len(b), k > Len(c), Open(b, k) PROVE FALSE
        BY <1>2, <1>3
      <4>1. k - Len(c) \in 1 .. Len(p) /\ Len(c) + (k - Len(c)) = k
        BY <1>2
      <4>2. Open(c \o p, Len(c) + (k - Len(c)))
        BY <1>1, <4>1
      <4>3. Open(p, k - Len(c))
        BY <1>1, <4>1, <4>2, OpenShifts
      <4> QED BY <2>2, <4>1, <4>3
    <3>4. W!Incomplete(b) = <<>>
      BY <1>1, <3>3, IncompleteIs
    <3>5. SubSeq(p, Len(p) + 1, Len(p)) = <<>>
      BY <1>2, SubSeqEmpty
    <3> QED BY <1>2, <3>2, <3>4, <3>5, EmptySeq
  <2> QED BY <2>1, <2>2
<1> HIDE DEF m
<1>5. SubSeq(p, 1, m) \o SubSeq(p, m + 1, Len(p)) = p
  <2>1. 1 \in 1 .. Len(p) + 1 /\ m \in 1 - 1 .. Len(p) /\ Len(p) \in m .. Len(p)
    BY <1>2, <1>4
  <2>2. SubSeq(p, 1, m) \o SubSeq(p, m + 1, Len(p)) = SubSeq(p, 1, Len(p))
    BY <1>1, <2>1, ConcatAdjacentSubSeq
  <2> QED BY <1>1, <2>2, SubSeqFull
<1>6. SubSeq(p, 1, m) \in Seq(W!Byte)
  <2>1. \A k \in 1 .. m : p[k] \in W!Byte
    <3> TAKE k \in 1 .. m
    <3>1. k \in 1 .. Len(p)
      BY <1>2, <1>4
    <3> QED BY <1>1, <3>1, ElementOfSeq
  <2>2. m \in Int /\ 1 \in Int
    BY <1>2, <1>4
  <2> QED BY <2>1, <2>2, SubSeqProperties
<1>7. (c \o SubSeq(p, 1, m)) \o SubSeq(p, m + 1, Len(p)) = c \o p
  <2> DEFINE h == SubSeq(p, 1, m)
             t == SubSeq(p, m + 1, Len(p))
  <2>1. h \in Seq(W!Byte) /\ t \in Seq(W!Byte) /\ h \o t = p
    BY <1>4, <1>5, <1>6
  <2> HIDE DEF h, t
  <2>2. (c \o h) \o t = c \o (h \o t)
    BY <2>1, BytesAssociate
  <2>3. (c \o h) \o t = c \o p
    BY <2>1, <2>2
  <2> QED BY <2>3 DEF h, t
<1>8. (c \o SubSeq(p, 1, m)) \o SubSeq(p, m + 1, Len(p)) = b
  BY <1>1, <1>7
<1> USE DEF m
<1>9. Whole(p) = m
  BY DEF Whole
<1> HIDE DEF m
<1> QED BY <1>4, <1>6, <1>8, <1>9, Zenon DEF p, b, Holds

-----------------------------------------------------------------------------
(* The text of the tokens, joined.                                         *)

\* Induction over a set, from the well-foundedness of < on Nat.
LEMMA InductionOnNat ==
  ASSUME NEW S, 0 \in S, \A k \in Nat : k \in S => k + 1 \in S
  PROVE  Nat \subseteq S
<1> SUFFICES ASSUME ~(Nat \subseteq S) PROVE FALSE
  OBVIOUS
<1> DEFINE R == OpToRel(<, Nat)
           T == Nat \ S
<1>1. PICK m \in T : \A y \in T : ~(<<y, m>> \in R)
  <2>1. T \subseteq Nat /\ T # {}
    OBVIOUS
  <2>2. IsWellFoundedOn(R, Nat)
    BY NatLessThanWellFounded
  <2> HIDE DEF T, R
  <2> QED BY <2>1, <2>2, WFMin
<1>2. m \in Nat /\ m # 0 /\ m - 1 \in Nat /\ (m - 1) + 1 = m
  OBVIOUS
<1>3. m - 1 \in T
  BY <1>2
<1>4. <<m - 1, m>> \in R
  BY <1>2 DEF OpToRel
<1> QED BY <1>1, <1>3, <1>4

\* F joins the first m pieces of s, one by one.
Joins(s, F, m) == \A i \in 1 .. m : F[i] = IF i = 1 THEN s[i] ELSE F[i - 1] \o s[i]

\* Some function joins them all.
LEMMA JoinsExist ==
  ASSUME NEW s, Len(s) \in Nat
  PROVE  \E F : Joins(s, F, Len(s)) /\ F = [i \in 1 .. Len(s) |-> F[i]]
<1> DEFINE S == {m \in Nat : m <= Len(s) => \E F : Joins(s, F, m) /\ F = [i \in 1 .. Len(s) |-> F[i]]}
<1>1. 0 \in S
  <2> DEFINE F == [i \in 1 .. Len(s) |-> 0]
  <2>1. Joins(s, F, 0) /\ F = [i \in 1 .. Len(s) |-> F[i]]
    BY DEF Joins
  <2> HIDE DEF F
  <2> QED BY <2>1
<1>2. ASSUME NEW m \in Nat, m \in S PROVE m + 1 \in S
  <2> SUFFICES ASSUME m + 1 <= Len(s)
               PROVE  \E F : Joins(s, F, m + 1) /\ F = [i \in 1 .. Len(s) |-> F[i]]
    OBVIOUS
  <2>1. PICK F : Joins(s, F, m) /\ F = [i \in 1 .. Len(s) |-> F[i]]
    BY <1>2
  <2> DEFINE x == IF m + 1 = 1 THEN s[m + 1] ELSE F[m] \o s[m + 1]
             G == [i \in 1 .. Len(s) |-> IF i = m + 1 THEN x ELSE F[i]]
  <2>2. G = [i \in 1 .. Len(s) |-> G[i]]
    OBVIOUS
  <2> HIDE DEF x
  <2>3. G[m + 1] = x /\ \A i \in 1 .. m : G[i] = F[i]
    <3>1. m + 1 \in 1 .. Len(s) /\ \A i \in 1 .. m : i \in 1 .. Len(s) /\ i # m + 1
      OBVIOUS
    <3> QED BY <3>1
  <2> HIDE DEF G
  <2> USE DEF x
  <2>4. ASSUME NEW i \in 1 .. m + 1
        PROVE  G[i] = IF i = 1 THEN s[i] ELSE G[i - 1] \o s[i]
    <3>1. CASE i = m + 1
      <4>1. i # 1 => m \in 1 .. m /\ i - 1 = m
        BY <3>1
      <4>2. i # 1 => G[i - 1] = F[m]
        BY <2>3, <4>1
      <4> QED BY <2>3, <3>1, <4>2
    <3>2. CASE i # m + 1
      <4>1. i \in 1 .. m /\ (i # 1 => i - 1 \in 1 .. m)
        BY <3>2
      <4>2. F[i] = IF i = 1 THEN s[i] ELSE F[i - 1] \o s[i]
        BY <2>1, <4>1 DEF Joins
      <4> QED BY <2>3, <4>1, <4>2
    <3> QED BY <3>1, <3>2
  <2>5. Joins(s, G, m + 1)
    BY <2>4 DEF Joins
  <2> QED BY <2>2, <2>5
<1> HIDE DEF S
<1>3. Nat \subseteq S
  BY <1>1, <1>2, InductionOnNat
<1>4. Len(s) \in S
  BY <1>3
<1> QED BY <1>4 DEF S

\* FlattenSeq joins all the pieces.
LEMMA FlattenIs ==
  ASSUME NEW s, Len(s) \in Nat \ {0}
  PROVE  \E F : Joins(s, F, Len(s)) /\ FlattenSeq(s) = F[Len(s)]
<1> DEFINE Eqn(F) == F = [i \in 1 .. Len(s) |-> IF i = 1 THEN s[i] ELSE F[i - 1] \o s[i]]
           Q == CHOOSE F : Eqn(F)
<1>1. FlattenSeq(s) = Q[Len(s)]
  BY DEF FlattenSeq
<1>2. \E F : Eqn(F)
  <2>1. PICK F : Joins(s, F, Len(s)) /\ F = [i \in 1 .. Len(s) |-> F[i]]
    BY JoinsExist
  <2>2. \A i \in 1 .. Len(s) : F[i] = IF i = 1 THEN s[i] ELSE F[i - 1] \o s[i]
    BY <2>1 DEF Joins
  <2>3. Eqn(F)
    BY <2>1, <2>2
  <2> QED BY <2>3
<1>3. Eqn(Q)
  BY <1>2
<1> HIDE DEF Q
<1>4. \A i \in 1 .. Len(s) : Q[i] = IF i = 1 THEN s[i] ELSE Q[i - 1] \o s[i]
  BY <1>3
<1>5. Joins(s, Q, Len(s))
  BY <1>4 DEF Joins
<1> QED BY <1>1, <1>5

\* One more piece comes last.
LEMMA FlattenAppend ==
  ASSUME NEW B, NEW s \in Seq(Seq(B)), NEW x \in Seq(B)
  PROVE  FlattenSeq(Append(s, x)) = FlattenSeq(s) \o x
<1> DEFINE t == Append(s, x)
           m == Len(s)
<1>1. m \in Nat /\ Len(t) = m + 1 /\ t[m + 1] = x /\ \A i \in 1 .. m : t[i] = s[i]
  BY AppendProperties
<1> HIDE DEF t
<1>2. Len(t) \in Nat \ {0}
  BY <1>1
<1>3. PICK G : Joins(t, G, Len(t)) /\ FlattenSeq(t) = G[Len(t)]
  BY <1>2, FlattenIs
<1>4. CASE m = 0
  <2>1. 1 \in 1 .. Len(t)
    BY <1>1
  <2>2. G[1] = x
    BY <1>1, <1>3, <1>4, <2>1 DEF Joins
  <2>3. s = <<>> /\ FlattenSeq(s) = <<>>
    BY <1>4 DEF FlattenSeq
  <2>4. <<>> \o x = x
    BY ConcatEmptySeq
  <2> QED BY <1>1, <1>3, <1>4, <2>2, <2>3, <2>4 DEF t
<1>5. CASE m # 0
  <2>1. m \in Nat \ {0}
    BY <1>1, <1>5
  <2>2. PICK F : Joins(s, F, m) /\ FlattenSeq(s) = F[m]
    BY <2>1, FlattenIs
  <2> DEFINE S == {k \in Nat : k + 1 <= m => G[k + 1] = F[k + 1]}
  <2>3. 0 \in S
    <3>1. 1 \in 1 .. Len(t) /\ 1 \in 1 .. m
      BY <1>1, <2>1
    <3>2. G[1] = t[1] /\ F[1] = s[1] /\ t[1] = s[1]
      BY <1>1, <1>3, <2>2, <3>1 DEF Joins
    <3> QED BY <3>2
  <2>4. ASSUME NEW k \in Nat, k \in S PROVE k + 1 \in S
    <3> SUFFICES ASSUME k + 2 <= m PROVE G[k + 2] = F[k + 2]
      OBVIOUS
    <3>1. k + 2 \in 1 .. Len(t) /\ k + 2 \in 1 .. m /\ k + 2 # 1 /\ (k + 2) - 1 = k + 1 /\ k + 1 <= m
      BY <1>1
    <3>2. G[k + 2] = G[k + 1] \o t[k + 2] /\ F[k + 2] = F[k + 1] \o s[k + 2]
      BY <1>3, <2>2, <3>1 DEF Joins
    <3>3. G[k + 1] = F[k + 1]
      BY <2>4, <3>1
    <3> QED BY <1>1, <3>1, <3>2, <3>3
  <2> HIDE DEF S
  <2>5. Nat \subseteq S
    BY <2>3, <2>4, InductionOnNat
  <2>6. m - 1 \in S /\ (m - 1) + 1 = m
    BY <2>1, <2>5
  <2>7. G[m] = F[m]
    BY <2>1, <2>6 DEF S
  <2>8. m + 1 \in 1 .. Len(t) /\ m + 1 # 1 /\ (m + 1) - 1 = m
    BY <1>1, <2>1
  <2>9. G[m + 1] = G[m] \o t[m + 1]
    BY <1>3, <2>8 DEF Joins
  <2> QED BY <1>1, <1>3, <2>2, <2>7, <2>9 DEF t
<1> QED BY <1>4, <1>5

-----------------------------------------------------------------------------
(* The invariant of a run.                                                 *)

\* The writer holds a prefix of the text printed and the incomplete end pending,
\* until the flush at the end of a run that succeeds.
Screen ==
  /\ given \in Seq(W!Byte) /\ pending \in Seq(W!Byte) /\ flushed \in Seq(W!Byte)
  /\ flushed = <<>> =>
       /\ printed \in Seq(W!Byte)
       /\ printed \o pending = given
       /\ pending = W!Incomplete(given)
       /\ status = "ok" => pending = <<>>
  /\ flushed # <<>> =>
       /\ status = "ok" /\ pc \in {"return", "exited"}
       /\ flushed = W!Incomplete(given)
       /\ \E c \in Seq(W!Byte) : c \o flushed = given /\ printed = Append(c, "replacement")

AnswerInv ==
  /\ IInv
  /\ piece \in [Vocab -> Seq(W!Byte)]
  /\ given = Text
  /\ status = "ok" => pc \in {"return", "exited"}
  /\ Screen

\* A state of the writer that nobody touches.
LEMMA ScreenStill ==
  ASSUME Screen, UNCHANGED writerVars,
         status' = "ok" <=> status = "ok", pc \in {"return", "exited"} => pc' \in {"return", "exited"}
  PROVE  Screen'
  BY DEF Screen, writerVars, W!Incomplete, W!RuneStart, W!FullRune

\* Nothing is written yet.
LEMMA InitAnswer == AnswerInit => AnswerInv
<1> SUFFICES ASSUME AnswerInit PROVE AnswerInv
  OBVIOUS
<1>1. IInv /\ piece \in [Vocab -> Seq(W!Byte)]
  BY InitIInv, PiecesAssumption DEF AnswerInit, Init
<1>2. given = <<>> /\ pending = <<>> /\ flushed = <<>> /\ printed = <<>> /\ out = <<>> /\ status = "running"
  BY DEF AnswerInit, Init, W!Init
<1>3. Text = <<>>
  <2> DEFINE s == [k \in 1 .. Len(out) |-> piece[out[k].token]]
  <2>1. Len(out) = 0
    BY <1>2
  <2>2. s = <<>>
    BY <2>1
  <2>3. Len(s) = 0
    BY <2>2
  <2> QED BY <2>2, <2>3 DEF Text, FlattenSeq
<1>4. W!Incomplete(<<>>) = <<>>
  <2>1. <<>> \in Seq(W!Byte) /\ Len(<<>>) = 0
    BY EmptySeq
  <2>2. \A i \in 1 .. Len(<<>>) : ~Open(<<>>, i)
    BY <2>1
  <2> QED BY <2>1, <2>2, IncompleteIs
<1>5. <<>> \in Seq(W!Byte) /\ <<>> \o <<>> = <<>>
  BY EmptySeq, ConcatEmptySeq
<1>6. Screen
  BY <1>2, <1>4, <1>5 DEF Screen
<1> QED BY <1>1, <1>2, <1>3, <1>6, Zenon DEF AnswerInv

\* The loops and the closers change neither the answer nor the screen.
LEMMA QuietAnswer ==
  ASSUME AnswerInv, Quiet
  PROVE  AnswerInv'
<1>1. UNCHANGED <<piece, out>> /\ UNCHANGED writerVars
  BY DEF Quiet, Acquire, AcquireFails, CloseNext, Exit, Plan, Prefill, StartDecoding
<1>2. IInv'
  BY NextIInv DEF AnswerInv, Quiet, Next
<1>3. Text' = Text
  BY <1>1 DEF Text
<1>4. given' = given
  BY <1>1 DEF writerVars
<1>5. pc \in {"return", "exited"} => pc' \in {"return", "exited"}
  BY DEF Quiet, Acquire, AcquireFails, CloseNext, Exit, Plan, Prefill, StartDecoding, Return
<1>6. status' = "ok" <=> status = "ok"
  <2>1. CASE pc \in {"return", "exited"}
    BY <2>1 DEF Quiet, Acquire, AcquireFails, CloseNext, Exit, Plan, Prefill, StartDecoding
  <2>2. CASE pc \notin {"return", "exited"}
    <3>1. status # "ok"
      BY <2>2 DEF AnswerInv
    <3>2. status' # "ok"
      BY <2>2, <3>1 DEF Quiet, Acquire, AcquireFails, CloseNext, Exit, Plan, Prefill, StartDecoding, Return, Forward
    <3> QED BY <3>1, <3>2
  <2> QED BY <2>1, <2>2
<1>7. Screen'
  BY <1>1, <1>5, <1>6, ScreenStill DEF AnswerInv
<1>8. status' = "ok" => pc' \in {"return", "exited"}
  BY <1>5, <1>6 DEF AnswerInv
<1> QED BY <1>1, <1>2, <1>3, <1>4, <1>7, <1>8 DEF AnswerInv

\* A token is printed, all but the end it leaves incomplete.
LEMMA PrintAnswer ==
  ASSUME AnswerInv, PrintToken
  PROVE  AnswerInv'
<1> DEFINE r == piece[logits.best]
           p == pending \o r
           m == Len(p) - W!Keep(p)
<1>1. /\ UNCHANGED piece /\ flushed = <<>> /\ UNCHANGED flushed
      /\ printed' = printed \o SubSeq(p, 1, m)
      /\ pending' = SubSeq(p, m + 1, Len(p))
      /\ given' = given \o r
  BY DEF PrintToken, W!Write
<1>2. IInv'
  BY NextIInv DEF AnswerInv, PrintToken, Next
<1>3. logits.best \in Vocab /\ r \in Seq(W!Byte)
  BY DEF AnswerInv, IInv, TypeOK
<1>4. /\ printed \in Seq(W!Byte) /\ pending \in Seq(W!Byte) /\ given \in Seq(W!Byte)
      /\ printed \o pending = given /\ pending = W!Incomplete(given)
  BY <1>1 DEF AnswerInv, Screen
<1>5. status' # "ok"
  <2>1. pc = "decode"
    BY DEF PrintToken, Decode
  <2>2. status # "ok"
    BY <2>1 DEF AnswerInv
  <2> QED BY <2>2 DEF PrintToken, Decode, Forward, Return
<1>6. /\ printed' \in Seq(W!Byte) /\ pending' \in Seq(W!Byte)
      /\ printed' \o pending' = given' /\ pending' = W!Incomplete(given')
  <2>1. /\ SubSeq(p, m + 1, Len(p)) = W!Incomplete((printed \o pending) \o r)
        /\ SubSeq(p, m + 1, Len(p)) \in Seq(W!Byte) /\ SubSeq(p, 1, m) \in Seq(W!Byte)
        /\ (printed \o SubSeq(p, 1, m)) \o SubSeq(p, m + 1, Len(p)) = (printed \o pending) \o r
    <3> DEFINE c == printed
               d == pending
    <3>1. c \in Seq(W!Byte) /\ d \in Seq(W!Byte) /\ r \in Seq(W!Byte) /\ d = W!Incomplete(c \o d)
      BY <1>3, <1>4
    <3>2. p = d \o r /\ m = Whole(p)
      BY DEF Whole
    <3> HIDE DEF c, d, r, p, m
    <3>3. Holds(c, d, r)
      BY <3>1, WriteHolds
    <3>4. /\ SubSeq(p, Whole(p) + 1, Len(p)) = W!Incomplete((c \o d) \o r)
          /\ SubSeq(p, Whole(p) + 1, Len(p)) \in Seq(W!Byte)
          /\ SubSeq(p, 1, Whole(p)) \in Seq(W!Byte)
          /\ (c \o SubSeq(p, 1, Whole(p))) \o SubSeq(p, Whole(p) + 1, Len(p)) = (c \o d) \o r
      <4> USE DEF p, d
      <4> QED BY <3>3, Zenon DEF Holds
    <3> QED BY <3>2, <3>4, Zenon DEF c, d
  <2> HIDE DEF p, m, r
  <2>2. printed \o SubSeq(p, 1, m) \in Seq(W!Byte)
    BY <1>4, <2>1, ConcatProperties
  <2> QED BY <1>1, <1>4, <2>1, <2>2
<1>7. given' \in Seq(W!Byte)
  <2> HIDE DEF r
  <2> QED BY <1>1, <1>3, <1>4, ConcatProperties
<1>8. given' = Text'
  <2> DEFINE s == [k \in 1 .. Len(out) |-> piece[out[k].token]]
             t == [k \in 1 .. Len(out') |-> piece[out'[k].token]]
             e == [token |-> logits.best, after |-> logits.after]
  <2>1. out \in Seq([token : Vocab, after : Nat]) /\ e \in [token : Vocab, after : Nat] /\ out' = Append(out, e)
    BY DEF AnswerInv, IInv, TypeOK, PrintToken, Decode
  <2>2. /\ Len(out) \in Nat /\ Len(out') = Len(out) + 1 /\ out'[Len(out) + 1] = e
        /\ \A k \in 1 .. Len(out) : out'[k] = out[k] /\ out[k].token \in Vocab
    <3> DEFINE E == [token : Vocab, after : Nat]
    <3> HIDE DEF e
    <3>1. out \in Seq(E) /\ e \in E
      BY <2>1
    <3> HIDE DEF E
    <3>2. /\ Len(out) \in Nat /\ Len(Append(out, e)) = Len(out) + 1 /\ Append(out, e)[Len(out) + 1] = e
          /\ \A k \in 1 .. Len(out) : Append(out, e)[k] = out[k] /\ out[k] \in E
      BY <3>1, AppendProperties, ElementOfSeq
    <3> QED BY <2>1, <3>2 DEF E
  <2>3. s \in Seq(Seq(W!Byte)) /\ Len(s) = Len(out)
    BY <2>2 DEF AnswerInv
  <2>4. t = Append(s, r)
    <3>1. t \in Seq(Seq(W!Byte)) /\ Len(t) = Len(out) + 1
      <4>1. \A k \in 1 .. Len(out) + 1 : out'[k].token \in Vocab
        BY <1>3, <2>2
      <4> QED BY <2>2, <4>1 DEF AnswerInv
    <3>2. \A k \in 1 .. Len(out) : t[k] = s[k]
      BY <2>2
    <3>3. t[Len(out) + 1] = r
      BY <2>2
    <3> HIDE DEF s, t, r
    <3>4. /\ Append(s, r) \in Seq(Seq(W!Byte)) /\ Len(Append(s, r)) = Len(s) + 1
          /\ \A k \in 1 .. Len(s) : Append(s, r)[k] = s[k]
          /\ Append(s, r)[Len(s) + 1] = r
      BY <1>3, <2>3, AppendProperties
    <3>5. \A k \in 1 .. Len(t) : t[k] = Append(s, r)[k]
      <4>1. \A k \in 1 .. Len(t) : k \in 1 .. Len(s) \/ k = Len(s) + 1
        BY <2>2, <2>3, <3>1
      <4> QED BY <2>3, <3>2, <3>3, <3>4, <4>1
    <3> QED BY <2>2, <2>3, <3>1, <3>4, <3>5, SeqEqual
  <2>5. Text' = FlattenSeq(t)
    BY <1>1 DEF Text
  <2>6. given = FlattenSeq(s)
    BY DEF AnswerInv, Text
  <2> HIDE DEF s, t, r
  <2>7. FlattenSeq(Append(s, r)) = FlattenSeq(s) \o r
    BY <1>3, <2>3, FlattenAppend
  <2> QED BY <1>1, <2>4, <2>5, <2>6, <2>7
<1>9. Screen'
  BY <1>1, <1>5, <1>6, <1>7 DEF AnswerInv, Screen
<1> QED BY <1>1, <1>2, <1>3, <1>5, <1>8, <1>9 DEF AnswerInv

\* The run ends well: what is incomplete becomes a replacement character.
LEMMA FlushInv ==
  ASSUME AnswerInv, FlushAnswer
  PROVE  AnswerInv'
<1>1. UNCHANGED <<piece, out>> /\ pc = "decode" /\ pc' = "return" /\ status' = "ok"
  BY DEF FlushAnswer, Finish, Return
<1>2. IInv'
  BY NextIInv DEF AnswerInv, FlushAnswer, Next
<1>3. Text' = Text
  BY <1>1 DEF Text
<1>4. flushed = <<>>
  BY <1>1 DEF AnswerInv, Screen
<1>5. given' = given
  BY DEF FlushAnswer, W!Flush, writerVars
<1>6. Screen'
  <2>1. CASE pending = <<>>
    <3>1. UNCHANGED writerVars
      BY <2>1 DEF FlushAnswer
    <3> QED BY <1>1, <1>4, <2>1, <3>1 DEF AnswerInv, Screen, writerVars
  <2>2. CASE pending # <<>>
    <3>1. flushed' = pending /\ printed' = Append(printed, "replacement") /\ pending' = <<>>
      BY <2>2 DEF FlushAnswer, W!Flush
    <3>2. <<>> \in Seq(W!Byte)
      BY EmptySeq
    <3> QED BY <1>1, <1>4, <1>5, <2>2, <3>1, <3>2 DEF AnswerInv, Screen
  <2> QED BY <2>1, <2>2
<1> QED BY <1>1, <1>2, <1>3, <1>5, <1>6 DEF AnswerInv

\* The invariant is inductive.
LEMMA NextAnswer == AnswerInv /\ [AnswerNext]_answerVars => AnswerInv'
<1> SUFFICES ASSUME AnswerInv, [AnswerNext]_answerVars PROVE AnswerInv'
  OBVIOUS
<1>1. CASE AnswerNext
  BY <1>1, QuietAnswer, PrintAnswer, FlushInv DEF AnswerNext
<1>2. CASE UNCHANGED answerVars
  <2>1. UNCHANGED vars /\ UNCHANGED piece /\ UNCHANGED writerVars
    BY <1>2 DEF answerVars
  <2>2. IInv'
    BY <2>1, NextIInv DEF AnswerInv
  <2>3. Text' = Text /\ given' = given
    BY <2>1 DEF Text, vars, writerVars
  <2>4. Screen'
    BY <2>1, ScreenStill DEF AnswerInv, vars
  <2> QED BY <2>1, <2>2, <2>3, <2>4 DEF AnswerInv, vars
<1> QED BY <1>1, <1>2

\* The invariant holds throughout.
LEMMA SpecAnswerInv == AnswerSpec => []AnswerInv
  BY InitAnswer, NextAnswer, PTL DEF AnswerSpec

\* A run that prints its answer is a run of module Generate: printing through
\* the utf8Writer disturbs neither the loops nor the deferred calls, so that
\* what is proved of Generate holds of it too.
THEOREM RunsGenerate == AnswerSpec => Spec
<1>1. AnswerInit => Init
  BY DEF AnswerInit
<1>2. [AnswerNext]_answerVars => [Next]_vars
  BY DEF AnswerNext, Quiet, PrintToken, FlushAnswer, Next, answerVars
<1> QED BY <1>1, <1>2, PTL DEF AnswerSpec, Spec

\* Whatever bytes the tokens hold and wherever they are cut, the bytes the
\* utf8Writer keeps back are exactly the incomplete sequence at the end of what
\* it was given: keep's look at four bytes finds what a look at all would.
THEOREM AlwaysHeldBack == AnswerSpec => []HeldBack
<1>1. AnswerInv => HeldBack
  BY DEF AnswerInv, Screen, HeldBack, W!HeldBack
<1> QED BY <1>1, SpecAnswerInv, PTL

\* Splitting off the end.
LEMMA HeadOf ==
  ASSUME NEW c \in Seq(W!Byte), NEW d \in Seq(W!Byte)
  PROVE  SubSeq(c \o d, 1, Len(c \o d) - Len(d)) = c
<1>1. Len(c) \in Nat /\ Len(d) \in Nat /\ Len(c \o d) = Len(c) + Len(d) /\ c \o d \in Seq(W!Byte)
  BY ConcatProperties
<1>2. Len(c \o d) - Len(d) = Len(c)
  BY <1>1
<1>3. CASE Len(c) = 0
  <2>1. c = <<>> /\ SubSeq(c \o d, 1, 0) = <<>>
    BY <1>3, SubSeqEmpty
  <2> QED BY <1>2, <1>3, <2>1
<1>4. CASE Len(c) # 0
  <2>1. 1 \in 1 .. Len(c) /\ Len(c) \in 1 .. Len(c)
    BY <1>1, <1>4
  <2>2. SubSeq(c \o d, 1, Len(c)) = SubSeq(c, 1, Len(c))
    BY <2>1, SubSeqOfConcat1
  <2> QED BY <1>2, <2>2, SubSeqFull
<1> QED BY <1>3, <1>4

\* At every step of every run, what is on the screen is the text of the tokens
\* chosen, all but an incomplete end; a run that succeeds replaces that end by
\* a replacement character, a run whose Forward fails leaves it out.
THEOREM AlwaysOnScreen == AnswerSpec => []StreamIsAnswer
<1>1. AnswerInv => StreamIsAnswer
  <2> SUFFICES ASSUME AnswerInv PROVE StreamIsAnswer
    OBVIOUS
  <2> DEFINE cut == W!Incomplete(given)
             head == SubSeq(given, 1, Len(given) - Len(cut))
  <2>1. printed = IF status = "ok" /\ cut # <<>> THEN Append(head, "replacement") ELSE head
    <3>1. CASE flushed = <<>>
      <4>1. /\ printed \in Seq(W!Byte) /\ pending \in Seq(W!Byte) /\ printed \o pending = given
            /\ pending = cut /\ (status = "ok" => cut = <<>>)
        BY <3>1 DEF AnswerInv, Screen
      <4>2. head = printed
        BY <4>1, HeadOf
      <4> QED BY <4>1, <4>2
    <3>2. CASE flushed # <<>>
      <4>1. PICK c \in Seq(W!Byte) : c \o flushed = given /\ printed = Append(c, "replacement")
        BY <3>2 DEF AnswerInv, Screen
      <4>2. flushed \in Seq(W!Byte) /\ flushed = cut /\ status = "ok"
        BY <3>2 DEF AnswerInv, Screen
      <4>3. head = c
        BY <4>1, <4>2, HeadOf
      <4> QED BY <3>2, <4>1, <4>2, <4>3
    <3> QED BY <3>1, <3>2
  <2> QED BY <2>1, Zenon DEF AnswerInv, StreamIsAnswer
<1> QED BY <1>1, SpecAnswerInv, PTL
=============================================================================
