---------------------------- MODULE ForwardProofs ----------------------------
(***************************************************************************)
(* Proofs about Forward, for every network, cache length, stream depth and *)
(* number of failures, and for every interpretation of the kernels.        *)
(*                                                                         *)
(* The argument: whatever is in the stream, of the current call or left    *)
(* behind by one that failed, was issued for position Len(fed), and fed    *)
(* grows only when the stream is empty; so the rows of the tokens fed are  *)
(* never touched.  From the copy into x on, nothing is pending but the     *)
(* call's own steps, so after n of them the work buffers that later steps  *)
(* read, and the cache rows stored, hold what the network defines.         *)
(***************************************************************************)
EXTENDS Forward, SequenceTheorems, WellFoundedInduction, TLAPS

-----------------------------------------------------------------------------
(* The network: Inputs is defined by recursion on the layers.              *)

\* Induction over the natural numbers, for a set.
LEMMA InductionOnNat ==
  ASSUME NEW S, 0 \in S, \A n \in Nat : n \in S => n + 1 \in S
  PROVE  Nat \subseteq S
<1> SUFFICES ASSUME ~(Nat \subseteq S) PROVE FALSE
  OBVIOUS
<1> DEFINE R == OpToRel(<, Nat)
           T == Nat \ S
<1>1. PICK m \in T : \A y \in T : ~(<<y, m>> \in R)
  <2>1. T \subseteq Nat /\ T # {}
    OBVIOUS
  <2>2. IsWellFoundedOn(R, Nat)
    BY NatLessThanWellFounded
  <2> HIDE DEF T, R
  <2> QED BY <2>1, <2>2, WFMin
<1>2. m \in Nat /\ m # 0 /\ m - 1 \in Nat /\ (m - 1) + 1 = m
  OBVIOUS
<1>3. m - 1 \in T
  BY <1>2
<1>4. <<m - 1, m>> \in R
  BY <1>2 DEF OpToRel
<1> QED BY <1>1, <1>3, <1>4

\* The inputs to layer 0, and those to layer l from the layer below.
FirstInputs(h)        == [p \in 0 .. Len(h) - 1 |-> Embed(h[p + 1])]
NextInputs(h, l, below) == [p \in 0 .. Len(h) - 1 |-> LayerOut(l - 1, below, p)]

\* f is Inputs up to layer n
UpTo(h, f, n) ==
  /\ f[0] = FirstInputs(h)
  /\ \A l \in 1 .. n : f[l] = NextInputs(h, l, f[l - 1])

\* Such a function exists for any number of layers,
LEMMA UpToExists == \A h : \A n \in Nat : \E f : UpTo(h, f, n)
<1> TAKE h
<1> DEFINE S == {n \in Nat : \E f : UpTo(h, f, n)}
<1>1. 0 \in S
  <2> DEFINE f == [l \in {0} |-> FirstInputs(h)]
  <2>1. UpTo(h, f, 0)
    BY DEF UpTo
  <2> QED BY <2>1
<1>2. ASSUME NEW n \in Nat, n \in S PROVE n + 1 \in S
  <2>1. PICK f : UpTo(h, f, n)
    BY <1>2
  <2> DEFINE g == [l \in 0 .. n + 1 |-> IF l <= n THEN f[l] ELSE NextInputs(h, l, f[n])]
  <2>2. g[0] = FirstInputs(h)
    BY <2>1 DEF UpTo
  <2>3. ASSUME NEW l \in 1 .. n + 1 PROVE g[l] = NextInputs(h, l, g[l - 1])
    <3>1. l - 1 \in 0 .. n /\ g[l - 1] = f[l - 1]
      OBVIOUS
    <3>2. CASE l <= n
      BY <2>1, <3>1, <3>2 DEF UpTo
    <3>3. CASE l = n + 1
      BY <3>1, <3>3
    <3> QED BY <3>2, <3>3
  <2>4. UpTo(h, g, n + 1)
    <3> HIDE DEF g
    <3> QED BY <2>2, <2>3 DEF UpTo
  <2> HIDE DEF g
  <2> QED BY <2>4
<1> HIDE DEF S
<1>3. Nat \subseteq S
  BY <1>1, <1>2, InductionOnNat
<1> QED BY <1>3 DEF S

\* and is unique.
LEMMA UpToUnique ==
  ASSUME NEW h, NEW f, NEW g, NEW n \in Nat, NEW m \in Nat, UpTo(h, f, n), UpTo(h, g, m)
  PROVE  \A l \in Nat : l <= n /\ l <= m => f[l] = g[l]
<1> DEFINE S == {l \in Nat : l <= n /\ l <= m => f[l] = g[l]}
<1>1. 0 \in S
  BY DEF UpTo
<1>2. ASSUME NEW l \in Nat, l \in S PROVE l + 1 \in S
  <2>1. ASSUME l + 1 <= n, l + 1 <= m PROVE f[l + 1] = g[l + 1]
    <3>1. f[l] = g[l]
      BY <1>2, <2>1
    <3>2. l + 1 \in 1 .. n /\ l + 1 \in 1 .. m /\ (l + 1) - 1 = l
      BY <2>1
    <3> QED BY <3>1, <3>2 DEF UpTo
  <2> QED BY <2>1
<1> HIDE DEF S
<1>3. Nat \subseteq S
  BY <1>1, <1>2, InductionOnNat
<1> QED BY <1>3 DEF S

\* Hence the recursive definition of Inputs defines what it says.
LEMMA InputsUpTo == \A h : UpTo(h, Inputs(h), Layers) /\ DOMAIN Inputs(h) = 0 .. Layers
<1> TAKE h
<1> DEFINE Eqn(X) == X = [l \in Nat |-> IF l = 0 THEN FirstInputs(h) ELSE NextInputs(h, l, X[l - 1])]
           Y == CHOOSE X : Eqn(X)
<1>1. Inputs(h) = [l \in 0 .. Layers |-> Y[l]]
  BY DEF Inputs, FirstInputs, NextInputs
<1>2. \E X : Eqn(X)
  <2> DEFINE G(n) == CHOOSE f : UpTo(h, f, n)
             F == [n \in Nat |-> G(n)[n]]
  <2>1. \A n \in Nat : UpTo(h, G(n), n)
    BY UpToExists
  <2> HIDE DEF G
  <2>2. F[0] = FirstInputs(h)
    BY <2>1 DEF UpTo
  <2>3. ASSUME NEW n \in Nat, n # 0 PROVE F[n] = NextInputs(h, n, F[n - 1])
    <3>1. n - 1 \in Nat /\ n - 1 <= n /\ n - 1 <= n - 1 /\ n \in 1 .. n
      BY <2>3
    <3>2. UpTo(h, G(n), n) /\ UpTo(h, G(n - 1), n - 1)
      BY <2>1, <3>1
    <3>3. G(n)[n - 1] = G(n - 1)[n - 1]
      BY <3>1, <3>2, UpToUnique
    <3>4. G(n)[n] = NextInputs(h, n, G(n)[n - 1])
      BY <3>1, <3>2 DEF UpTo
    <3>5. F[n] = G(n)[n] /\ F[n - 1] = G(n - 1)[n - 1]
      BY <3>1
    <3> QED BY <3>3, <3>4, <3>5
  <2>4. F = [n \in Nat |-> F[n]]
    OBVIOUS
  <2> HIDE DEF F
  <2>5. \A n \in Nat : F[n] = IF n = 0 THEN FirstInputs(h) ELSE NextInputs(h, n, F[n - 1])
    BY <2>2, <2>3
  <2>6. Eqn(F)
    BY <2>4, <2>5
  <2> QED BY <2>6
<1>3. Eqn(Y)
  BY <1>2
<1> HIDE DEF Y
<1>4. Y[0] = FirstInputs(h)
  BY <1>3
<1>5. \A l \in Nat : l # 0 => Y[l] = NextInputs(h, l, Y[l - 1])
  BY <1>3
<1>6. \A l \in 1 .. Layers : l \in Nat /\ l # 0 /\ l \in 0 .. Layers /\ l - 1 \in 0 .. Layers
  BY LayersAssumption
<1>7. 0 \in 0 .. Layers
  BY LayersAssumption
<1>8. UpTo(h, Inputs(h), Layers)
  BY <1>1, <1>4, <1>5, <1>6, <1>7 DEF UpTo
<1> QED BY <1>1, <1>8
\* The equations of Inputs.
LEMMA InputsAre ==
  \A h : /\ Inputs(h)[0] = FirstInputs(h)
         /\ \A l \in LayerIds : Inputs(h)[l + 1] = NextInputs(h, l + 1, Inputs(h)[l])
<1> TAKE h
<1>1. UpTo(h, Inputs(h), Layers)
  BY InputsUpTo
<1>2. \A l \in LayerIds : l + 1 \in 1 .. Layers /\ (l + 1) - 1 = l
  BY LayersAssumption DEF LayerIds
<1> QED BY <1>1, <1>2 DEF UpTo

\* A layer's output depends on the positions up to its own only.
LEMMA LayerOutCausal ==
  ASSUME NEW l, NEW xs, NEW ys, NEW p \in Nat, \A s \in 0 .. p : xs[s] = ys[s]
  PROVE  LayerOut(l, xs, p) = LayerOut(l, ys, p)
<1>1. [s \in 0 .. p |-> KeyOf(l, xs[s], s)] = [s \in 0 .. p |-> KeyOf(l, ys[s], s)]
  OBVIOUS
<1>2. [s \in 0 .. p |-> ValueOf(l, xs[s])] = [s \in 0 .. p |-> ValueOf(l, ys[s])]
  OBVIOUS
<1>3. xs[p] = ys[p]
  OBVIOUS
<1> QED BY <1>1, <1>2, <1>3 DEF LayerOut

\* The inputs of the tokens fed do not depend on the next token.
LEMMA InputsOfPrefix ==
  ASSUME NEW h \in Seq(Vocab), NEW tok \in Vocab
  PROVE  \A l \in 0 .. Layers : \A p \in 0 .. Len(h) - 1 : Inputs(Append(h, tok))[l][p] = Inputs(h)[l][p]
<1> DEFINE g == Append(h, tok)
           Same(l) == \A p \in 0 .. Len(h) - 1 : Inputs(g)[l][p] = Inputs(h)[l][p]
           S == {l \in Nat : l <= Layers => Same(l)}
<1>1. /\ Len(h) \in Nat /\ Len(g) = Len(h) + 1
      /\ \A p \in 0 .. Len(h) - 1 : p \in 0 .. Len(g) - 1 /\ g[p + 1] = h[p + 1]
  OBVIOUS
<1> HIDE DEF g
<1>2. 0 \in S
  <2>1. Inputs(g)[0] = FirstInputs(g) /\ Inputs(h)[0] = FirstInputs(h)
    BY InputsAre
  <2>2. \A p \in 0 .. Len(h) - 1 : FirstInputs(g)[p] = FirstInputs(h)[p]
    BY <1>1 DEF FirstInputs
  <2> QED BY <2>1, <2>2
<1>3. ASSUME NEW l \in Nat, l \in S PROVE l + 1 \in S
  <2>1. ASSUME l + 1 <= Layers, NEW p \in 0 .. Len(h) - 1
        PROVE  Inputs(g)[l + 1][p] = Inputs(h)[l + 1][p]
    <3>1. l \in LayerIds /\ Same(l) /\ p \in Nat
      BY <1>1, <1>3, <2>1, LayersAssumption DEF LayerIds
    <3>2. LayerOut(l, Inputs(g)[l], p) = LayerOut(l, Inputs(h)[l], p)
      <4>1. \A s \in 0 .. p : Inputs(g)[l][s] = Inputs(h)[l][s]
        BY <1>1, <3>1
      <4> QED BY <3>1, <4>1, LayerOutCausal
    <3>3. (l + 1) - 1 = l
      BY <3>1
    <3>4. Inputs(g)[l + 1] = NextInputs(g, l + 1, Inputs(g)[l]) /\ Inputs(h)[l + 1] = NextInputs(h, l + 1, Inputs(h)[l])
      BY <3>1, InputsAre
    <3> QED BY <1>1, <3>2, <3>3, <3>4 DEF NextInputs
  <2> QED BY <1>3, <2>1
<1> HIDE DEF S
<1>4. Nat \subseteq S
  BY <1>2, <1>3, InductionOnNat
<1>5. \A l \in 0 .. Layers : l \in Nat /\ l <= Layers
  BY LayersAssumption
<1> QED BY <1>4, <1>5 DEF S, g

-----------------------------------------------------------------------------
(* The invariants.                                                         *)

\* Everything that Forward can issue.
Ops == {[step |-> StepOf(i), layer |-> LayerOf(i), pos |-> p] : i \in 1 .. NumSteps, p \in Rows}

CacheShape ==
  /\ DOMAIN cache = Caches
  /\ \A c \in Caches : DOMAIN cache[c] = LayerIds
  /\ \A c \in Caches, l \in LayerIds : DOMAIN cache[c][l] = Rows

\* A call in progress is for the next position, and so is all that is pending.
NextPosition ==
  /\ host # "idle" => call.pos = Len(fed) /\ Len(fed) < MaxLen
  /\ \A i \in 1 .. Len(stream) : stream[i].pos = Len(fed)

\* The inductive invariant.
IInv ==
  /\ TypeOK
  /\ stream \in Seq(Ops)
  /\ CacheShape
  /\ NextPosition

\* Row p of layer l's caches is that of the network.
RowExact(h, c, l, p) ==
  /\ c["kcache"][l][p] = KeyOf(l, Inputs(h)[l][p], p)
  /\ c["vcache"][l][p] = ValueOf(l, Inputs(h)[l][p])

\* What the network computes in layer l for the last of the tokens h, step by step.
XOf(h, l)    == Inputs(h)[l][Len(h) - 1]
NormX(h, l)  == RMSNorm(W("attn_norm", l), XOf(h, l))
AttnOf(h, l) == Attend(QueryOf(l, XOf(h, l), Len(h) - 1),
                       [s \in 0 .. Len(h) - 1 |-> KeyOf(l, Inputs(h)[l][s], s)],
                       [s \in 0 .. Len(h) - 1 |-> ValueOf(l, Inputs(h)[l][s])])
YOf(h, l)    == Add(XOf(h, l), MatVec(W("attn_output", l), AttnOf(h, l)))
NormY(h, l)  == RMSNorm(W("ffn_norm", l), YOf(h, l))
GateOf(h, l) == MatVec(W("ffn_gate", l), NormY(h, l))
UpOf(h, l)   == MatVec(W("ffn_up", l), NormY(h, l))
DownOf(h, l) == MatVec(W("ffn_down", l), SiluMul(GateOf(h, l), UpOf(h, l)))

\* After s steps of layer l: what is in the buffers b that later steps read, and
\* in the layer's cache row.
InLayer(h, l, s, b, c) ==
  /\ b["x"] = IF s <= 10 THEN XOf(h, l) ELSE YOf(h, l)
  /\ s \in 1 .. 6 => b["xn"] = NormX(h, l)
  /\ s \in 2 .. 3 => b["q"] = MatVec(W("attn_q", l), NormX(h, l))
  /\ s \in 4 .. 8 => b["q"] = QueryOf(l, XOf(h, l), Len(h) - 1)
  /\ s \in 3 .. 4 => b["kv"] = MatVec(W("attn_k", l), NormX(h, l))
  /\ s = 5 => b["kv"] = KeyOf(l, XOf(h, l), Len(h) - 1)
  /\ s >= 6 => c["kcache"][l][Len(h) - 1] = KeyOf(l, XOf(h, l), Len(h) - 1)
  /\ s = 7 => b["kv"] = ValueOf(l, XOf(h, l))
  /\ s >= 8 => c["vcache"][l][Len(h) - 1] = ValueOf(l, XOf(h, l))
  /\ s = 9 => b["attn"] = AttnOf(h, l)
  /\ s = 10 => b["o"] = MatVec(W("attn_output", l), AttnOf(h, l))
  /\ s \in 12 .. 14 => b["xn"] = NormY(h, l)
  /\ s \in 13 .. 14 => b["gate"] = GateOf(h, l)
  /\ s = 14 => b["up"] = UpOf(h, l)
  /\ s = 15 => b["act"] = SiluMul(GateOf(h, l), UpOf(h, l))
  /\ s = 16 => b["o"] = DownOf(h, l)

\* After s steps above the layers.
OnTop(h, s, b) ==
  /\ s = 0 => b["x"] = XOf(h, Layers)
  /\ s = 1 => b["xn"] = RMSNorm(W("output_norm", TopLayer), XOf(h, Layers))
  /\ s = 2 => b["logits"] = LogitsOf(h)

\* With the rows of the layers below.
AtStep(h, l, s, b, c) ==
  /\ \A k \in 0 .. l - 1 : RowExact(h, c, k, Len(h) - 1)
  /\ l < Layers => InLayer(h, l, s, b, c)
  /\ l = Layers => OnTop(h, s, b)

\* After n steps of the last token of h.
After(h, n, b, c) == \A l \in 0 .. Layers, s \in 0 .. 16 : n = 17 * l + s => AtStep(h, l, s, b, c)

\* The tokens fed and the call's; the steps of the call that the device has run.
Called == Append(fed, call.token)
Done   == at - 1 - Len(stream)

\* From the copy into x on, only the call's own steps are pending, and the data
\* of those that ran are exact.
Progress ==
  /\ host = "copyX" => hostRow = Embed(call.token)
  /\ host = "copyPos" => stream = <<>> /\ buf["x"] = Embed(call.token)
  /\ host = "issue" => /\ posBuf = call.pos
                       /\ Done \in 0 .. NumSteps
                       /\ \A i \in 1 .. Len(stream) : stream[i] = Op(Done + i)
                       /\ After(Called, Done, buf, cache)

\* The second invariant, inductive together with the first.
Exact == CacheExact /\ Progress

-----------------------------------------------------------------------------
(* The steps of a token.                                                   *)

\* 17 steps in each layer and two at the end.
LEMMA StepCount == PerLayer = 17 /\ NumSteps = 17 * Layers + 2 /\ NumSteps \in Nat
<1>1. PerLayer = 17 /\ Len(TopSteps) = 2
  BY DEF PerLayer, LayerSteps, TopSteps
<1> QED BY <1>1, LayersAssumption DEF NumSteps

\* The steps of layer l, counted from 0.
LEMMA StepInLayer ==
  ASSUME NEW l \in LayerIds, NEW s \in 0 .. 16
  PROVE  LayerOf(17 * l + s + 1) = l /\ StepOf(17 * l + s + 1) = LayerSteps[s + 1]
<1>1. l \in Nat /\ l < Layers
  BY LayersAssumption DEF LayerIds
<1>2. (17 * l + s) \div 17 = l /\ (17 * l + s) % 17 = s
  BY <1>1
<1>3. (17 * l + s + 1) - 1 = 17 * l + s /\ 1 + s = s + 1
  BY <1>1
<1>4. LayerOf(17 * l + s + 1) = l
  BY <1>2, <1>3, StepCount DEF LayerOf
<1>5. ((17 * l + s + 1) - 1) % PerLayer = s
  BY <1>2, <1>3, StepCount
<1> QED BY <1>1, <1>3, <1>4, <1>5 DEF StepOf

\* The two steps above the layers.
LEMMA StepOnTop ==
  ASSUME NEW s \in 0 .. 1
  PROVE  LayerOf(17 * Layers + s + 1) = Layers /\ StepOf(17 * Layers + s + 1) = TopSteps[s + 1]
<1>1. (17 * Layers + s) \div 17 = Layers /\ (17 * Layers + s + 1) - 1 = 17 * Layers + s
  BY LayersAssumption
<1>2. LayerOf(17 * Layers + s + 1) = Layers
  BY <1>1, StepCount DEF LayerOf
<1>3. (17 * Layers + s + 1) - PerLayer * Layers = s + 1
  BY StepCount, LayersAssumption
<1> QED BY <1>2, <1>3, LayersAssumption DEF StepOf

\* Every number of steps is reached in one layer, at one step of it.
LEMMA Located ==
  ASSUME NEW n \in 0 .. NumSteps
  PROVE  \E l \in 0 .. Layers, s \in 0 .. 16 : n = 17 * l + s /\ (l = Layers => s <= 2)
<1>1. n \div 17 \in 0 .. Layers /\ n % 17 \in 0 .. 16 /\ n = 17 * (n \div 17) + (n % 17)
  BY StepCount, LayersAssumption
<1>2. n \div 17 = Layers => n % 17 <= 2
  BY StepCount, LayersAssumption
<1> QED BY <1>1, <1>2

\* and in only one.
LEMMA AfterIs ==
  ASSUME NEW h, NEW b, NEW c, NEW l \in 0 .. Layers, NEW s \in 0 .. 16
  PROVE  After(h, 17 * l + s, b, c) <=> AtStep(h, l, s, b, c)
<1>1. \A k \in 0 .. Layers, r \in 0 .. 16 : 17 * l + s = 17 * k + r => k = l /\ r = s
  BY LayersAssumption
<1> QED BY <1>1 DEF After

\* A step belongs to a layer, or to the top.
LEMMA LayerOfStep == \A i \in 1 .. NumSteps : LayerOf(i) \in 0 .. Layers
  BY StepCount, LayersAssumption DEF LayerOf

\* What is issued names an existing layer and an existing row.
LEMMA OpsTyped == \A op \in Ops : op.layer \in 0 .. Layers /\ op.pos \in Rows
  BY LayerOfStep DEF Ops

\* Before the first call nothing is pending and nothing is fed.
LEMMA InitIInv == Init => IInv
<1> SUFFICES ASSUME Init PROVE IInv
  OBVIOUS
<1>1. stream = <<>> /\ fed = <<>> /\ at = 1 /\ host = "idle" /\ failures = 0
  BY DEF Init
<1>2. stream \in Seq(Ops) /\ fed \in Seq(Vocab) /\ Len(stream) = 0 /\ Len(fed) = 0
  BY <1>1
<1>3. call \in [token : Vocab, pos : Rows]
  BY ForwardAssumption DEF Init, Vocab, Rows
<1>4. CacheShape /\ DOMAIN cache = Caches
  BY DEF Init, CacheShape
<1>5. DOMAIN buf = WorkBuffers /\ posBuf \in Rows
  BY DEF Init
<1>6. TypeOK
  BY <1>1, <1>2, <1>3, <1>4, <1>5, StepCount, ForwardAssumption DEF TypeOK
<1> QED BY <1>1, <1>2, <1>4, <1>6 DEF IInv, NextPosition

\* Every step of the host and of the device keeps the invariant.
LEMMA NextIInv == IInv /\ [Next]_vars => IInv'
<1> SUFFICES ASSUME IInv, [Next]_vars PROVE IInv'
  OBVIOUS
<1>a. stream \in Seq(Ops) /\ fed \in Seq(Vocab) /\ Len(fed) \in Nat /\ at \in Nat
  BY DEF IInv, TypeOK
<1> USE ForwardAssumption DEF IInv, TypeOK, CacheShape, NextPosition
<1>1. ASSUME NEW tok \in TokenArg, Call(tok) PROVE IInv'
  BY <1>1, <1>a DEF Call, Accepts, devVars, Rows
<1>2. ASSUME NEW tok \in TokenArg, Reject(tok) PROVE IInv'
  BY <1>2 DEF Reject, devVars
<1>3. CASE CopyX
  BY <1>3 DEF CopyX
<1>4. CASE CopyPos
  BY <1>4, StepCount DEF CopyPos
<1>5. CASE Issue
  <2>1. Op(at) \in Ops /\ Op(at).pos = Len(fed)
    BY <1>5, StepCount DEF Issue, Op, Ops, Rows
  <2>2. /\ stream' \in Seq(Ops) /\ Len(stream') = Len(stream) + 1
        /\ \A i \in 1 .. Len(stream') : stream'[i] = IF i <= Len(stream) THEN stream[i] ELSE Op(at)
    BY <1>5, <1>a, <2>1 DEF Issue
  <2>3. \A i \in 1 .. Len(stream') : stream'[i].pos \in Rows /\ stream'[i].layer \in 0 .. Layers
    BY <2>2, OpsTyped
  <2>4. NextPosition'
    BY <1>5, <1>a, <2>1, <2>2 DEF Issue
  <2>5. at' \in 1 .. NumSteps + 1 /\ Len(stream') <= StreamDepth
    BY <1>5, <1>a, <2>2, StepCount DEF Issue
  <2>6. UNCHANGED <<host, call, buf, posBuf, cache, fed, failures>>
    BY <1>5 DEF Issue, devVars
  <2> QED BY <2>2, <2>3, <2>4, <2>5, <2>6
<1>6. CASE CopyLogits
  <2>1. fed' \in Seq(Vocab) /\ Len(fed') = Len(fed) + 1
    BY <1>6, <1>a DEF CopyLogits
  <2> QED BY <1>6, <1>a, <2>1 DEF CopyLogits, devVars
<1>7. CASE Error
  BY <1>7 DEF Error, devVars
<1>8. CASE RunKernel \/ RunStore
  <2>1. stream # <<>> /\ stream' = Tail(stream)
    BY <1>8 DEF RunKernel, RunStore
  <2>2. /\ stream' \in Seq(Ops) /\ Len(stream') = Len(stream) - 1
        /\ \A i \in 1 .. Len(stream') : stream'[i] = stream[i + 1]
    BY <1>a, <2>1, HeadTailProperties
  <2>3. DOMAIN buf' = WorkBuffers /\ CacheShape' /\ DOMAIN cache' = Caches
    <3>1. CASE RunKernel
      BY <3>1 DEF RunKernel
    <3>2. CASE RunStore
      BY <3>2 DEF RunStore
    <3> QED BY <1>8, <3>1, <3>2
  <2>4. UNCHANGED <<host, call, at, posBuf, fed, failures>>
    BY <1>8 DEF RunKernel, RunStore, hostVars
  <2>5. /\ NextPosition' /\ Len(stream') <= StreamDepth
        /\ \A i \in 1 .. Len(stream') : stream'[i].pos \in Rows /\ stream'[i].layer \in 0 .. Layers
    <3>1. \A i \in 1 .. Len(stream') : i + 1 \in 1 .. Len(stream)
      BY <1>a, <2>2, LenProperties
    <3>2. Len(stream) \in Nat
      BY <1>a, LenProperties
    <3>3. \A i \in 1 .. Len(stream') :
            stream'[i].pos = Len(fed) /\ stream'[i].pos \in Rows /\ stream'[i].layer \in 0 .. Layers
      BY <2>2, <3>1
    <3>4. Len(stream') <= StreamDepth
      BY <2>2, <3>2
    <3> QED BY <2>4, <3>3, <3>4
  <2> QED BY <2>2, <2>3, <2>4, <2>5
<1>9. CASE UNCHANGED vars
  BY <1>9 DEF vars, hostVars, devVars
<1> QED BY <1>1, <1>2, <1>3, <1>4, <1>5, <1>6, <1>7, <1>8, <1>9 DEF Next

\* The invariant holds in every state.
LEMMA SpecIInv == Spec => []IInv
  BY InitIInv, NextIInv, PTL DEF Spec

\* Host and device always have their types; the stream respects its bound.
THEOREM TypeCorrect == Spec => []TypeOK
<1>1. IInv => TypeOK
  BY DEF IInv
<1> QED BY <1>1, SpecIInv, PTL

\* The cache rows of the tokens fed are never written again, neither by a
\* later call nor by what a failed call left on the device.
THEOREM HistoryIsFrozen == Spec => HistoryFrozen
<1> DEFINE Frozen == \A c \in Caches, l \in LayerIds : \A p \in 0 .. Len(fed) - 1 :
                       cache'[c][l][p] = cache[c][l][p]
<1>1. ASSUME IInv, [Next]_vars PROVE [Frozen]_vars
  <2>1. CASE RunStore
    <3>1. Head(stream).pos = Len(fed) /\ Len(fed) \in Nat
      BY <1>1, <2>1 DEF IInv, TypeOK, NextPosition, RunStore
    <3> QED BY <1>1, <2>1, <3>1 DEF RunStore, RowOf, IInv, CacheShape
  <2>2. CASE UNCHANGED cache
    BY <2>2
  <2>3. RunStore \/ UNCHANGED cache
    BY <1>1 DEF Next, Call, Reject, CopyX, CopyPos, Issue, CopyLogits, Error, RunKernel, devVars, vars
  <2> QED BY <2>1, <2>2, <2>3
<1> QED BY <1>1, SpecIInv, PTL DEF Spec, HistoryFrozen

-----------------------------------------------------------------------------
(* What a step of the device does to exact data.                           *)

\* What each kind of kernel computes.
LEMMA RMSNormRuns == \A op : op.step.do = "rmsnorm" => Result(op) = RMSNorm(W(op.step.w, op.layer), buf[op.step.from])
  BY Zenon DEF Result

LEMMA MatVecRuns == \A op : op.step.do = "matvec" => Result(op) = MatVec(W(op.step.w, op.layer), buf[op.step.from])
  BY Zenon DEF Result

LEMMA RoPERuns == \A op : op.step.do = "rope" => Result(op) = RoPE(buf[op.step.from], posBuf)
  BY Zenon DEF Result

LEMMA AttendRuns == \A op : op.step.do = "attend" => Result(op) = AttendAll(op)
  BY Zenon DEF Result

LEMMA AddRuns == \A op : op.step.do = "add" => Result(op) = Add(buf["x"], buf["o"])
  BY Zenon DEF Result

LEMMA SiluMulRuns == \A op : op.step.do = "silumul" => Result(op) = SiluMul(buf["gate"], buf["up"])
  BY Zenon DEF Result

\* The device runs step s of layer l on exact data.
Runs(h, l, s) ==
  /\ stream # <<>> /\ Head(stream) = [step |-> LayerSteps[s + 1], layer |-> l, pos |-> Len(h) - 1]
  /\ RunKernel \/ RunStore

\* A kernel writes its result in one work buffer.
LEMMA KernelWrites ==
  ASSUME NEW op, stream # <<>>, op = Head(stream), RunKernel \/ RunStore,
         op.step.do # "store", op.step.to \in WorkBuffers, DOMAIN buf = WorkBuffers
  PROVE  /\ buf'[op.step.to] = Result(op)
         /\ \A b \in WorkBuffers : b # op.step.to => buf'[b] = buf[b]
         /\ cache' = cache
  BY DEF RunKernel, RunStore

\* A store writes one cache row.
LEMMA StoreWrites ==
  ASSUME NEW op, stream # <<>>, op = Head(stream), RunKernel \/ RunStore, CacheShape,
         op.step.do = "store", op.step.to \in Caches, op.layer \in LayerIds, op.pos \in Rows
  PROVE  /\ cache'[op.step.to][op.layer][op.pos] = buf["kv"]
         /\ \A c \in Caches, l \in LayerIds, p \in Rows :
              <<c, l, p>> # <<op.step.to, op.layer, op.pos>> => cache'[c][l][p] = cache[c][l][p]
         /\ buf' = buf
  BY DEF RunKernel, RunStore, RowOf, CacheShape

\* The attention of a layer, over the rows stored by the calls before and by this one.
LEMMA AttendsAll ==
  ASSUME NEW h, NEW l \in LayerIds, NEW op, op.layer = l, op.pos = Len(h) - 1, Len(h) - 1 \in Nat,
         buf["q"] = QueryOf(l, XOf(h, l), Len(h) - 1),
         \A t \in 0 .. Len(h) - 1 : RowExact(h, cache, l, t)
  PROVE  AttendAll(op) = AttnOf(h, l)
<1>1. [t \in 0 .. Len(h) - 1 |-> cache["kcache"][l][t]] = [t \in 0 .. Len(h) - 1 |-> KeyOf(l, Inputs(h)[l][t], t)]
  BY DEF RowExact
<1>2. [t \in 0 .. Len(h) - 1 |-> cache["vcache"][l][t]] = [t \in 0 .. Len(h) - 1 |-> ValueOf(l, Inputs(h)[l][t])]
  BY DEF RowExact
<1> QED BY <1>1, <1>2 DEF AttendAll, AttnOf

\* Every step of a layer but its last leaves the data exact for the next.
LEMMA InLayerStep ==
  ASSUME NEW h, NEW l \in LayerIds, NEW s \in 0 .. 15, Runs(h, l, s), InLayer(h, l, s, buf, cache),
         DOMAIN buf = WorkBuffers, CacheShape, posBuf = Len(h) - 1, Len(h) - 1 \in Rows,
         \A t \in 0 .. Len(h) - 2 : RowExact(h, cache, l, t)
  PROVE  InLayer(h, l, s + 1, buf', cache')
<1> DEFINE op == Head(stream)
<1>1. stream # <<>> /\ op.step = LayerSteps[s + 1] /\ op.layer = l /\ op.pos = Len(h) - 1 /\ (RunKernel \/ RunStore)
  BY DEF Runs
<1>2. Len(h) - 1 \in Nat /\ op.layer \in LayerIds /\ op.pos \in Rows
  BY <1>1 DEF Rows
<1> HIDE DEF op
<1>3. CASE s = 0
  <2>1. op.step = RMSNormOf("attn_norm", "x", "xn")
    BY <1>1, <1>3 DEF LayerSteps
  <2>2. op.step.do # "store" /\ op.step.to = "xn" /\ op.step.to \in WorkBuffers
    BY <2>1 DEF RMSNormOf, WorkBuffers
  <2>6. Result(op) = NormX(h, l)
    BY <1>1, <1>3, <2>1, RMSNormRuns DEF RMSNormOf, InLayer, NormX
  <2>7. /\ buf'["xn"] = NormX(h, l)
        /\ \A b \in WorkBuffers : b # "xn" => buf'[b] = buf[b]
        /\ cache' = cache
    BY <1>1, <2>2, <2>6, KernelWrites DEF op
  <2> QED BY <1>3, <2>7 DEF InLayer, WorkBuffers
<1>4. CASE s = 1
  <2>1. op.step = MatVecOf("attn_q", "xn", "q")
    BY <1>1, <1>4 DEF LayerSteps
  <2>2. op.step.do # "store" /\ op.step.to = "q" /\ op.step.to \in WorkBuffers
    BY <2>1 DEF MatVecOf, WorkBuffers
  <2>6. Result(op) = MatVec(W("attn_q", l), NormX(h, l))
    BY <1>1, <1>4, <2>1, MatVecRuns DEF MatVecOf, InLayer
  <2>7. /\ buf'["q"] = MatVec(W("attn_q", l), NormX(h, l))
        /\ \A b \in WorkBuffers : b # "q" => buf'[b] = buf[b]
        /\ cache' = cache
    BY <1>1, <2>2, <2>6, KernelWrites DEF op
  <2> QED BY <1>4, <2>7 DEF InLayer, WorkBuffers
<1>5. CASE s = 2
  <2>1. op.step = MatVecOf("attn_k", "xn", "kv")
    BY <1>1, <1>5 DEF LayerSteps
  <2>2. op.step.do # "store" /\ op.step.to = "kv" /\ op.step.to \in WorkBuffers
    BY <2>1 DEF MatVecOf, WorkBuffers
  <2>6. Result(op) = MatVec(W("attn_k", l), NormX(h, l))
    BY <1>1, <1>5, <2>1, MatVecRuns DEF MatVecOf, InLayer
  <2>7. /\ buf'["kv"] = MatVec(W("attn_k", l), NormX(h, l))
        /\ \A b \in WorkBuffers : b # "kv" => buf'[b] = buf[b]
        /\ cache' = cache
    BY <1>1, <2>2, <2>6, KernelWrites DEF op
  <2> QED BY <1>5, <2>7 DEF InLayer, WorkBuffers
<1>6. CASE s = 3
  <2>1. op.step = RoPEOn("q")
    BY <1>1, <1>6 DEF LayerSteps
  <2>2. op.step.do # "store" /\ op.step.to = "q" /\ op.step.to \in WorkBuffers
    BY <2>1 DEF RoPEOn, WorkBuffers
  <2>6. Result(op) = QueryOf(l, XOf(h, l), Len(h) - 1)
    BY <1>1, <1>6, <2>1, RoPERuns DEF RoPEOn, InLayer, QueryOf, NormX
  <2>7. /\ buf'["q"] = QueryOf(l, XOf(h, l), Len(h) - 1)
        /\ \A b \in WorkBuffers : b # "q" => buf'[b] = buf[b]
        /\ cache' = cache
    BY <1>1, <2>2, <2>6, KernelWrites DEF op
  <2> QED BY <1>6, <2>7 DEF InLayer, WorkBuffers
<1>7. CASE s = 4
  <2>1. op.step = RoPEOn("kv")
    BY <1>1, <1>7 DEF LayerSteps
  <2>2. op.step.do # "store" /\ op.step.to = "kv" /\ op.step.to \in WorkBuffers
    BY <2>1 DEF RoPEOn, WorkBuffers
  <2>6. Result(op) = KeyOf(l, XOf(h, l), Len(h) - 1)
    BY <1>1, <1>7, <2>1, RoPERuns DEF RoPEOn, InLayer, KeyOf, NormX
  <2>7. /\ buf'["kv"] = KeyOf(l, XOf(h, l), Len(h) - 1)
        /\ \A b \in WorkBuffers : b # "kv" => buf'[b] = buf[b]
        /\ cache' = cache
    BY <1>1, <2>2, <2>6, KernelWrites DEF op
  <2> QED BY <1>7, <2>7 DEF InLayer, WorkBuffers
<1>8. CASE s = 5
  <2>1. op.step = StoreIn("kcache")
    BY <1>1, <1>8 DEF LayerSteps
  <2>2. op.step.do = "store" /\ op.step.to = "kcache" /\ op.step.to \in Caches
    BY <2>1 DEF StoreIn, Caches
  <2>3. /\ cache'["kcache"][l][Len(h) - 1] = buf["kv"]
        /\ \A c \in Caches : c # "kcache" => cache'[c][l][Len(h) - 1] = cache[c][l][Len(h) - 1]
        /\ buf' = buf
    BY <1>1, <1>2, <2>2, StoreWrites DEF op
  <2> QED BY <1>8, <2>3 DEF InLayer, Caches
<1>9. CASE s = 6
  <2>1. op.step = MatVecOf("attn_v", "xn", "kv")
    BY <1>1, <1>9 DEF LayerSteps
  <2>2. op.step.do # "store" /\ op.step.to = "kv" /\ op.step.to \in WorkBuffers
    BY <2>1 DEF MatVecOf, WorkBuffers
  <2>6. Result(op) = ValueOf(l, XOf(h, l))
    BY <1>1, <1>9, <2>1, MatVecRuns DEF MatVecOf, InLayer, ValueOf, NormX
  <2>7. /\ buf'["kv"] = ValueOf(l, XOf(h, l))
        /\ \A b \in WorkBuffers : b # "kv" => buf'[b] = buf[b]
        /\ cache' = cache
    BY <1>1, <2>2, <2>6, KernelWrites DEF op
  <2> QED BY <1>9, <2>7 DEF InLayer, WorkBuffers
<1>10. CASE s = 7
  <2>1. op.step = StoreIn("vcache")
    BY <1>1, <1>10 DEF LayerSteps
  <2>2. op.step.do = "store" /\ op.step.to = "vcache" /\ op.step.to \in Caches
    BY <2>1 DEF StoreIn, Caches
  <2>3. /\ cache'["vcache"][l][Len(h) - 1] = buf["kv"]
        /\ \A c \in Caches : c # "vcache" => cache'[c][l][Len(h) - 1] = cache[c][l][Len(h) - 1]
        /\ buf' = buf
    BY <1>1, <1>2, <2>2, StoreWrites DEF op
  <2> QED BY <1>10, <2>3 DEF InLayer, Caches
<1>11. CASE s = 8
  <2>1. op.step = Attention
    BY <1>1, <1>11 DEF LayerSteps
  <2>2. op.step.do # "store" /\ op.step.to = "attn" /\ op.step.to \in WorkBuffers
    BY <2>1 DEF Attention, WorkBuffers
  <2>3. \A t \in 0 .. Len(h) - 1 : RowExact(h, cache, l, t)
    <3>1. RowExact(h, cache, l, Len(h) - 1)
      BY <1>11 DEF InLayer, RowExact, XOf
    <3>2. \A t \in 0 .. Len(h) - 1 : t = Len(h) - 1 \/ t \in 0 .. Len(h) - 2
      BY <1>2
    <3> QED BY <3>1, <3>2
  <2>4. Result(op) = AttendAll(op)
    BY <2>1, AttendRuns DEF Attention
  <2>5. buf["q"] = QueryOf(l, XOf(h, l), Len(h) - 1)
    BY <1>11 DEF InLayer
  <2>6. Result(op) = AttnOf(h, l)
    BY <1>1, <1>2, <2>3, <2>4, <2>5, AttendsAll
  <2>7. /\ buf'["attn"] = AttnOf(h, l)
        /\ \A b \in WorkBuffers : b # "attn" => buf'[b] = buf[b]
        /\ cache' = cache
    BY <1>1, <2>2, <2>6, KernelWrites DEF op
  <2> QED BY <1>11, <2>7 DEF InLayer, WorkBuffers
<1>12. CASE s = 9
  <2>1. op.step = MatVecOf("attn_output", "attn", "o")
    BY <1>1, <1>12 DEF LayerSteps
  <2>2. op.step.do # "store" /\ op.step.to = "o" /\ op.step.to \in WorkBuffers
    BY <2>1 DEF MatVecOf, WorkBuffers
  <2>6. Result(op) = MatVec(W("attn_output", l), AttnOf(h, l))
    BY <1>1, <1>12, <2>1, MatVecRuns DEF MatVecOf, InLayer
  <2>7. /\ buf'["o"] = MatVec(W("attn_output", l), AttnOf(h, l))
        /\ \A b \in WorkBuffers : b # "o" => buf'[b] = buf[b]
        /\ cache' = cache
    BY <1>1, <2>2, <2>6, KernelWrites DEF op
  <2> QED BY <1>12, <2>7 DEF InLayer, WorkBuffers
<1>13. CASE s = 10
  <2>1. op.step = AddToX
    BY <1>1, <1>13 DEF LayerSteps
  <2>2. op.step.do # "store" /\ op.step.to = "x" /\ op.step.to \in WorkBuffers
    BY <2>1 DEF AddToX, WorkBuffers
  <2>6. Result(op) = YOf(h, l)
    BY <1>1, <1>13, <2>1, AddRuns DEF AddToX, InLayer, YOf
  <2>7. /\ buf'["x"] = YOf(h, l)
        /\ \A b \in WorkBuffers : b # "x" => buf'[b] = buf[b]
        /\ cache' = cache
    BY <1>1, <2>2, <2>6, KernelWrites DEF op
  <2> QED BY <1>13, <2>7 DEF InLayer, WorkBuffers
<1>14. CASE s = 11
  <2>1. op.step = RMSNormOf("ffn_norm", "x", "xn")
    BY <1>1, <1>14 DEF LayerSteps
  <2>2. op.step.do # "store" /\ op.step.to = "xn" /\ op.step.to \in WorkBuffers
    BY <2>1 DEF RMSNormOf, WorkBuffers
  <2>6. Result(op) = NormY(h, l)
    BY <1>1, <1>14, <2>1, RMSNormRuns DEF RMSNormOf, InLayer, NormY
  <2>7. /\ buf'["xn"] = NormY(h, l)
        /\ \A b \in WorkBuffers : b # "xn" => buf'[b] = buf[b]
        /\ cache' = cache
    BY <1>1, <2>2, <2>6, KernelWrites DEF op
  <2> QED BY <1>14, <2>7 DEF InLayer, WorkBuffers
<1>15. CASE s = 12
  <2>1. op.step = MatVecOf("ffn_gate", "xn", "gate")
    BY <1>1, <1>15 DEF LayerSteps
  <2>2. op.step.do # "store" /\ op.step.to = "gate" /\ op.step.to \in WorkBuffers
    BY <2>1 DEF MatVecOf, WorkBuffers
  <2>6. Result(op) = GateOf(h, l)
    BY <1>1, <1>15, <2>1, MatVecRuns DEF MatVecOf, InLayer, GateOf
  <2>7. /\ buf'["gate"] = GateOf(h, l)
        /\ \A b \in WorkBuffers : b # "gate" => buf'[b] = buf[b]
        /\ cache' = cache
    BY <1>1, <2>2, <2>6, KernelWrites DEF op
  <2> QED BY <1>15, <2>7 DEF InLayer, WorkBuffers
<1>16. CASE s = 13
  <2>1. op.step = MatVecOf("ffn_up", "xn", "up")
    BY <1>1, <1>16 DEF LayerSteps
  <2>2. op.step.do # "store" /\ op.step.to = "up" /\ op.step.to \in WorkBuffers
    BY <2>1 DEF MatVecOf, WorkBuffers
  <2>6. Result(op) = UpOf(h, l)
    BY <1>1, <1>16, <2>1, MatVecRuns DEF MatVecOf, InLayer, UpOf
  <2>7. /\ buf'["up"] = UpOf(h, l)
        /\ \A b \in WorkBuffers : b # "up" => buf'[b] = buf[b]
        /\ cache' = cache
    BY <1>1, <2>2, <2>6, KernelWrites DEF op
  <2> QED BY <1>16, <2>7 DEF InLayer, WorkBuffers
<1>17. CASE s = 14
  <2>1. op.step = SiluMulStep
    BY <1>1, <1>17 DEF LayerSteps
  <2>2. op.step.do # "store" /\ op.step.to = "act" /\ op.step.to \in WorkBuffers
    BY <2>1 DEF SiluMulStep, WorkBuffers
  <2>6. Result(op) = SiluMul(GateOf(h, l), UpOf(h, l))
    BY <1>1, <1>17, <2>1, SiluMulRuns DEF SiluMulStep, InLayer
  <2>7. /\ buf'["act"] = SiluMul(GateOf(h, l), UpOf(h, l))
        /\ \A b \in WorkBuffers : b # "act" => buf'[b] = buf[b]
        /\ cache' = cache
    BY <1>1, <2>2, <2>6, KernelWrites DEF op
  <2> QED BY <1>17, <2>7 DEF InLayer, WorkBuffers
<1>18. CASE s = 15
  <2>1. op.step = MatVecOf("ffn_down", "act", "o")
    BY <1>1, <1>18 DEF LayerSteps
  <2>2. op.step.do # "store" /\ op.step.to = "o" /\ op.step.to \in WorkBuffers
    BY <2>1 DEF MatVecOf, WorkBuffers
  <2>6. Result(op) = DownOf(h, l)
    BY <1>1, <1>18, <2>1, MatVecRuns DEF MatVecOf, InLayer, DownOf
  <2>7. /\ buf'["o"] = DownOf(h, l)
        /\ \A b \in WorkBuffers : b # "o" => buf'[b] = buf[b]
        /\ cache' = cache
    BY <1>1, <2>2, <2>6, KernelWrites DEF op
  <2> QED BY <1>18, <2>7 DEF InLayer, WorkBuffers
<1> QED BY <1>3, <1>4, <1>5, <1>6, <1>7, <1>8, <1>9, <1>10, <1>11, <1>12, <1>13, <1>14, <1>15, <1>16, <1>17, <1>18

\* The last step of a layer leaves the input of the next one, and the layer's cache row exact.
LEMMA LastInLayer ==
  ASSUME NEW h, NEW l \in LayerIds, Runs(h, l, 16), InLayer(h, l, 16, buf, cache),
         DOMAIN buf = WorkBuffers, Len(h) - 1 \in Rows
  PROVE  buf'["x"] = XOf(h, l + 1) /\ RowExact(h, cache', l, Len(h) - 1)
<1> DEFINE op == Head(stream)
<1>1. stream # <<>> /\ op.step = LayerSteps[17] /\ (RunKernel \/ RunStore)
  BY DEF Runs
<1> HIDE DEF op
<1>2. op.step = AddToX
  BY <1>1 DEF LayerSteps
<1>3. op.step.do # "store" /\ op.step.to = "x" /\ op.step.to \in WorkBuffers
  BY <1>2 DEF AddToX, WorkBuffers
<1>4. Result(op) = Add(YOf(h, l), DownOf(h, l))
  BY <1>2, AddRuns DEF AddToX, InLayer
<1>5. buf'["x"] = Add(YOf(h, l), DownOf(h, l)) /\ cache' = cache
  BY <1>1, <1>3, <1>4, KernelWrites DEF op
<1>6. XOf(h, l + 1) = Add(YOf(h, l), DownOf(h, l))
  <2>1. Len(h) - 1 \in 0 .. Len(h) - 1 /\ (l + 1) - 1 = l
    BY DEF Rows, LayerIds
  <2>2. Inputs(h)[l + 1] = NextInputs(h, l + 1, Inputs(h)[l])
    BY InputsAre
  <2>3. XOf(h, l + 1) = LayerOut(l, Inputs(h)[l], Len(h) - 1)
    BY <2>1, <2>2 DEF XOf, NextInputs
  <2> QED BY <2>3 DEF LayerOut, XOf, YOf, DownOf, GateOf, UpOf, NormY, AttnOf
<1> QED BY <1>5, <1>6 DEF InLayer, RowExact, XOf

\* The device runs step s above the layers.
RunsOnTop(h, s) ==
  /\ stream # <<>> /\ Head(stream) = [step |-> TopSteps[s + 1], layer |-> Layers, pos |-> Len(h) - 1]
  /\ RunKernel \/ RunStore

\* The norm and the LM head.
LEMMA OnTopStep ==
  ASSUME NEW h, NEW s \in 0 .. 1, RunsOnTop(h, s), OnTop(h, s, buf), DOMAIN buf = WorkBuffers
  PROVE  OnTop(h, s + 1, buf') /\ cache' = cache
<1> DEFINE op == Head(stream)
<1>1. stream # <<>> /\ op.step = TopSteps[s + 1] /\ op.layer = Layers /\ (RunKernel \/ RunStore)
  BY DEF RunsOnTop
<1> HIDE DEF op
<1>2. CASE s = 0
  <2>1. op.step = RMSNormOf("output_norm", "x", "xn")
    BY <1>1, <1>2 DEF TopSteps
  <2>2. op.step.do # "store" /\ op.step.to = "xn" /\ op.step.to \in WorkBuffers
    BY <2>1 DEF RMSNormOf, WorkBuffers
  <2>3. Result(op) = RMSNorm(W("output_norm", TopLayer), XOf(h, Layers))
    BY <1>1, <1>2, <2>1, RMSNormRuns DEF RMSNormOf, OnTop, TopLayer
  <2>4. buf'["xn"] = RMSNorm(W("output_norm", TopLayer), XOf(h, Layers)) /\ cache' = cache
    BY <1>1, <2>2, <2>3, KernelWrites DEF op
  <2> QED BY <1>2, <2>4 DEF OnTop
<1>3. CASE s = 1
  <2>1. op.step = MatVecOf("output", "xn", "logits")
    BY <1>1, <1>3 DEF TopSteps
  <2>2. op.step.do # "store" /\ op.step.to = "logits" /\ op.step.to \in WorkBuffers
    BY <2>1 DEF MatVecOf, WorkBuffers
  <2>3. Result(op) = LogitsOf(h)
    BY <1>1, <1>3, <2>1, MatVecRuns DEF MatVecOf, OnTop, TopLayer, LogitsOf, XOf
  <2>4. buf'["logits"] = LogitsOf(h) /\ cache' = cache
    BY <1>1, <2>2, <2>3, KernelWrites DEF op
  <2> QED BY <1>3, <2>4 DEF OnTop
<1> QED BY <1>2, <1>3

\* Whatever runs, only the row of its layer and position can change.
LEMMA CacheFrame ==
  ASSUME RunKernel \/ RunStore, CacheShape, NEW c \in Caches, NEW l \in LayerIds, NEW p \in Rows,
         l # Head(stream).layer \/ p # Head(stream).pos
  PROVE  cache'[c][l][p] = cache[c][l][p]
  BY DEF RunKernel, RunStore, RowOf, CacheShape

\* The device executes the next step of the token whose data are exact.
LEMMA AfterNext ==
  ASSUME NEW h, NEW n \in 0 .. NumSteps - 1, After(h, n, buf, cache),
         stream # <<>>, Head(stream) = [step |-> StepOf(n + 1), layer |-> LayerOf(n + 1), pos |-> Len(h) - 1],
         RunKernel \/ RunStore,
         DOMAIN buf = WorkBuffers, CacheShape, posBuf = Len(h) - 1, Len(h) - 1 \in Rows,
         \A l \in LayerIds, t \in 0 .. Len(h) - 2 : RowExact(h, cache, l, t)
  PROVE  After(h, n + 1, buf', cache')
<1>1. PICK l \in 0 .. Layers, s \in 0 .. 16 : n = 17 * l + s /\ (l = Layers => s <= 1)
  <2>1. n \in 0 .. NumSteps
    BY StepCount
  <2>2. PICK l \in 0 .. Layers, s \in 0 .. 16 : n = 17 * l + s /\ (l = Layers => s <= 2)
    BY <2>1, Located
  <2>3. l = Layers => s <= 1
    BY <2>2, StepCount, LayersAssumption
  <2> QED BY <2>2, <2>3
<1>2. AtStep(h, l, s, buf, cache)
  BY <1>1, AfterIs
<1>3. CASE l < Layers
  <2>1. l \in LayerIds /\ l \in Nat
    BY <1>3, LayersAssumption DEF LayerIds
  <2>2. n + 1 = 17 * l + s + 1
    BY <1>1, <2>1
  <2>3. Runs(h, l, s)
    BY <2>1, <2>2, StepInLayer DEF Runs
  <2>4. InLayer(h, l, s, buf, cache)
    BY <1>2, <1>3 DEF AtStep
  <2>5. \A k \in 0 .. l - 1 : RowExact(h, cache', k, Len(h) - 1)
    <3>1. Head(stream).layer = l
      BY <2>3 DEF Runs
    <3>2. \A k \in 0 .. l - 1 : k \in LayerIds /\ k # l
      BY <1>3, <2>1, LayersAssumption DEF LayerIds
    <3>3. \A k \in 0 .. l - 1, c \in Caches : cache'[c][k][Len(h) - 1] = cache[c][k][Len(h) - 1]
      BY <3>1, <3>2, CacheFrame
    <3> QED BY <1>2, <3>3 DEF AtStep, RowExact, Caches
  <2>6. CASE s < 16
    <3>1. s \in 0 .. 15 /\ s + 1 \in 0 .. 16 /\ n + 1 = 17 * l + (s + 1)
      BY <2>2, <2>6, <2>1
    <3>2. InLayer(h, l, s + 1, buf', cache')
      BY <2>1, <2>3, <2>4, <3>1, InLayerStep
    <3>3. AtStep(h, l, s + 1, buf', cache')
      BY <1>3, <2>5, <3>2 DEF AtStep
    <3> QED BY <3>1, <3>3, AfterIs
  <2>7. CASE s = 16
    <3>1. l + 1 \in 0 .. Layers /\ n + 1 = 17 * (l + 1) + 0
      BY <1>3, <2>1, <2>2, <2>7, LayersAssumption
    <3>2. buf'["x"] = XOf(h, l + 1) /\ RowExact(h, cache', l, Len(h) - 1)
      BY <2>1, <2>3, <2>4, <2>7, LastInLayer
    <3>3. \A k \in 0 .. (l + 1) - 1 : RowExact(h, cache', k, Len(h) - 1)
      <4>1. \A k \in 0 .. (l + 1) - 1 : k \in 0 .. l - 1 \/ k = l
        BY <2>1
      <4> QED BY <2>5, <3>2, <4>1
    <3>4. InLayer(h, l + 1, 0, buf', cache')
      BY <3>2 DEF InLayer
    <3>5. l + 1 = Layers => OnTop(h, 0, buf')
      BY <3>2 DEF OnTop
    <3>6. AtStep(h, l + 1, 0, buf', cache')
      BY <3>3, <3>4, <3>5 DEF AtStep
    <3>7. After(h, 17 * (l + 1) + 0, buf', cache')
      BY <3>1, <3>6, AfterIs
    <3> QED BY <3>1, <3>7
  <2> QED BY <2>6, <2>7
<1>4. CASE l = Layers
  <2>1. s \in 0 .. 1 /\ n + 1 = 17 * Layers + s + 1 /\ n + 1 = 17 * Layers + (s + 1) /\ s + 1 \in 0 .. 16
    BY <1>1, <1>4, LayersAssumption
  <2>2. RunsOnTop(h, s)
    BY <2>1, StepOnTop DEF RunsOnTop
  <2>3. OnTop(h, s, buf)
    BY <1>2, <1>4 DEF AtStep
  <2>4. OnTop(h, s + 1, buf') /\ cache' = cache
    BY <2>1, <2>2, <2>3, OnTopStep
  <2>5. AtStep(h, Layers, s + 1, buf', cache')
    BY <1>2, <1>4, <2>4, LayersAssumption DEF AtStep
  <2>6. \A r \in 0 .. 16 : AtStep(h, Layers, r, buf', cache') => After(h, 17 * Layers + r, buf', cache')
    BY <1>4, AfterIs
  <2> QED BY <2>1, <2>5, <2>6
<1> QED BY <1>3, <1>4, LayersAssumption

-----------------------------------------------------------------------------
(* The second invariant, and the promise.                                  *)

\* Before the first call no row counts.
LEMMA InitExact == Init => Exact
  BY DEF Init, Exact, CacheExact, Progress

\* With the last step of a token its rows are exact in every layer, and its logits are there.
LEMMA AllDone ==
  ASSUME NEW h, NEW b, NEW c, After(h, NumSteps, b, c)
  PROVE  /\ \A l \in LayerIds : RowExact(h, c, l, Len(h) - 1)
         /\ b["logits"] = LogitsOf(h)
<1>1. Layers \in 0 .. Layers /\ 2 \in 0 .. 16 /\ NumSteps = 17 * Layers + 2
  BY LayersAssumption, StepCount
<1>2. AtStep(h, Layers, 2, b, c)
  BY <1>1 DEF After
<1> QED BY <1>2 DEF AtStep, OnTop, LayerIds

\* A token's first step finds the embedding row in x.
LEMMA NoneDone ==
  ASSUME NEW h, NEW b, NEW c, Len(h) \in Nat \ {0}, b["x"] = Embed(h[Len(h)])
  PROVE  After(h, 0, b, c)
<1>1. XOf(h, 0) = b["x"]
  <2>1. Inputs(h)[0] = FirstInputs(h)
    BY InputsAre
  <2>2. Len(h) - 1 \in 0 .. Len(h) - 1 /\ (Len(h) - 1) + 1 = Len(h)
    OBVIOUS
  <2> QED BY <2>1, <2>2 DEF FirstInputs, XOf
<1>2. AtStep(h, 0, 0, b, c)
  BY <1>1 DEF AtStep, InLayer, OnTop
<1>3. \A l \in 0 .. Layers, s \in 0 .. 16 : 0 = 17 * l + s => l = 0 /\ s = 0
  BY LayersAssumption
<1> QED BY <1>2, <1>3 DEF After

\* The rows of the tokens fed are exact for a call's tokens too.
LEMMA PastExact ==
  ASSUME CacheExact, fed \in Seq(Vocab), NEW tok \in Vocab
  PROVE  \A l \in LayerIds, p \in 0 .. Len(fed) - 1 : RowExact(Append(fed, tok), cache, l, p)
<1>1. \A l \in LayerIds : l \in 0 .. Layers
  BY LayersAssumption DEF LayerIds
<1>2. \A l \in LayerIds, p \in 0 .. Len(fed) - 1 : Inputs(Append(fed, tok))[l][p] = Inputs(fed)[l][p]
  BY <1>1, InputsOfPrefix
<1> QED BY <1>2 DEF CacheExact, RowExact

\* Every step of the host and of the device keeps the data exact.
LEMMA NextExact == IInv /\ Exact /\ [Next]_vars => Exact'
<1> SUFFICES ASSUME IInv, Exact, [Next]_vars PROVE Exact'
  OBVIOUS
<1>a. /\ stream \in Seq(Ops) /\ fed \in Seq(Vocab) /\ Len(fed) \in Nat /\ Len(stream) \in Nat
      /\ at \in 1 .. NumSteps + 1 /\ call.token \in Vocab /\ call.pos \in Rows /\ DOMAIN buf = WorkBuffers
  BY LenProperties DEF IInv, TypeOK
<1>b. /\ Called \in Seq(Vocab) /\ Len(Called) = Len(fed) + 1 /\ Called[Len(Called)] = call.token
      /\ \A l \in LayerIds, p \in 0 .. Len(Called) - 2 : RowExact(Called, cache, l, p)
  <2>1. Called \in Seq(Vocab) /\ Len(Called) = Len(fed) + 1 /\ Called[Len(Called)] = call.token
    BY <1>a DEF Called
  <2>2. Len(Called) - 2 = Len(fed) - 1
    BY <1>a, <2>1
  <2>3. \A l \in LayerIds, p \in 0 .. Len(fed) - 1 : RowExact(Called, cache, l, p)
    BY <1>a, PastExact DEF Exact, Called
  <2> QED BY <2>1, <2>2, <2>3
<1>c. ASSUME UNCHANGED <<cache, fed>> PROVE CacheExact'
  BY <1>c DEF Exact, CacheExact
<1>1. ASSUME NEW tok \in TokenArg, Call(tok) PROVE Exact'
  <2>1. CacheExact'
    BY <1>1, <1>c DEF Call, devVars
  <2>2. Progress'
    BY <1>1 DEF Call, Progress
  <2> QED BY <2>1, <2>2 DEF Exact
<1>2. ASSUME UNCHANGED <<host, call, hostRow, at, stream, fed, devVars>> PROVE Exact'
  <2>1. CacheExact'
    BY <1>2, <1>c DEF devVars
  <2>2. Called' = Called /\ Done' = Done
    BY <1>2 DEF Called, Done
  <2>3. Progress'
    BY <1>2, <2>2 DEF Exact, Progress, Op, devVars
  <2> QED BY <2>1, <2>3 DEF Exact
<1>3. CASE CopyX
  <2>1. CacheExact'
    BY <1>3, <1>c DEF CopyX
  <2>2. host' = "copyPos" /\ stream' = <<>> /\ buf'["x"] = Embed(call'.token)
    BY <1>3, <1>a DEF CopyX, Exact, Progress, WorkBuffers
  <2>3. Progress'
    BY <2>2 DEF Progress
  <2> QED BY <2>1, <2>3 DEF Exact
<1>4. CASE CopyPos
  <2>1. CacheExact'
    BY <1>4, <1>c DEF CopyPos
  <2>2. host' = "issue" /\ stream' = <<>> /\ posBuf' = call'.pos /\ at' = 1 /\ Called' = Called /\ buf' = buf
    BY <1>4 DEF CopyPos, Called
  <2>3. Done' = 0 /\ Len(stream') = 0
    <3>1. Len(stream') = 0
      BY <2>2, EmptySeq
    <3>2. Done' = at' - 1 - Len(stream')
      BY DEF Done
    <3> QED BY <2>2, <3>1, <3>2
  <2>4. After(Called, 0, buf', cache')
    <3>1. buf'["x"] = Embed(Called[Len(Called)]) /\ Len(Called) \in Nat \ {0}
      BY <1>4, <1>a, <1>b, <2>2 DEF CopyPos, Exact, Progress
    <3> QED BY <3>1, NoneDone
  <2>5. Progress'
    BY <2>2, <2>3, <2>4, StepCount DEF Progress
  <2> QED BY <2>1, <2>5 DEF Exact
<1>5. CASE Issue
  <2>1. CacheExact'
    BY <1>5, <1>c DEF Issue, devVars
  <2>2. /\ host = "issue" /\ UNCHANGED <<host, call, posBuf, buf, cache>> /\ Called' = Called
        /\ at' = at + 1 /\ stream' = Append(stream, Op(at))
    BY <1>5 DEF Issue, Called, devVars
  <2>3. Len(stream') = Len(stream) + 1 /\ Done' = Done
    BY <1>a, <2>2 DEF Done
  <2>4. \A i \in 1 .. Len(stream') : stream'[i] = Op(Done + i)
    <3>1. \A i \in 1 .. Len(stream) : stream'[i] = stream[i]
      BY <1>a, <2>2
    <3>2. stream'[Len(stream) + 1] = Op(at) /\ Done + (Len(stream) + 1) = at
      BY <1>a, <2>2 DEF Done
    <3>3. \A i \in 1 .. Len(stream) : stream[i] = Op(Done + i)
      BY <2>2 DEF Exact, Progress
    <3>4. \A i \in 1 .. Len(stream) + 1 : i \in 1 .. Len(stream) \/ i = Len(stream) + 1
      BY <1>a
    <3> QED BY <2>3, <3>1, <3>2, <3>3, <3>4
  <2>5. \A i \in 1 .. Len(stream') : stream'[i] = Op(Done + i)'
    BY <2>2, <2>3, <2>4 DEF Op
  <2>6. Progress'
    BY <2>2, <2>3, <2>5 DEF Exact, Progress
  <2> QED BY <2>1, <2>6 DEF Exact
<1>6. CASE CopyLogits
  <2>1. fed' = Called /\ cache' = cache /\ host' = "idle"
    BY <1>6 DEF CopyLogits, Called, devVars
  <2>2. After(Called, NumSteps, buf, cache)
    <3>1. host = "issue" /\ Done = NumSteps
      BY <1>6, <1>a, StepCount DEF CopyLogits, Done
    <3> QED BY <3>1 DEF Exact, Progress
  <2>3. \A l \in LayerIds : RowExact(Called, cache, l, Len(Called) - 1)
    BY <2>2, AllDone
  <2>4. \A p \in 0 .. Len(Called) - 1 : p \in 0 .. Len(Called) - 2 \/ p = Len(Called) - 1
    BY <1>a, <1>b
  <2>5. \A l \in LayerIds, p \in 0 .. Len(Called) - 1 : RowExact(Called, cache, l, p)
    BY <1>b, <2>3, <2>4
  <2>6. CacheExact'
    BY <2>1, <2>5 DEF CacheExact, RowExact
  <2>7. Progress'
    BY <2>1 DEF Progress
  <2> QED BY <2>6, <2>7 DEF Exact
<1>7. CASE Error
  <2>1. CacheExact'
    BY <1>7, <1>c DEF Error, devVars
  <2>2. Progress'
    BY <1>7 DEF Error, Progress
  <2> QED BY <2>1, <2>2 DEF Exact
<1>8. CASE RunKernel \/ RunStore
  <2>1. stream # <<>> /\ stream' = Tail(stream) /\ UNCHANGED <<hostVars, posBuf>>
    BY <1>8 DEF RunKernel, RunStore
  <2>2. /\ Len(stream) > 0 /\ Len(stream') = Len(stream) - 1 /\ Head(stream) = stream[1]
        /\ \A i \in 1 .. Len(stream') : stream'[i] = stream[i + 1] /\ i + 1 \in 1 .. Len(stream)
    BY <1>a, <2>1, HeadTailProperties, LenProperties
  <2>3. UNCHANGED <<host, call, hostRow, at, fed, posBuf>> /\ Called' = Called /\ Done' = Done + 1
    BY <1>a, <2>1, <2>2 DEF hostVars, Called, Done
  <2>4. CacheExact'
    <3>1. Head(stream).pos = Len(fed) /\ Len(fed) <= MaxLen
      BY <1>a, <2>2 DEF IInv, TypeOK, NextPosition
    <3>2. ASSUME NEW l \in LayerIds, NEW p \in 0 .. Len(fed) - 1, NEW c \in Caches
          PROVE  cache'[c][l][p] = cache[c][l][p]
      <4>1. p \in Rows /\ p # Head(stream).pos
        BY <1>a, <3>1, ForwardAssumption DEF Rows
      <4> QED BY <1>8, <4>1, CacheFrame DEF IInv
    <3> QED BY <2>3, <3>2 DEF Exact, CacheExact, Caches
  <2>5. CASE host = "issue"
    <3>1. /\ Done \in 0 .. NumSteps - 1 /\ Done + 1 \in 0 .. NumSteps
      BY <1>a, <2>2, <2>5, StepCount DEF Exact, Progress, Done
    <3>2. Head(stream) = Op(Done + 1) /\ call.pos = Len(Called) - 1 /\ posBuf = call.pos
      BY <1>a, <1>b, <2>2, <2>5 DEF Exact, Progress, IInv, NextPosition
    <3>3. Head(stream) = [step |-> StepOf(Done + 1), layer |-> LayerOf(Done + 1), pos |-> Len(Called) - 1]
      BY <3>2 DEF Op
    <3>4. After(Called, Done, buf, cache) /\ CacheShape
      BY <2>5 DEF Exact, Progress, IInv
    <3>5. After(Called, Done + 1, buf', cache')
      BY <1>8, <1>a, <1>b, <2>1, <3>1, <3>2, <3>3, <3>4, AfterNext
    <3>6. \A i \in 1 .. Len(stream') : stream'[i] = Op(Done' + i)
      <4>1. \A i \in 1 .. Len(stream') : stream'[i] = Op(Done + (i + 1))
        BY <2>2, <2>5 DEF Exact, Progress
      <4>2. \A i \in 1 .. Len(stream') : Done + (i + 1) = Done' + i
        BY <2>3, <3>1
      <4> QED BY <4>1, <4>2
    <3>7. \A i \in 1 .. Len(stream') : stream'[i] = Op(Done + i)'
      BY <2>3, <3>6 DEF Op
    <3> QED BY <2>3, <2>4, <2>5, <3>1, <3>2, <3>5, <3>7 DEF Exact, Progress
  <2>6. CASE host # "issue"
    BY <2>1, <2>3, <2>4, <2>6 DEF Exact, Progress
  <2> QED BY <2>5, <2>6
<1>9. ASSUME NEW tok \in TokenArg, Reject(tok) PROVE Exact'
  BY <1>9, <1>2 DEF Reject
<1>10. CASE UNCHANGED vars
  BY <1>10, <1>2 DEF vars, hostVars
<1> QED BY <1>1, <1>3, <1>4, <1>5, <1>6, <1>7, <1>8, <1>9, <1>10 DEF Next

\* The data are exact in every state.
LEMMA SpecExact == Spec => []Exact
<1>1. IInv /\ Exact /\ [Next]_vars => Exact'
  BY NextExact
<1> QED BY <1>1, InitExact, SpecIInv, PTL DEF Spec

\* The KV cache is exact: the rows of the tokens fed are the keys and values of
\* the network, whatever failed calls left on the device.
THEOREM CacheAlwaysExact == Spec => []CacheExact
<1>1. Exact => CacheExact
  BY DEF Exact
<1> QED BY <1>1, SpecExact, PTL

\* Decode reads the network as Forward does.
LEMMA SameLogits == \A h : Promise!LogitsOf(h) = LogitsOf(h)
  BY DEF Promise!LogitsOf, LogitsOf, Promise!Inputs, Inputs, Promise!LayerOut, LayerOut,
         Promise!KeyOf, KeyOf, Promise!ValueOf, ValueOf, Promise!QueryOf, QueryOf, Promise!W, W,
         Promise!TopLayer, TopLayer

\* Every step of host and device is one of Decode's, or changes nothing it sees.
LEMMA StepKeepsPromise == IInv /\ Exact /\ [Next]_vars => [Promise!Next]_<<fed, answer>>
<1> SUFFICES ASSUME IInv, Exact, [Next]_vars PROVE Promise!Next \/ UNCHANGED <<fed, answer>>
  OBVIOUS
<1>1. CASE CopyLogits
  <2>1. call.token \in Vocab /\ Len(fed) < MaxLen
    BY <1>1 DEF CopyLogits, IInv, TypeOK, NextPosition
  <2>2. host = "issue" /\ Done = NumSteps
    <3>1. Len(stream) = 0 /\ at = NumSteps + 1
      BY <1>1, EmptySeq, StepCount DEF CopyLogits, IInv, TypeOK
    <3> QED BY <1>1, <3>1, StepCount DEF CopyLogits, Done
  <2>3. buf["logits"] = LogitsOf(Called)
    BY <2>2, AllDone DEF Exact, Progress
  <2>4. Promise!Feed(call.token)
    BY <1>1, <2>1, <2>3, SameLogits DEF CopyLogits, Called, Promise!Feed
  <2> QED BY <2>1, <2>4 DEF Promise!Next
<1>2. ASSUME answer' = Failure, fed' = fed PROVE Promise!Next
  BY <1>2 DEF Promise!Next, Promise!Fail
<1>3. ASSUME NEW tok \in TokenArg, Call(tok) \/ Reject(tok) PROVE Promise!Next \/ UNCHANGED <<fed, answer>>
  BY <1>2, <1>3 DEF Call, Reject
<1>4. CASE Error
  BY <1>2, <1>4 DEF Error
<1>5. CASE CopyX \/ CopyPos \/ Issue
  BY <1>5 DEF CopyX, CopyPos, Issue
<1>6. CASE RunKernel \/ RunStore \/ UNCHANGED vars
  BY <1>6 DEF RunKernel, RunStore, hostVars, vars
<1> QED BY <1>1, <1>3, <1>4, <1>5, <1>6 DEF Next

\* Forward implements Decode: what it returns is an error that has fed nothing, or
\* the logits of the tokens fed.
THEOREM PromiseKept == Spec => Implements
<1>1. Init => Promise!Init
  BY DEF Init, Promise!Init
<1>2. IInv /\ Exact /\ [Next]_vars => [Promise!Next]_<<fed, answer>>
  BY StepKeepsPromise
<1> QED BY <1>1, <1>2, SpecIInv, SpecExact, PTL DEF Spec, Implements, Promise!Spec
=============================================================================
