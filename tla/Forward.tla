------------------------------ MODULE Forward ------------------------------
(***************************************************************************)
(* Model.Forward (model/model.go): the host issues the steps of one token  *)
(* to the default CUDA stream and the device executes them behind it, on   *)
(* work buffers that every layer and every call share and on a KV cache    *)
(* that grows by one row per call.  A launch or a copy can fail; Forward   *)
(* then returns at once, and what it issued still runs on the device.      *)
(*                                                                         *)
(* The caller keeps the documented contract: positions are fed in order.   *)
(* A position whose call failed is not fed, and may be tried again.        *)
(***************************************************************************)
EXTENDS Reference, Integers

CONSTANTS
  VocabSize,    \* c.Vocab
  MaxLen,       \* rows of the KV cache
  StreamDepth,  \* bound: operations the device may lag behind the host
  MaxFailures,  \* bound: failing calls
  Undef,        \* what a new buffer holds
  NoAnswer, Failure

ASSUME ForwardAssumption ==
  /\ VocabSize \in Nat \ {0} /\ MaxLen \in Nat \ {0}
  /\ StreamDepth \in Nat \ {0} /\ MaxFailures \in Nat

Vocab    == 0 .. VocabSize - 1
TokenArg == -1 .. VocabSize     \* -1: Tokenizer.ID of a token the model lacks
Rows     == 0 .. MaxLen - 1

VARIABLES
  host,      \* what the calling goroutine does next
  call,      \* Forward's arguments
  hostRow,   \* m.hostRow
  at,        \* the next step to issue
  stream,    \* issued and not yet executed
  buf,       \* the work buffers on the device
  posBuf,    \* m.pos on the device
  cache,     \* kcache and vcache of every layer
  answer,    \* what the last call returned (m.hostLogits or an error)
  fed,       \* the tokens of the calls that succeeded, position 0 first
  failures

hostVars == <<host, call, hostRow, at, answer, fed, failures>>
devVars  == <<buf, posBuf, cache>>
vars     == <<hostVars, stream, devVars>>

-----------------------------------------------------------------------------
(* The steps of a token.  Work buffers are named as in the Model struct.   *)

RMSNormOf(w, from, to) == [do |-> "rmsnorm", w |-> w, from |-> from, to |-> to]
MatVecOf(w, from, to)  == [do |-> "matvec", w |-> w, from |-> from, to |-> to]
RoPEOn(b)              == [do |-> "rope", w |-> "none", from |-> b, to |-> b]
StoreIn(c)             == [do |-> "store", w |-> "none", from |-> "kv", to |-> c]
Attention              == [do |-> "attend", w |-> "none", from |-> "q", to |-> "attn"]
SiluMulStep            == [do |-> "silumul", w |-> "none", from |-> "gate", to |-> "act"]
AddToX                 == [do |-> "add", w |-> "none", from |-> "o", to |-> "x"]

\* The new V is computed into kv before the new K has been saved from it.
KvReusedEarly == <<
  RMSNormOf("attn_norm", "x", "xn"),
  MatVecOf("attn_q", "xn", "q"),
  MatVecOf("attn_k", "xn", "kv"),
  RoPEOn("q"),
  RoPEOn("kv"),
  MatVecOf("attn_v", "xn", "kv"),
  StoreIn("kcache"),
  StoreIn("vcache"),
  Attention,
  MatVecOf("attn_output", "attn", "o"),
  AddToX,
  RMSNormOf("ffn_norm", "x", "xn"),
  MatVecOf("ffn_gate", "xn", "gate"),
  MatVecOf("ffn_up", "xn", "up"),
  SiluMulStep,
  MatVecOf("ffn_down", "act", "o"),
  AddToX >>

LayerSteps == <<
  RMSNormOf("attn_norm", "x", "xn"),
  MatVecOf("attn_q", "xn", "q"),
  MatVecOf("attn_k", "xn", "kv"),
  RoPEOn("q"),
  RoPEOn("kv"),
  StoreIn("kcache"),
  MatVecOf("attn_v", "xn", "kv"),
  StoreIn("vcache"),
  Attention,
  MatVecOf("attn_output", "attn", "o"),
  AddToX,
  RMSNormOf("ffn_norm", "x", "xn"),
  MatVecOf("ffn_gate", "xn", "gate"),
  MatVecOf("ffn_up", "xn", "up"),
  SiluMulStep,
  MatVecOf("ffn_down", "act", "o"),
  AddToX >>

TopSteps == << RMSNormOf("output_norm", "x", "xn"), MatVecOf("output", "xn", "logits") >>

PerLayer == Len(LayerSteps)
NumSteps == PerLayer * Layers + Len(TopSteps)

LayerOf(i) == (i - 1) \div PerLayer      \* TopLayer past the last layer
StepOf(i)  == IF LayerOf(i) < Layers THEN LayerSteps[1 + ((i - 1) % PerLayer)]
                                     ELSE TopSteps[i - PerLayer * Layers]

\* Arguments are taken when a step is issued: the layer's buffers, and pos.
Op(i) == [step |-> StepOf(i), layer |-> LayerOf(i), pos |-> call.pos]

WorkBuffers == {"x", "xn", "q", "kv", "attn", "o", "gate", "up", "act", "logits"}
Caches      == {"kcache", "vcache"}

Init ==
  /\ host = "idle" /\ call = [token |-> 0, pos |-> 0] /\ hostRow = Undef /\ at = 1
  /\ stream = <<>>
  /\ buf = [b \in WorkBuffers |-> Undef]
  /\ posBuf \in Rows
  /\ cache = [c \in Caches |-> [l \in LayerIds |-> [p \in Rows |-> Undef]]]
  /\ answer = NoAnswer /\ fed = <<>> /\ failures = 0

-----------------------------------------------------------------------------
(* The host.                                                               *)

\* pos > m.MaxLen
AcceptsFull(tok, pos) == pos \in 0 .. MaxLen /\ tok \in Vocab

\* Forward's two guards: the position is in the cache, the token in the vocabulary.
Accepts(tok, pos) == pos \in Rows /\ tok \in Vocab

\* quant.Row reads the embedding before anything touches the device.
Call(tok) ==
  /\ host = "idle"
  /\ Accepts(tok, Len(fed))
  /\ call' = [token |-> tok, pos |-> Len(fed)]
  /\ hostRow' = Embed(tok)
  /\ host' = "copyX"
  /\ UNCHANGED <<at, stream, answer, fed, failures, devVars>>

Reject(tok) ==
  /\ host = "idle"
  /\ ~Accepts(tok, Len(fed))
  /\ answer' = Failure
  /\ UNCHANGED <<host, call, hostRow, at, stream, fed, failures, devVars>>

\* m.x on a stream of its own: the copy does not wait for what is issued.
CopyXAtOnce ==
  /\ host = "copyX"
  /\ buf' = [buf EXCEPT !["x"] = hostRow]
  /\ host' = "copyPos"
  /\ UNCHANGED <<call, hostRow, at, stream, answer, fed, failures, posBuf, cache>>

\* m.x.CopyFrom: a host copy on the default stream runs after everything issued.
CopyX ==
  /\ host = "copyX" /\ stream = <<>>
  /\ buf' = [buf EXCEPT !["x"] = hostRow]
  /\ host' = "copyPos"
  /\ UNCHANGED <<call, hostRow, at, stream, answer, fed, failures, posBuf, cache>>

\* m.pos.CopyFrom
CopyPos ==
  /\ host = "copyPos" /\ stream = <<>>
  /\ posBuf' = call.pos
  /\ host' = "issue" /\ at' = 1
  /\ UNCHANGED <<call, hostRow, stream, answer, fed, failures, buf, cache>>

Issue ==
  /\ host = "issue" /\ at <= NumSteps
  /\ Len(stream) < StreamDepth
  /\ stream' = Append(stream, Op(at))
  /\ at' = at + 1
  /\ UNCHANGED <<host, call, hostRow, answer, fed, failures, devVars>>

\* m.logits.CopyTo, then return: the call has succeeded.
CopyLogits ==
  /\ host = "issue" /\ at > NumSteps
  /\ stream = <<>>
  /\ answer' = buf["logits"]
  /\ fed' = Append(fed, call.token)
  /\ host' = "idle"
  /\ UNCHANGED <<call, hostRow, at, stream, failures, devVars>>

\* Any copy or launch may return an error; nothing is undone or waited for.
Error ==
  /\ host # "idle" /\ failures < MaxFailures
  /\ answer' = Failure
  /\ failures' = failures + 1
  /\ host' = "idle"
  /\ UNCHANGED <<call, hostRow, at, stream, fed, devVars>>

-----------------------------------------------------------------------------
(* The device executes the stream in order.                                *)

\* The attention misses the row just stored (kvLen = pos).
AttendPast(op) ==
  Attend(buf["q"], [t \in 0 .. op.pos - 1 |-> cache["kcache"][op.layer][t]],
                   [t \in 0 .. op.pos - 1 |-> cache["vcache"][op.layer][t]])

\* AttnDecode with kvLen = pos + 1
AttendAll(op) ==
  Attend(buf["q"], [t \in 0 .. op.pos |-> cache["kcache"][op.layer][t]],
                   [t \in 0 .. op.pos |-> cache["vcache"][op.layer][t]])

Result(op) ==
  LET s == op.step
      w == W(s.w, op.layer)
  IN  CASE s.do = "rmsnorm" -> RMSNorm(w, buf[s.from])
        [] s.do = "matvec"  -> MatVec(w, buf[s.from])
        [] s.do = "rope"    -> RoPE(buf[s.from], posBuf)
        [] s.do = "attend"  -> AttendAll(op)
        [] s.do = "add"     -> Add(buf["x"], buf["o"])
        [] s.do = "silumul" -> SiluMul(buf["gate"], buf["up"])

RunKernel ==
  /\ stream # <<>> /\ Head(stream).step.do # "store"
  /\ LET op == Head(stream) IN buf' = [buf EXCEPT ![op.step.to] = Result(op)]
  /\ stream' = Tail(stream)
  /\ UNCHANGED <<hostVars, posBuf, cache>>

\* An offset of pos rows counted from 1.
RowBefore(op) == IF op.pos = 0 THEN 0 ELSE op.pos - 1

\* CopyToDeviceAt(ctx, pos*kvDim, cache, 0, kvDim)
RowOf(op) == op.pos

RunStore ==
  /\ stream # <<>> /\ Head(stream).step.do = "store"
  /\ LET op == Head(stream)
     IN  cache' = [cache EXCEPT ![op.step.to][op.layer][RowOf(op)] = buf["kv"]]
  /\ stream' = Tail(stream)
  /\ UNCHANGED <<hostVars, posBuf, buf>>

-----------------------------------------------------------------------------
Next ==
  \/ \E tok \in TokenArg : Call(tok) \/ Reject(tok)
  \/ CopyX \/ CopyPos \/ Issue \/ CopyLogits \/ Error
  \/ RunKernel \/ RunStore

Spec == Init /\ [][Next]_vars

-----------------------------------------------------------------------------
(* Properties                                                              *)

TypeOK ==
  /\ host \in {"idle", "copyX", "copyPos", "issue"}
  /\ call \in [token : Vocab, pos : Rows]
  /\ at \in 1 .. NumSteps + 1
  /\ Len(stream) <= StreamDepth
  /\ \A i \in 1 .. Len(stream) : stream[i].pos \in Rows /\ stream[i].layer \in 0 .. Layers
  /\ DOMAIN buf = WorkBuffers
  /\ posBuf \in Rows
  /\ DOMAIN cache = Caches
  /\ fed \in Seq(Vocab) /\ Len(fed) <= MaxLen
  /\ failures \in 0 .. MaxFailures

\* The KV cache is exact: the rows of the tokens fed hold the keys and values
\* the network has at those positions, whatever failed calls left behind.
CacheExact ==
  LET X == Inputs(fed) IN
  \A l \in LayerIds, p \in 0 .. Len(fed) - 1 :
    /\ cache["kcache"][l][p] = KeyOf(l, X[l][p], p)
    /\ cache["vcache"][l][p] = ValueOf(l, X[l][p])

\* No step changes the cache rows of the tokens already fed.
HistoryFrozen ==
  [][\A c \in Caches, l \in LayerIds : \A p \in 0 .. Len(fed) - 1 :
        cache'[c][l][p] = cache[c][l][p]]_vars

\* Forward keeps the promise of Decode: an answer is the logits of the tokens
\* fed, or an error that has fed nothing.
Promise == INSTANCE Decode WITH history <- fed, answer <- answer
Implements == Promise!Spec
=============================================================================
