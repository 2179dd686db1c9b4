----------------------------- MODULE Reference -----------------------------
(***************************************************************************)
(* What the network computes: the logits of a token as a function of the   *)
(* tokens up to it, as the reference forward pass of the tests defines it  *)
(* (cpuForward in model/model_test.go).  It is written here without a KV   *)
(* cache and without work buffers: every position of a layer is computed   *)
(* from the layer below.                                                   *)
(*                                                                         *)
(* The kernels are uninterpreted: MatVec(w, x) is any function of a weight *)
(* and a vector.  For TLC they are term constructors, which tell any two   *)
(* different computations apart.                                           *)
(***************************************************************************)
EXTENDS Naturals, Sequences

CONSTANTS
  Layers,        \* transformer blocks (llama.block_count)
  Embed(_),      \* quant.Row: the embedding row of a token
  RMSNorm(_, _), \* weight, vector
  MatVec(_, _),  \* weight, vector
  RoPE(_, _),    \* vector, position
  Attend(_, _, _),  \* AttnDecode: query, keys and values of positions 0 .. pos
  Add(_, _),
  SiluMul(_, _)  \* gate, up

ASSUME LayersAssumption == Layers \in Nat

LayerIds == 0 .. Layers - 1

\* The tensor blk.<l>.<name>.weight; output_norm and output have no layer.
W(name, l) == <<name, l>>
TopLayer   == Layers

\* The key and the value of one position: x is its input to layer l.
KeyOf(l, x, p)   == RoPE(MatVec(W("attn_k", l), RMSNorm(W("attn_norm", l), x)), p)
ValueOf(l, x)    == MatVec(W("attn_v", l), RMSNorm(W("attn_norm", l), x))
QueryOf(l, x, p) == RoPE(MatVec(W("attn_q", l), RMSNorm(W("attn_norm", l), x)), p)

\* A position's output of layer l; xs[s] is position s's input to the layer.
LayerOut(l, xs, p) ==
  LET attn == Attend(QueryOf(l, xs[p], p), [s \in 0 .. p |-> KeyOf(l, xs[s], s)],
                                           [s \in 0 .. p |-> ValueOf(l, xs[s])])
      y    == Add(xs[p], MatVec(W("attn_output", l), attn))
      yn   == RMSNorm(W("ffn_norm", l), y)
      act  == SiluMul(MatVec(W("ffn_gate", l), yn), MatVec(W("ffn_up", l), yn))
  IN  Add(y, MatVec(W("ffn_down", l), act))

\* Inputs(h)[l][p]: the input to layer l at position p, for the tokens h.
Inputs(h) ==
  LET X[l \in Nat] ==
        IF l = 0 THEN [p \in 0 .. Len(h) - 1 |-> Embed(h[p + 1])]
                 ELSE LET below == X[l - 1]
                      IN  [p \in 0 .. Len(h) - 1 |-> LayerOut(l - 1, below, p)]
  IN  [l \in 0 .. Layers |-> X[l]]

\* The logits after feeding the non-empty sequence of tokens h.
LogitsOf(h) ==
  MatVec(W("output", TopLayer),
         RMSNorm(W("output_norm", TopLayer), Inputs(h)[Layers][Len(h) - 1]))
=============================================================================
