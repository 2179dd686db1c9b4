---------------------------- MODULE MC_RowKernels ----------------------------
(* RowKernels for TLC: blocks of two threads.                               *)
EXTENDS RowKernels

Call(kernel, rows, heads, n, in, with, out) ==
  [kernel |-> kernel, rows |-> rows, heads |-> heads, n |-> n, in |-> in, with |-> with, out |-> out]

\* In place and not; rows shorter than the block, as long, and longer.
Norms == {Call("RMSNorm", 2, 1, n, "x", "w", out) : n \in 0 .. 3, out \in {"x", "y"}}
Softs == {Call("Softmax", 2, 1, n, "x", "w", out) : n \in 1 .. 3, out \in {"x", "y"}}

\* The output is the first input, the second, or neither; the last block of
\* threads is full or not.
Elements == {Call(k, 1, 1, n, "a", "b", out) : k \in Elementwise, n \in {0, 3, 4}, out \in {"a", "b", "y"}}

\* Two rows of two heads, of an even and of an odd headDim.
RoPEs == {Call("RoPE", 2, 2, n, "x", "w", "x") : n \in {0, 2, 3, 4}}

CallsMC == Norms \cup Softs \cup Elements \cup RoPEs
=============================================================================
