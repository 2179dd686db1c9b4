----------------------------- MODULE RowKernels -----------------------------
(***************************************************************************)
(* The kernels over rows and elements (kernels/rows.go) and the wrappers   *)
(* that launch them (backend/gpu): all the threads of a launch, which read *)
(* and write one memory, in place or not.                                  *)
(*                                                                         *)
(* A thread reads what an item of its loop needs, then writes what the     *)
(* item gives; two loops have a reduction of the block between them, whose *)
(* warps, scratch and barriers are those of module AttnDecode: no thread   *)
(* leaves it before all are there.  A value is the term that computes it.  *)
(***************************************************************************)
EXTENDS Integers, Sequences, FiniteSets

CONSTANTS
  Calls,       \* launches: [kernel, rows, heads, n, in, with, out]
  BlockSize    \* kernels.BlockSize (256)

RowKernels  == {"RMSNorm", "Softmax", "RoPE"}     \* one block per row
Elementwise == {"SiluMul", "Add"}                 \* launched 1-D

\* The buffers of x, gate or a; of w, up or b; of out.  x and out may be the
\* same, and RoPE's are; heads is 1 but for RoPE, whose n is headDim.
ASSUME CallsAssumption ==
  /\ BlockSize \in Nat \ {0}
  /\ \A c \in Calls :
       /\ c.kernel \in RowKernels \cup Elementwise
       /\ c.rows \in Nat \ {0} /\ c.heads \in Nat \ {0} /\ c.n \in Nat
       /\ {c.in, c.with, c.out} \cap {"pos", "freq"} = {}
       /\ c.kernel \in RowKernels => c.with # c.out
       /\ c.kernel # "RoPE" => c.heads = 1
       /\ c.kernel = "RoPE" => c.in = c.out
       /\ c.kernel \in Elementwise => c.rows = 1

VARIABLES
  call,    \* the arguments, fixed
  mem,     \* device memory: what is at <<buffer, index>>
  pass,    \* the loop each thread is in
  i,       \* and its counter
  held,    \* what it has read for item i
  acc,     \* what it has added to its partial result: <<thread, item, term>>
  total    \* results of its reductions

vars == <<call, mem, pass, i, held, acc, total>>

IsRow == call.kernel \in RowKernels

-----------------------------------------------------------------------------
(* The grid.                                                               *)

\* rowCfg; cuda.LaunchConfig1D
Grid == IF IsRow THEN call.rows ELSE (call.n + BlockSize - 1) \div BlockSize

Blocks     == 0 .. Grid - 1
Tids       == 0 .. BlockSize - 1
Threads    == Blocks \X Tids
BlockOf(g) == {g} \X Tids

-----------------------------------------------------------------------------
(* The loops: for i := tid; i < Limit; i += BlockSize, or if i < Limit.    *)

Passes == CASE call.kernel = "Softmax" -> 3 [] call.kernel = "RMSNorm" -> 2 [] OTHER -> 1

half     == call.n \div 2
Limit    == IF call.kernel = "RoPE" THEN call.heads * half ELSE call.n
First(t) == IF IsRow THEN t[2] ELSE t[1] * BlockSize + t[2]

After(t) == IF IsRow THEN i[t] + BlockSize ELSE Limit

\* Item k of block g: its place in the row, the first of two for RoPE.
PlaceAdjacent(g, k) ==
  CASE call.kernel = "RoPE" -> g * call.heads * call.n + (k \div half) * call.n + (k % half)
    [] call.kernel \in {"RMSNorm", "Softmax"} -> g * call.n + k
    [] OTHER -> k

\* row + i; row + h*headDim + 2*j
Place(g, k) ==
  CASE call.kernel = "RoPE" -> g * call.heads * call.n + (k \div half) * call.n + 2 * (k % half)
    [] call.kernel \in {"RMSNorm", "Softmax"} -> g * call.n + k
    [] OTHER -> k

\* What item k of block g reads in loop p.
Needs(g, p, k) ==
  LET at == Place(g, k) IN
  CASE call.kernel = "RoPE" -> << <<call.in, at>>, <<call.in, at + 1>>, <<"pos", g>>, <<"freq", k % half>> >>
    [] call.kernel = "RMSNorm" /\ p = 1 -> << <<call.in, at>> >>
    [] call.kernel = "RMSNorm" /\ p # 1 -> << <<call.in, at>>, <<call.with, k>> >>
    [] call.kernel = "Softmax" -> << <<IF p = 3 THEN call.out ELSE call.in, at>> >>
    [] OTHER -> << <<call.in, at>>, <<call.with, at>> >>

\* Where it writes.
Gives(g, p, k) ==
  LET at == Place(g, k) IN
  CASE call.kernel = "RoPE" -> {<<call.out, at>>, <<call.out, at + 1>>}
    [] call.kernel \in {"RMSNorm", "Softmax"} /\ p = 1 -> {}
    [] OTHER -> {<<call.out, at>>}

\* theta = pos * base^(-2j/headDim) / freq[j]
Theta(pos, j, freq) == <<"theta", pos, j, freq>>

\* What it writes at a, from what it has read and the results so far.
Value(g, k, read, results, a) ==
  CASE call.kernel = "RMSNorm" -> <<"norm", read[1], results[1], read[2]>>
    [] call.kernel = "Softmax" /\ Len(results) = 1 -> <<"exp", read[1], results[1]>>
    [] call.kernel = "Softmax" /\ Len(results) # 1 -> <<"scaled", read[1], results[2]>>
    [] call.kernel = "RoPE" ->
         <<"rotated", a[2] - Place(g, k), read[1], read[2], Theta(read[3], k % half, read[4])>>
    [] OTHER -> <<call.kernel, read[1], read[2]>>

\* What it adds to the thread's partial result.
Adds(p, read, results) ==
  CASE call.kernel = "RMSNorm" /\ p = 1 -> {<<"square", read[1]>>}
    [] call.kernel = "Softmax" /\ p = 1 -> {<<"max", read[1]>>}
    [] call.kernel = "Softmax" /\ p = 2 -> {<<"exp", read[1], results[1]>>}
    [] OTHER -> {}

\* blockSum or blockMax of the threads' partial results: the terms, and how
\* many were added.
Reduced(parts) == [terms |-> {<<c[2], c[3]>> : c \in parts}, added |-> Cardinality(parts)]

-----------------------------------------------------------------------------
\* The arrays, and what lies behind them in memory.
Cells  == {call.in, call.with, call.out, "pos", "freq"}
            \X (0 .. call.rows * call.heads * call.n + 2 * BlockSize)
Before == [a \in Cells |-> <<"cell", a>>]

Init ==
  /\ call \in Calls
  /\ mem = Before
  /\ pass = [t \in Threads |-> 1]
  /\ i = [t \in Threads |-> First(t)]
  /\ held = [t \in Threads |-> <<>>]
  /\ acc = [t \in Threads |-> {}]
  /\ total = [t \in Threads |-> <<>>]

Read(t) ==
  /\ i[t] < Limit /\ held[t] = <<>>
  /\ held' = [held EXCEPT ![t] = LET need == Needs(t[1], pass[t], i[t])
                                 IN  [j \in DOMAIN need |-> mem[need[j]]]]
  /\ UNCHANGED <<call, mem, pass, i, acc, total>>

Write(t) ==
  /\ held[t] # <<>>
  /\ mem' = [a \in Cells |-> IF a \in Gives(t[1], pass[t], i[t])
                             THEN Value(t[1], i[t], held[t], total[t], a) ELSE mem[a]]
  /\ acc' = [acc EXCEPT ![t] = @ \cup {<<t, i[t], v>> : v \in Adds(pass[t], held[t], total[t])}]
  /\ held' = [held EXCEPT ![t] = <<>>]
  /\ i' = [i EXCEPT ![t] = After(t)]
  /\ UNCHANGED <<call, pass, total>>

\* The threads of block g that have ended a loop which is not the last.
Arrived(g) == {t \in BlockOf(g) : i[t] >= Limit /\ pass[t] < Passes}

\* Threads ts get the result of their reduction, and begin the next loop.
GoOn(ts) ==
  /\ total' = [t \in Threads |-> IF t \in ts THEN Append(total[t], Reduced(UNION {acc[u] : u \in ts})) ELSE total[t]]
  /\ pass' = [t \in Threads |-> IF t \in ts THEN pass[t] + 1 ELSE pass[t]]
  /\ i' = [t \in Threads |-> IF t \in ts THEN First(t) ELSE i[t]]
  /\ acc' = [t \in Threads |-> IF t \in ts THEN {} ELSE acc[t]]
  /\ UNCHANGED <<call, mem, held>>

\* No barrier: those that are there go on.
ReduceNow(g) == Arrived(g) # {} /\ GoOn(Arrived(g))

\* A thread without items leaves before the barrier, and the others wait.
ReduceWithoutIdle(g) == /\ \A t \in BlockOf(g) : t \in Arrived(g) /\ First(t) < Limit
                        /\ GoOn(BlockOf(g))

\* blockSum, blockMax
Reduce(g) == BlockOf(g) = Arrived(g) /\ GoOn(BlockOf(g))

ThreadStep == \E t \in Threads : Read(t) \/ Write(t)
BlockStep  == \E g \in Blocks : Reduce(g)

Next == ThreadStep \/ BlockStep

Spec     == Init /\ [][Next]_vars
\* The GPU keeps running some thread that can run; no step undoes another.
FairSpec == Spec /\ WF_vars(Next)

-----------------------------------------------------------------------------
(* backend/cpu: what each kernel makes of the memory it is given.          *)

RowOf(r, Term(_)) == [terms |-> {<<k, Term(Before[<<call.in, r * call.n + k>>])>> : k \in 0 .. call.n - 1},
                      added |-> call.n]

SumOfSquares(r) == LET Square(v) == <<"square", v>> IN RowOf(r, Square)
RowMax(r)       == LET Max(v) == <<"max", v>> IN RowOf(r, Max)
SumOfExps(r)    == LET Exp(v) == <<"exp", v, RowMax(r)>> IN RowOf(r, Exp)

\* Element d of a head: x0*c - x1*s or x0*s + x1*c; of an odd headDim the last
\* stays.
Rotated(k) ==
  LET r    == k \div (call.heads * call.n)
      d    == k % call.n
      pair == k - (d % 2)
  IN  IF d < 2 * half
      THEN <<"rotated", d % 2, Before[<<call.in, pair>>], Before[<<call.in, pair + 1>>],
             Theta(Before[<<"pos", r>>], d \div 2, Before[<<"freq", d \div 2>>])>>
      ELSE Before[<<call.in, k>>]

Twin(k) ==
  LET x == Before[<<call.in, k>>]
      r == k \div call.n
  IN  CASE call.kernel = "RMSNorm" -> <<"norm", x, SumOfSquares(r), Before[<<call.with, k % call.n>>]>>
        [] call.kernel = "Softmax" -> <<"scaled", <<"exp", x, RowMax(r)>>, SumOfExps(r)>>
        [] call.kernel = "RoPE"    -> Rotated(k)
        [] OTHER                   -> <<call.kernel, x, Before[<<call.with, k>>]>>

InOut(a) == a[1] = call.out /\ a[2] < call.rows * call.heads * call.n

-----------------------------------------------------------------------------
(* Properties                                                              *)

TypeOK ==
  /\ call \in Calls
  /\ DOMAIN mem = Cells
  /\ pass \in [Threads -> 1 .. Passes] /\ i \in [Threads -> Nat]
  /\ \A t \in Threads : held[t] # <<>> => i[t] < Limit
  /\ \A t \in Threads : Len(total[t]) = pass[t] - 1

\* What a thread touches in its next step.
Reading(t) == IF i[t] < Limit /\ held[t] = <<>>
              THEN {Needs(t[1], pass[t], i[t])[j] : j \in DOMAIN Needs(t[1], pass[t], i[t])} ELSE {}
Writing(t) == IF held[t] # <<>> THEN Gives(t[1], pass[t], i[t]) ELSE {}

\* No two threads are ever about to touch one place in memory with one of them
\* writing, "x and out may be the same buffer": in place, each element is read
\* again only by the thread that writes it, and so is each pair of RoPE.
NoRace == \A t, u \in Threads : t # u => Writing(t) \cap (Reading(u) \cup Writing(u)) = {}

\* When all threads have returned, the output is what the CPU twin makes of
\* the same memory, in place or not, and nothing else has changed: not one
\* element past the end.
AsTwin ==
  (\A t \in Threads : pass[t] = Passes /\ i[t] >= Limit) =>
    \A a \in Cells : mem[a] = IF InOut(a) THEN Twin(a[2]) ELSE Before[a]

\* Block g can go on: one of its threads has an item to read or to write, or
\* all are at the end of a loop with a reduction after it.
Ready(g) == (\E t \in BlockOf(g) : held[t] # <<>> \/ i[t] < Limit) \/ BlockOf(g) = Arrived(g)

\* No deadlock: until all its threads have returned a block can go on, so no
\* thread waits in a reduction for one that has left the kernel.
NeverStuck ==
  \A g \in Blocks : Ready(g) \/ \A t \in BlockOf(g) : pass[t] = Passes /\ i[t] >= Limit

\* Every thread returns, also of a row shorter than the block: no barrier
\* waits for a thread that has nothing to do.
Returns == <>(\A t \in Threads : pass[t] = Passes /\ i[t] >= Limit)
=============================================================================
