----------------------------- MODULE AttnDecode -----------------------------
(***************************************************************************)
(* The attention kernel of one decode step (kernels/attention.go) and the  *)
(* block reductions it calls (kernels/reduce.go), launched with one block  *)
(* per query head (backend/gpu/gpu.go).  The blocks run concurrently; in a *)
(* block every thread runs on its own between two barriers, and the lanes  *)
(* of a warp meet in a shuffle.                                            *)
(*                                                                         *)
(* Floating point is abstracted: a reduction value is the multiset of the  *)
(* positions whose scores went into it, so a score that is lost, counted   *)
(* twice, or mixed up with the other reduction's value is visible.         *)
(***************************************************************************)
EXTENDS Naturals

CONSTANTS
  NumHeads,   \* blocks of the launch (rowCfg(nHeads))
  NumWarps,   \* BlockSize / 32 in the code
  WarpSize,   \* 32 in the code
  KvLen,      \* positions in the cache, this one included
  HeadDim

\* The shuffles halve a warp down to single lanes: no odd number divides its size.
PowerOfTwo(n) == \A d \in 2 .. n, m \in 1 .. n : n = d * m => d % 2 = 0

ASSUME GridAssumption ==
  /\ NumHeads \in Nat \ {0} /\ NumWarps \in Nat \ {0} /\ WarpSize \in Nat \ {0}
  /\ KvLen \in Nat \ {0} /\ HeadDim \in Nat \ {0}
  /\ PowerOfTwo(WarpSize)
  /\ NumWarps <= WarpSize     \* one lane per warp total in the second reduction

Heads     == 0 .. NumHeads - 1
Warps     == 0 .. NumWarps - 1
Lanes     == 0 .. WarpSize - 1
Threads   == Warps \X Lanes
BlockSize == NumWarps * WarpSize
Pos       == 0 .. KvLen - 1
Dims      == 0 .. HeadDim - 1

Tid(th) == th[1] * WarpSize + th[2]

\* for i := tid; i < n; i += BlockSize
Strided(th, n) == {i \in 0 .. n - 1 : \E k \in 0 .. n : i = Tid(th) + k * BlockSize}

-----------------------------------------------------------------------------
(* Reduction values and scores.                                            *)

Zero      == [t \in Pos |-> 0]
OnceEach(T) == [t \in Pos |-> IF t \in T THEN 1 ELSE 0]

Ops    == {"max", "sum", "bad"}     \* "bad": not a value of either reduction
Value  == [op : Ops, of : [Pos -> Nat]]
Bad    == [op |-> "bad", of |-> Zero]

MaxOf(a, b) == IF a >= b THEN a ELSE b

Combine(op, a, b) ==
  IF a.op # op \/ b.op # op THEN Bad
  ELSE [op |-> op,
        of |-> [t \in Pos |-> IF op = "sum" THEN a.of[t] + b.of[t]
                                            ELSE MaxOf(a.of[t], b.of[t])]]

\* shared memory is uninitialised when a block starts
Undef    == [st |-> "undef", max |-> Bad]
Raw      == [st |-> "raw", max |-> Bad]
Exp(m)   == [st |-> "exp", max |-> m]
Score    == [st : {"undef", "raw", "exp"}, max : Value]

-----------------------------------------------------------------------------
VARIABLES
  pc,       \* where each thread of each block is
  next,     \* t of the score loop, equal in all the lanes of a warp
  v,        \* each thread's reduction register: m, then sum
  scores,   \* dynamic shared memory of each block
  scratch,  \* static shared memory: one value per warp
  out       \* global memory: out[h*headDim + d]

vars == <<pc, next, v, scores, scratch, out>>

\* The barrier interval (number of SyncThreads passed) of each point.
PhaseOf == [score   |-> 0, sync1 |-> 0,
            rowmax  |-> 1, warpmax |-> 1, sync2 |-> 1,
            pubmax  |-> 2, sync3 |-> 2,
            getmax  |-> 3, allmax |-> 3, exp |-> 3, warpsum |-> 3, sync4 |-> 3,
            pubsum  |-> 4, sync5 |-> 4,
            getsum  |-> 5, allsum |-> 5, out |-> 5, done |-> 5]
Points  == DOMAIN PhaseOf

\* cuda.Shared: every block has its own copy of scratch.  Once compiled to
\* .global memory, all blocks had the same one.
OneScratch(h) == 0
ScratchOf(h)  == h

Init ==
  /\ pc      = [h \in Heads |-> [th \in Threads |-> "score"]]
  /\ next    = [h \in Heads |-> [w \in Warps |-> w]]
  /\ v       = [h \in Heads |-> [th \in Threads |-> Bad]]
  /\ scores  = [h \in Heads |-> [t \in Pos |-> Undef]]
  /\ scratch = [h \in Heads |-> [w \in Warps |-> Bad]]
  /\ out     = [h \in Heads |-> [d \in Dims |-> [weights |-> [t \in Pos |-> Undef], norm |-> Bad]]]

Goto(h, th, from, to) ==
  /\ pc[h][th] = from
  /\ pc' = [pc EXCEPT ![h][th] = to]

\* All the lanes of warp w go from one point to the next together (shfl.sync).
WarpGoto(h, w, from, to) ==
  /\ \A l \in Lanes : pc[h][<<w, l>>] = from
  /\ pc' = [pc EXCEPT ![h] = [th \in Threads |-> IF th[1] = w THEN to ELSE @[th]]]

-----------------------------------------------------------------------------
(* kernels/reduce.go                                                       *)

\* lane XOR d, for d a power of two
Peer(l, d) == IF (l \div d) % 2 = 0 THEN l + d ELSE l - d

\* A butterfly that stops one round early.
ShortShuffle(op, x) ==
  LET Round[d \in Nat \ {0}] == IF d >= WarpSize THEN x
                          ELSE [l \in Lanes |-> Combine(op, Round[2 * d][l], Round[2 * d][Peer(l, d)])]
  IN  Round[2]

\* warpSum and warpMax: rounds with d = WarpSize/2, ..., 2, 1
Shuffle(op, x) ==
  LET Round[d \in Nat \ {0}] == IF d >= WarpSize THEN x
                          ELSE [l \in Lanes |-> Combine(op, Round[2 * d][l], Round[2 * d][Peer(l, d)])]
  IN  Round[1]

WarpReduce(h, w, op, from, to) ==
  /\ WarpGoto(h, w, from, to)
  /\ LET r == Shuffle(op, [l \in Lanes |-> v[h][<<w, l>>]])
     IN  v' = [v EXCEPT ![h] = [th \in Threads |-> IF th[1] = w THEN r[th[2]] ELSE @[th]]]
  /\ UNCHANGED <<next, scores, scratch, out>>

\* if lane == 0 { s[warp] = v }
Publish(h, th, from, to) ==
  /\ Goto(h, th, from, to)
  /\ scratch' = IF th[2] = 0 THEN [scratch EXCEPT ![ScratchOf(h)][th[1]] = v[h][th]] ELSE scratch
  /\ UNCHANGED <<next, v, scores, out>>

\* blockMax: v = s[0]; if lane < numWarps { v = s[lane] }
CollectMax(h, th) ==
  /\ Goto(h, th, "getmax", "allmax")
  /\ v' = [v EXCEPT ![h][th] = scratch[ScratchOf(h)][IF th[2] < NumWarps THEN th[2] ELSE 0]]
  /\ UNCHANGED <<next, scores, scratch, out>>

\* The lanes past the warp totals start from s[0], as in blockMax.
CollectSumFromFirst(h, th) ==
  /\ Goto(h, th, "getsum", "allsum")
  /\ v' = [v EXCEPT ![h][th] = scratch[ScratchOf(h)][IF th[2] < NumWarps THEN th[2] ELSE 0]]
  /\ UNCHANGED <<next, scores, scratch, out>>

\* blockSum: v = 0; if lane < numWarps { v = s[lane] }
CollectSum(h, th) ==
  /\ Goto(h, th, "getsum", "allsum")
  /\ v' = [v EXCEPT ![h][th] = IF th[2] < NumWarps THEN scratch[ScratchOf(h)][th[2]]
                                                   ELSE [op |-> "sum", of |-> Zero]]
  /\ UNCHANGED <<next, scores, scratch, out>>

\* No barrier: the threads that are there go on.
NoSync(h, at, to) ==
  /\ \E th \in Threads : pc[h][th] = at
  /\ pc' = [pc EXCEPT ![h] = [th \in Threads |-> IF @[th] = at THEN to ELSE @[th]]]
  /\ UNCHANGED <<next, v, scores, scratch, out>>

\* cuda.SyncThreads: nobody leaves before every thread of the block is there.
Sync(h, at, to) ==
  /\ \A th \in Threads : pc[h][th] = at
  /\ pc' = [pc EXCEPT ![h] = [th \in Threads |-> to]]
  /\ UNCHANGED <<next, v, scores, scratch, out>>

-----------------------------------------------------------------------------
(* kernels/attention.go                                                    *)

\* for t := warp; t < kvLen; t += numWarps: the warp's dot product of q and
\* row t of kcache, stored by lane 0.
ScoreRow(h, w) ==
  /\ next[h][w] < KvLen
  /\ WarpGoto(h, w, "score", "score")
  /\ scores' = [scores EXCEPT ![h][next[h][w]] = Raw]
  /\ next' = [next EXCEPT ![h][w] = @ + NumWarps]
  /\ UNCHANGED <<v, scratch, out>>

\* A warp with no position leaves the kernel, as MatVec's spare warps do.
LeaveScoresEarly(h, th) ==
  /\ next[h][th[1]] >= KvLen
  /\ Goto(h, th, "score", IF th[1] < KvLen THEN "sync1" ELSE "done")
  /\ UNCHANGED <<next, v, scores, scratch, out>>

LeaveScores(h, th) ==
  /\ next[h][th[1]] >= KvLen
  /\ Goto(h, th, "score", "sync1")
  /\ UNCHANGED <<next, v, scores, scratch, out>>

\* m: the maximum of the thread's own scores
RowMax(h, th) ==
  LET mine == Strided(th, KvLen) IN
  /\ Goto(h, th, "rowmax", "warpmax")
  /\ v' = [v EXCEPT ![h][th] = IF \A t \in mine : scores[h][t] = Raw
                               THEN [op |-> "max", of |-> OnceEach(mine)] ELSE Bad]
  /\ UNCHANGED <<next, scores, scratch, out>>

\* s[t] = exp(s[t] - m), summed
ExpScores(h, th) ==
  LET mine == Strided(th, KvLen) IN
  /\ Goto(h, th, "exp", "warpsum")
  /\ scores' = [scores EXCEPT ![h] = [t \in Pos |-> IF t \in mine THEN Exp(v[h][th]) ELSE @[t]]]
  /\ v' = [v EXCEPT ![h][th] = IF \A t \in mine : scores[h][t] = Raw
                               THEN [op |-> "sum", of |-> OnceEach(mine)] ELSE Bad]
  /\ UNCHANGED <<next, scratch, out>>

\* out[d] = inv * sum over t of s[t] * V[t][d], for the thread's dimensions
WriteOut(h, th) ==
  LET mine == Strided(th, HeadDim) IN
  /\ Goto(h, th, "out", "done")
  /\ out' = [out EXCEPT ![h] = [d \in Dims |->
               IF d \in mine THEN [weights |-> scores[h], norm |-> v[h][th]] ELSE @[d]]]
  /\ UNCHANGED <<next, v, scores, scratch>>

-----------------------------------------------------------------------------
ThreadStep(h, th) ==
  \/ LeaveScores(h, th)
  \/ RowMax(h, th)
  \/ Publish(h, th, "pubmax", "sync3")
  \/ CollectMax(h, th)
  \/ ExpScores(h, th)
  \/ Publish(h, th, "pubsum", "sync5")
  \/ CollectSum(h, th)
  \/ WriteOut(h, th)

WarpStep(h, w) ==
  \/ ScoreRow(h, w)
  \/ WarpReduce(h, w, "max", "warpmax", "sync2")
  \/ WarpReduce(h, w, "max", "allmax", "exp")
  \/ WarpReduce(h, w, "sum", "warpsum", "sync4")
  \/ WarpReduce(h, w, "sum", "allsum", "out")

BlockStep(h) ==
  \/ Sync(h, "sync1", "rowmax")
  \/ Sync(h, "sync2", "pubmax")
  \/ Sync(h, "sync3", "getmax")
  \/ Sync(h, "sync4", "pubsum")
  \/ Sync(h, "sync5", "getsum")

Next ==
  \E h \in Heads :
    \/ \E th \in Threads : ThreadStep(h, th)
    \/ \E w \in Warps : WarpStep(h, w)
    \/ BlockStep(h)

Spec == Init /\ [][Next]_vars

\* The GPU keeps running some warp that can run: no step undoes another, so
\* fairness of the whole grid is all that termination needs.
FairSpec == Spec /\ WF_vars(Next)

-----------------------------------------------------------------------------
(* Properties                                                              *)

TypeOK ==
  /\ pc \in [Heads -> [Threads -> Points]]
  /\ next \in [Heads -> [Warps -> 0 .. KvLen + NumWarps - 1]]
  /\ v \in [Heads -> [Threads -> Value]]
  /\ scores \in [Heads -> [Pos -> Score]]
  /\ scratch \in [Heads -> [Warps -> Value]]
  /\ out \in [Heads -> [Dims -> [weights : [Pos -> Score], norm : Value]]]

\* The shared or global locations a thread touches in its next step.
Reads(h, th) ==
  CASE pc[h][th] \in {"rowmax", "exp"} -> {<<"scores", h, t>> : t \in Strided(th, KvLen)}
    [] pc[h][th] = "out"    -> {<<"scores", h, t>> : t \in Pos}
    [] pc[h][th] = "getmax" -> {<<"scratch", ScratchOf(h), 0>>}
                               \cup {<<"scratch", ScratchOf(h), w>> : w \in Warps \cap {th[2]}}
    [] pc[h][th] = "getsum" -> {<<"scratch", ScratchOf(h), w>> : w \in Warps \cap {th[2]}}
    [] OTHER -> {}

Writes(h, th) ==
  CASE pc[h][th] = "score" /\ th[2] = 0 -> {<<"scores", h, t>> : t \in Pos \cap {next[h][th[1]]}}
    [] pc[h][th] = "exp"  -> {<<"scores", h, t>> : t \in Strided(th, KvLen)}
    [] pc[h][th] \in {"pubmax", "pubsum"} /\ th[2] = 0 -> {<<"scratch", ScratchOf(h), th[1]>>}
    [] pc[h][th] = "out"  -> {<<"out", h, d>> : d \in Strided(th, HeadDim)}
    [] OTHER -> {}

\* No data race: no two threads of the grid, of one block or of two, are ever
\* about to touch one location with one of them writing it.  This is what the
\* barrier before a reduction's write ("a previous reduction may still be
\* read"), the reuse of blockSum's barriers to publish the exponentials, and
\* the per-block scratch are for.
NoRace ==
  \A h1, h2 \in Heads : \A a, b \in Threads :
    <<h1, a>> # <<h2, b>> => Writes(h1, a) \cap (Reads(h2, b) \cup Writes(h2, b)) = {}

\* blockMax and blockSum return the same complete result to every thread: the
\* maximum over all positions, then a sum with each position exactly once.
ReductionsComplete ==
  \A h \in Heads, th \in Threads :
    /\ pc[h][th] = "exp" => v[h][th] = [op |-> "max", of |-> OnceEach(Pos)]
    /\ pc[h][th] \in {"out", "done"} => v[h][th] = [op |-> "sum", of |-> OnceEach(Pos)]

\* When a block has finished, every output dimension is the softmax over every
\* position: all weights exponentials under the one maximum, one full norm.
OutputIsSoftmax ==
  \A h \in Heads :
    (\A th \in Threads : pc[h][th] = "done") =>
      \A d \in Dims :
        out[h][d] = [weights |-> [t \in Pos |-> Exp([op |-> "max", of |-> OnceEach(Pos)])],
                     norm    |-> [op |-> "sum", of |-> OnceEach(Pos)]]

\* Block h can go on: a thread on its own, all the lanes of a warp in one row
\* of the scores or in one shuffle, or all the threads at one barrier.
Ready(h) ==
  \/ \E th \in Threads :
       \/ pc[h][th] \in {"rowmax", "pubmax", "getmax", "exp", "pubsum", "getsum", "out"}
       \/ pc[h][th] = "score" /\ next[h][th[1]] >= KvLen
  \/ \E w \in Warps, p \in {"score", "warpmax", "allmax", "warpsum", "allsum"} :
       /\ \A l \in Lanes : pc[h][<<w, l>>] = p
       /\ p = "score" => next[h][w] < KvLen
  \/ \E p \in {"sync1", "sync2", "sync3", "sync4", "sync5"} : \A th \in Threads : pc[h][th] = p

\* No deadlock: a block whose threads have not all returned can go on, so no
\* thread waits at a barrier, or in a shuffle, for one that has left, for a
\* lane that is elsewhere, or for one that waits for it at another barrier.
NeverStuck == \A h \in Heads : Ready(h) \/ \A th \in Threads : pc[h][th] = "done"

\* Every thread of every block ends.
Terminates == <>(\A h \in Heads, th \in Threads : pc[h][th] = "done")
=============================================================================
