-------------------------- MODULE AttnDecodeProofs --------------------------
(***************************************************************************)
(* The attention kernel, whatever the grid, the block, the cache length    *)
(* and the head dimension: no data race, complete reductions in every      *)
(* thread, and the softmax over every position in the output.              *)
(*                                                                         *)
(* No race: the threads of a block are always in the same barrier          *)
(* interval, and in each interval what a thread writes is its own, because *)
(* strided loops never meet.                                               *)
(*                                                                         *)
(* The data: the strided loops split the positions among the threads, a    *)
(* butterfly over a warp whose size is a power of two gives every lane the *)
(* union of the lanes' parts, and the warps' totals split the positions    *)
(* again for the second butterfly.  The invariant Data says, point by      *)
(* point, which part a register, a place of scratch and a score stand for. *)
(***************************************************************************)
EXTENDS AttnDecode, WellFoundedInduction, TLAPS

SamePhase ==
  \A h \in Heads : \A a, b \in Threads : PhaseOf[pc[h][a]] = PhaseOf[pc[h][b]]

\* A warp visits its own position and then every NumWarps-th.
OwnPositions ==
  \A h \in Heads, w \in Warps : \E k \in Nat : next[h][w] = w + k * NumWarps

PcTyped == pc \in [Heads -> [Threads -> Points]]

\* The inductive invariant.
IInv ==
  /\ PcTyped
  /\ next \in [Heads -> [Warps -> Nat]]
  /\ SamePhase
  /\ OwnPositions

-----------------------------------------------------------------------------
(* Arithmetic of strided loops.                                            *)

\* Two strided loops of the same stride that start apart never meet.
LEMMA StridesDisjoint ==
  ASSUME NEW N \in Nat \ {0}, NEW a \in 0 .. N - 1, NEW b \in 0 .. N - 1,
         NEW j \in Nat, NEW k \in Nat, a + j * N = b + k * N
  PROVE  a = b /\ j = k
<1>1. ASSUME NEW m \in Nat, NEW n \in Nat, m < n PROVE m * N + N <= n * N
  <2>1. PICK d \in Nat : n = m + 1 + d
    <3>1. n - m - 1 \in Nat /\ n = m + 1 + (n - m - 1)
      BY <1>1
    <3> QED BY <3>1
  <2>2. n * N = m * N + N + d * N
    BY <2>1
  <2>3. d * N \in Nat /\ m * N \in Nat
    OBVIOUS
  <2> QED BY <2>2, <2>3
<1>2. j * N \in Nat /\ k * N \in Nat
  OBVIOUS
<1>3. ~(j < k) /\ ~(k < j)
  BY <1>1, <1>2
<1> QED BY <1>2, <1>3

\* The lanes and warps of a block number its threads one to one.
LEMMA TidUnique ==
  ASSUME NEW a \in Threads, NEW b \in Threads
  PROVE  /\ Tid(a) \in 0 .. BlockSize - 1
         /\ Tid(a) = Tid(b) => a = b
<1>1. /\ a = <<a[1], a[2]>> /\ a[1] \in Nat /\ a[1] < NumWarps /\ a[2] \in 0 .. WarpSize - 1
      /\ b = <<b[1], b[2]>> /\ b[1] \in Nat /\ b[1] < NumWarps /\ b[2] \in 0 .. WarpSize - 1
  BY GridAssumption DEF Threads, Warps, Lanes
<1>2. Tid(a) = a[2] + a[1] * WarpSize /\ Tid(b) = b[2] + b[1] * WarpSize
  BY <1>1, GridAssumption DEF Tid
<1>3. Tid(a) = Tid(b) => a = b
  <2> SUFFICES ASSUME Tid(a) = Tid(b) PROVE a = b
    OBVIOUS
  <2>1. a[2] + a[1] * WarpSize = b[2] + b[1] * WarpSize
    BY <1>2
  <2>2. WarpSize \in Nat \ {0}
    BY GridAssumption
  <2>3. /\ a[1] \in Nat /\ a[2] \in 0 .. WarpSize - 1
        /\ b[1] \in Nat /\ b[2] \in 0 .. WarpSize - 1
    BY <1>1
  <2>4. \A l1, l2 \in 0 .. WarpSize - 1, w1, w2 \in Nat :
          l1 + w1 * WarpSize = l2 + w2 * WarpSize => l1 = l2 /\ w1 = w2
    BY <2>2, StridesDisjoint, Zenon
  <2>5. a[2] = b[2] /\ a[1] = b[1]
    BY <2>1, <2>3, <2>4
  <2> QED BY <1>1, <2>5
<1>4. Tid(a) \in 0 .. BlockSize - 1
  <2>1. PICK d \in Nat : NumWarps = a[1] + 1 + d
    <3>1. NumWarps - a[1] - 1 \in Nat /\ NumWarps = a[1] + 1 + (NumWarps - a[1] - 1)
      BY <1>1, GridAssumption
    <3> QED BY <3>1
  <2>2. NumWarps * WarpSize = a[1] * WarpSize + WarpSize + d * WarpSize
    BY <1>1, <2>1, GridAssumption
  <2>3. d * WarpSize \in Nat /\ a[1] * WarpSize \in Nat
    BY <1>1, <2>1, GridAssumption
  <2> QED BY <1>1, <1>2, <2>2, <2>3, GridAssumption DEF BlockSize
<1> QED BY <1>3, <1>4

\* Two threads of a block share no element of a strided loop.
LEMMA StridedDisjoint ==
  ASSUME NEW a \in Threads, NEW b \in Threads, a # b, NEW n \in Nat
  PROVE  Strided(a, n) \cap Strided(b, n) = {}
<1>1. BlockSize \in Nat \ {0}
  <2>1. PICK d \in Nat : NumWarps = 1 + d
    <3>1. NumWarps - 1 \in Nat /\ NumWarps = 1 + (NumWarps - 1)
      BY GridAssumption
    <3> QED BY <3>1
  <2>2. NumWarps * WarpSize = WarpSize + d * WarpSize /\ d * WarpSize \in Nat
    BY <2>1, GridAssumption
  <2> QED BY <2>2, GridAssumption DEF BlockSize
<1>2. SUFFICES ASSUME NEW i \in 0 .. n - 1, NEW j \in 0 .. n, NEW k \in 0 .. n,
                      i = Tid(a) + j * BlockSize, i = Tid(b) + k * BlockSize
               PROVE  FALSE
  BY DEF Strided
<1>3. Tid(a) = Tid(b)
  <2>1. Tid(a) \in 0 .. BlockSize - 1 /\ Tid(b) \in 0 .. BlockSize - 1 /\ j \in Nat /\ k \in Nat
    BY <1>2, TidUnique
  <2>2. Tid(a) + j * BlockSize = Tid(b) + k * BlockSize
    BY <1>2
  <2> QED BY <1>1, <2>1, <2>2, StridesDisjoint, Zenon
<1> QED BY <1>3, TidUnique

-----------------------------------------------------------------------------
(* The barrier intervals.                                                  *)

\* Where a thread can be in each barrier interval.
LEMMA PointsOf ==
  ASSUME NEW p \in Points
  PROVE  /\ PhaseOf[p] = 0 <=> p \in {"score", "sync1"}
         /\ PhaseOf[p] = 1 <=> p \in {"rowmax", "warpmax", "sync2"}
         /\ PhaseOf[p] = 2 <=> p \in {"pubmax", "sync3"}
         /\ PhaseOf[p] = 3 <=> p \in {"getmax", "allmax", "exp", "warpsum", "sync4"}
         /\ PhaseOf[p] = 4 <=> p \in {"pubsum", "sync5"}
         /\ PhaseOf[p] = 5 <=> p \in {"getsum", "allsum", "out", "done"}
         /\ PhaseOf[p] \in 0 .. 5
  BY DEF Points, PhaseOf

\* A step of one thread inside an interval.
LEMMA GotoKeepsPhase ==
  ASSUME PcTyped, SamePhase, NEW h \in Heads, NEW th \in Threads,
         NEW from \in Points, NEW to \in Points, PhaseOf[from] = PhaseOf[to],
         Goto(h, th, from, to)
  PROVE  PcTyped' /\ SamePhase'
<1>1. PcTyped'
  BY DEF PcTyped, Goto
<1>2. \A g \in Heads, a \in Threads : PhaseOf[pc'[g][a]] = PhaseOf[pc[g][a]]
  BY DEF PcTyped, Goto
<1> QED BY <1>1, <1>2 DEF SamePhase

\* A step of a whole warp inside an interval.
LEMMA WarpGotoKeepsPhase ==
  ASSUME PcTyped, SamePhase, NEW h \in Heads, NEW w \in Warps,
         NEW from \in Points, NEW to \in Points, PhaseOf[from] = PhaseOf[to],
         WarpGoto(h, w, from, to)
  PROVE  PcTyped' /\ SamePhase'
<1>1. PcTyped'
  BY DEF PcTyped, WarpGoto
<1>2. ASSUME NEW a \in Threads, a[1] = w PROVE pc[h][a] = from
  <2>1. a = <<w, a[2]>> /\ a[2] \in Lanes
    BY <1>2 DEF Threads
  <2> QED BY <2>1 DEF WarpGoto
<1>3. \A g \in Heads, a \in Threads : PhaseOf[pc'[g][a]] = PhaseOf[pc[g][a]]
  BY <1>2 DEF PcTyped, WarpGoto
<1> QED BY <1>1, <1>3 DEF SamePhase

\* A barrier takes the whole block to one point.
LEMMA SyncKeepsPhase ==
  ASSUME PcTyped, SamePhase, NEW h \in Heads, NEW at \in Points, NEW to \in Points, Sync(h, at, to)
  PROVE  PcTyped' /\ SamePhase'
<1>1. PcTyped'
  BY DEF PcTyped, Sync
<1>2. \A g \in Heads, a \in Threads : pc'[g][a] = IF g = h THEN to ELSE pc[g][a]
  BY DEF PcTyped, Sync
<1> QED BY <1>1, <1>2 DEF SamePhase

-----------------------------------------------------------------------------
\* All threads start in the first interval, each warp at its own position.
LEMMA InitIInv == Init => IInv
<1> SUFFICES ASSUME Init PROVE IInv
  OBVIOUS
<1>1. PcTyped /\ SamePhase
  BY DEF Init, PcTyped, SamePhase, Points, PhaseOf
<1>2. next \in [Heads -> [Warps -> Nat]]
  BY GridAssumption DEF Init, Warps
<1>3. OwnPositions
  <2> SUFFICES ASSUME NEW h \in Heads, NEW w \in Warps
               PROVE  \E k \in Nat : next[h][w] = w + k * NumWarps
    BY DEF OwnPositions
  <2>1. next[h][w] = w + 0 * NumWarps
    BY GridAssumption DEF Init, Warps
  <2> QED BY <2>1
<1> QED BY <1>1, <1>2, <1>3 DEF IInv

\* Every step of a thread, a warp or a block keeps the invariant.
LEMMA NextIInv == IInv /\ [Next]_vars => IInv'
<1> SUFFICES ASSUME IInv, [Next]_vars PROVE IInv'
  OBVIOUS
<1>a. PcTyped /\ SamePhase
  BY DEF IInv
<1>b. /\ {"score", "sync1", "rowmax", "warpmax", "sync2", "pubmax", "sync3", "getmax", "allmax",
          "exp", "warpsum", "sync4", "pubsum", "sync5", "getsum", "allsum", "out", "done"} \subseteq Points
  BY DEF Points, PhaseOf
<1>1. ASSUME NEW h \in Heads, NEW th \in Threads, ThreadStep(h, th) PROVE IInv'
  <2>1. PcTyped' /\ SamePhase'
    <3>1. CASE LeaveScores(h, th)
      BY <1>a, <1>b, <3>1, PointsOf, GotoKeepsPhase DEF LeaveScores
    <3>2. CASE RowMax(h, th)
      BY <1>a, <1>b, <3>2, PointsOf, GotoKeepsPhase DEF RowMax
    <3>3. CASE Publish(h, th, "pubmax", "sync3")
      BY <1>a, <1>b, <3>3, PointsOf, GotoKeepsPhase DEF Publish
    <3>4. CASE CollectMax(h, th)
      BY <1>a, <1>b, <3>4, PointsOf, GotoKeepsPhase DEF CollectMax
    <3>5. CASE ExpScores(h, th)
      BY <1>a, <1>b, <3>5, PointsOf, GotoKeepsPhase DEF ExpScores
    <3>6. CASE Publish(h, th, "pubsum", "sync5")
      BY <1>a, <1>b, <3>6, PointsOf, GotoKeepsPhase DEF Publish
    <3>7. CASE CollectSum(h, th)
      BY <1>a, <1>b, <3>7, PointsOf, GotoKeepsPhase DEF CollectSum
    <3>8. CASE WriteOut(h, th)
      BY <1>a, <1>b, <3>8, PointsOf, GotoKeepsPhase DEF WriteOut
    <3> QED BY <1>1, <3>1, <3>2, <3>3, <3>4, <3>5, <3>6, <3>7, <3>8 DEF ThreadStep
  <2>2. UNCHANGED next
    BY <1>1 DEF ThreadStep, LeaveScores, RowMax, Publish, CollectMax, ExpScores, CollectSum, WriteOut
  <2> QED BY <2>1, <2>2 DEF IInv, OwnPositions
<1>2. ASSUME NEW h \in Heads, NEW w \in Warps, ScoreRow(h, w) PROVE IInv'
  <2>1. PcTyped' /\ SamePhase'
    BY <1>a, <1>b, <1>2, WarpGotoKeepsPhase DEF ScoreRow
  <2>2. next' = [next EXCEPT ![h][w] = @ + NumWarps]
    BY <1>2 DEF ScoreRow
  <2>3. next' \in [Heads -> [Warps -> Nat]]
    BY <2>2, GridAssumption DEF IInv
  <2>4. OwnPositions'
    <3> SUFFICES ASSUME NEW g \in Heads, NEW u \in Warps
                 PROVE  \E k \in Nat : next'[g][u] = u + k * NumWarps
      BY DEF OwnPositions
    <3>1. PICK k \in Nat : next[g][u] = u + k * NumWarps
      BY DEF IInv, OwnPositions
    <3>2. next'[g][u] = next[g][u] \/ next'[g][u] = next[g][u] + NumWarps
      BY <2>2 DEF IInv
    <3>3. next[g][u] + NumWarps = u + (k + 1) * NumWarps
      BY <3>1, GridAssumption DEF Warps
    <3> QED BY <3>1, <3>2, <3>3
  <2> QED BY <2>1, <2>3, <2>4 DEF IInv
<1>3. ASSUME NEW h \in Heads, NEW w \in Warps, WarpStep(h, w), ~ScoreRow(h, w) PROVE IInv'
  <2>1. PICK op \in {"max", "sum"}, from \in Points, to \in Points :
           WarpReduce(h, w, op, from, to) /\ PhaseOf[from] = PhaseOf[to]
    <3>1. /\ PhaseOf["warpmax"] = PhaseOf["sync2"] /\ PhaseOf["allmax"] = PhaseOf["exp"]
          /\ PhaseOf["warpsum"] = PhaseOf["sync4"] /\ PhaseOf["allsum"] = PhaseOf["out"]
      BY DEF PhaseOf
    <3> QED BY <1>3, <1>b, <3>1 DEF WarpStep
  <2>2. PcTyped' /\ SamePhase'
    BY <1>a, <2>1, WarpGotoKeepsPhase DEF WarpReduce
  <2> QED BY <2>1, <2>2 DEF IInv, OwnPositions, WarpReduce
<1>4. ASSUME NEW h \in Heads, BlockStep(h) PROVE IInv'
  <2>1. PICK at \in Points, to \in Points : Sync(h, at, to)
    BY <1>4, <1>b DEF BlockStep
  <2>2. PcTyped' /\ SamePhase'
    BY <1>a, <2>1, SyncKeepsPhase
  <2> QED BY <2>1, <2>2 DEF IInv, OwnPositions, Sync
<1>5. CASE UNCHANGED vars
  BY <1>5 DEF vars, IInv, PcTyped, SamePhase, OwnPositions
<1> QED BY <1>1, <1>2, <1>3, <1>4, <1>5 DEF Next

\* The invariant holds in every state of the launch.
LEMMA SpecIInv == Spec => []IInv
  BY InitIInv, NextIInv, PTL DEF Spec

-----------------------------------------------------------------------------
\* The first interval: a warp's lane 0 writes the warp's own score.
LEMMA NoRaceInScores ==
  ASSUME IInv, NEW h \in Heads, NEW a \in Threads, NEW b \in Threads, a # b,
         pc[h][a] = "score"
  PROVE  Writes(h, a) \cap (Reads(h, b) \cup Writes(h, b)) = {}
<1>1. pc[h][b] \in {"score", "sync1"}
  <2>1. PhaseOf["score"] = 0
    BY DEF PhaseOf
  <2> QED BY <2>1, PointsOf DEF IInv, PcTyped, SamePhase
<1>2. Reads(h, b) = {}
  BY <1>1 DEF Reads
<1>3. CASE a[2] = 0 /\ b[2] = 0
  <2>1. a[1] \in Warps /\ b[1] \in Warps /\ a[1] # b[1]
    BY <1>3 DEF Threads
  <2>2. next[h][a[1]] # next[h][b[1]]
    <3>1. PICK j \in Nat : next[h][a[1]] = a[1] + j * NumWarps
      BY <2>1 DEF IInv, OwnPositions
    <3>2. PICK k \in Nat : next[h][b[1]] = b[1] + k * NumWarps
      BY <2>1 DEF IInv, OwnPositions
    <3>3. NumWarps \in Nat \ {0} /\ a[1] \in 0 .. NumWarps - 1 /\ b[1] \in 0 .. NumWarps - 1
      BY <2>1, GridAssumption DEF Warps
    <3>4. a[1] + j * NumWarps # b[1] + k * NumWarps
      BY <2>1, <3>3, StridesDisjoint, Zenon
    <3> QED BY <3>1, <3>2, <3>4
  <2> QED BY <1>1, <1>2, <2>2 DEF Writes
<1>4. CASE ~(a[2] = 0 /\ b[2] = 0)
  BY <1>1, <1>2, <1>4 DEF Writes
<1> QED BY <1>3, <1>4

\* The exponentials: a thread rewrites the scores of its own positions while
\* the others rewrite theirs, or still read the warps' maxima.
LEMMA NoRaceInExp ==
  ASSUME IInv, NEW h \in Heads, NEW a \in Threads, NEW b \in Threads, a # b,
         pc[h][a] = "exp"
  PROVE  Writes(h, a) \cap (Reads(h, b) \cup Writes(h, b)) = {}
<1>1. pc[h][b] \in {"getmax", "allmax", "exp", "warpsum", "sync4"}
  <2>1. PhaseOf["exp"] = 3
    BY DEF PhaseOf
  <2> QED BY <2>1, PointsOf DEF IInv, PcTyped, SamePhase
<1>2. Writes(h, a) = {<<"scores", h, t>> : t \in Strided(a, KvLen)}
  BY DEF Writes
<1>3. Strided(a, KvLen) \cap Strided(b, KvLen) = {}
  BY StridedDisjoint, GridAssumption
<1>4. CASE pc[h][b] = "exp"
  BY <1>2, <1>3, <1>4 DEF Reads, Writes
<1>5. CASE pc[h][b] # "exp"
  BY <1>1, <1>2, <1>5 DEF Reads, Writes
<1> QED BY <1>4, <1>5

\* The reductions' write: each warp's lane 0 has a place of its own, and
\* nobody reads scratch in that interval.
LEMMA NoRaceInPublish ==
  ASSUME IInv, NEW h \in Heads, NEW a \in Threads, NEW b \in Threads, a # b,
         pc[h][a] \in {"pubmax", "pubsum"}
  PROVE  Writes(h, a) \cap (Reads(h, b) \cup Writes(h, b)) = {}
<1>1. pc[h][b] \in {"pubmax", "sync3", "pubsum", "sync5"}
  <2>1. PhaseOf["pubmax"] = 2 /\ PhaseOf["pubsum"] = 4
    BY DEF PhaseOf
  <2> QED BY <2>1, PointsOf DEF IInv, PcTyped, SamePhase
<1>2. Reads(h, b) = {}
  BY <1>1 DEF Reads
<1>3. a[2] = 0 /\ b[2] = 0 => a[1] # b[1]
  BY DEF Threads
<1> QED BY <1>1, <1>2, <1>3 DEF Writes

\* The output: a thread writes its own dimensions, which nobody reads.
LEMMA NoRaceInOut ==
  ASSUME IInv, NEW h \in Heads, NEW a \in Threads, NEW b \in Threads, a # b,
         pc[h][a] = "out"
  PROVE  Writes(h, a) \cap (Reads(h, b) \cup Writes(h, b)) = {}
<1>1. pc[h][b] \in {"getsum", "allsum", "out", "done"}
  <2>1. PhaseOf["out"] = 5
    BY DEF PhaseOf
  <2> QED BY <2>1, PointsOf DEF IInv, PcTyped, SamePhase
<1>2. Writes(h, a) = {<<"out", h, d>> : d \in Strided(a, HeadDim)}
  BY DEF Writes
<1>3. Strided(a, HeadDim) \cap Strided(b, HeadDim) = {}
  BY StridedDisjoint, GridAssumption
<1>4. CASE pc[h][b] = "out"
  BY <1>2, <1>3, <1>4 DEF Reads, Writes
<1>5. CASE pc[h][b] # "out"
  BY <1>1, <1>2, <1>5 DEF Reads, Writes
<1> QED BY <1>4, <1>5

\* What a thread touches belongs to its block: no address is shared by two.
LEMMA BlocksApart ==
  ASSUME NEW g \in Heads, NEW h \in Heads, g # h, NEW a \in Threads, NEW b \in Threads
  PROVE  Writes(g, a) \cap (Reads(h, b) \cup Writes(h, b)) = {}
<1>1. \A x \in Writes(g, a) : x[2] = g
  BY DEF Writes, ScratchOf
<1>2. \A x \in Reads(h, b) \cup Writes(h, b) : x[2] = h
  BY DEF Reads, Writes, ScratchOf
<1> QED BY <1>1, <1>2

\* No two threads of the grid ever race on shared or global memory, for any
\* number of heads, warps, lanes, positions and dimensions.
THEOREM RaceFree == Spec => []NoRace
<1>1. IInv => NoRace
  <2> SUFFICES ASSUME IInv, NEW g \in Heads, NEW h \in Heads, NEW a \in Threads, NEW b \in Threads,
                      <<g, a>> # <<h, b>>
               PROVE  Writes(g, a) \cap (Reads(h, b) \cup Writes(h, b)) = {}
    BY DEF NoRace
  <2>1. CASE g # h
    BY <2>1, BlocksApart
  <2>2. CASE g = h
    <3>1. a # b
      BY <2>2
    <3>2. CASE pc[g][a] \in {"score", "exp", "pubmax", "pubsum", "out"}
      BY <2>2, <3>1, <3>2, NoRaceInScores, NoRaceInExp, NoRaceInPublish, NoRaceInOut
    <3>3. CASE pc[g][a] \notin {"score", "exp", "pubmax", "pubsum", "out"}
      BY <3>3 DEF Writes
    <3> QED BY <3>2, <3>3
  <2> QED BY <2>1, <2>2
<1> QED BY <1>1, SpecIInv, PTL

-----------------------------------------------------------------------------
(* Induction, division and the lanes of a butterfly.                       *)

\* Induction over the numbers, for a set: from the well-foundedness of <.
LEMMA InductionOnNat ==
  ASSUME NEW S, 0 \in S, \A n \in Nat : n \in S => n + 1 \in S
  PROVE  Nat \subseteq S
<1> SUFFICES ASSUME ~(Nat \subseteq S) PROVE FALSE
  OBVIOUS
<1> DEFINE R == OpToRel(<, Nat)
           T == Nat \ S
<1>1. PICK m \in T : \A y \in T : ~(<<y, m>> \in R)
  <2>1. T \subseteq Nat /\ T # {}
    OBVIOUS
  <2>2. IsWellFoundedOn(R, Nat)
    BY NatLessThanWellFounded
  <2> HIDE DEF T, R
  <2> QED BY <2>1, <2>2, WFMin
<1>2. m \in Nat /\ m # 0 /\ m - 1 \in Nat /\ (m - 1) + 1 = m
  OBVIOUS
<1>3. m - 1 \in T
  BY <1>2
<1>4. <<m - 1, m>> \in R
  BY <1>2 DEF OpToRel
<1> QED BY <1>1, <1>3, <1>4

\* Quotient and remainder.
LEMMA Division ==
  ASSUME NEW b \in Nat \ {0}, NEW k \in Nat
  PROVE  \E q \in Nat, r \in 0 .. b - 1 : k = r + q * b /\ k \div b = q /\ k % b = r
<1>1. k \div b \in Nat /\ k % b \in 0 .. b - 1 /\ k = (k % b) + (k \div b) * b
  OBVIOUS
<1> QED BY <1>1, Zenon

\* Quotient and remainder are the only ones.
LEMMA Remainder ==
  ASSUME NEW b \in Nat \ {0}, NEW q \in Nat, NEW r \in 0 .. b - 1
  PROVE  (r + q * b) \div b = q /\ (r + q * b) % b = r
<1> DEFINE k == r + q * b
           d == k \div b
           m == k % b
<1>1. k \in Nat
  <2>1. q * b \in Nat
    OBVIOUS
  <2> QED BY <2>1
<1>2. d \in Nat /\ m \in 0 .. b - 1 /\ k = m + d * b
  <2> HIDE DEF k
  <2> QED BY <1>1
<1>3. r + q * b = m + d * b
  BY <1>2
<1> HIDE DEF d, m
<1>4. \A r1, r2 \in 0 .. b - 1, q1, q2 \in Nat : r1 + q1 * b = r2 + q2 * b => r1 = r2 /\ q1 = q2
  BY StridesDisjoint, Zenon
<1>5. r = m /\ q = d
  BY <1>2, <1>3, <1>4
<1> QED BY <1>5 DEF d, m

\* The remainder of a division by 2d is that by d, or d more.
LEMMA HalfRemainder ==
  ASSUME NEW d \in Nat \ {0}, NEW m \in Nat
  PROVE  m % (2 * d) = IF (m \div d) % 2 = 0 THEN m % d ELSE (m % d) + d
<1>1. PICK q \in Nat, r \in 0 .. d - 1 : m = r + q * d /\ m \div d = q /\ m % d = r
  BY Division, Zenon
<1>2. 2 * d \in Nat \ {0}
  OBVIOUS
<1>3. CASE q % 2 = 0
  <2>1. PICK j \in Nat : q = 2 * j
    BY <1>3
  <2>2. r + q * d = r + j * (2 * d) /\ r \in 0 .. 2 * d - 1
    BY <2>1
  <2>3. (r + j * (2 * d)) % (2 * d) = r
    BY <1>2, <2>2, Remainder
  <2> QED BY <1>1, <1>3, <2>2, <2>3
<1>4. CASE q % 2 # 0
  <2>1. PICK j \in Nat : q = 2 * j + 1
    <3>1. q \div 2 \in Nat /\ q = 2 * (q \div 2) + 1
      BY <1>4
    <3> QED BY <3>1
  <2>2. r + q * d = (r + d) + j * (2 * d) /\ r + d \in 0 .. 2 * d - 1
    BY <2>1
  <2>3. ((r + d) + j * (2 * d)) % (2 * d) = r + d
    BY <1>2, <2>2, Remainder
  <2> QED BY <1>1, <1>4, <2>2, <2>3
<1> QED BY <1>3, <1>4

\* lane XOR d is a lane of the warp, on the other side of the bit d.
LEMMA PeerIs ==
  ASSUME NEW d \in Nat \ {0}, NEW m \in Nat, WarpSize = m * (2 * d), NEW l \in Lanes
  PROVE  /\ Peer(l, d) \in Lanes
         /\ Peer(l, d) % d = l % d
         /\ (Peer(l, d) \div d) % 2 # (l \div d) % 2
<1>a. l \in Nat
  BY GridAssumption DEF Lanes
<1>1. PICK q \in Nat, r \in 0 .. d - 1 : l = r + q * d /\ l \div d = q /\ l % d = r
  BY <1>a, Division, Zenon
<1>2. CASE q % 2 = 0
  <2>1. PICK j \in Nat : q = 2 * j
    BY <1>2
  <2>2. Peer(l, d) = r + (q + 1) * d
    BY <1>1, <1>2 DEF Peer
  <2>3. Peer(l, d) % d = r /\ Peer(l, d) \div d = q + 1
    <3>1. q + 1 \in Nat
      OBVIOUS
    <3>2. (r + (q + 1) * d) \div d = q + 1 /\ (r + (q + 1) * d) % d = r
      BY <3>1, Remainder, Zenon
    <3> QED BY <2>2, <3>2
  <2>4. j < m
    <3> SUFFICES ASSUME j >= m PROVE FALSE
      OBVIOUS
    <3> DEFINE e == j - m
    <3>1. e \in Nat /\ j = m + e
      OBVIOUS
    <3>2. q * d = m * (2 * d) + e * (2 * d) /\ e * (2 * d) \in Nat
      BY <2>1, <3>1
    <3>3. l < WarpSize /\ WarpSize \in Nat
      BY GridAssumption DEF Lanes
    <3> QED BY <1>1, <3>2, <3>3
  <2>5. PICK e \in Nat : m = j + 1 + e
    <3>1. m - j - 1 \in Nat /\ m = j + 1 + (m - j - 1)
      BY <2>4
    <3> QED BY <3>1
  <2>6. m * (2 * d) = q * d + 2 * d + e * (2 * d) /\ e * (2 * d) \in Nat /\ q * d \in Nat
    BY <2>1, <2>5
  <2>7. (q + 1) * d = q * d + d
    OBVIOUS
  <2>8. Peer(l, d) \in Lanes
    BY <2>2, <2>6, <2>7, GridAssumption DEF Lanes
  <2>9. (q + 1) % 2 # q % 2
    BY <1>2
  <2> QED BY <1>1, <2>3, <2>8, <2>9
<1>3. CASE q % 2 # 0
  <2>1. q - 1 \in Nat /\ q % 2 # (q - 1) % 2
    BY <1>3
  <2>2. q * d = (q - 1) * d + d /\ (q - 1) * d \in Nat
    BY <2>1
  <2>3. Peer(l, d) = r + (q - 1) * d
    BY <1>1, <1>3, <2>2 DEF Peer
  <2>4. Peer(l, d) % d = r /\ Peer(l, d) \div d = q - 1
    BY <2>1, <2>3, Remainder
  <2>5. Peer(l, d) \in Lanes
    BY <1>1, <2>2, <2>3, GridAssumption DEF Lanes
  <2> QED BY <1>1, <2>1, <2>4, <2>5
<1> QED BY <1>2, <1>3

\* The lanes whose values a lane has before the round of d: those at a multiple of d from it.
Group(l, d) == {m \in Lanes : m % d = l % d}

\* A round joins the groups of two lanes, which are apart.
LEMMA GroupsJoin ==
  ASSUME NEW d \in Nat \ {0}, NEW n \in Nat, WarpSize = n * (2 * d), NEW l \in Lanes
  PROVE  /\ Group(l, d) = Group(l, 2 * d) \cup Group(Peer(l, d), 2 * d)
         /\ Group(l, 2 * d) \cap Group(Peer(l, d), 2 * d) = {}
<1> DEFINE p == Peer(l, d)
           Low(m)  == m % d
           Bit(m)  == (m \div d) % 2
           Full(m) == m % (2 * d)
<1>1. \A m \in Lanes : m \in Nat
  BY GridAssumption DEF Lanes
<1>2. \A m \in Lanes : Low(m) \in 0 .. d - 1 /\ Bit(m) \in 0 .. 1 /\ Full(m) = IF Bit(m) = 0 THEN Low(m) ELSE Low(m) + d
  <2> SUFFICES ASSUME NEW m \in Lanes
               PROVE  Low(m) \in 0 .. d - 1 /\ Bit(m) \in 0 .. 1 /\ Full(m) = IF Bit(m) = 0 THEN Low(m) ELSE Low(m) + d
    OBVIOUS
  <2>1. m \in Nat
    BY <1>1
  <2>2. PICK q \in Nat, r \in 0 .. d - 1 : m = r + q * d /\ m \div d = q /\ m % d = r
    BY <2>1, Division, Zenon
  <2>3. q % 2 \in 0 .. 1
    OBVIOUS
  <2> QED BY <2>1, <2>2, <2>3, HalfRemainder
<1>3. p \in Lanes /\ Low(p) = Low(l) /\ Bit(p) # Bit(l)
  BY PeerIs
<1> HIDE DEF p, Low, Bit, Full
<1>4. \A m \in Lanes : Full(m) = Full(l) <=> Low(m) = Low(l) /\ Bit(m) = Bit(l)
  BY <1>2
<1>5. \A m \in Lanes : Full(m) = Full(p) <=> Low(m) = Low(l) /\ Bit(m) = Bit(p)
  BY <1>2, <1>3
<1>6. \A m \in Lanes : Bit(m) = Bit(l) \/ Bit(m) = Bit(p)
  BY <1>2, <1>3
<1>7. /\ Group(l, d) = {m \in Lanes : Low(m) = Low(l)}
      /\ Group(l, 2 * d) = {m \in Lanes : Full(m) = Full(l)}
      /\ Group(p, 2 * d) = {m \in Lanes : Full(m) = Full(p)}
  BY DEF Group, Low, Full
<1>8. /\ Group(l, d) = Group(l, 2 * d) \cup Group(p, 2 * d)
      /\ Group(l, 2 * d) \cap Group(p, 2 * d) = {}
  BY <1>3, <1>4, <1>5, <1>6, <1>7
<1> QED BY <1>8 DEF p

-----------------------------------------------------------------------------
(* The shuffles.                                                           *)

\* The reduction value of a set of positions.
Over(op, T) == [op |-> op, of |-> OnceEach(T)]

\* A combination stands for both parts; a sum only if they are apart.
LEMMA CombineJoins ==
  ASSUME NEW op \in {"max", "sum"}, NEW A \in SUBSET Pos, NEW B \in SUBSET Pos,
         op = "sum" => A \cap B = {}
  PROVE  Combine(op, Over(op, A), Over(op, B)) = Over(op, A \cup B)
<1>1. Combine(op, Over(op, A), Over(op, B)) =
        [op |-> op,
         of |-> [t \in Pos |-> IF op = "sum" THEN OnceEach(A)[t] + OnceEach(B)[t]
                                             ELSE MaxOf(OnceEach(A)[t], OnceEach(B)[t])]]
  BY DEF Combine, Over
<1>2. \A t \in Pos : OnceEach(A)[t] = (IF t \in A THEN 1 ELSE 0) /\ OnceEach(B)[t] = (IF t \in B THEN 1 ELSE 0)
  BY DEF OnceEach
<1>3. \A t \in Pos : (IF op = "sum" THEN OnceEach(A)[t] + OnceEach(B)[t] ELSE MaxOf(OnceEach(A)[t], OnceEach(B)[t]))
                       = IF t \in A \cup B THEN 1 ELSE 0
  <2> TAKE t \in Pos
  <2>1. CASE op = "sum"
    BY <1>2, <2>1
  <2>2. CASE op = "max"
    BY <1>2, <2>2 DEF MaxOf
  <2> QED BY <2>1, <2>2
<1>4. [t \in Pos |-> IF op = "sum" THEN OnceEach(A)[t] + OnceEach(B)[t] ELSE MaxOf(OnceEach(A)[t], OnceEach(B)[t])]
        = [t \in Pos |-> IF t \in A \cup B THEN 1 ELSE 0]
  BY <1>3
<1> QED BY <1>1, <1>4 DEF Over, OnceEach

\* R is the sequence of rounds of a shuffle from the values x, down to the round of offset lo.
Rounds(op, x, R, lo) ==
  \A d \in Nat \ {0} : d >= lo =>
    R[d] = IF d >= WarpSize THEN x ELSE [l \in Lanes |-> Combine(op, R[2 * d][l], R[2 * d][Peer(l, d)])]

\* The recursion of a shuffle has a solution: build it from the first round down.
LEMMA RoundsExist == \A op, x : \E R : Rounds(op, x, R, 1) /\ R = [d \in Nat \ {0} |-> R[d]]
<1> TAKE op, x
<1> DEFINE S == {n \in Nat : \E R : Rounds(op, x, R, WarpSize - n) /\ R = [d \in Nat \ {0} |-> R[d]]}
<1>1. 0 \in S
  <2> DEFINE R == [d \in Nat \ {0} |-> x]
  <2>1. Rounds(op, x, R, WarpSize - 0)
    BY GridAssumption DEF Rounds
  <2>2. R = [d \in Nat \ {0} |-> R[d]]
    OBVIOUS
  <2> HIDE DEF R
  <2> QED BY <2>1, <2>2
<1>2. ASSUME NEW n \in Nat, n \in S PROVE n + 1 \in S
  <2>1. PICK R : Rounds(op, x, R, WarpSize - n) /\ R = [d \in Nat \ {0} |-> R[d]]
    BY <1>2
  <2> DEFINE e == WarpSize - (n + 1)
             Q == [d \in Nat \ {0} |->
                     IF d = e THEN [l \in Lanes |-> Combine(op, R[2 * e][l], R[2 * e][Peer(l, e)])] ELSE R[d]]
  <2>2. Q = [d \in Nat \ {0} |-> Q[d]]
    OBVIOUS
  <2>3. ASSUME NEW d \in Nat \ {0}, d >= e
        PROVE  Q[d] = IF d >= WarpSize THEN x ELSE [l \in Lanes |-> Combine(op, Q[2 * d][l], Q[2 * d][Peer(l, d)])]
    <3>1. 2 * d \in Nat \ {0} /\ 2 * d # e /\ e \in Int /\ e < WarpSize /\ WarpSize - n = e + 1
      BY <2>3, GridAssumption
    <3>2. Q[2 * d] = R[2 * d]
      BY <3>1
    <3>3. CASE d = e
      <4>1. Q[d] = [l \in Lanes |-> Combine(op, R[2 * d][l], R[2 * d][Peer(l, d)])]
        BY <3>3
      <4> HIDE DEF Q
      <4> QED BY <3>1, <3>2, <3>3, <4>1, GridAssumption
    <3>4. CASE d # e
      <4>1. d >= WarpSize - n /\ Q[d] = R[d]
        BY <2>3, <3>1, <3>4
      <4>2. R[d] = IF d >= WarpSize THEN x ELSE [l \in Lanes |-> Combine(op, R[2 * d][l], R[2 * d][Peer(l, d)])]
        BY <2>1, <4>1 DEF Rounds
      <4> HIDE DEF Q
      <4> QED BY <3>2, <4>1, <4>2
    <3> QED BY <3>3, <3>4
  <2>4. Rounds(op, x, Q, e)
    <3> HIDE DEF Q, e
    <3> QED BY <2>3 DEF Rounds
  <2> HIDE DEF Q
  <2> QED BY <2>2, <2>4
<1> HIDE DEF S
<1>3. Nat \subseteq S
  BY <1>1, <1>2, InductionOnNat
<1>4. WarpSize \in Nat /\ WarpSize - 1 \in Nat /\ WarpSize - (WarpSize - 1) = 1
  BY GridAssumption
<1>5. WarpSize - 1 \in S
  BY <1>3, <1>4
<1> QED BY <1>4, <1>5 DEF S

\* So a shuffle is its last round.
LEMMA ShuffleIs == \A op, x : \E R : Rounds(op, x, R, 1) /\ Shuffle(op, x) = R[1]
<1> TAKE op, x
<1> DEFINE Eqn(R) == R = [d \in Nat \ {0} |->
                            IF d >= WarpSize THEN x
                            ELSE [l \in Lanes |-> Combine(op, R[2 * d][l], R[2 * d][Peer(l, d)])]]
           Q == CHOOSE R : Eqn(R)
<1>1. Shuffle(op, x) = Q[1]
  BY DEF Shuffle
<1>2. \E R : Eqn(R)
  <2>1. PICK R : Rounds(op, x, R, 1) /\ R = [d \in Nat \ {0} |-> R[d]]
    BY RoundsExist
  <2>2. \A d \in Nat \ {0} :
          R[d] = IF d >= WarpSize THEN x ELSE [l \in Lanes |-> Combine(op, R[2 * d][l], R[2 * d][Peer(l, d)])]
    BY <2>1 DEF Rounds
  <2>3. Eqn(R)
    BY <2>1, <2>2
  <2> QED BY <2>3
<1>3. Eqn(Q)
  BY <1>2
<1> HIDE DEF Q
<1>4. \A d \in Nat \ {0} :
        Q[d] = IF d >= WarpSize THEN x ELSE [l \in Lanes |-> Combine(op, Q[2 * d][l], Q[2 * d][Peer(l, d)])]
  BY <1>3
<1>5. Rounds(op, x, Q, 1)
  BY <1>4 DEF Rounds
<1> QED BY <1>1, <1>5

\* A divisor of the warp size below it divides its half.
LEMMA HalfDivides ==
  ASSUME NEW d \in Nat \ {0}, NEW m \in Nat, WarpSize = m * d, d < WarpSize
  PROVE  \E n \in Nat : WarpSize = n * (2 * d) /\ m = 2 * n
<1>1. m \in 2 .. WarpSize /\ d \in 1 .. WarpSize
  <2>1. m # 0 /\ m # 1
    BY GridAssumption
  <2>2. PICK e \in Nat : d = 1 + e
    <3>1. d - 1 \in Nat /\ d = 1 + (d - 1)
      OBVIOUS
    <3> QED BY <3>1
  <2>3. WarpSize = m + m * e /\ m * e \in Nat
    BY <2>2
  <2> QED BY <2>1, <2>3, GridAssumption
<1>2. m % 2 = 0
  BY <1>1, GridAssumption DEF PowerOfTwo
<1>3. PICK n \in Nat : m = 2 * n
  BY <1>2
<1> QED BY <1>3

\* A butterfly gives every lane the whole warp's value.
LEMMA ShuffleJoins ==
  ASSUME NEW op \in {"max", "sum"}, NEW T \in [Lanes -> SUBSET Pos],
         op = "sum" => \A l, m \in Lanes : l # m => T[l] \cap T[m] = {}
  PROVE  Shuffle(op, [l \in Lanes |-> Over(op, T[l])]) = [l \in Lanes |-> Over(op, UNION {T[m] : m \in Lanes})]
<1> DEFINE x == [l \in Lanes |-> Over(op, T[l])]
           Of(G) == UNION {T[m] : m \in G}
<1>1. PICK R : Rounds(op, x, R, 1) /\ Shuffle(op, x) = R[1]
  BY ShuffleIs
<1> HIDE DEF x
<1> DEFINE Whole(d) == R[d] = [l \in Lanes |-> Over(op, Of(Group(l, d)))]
           S == {n \in Nat : \A d \in Nat \ {0} : \A m \in Nat : WarpSize = m * d /\ d >= WarpSize - n => Whole(d)}
<1>a. WarpSize \in Nat /\ WarpSize > 0
  BY GridAssumption
<1>2. 0 \in S
  <2> SUFFICES ASSUME NEW d \in Nat \ {0}, NEW m \in Nat, WarpSize = m * d, d >= WarpSize
               PROVE  Whole(d)
    BY <1>a
  <2>1. R[d] = x
    <3>1. d >= 1
      OBVIOUS
    <3>2. R[d] = IF d >= WarpSize THEN x ELSE [l \in Lanes |-> Combine(op, R[2 * d][l], R[2 * d][Peer(l, d)])]
      BY <1>1, <3>1 DEF Rounds
    <3> QED BY <3>2
  <2>2. \A l \in Lanes : Group(l, d) = {l}
    <3>1. \A l \in Lanes : l % d = l
      BY <1>a DEF Lanes
    <3> QED BY <3>1 DEF Group
  <2>3. \A l \in Lanes : Of(Group(l, d)) = T[l]
    BY <2>2
  <2> QED BY <2>1, <2>3 DEF x
<1>3. ASSUME NEW n \in Nat, n \in S PROVE n + 1 \in S
  <2> SUFFICES ASSUME NEW d \in Nat \ {0}, NEW m \in Nat, WarpSize = m * d, d >= WarpSize - (n + 1)
               PROVE  Whole(d)
    BY DEF S
  <2>1. CASE d >= WarpSize - n
    BY <1>3, <2>1
  <2>2. CASE d < WarpSize - n
    <3>1. d < WarpSize /\ 2 * d >= WarpSize - n /\ 2 * d \in Nat \ {0} /\ d >= 1 /\ ~(d >= WarpSize)
      BY <1>a, <2>2
    <3>2. PICK k \in Nat : WarpSize = k * (2 * d)
      BY <3>1, HalfDivides
    <3>3. Whole(2 * d)
      BY <1>3, <3>1, <3>2
    <3>4. R[d] = [l \in Lanes |-> Combine(op, R[2 * d][l], R[2 * d][Peer(l, d)])]
      BY <1>1, <3>1 DEF Rounds
    <3>5. ASSUME NEW l \in Lanes
          PROVE  Combine(op, R[2 * d][l], R[2 * d][Peer(l, d)]) = Over(op, Of(Group(l, d)))
      <4> DEFINE A == Group(l, 2 * d)
                 B == Group(Peer(l, d), 2 * d)
      <4>1. Group(l, d) = A \cup B /\ A \cap B = {} /\ Peer(l, d) \in Lanes /\ A \subseteq Lanes /\ B \subseteq Lanes
        BY <3>2, GroupsJoin, PeerIs DEF Group
      <4>2. R[2 * d][l] = Over(op, Of(A)) /\ R[2 * d][Peer(l, d)] = Over(op, Of(B))
        BY <3>3, <4>1
      <4> HIDE DEF A, B
      <4>3. Of(A) \in SUBSET Pos /\ Of(B) \in SUBSET Pos /\ Of(A \cup B) = Of(A) \cup Of(B)
        BY <4>1
      <4>4. op = "sum" => Of(A) \cap Of(B) = {}
        BY <4>1
      <4>5. Combine(op, Over(op, Of(A)), Over(op, Of(B))) = Over(op, Of(A) \cup Of(B))
        <5> HIDE DEF Of
        <5> QED BY <4>3, <4>4, CombineJoins
      <4> QED BY <4>1, <4>2, <4>3, <4>5
    <3> QED BY <3>4, <3>5
  <2> QED BY <1>a, <2>1, <2>2
<1> HIDE DEF S
<1>4. Nat \subseteq S
  BY <1>2, <1>3, InductionOnNat
<1>5. Whole(1)
  <2>1. WarpSize = WarpSize * 1 /\ 1 >= WarpSize - WarpSize /\ 1 \in Nat \ {0}
    BY <1>a
  <2> QED BY <1>4, <1>a, <2>1 DEF S
<1>6. \A l \in Lanes : Group(l, 1) = Lanes
  <2>1. \A l \in Lanes : l % 1 = 0
    BY <1>a DEF Lanes
  <2> QED BY <2>1 DEF Group
<1>7. R[1] = [l \in Lanes |-> Over(op, Of(Lanes))]
  BY <1>5, <1>6
<1> QED BY <1>1, <1>7 DEF x

-----------------------------------------------------------------------------
(* The invariant of the data.                                              *)

\* The positions of a thread and of a warp, and the results of the two reductions.
Own(th)    == Strided(th, KvLen)
WarpOwn(w) == UNION {Own(<<w, l>>) : l \in Lanes}
MaxPart(l) == IF l < NumWarps THEN WarpOwn(l) ELSE WarpOwn(0)     \* what lane l collects
SumPart(l) == IF l < NumWarps THEN WarpOwn(l) ELSE {}
FullMax    == Over("max", Pos)
FullSum    == Over("sum", Pos)

\* What a thread's register holds, by where the thread is.
Register(p, x, th) ==
  /\ p = "warpmax" => x = Over("max", Own(th))
  /\ p \in {"sync2", "pubmax"} => x = Over("max", WarpOwn(th[1]))
  /\ p = "allmax" => x = Over("max", MaxPart(th[2]))
  /\ p = "exp" => x = FullMax
  /\ p = "warpsum" => x = Over("sum", Own(th))
  /\ p \in {"sync4", "pubsum"} => x = Over("sum", WarpOwn(th[1]))
  /\ p = "allsum" => x = Over("sum", SumPart(th[2]))
  /\ p \in {"out", "done"} => x = FullSum

\* What lane 0 of a warp has published, by where it is.
Published(p, x, w) ==
  /\ p \in {"sync3", "getmax", "allmax", "exp", "warpsum", "sync4"} => x = Over("max", WarpOwn(w))
  /\ p \in {"sync5", "getsum", "allsum", "out", "done"} => x = Over("sum", WarpOwn(w))

\* The scores of a thread's own positions, by where it is.
OwnScores(p, s, th) ==
  /\ p \in {"rowmax", "warpmax", "sync2", "pubmax", "sync3", "getmax", "allmax", "exp"} =>
       \A t \in Own(th) : s[t] = Raw
  /\ p \in {"warpsum", "sync4", "pubsum", "sync5", "getsum", "allsum", "out", "done"} =>
       \A t \in Own(th) : s[t] = Exp(FullMax)

\* The scores of warp w's positions below n are there.
ScoredBelow(s, n, w) == \A t \in Pos : t % NumWarps = w /\ t < n => s[t] = Raw

\* A warp has scored what it has passed, and a thread leaves the score loop at its end.
Scored(p, s, n, th) ==
  /\ p \in {"score", "sync1"} => ScoredBelow(s, n, th[1])
  /\ p # "score" => n >= KvLen

\* The output dimensions of a thread that is done.
Written(p, o, th) ==
  p = "done" => \A d \in Strided(th, HeadDim) : o[d] = [weights |-> [t \in Pos |-> Exp(FullMax)], norm |-> FullSum]

\* One block: points, registers, scratch, scores, next positions and output.
BlockData(p, r, x, s, n, o) ==
  \A th \in Threads :
    /\ Register(p[th], r[th], th)
    /\ Published(p[<<th[1], 0>>], x[th[1]], th[1])
    /\ OwnScores(p[th], s, th)
    /\ Scored(p[th], s, n[th[1]], th)
    /\ Written(p[th], o, th)

DataOf(h) == BlockData(pc[h], v[h], scratch[h], scores[h], next[h], out[h])

\* The second invariant, inductive together with the first.
Data == \A h \in Heads : DataOf(h)


-----------------------------------------------------------------------------
(* Who has which position.                                                 *)

\* A thread is a warp and a lane.
LEMMA ThreadParts ==
  /\ \A th \in Threads : th = <<th[1], th[2]>> /\ th[1] \in Warps /\ th[2] \in Lanes
  /\ \A w \in Warps, l \in Lanes : <<w, l>> \in Threads
  /\ 0 \in Lanes /\ 0 \in Warps /\ \A th \in Threads : <<th[1], 0>> \in Threads
  BY GridAssumption DEF Threads, Warps, Lanes

\* Every element of a strided loop has a thread.
LEMMA StridedCover ==
  ASSUME NEW n \in Nat, NEW t \in 0 .. n - 1
  PROVE  \E th \in Threads : t \in Strided(th, n)
<1>1. WarpSize \in Nat \ {0} /\ NumWarps \in Nat \ {0} /\ t \in Nat
  BY GridAssumption
<1>2. BlockSize \in Nat \ {0}
  <2>1. PICK d \in Nat : NumWarps = 1 + d
    <3>1. NumWarps - 1 \in Nat /\ NumWarps = 1 + (NumWarps - 1)
      BY <1>1
    <3> QED BY <3>1
  <2>2. NumWarps * WarpSize = WarpSize + d * WarpSize /\ d * WarpSize \in Nat
    BY <1>1, <2>1
  <2> QED BY <1>1, <2>2 DEF BlockSize
<1>3. PICK q \in Nat, r \in 0 .. BlockSize - 1 : t = r + q * BlockSize
  BY <1>1, <1>2, Division, Zenon
<1>4. r \in Nat
  BY <1>2
<1>5. PICK w \in Nat, l \in 0 .. WarpSize - 1 : r = l + w * WarpSize
  BY <1>1, <1>4, Division, Zenon
<1>6. w < NumWarps
  <2> SUFFICES ASSUME w >= NumWarps PROVE FALSE
    BY <1>1
  <2>1. PICK e \in Nat : w = NumWarps + e
    <3>1. w - NumWarps \in Nat /\ w = NumWarps + (w - NumWarps)
      BY <1>1
    <3> QED BY <3>1
  <2>2. w * WarpSize = NumWarps * WarpSize + e * WarpSize /\ e * WarpSize \in Nat
    BY <1>1, <2>1
  <2> QED BY <1>1, <1>2, <1>5, <2>2 DEF BlockSize
<1>7. <<w, l>> \in Threads /\ Tid(<<w, l>>) = r
  BY <1>1, <1>5, <1>6 DEF Threads, Warps, Lanes, Tid
<1>8. q \in 0 .. n
  <2>1. PICK d \in Nat : BlockSize = 1 + d
    <3>1. BlockSize - 1 \in Nat /\ BlockSize = 1 + (BlockSize - 1)
      BY <1>2
    <3> QED BY <3>1
  <2>2. q * BlockSize = q + q * d /\ q * d \in Nat
    BY <2>1
  <2> QED BY <1>3, <1>4, <2>2
<1>9. t \in Strided(<<w, l>>, n)
  BY <1>3, <1>7, <1>8 DEF Strided
<1> QED BY <1>7, <1>9

\* The threads split the positions.
LEMMA OwnIsPos == \A th \in Threads : Own(th) \subseteq Pos
  BY DEF Own, Strided, Pos

LEMMA OwnDisjoint == \A a, b \in Threads : a # b => Own(a) \cap Own(b) = {}
  BY StridedDisjoint, GridAssumption DEF Own

LEMMA OwnCover == \A t \in Pos : \E th \in Threads : t \in Own(th)
  BY StridedCover, GridAssumption DEF Own, Pos

\* So do the warps.
LEMMA WarpOwnIsPos == \A w \in Warps : WarpOwn(w) \subseteq Pos
  BY OwnIsPos, ThreadParts DEF WarpOwn

LEMMA WarpOwnDisjoint == \A w, u \in Warps : w # u => WarpOwn(w) \cap WarpOwn(u) = {}
<1> SUFFICES ASSUME NEW w \in Warps, NEW u \in Warps, w # u,
                    NEW t \in WarpOwn(w), t \in WarpOwn(u)
             PROVE  FALSE
  OBVIOUS
<1>1. PICK l \in Lanes, m \in Lanes : t \in Own(<<w, l>>) /\ t \in Own(<<u, m>>)
  BY DEF WarpOwn
<1>2. <<w, l>> \in Threads /\ <<u, m>> \in Threads /\ <<w, l>> # <<u, m>>
  BY ThreadParts
<1> QED BY <1>1, <1>2, OwnDisjoint

LEMMA WarpOwnCover == \A t \in Pos : \E w \in Warps : t \in WarpOwn(w)
<1> TAKE t \in Pos
<1>1. PICK th \in Threads : t \in Own(th)
  BY OwnCover
<1>2. t \in WarpOwn(th[1]) /\ th[1] \in Warps
  BY <1>1, ThreadParts DEF WarpOwn
<1> QED BY <1>2

\* The value of a set of positions is a value.
LEMMA OverTyped == \A op \in {"max", "sum"}, T \in SUBSET Pos : Over(op, T) \in Value
  BY DEF Over, OnceEach, Value, Ops

-----------------------------------------------------------------------------
(* What the shuffles return.                                               *)

\* The registers of a warp's lanes, and the same value in all of them.
Regs(r, w) == [l \in Lanes |-> r[<<w, l>>]]
Same(x)    == [l \in Lanes |-> x]

\* The first shuffle of a reduction: the warp's own positions.
LEMMA WarpTotal ==
  ASSUME NEW op \in {"max", "sum"}, NEW w \in Warps, NEW r,
         \A l \in Lanes : r[<<w, l>>] = Over(op, Own(<<w, l>>))
  PROVE  Shuffle(op, Regs(r, w)) = Same(Over(op, WarpOwn(w)))
<1> DEFINE T == [l \in Lanes |-> Own(<<w, l>>)]
<1>1. T \in [Lanes -> SUBSET Pos]
  BY OwnIsPos, ThreadParts
<1>2. \A l, m \in Lanes : l # m => T[l] \cap T[m] = {}
  <2>1. \A l, m \in Lanes : l # m => <<w, l>> # <<w, m>> /\ <<w, l>> \in Threads /\ <<w, m>> \in Threads
    BY ThreadParts
  <2> QED BY <2>1, OwnDisjoint
<1>3. Regs(r, w) = [l \in Lanes |-> Over(op, T[l])]
  BY DEF Regs
<1>4. UNION {T[m] : m \in Lanes} = WarpOwn(w)
  BY DEF WarpOwn
<1> HIDE DEF T
<1>5. Shuffle(op, [l \in Lanes |-> Over(op, T[l])]) = [l \in Lanes |-> Over(op, UNION {T[m] : m \in Lanes})]
  BY <1>1, <1>2, ShuffleJoins
<1> QED BY <1>3, <1>4, <1>5 DEF Same

\* The second: parts that are the warps' totals and, for a maximum, whatever else.
LEMMA BlockTotal ==
  ASSUME NEW op \in {"max", "sum"}, NEW w \in Warps, NEW r,
         NEW T \in [Lanes -> SUBSET Pos],
         \A u \in Warps : T[u] = WarpOwn(u),
         op = "sum" => \A l \in Lanes \ Warps : T[l] = {},
         \A l \in Lanes : r[<<w, l>>] = Over(op, T[l])
  PROVE  Shuffle(op, Regs(r, w)) = Same(Over(op, Pos))
<1>1. Warps \subseteq Lanes
  BY GridAssumption DEF Lanes, Warps
<1>2. op = "sum" => \A l, m \in Lanes : l # m => T[l] \cap T[m] = {}
  BY WarpOwnDisjoint
<1>3. Regs(r, w) = [l \in Lanes |-> Over(op, T[l])]
  BY DEF Regs
<1>4. UNION {T[m] : m \in Lanes} = Pos
  <2>1. \A t \in Pos : \E m \in Lanes : t \in T[m]
    BY <1>1, WarpOwnCover
  <2>2. \A m \in Lanes : T[m] \subseteq Pos
    OBVIOUS
  <2> QED BY <2>1, <2>2
<1>5. Shuffle(op, [l \in Lanes |-> Over(op, T[l])]) = [l \in Lanes |-> Over(op, UNION {T[m] : m \in Lanes})]
  BY <1>2, ShuffleJoins
<1> QED BY <1>3, <1>4, <1>5 DEF Same

\* The lanes past the totals start from the first total in blockMax,
LEMMA BlockMax ==
  ASSUME NEW w \in Warps, NEW r, \A l \in Lanes : r[<<w, l>>] = Over("max", MaxPart(l))
  PROVE  Shuffle("max", Regs(r, w)) = Same(FullMax)
<1> DEFINE T == [l \in Lanes |-> MaxPart(l)]
<1>1. 0 \in Warps /\ \A l \in Lanes : l < NumWarps => l \in Warps
  BY GridAssumption DEF Lanes, Warps
<1>2. T \in [Lanes -> SUBSET Pos]
  BY <1>1, WarpOwnIsPos DEF MaxPart
<1>3. \A u \in Warps : u \in Lanes /\ u < NumWarps
  BY GridAssumption DEF Lanes, Warps
<1>4. \A u \in Warps : T[u] = WarpOwn(u)
  BY <1>3 DEF MaxPart
<1>5. \A l \in Lanes : r[<<w, l>>] = Over("max", T[l])
  OBVIOUS
<1> HIDE DEF T
<1>6. "max" \in {"max", "sum"} /\ ("max" = "sum" => \A l \in Lanes \ Warps : T[l] = {})
  OBVIOUS
<1> QED BY <1>2, <1>4, <1>5, <1>6, BlockTotal DEF FullMax

\* and from nothing in blockSum.
LEMMA BlockSum ==
  ASSUME NEW w \in Warps, NEW r, \A l \in Lanes : r[<<w, l>>] = Over("sum", SumPart(l))
  PROVE  Shuffle("sum", Regs(r, w)) = Same(FullSum)
<1> DEFINE T == [l \in Lanes |-> SumPart(l)]
<1>1. \A l \in Lanes : l \in Warps <=> l < NumWarps
  BY GridAssumption DEF Lanes, Warps
<1>2. T \in [Lanes -> SUBSET Pos]
  BY <1>1, WarpOwnIsPos DEF SumPart
<1>3. \A u \in Warps : u \in Lanes
  BY GridAssumption DEF Lanes, Warps
<1>4. /\ \A u \in Warps : T[u] = WarpOwn(u)
      /\ \A l \in Lanes \ Warps : T[l] = {}
  BY <1>1, <1>3 DEF SumPart
<1>5. \A l \in Lanes : r[<<w, l>>] = Over("sum", T[l])
  OBVIOUS
<1> HIDE DEF T
<1> QED BY <1>2, <1>4, <1>5, BlockTotal DEF FullSum

-----------------------------------------------------------------------------
\* The whole invariant: barrier intervals, types and data.
Inv == IInv /\ TypeOK /\ Data

-----------------------------------------------------------------------------
(* The facts of one block.                                                 *)

\* The two invariants, for the threads of a block.
LEMMA BlockFacts ==
  ASSUME Inv, NEW h \in Heads
  PROVE  \A a \in Threads :
           /\ Register(pc[h][a], v[h][a], a)
           /\ Published(pc[h][<<a[1], 0>>], scratch[h][a[1]], a[1])
           /\ OwnScores(pc[h][a], scores[h], a)
           /\ Scored(pc[h][a], scores[h], next[h][a[1]], a)
           /\ Written(pc[h][a], out[h], a)
           /\ pc[h][a] \in Points
  BY DEF Inv, Data, DataOf, BlockData, TypeOK

\* The state of a block whose variables do not change keeps its data.
LEMMA OtherBlocks ==
  ASSUME NEW g \in Heads, DataOf(g),
         pc'[g] = pc[g], v'[g] = v[g], scratch'[g] = scratch[g],
         scores'[g] = scores[g], next'[g] = next[g], out'[g] = out[g]
  PROVE  DataOf(g)'
  BY DEF DataOf

\* A block's step that leaves the other blocks alone.
LEMMA OneBlock ==
  ASSUME Data, NEW h \in Heads, DataOf(h)',
         \A g \in Heads \ {h} : /\ pc'[g] = pc[g] /\ v'[g] = v[g] /\ scratch'[g] = scratch[g]
                                /\ scores'[g] = scores[g] /\ next'[g] = next[g] /\ out'[g] = out[g]
  PROVE  Data'
<1> SUFFICES ASSUME NEW g \in Heads PROVE DataOf(g)'
  BY DEF Data
<1>1. CASE g = h
  BY <1>1
<1>2. CASE g # h
  BY <1>2, OtherBlocks DEF Data
<1> QED BY <1>1, <1>2

\* Where everybody is when one thread is in a barrier interval.
LEMMA Together ==
  ASSUME Inv, NEW h \in Heads, NEW th \in Threads
  PROVE  \A a \in Threads : PhaseOf[pc[h][a]] = PhaseOf[pc[h][th]]
  BY DEF Inv, IInv, SamePhase

\* A thread's move.
LEMMA ThreadMoves ==
  ASSUME TypeOK, NEW h \in Heads, NEW th \in Threads, NEW from \in Points, NEW to \in Points, Goto(h, th, from, to)
  PROVE  /\ pc[h][th] = from
         /\ \A a \in Threads : pc'[h][a] = IF a = th THEN to ELSE pc[h][a]
         /\ \A g \in Heads \ {h} : pc'[g] = pc[g]
         /\ pc' \in [Heads -> [Threads -> Points]]
  BY DEF TypeOK, Goto

\* A warp's move.
LEMMA WarpMoves ==
  ASSUME TypeOK, NEW h \in Heads, NEW w \in Warps, NEW from \in Points, NEW to \in Points, WarpGoto(h, w, from, to)
  PROVE  /\ \A a \in Threads : a[1] = w => pc[h][a] = from
         /\ \A a \in Threads : pc'[h][a] = IF a[1] = w THEN to ELSE pc[h][a]
         /\ \A g \in Heads \ {h} : pc'[g] = pc[g]
         /\ pc' \in [Heads -> [Threads -> Points]]
<1>1. ASSUME NEW a \in Threads, a[1] = w PROVE pc[h][a] = from
  BY <1>1, ThreadParts DEF WarpGoto
<1>2. \A a \in Threads : pc'[h][a] = IF a[1] = w THEN to ELSE pc[h][a]
  BY DEF TypeOK, WarpGoto
<1>3. \A g \in Heads \ {h} : pc'[g] = pc[g]
  BY DEF TypeOK, WarpGoto
<1>4. pc' \in [Heads -> [Threads -> Points]]
  BY DEF TypeOK, WarpGoto
<1> QED BY <1>1, <1>2, <1>3, <1>4

\* A block's move.
LEMMA BlockMoves ==
  ASSUME TypeOK, NEW h \in Heads, NEW at \in Points, NEW to \in Points, Sync(h, at, to)
  PROVE  /\ \A a \in Threads : pc[h][a] = at
         /\ \A a \in Threads : pc'[h][a] = to
         /\ \A g \in Heads \ {h} : pc'[g] = pc[g]
         /\ pc' \in [Heads -> [Threads -> Points]]
  BY DEF TypeOK, Sync

\* The points.
LEMMA AllPoints ==
  {"score", "sync1", "rowmax", "warpmax", "sync2", "pubmax", "sync3", "getmax", "allmax",
   "exp", "warpsum", "sync4", "pubsum", "sync5", "getsum", "allsum", "out", "done"} \subseteq Points
  BY DEF Points, PhaseOf

\* The scores.
LEMMA ScoreTypes ==
  /\ Bad \in Value /\ Undef \in Score /\ Raw \in Score
  /\ \A m \in Value : Exp(m) \in Score
  BY DEF Bad, Value, Ops, Zero, Undef, Raw, Exp, Score

\* A thread that neither moves nor writes its register.
LEMMA RegisterStill ==
  ASSUME Inv, NEW h \in Heads, NEW a \in Threads, pc'[h][a] = pc[h][a], v'[h][a] = v[h][a]
  PROVE  Register(pc[h][a], v[h][a], a)'
<1>1. Register(pc[h][a], v[h][a], a)
  BY BlockFacts
<1> QED BY <1>1

\* The moves that publish nothing.
Unpublishing ==
  {<<"score", "sync1">>, <<"sync1", "rowmax">>, <<"rowmax", "warpmax">>, <<"warpmax", "sync2">>, <<"sync2", "pubmax">>,
   <<"sync3", "getmax">>, <<"getmax", "allmax">>, <<"allmax", "exp">>, <<"exp", "warpsum">>, <<"warpsum", "sync4">>,
   <<"sync4", "pubsum">>, <<"sync5", "getsum">>, <<"getsum", "allsum">>, <<"allsum", "out">>, <<"out", "done">>}

\* What a warp has published stays, as long as nobody writes its place.
LEMMA PublishedStill ==
  ASSUME Inv, NEW h \in Heads, NEW a \in Threads, scratch'[h][a[1]] = scratch[h][a[1]],
         \/ pc'[h][<<a[1], 0>>] = pc[h][<<a[1], 0>>]
         \/ <<pc[h][<<a[1], 0>>], pc'[h][<<a[1], 0>>]>> \in Unpublishing
  PROVE  Published(pc[h][<<a[1], 0>>], scratch[h][a[1]], a[1])'
<1>1. Published(pc[h][<<a[1], 0>>], scratch[h][a[1]], a[1])
  BY BlockFacts
<1>2. CASE pc'[h][<<a[1], 0>>] = pc[h][<<a[1], 0>>]
  BY <1>1, <1>2
<1>3. CASE <<pc[h][<<a[1], 0>>], pc'[h][<<a[1], 0>>]>> \in Unpublishing
  BY <1>1, <1>3 DEF Published, Unpublishing
<1> QED BY <1>2, <1>3

\* The moves after which the same holds of the scores and of the output.
Quiet ==
  {<<"rowmax", "warpmax">>, <<"warpmax", "sync2">>, <<"sync2", "pubmax">>, <<"pubmax", "sync3">>,
   <<"sync3", "getmax">>, <<"getmax", "allmax">>, <<"allmax", "exp">>, <<"warpsum", "sync4">>, <<"sync4", "pubsum">>,
   <<"pubsum", "sync5">>, <<"sync5", "getsum">>, <<"getsum", "allsum">>, <<"allsum", "out">>}

\* The scores and the output, when nobody writes them.
LEMMA ScoresStill ==
  ASSUME Inv, NEW h \in Heads, NEW a \in Threads,
         scores'[h] = scores[h], next'[h] = next[h], out'[h] = out[h],
         \/ pc'[h][a] = pc[h][a]
         \/ <<pc[h][a], pc'[h][a]>> \in Quiet
  PROVE  /\ OwnScores(pc[h][a], scores[h], a)'
         /\ Scored(pc[h][a], scores[h], next[h][a[1]], a)'
         /\ Written(pc[h][a], out[h], a)'
<1>1. /\ OwnScores(pc[h][a], scores[h], a)
      /\ Scored(pc[h][a], scores[h], next[h][a[1]], a)
      /\ Written(pc[h][a], out[h], a)
  BY BlockFacts
<1>2. CASE pc'[h][a] = pc[h][a]
  BY <1>1, <1>2
<1>3. CASE <<pc[h][a], pc'[h][a]>> \in Quiet
  <2>1. OwnScores(pc[h][a], scores[h], a)'
    BY <1>1, <1>3 DEF OwnScores, Quiet
  <2>2. Scored(pc[h][a], scores[h], next[h][a[1]], a)'
    BY <1>1, <1>3 DEF Scored, Quiet
  <2>3. Written(pc[h][a], out[h], a)'
    BY <1>3 DEF Written, Quiet
  <2> QED BY <2>1, <2>2, <2>3
<1> QED BY <1>2, <1>3

\* What is to be shown of every thread of a block.
LEMMA BlockDone ==
  ASSUME NEW h \in Heads,
         \A a \in Threads :
           /\ Register(pc[h][a], v[h][a], a)' /\ Published(pc[h][<<a[1], 0>>], scratch[h][a[1]], a[1])'
           /\ OwnScores(pc[h][a], scores[h], a)' /\ Scored(pc[h][a], scores[h], next[h][a[1]], a)'
           /\ Written(pc[h][a], out[h], a)'
  PROVE  DataOf(h)'
  BY DEF DataOf, BlockData

-----------------------------------------------------------------------------
(* The steps of a thread.                                                  *)

\* A thread leaves the score loop.
LEMMA LeaveScoresData ==
  ASSUME Inv, NEW h \in Heads, NEW th \in Threads, LeaveScores(h, th)
  PROVE  TypeOK' /\ Data'
<1>1. /\ pc[h][th] = "score"
      /\ \A a \in Threads : pc'[h][a] = IF a = th THEN "sync1" ELSE pc[h][a]
      /\ \A g \in Heads \ {h} : pc'[g] = pc[g]
      /\ pc' \in [Heads -> [Threads -> Points]]
  BY ThreadMoves, AllPoints DEF LeaveScores, Inv
<1>2. UNCHANGED <<next, v, scores, scratch, out>> /\ next[h][th[1]] >= KvLen
  BY DEF LeaveScores
<1>3. TypeOK'
  BY <1>1, <1>2 DEF Inv, TypeOK
<1>4. \A a \in Threads : Register(pc[h][a], v[h][a], a)'
  <2>1. Register(pc[h][th], v[h][th], th)'
    BY <1>1 DEF Register
  <2> QED BY <1>1, <1>2, <2>1, RegisterStill
<1>5. \A a \in Threads : Published(pc[h][<<a[1], 0>>], scratch[h][a[1]], a[1])'
  BY <1>1, <1>2, ThreadParts, PublishedStill DEF Unpublishing
<1>6. \A a \in Threads : /\ OwnScores(pc[h][a], scores[h], a)'
                         /\ Scored(pc[h][a], scores[h], next[h][a[1]], a)'
                         /\ Written(pc[h][a], out[h], a)'
  <2>1. OwnScores(pc[h][th], scores[h], th)' /\ Written(pc[h][th], out[h], th)'
    BY <1>1 DEF OwnScores, Written
  <2>2. Scored(pc[h][th], scores[h], next[h][th[1]], th)'
    BY <1>1, <1>2, BlockFacts DEF Scored
  <2> QED BY <1>1, <1>2, <2>1, <2>2, ScoresStill
<1>7. DataOf(h)'
  BY <1>4, <1>5, <1>6, BlockDone
<1> QED BY <1>1, <1>2, <1>3, <1>7, OneBlock DEF Inv

\* A thread takes the maximum of its own scores, which are all there.
LEMMA RowMaxData ==
  ASSUME Inv, NEW h \in Heads, NEW th \in Threads, RowMax(h, th)
  PROVE  TypeOK' /\ Data'
<1>1. /\ pc[h][th] = "rowmax"
      /\ \A a \in Threads : pc'[h][a] = IF a = th THEN "warpmax" ELSE pc[h][a]
      /\ \A g \in Heads \ {h} : pc'[g] = pc[g]
      /\ pc' \in [Heads -> [Threads -> Points]]
  BY ThreadMoves, AllPoints DEF RowMax, Inv
<1>2. UNCHANGED <<next, scores, scratch, out>>
  BY DEF RowMax
<1>3. \A t \in Own(th) : scores[h][t] = Raw
  BY <1>1, BlockFacts DEF OwnScores
<1>4. v' = [v EXCEPT ![h][th] = Over("max", Own(th))]
  BY <1>3 DEF RowMax, Own, Over
<1>5. Over("max", Own(th)) \in Value
  BY OverTyped, OwnIsPos
<1>6. /\ v' \in [Heads -> [Threads -> Value]]
      /\ \A a \in Threads : v'[h][a] = IF a = th THEN Over("max", Own(th)) ELSE v[h][a]
      /\ \A g \in Heads \ {h} : v'[g] = v[g]
  BY <1>4, <1>5 DEF Inv, TypeOK
<1>7. TypeOK'
  BY <1>1, <1>2, <1>6 DEF Inv, TypeOK
<1>8. \A a \in Threads : Register(pc[h][a], v[h][a], a)'
  <2>1. Register(pc[h][th], v[h][th], th)'
    BY <1>1, <1>6 DEF Register
  <2> QED BY <1>1, <1>6, <2>1, RegisterStill
<1>9. \A a \in Threads : Published(pc[h][<<a[1], 0>>], scratch[h][a[1]], a[1])'
  BY <1>1, <1>2, ThreadParts, PublishedStill DEF Unpublishing
<1>10. \A a \in Threads : /\ OwnScores(pc[h][a], scores[h], a)'
                          /\ Scored(pc[h][a], scores[h], next[h][a[1]], a)'
                          /\ Written(pc[h][a], out[h], a)'
  BY <1>1, <1>2, ScoresStill DEF Quiet
<1>11. DataOf(h)'
  BY <1>8, <1>9, <1>10, BlockDone
<1> QED BY <1>1, <1>2, <1>6, <1>7, <1>11, OneBlock DEF Inv

\* Lane 0 of a warp publishes the warp's total, for either reduction.
LEMMA PublishData ==
  ASSUME Inv, NEW h \in Heads, NEW th \in Threads, NEW from \in Points, NEW to \in Points,
         <<from, to>> \in {<<"pubmax", "sync3">>, <<"pubsum", "sync5">>},
         Publish(h, th, from, to)
  PROVE  TypeOK' /\ Data'
<1>1. /\ pc[h][th] = from
      /\ \A a \in Threads : pc'[h][a] = IF a = th THEN to ELSE pc[h][a]
      /\ \A g \in Heads \ {h} : pc'[g] = pc[g]
      /\ pc' \in [Heads -> [Threads -> Points]]
  BY ThreadMoves DEF Publish, Inv
<1>2. UNCHANGED <<next, v, scores, out>>
  BY DEF Publish
<1>3. /\ scratch' \in [Heads -> [Warps -> Value]]
      /\ \A u \in Warps : scratch'[h][u] = IF th[2] = 0 /\ u = th[1] THEN v[h][th] ELSE scratch[h][u]
      /\ \A g \in Heads \ {h} : scratch'[g] = scratch[g]
  <2>1. v[h][th] \in Value /\ th[1] \in Warps
    BY ThreadParts DEF Inv, TypeOK
  <2>2. scratch' = IF th[2] = 0 THEN [scratch EXCEPT ![h][th[1]] = v[h][th]] ELSE scratch
    BY DEF Publish, ScratchOf
  <2>3. scratch \in [Heads -> [Warps -> Value]]
    BY DEF Inv, TypeOK
  <2>4. CASE th[2] = 0
    BY <2>1, <2>2, <2>3, <2>4
  <2>5. CASE th[2] # 0
    BY <2>2, <2>3, <2>5
  <2> QED BY <2>4, <2>5
<1>4. TypeOK'
  BY <1>1, <1>2, <1>3 DEF Inv, TypeOK
<1>5. \A a \in Threads : Register(pc[h][a], v[h][a], a)'
  <2>1. Register(pc[h][th], v[h][th], th)'
    BY <1>1 DEF Register
  <2> QED BY <1>1, <1>2, <2>1, RegisterStill
<1>6. ASSUME NEW a \in Threads PROVE Published(pc[h][<<a[1], 0>>], scratch[h][a[1]], a[1])'
  <2>1. <<a[1], 0>> \in Threads /\ a[1] \in Warps /\ th = <<th[1], th[2]>>
    BY ThreadParts
  <2>2. CASE <<a[1], 0>> = th
    <3>1. th[1] = a[1] /\ th[2] = 0
      BY <2>1, <2>2
    <3>2. Register(from, v[h][th], th)
      BY <1>1, BlockFacts
    <3>3. pc'[h][<<a[1], 0>>] = to /\ scratch'[h][a[1]] = v[h][th]
      BY <1>1, <1>3, <2>1, <2>2, <3>1
    <3>4. (from = "pubmax" /\ to = "sync3") \/ (from = "pubsum" /\ to = "sync5")
      OBVIOUS
    <3>5. CASE from = "pubmax" /\ to = "sync3"
      <4>1. v[h][th] = Over("max", WarpOwn(a[1]))
        BY <3>1, <3>2, <3>5 DEF Register
      <4>2. Published(to, v[h][th], a[1])
        BY <3>5, <4>1 DEF Published
      <4> QED BY <3>3, <4>2
    <3>6. CASE from = "pubsum" /\ to = "sync5"
      <4>1. v[h][th] = Over("sum", WarpOwn(a[1]))
        BY <3>1, <3>2, <3>6 DEF Register
      <4>2. Published(to, v[h][th], a[1])
        BY <3>6, <4>1 DEF Published
      <4> QED BY <3>3, <4>2
    <3> QED BY <3>4, <3>5, <3>6
  <2>3. CASE <<a[1], 0>> # th
    <3>1. ~(th[2] = 0 /\ a[1] = th[1])
      BY <2>1, <2>3
    <3> QED BY <1>1, <1>3, <2>1, <2>3, <3>1, PublishedStill
  <2> QED BY <2>2, <2>3
<1>7. \A a \in Threads : /\ OwnScores(pc[h][a], scores[h], a)'
                         /\ Scored(pc[h][a], scores[h], next[h][a[1]], a)'
                         /\ Written(pc[h][a], out[h], a)'
  <2>1. <<from, to>> \in Quiet
    BY DEF Quiet
  <2> QED BY <1>1, <1>2, <2>1, ScoresStill
<1>8. DataOf(h)'
  BY <1>5, <1>6, <1>7, BlockDone
<1> QED BY <1>1, <1>2, <1>3, <1>4, <1>8, OneBlock DEF Inv

\* A lane collects a warp's maximum; all the warps have published theirs.
LEMMA CollectMaxData ==
  ASSUME Inv, NEW h \in Heads, NEW th \in Threads, CollectMax(h, th)
  PROVE  TypeOK' /\ Data'
<1>1. /\ pc[h][th] = "getmax"
      /\ \A a \in Threads : pc'[h][a] = IF a = th THEN "allmax" ELSE pc[h][a]
      /\ \A g \in Heads \ {h} : pc'[g] = pc[g]
      /\ pc' \in [Heads -> [Threads -> Points]]
  BY ThreadMoves, AllPoints DEF CollectMax, Inv
<1>2. UNCHANGED <<next, scores, scratch, out>>
  BY DEF CollectMax
<1>3. \A u \in Warps : scratch[h][u] = Over("max", WarpOwn(u))
  <2> TAKE u \in Warps
  <2> DEFINE a == <<u, 0>>
  <2>1. a \in Threads /\ a[1] = u
    BY ThreadParts
  <2>2. pc[h][a] \in {"getmax", "allmax", "exp", "warpsum", "sync4"}
    <3>1. PhaseOf["getmax"] = 3 /\ pc[h][a] \in Points
      BY <2>1, BlockFacts DEF PhaseOf
    <3> QED BY <1>1, <2>1, <3>1, Together, PointsOf
  <2>3. Published(pc[h][<<a[1], 0>>], scratch[h][a[1]], a[1])
    BY <2>1, BlockFacts
  <2> QED BY <2>1, <2>2, <2>3 DEF Published
<1>4. (IF th[2] < NumWarps THEN th[2] ELSE 0) \in Warps
  BY ThreadParts, GridAssumption DEF Warps, Lanes
<1>5. v' = [v EXCEPT ![h][th] = Over("max", MaxPart(th[2]))]
  BY <1>3, <1>4 DEF CollectMax, MaxPart, ScratchOf
<1>6. Over("max", MaxPart(th[2])) \in Value
  BY <1>4, OverTyped, WarpOwnIsPos DEF MaxPart
<1>7. /\ v' \in [Heads -> [Threads -> Value]]
      /\ \A a \in Threads : v'[h][a] = IF a = th THEN Over("max", MaxPart(th[2])) ELSE v[h][a]
      /\ \A g \in Heads \ {h} : v'[g] = v[g]
  BY <1>5, <1>6 DEF Inv, TypeOK
<1>8. TypeOK'
  BY <1>1, <1>2, <1>7 DEF Inv, TypeOK
<1>9. \A a \in Threads : Register(pc[h][a], v[h][a], a)'
  <2>1. Register(pc[h][th], v[h][th], th)'
    BY <1>1, <1>7 DEF Register
  <2> QED BY <1>1, <1>7, <2>1, RegisterStill
<1>10. \A a \in Threads : Published(pc[h][<<a[1], 0>>], scratch[h][a[1]], a[1])'
  BY <1>1, <1>2, ThreadParts, PublishedStill DEF Unpublishing
<1>11. \A a \in Threads : /\ OwnScores(pc[h][a], scores[h], a)'
                          /\ Scored(pc[h][a], scores[h], next[h][a[1]], a)'
                          /\ Written(pc[h][a], out[h], a)'
  BY <1>1, <1>2, ScoresStill DEF Quiet
<1>12. DataOf(h)'
  BY <1>9, <1>10, <1>11, BlockDone
<1> QED BY <1>1, <1>2, <1>7, <1>8, <1>12, OneBlock DEF Inv

\* A lane collects a warp's sum, or starts from nothing.
LEMMA CollectSumData ==
  ASSUME Inv, NEW h \in Heads, NEW th \in Threads, CollectSum(h, th)
  PROVE  TypeOK' /\ Data'
<1>1. /\ pc[h][th] = "getsum"
      /\ \A a \in Threads : pc'[h][a] = IF a = th THEN "allsum" ELSE pc[h][a]
      /\ \A g \in Heads \ {h} : pc'[g] = pc[g]
      /\ pc' \in [Heads -> [Threads -> Points]]
  BY ThreadMoves, AllPoints DEF CollectSum, Inv
<1>2. UNCHANGED <<next, scores, scratch, out>>
  BY DEF CollectSum
<1>3. \A u \in Warps : scratch[h][u] = Over("sum", WarpOwn(u))
  <2> TAKE u \in Warps
  <2> DEFINE a == <<u, 0>>
  <2>1. a \in Threads /\ a[1] = u
    BY ThreadParts
  <2>2. pc[h][a] \in {"getsum", "allsum", "out", "done"}
    <3>1. PhaseOf["getsum"] = 5 /\ pc[h][a] \in Points
      BY <2>1, BlockFacts DEF PhaseOf
    <3> QED BY <1>1, <2>1, <3>1, Together, PointsOf
  <2>3. Published(pc[h][<<a[1], 0>>], scratch[h][a[1]], a[1])
    BY <2>1, BlockFacts
  <2> QED BY <2>1, <2>2, <2>3 DEF Published
<1>4. th[2] < NumWarps => th[2] \in Warps
  BY ThreadParts, GridAssumption DEF Warps, Lanes
<1>5. v' = [v EXCEPT ![h][th] = Over("sum", SumPart(th[2]))]
  <2>1. CASE th[2] < NumWarps
    BY <1>3, <1>4, <2>1 DEF CollectSum, SumPart, ScratchOf
  <2>2. CASE ~(th[2] < NumWarps)
    <3>1. Over("sum", SumPart(th[2])) = [op |-> "sum", of |-> Zero]
      BY <2>2 DEF SumPart, Over, OnceEach, Zero
    <3> QED BY <2>2, <3>1 DEF CollectSum
  <2> QED BY <2>1, <2>2
<1>6. Over("sum", SumPart(th[2])) \in Value
  BY <1>4, OverTyped, WarpOwnIsPos DEF SumPart
<1>7. /\ v' \in [Heads -> [Threads -> Value]]
      /\ \A a \in Threads : v'[h][a] = IF a = th THEN Over("sum", SumPart(th[2])) ELSE v[h][a]
      /\ \A g \in Heads \ {h} : v'[g] = v[g]
  BY <1>5, <1>6 DEF Inv, TypeOK
<1>8. TypeOK'
  BY <1>1, <1>2, <1>7 DEF Inv, TypeOK
<1>9. \A a \in Threads : Register(pc[h][a], v[h][a], a)'
  <2>1. Register(pc[h][th], v[h][th], th)'
    BY <1>1, <1>7 DEF Register
  <2> QED BY <1>1, <1>7, <2>1, RegisterStill
<1>10. \A a \in Threads : Published(pc[h][<<a[1], 0>>], scratch[h][a[1]], a[1])'
  BY <1>1, <1>2, ThreadParts, PublishedStill DEF Unpublishing
<1>11. \A a \in Threads : /\ OwnScores(pc[h][a], scores[h], a)'
                          /\ Scored(pc[h][a], scores[h], next[h][a[1]], a)'
                          /\ Written(pc[h][a], out[h], a)'
  BY <1>1, <1>2, ScoresStill DEF Quiet
<1>12. DataOf(h)'
  BY <1>9, <1>10, <1>11, BlockDone
<1> QED BY <1>1, <1>2, <1>7, <1>8, <1>12, OneBlock DEF Inv

\* A thread takes the exponentials of its own scores under the full maximum.
LEMMA ExpScoresData ==
  ASSUME Inv, NEW h \in Heads, NEW th \in Threads, ExpScores(h, th)
  PROVE  TypeOK' /\ Data'
<1>1. /\ pc[h][th] = "exp"
      /\ \A a \in Threads : pc'[h][a] = IF a = th THEN "warpsum" ELSE pc[h][a]
      /\ \A g \in Heads \ {h} : pc'[g] = pc[g]
      /\ pc' \in [Heads -> [Threads -> Points]]
  BY ThreadMoves, AllPoints DEF ExpScores, Inv
<1>2. UNCHANGED <<next, scratch, out>>
  BY DEF ExpScores
<1>3. \A t \in Own(th) : scores[h][t] = Raw
  BY <1>1, BlockFacts DEF OwnScores
<1>4. v' = [v EXCEPT ![h][th] = Over("sum", Own(th))]
  BY <1>3 DEF ExpScores, Own, Over
<1>5. Over("sum", Own(th)) \in Value /\ FullMax \in Value
  BY OverTyped, OwnIsPos DEF FullMax
<1>6. /\ v' \in [Heads -> [Threads -> Value]]
      /\ \A a \in Threads : v'[h][a] = IF a = th THEN Over("sum", Own(th)) ELSE v[h][a]
      /\ \A g \in Heads \ {h} : v'[g] = v[g]
  BY <1>4, <1>5 DEF Inv, TypeOK
<1>7. v[h][th] = FullMax
  BY <1>1, BlockFacts DEF Register
<1>8. scores' = [scores EXCEPT ![h] = [t \in Pos |-> IF t \in Own(th) THEN Exp(FullMax) ELSE scores[h][t]]]
  BY <1>7 DEF ExpScores, Own
<1>9. /\ scores' \in [Heads -> [Pos -> Score]]
      /\ \A t \in Pos : scores'[h][t] = IF t \in Own(th) THEN Exp(FullMax) ELSE scores[h][t]
      /\ \A g \in Heads \ {h} : scores'[g] = scores[g]
  <2>1. scores \in [Heads -> [Pos -> Score]]
    BY DEF Inv, TypeOK
  <2>2. Exp(FullMax) \in Score
    BY <1>5, ScoreTypes
  <2> QED BY <1>8, <2>1, <2>2
<1>10. TypeOK'
  BY <1>1, <1>2, <1>6, <1>9 DEF Inv, TypeOK
<1>11. \A a \in Threads : Register(pc[h][a], v[h][a], a)'
  <2>1. Register(pc[h][th], v[h][th], th)'
    BY <1>1, <1>6 DEF Register
  <2> QED BY <1>1, <1>6, <2>1, RegisterStill
<1>12. \A a \in Threads : Published(pc[h][<<a[1], 0>>], scratch[h][a[1]], a[1])'
  BY <1>1, <1>2, ThreadParts, PublishedStill DEF Unpublishing
<1>13. ASSUME NEW a \in Threads
       PROVE  /\ OwnScores(pc[h][a], scores[h], a)'
              /\ Scored(pc[h][a], scores[h], next[h][a[1]], a)'
              /\ Written(pc[h][a], out[h], a)'
  <2>1. pc[h][a] \in {"getmax", "allmax", "exp", "warpsum", "sync4"}
    <3>1. PhaseOf["exp"] = 3 /\ pc[h][a] \in Points
      BY BlockFacts DEF PhaseOf
    <3> QED BY <1>1, <3>1, Together, PointsOf
  <2>2. pc'[h][a] \in {"getmax", "allmax", "exp", "warpsum", "sync4"}
    BY <1>1, <2>1
  <2>3. Written(pc[h][a], out[h], a)'
    BY <2>2 DEF Written
  <2>4. Scored(pc[h][a], scores[h], next[h][a[1]], a)'
    <3>1. Scored(pc[h][a], scores[h], next[h][a[1]], a)
      BY BlockFacts
    <3>2. next'[h][a[1]] >= KvLen
      BY <1>2, <2>1, <3>1 DEF Scored
    <3> QED BY <2>2, <3>2 DEF Scored
  <2>5. OwnScores(pc[h][a], scores[h], a)'
    <3>1. CASE a = th
      <4>1. \A t \in Own(a) : scores'[h][t] = Exp(FullMax)
        BY <1>9, <3>1, OwnIsPos
      <4> QED BY <1>1, <3>1, <4>1 DEF OwnScores
    <3>2. CASE a # th
      <4>1. \A t \in Own(a) : scores'[h][t] = scores[h][t]
        BY <1>9, <3>2, OwnIsPos, OwnDisjoint
      <4>2. pc'[h][a] = pc[h][a] /\ OwnScores(pc[h][a], scores[h], a)
        BY <1>1, <3>2, BlockFacts
      <4> QED BY <4>1, <4>2 DEF OwnScores
    <3> QED BY <3>1, <3>2
  <2> QED BY <2>3, <2>4, <2>5
<1>14. DataOf(h)'
  BY <1>11, <1>12, <1>13, BlockDone
<1> QED BY <1>1, <1>2, <1>6, <1>9, <1>10, <1>14, OneBlock DEF Inv

\* A thread writes its output dimensions from the exponentials of every position.
LEMMA WriteOutData ==
  ASSUME Inv, NEW h \in Heads, NEW th \in Threads, WriteOut(h, th)
  PROVE  TypeOK' /\ Data'
<1> DEFINE Row == [weights |-> [t \in Pos |-> Exp(FullMax)], norm |-> FullSum]
<1>1. /\ pc[h][th] = "out"
      /\ \A a \in Threads : pc'[h][a] = IF a = th THEN "done" ELSE pc[h][a]
      /\ \A g \in Heads \ {h} : pc'[g] = pc[g]
      /\ pc' \in [Heads -> [Threads -> Points]]
  BY ThreadMoves, AllPoints DEF WriteOut, Inv
<1>2. UNCHANGED <<next, v, scores, scratch>>
  BY DEF WriteOut
<1>3. \A a \in Threads : pc[h][a] \in {"getsum", "allsum", "out", "done"}
  <2> TAKE a \in Threads
  <2>1. PhaseOf["out"] = 5 /\ pc[h][a] \in Points
    BY BlockFacts DEF PhaseOf
  <2> QED BY <1>1, <2>1, Together, PointsOf
<1>4. scores[h] = [t \in Pos |-> Exp(FullMax)]
  <2>1. \A t \in Pos : scores[h][t] = Exp(FullMax)
    <3> TAKE t \in Pos
    <3>1. PICK a \in Threads : t \in Own(a)
      BY OwnCover
    <3>2. OwnScores(pc[h][a], scores[h], a)
      BY BlockFacts
    <3> QED BY <1>3, <3>1, <3>2 DEF OwnScores
  <2>2. scores[h] \in [Pos -> Score]
    BY DEF Inv, TypeOK
  <2> QED BY <2>1, <2>2
<1>5. v[h][th] = FullSum
  BY <1>1, BlockFacts DEF Register
<1>6. out' = [out EXCEPT ![h] = [d \in Dims |-> IF d \in Strided(th, HeadDim) THEN Row ELSE out[h][d]]]
  BY <1>4, <1>5 DEF WriteOut
<1>7. Row \in [weights : [Pos -> Score], norm : Value]
  <2>1. FullMax \in Value /\ FullSum \in Value
    BY OverTyped DEF FullMax, FullSum
  <2>2. Exp(FullMax) \in Score
    BY <2>1, ScoreTypes
  <2> QED BY <2>1, <2>2
<1> HIDE DEF Row
<1>8. /\ out' \in [Heads -> [Dims -> [weights : [Pos -> Score], norm : Value]]]
      /\ \A d \in Dims : out'[h][d] = IF d \in Strided(th, HeadDim) THEN Row ELSE out[h][d]
      /\ \A g \in Heads \ {h} : out'[g] = out[g]
  <2>1. out \in [Heads -> [Dims -> [weights : [Pos -> Score], norm : Value]]]
    BY DEF Inv, TypeOK
  <2> QED BY <1>6, <1>7, <2>1
<1>9. TypeOK'
  BY <1>1, <1>2, <1>8 DEF Inv, TypeOK
<1>10. \A a \in Threads : Register(pc[h][a], v[h][a], a)'
  <2>1. Register(pc[h][th], v[h][th], th)'
    BY <1>1, <1>2, <1>5 DEF Register
  <2> QED BY <1>1, <1>2, <2>1, RegisterStill
<1>11. \A a \in Threads : Published(pc[h][<<a[1], 0>>], scratch[h][a[1]], a[1])'
  BY <1>1, <1>2, ThreadParts, PublishedStill DEF Unpublishing
<1>12. ASSUME NEW a \in Threads
       PROVE  /\ OwnScores(pc[h][a], scores[h], a)'
              /\ Scored(pc[h][a], scores[h], next[h][a[1]], a)'
              /\ Written(pc[h][a], out[h], a)'
  <2>1. pc'[h][a] \in {"getsum", "allsum", "out", "done"}
    BY <1>1, <1>3
  <2>2. OwnScores(pc[h][a], scores[h], a)'
    <3>1. \A t \in Own(a) : scores'[h][t] = Exp(FullMax)
      BY <1>2, <1>4, OwnIsPos
    <3> QED BY <2>1, <3>1 DEF OwnScores
  <2>3. Scored(pc[h][a], scores[h], next[h][a[1]], a)'
    <3>1. Scored(pc[h][a], scores[h], next[h][a[1]], a)
      BY BlockFacts
    <3>2. next'[h][a[1]] >= KvLen
      BY <1>2, <1>3, <3>1 DEF Scored
    <3> QED BY <2>1, <3>2 DEF Scored
  <2>4. Written(pc[h][a], out[h], a)'
    <3>1. Strided(a, HeadDim) \subseteq Dims
      BY DEF Strided, Dims
    <3>2. CASE a = th
      <4>1. \A d \in Strided(a, HeadDim) : out'[h][d] = Row
        BY <1>8, <3>1, <3>2
      <4> QED BY <4>1 DEF Written, Row
    <3>3. CASE a # th
      <4>1. Strided(a, HeadDim) \cap Strided(th, HeadDim) = {}
        BY <3>3, StridedDisjoint, GridAssumption
      <4>2. \A d \in Strided(a, HeadDim) : out'[h][d] = out[h][d]
        BY <1>8, <3>1, <4>1
      <4>3. pc'[h][a] = pc[h][a] /\ Written(pc[h][a], out[h], a)
        BY <1>1, <3>3, BlockFacts
      <4> QED BY <4>2, <4>3 DEF Written
    <3> QED BY <3>2, <3>3
  <2> QED BY <2>2, <2>3, <2>4
<1>13. DataOf(h)'
  BY <1>10, <1>11, <1>12, BlockDone
<1> QED BY <1>1, <1>2, <1>8, <1>9, <1>13, OneBlock DEF Inv

-----------------------------------------------------------------------------
(* The steps of a warp.                                                    *)

\* A warp's next position is the only one of its own before the one after.
LEMMA NextPosition ==
  ASSUME NEW w \in Warps, NEW k \in Nat, NEW t \in Nat, t % NumWarps = w,
         t < (w + k * NumWarps) + NumWarps
  PROVE  t < w + k * NumWarps \/ t = w + k * NumWarps
<1>1. NumWarps \in Nat \ {0} /\ w \in Nat
  BY GridAssumption DEF Warps
<1>2. PICK q \in Nat, r \in 0 .. NumWarps - 1 : t = r + q * NumWarps /\ t \div NumWarps = q /\ t % NumWarps = r
  BY <1>1, Division, Zenon
<1>3. t = w + q * NumWarps
  BY <1>2
<1>4. q <= k
  <2> SUFFICES ASSUME q > k PROVE FALSE
    OBVIOUS
  <2>1. PICK e \in Nat : q = k + 1 + e
    <3>1. q - k - 1 \in Nat /\ q = k + 1 + (q - k - 1)
      OBVIOUS
    <3> QED BY <3>1
  <2>2. q * NumWarps = k * NumWarps + NumWarps + e * NumWarps /\ e * NumWarps \in Nat /\ k * NumWarps \in Nat
    BY <1>1, <2>1
  <2> QED BY <1>1, <1>3, <2>2
<1>5. PICK e \in Nat : k = q + e
  <2>1. k - q \in Nat /\ k = q + (k - q)
    BY <1>4
  <2> QED BY <2>1
<1>6. k * NumWarps = q * NumWarps + e * NumWarps /\ e * NumWarps \in Nat /\ q * NumWarps \in Nat
  BY <1>1, <1>5
<1> QED BY <1>1, <1>3, <1>6

\* A warp scores its next position.
LEMMA ScoreRowData ==
  ASSUME Inv, NEW h \in Heads, NEW w \in Warps, ScoreRow(h, w)
  PROVE  TypeOK' /\ Data'
<1> DEFINE now == next[h][w]
<1>1. /\ \A a \in Threads : a[1] = w => pc[h][a] = "score"
      /\ \A a \in Threads : pc'[h][a] = IF a[1] = w THEN "score" ELSE pc[h][a]
      /\ \A g \in Heads \ {h} : pc'[g] = pc[g]
      /\ pc' \in [Heads -> [Threads -> Points]]
  BY WarpMoves, AllPoints DEF ScoreRow, Inv
<1>2. UNCHANGED <<v, scratch, out>> /\ now < KvLen
  BY DEF ScoreRow
<1>3. PICK k \in Nat : now = w + k * NumWarps
  BY DEF Inv, IInv, OwnPositions
<1>4. now \in Pos /\ now \in Nat
  BY <1>2, GridAssumption DEF Inv, TypeOK, Pos
<1>5. \A a \in Threads : pc'[h][a] = pc[h][a] /\ pc[h][a] \in {"score", "sync1"}
  <2>1. <<w, 0>> \in Threads /\ pc[h][<<w, 0>>] = "score" /\ PhaseOf["score"] = 0
    BY <1>1, ThreadParts DEF PhaseOf
  <2>2. \A a \in Threads : pc[h][a] \in Points
    BY BlockFacts
  <2> QED BY <1>1, <2>1, <2>2, Together, PointsOf
<1>6. /\ scores' \in [Heads -> [Pos -> Score]]
      /\ \A t \in Pos : scores'[h][t] = IF t = now THEN Raw ELSE scores[h][t]
      /\ \A g \in Heads \ {h} : scores'[g] = scores[g]
  <2>1. scores \in [Heads -> [Pos -> Score]]
    BY DEF Inv, TypeOK
  <2>2. scores' = [scores EXCEPT ![h][now] = Raw]
    BY DEF ScoreRow
  <2> QED BY <1>4, <2>1, <2>2, ScoreTypes
<1>7. /\ next' \in [Heads -> [Warps -> 0 .. KvLen + NumWarps - 1]]
      /\ \A u \in Warps : next'[h][u] = IF u = w THEN now + NumWarps ELSE next[h][u]
      /\ \A g \in Heads \ {h} : next'[g] = next[g]
  <2>1. next \in [Heads -> [Warps -> 0 .. KvLen + NumWarps - 1]]
    BY DEF Inv, TypeOK
  <2>2. next' = [next EXCEPT ![h][w] = now + NumWarps]
    BY DEF ScoreRow
  <2>3. now + NumWarps \in 0 .. KvLen + NumWarps - 1
    BY <1>2, <1>4, GridAssumption
  <2> QED BY <2>1, <2>2, <2>3
<1>8. TypeOK'
  BY <1>1, <1>2, <1>6, <1>7 DEF Inv, TypeOK
<1>9. \A a \in Threads : Register(pc[h][a], v[h][a], a)'
  BY <1>2, <1>5, RegisterStill
<1>10. \A a \in Threads : Published(pc[h][<<a[1], 0>>], scratch[h][a[1]], a[1])'
  BY <1>2, <1>5, ThreadParts, PublishedStill
<1>11. ASSUME NEW a \in Threads
       PROVE  /\ OwnScores(pc[h][a], scores[h], a)'
              /\ Scored(pc[h][a], scores[h], next[h][a[1]], a)'
              /\ Written(pc[h][a], out[h], a)'
  <2>1. OwnScores(pc[h][a], scores[h], a)' /\ Written(pc[h][a], out[h], a)'
    BY <1>5 DEF OwnScores, Written
  <2>2. Scored(pc[h][a], scores[h], next[h][a[1]], a) /\ a[1] \in Warps
    BY BlockFacts, ThreadParts
  <2>3. ScoredBelow(scores[h], next[h][a[1]], a[1])
    BY <1>5, <2>2 DEF Scored
  <2>4. CASE a[1] = w
    <3>1. ASSUME NEW t \in Pos, t % NumWarps = w, t < now + NumWarps PROVE scores'[h][t] = Raw
      <4>1. t \in Nat
        BY DEF Pos
      <4>2. t < now \/ t = now
        BY <1>3, <3>1, <4>1, NextPosition
      <4> QED BY <1>6, <2>3, <2>4, <3>1, <4>2 DEF ScoredBelow
    <3>2. ScoredBelow(scores'[h], next'[h][a[1]], a[1])
      BY <1>7, <2>4, <3>1 DEF ScoredBelow
    <3>3. pc'[h][a] = "score"
      BY <1>1, <2>4
    <3> QED BY <2>1, <3>2, <3>3 DEF Scored
  <2>5. CASE a[1] # w
    <3>1. next'[h][a[1]] = next[h][a[1]]
      BY <1>7, <2>2, <2>5
    <3>2. ScoredBelow(scores'[h], next[h][a[1]], a[1])
      BY <1>6, <2>3 DEF ScoredBelow
    <3> QED BY <1>5, <2>1, <2>2, <3>1, <3>2 DEF Scored
  <2> QED BY <2>4, <2>5
<1>12. DataOf(h)'
  BY <1>9, <1>10, <1>11, BlockDone
<1> QED BY <1>1, <1>2, <1>6, <1>7, <1>8, <1>12, OneBlock DEF Inv

\* The shuffle op leaves every lane of warp w with the value x.
Leaves(h, w, op, x) == Shuffle(op, Regs(v[h], w)) = Same(x)

\* The value x is the right one for every lane of warp w at the point p.
Fits(p, x, w) == \A a \in Threads : a[1] = w => Register(p, x, a)

LEMMA WarpReduceData ==
  ASSUME Inv, NEW h \in Heads, NEW w \in Warps, NEW op, NEW from \in Points, NEW to \in Points,
         WarpReduce(h, w, op, from, to), <<from, to>> \in Quiet \cap Unpublishing,
         NEW x \in Value, Fits(to, x, w), Leaves(h, w, op, x)
  PROVE  TypeOK' /\ Data'
<1>1. /\ \A a \in Threads : a[1] = w => pc[h][a] = from
      /\ \A a \in Threads : pc'[h][a] = IF a[1] = w THEN to ELSE pc[h][a]
      /\ \A g \in Heads \ {h} : pc'[g] = pc[g]
      /\ pc' \in [Heads -> [Threads -> Points]]
  BY WarpMoves DEF WarpReduce, Inv
<1>2. UNCHANGED <<next, scores, scratch, out>>
  BY DEF WarpReduce
<1>3. /\ v' \in [Heads -> [Threads -> Value]]
      /\ \A a \in Threads : v'[h][a] = IF a[1] = w THEN x ELSE v[h][a]
      /\ \A g \in Heads \ {h} : v'[g] = v[g]
  <2>1. v \in [Heads -> [Threads -> Value]]
    BY DEF Inv, TypeOK
  <2>2. v' = [v EXCEPT ![h] = [a \in Threads |-> IF a[1] = w THEN [l \in Lanes |-> x][a[2]] ELSE v[h][a]]]
    BY DEF WarpReduce, Leaves, Regs, Same
  <2>3. \A a \in Threads : [l \in Lanes |-> x][a[2]] = x
    BY ThreadParts
  <2>4. v' = [v EXCEPT ![h] = [a \in Threads |-> IF a[1] = w THEN x ELSE v[h][a]]]
    BY <2>2, <2>3
  <2> QED BY <2>1, <2>4
<1>4. TypeOK'
  BY <1>1, <1>2, <1>3 DEF Inv, TypeOK
<1>5. ASSUME NEW a \in Threads PROVE Register(pc[h][a], v[h][a], a)'
  <2>1. CASE a[1] = w
    <3>1. pc'[h][a] = to /\ v'[h][a] = x /\ Register(to, x, a)
      BY <1>1, <1>3, <2>1 DEF Fits
    <3> QED BY <3>1
  <2>2. CASE a[1] # w
    BY <1>1, <1>3, <2>2, RegisterStill
  <2> QED BY <2>1, <2>2
<1>6. \A a \in Threads : Published(pc[h][<<a[1], 0>>], scratch[h][a[1]], a[1])'
  BY <1>1, <1>2, ThreadParts, PublishedStill
<1>7. \A a \in Threads : /\ OwnScores(pc[h][a], scores[h], a)'
                         /\ Scored(pc[h][a], scores[h], next[h][a[1]], a)'
                         /\ Written(pc[h][a], out[h], a)'
  BY <1>1, <1>2, ScoresStill
<1>8. DataOf(h)'
  BY <1>5, <1>6, <1>7, BlockDone
<1> QED BY <1>1, <1>2, <1>3, <1>4, <1>8, OneBlock DEF Inv

\* The four shuffles: first the warp's own positions, then all of them.
LEMMA ShufflesData ==
  ASSUME Inv, NEW h \in Heads, NEW w \in Warps,
         \/ WarpReduce(h, w, "max", "warpmax", "sync2")
         \/ WarpReduce(h, w, "max", "allmax", "exp")
         \/ WarpReduce(h, w, "sum", "warpsum", "sync4")
         \/ WarpReduce(h, w, "sum", "allsum", "out")
  PROVE  TypeOK' /\ Data'
<1> DEFINE x(l) == v[h][<<w, l>>]
<1>1. \A l \in Lanes : <<w, l>> \in Threads /\ <<w, l>>[1] = w /\ <<w, l>>[2] = l
  BY ThreadParts
<1>2. \A l \in Lanes : Register(pc[h][<<w, l>>], v[h][<<w, l>>], <<w, l>>)
  BY <1>1, BlockFacts
<1>3. FullMax \in Value /\ FullSum \in Value
  BY OverTyped DEF FullMax, FullSum
<1>8. /\ "warpmax" \in Points /\ "sync2" \in Points /\ "allmax" \in Points /\ "exp" \in Points
      /\ "warpsum" \in Points /\ "sync4" \in Points /\ "allsum" \in Points /\ "out" \in Points
  BY AllPoints
<1>4. CASE WarpReduce(h, w, "max", "warpmax", "sync2")
  <2>1. \A l \in Lanes : pc[h][<<w, l>>] = "warpmax"
    BY <1>4 DEF WarpReduce, WarpGoto
  <2>2. \A l \in Lanes : v[h][<<w, l>>] = Over("max", Own(<<w, l>>))
    BY <1>2, <2>1 DEF Register
  <2>3. Leaves(h, w, "max", Over("max", WarpOwn(w)))
    BY <2>2, WarpTotal DEF Leaves
  <2>4. Over("max", WarpOwn(w)) \in Value
    BY OverTyped, WarpOwnIsPos
  <2>5. Fits("sync2", Over("max", WarpOwn(w)), w)
    BY DEF Register, Fits
  <2>6. <<"warpmax", "sync2">> \in Quiet \cap Unpublishing
    BY DEF Quiet, Unpublishing
  <2> QED BY <1>4, <2>3, <2>4, <2>5, <2>6, <1>8, WarpReduceData
<1>5. CASE WarpReduce(h, w, "max", "allmax", "exp")
  <2>1. \A l \in Lanes : pc[h][<<w, l>>] = "allmax"
    BY <1>5 DEF WarpReduce, WarpGoto
  <2>2. \A l \in Lanes : v[h][<<w, l>>] = Over("max", MaxPart(l))
    BY <1>1, <1>2, <2>1 DEF Register
  <2>3. Leaves(h, w, "max", FullMax)
    BY <2>2, BlockMax DEF Leaves
  <2>4. Fits("exp", FullMax, w)
    BY DEF Register, Fits
  <2>5. <<"allmax", "exp">> \in Quiet \cap Unpublishing
    BY DEF Quiet, Unpublishing
  <2> QED BY <1>3, <1>5, <2>3, <2>4, <2>5, <1>8, WarpReduceData
<1>6. CASE WarpReduce(h, w, "sum", "warpsum", "sync4")
  <2>1. \A l \in Lanes : pc[h][<<w, l>>] = "warpsum"
    BY <1>6 DEF WarpReduce, WarpGoto
  <2>2. \A l \in Lanes : v[h][<<w, l>>] = Over("sum", Own(<<w, l>>))
    BY <1>2, <2>1 DEF Register
  <2>3. Leaves(h, w, "sum", Over("sum", WarpOwn(w)))
    BY <2>2, WarpTotal DEF Leaves
  <2>4. Over("sum", WarpOwn(w)) \in Value
    BY OverTyped, WarpOwnIsPos
  <2>5. Fits("sync4", Over("sum", WarpOwn(w)), w)
    BY DEF Register, Fits
  <2>6. <<"warpsum", "sync4">> \in Quiet \cap Unpublishing
    BY DEF Quiet, Unpublishing
  <2> QED BY <1>6, <2>3, <2>4, <2>5, <2>6, <1>8, WarpReduceData
<1>7. CASE WarpReduce(h, w, "sum", "allsum", "out")
  <2>1. \A l \in Lanes : pc[h][<<w, l>>] = "allsum"
    BY <1>7 DEF WarpReduce, WarpGoto
  <2>2. \A l \in Lanes : v[h][<<w, l>>] = Over("sum", SumPart(l))
    BY <1>1, <1>2, <2>1 DEF Register
  <2>3. Leaves(h, w, "sum", FullSum)
    BY <2>2, BlockSum DEF Leaves
  <2>4. Fits("out", FullSum, w)
    BY DEF Register, Fits
  <2>5. <<"allsum", "out">> \in Quiet \cap Unpublishing
    BY DEF Quiet, Unpublishing
  <2> QED BY <1>3, <1>7, <2>3, <2>4, <2>5, <1>8, WarpReduceData
<1> QED BY <1>4, <1>5, <1>6, <1>7

-----------------------------------------------------------------------------
(* The steps of a block.                                                   *)

\* After the score loop every position of a block is scored.
LEMMA AllScored ==
  ASSUME Inv, NEW h \in Heads, \A a \in Threads : pc[h][a] = "sync1", NEW t \in Pos
  PROVE  scores[h][t] = Raw
<1> DEFINE u == t % NumWarps
<1>1. u \in Warps /\ t \in Nat
  BY GridAssumption DEF Warps, Pos
<1> HIDE DEF u
<1>2. <<u, 0>> \in Threads /\ <<u, 0>>[1] = u
  BY <1>1, ThreadParts
<1>3. Scored(pc[h][<<u, 0>>], scores[h], next[h][u], <<u, 0>>)
  BY <1>2, BlockFacts
<1>4. ScoredBelow(scores[h], next[h][u], u) /\ next[h][u] >= KvLen
  BY <1>2, <1>3 DEF Scored
<1>5. t < next[h][u]
  <2>1. next[h][u] \in Nat
    BY <1>1 DEF Inv, IInv
  <2>2. t < KvLen
    BY GridAssumption DEF Pos
  <2> QED BY <1>1, <1>4, <2>1, <2>2, GridAssumption
<1> QED BY <1>4, <1>5 DEF ScoredBelow, u

\* A barrier.
LEMMA SyncData ==
  ASSUME Inv, NEW h \in Heads, NEW at \in Points, NEW to \in Points, Sync(h, at, to),
         <<at, to>> \in {<<"sync1", "rowmax">>, <<"sync2", "pubmax">>, <<"sync3", "getmax">>,
                         <<"sync4", "pubsum">>, <<"sync5", "getsum">>}
  PROVE  TypeOK' /\ Data'
<1>1. /\ \A a \in Threads : pc[h][a] = at
      /\ \A a \in Threads : pc'[h][a] = to
      /\ \A g \in Heads \ {h} : pc'[g] = pc[g]
      /\ pc' \in [Heads -> [Threads -> Points]]
  BY BlockMoves DEF Inv
<1>2. UNCHANGED <<next, v, scores, scratch, out>>
  BY DEF Sync
<1>3. TypeOK'
  BY <1>1, <1>2 DEF Inv, TypeOK
<1>4. ASSUME NEW a \in Threads PROVE Register(pc[h][a], v[h][a], a)'
  <2>1. Register(at, v[h][a], a)
    BY <1>1, BlockFacts
  <2>2. Register(to, v[h][a], a)
    <3>1. CASE at = "sync1" /\ to = "rowmax"
      BY <3>1 DEF Register
    <3>2. CASE at = "sync2" /\ to = "pubmax"
      BY <2>1, <3>2 DEF Register
    <3>3. CASE at = "sync3" /\ to = "getmax"
      BY <3>3 DEF Register
    <3>4. CASE at = "sync4" /\ to = "pubsum"
      BY <2>1, <3>4 DEF Register
    <3>5. CASE at = "sync5" /\ to = "getsum"
      BY <3>5 DEF Register
    <3> QED BY <3>1, <3>2, <3>3, <3>4, <3>5
  <2>3. pc'[h][a] = to /\ v'[h][a] = v[h][a]
    BY <1>1, <1>2
  <2> QED BY <2>2, <2>3
<1>5. \A a \in Threads : Published(pc[h][<<a[1], 0>>], scratch[h][a[1]], a[1])'
  <2>1. <<at, to>> \in Unpublishing
    BY DEF Unpublishing
  <2> QED BY <1>1, <1>2, <2>1, ThreadParts, PublishedStill
<1>6. ASSUME NEW a \in Threads
      PROVE  /\ OwnScores(pc[h][a], scores[h], a)'
             /\ Scored(pc[h][a], scores[h], next[h][a[1]], a)'
             /\ Written(pc[h][a], out[h], a)'
  <2>1. CASE at = "sync1" /\ to = "rowmax"
    <3>1. pc[h][a] = "sync1" /\ pc'[h][a] = "rowmax"
      BY <1>1, <2>1
    <3>2. \A t \in Own(a) : scores'[h][t] = Raw
      <4>1. \A t \in Pos : scores[h][t] = Raw
        BY <1>1, <2>1, AllScored
      <4> QED BY <1>2, <4>1, OwnIsPos
    <3>3. next'[h][a[1]] >= KvLen
      <4>1. Scored(pc[h][a], scores[h], next[h][a[1]], a)
        BY BlockFacts
      <4> QED BY <1>2, <3>1, <4>1 DEF Scored
    <3>4. OwnScores(pc[h][a], scores[h], a)'
      BY <3>1, <3>2 DEF OwnScores
    <3>5. Scored(pc[h][a], scores[h], next[h][a[1]], a)'
      BY <3>1, <3>3 DEF Scored
    <3>6. Written(pc[h][a], out[h], a)'
      BY <3>1 DEF Written
    <3> QED BY <3>4, <3>5, <3>6
  <2>2. CASE ~(at = "sync1" /\ to = "rowmax")
    <3>1. <<at, to>> \in Quiet
      BY <2>2 DEF Quiet
    <3> QED BY <1>1, <1>2, <3>1, ScoresStill
  <2> QED BY <2>1, <2>2
<1>7. DataOf(h)'
  BY <1>4, <1>5, <1>6, BlockDone
<1> QED BY <1>1, <1>2, <1>3, <1>7, OneBlock DEF Inv

-----------------------------------------------------------------------------
\* When the kernel starts nothing is reduced, scored or written.
LEMMA InitData == Init => TypeOK /\ Data
<1> SUFFICES ASSUME Init PROVE TypeOK /\ Data
  OBVIOUS
<1>1. \A h \in Heads : /\ \A a \in Threads : pc[h][a] = "score"
                       /\ \A w \in Warps : next[h][w] = w
  BY DEF Init
<1>2. TypeOK
  <2>1. pc \in [Heads -> [Threads -> Points]]
    BY AllPoints DEF Init
  <2>2. next \in [Heads -> [Warps -> 0 .. KvLen + NumWarps - 1]]
    BY GridAssumption DEF Init, Warps
  <2>3. /\ v \in [Heads -> [Threads -> Value]]
        /\ scores \in [Heads -> [Pos -> Score]]
        /\ scratch \in [Heads -> [Warps -> Value]]
    BY ScoreTypes DEF Init
  <2>4. out \in [Heads -> [Dims -> [weights : [Pos -> Score], norm : Value]]]
    <3>1. [weights |-> [t \in Pos |-> Undef], norm |-> Bad] \in [weights : [Pos -> Score], norm : Value]
      BY ScoreTypes
    <3> QED BY <3>1 DEF Init
  <2> QED BY <2>1, <2>2, <2>3, <2>4 DEF TypeOK
<1>3. ASSUME NEW h \in Heads, NEW a \in Threads
      PROVE  /\ Register(pc[h][a], v[h][a], a)
             /\ Published(pc[h][<<a[1], 0>>], scratch[h][a[1]], a[1])
             /\ OwnScores(pc[h][a], scores[h], a)
             /\ Scored(pc[h][a], scores[h], next[h][a[1]], a)
             /\ Written(pc[h][a], out[h], a)
  <2>1. <<a[1], 0>> \in Threads /\ a[1] \in Warps
    BY ThreadParts
  <2>2. ScoredBelow(scores[h], next[h][a[1]], a[1])
    <3> SUFFICES ASSUME NEW t \in Pos, t % NumWarps = a[1], t < next[h][a[1]] PROVE FALSE
      BY DEF ScoredBelow
    <3>1. next[h][a[1]] = a[1] /\ t \in Nat
      BY <1>1, <2>1 DEF Pos
    <3>2. t % NumWarps = t
      BY <2>1, <3>1, GridAssumption DEF Warps
    <3> QED BY <2>1, <3>1, <3>2, GridAssumption DEF Warps
  <2>3. Register(pc[h][a], v[h][a], a)
    BY <1>1 DEF Register
  <2>4. Published(pc[h][<<a[1], 0>>], scratch[h][a[1]], a[1])
    BY <1>1, <2>1 DEF Published
  <2>5. OwnScores(pc[h][a], scores[h], a) /\ Written(pc[h][a], out[h], a)
    BY <1>1 DEF OwnScores, Written
  <2>6. Scored(pc[h][a], scores[h], next[h][a[1]], a)
    BY <1>1, <2>2 DEF Scored
  <2> QED BY <2>3, <2>4, <2>5, <2>6
<1>4. Data
  BY <1>3 DEF Data, DataOf, BlockData
<1> QED BY <1>2, <1>4

\* Every step of a thread, a warp or a block keeps the types and the data.
LEMMA NextData == Inv /\ [Next]_vars => (TypeOK /\ Data)'
<1> SUFFICES ASSUME Inv, [Next]_vars PROVE TypeOK' /\ Data'
  OBVIOUS
<1>1. ASSUME NEW h \in Heads, NEW th \in Threads, ThreadStep(h, th) PROVE TypeOK' /\ Data'
  <2>1. CASE LeaveScores(h, th)
    BY <2>1, LeaveScoresData
  <2>2. CASE RowMax(h, th)
    BY <2>2, RowMaxData
  <2>3. CASE Publish(h, th, "pubmax", "sync3")
    BY <2>3, PublishData, AllPoints
  <2>4. CASE CollectMax(h, th)
    BY <2>4, CollectMaxData
  <2>5. CASE ExpScores(h, th)
    BY <2>5, ExpScoresData
  <2>6. CASE Publish(h, th, "pubsum", "sync5")
    BY <2>6, PublishData, AllPoints
  <2>7. CASE CollectSum(h, th)
    BY <2>7, CollectSumData
  <2>8. CASE WriteOut(h, th)
    BY <2>8, WriteOutData
  <2> QED BY <1>1, <2>1, <2>2, <2>3, <2>4, <2>5, <2>6, <2>7, <2>8 DEF ThreadStep
<1>2. ASSUME NEW h \in Heads, NEW w \in Warps, WarpStep(h, w) PROVE TypeOK' /\ Data'
  <2>1. CASE ScoreRow(h, w)
    BY <2>1, ScoreRowData
  <2>2. CASE ~ScoreRow(h, w)
    BY <1>2, <2>2, ShufflesData DEF WarpStep
  <2> QED BY <2>1, <2>2
<1>3. ASSUME NEW h \in Heads, BlockStep(h) PROVE TypeOK' /\ Data'
  <2>1. PICK at \in Points, to \in Points :
          /\ Sync(h, at, to)
          /\ <<at, to>> \in {<<"sync1", "rowmax">>, <<"sync2", "pubmax">>, <<"sync3", "getmax">>,
                             <<"sync4", "pubsum">>, <<"sync5", "getsum">>}
    BY <1>3, AllPoints DEF BlockStep
  <2> QED BY <2>1, SyncData
<1>4. CASE UNCHANGED vars
  BY <1>4 DEF vars, Inv, TypeOK, Data, DataOf
<1> QED BY <1>1, <1>2, <1>3, <1>4 DEF Next

\* The whole invariant holds in every state of the launch.
LEMMA SpecInv == Spec => []Inv
<1>1. Init => Inv
  BY InitIInv, InitData DEF Inv
<1>2. Inv /\ [Next]_vars => Inv'
  BY NextIInv, NextData DEF Inv
<1> QED BY <1>1, <1>2, PTL DEF Spec

\* Points, positions, registers, shared memory and output keep their types in
\* every launch: no score is stored past the cache.
THEOREM TypeCorrect == Spec => []TypeOK
<1>1. Inv => TypeOK
  BY DEF Inv
<1> QED BY <1>1, SpecInv, PTL

\* blockMax and blockSum give every thread the same complete result: the maximum
\* over all the positions, then a sum with each position exactly once.
THEOREM AlwaysComplete == Spec => []ReductionsComplete
<1>1. Inv => ReductionsComplete
  BY BlockFacts DEF Register, FullMax, FullSum, Over, ReductionsComplete
<1> QED BY <1>1, SpecInv, PTL

\* A finished block has written, in every dimension, the softmax over every
\* position: exponentials under the one maximum, and one full norm.
THEOREM AlwaysSoftmax == Spec => []OutputIsSoftmax
<1>1. Inv => OutputIsSoftmax
  <2> SUFFICES ASSUME Inv, NEW h \in Heads, \A th \in Threads : pc[h][th] = "done", NEW d \in Dims
               PROVE  out[h][d] = [weights |-> [t \in Pos |-> Exp(FullMax)], norm |-> FullSum]
    BY DEF OutputIsSoftmax, FullMax, FullSum, Over
  <2>1. PICK a \in Threads : d \in Strided(a, HeadDim)
    BY StridedCover, GridAssumption DEF Dims
  <2>2. Written(pc[h][a], out[h], a)
    BY BlockFacts
  <2> QED BY <2>1, <2>2 DEF Written
<1> QED BY <1>1, SpecInv, PTL

-----------------------------------------------------------------------------
(* No deadlock.                                                            *)

\* The stretches between two points that a warp or a block leaves together.
StretchOf == [score   |-> 0, sync1 |-> 0,
              rowmax  |-> 1, warpmax |-> 1, sync2 |-> 2,
              pubmax  |-> 3, sync3 |-> 3,
              getmax  |-> 4, allmax |-> 4, exp |-> 5, warpsum |-> 5, sync4 |-> 6,
              pubsum  |-> 7, sync5 |-> 7,
              getsum  |-> 8, allsum |-> 8, out |-> 9, done |-> 9]

\* The lanes of a warp are always in the same stretch.
Lockstep ==
  \A h \in Heads : \A a, b \in Threads : a[1] = b[1] => StretchOf[pc[h][a]] = StretchOf[pc[h][b]]

\* A step of one thread inside a stretch.
LEMMA GotoKeepsLockstep ==
  ASSUME TypeOK, Lockstep, NEW h \in Heads, NEW th \in Threads,
         NEW from \in Points, NEW to \in Points, StretchOf[from] = StretchOf[to],
         Goto(h, th, from, to)
  PROVE  Lockstep'
<1>1. \A g \in Heads, a \in Threads : StretchOf[pc'[g][a]] = StretchOf[pc[g][a]]
  BY DEF TypeOK, Goto
<1> QED BY <1>1 DEF Lockstep

\* A step of a whole warp.
LEMMA WarpGotoKeepsLockstep ==
  ASSUME TypeOK, Lockstep, NEW h \in Heads, NEW w \in Warps,
         NEW from \in Points, NEW to \in Points, WarpGoto(h, w, from, to)
  PROVE  Lockstep'
<1>1. /\ \A a \in Threads : pc'[h][a] = IF a[1] = w THEN to ELSE pc[h][a]
      /\ \A g \in Heads \ {h} : pc'[g] = pc[g]
  BY WarpMoves
<1> QED BY <1>1 DEF Lockstep

\* A step of a whole block.
LEMMA SyncKeepsLockstep ==
  ASSUME TypeOK, Lockstep, NEW h \in Heads, NEW at \in Points, NEW to \in Points, Sync(h, at, to)
  PROVE  Lockstep'
<1>1. /\ \A a \in Threads : pc'[h][a] = to
      /\ \A g \in Heads \ {h} : pc'[g] = pc[g]
  BY BlockMoves
<1> QED BY <1>1 DEF Lockstep

\* Every step keeps the lanes of a warp together.
LEMMA NextLockstep == Inv /\ Lockstep /\ [Next]_vars => Lockstep'
<1> SUFFICES ASSUME Inv, Lockstep, [Next]_vars PROVE Lockstep'
  OBVIOUS
<1>a. TypeOK
  BY DEF Inv
<1>1. ASSUME NEW h \in Heads, NEW th \in Threads, ThreadStep(h, th) PROVE Lockstep'
  <2>1. PICK from \in Points, to \in Points : Goto(h, th, from, to) /\ StretchOf[from] = StretchOf[to]
    <3>1. /\ StretchOf["score"] = StretchOf["sync1"] /\ StretchOf["rowmax"] = StretchOf["warpmax"]
          /\ StretchOf["pubmax"] = StretchOf["sync3"] /\ StretchOf["getmax"] = StretchOf["allmax"]
          /\ StretchOf["exp"] = StretchOf["warpsum"] /\ StretchOf["pubsum"] = StretchOf["sync5"]
          /\ StretchOf["getsum"] = StretchOf["allsum"] /\ StretchOf["out"] = StretchOf["done"]
      BY DEF StretchOf
    <3>2. \/ Goto(h, th, "score", "sync1") \/ Goto(h, th, "rowmax", "warpmax")
          \/ Goto(h, th, "pubmax", "sync3") \/ Goto(h, th, "getmax", "allmax")
          \/ Goto(h, th, "exp", "warpsum") \/ Goto(h, th, "pubsum", "sync5")
          \/ Goto(h, th, "getsum", "allsum") \/ Goto(h, th, "out", "done")
      BY <1>1 DEF ThreadStep, LeaveScores, RowMax, Publish, CollectMax, ExpScores, CollectSum, WriteOut
    <3> QED BY <3>1, <3>2, AllPoints
  <2> QED BY <1>a, <2>1, GotoKeepsLockstep
<1>2. ASSUME NEW h \in Heads, NEW w \in Warps, WarpStep(h, w) PROVE Lockstep'
  <2>1. PICK from \in Points, to \in Points : WarpGoto(h, w, from, to)
    BY <1>2, AllPoints DEF WarpStep, ScoreRow, WarpReduce
  <2> QED BY <1>a, <2>1, WarpGotoKeepsLockstep
<1>3. ASSUME NEW h \in Heads, BlockStep(h) PROVE Lockstep'
  <2>1. PICK at \in Points, to \in Points : Sync(h, at, to)
    BY <1>3, AllPoints DEF BlockStep
  <2> QED BY <1>a, <2>1, SyncKeepsLockstep
<1>4. CASE UNCHANGED vars
  BY <1>4 DEF vars, Lockstep
<1> QED BY <1>1, <1>2, <1>3, <1>4 DEF Next

\* Where the lanes of a warp are when one of them waits in a shuffle.
LEMMA BeforeShuffle ==
  ASSUME NEW p \in Points, NEW q \in {"warpmax", "allmax", "warpsum", "allsum"}, StretchOf[p] = StretchOf[q]
  PROVE  p = q \/ p \in {"rowmax", "getmax", "exp", "getsum"}
  BY DEF Points, PhaseOf, StretchOf

\* Where the threads of a block are when one of them waits at a barrier.
LEMMA BeforeBarrier ==
  ASSUME NEW p \in Points, NEW q \in {"sync1", "sync2", "sync3", "sync4", "sync5"}, PhaseOf[p] = PhaseOf[q]
  PROVE  \/ p = q
         \/ p \in {"score", "rowmax", "pubmax", "getmax", "exp", "pubsum"}
         \/ p \in {"warpmax", "allmax", "warpsum"}
  BY DEF Points, PhaseOf

\* A block that has not returned can go on.  If no thread can go on alone, one
\* in a shuffle has its whole warp there, since the lanes are in one stretch;
\* and if nobody is in a shuffle, everybody is at one barrier, since the threads
\* are in one barrier interval.
THEOREM AlwaysReady == Spec => []NeverStuck
<1>1. Inv /\ Lockstep => NeverStuck
  <2> DEFINE Alone == {"rowmax", "pubmax", "getmax", "exp", "pubsum", "getsum", "out"}
             Shuffles == {"warpmax", "allmax", "warpsum", "allsum"}
             Barriers == {"sync1", "sync2", "sync3", "sync4", "sync5"}
  <2> SUFFICES ASSUME Inv, Lockstep, NEW h \in Heads, NEW a \in Threads, pc[h][a] # "done"
               PROVE  Ready(h)
    BY DEF NeverStuck
  <2>1. \A b \in Threads : pc[h][b] \in Points
    BY BlockFacts
  <2>2. CASE \E b \in Threads : pc[h][b] \in Alone
    BY <2>2 DEF Ready
  <2>3. CASE \E b \in Threads : pc[h][b] = "score"
    <3>1. PICK b \in Threads : pc[h][b] = "score"
      BY <2>3
    <3>2. CASE next[h][b[1]] >= KvLen
      BY <3>1, <3>2 DEF Ready
    <3>3. CASE next[h][b[1]] < KvLen
      <4>1. b[1] \in Warps /\ \A l \in Lanes : <<b[1], l>> \in Threads /\ <<b[1], l>>[1] = b[1]
        BY DEF Threads
      <4>2. \A l \in Lanes : Scored(pc[h][<<b[1], l>>], scores[h], next[h][b[1]], <<b[1], l>>)
        BY <4>1, BlockFacts
      <4>3. next[h][b[1]] \in Nat
        BY <4>1 DEF Inv, IInv
      <4>4. \A l \in Lanes : pc[h][<<b[1], l>>] = "score"
        BY <3>3, <4>2, <4>3, GridAssumption DEF Scored
      <4> QED BY <3>3, <4>1, <4>4 DEF Ready
    <3>4. next[h][b[1]] \in Nat /\ KvLen \in Nat
      BY GridAssumption DEF Inv, IInv, Threads
    <3> QED BY <3>2, <3>3, <3>4
  <2>4. CASE /\ \A b \in Threads : pc[h][b] \notin Alone
             /\ \E b \in Threads : pc[h][b] \in Shuffles
    <3>1. PICK b \in Threads : pc[h][b] \in Shuffles
      BY <2>4
    <3>2. b[1] \in Warps /\ \A l \in Lanes : <<b[1], l>> \in Threads /\ <<b[1], l>>[1] = b[1]
      BY DEF Threads
    <3>3. \A l \in Lanes : StretchOf[pc[h][<<b[1], l>>]] = StretchOf[pc[h][b]]
      BY <3>2 DEF Lockstep
    <3>4. \A l \in Lanes : pc[h][<<b[1], l>>] = pc[h][b]
      BY <2>1, <2>4, <3>1, <3>2, <3>3, BeforeShuffle
    <3> QED BY <3>1, <3>2, <3>4 DEF Ready
  <2>5. CASE \A b \in Threads : pc[h][b] \notin Alone \cup Shuffles \cup {"score"}
    <3>1. pc[h][a] \in Barriers
      BY <2>1, <2>5 DEF Points, PhaseOf
    <3>2. \A b \in Threads : pc[h][b] = pc[h][a]
      BY <2>1, <2>5, <3>1, Together, BeforeBarrier
    <3> QED BY <3>1, <3>2 DEF Ready
  <2> QED BY <2>2, <2>3, <2>4, <2>5
<1>2. Init => Lockstep
  BY DEF Init, Lockstep
<1> QED BY <1>1, <1>2, NextLockstep, SpecInv, PTL DEF Spec

\* How far a thread is.
OrderOf == [score   |-> 0, sync1 |-> 1,
            rowmax  |-> 2, warpmax |-> 3, sync2 |-> 4,
            pubmax  |-> 5, sync3 |-> 6,
            getmax  |-> 7, allmax |-> 8, exp |-> 9, warpsum |-> 10, sync4 |-> 11,
            pubsum  |-> 12, sync5 |-> 13,
            getsum  |-> 14, allsum |-> 15, out |-> 16, done |-> 17]

\* A thread is further, or a warp is at a later position, and nobody is back.
Advances ==
  /\ \A h \in Heads, th \in Threads : OrderOf[pc'[h][th]] >= OrderOf[pc[h][th]]
  /\ \A h \in Heads, w \in Warps : next'[h][w] >= next[h][w]
  /\ \/ \E h \in Heads, th \in Threads : OrderOf[pc'[h][th]] > OrderOf[pc[h][th]]
     \/ \E h \in Heads, w \in Warps : next'[h][w] > next[h][w]

\* What the order is a matter of.
LEMMA OrderTyped == \A p \in Points : OrderOf[p] \in 0 .. 17
  BY DEF Points, PhaseOf, OrderOf

\* Threads that move on, of one block, with the next positions as they are.
LEMMA MovesOn ==
  ASSUME TypeOK, NEW h \in Heads, NEW a \in Threads,
         pc' \in [Heads -> [Threads -> Points]], next' = next,
         OrderOf[pc'[h][a]] > OrderOf[pc[h][a]],
         \A g \in Heads \ {h} : pc'[g] = pc[g],
         \A b \in Threads : pc'[h][b] = pc[h][b] \/ OrderOf[pc'[h][b]] > OrderOf[pc[h][b]]
  PROVE  Advances
<1>1. ASSUME NEW g \in Heads, NEW b \in Threads
      PROVE  OrderOf[pc[g][b]] \in Nat /\ OrderOf[pc'[g][b]] \in Nat
  <2>1. pc[g][b] \in Points /\ pc'[g][b] \in Points
    BY DEF TypeOK
  <2>2. OrderOf[pc[g][b]] \in 0 .. 17 /\ OrderOf[pc'[g][b]] \in 0 .. 17
    BY <2>1, OrderTyped
  <2> QED BY <2>2
<1>2. ASSUME NEW g \in Heads, NEW b \in Threads PROVE OrderOf[pc'[g][b]] >= OrderOf[pc[g][b]]
  <2>1. OrderOf[pc[g][b]] \in Nat /\ OrderOf[pc'[g][b]] \in Nat
    BY <1>1
  <2>2. pc'[g][b] = pc[g][b] \/ OrderOf[pc'[g][b]] > OrderOf[pc[g][b]]
    OBVIOUS
  <2> QED BY <2>1, <2>2
<1>3. \A g \in Heads, w \in Warps : next'[g][w] >= next[g][w]
  <2>1. \A g \in Heads, w \in Warps : next[g][w] \in Nat
    BY GridAssumption DEF TypeOK
  <2> QED BY <2>1
<1> QED BY <1>2, <1>3 DEF Advances

\* No step takes a thread or a warp back, and every step takes one further: a
\* launch has no more steps than its threads have points and its warps have
\* positions.  With a block that can always go on, every thread returns.
THEOREM EveryStepAdvances == Spec => [][Advances]_vars
<1>1. Inv /\ [Next]_vars => [Advances]_vars
  <2> SUFFICES ASSUME Inv, Next PROVE Advances
    OBVIOUS
  <2>a. TypeOK
    BY DEF Inv
  <2>1. ASSUME NEW h \in Heads, NEW th \in Threads, ThreadStep(h, th) PROVE Advances
    <3>1. PICK from \in Points, to \in Points : Goto(h, th, from, to) /\ OrderOf[to] > OrderOf[from]
      <4>1. /\ OrderOf["sync1"] > OrderOf["score"] /\ OrderOf["warpmax"] > OrderOf["rowmax"]
            /\ OrderOf["sync3"] > OrderOf["pubmax"] /\ OrderOf["allmax"] > OrderOf["getmax"]
            /\ OrderOf["warpsum"] > OrderOf["exp"] /\ OrderOf["sync5"] > OrderOf["pubsum"]
            /\ OrderOf["allsum"] > OrderOf["getsum"] /\ OrderOf["done"] > OrderOf["out"]
        BY DEF OrderOf
      <4>2. \/ Goto(h, th, "score", "sync1") \/ Goto(h, th, "rowmax", "warpmax")
            \/ Goto(h, th, "pubmax", "sync3") \/ Goto(h, th, "getmax", "allmax")
            \/ Goto(h, th, "exp", "warpsum") \/ Goto(h, th, "pubsum", "sync5")
            \/ Goto(h, th, "getsum", "allsum") \/ Goto(h, th, "out", "done")
        BY <2>1 DEF ThreadStep, LeaveScores, RowMax, Publish, CollectMax, ExpScores, CollectSum, WriteOut
      <4> QED BY <4>1, <4>2, AllPoints
    <3>2. next' = next
      BY <2>1 DEF ThreadStep, LeaveScores, RowMax, Publish, CollectMax, ExpScores, CollectSum, WriteOut
    <3>3. /\ pc[h][th] = from /\ pc' \in [Heads -> [Threads -> Points]]
          /\ \A a \in Threads : pc'[h][a] = IF a = th THEN to ELSE pc[h][a]
          /\ \A g \in Heads \ {h} : pc'[g] = pc[g]
      BY <2>a, <3>1, ThreadMoves
    <3> QED BY <2>a, <3>1, <3>2, <3>3, MovesOn
  <2>2. ASSUME NEW h \in Heads, NEW w \in Warps, ScoreRow(h, w) PROVE Advances
    <3>1. /\ \A a \in Threads : a[1] = w => pc[h][a] = "score"
          /\ \A a \in Threads : pc'[h][a] = IF a[1] = w THEN "score" ELSE pc[h][a]
          /\ \A g \in Heads \ {h} : pc'[g] = pc[g]
      BY <2>a, <2>2, AllPoints, WarpMoves DEF ScoreRow
    <3>2. ASSUME NEW g \in Heads, NEW a \in Threads PROVE pc'[g][a] = pc[g][a] /\ OrderOf[pc[g][a]] \in Nat
      <4>1. pc'[g][a] = pc[g][a]
        BY <3>1
      <4>2. pc[g][a] \in Points
        BY <2>a DEF TypeOK
      <4>3. OrderOf[pc[g][a]] \in 0 .. 17
        BY <4>2, OrderTyped
      <4> QED BY <4>1, <4>3
    <3>3. \A g \in Heads, a \in Threads : OrderOf[pc'[g][a]] >= OrderOf[pc[g][a]]
      BY <3>2
    <3>4. \A g \in Heads, u \in Warps : next[g][u] \in Nat
      BY GridAssumption DEF Inv, IInv
    <3>5. next' = [next EXCEPT ![h][w] = @ + NumWarps] /\ next \in [Heads -> [Warps -> Nat]]
      BY <2>2 DEF ScoreRow, Inv, IInv
    <3>6. /\ \A g \in Heads, u \in Warps : next'[g][u] = IF g = h /\ u = w THEN next[g][u] + NumWarps ELSE next[g][u]
      BY <3>5
    <3>7. /\ \A g \in Heads, u \in Warps : next'[g][u] >= next[g][u]
          /\ next'[h][w] > next[h][w]
      BY <3>4, <3>6, GridAssumption
    <3> QED BY <3>3, <3>7 DEF Advances
  <2>3. ASSUME NEW h \in Heads, NEW w \in Warps, WarpStep(h, w), ~ScoreRow(h, w) PROVE Advances
    <3>1. PICK op \in {"max", "sum"}, from \in Points, to \in Points :
             WarpReduce(h, w, op, from, to) /\ OrderOf[to] > OrderOf[from]
      <4>1. /\ OrderOf["sync2"] > OrderOf["warpmax"] /\ OrderOf["exp"] > OrderOf["allmax"]
            /\ OrderOf["sync4"] > OrderOf["warpsum"] /\ OrderOf["out"] > OrderOf["allsum"]
        BY DEF OrderOf
      <4> QED BY <2>3, <4>1, AllPoints DEF WarpStep
    <3>2. next' = next /\ WarpGoto(h, w, from, to)
      BY <3>1 DEF WarpReduce
    <3>3. /\ \A a \in Threads : a[1] = w => pc[h][a] = from
          /\ \A a \in Threads : pc'[h][a] = IF a[1] = w THEN to ELSE pc[h][a]
          /\ \A g \in Heads \ {h} : pc'[g] = pc[g]
          /\ pc' \in [Heads -> [Threads -> Points]]
      BY <2>a, <3>2, WarpMoves
    <3>4. PICK a \in Threads : a[1] = w
      <4>1. 0 \in Lanes
        BY GridAssumption DEF Lanes
      <4>2. <<w, 0>> \in Threads /\ <<w, 0>>[1] = w
        BY <4>1 DEF Threads
      <4> QED BY <4>2, Zenon
    <3> QED BY <2>a, <3>1, <3>2, <3>3, <3>4, MovesOn
  <2>4. ASSUME NEW h \in Heads, BlockStep(h) PROVE Advances
    <3>1. PICK at \in Points, to \in Points : Sync(h, at, to) /\ OrderOf[to] > OrderOf[at]
      <4>1. /\ OrderOf["rowmax"] > OrderOf["sync1"] /\ OrderOf["pubmax"] > OrderOf["sync2"]
            /\ OrderOf["getmax"] > OrderOf["sync3"] /\ OrderOf["pubsum"] > OrderOf["sync4"]
            /\ OrderOf["getsum"] > OrderOf["sync5"]
        BY DEF OrderOf
      <4> QED BY <2>4, <4>1, AllPoints DEF BlockStep
    <3>2. next' = next
      BY <3>1 DEF Sync
    <3>3. /\ \A a \in Threads : pc[h][a] = at
          /\ \A a \in Threads : pc'[h][a] = to
          /\ \A g \in Heads \ {h} : pc'[g] = pc[g]
          /\ pc' \in [Heads -> [Threads -> Points]]
      BY <2>a, <3>1, BlockMoves
    <3>4. <<0, 0>> \in Threads
      BY GridAssumption DEF Threads, Warps, Lanes
    <3> QED BY <2>a, <3>1, <3>2, <3>3, <3>4, MovesOn
  <2> QED BY <2>1, <2>2, <2>3, <2>4 DEF Next
<1> QED BY <1>1, SpecInv, PTL DEF Spec
=============================================================================
