------------------------------- MODULE MatVec -------------------------------
(***************************************************************************)
(* Matrix-vector products on the device (kernels/matvec.go, quantmv.go) and *)
(* the wrappers that launch them (backend/gpu, model's Linear): one warp    *)
(* per row and vector, whose lanes take terms of the dot product each in a  *)
(* way of its own for every format, and add them up with shuffles.          *)
(*                                                                          *)
(* Until its shuffles a lane reads w and x, which the launch does not write, *)
(* and no warp reads another's memory: a warp is one step.  The shuffles of  *)
(* warpSum are those of module AttnDecode.                                   *)
(***************************************************************************)
EXTENDS Integers, FiniteSets

CONSTANTS
  Calls,         \* what is multiplied: [typ, rows, cols, batch]
  MaxInt32,      \* largest int32 (2^31 - 1)
  WarpsPerBlock  \* BlockSize / 32 (8)

VARIABLES
  call,        \* the arguments, fixed
  status,      \* of the launch: "called", "launched" or "refused"
  done,        \* warps that have returned: <<BlockIdxX, BlockIdxY, warp>>
  y            \* the elements written so far, each with its sum

vars == <<call, status, done, y>>

CPU == INSTANCE DotProduct

ASSUME WarpsAssumption == WarpsPerBlock \in Nat \ {0}

\* A Linear is uploaded with rows and columns that the file counts.
ASSUME CallsAssumption ==
  /\ MaxInt32 \in Nat
  /\ \A m \in Calls : m.rows \in Nat /\ m.cols \in Nat /\ m.batch \in Nat

Lanes == 0 .. 31

\* Signed arithmetic of 32 bits: a sum of products wraps as a whole.
I32(v) == ((v + MaxInt32 + 1) % (2 * (MaxInt32 + 1))) - (MaxInt32 + 1)

Init == call \in Calls /\ status = "called" /\ done = {} /\ y = [i \in {} |-> 0]

-----------------------------------------------------------------------------
(* Launching.                                                              *)

\* Linear.MatVec by the buffer that uploadLinear filled, MatVecQ by the type.
Kernel ==
  CASE call.typ = "F32"  -> "MatVecF32"
    [] call.typ = "F16"  -> "MatVecF16"
    [] call.typ = "Q4_0" -> "MatVecQ4_0"
    [] call.typ = "Q4_K" -> "MatVecQ4K"
    [] call.typ = "Q6_K" -> "MatVecQ6K"
    [] OTHER             -> "none"

\* A row with a block that is not whole has the others computed.
TakesRagged == Kernel # "none"

\* MatVecQ: no matvec kernel, or cols%BlockSize != 0
Takes == Kernel # "none" /\ call.cols % CPU!BlockSize(call.typ) = 0

Launch ==
  /\ status = "called"
  /\ status' = IF Takes THEN "launched" ELSE "refused"
  /\ UNCHANGED <<call, done, y>>

\* Rounding down leaves the last rows out.
GridXDown == call.rows \div WarpsPerBlock

\* warpRowCfg: (rows + rowsPerBlock - 1) / rowsPerBlock
GridX == (call.rows + WarpsPerBlock - 1) \div WarpsPerBlock

Warps == (0 .. GridX - 1) \X (0 .. call.batch - 1) \X (0 .. WarpsPerBlock - 1)

-----------------------------------------------------------------------------
(* The kernels: the steps of a lane, and the term that each adds.          *)

\* for i := lane; i < n; i += 32
Strided(lane, n) == {i \in 0 .. n - 1 : i % 32 = lane}

\* nb = cols/32, cols/256; the bytes of a block.  A plain element is its own block.
BlockCols  == CASE Kernel = "MatVecQ4_0" -> 32 [] Kernel \in {"MatVecQ4K", "MatVecQ6K"} -> 256 [] OTHER -> 1
BlockBytes == CASE Kernel = "MatVecQ4_0" -> 18 [] Kernel = "MatVecQ4K" -> 144 [] Kernel = "MatVecQ6K" -> 210
                [] OTHER -> 1
NumBlocks  == call.cols \div BlockCols

\* The blocks of a row that a lane takes a part of.
Blocks(lane) == IF Kernel \in {"MatVecQ4K", "MatVecQ6K"} THEN 0 .. NumBlocks - 1 ELSE Strided(lane, NumBlocks)

\* The terms of a block that a lane takes: [step, part of the step].
Parts ==
  CASE Kernel = "MatVecQ4_0" -> (0 .. 15) \X {0, 1}
    [] Kernel = "MatVecQ4K"  -> (0 .. 7) \X {0}
    [] Kernel = "MatVecQ6K"  -> {0, 1} \X (0 .. 3)
    [] OTHER                 -> {0} \X {0}

\* Low and high nibbles of a byte are neighbours.
PairsQ4_0(p, j, high) == [at |-> 2 * j + high,
  w |-> CPU!Weight(<<I32(p)>>, <<CPU!Bits(I32(p + 2 + j), 4 * high, 4)>>, 8, <<>>)]

\* A lane takes whole blocks; its terms of byte j are at xo+j and xo+j+16.
LaneQ4_0(p, j, high) ==
  [at |-> j + 16 * high,
   w  |-> CPU!Weight(<<I32(p)>>, <<CPU!Bits(I32(p + 2 + j), 4 * high, 4)>>, 8, <<>>)]

\* scaleQ4K, minQ4K
ScaleQ4K(s, j) ==
  IF j < 4 THEN <<CPU!Bits(I32(s + j), 0, 6)>>
  ELSE <<CPU!Bits(I32(s + j + 4), 0, 4), CPU!Bits(I32(s + j - 4), 6, 2)>>
MinQ4K(s, j) ==
  IF j < 4 THEN <<CPU!Bits(I32(s + j + 4), 0, 6)>>
  ELSE <<CPU!Bits(I32(s + j + 4), 4, 4), CPU!Bits(I32(s + j), 6, 2)>>

\* A lane takes eight elements, half a nibble row of one sub-block.
LaneQ4_K(p, lane, i) ==
  LET chunk == lane \div 8
      sub   == lane % 8
      j     == 2 * chunk + sub \div 4
  IN  [at |-> lane * 8 + i,
       w  |-> CPU!Weight(<<I32(p), ScaleQ4K(p + 4, j)>>,
                         <<CPU!Bits(I32(p + 16 + chunk * 32 + (sub % 4) * 8 + i), (sub \div 4) * 4, 4)>>, 0,
                         <<I32(p + 2), MinQ4K(p + 4, j)>>)]

\* A lane takes l, l+32, l+64 and l+96 of each half: q1 .. q4.
LaneQ6_K(p, lane, c, q) ==
  LET ql == p + c * 64 + lane
      qh == p + 128 + c * 32 + lane
      sc == p + 192 + c * 8 + lane \div 16
  IN  [at |-> c * 128 + lane + 32 * q,
       w  |-> CPU!Weight(<<I32(p + 208), <<CPU!Bits(I32(sc + 2 * q), 0, 8)>>>>,
                         <<CPU!Bits(I32(ql + 32 * (q % 2)), 4 * (q \div 2), 4), CPU!Bits(I32(qh), 2 * q, 2)>>, 32, <<>>)]

Lane(p, lane, part) ==
  CASE Kernel = "MatVecQ4_0" -> LaneQ4_0(p, part[1], part[2])
    [] Kernel = "MatVecQ4K"  -> LaneQ4_K(p, lane, part[1])
    [] Kernel = "MatVecQ6K"  -> LaneQ6_K(p, lane, part[1], part[2])
    [] OTHER                 -> [at |-> 0, w |-> CPU!Weight(<<>>, <<I32(p)>>, 0, <<>>)]

\* w.At(wr + ...) and x.At(xb + ...)
Term(b, r, lane, blk, part) ==
  LET t == Lane((r * NumBlocks + blk) * BlockBytes, lane, part)
  IN  [x |-> I32(b * call.cols + blk * BlockCols + t.at), w |-> t.w]

\* What the lanes take: <<lane, block, part>>
Taken == UNION {{lane} \X Blocks(lane) \X Parts : lane \in Lanes}

\* warpSum: every term of every lane
WarpSum(b, r) ==
  [terms |-> {Term(b, r, t[1], t[2], t[3]) : t \in Taken}, added |-> Cardinality(Taken)]

-----------------------------------------------------------------------------
\* r := BlockIdxX*numWarps + ThreadIdxX/32
Row(g) == g[1] * WarpsPerBlock + g[3]

\* if r >= rows: the whole warp returns before its shuffles.
Spare(g) == Row(g) >= call.rows /\ UNCHANGED y

\* if LaneID == 0: y.Set(b*rows+r, acc)
WriteRow(g) ==
  /\ Row(g) < call.rows
  /\ y' = CPU!Put(I32(g[2] * call.rows + Row(g)), WarpSum(g[2], Row(g)))

Warp(g) ==
  /\ status = "launched" /\ g \in Warps \ done
  /\ Spare(g) \/ WriteRow(g)
  /\ done' = done \cup {g}
  /\ UNCHANGED <<call, status>>

RunWarp == \E g \in Warps : Warp(g)

Next == Launch \/ RunWarp

Spec     == Init /\ [][Next]_vars
FairSpec == Spec /\ WF_vars(Launch) /\ WF_vars(RunWarp)

-----------------------------------------------------------------------------
(* Properties                                                              *)

\* No warp writes outside y: not one of the last, partly used, block of rows
\* either.
TypeOK ==
  /\ call \in Calls /\ status \in {"called", "launched", "refused"}
  /\ done \subseteq Warps
  /\ CPU!Fits(call) => DOMAIN y \subseteq 0 .. call.batch * call.rows - 1

\* The kernel writes each element once, with the dot product that the
\* reference computes from the same bytes: every column's weight decoded from
\* the same bits and added once, whatever lane takes it, as long as int32
\* offsets reach the whole matrix.
Implements == CPU!Spec

\* When every warp has returned, every element is written: the grid, which is
\* in blocks of rows, leaves out none of the last rows and no vector.
Complete ==
  status = "launched" /\ done = Warps /\ CPU!Fits(call) => DOMAIN y = 0 .. call.batch * call.rows - 1

\* And every warp returns.
Computes == status = "launched" ~> DOMAIN y = 0 .. call.batch * call.rows - 1
=============================================================================
