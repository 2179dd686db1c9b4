---------------------------- MODULE MatVecProofs ----------------------------
(***************************************************************************)
(* Proofs about MatVec, for every number of rows, columns and vectors, and *)
(* every size of block: the kernels compute the dot products of the        *)
(* reference.                                                              *)
(***************************************************************************)
EXTENDS MatVec, FiniteSetTheorems, TLAPS

\* Who takes element k of block blk of a row: the lane, and its part of the block.
LaneOf(blk, k) ==
  IF Kernel = "MatVecQ4K" THEN k \div 8 ELSE IF Kernel = "MatVecQ6K" THEN k % 32 ELSE blk % 32
PartOf(k) ==
  IF Kernel = "MatVecQ4_0" THEN <<k % 16, k \div 16>>
  ELSE IF Kernel = "MatVecQ4K" THEN <<k % 8, 0>>
  ELSE IF Kernel = "MatVecQ6K" THEN <<k \div 128, (k % 128) \div 32>>
  ELSE <<0, 0>>

\* The weight of the reference, in the block at byte p.
RefWeight(p, k) ==
  IF Kernel = "MatVecQ4_0" THEN CPU!Q4_0(p, k)
  ELSE IF Kernel = "MatVecQ4K" THEN CPU!Q4_K(p, k)
  ELSE IF Kernel = "MatVecQ6K" THEN CPU!Q6_K(p, k)
  ELSE CPU!Weight(<<>>, <<p>>, 0, <<>>)

Kernels == {"MatVecF32", "MatVecF16", "MatVecQ4_0", "MatVecQ4K", "MatVecQ6K"}

\* A launched matrix: its kernel knows the layout of its file format.
LEMMA KernelLayout ==
  ASSUME call \in Calls, Takes
  PROVE  /\ call.rows \in Nat /\ call.cols \in Nat /\ call.batch \in Nat
         /\ BlockCols = CPU!BlockSize(call.typ) /\ BlockBytes = CPU!TypeSize(call.typ)
         /\ BlockCols \in {1, 32, 256} /\ BlockBytes \in {1, 18, 144, 210}
         /\ NumBlocks \in Nat /\ call.cols = NumBlocks * BlockCols
         /\ CPU!Defined(call) /\ CPU!RowSize(call.typ, call.cols) = NumBlocks * BlockBytes
         /\ Kernel \in Kernels
<1>1. call.rows \in Nat /\ call.cols \in Nat /\ call.batch \in Nat
  BY CallsAssumption
<1>2. /\ BlockCols = CPU!BlockSize(call.typ) /\ BlockBytes = CPU!TypeSize(call.typ)
      /\ BlockCols \in {1, 32, 256} /\ BlockBytes \in {1, 18, 144, 210}
      /\ call.typ \in CPU!Plain \cup CPU!Quantized /\ Kernel \in Kernels
  BY DEF Takes, Kernel, Kernels, BlockCols, BlockBytes, CPU!BlockSize, CPU!TypeSize, CPU!Plain, CPU!Quantized
<1>3. call.cols % BlockCols = 0
  BY <1>2 DEF Takes
<1>4. NumBlocks \in Nat /\ call.cols = NumBlocks * BlockCols
  BY <1>1, <1>2, <1>3 DEF NumBlocks
<1> QED BY <1>1, <1>2, <1>3, <1>4 DEF CPU!Defined, CPU!RowSize, NumBlocks

\* An offset that an int32 holds is what it is.
LEMMA I32IsExact ==
  ASSUME NEW v \in Int, 0 <= v, v <= MaxInt32
  PROVE  I32(v) = v
<1>1. MaxInt32 \in Nat
  BY CallsAssumption
<1> DEFINE m == 2 * (MaxInt32 + 1)
           u == v + MaxInt32 + 1
<1>2. m \in Nat /\ m > 0 /\ u \in Nat /\ u < m
  BY <1>1
<1>3. u % m = u
  <2> HIDE DEF m, u
  <2> QED BY <1>2
<1> QED BY <1>1, <1>3 DEF I32

\* Two places of one array of rows of n are the same row and the same column.
LEMMA RowMajor ==
  ASSUME NEW n \in Nat, NEW a \in Nat, NEW c \in Nat,
         NEW i \in 0 .. n - 1, NEW j \in 0 .. n - 1, a * n + i = c * n + j
  PROVE  a = c /\ i = j
<1>1. \A p, q \in Nat : p < q => p * n + n <= q * n
  <2> SUFFICES ASSUME NEW p \in Nat, NEW q \in Nat, p < q PROVE p * n + n <= q * n
    OBVIOUS
  <2> DEFINE k == q - p - 1
  <2>1. k \in Nat /\ q = p + 1 + k
    OBVIOUS
  <2>2. q * n = p * n + n + k * n /\ k * n \in Nat
    BY <2>1
  <2> QED BY <2>2
<1>2. a * n \in Nat /\ c * n \in Nat
  OBVIOUS
<1>3. ~(a < c) /\ ~(c < a)
  BY <1>1, <1>2
<1> QED BY <1>3

\* A block of a row of the matrix lies in the matrix.
LEMMA BlockInside ==
  ASSUME NEW rows \in Nat, NEW n \in Nat, NEW size \in Nat,
         NEW r \in 0 .. rows - 1, NEW blk \in 0 .. n - 1
  PROVE  /\ (r * n + blk) * size \in Nat
         /\ (r * n + blk) * size + size <= rows * (n * size)
         /\ (r * n + blk) * size = r * (n * size) + blk * size
<1> DEFINE s == n * size
           k == rows - r - 1
           l == n - blk - 1
<1>1. k \in Nat /\ rows = r + 1 + k /\ l \in Nat /\ n = blk + 1 + l
  OBVIOUS
<1>2. s \in Nat /\ r * s \in Nat /\ k * s \in Nat /\ blk * size \in Nat /\ l * size \in Nat
  OBVIOUS
<1>3. s = blk * size + size + l * size
  BY <1>1
<1>4. rows * s = r * s + s + k * s
  BY <1>1, <1>2
<1>5. (r * n + blk) * size = r * s + blk * size
  OBVIOUS
<1> HIDE DEF s, k, l
<1> QED BY <1>2, <1>3, <1>4, <1>5 DEF s

\* What a lane takes.
LEMMA TakenAre ==
  \A t : t \in Taken <=>
    \E lane \in Lanes : \E blk \in Blocks(lane), part \in Parts : t = <<lane, blk, part>>
BY DEF Taken

\* Places of a matrix that fits are offsets of an int32.
LEMMA OffsetsExact ==
  ASSUME call \in Calls, Takes, CPU!Fits(call),
         NEW r \in 0 .. call.rows - 1, NEW blk \in 0 .. NumBlocks - 1
  PROVE  \E p \in Nat :
           /\ p = (r * NumBlocks + blk) * BlockBytes
           /\ p = r * CPU!RowSize(call.typ, call.cols) + blk * CPU!TypeSize(call.typ)
           /\ \A o \in 0 .. BlockBytes - 1 : I32(p + o) = p + o
<1> DEFINE p == (r * NumBlocks + blk) * BlockBytes
<1>1. /\ call.rows \in Nat /\ NumBlocks \in Nat /\ BlockBytes \in Nat /\ MaxInt32 \in Nat
      /\ CPU!RowSize(call.typ, call.cols) = NumBlocks * BlockBytes
      /\ BlockBytes = CPU!TypeSize(call.typ)
  BY KernelLayout, CallsAssumption
<1>2. /\ p \in Nat /\ p + BlockBytes <= call.rows * (NumBlocks * BlockBytes)
      /\ p = r * (NumBlocks * BlockBytes) + blk * BlockBytes
  BY <1>1, BlockInside
<1>3. call.rows * (NumBlocks * BlockBytes) <= MaxInt32 + 1
  BY <1>1 DEF CPU!Fits
<1> HIDE DEF p
<1>4. ASSUME NEW o \in 0 .. BlockBytes - 1 PROVE I32(p + o) = p + o
  <2>1. call.rows * (NumBlocks * BlockBytes) \in Nat
    BY <1>1
  <2>2. p + o \in Int /\ 0 <= p + o /\ p + o <= MaxInt32
    BY <1>1, <1>2, <1>3, <2>1
  <2> QED BY <2>2, I32IsExact
<1> QED BY <1>1, <1>2, <1>4 DEF p

-----------------------------------------------------------------------------
(* Kernel by kernel: who takes an element takes it with the weight of the   *)
(* reference, and whatever a lane takes is such an element.                 *)

\* The term of element k is the lane's of LaneOf, at place k of the block.
TermRight(blk, k) ==
  /\ LaneOf(blk, k) \in Lanes /\ blk \in Blocks(LaneOf(blk, k)) /\ PartOf(k) \in Parts
  /\ \A p \in Nat : (\A o \in 0 .. BlockBytes - 1 : I32(p + o) = p + o)
       => Lane(p, LaneOf(blk, k), PartOf(k)) = [at |-> k, w |-> RefWeight(p, k)]

OnlyElements ==
  \A lane \in Lanes : \A blk \in Blocks(lane), part \in Parts :
    /\ blk \in 0 .. NumBlocks - 1
    /\ \E k \in 0 .. BlockCols - 1 : lane = LaneOf(blk, k) /\ part = PartOf(k)

Right == (\A blk \in 0 .. NumBlocks - 1, k \in 0 .. BlockCols - 1 : TermRight(blk, k)) /\ OnlyElements

LEMMA PlainRight ==
  ASSUME NumBlocks \in Nat, Kernel \in {"MatVecF32", "MatVecF16"}
  PROVE  Right
<1>1. /\ BlockCols = 1 /\ BlockBytes = 1 /\ Parts = {0} \X {0}
      /\ \A lane : Blocks(lane) = Strided(lane, NumBlocks)
      /\ \A p, lane, part : Lane(p, lane, part) = [at |-> 0, w |-> CPU!Weight(<<>>, <<I32(p)>>, 0, <<>>)]
      /\ \A blk, k : LaneOf(blk, k) = blk % 32 /\ PartOf(k) = <<0, 0>>
      /\ \A p, k : RefWeight(p, k) = CPU!Weight(<<>>, <<p>>, 0, <<>>)
  BY DEF BlockCols, BlockBytes, Parts, Blocks, Lane, LaneOf, PartOf, RefWeight
<1>2. ASSUME NEW blk \in 0 .. NumBlocks - 1, NEW k \in 0 .. BlockCols - 1 PROVE TermRight(blk, k)
  <2>1. k = 0 /\ blk % 32 \in Lanes /\ blk \in Strided(blk % 32, NumBlocks)
    BY <1>1 DEF Lanes, Strided
  <2>2. ASSUME NEW p \in Nat, \A o \in 0 .. BlockBytes - 1 : I32(p + o) = p + o
        PROVE  Lane(p, LaneOf(blk, k), PartOf(k)) = [at |-> k, w |-> RefWeight(p, k)]
    <3>1. I32(p + 0) = p + 0 /\ p + 0 = p
      BY <1>1, <2>2
    <3>2. Lane(p, LaneOf(blk, k), PartOf(k)) = [at |-> 0, w |-> CPU!Weight(<<>>, <<I32(p)>>, 0, <<>>)]
      BY <1>1
    <3>3. RefWeight(p, k) = CPU!Weight(<<>>, <<p>>, 0, <<>>)
      BY <1>1
    <3> QED BY <2>1, <3>1, <3>2, <3>3
  <2>3. LaneOf(blk, k) = blk % 32 /\ PartOf(k) = <<0, 0>> /\ Blocks(blk % 32) = Strided(blk % 32, NumBlocks)
    BY <1>1
  <2>4. PartOf(k) \in Parts
    BY <1>1, <2>3
  <2> QED BY <2>1, <2>2, <2>3, <2>4 DEF TermRight
<1>3. OnlyElements
  BY <1>1 DEF OnlyElements, Strided, Lanes
<1> QED BY <1>2, <1>3 DEF Right

\* Blocks stride over the lanes; byte j holds elements j and j+16.
LEMMA Q4_0Right ==
  ASSUME NumBlocks \in Nat, Kernel = "MatVecQ4_0"
  PROVE  Right
<1>1. /\ BlockCols = 32 /\ BlockBytes = 18 /\ Parts = (0 .. 15) \X {0, 1}
      /\ \A lane : Blocks(lane) = Strided(lane, NumBlocks)
      /\ \A p, lane, part : Lane(p, lane, part) = LaneQ4_0(p, part[1], part[2])
  BY DEF BlockCols, BlockBytes, Parts, Blocks, Lane
<1>2. \A blk, k : LaneOf(blk, k) = blk % 32 /\ PartOf(k) = <<k % 16, k \div 16>>
  BY DEF LaneOf, PartOf
<1>3. ASSUME NEW blk \in 0 .. NumBlocks - 1, NEW k \in 0 .. BlockCols - 1 PROVE TermRight(blk, k)
  <2> DEFINE j == k % 16
             h == k \div 16
  <2>1. k \in 0 .. 31 /\ j \in 0 .. 15 /\ h \in {0, 1} /\ k = j + 16 * h /\ (k < 16 <=> h = 0)
    BY <1>1
  <2>2. blk % 32 \in Lanes /\ blk \in Strided(blk % 32, NumBlocks)
    BY DEF Lanes, Strided
  <2>3. PartOf(k) = <<j, h>> /\ PartOf(k) \in Parts
    BY <1>1, <1>2, <2>1
  <2>4. ASSUME NEW p \in Nat, \A o \in 0 .. BlockBytes - 1 : I32(p + o) = p + o
        PROVE  Lane(p, LaneOf(blk, k), PartOf(k)) = [at |-> k, w |-> RefWeight(p, k)]
    <3>1. I32(p) = p /\ I32(p + 2 + j) = p + 2 + j
      <4> HIDE DEF j
      <4>1. /\ 0 \in 0 .. BlockBytes - 1 /\ 2 + j \in 0 .. BlockBytes - 1
            /\ p + 0 = p /\ p + (2 + j) = p + 2 + j
        BY <1>1, <2>1
      <4> QED BY <2>4, <4>1
    <3>2. Lane(p, LaneOf(blk, k), PartOf(k)) = LaneQ4_0(p, j, h)
      BY <1>1, <2>3
    <3>3. RefWeight(p, k) = CPU!Q4_0(p, k)
      BY DEF RefWeight
    <3>4. LaneQ4_0(p, j, h) = [at |-> k, w |-> CPU!Q4_0(p, k)]
      <4> HIDE DEF j, h
      <4>1. CASE h = 0
        BY <2>1, <3>1, <4>1 DEF LaneQ4_0, CPU!Q4_0, CPU!Weight, CPU!Bits, CPU!Low4
      <4>2. CASE h = 1
        BY <2>1, <3>1, <4>2 DEF LaneQ4_0, CPU!Q4_0, CPU!Weight, CPU!Bits, CPU!High4
      <4> QED BY <2>1, <4>1, <4>2
    <3> QED BY <3>2, <3>3, <3>4
  <2>5. LaneOf(blk, k) = blk % 32 /\ Blocks(blk % 32) = Strided(blk % 32, NumBlocks)
    BY <1>1, <1>2
  <2> QED BY <2>2, <2>3, <2>4, <2>5 DEF TermRight
<1>4. ASSUME NEW lane \in Lanes, NEW blk \in Blocks(lane), NEW part \in Parts
      PROVE  /\ blk \in 0 .. NumBlocks - 1
             /\ \E k \in 0 .. BlockCols - 1 : lane = LaneOf(blk, k) /\ part = PartOf(k)
  <2>1. blk \in 0 .. NumBlocks - 1 /\ lane = blk % 32
    BY <1>1 DEF Strided
  <2>2. PICK j \in 0 .. 15, h \in {0, 1} : part = <<j, h>>
    BY <1>1
  <2>3. j + 16 * h \in 0 .. BlockCols - 1 /\ (j + 16 * h) % 16 = j /\ (j + 16 * h) \div 16 = h
    BY <1>1
  <2> QED BY <1>2, <2>1, <2>2, <2>3
<1> QED BY <1>3, <1>4 DEF Right, OnlyElements

\* Lane l has elements 8l to 8l+7 of every block: one nibble of eight bytes.
LEMMA Q4_KRight ==
  ASSUME NumBlocks \in Nat, Kernel = "MatVecQ4K"
  PROVE  Right
<1>1. /\ BlockCols = 256 /\ BlockBytes = 144 /\ Parts = (0 .. 7) \X {0}
      /\ \A lane : Blocks(lane) = 0 .. NumBlocks - 1
      /\ \A p, lane, part : Lane(p, lane, part) = LaneQ4_K(p, lane, part[1])
  BY DEF BlockCols, BlockBytes, Parts, Blocks, Lane
<1>2. \A blk, k : LaneOf(blk, k) = k \div 8 /\ PartOf(k) = <<k % 8, 0>>
  BY DEF LaneOf, PartOf
<1>3. ASSUME NEW blk \in 0 .. NumBlocks - 1, NEW k \in 0 .. BlockCols - 1 PROVE TermRight(blk, k)
  <2> DEFINE lane  == k \div 8
             i     == k % 8
             chunk == lane \div 8
             sub   == lane % 8
             high  == sub \div 4
             j     == 2 * chunk + high
             q     == 16 + chunk * 32 + (sub % 4) * 8 + i
  <2>1. k \in 0 .. 255 /\ lane \in 0 .. 31 /\ i \in 0 .. 7 /\ k = lane * 8 + i
    BY <1>1
  <2>2. /\ chunk = k \div 64 /\ high = (k % 64) \div 32 /\ high \in {0, 1}
        /\ q = 16 + chunk * 32 + (k % 32) /\ q \in 0 .. 143 /\ j \in 0 .. 7
    BY <2>1
  <2>3. ASSUME NEW p \in Nat, \A o \in 0 .. BlockBytes - 1 : I32(p + o) = p + o
        PROVE  Lane(p, LaneOf(blk, k), PartOf(k)) = [at |-> k, w |-> RefWeight(p, k)]
    <3> HIDE DEF j, q, high
    <3>1. I32(p) = p /\ I32(p + 2) = p + 2 /\ I32(p + q) = p + q
      <4>1. 0 \in 0 .. BlockBytes - 1 /\ 2 \in 0 .. BlockBytes - 1 /\ q \in 0 .. BlockBytes - 1 /\ p + 0 = p
        BY <1>1, <2>2
      <4> QED BY <2>3, <4>1
    <3>2. ScaleQ4K(p + 4, j) = CPU!ScaleQ4K(p + 4, j) /\ MinQ4K(p + 4, j) = CPU!MinQ4K(p + 4, j)
      <4>1. ASSUME NEW o \in 0 .. 143, NEW a \in Int, a = p + o PROVE I32(a) = a
        <5>1. o \in 0 .. BlockBytes - 1
          BY <1>1
        <5> QED BY <2>3, <4>1, <5>1
      <4>2. CASE j < 4
        <5>1. I32(p + 4 + j) = p + 4 + j /\ I32(p + 4 + j + 4) = p + 4 + j + 4
          <6>1. p + 4 + j = p + (4 + j) /\ 4 + j \in 0 .. 143 /\ p + 4 + j + 4 = p + (8 + j) /\ 8 + j \in 0 .. 143
            BY <2>2
          <6> QED BY <2>2, <4>1, <6>1
        <5> QED BY <4>2, <5>1 DEF ScaleQ4K, MinQ4K, CPU!ScaleQ4K, CPU!MinQ4K
      <4>3. CASE ~(j < 4)
        <5>1. /\ I32(p + 4 + j + 4) = p + 4 + j + 4 /\ I32(p + 4 + j - 4) = p + 4 + j - 4
              /\ I32(p + 4 + j) = p + 4 + j
          <6>1. /\ p + 4 + j + 4 = p + (8 + j) /\ 8 + j \in 0 .. 143
                /\ p + 4 + j - 4 = p + j /\ j \in 0 .. 143
                /\ p + 4 + j = p + (4 + j) /\ 4 + j \in 0 .. 143
            BY <2>2
          <6>2. p + 4 + j + 4 \in Int /\ p + 4 + j - 4 \in Int /\ p + 4 + j \in Int
            BY <2>2
          <6> QED BY <4>1, <6>1, <6>2
        <5> QED BY <4>3, <5>1
            DEF ScaleQ4K, MinQ4K, CPU!ScaleQ4K, CPU!MinQ4K, CPU!Bits, CPU!Low4, CPU!High4
      <4> QED BY <4>2, <4>3
    <3>3. Lane(p, LaneOf(blk, k), PartOf(k)) = LaneQ4_K(p, lane, i)
      BY <1>1, <1>2
    <3>4. LaneQ4_K(p, lane, i) =
            [at |-> lane * 8 + i,
             w  |-> CPU!Weight(<<p, CPU!ScaleQ4K(p + 4, j)>>, <<CPU!Bits(p + q, high * 4, 4)>>, 0,
                               <<p + 2, CPU!MinQ4K(p + 4, j)>>)]
      <4>1. I32(p + 16 + chunk * 32 + (sub % 4) * 8 + i) = p + q
        <5>1. p + 16 + chunk * 32 + (sub % 4) * 8 + i = p + q
          BY <2>1 DEF q
        <5> QED BY <3>1, <5>1
      <4> HIDE DEF lane, i
      <4> QED BY <3>1, <3>2, <4>1 DEF LaneQ4_K, j, high
    <3>5. RefWeight(p, k) =
            CPU!Weight(<<p, CPU!ScaleQ4K(p + 4, j)>>, <<CPU!Bits(p + q, high * 4, 4)>>, 0,
                       <<p + 2, CPU!MinQ4K(p + 4, j)>>)
      <4>1. RefWeight(p, k) = CPU!Q4_K(p, k)
        BY DEF RefWeight
      <4>2. p + 16 + (k \div 64) * 32 + (k % 32) = p + q
        BY <2>2
      <4>3. 2 * (k \div 64) + ((k % 64) \div 32) = j
        BY <2>2 DEF j
      <4>4. (IF high = 0 THEN CPU!Low4(p + q) ELSE CPU!High4(p + q)) = CPU!Bits(p + q, high * 4, 4)
        BY <2>2 DEF CPU!Low4, CPU!High4
      <4> QED BY <2>2, <4>1, <4>2, <4>3, <4>4 DEF CPU!Q4_K
    <3> QED BY <2>1, <3>3, <3>4, <3>5
  <2>4. LaneOf(blk, k) \in Lanes /\ blk \in Blocks(LaneOf(blk, k)) /\ PartOf(k) \in Parts
    <3>1. LaneOf(blk, k) = lane /\ PartOf(k) = <<i, 0>>
      BY <1>2
    <3>2. Blocks(LaneOf(blk, k)) = 0 .. NumBlocks - 1
      BY <1>1
    <3>3. lane \in Lanes /\ <<i, 0>> \in (0 .. 7) \X {0}
      BY <2>1 DEF Lanes
    <3>4. PartOf(k) \in Parts
      BY <1>1, <3>1, <3>3
    <3> QED BY <3>1, <3>2, <3>3, <3>4
  <2> QED BY <2>3, <2>4 DEF TermRight
<1>4. ASSUME NEW lane \in Lanes, NEW blk \in Blocks(lane), NEW part \in Parts
      PROVE  /\ blk \in 0 .. NumBlocks - 1
             /\ \E k \in 0 .. BlockCols - 1 : lane = LaneOf(blk, k) /\ part = PartOf(k)
  <2>1. PICK i \in 0 .. 7 : part = <<i, 0>>
    BY <1>1
  <2>2. lane * 8 + i \in 0 .. BlockCols - 1 /\ (lane * 8 + i) \div 8 = lane /\ (lane * 8 + i) % 8 = i
    BY <1>1 DEF Lanes
  <2> QED BY <1>1, <1>2, <2>1, <2>2
<1> QED BY <1>3, <1>4 DEF Right, OnlyElements

\* Lane l has l, l+32, l+64 and l+96 of both halves of every block.
LEMMA Q6_KRight ==
  ASSUME NumBlocks \in Nat, Kernel = "MatVecQ6K"
  PROVE  Right
<1>1. /\ BlockCols = 256 /\ BlockBytes = 210 /\ Parts = {0, 1} \X (0 .. 3)
      /\ \A lane : Blocks(lane) = 0 .. NumBlocks - 1
      /\ \A p, lane, part : Lane(p, lane, part) = LaneQ6_K(p, lane, part[1], part[2])
  BY DEF BlockCols, BlockBytes, Parts, Blocks, Lane
<1>2. \A blk, k : LaneOf(blk, k) = k % 32 /\ PartOf(k) = <<k \div 128, (k % 128) \div 32>>
  BY DEF LaneOf, PartOf
<1>3. ASSUME NEW blk \in 0 .. NumBlocks - 1, NEW k \in 0 .. BlockCols - 1 PROVE TermRight(blk, k)
  <2> DEFINE lane == k % 32
             c    == k \div 128
             q    == (k % 128) \div 32
             ql   == c * 64 + lane + 32 * (q % 2)
             qh   == 128 + c * 32 + lane
             sc   == 192 + c * 8 + lane \div 16 + 2 * q
  <2>1. /\ k \in 0 .. 255 /\ lane \in 0 .. 31 /\ c \in {0, 1} /\ q \in 0 .. 3
        /\ k = c * 128 + lane + 32 * q
    BY <1>1
  <2>2. ql \in 0 .. 209 /\ qh \in 0 .. 209 /\ sc \in 0 .. 209
    BY <2>1
  <2>3. LaneOf(blk, k) = lane /\ PartOf(k) = <<c, q>>
    BY <1>2
  <2>4. ASSUME NEW p \in Nat, \A o \in 0 .. BlockBytes - 1 : I32(p + o) = p + o
        PROVE  Lane(p, LaneOf(blk, k), PartOf(k)) = [at |-> k, w |-> RefWeight(p, k)]
    <3> DEFINE w == CPU!Weight(<<p + 208, <<CPU!Bits(p + sc, 0, 8)>>>>,
                               <<CPU!Bits(p + ql, 4 * (q \div 2), 4), CPU!Bits(p + qh, 2 * q, 2)>>, 32, <<>>)
    <3>1. ASSUME NEW o \in 0 .. 209, NEW a \in Int, a = p + o PROVE I32(a) = a
      <4>1. o \in 0 .. BlockBytes - 1
        BY <1>1
      <4> QED BY <2>4, <3>1, <4>1
    <3>2. Lane(p, LaneOf(blk, k), PartOf(k)) = LaneQ6_K(p, lane, c, q)
      BY <1>1, <2>3
    <3>3. LaneQ6_K(p, lane, c, q) = [at |-> k, w |-> w]
      <4>1. /\ p + c * 64 + lane + 32 * (q % 2) = p + ql /\ p + ql \in Int
            /\ p + 128 + c * 32 + lane = p + qh /\ p + qh \in Int
            /\ p + 192 + c * 8 + lane \div 16 + 2 * q = p + sc /\ p + sc \in Int
            /\ p + 208 \in Int /\ 208 \in 0 .. 209
        BY <2>1
      <4>2. I32(p + ql) = p + ql /\ I32(p + qh) = p + qh /\ I32(p + sc) = p + sc /\ I32(p + 208) = p + 208
        <5> HIDE DEF ql, qh, sc
        <5> QED BY <2>2, <3>1, <4>1
      <4> HIDE DEF lane, c, q, ql, qh, sc
      <4> QED BY <2>1, <4>1, <4>2 DEF LaneQ6_K
    <3>4. RefWeight(p, k) = w
      <4>1. RefWeight(p, k) = CPU!Q6_K(p, k)
        BY DEF RefWeight
      <4>2. p + (k \div 128) * 64 + (k % 32) + (IF q \in {1, 3} THEN 32 ELSE 0) = p + ql
        <5> HIDE DEF lane, c, q
        <5>1. /\ q = 0 => q % 2 = 0
              /\ q = 1 => q % 2 = 1
              /\ q = 2 => q % 2 = 0
              /\ q = 3 => q % 2 = 1
          OBVIOUS
        <5>2. p + c * 64 + lane + (IF q \in {1, 3} THEN 32 ELSE 0) = p + ql
          BY <2>1, <5>1
        <5> QED BY <5>2 DEF lane, c
      <4>3. p + 128 + (k \div 128) * 32 + (k % 32) = p + qh
        BY <2>1
      <4>4. p + 192 + (k \div 128) * 8 + ((k % 32) \div 16) + 2 * q = p + sc
        BY <2>1
      <4>5. (IF q < 2 THEN CPU!Low4(p + ql) ELSE CPU!High4(p + ql)) = CPU!Bits(p + ql, 4 * (q \div 2), 4)
        <5> HIDE DEF lane, c, q, ql
        <5>1. q \div 2 = IF q < 2 THEN 0 ELSE 1
          BY <2>1
        <5> QED BY <2>1, <5>1 DEF CPU!Low4, CPU!High4
      <4> HIDE DEF ql, qh, sc
      <4> QED BY <4>1, <4>2, <4>3, <4>4, <4>5 DEF CPU!Q6_K
    <3> QED BY <3>2, <3>3, <3>4
  <2>5. LaneOf(blk, k) \in Lanes /\ blk \in Blocks(LaneOf(blk, k)) /\ PartOf(k) \in Parts
    <3>1. Blocks(LaneOf(blk, k)) = 0 .. NumBlocks - 1
      BY <1>1
    <3>2. lane \in Lanes /\ <<c, q>> \in {0, 1} \X (0 .. 3)
      BY <2>1 DEF Lanes
    <3>3. PartOf(k) \in Parts
      BY <1>1, <2>3, <3>2
    <3> QED BY <2>3, <3>1, <3>2, <3>3
  <2> QED BY <2>4, <2>5 DEF TermRight
<1>4. ASSUME NEW lane \in Lanes, NEW blk \in Blocks(lane), NEW part \in Parts
      PROVE  /\ blk \in 0 .. NumBlocks - 1
             /\ \E k \in 0 .. BlockCols - 1 : lane = LaneOf(blk, k) /\ part = PartOf(k)
  <2>1. PICK c \in {0, 1}, q \in 0 .. 3 : part = <<c, q>>
    BY <1>1
  <2> DEFINE k == c * 128 + lane + 32 * q
  <2>2. k \in 0 .. BlockCols - 1 /\ k % 32 = lane /\ k \div 128 = c /\ (k % 128) \div 32 = q
    BY <1>1 DEF Lanes
  <2> HIDE DEF k
  <2> QED BY <1>1, <1>2, <2>1, <2>2
<1> QED BY <1>3, <1>4 DEF Right, OnlyElements

LEMMA AllRight == ASSUME call \in Calls, Takes PROVE Right
BY KernelLayout, PlainRight, Q4_0Right, Q4_KRight, Q6_KRight DEF Kernels

-----------------------------------------------------------------------------
(* The sum of a warp.                                                       *)

\* What takes column c of a row.
Taker(c) == <<LaneOf(c \div BlockCols, c % BlockCols), c \div BlockCols, PartOf(c % BlockCols)>>

\* A column is an element of a block.
LEMMA ColumnOf ==
  ASSUME call \in Calls, Takes
  PROVE  /\ \A c \in 0 .. call.cols - 1 :
              /\ c \div BlockCols \in 0 .. NumBlocks - 1 /\ c % BlockCols \in 0 .. BlockCols - 1
              /\ c = (c \div BlockCols) * BlockCols + (c % BlockCols)
         /\ \A blk \in 0 .. NumBlocks - 1, k \in 0 .. BlockCols - 1 :
              /\ blk * BlockCols + k \in 0 .. call.cols - 1
              /\ (blk * BlockCols + k) \div BlockCols = blk /\ (blk * BlockCols + k) % BlockCols = k
<1>1. NumBlocks \in Nat /\ call.cols = NumBlocks * BlockCols /\ BlockCols \in {1, 32, 256}
  BY KernelLayout
<1>2. CASE BlockCols = 1
  BY <1>1, <1>2
<1>3. CASE BlockCols = 32
  BY <1>1, <1>3
<1>4. CASE BlockCols = 256
  BY <1>1, <1>4
<1> QED BY <1>1, <1>2, <1>3, <1>4

\* Every column is taken once: Taker is a bijection.
LEMMA TakenOnce ==
  ASSUME call \in Calls, Takes, CPU!Fits(call), NEW r \in 0 .. call.rows - 1
  PROVE  /\ \A c \in 0 .. call.cols - 1 : Taker(c) \in Taken
         /\ \A t \in Taken : \E c \in 0 .. call.cols - 1 : t = Taker(c)
         /\ \A c, d \in 0 .. call.cols - 1 : Taker(c) = Taker(d) => c = d
<1> DEFINE Blk(c) == c \div BlockCols
           El(c)  == c % BlockCols
<1>1. ASSUME NEW c \in 0 .. call.cols - 1
      PROVE  Blk(c) \in 0 .. NumBlocks - 1 /\ El(c) \in 0 .. BlockCols - 1 /\ c = Blk(c) * BlockCols + El(c)
  BY ColumnOf
<1>2. ASSUME NEW c \in 0 .. call.cols - 1 PROVE TermRight(Blk(c), El(c))
  <2> HIDE DEF Blk, El
  <2> QED BY <1>1, AllRight DEF Right
<1>3. ASSUME NEW c \in 0 .. call.cols - 1 PROVE Taker(c) \in Taken
  BY <1>2, TakenAre DEF TermRight, Taker
<1>4. ASSUME NEW t \in Taken PROVE \E c \in 0 .. call.cols - 1 : t = Taker(c)
  <2>1. PICK lane \in Lanes : \E b \in Blocks(lane), q \in Parts : t = <<lane, b, q>>
    BY TakenAre
  <2>2. PICK blk \in Blocks(lane), part \in Parts : t = <<lane, blk, part>>
    BY <2>1
  <2>3. blk \in 0 .. NumBlocks - 1
    BY AllRight DEF Right, OnlyElements
  <2>4. PICK k \in 0 .. BlockCols - 1 : lane = LaneOf(blk, k) /\ part = PartOf(k)
    BY AllRight DEF Right, OnlyElements
  <2>5. /\ blk * BlockCols + k \in 0 .. call.cols - 1
        /\ (blk * BlockCols + k) \div BlockCols = blk /\ (blk * BlockCols + k) % BlockCols = k
    BY <2>3, ColumnOf
  <2>6. t = Taker(blk * BlockCols + k)
    BY <2>2, <2>4, <2>5, Zenon DEF Taker
  <2> QED BY <2>5, <2>6, Zenon
<1>5. ASSUME NEW c \in 0 .. call.cols - 1, NEW d \in 0 .. call.cols - 1, Taker(c) = Taker(d) PROVE c = d
  <2>1. Blk(c) = Blk(d) /\ LaneOf(Blk(c), El(c)) = LaneOf(Blk(d), El(d)) /\ PartOf(El(c)) = PartOf(El(d))
    BY <1>5 DEF Taker
  <2> HIDE DEF Blk, El
  <2>2. PICK p \in Nat : \A o \in 0 .. BlockBytes - 1 : I32(p + o) = p + o
    BY <1>1, OffsetsExact
  <2>3. /\ Lane(p, LaneOf(Blk(c), El(c)), PartOf(El(c))).at = El(c)
        /\ Lane(p, LaneOf(Blk(d), El(d)), PartOf(El(d))).at = El(d)
    BY <1>2, <2>2 DEF TermRight
  <2>4. El(c) = El(d)
    BY <2>1, <2>3
  <2> QED BY <1>1, <2>1, <2>4
<1> QED BY <1>3, <1>4, <1>5

\* What a column's taker adds is the reference's term.
LEMMA TermIsReference ==
  ASSUME call \in Calls, Takes, CPU!Fits(call),
         NEW b \in 0 .. call.batch - 1, NEW r \in 0 .. call.rows - 1, NEW c \in 0 .. call.cols - 1
  PROVE  Term(b, r, Taker(c)[1], Taker(c)[2], Taker(c)[3])
           = [x |-> b * call.cols + c, w |-> CPU!WeightAt(call.typ, call.cols, r, c)]
<1> DEFINE blk  == c \div BlockCols
           k    == c % BlockCols
           lane == LaneOf(blk, k)
           part == PartOf(k)
<1>1. blk \in 0 .. NumBlocks - 1 /\ k \in 0 .. BlockCols - 1 /\ c = blk * BlockCols + k
  BY ColumnOf
<1>2. TermRight(blk, k)
  <2> HIDE DEF blk, k
  <2> QED BY <1>1, AllRight DEF Right
<1>3. PICK p \in Nat :
        /\ p = (r * NumBlocks + blk) * BlockBytes
        /\ p = r * CPU!RowSize(call.typ, call.cols) + blk * CPU!TypeSize(call.typ)
        /\ \A o \in 0 .. BlockBytes - 1 : I32(p + o) = p + o
  <2> HIDE DEF blk, k
  <2> QED BY <1>1, OffsetsExact
<1>4. Lane(p, lane, part) = [at |-> k, w |-> RefWeight(p, k)]
  BY <1>2, <1>3 DEF TermRight
<1>5. I32(b * call.cols + blk * BlockCols + k) = b * call.cols + c
  <2> HIDE DEF blk, k
  <2>1. /\ call.cols \in Nat /\ call.batch \in Nat /\ MaxInt32 \in Nat
        /\ call.batch * call.cols <= MaxInt32 + 1 /\ BlockCols \in Nat
    BY KernelLayout, CallsAssumption DEF CPU!Fits
  <2>2. (b * call.cols + c) * 1 \in Nat /\ (b * call.cols + c) * 1 + 1 <= call.batch * (call.cols * 1)
    BY <2>1, BlockInside
  <2>3. b * call.cols + c \in Nat /\ b * call.cols + c <= MaxInt32
    <3>1. b * call.cols \in Nat /\ call.batch * call.cols \in Nat /\ call.cols * 1 = call.cols
      BY <2>1
    <3> QED BY <2>1, <2>2, <3>1
  <2>4. b * call.cols + blk * BlockCols + k = b * call.cols + c
    <3>1. b * call.cols \in Int /\ blk * BlockCols \in Int /\ k \in Int
      BY <1>1, <2>1
    <3> QED BY <1>1, <3>1
  <2> QED BY <2>3, <2>4, I32IsExact
<1>6. RefWeight(p, k) = CPU!WeightAt(call.typ, call.cols, r, c)
  <2>1. BlockCols = CPU!BlockSize(call.typ) /\ Kernel \in Kernels
    BY KernelLayout
  <2>2. CPU!WeightAt(call.typ, call.cols, r, c) =
          CASE call.typ \in CPU!Plain -> CPU!Weight(<<>>, <<p>>, 0, <<>>)
            [] call.typ = "Q4_0"   -> CPU!Q4_0(p, k)
            [] call.typ = "Q4_K"   -> CPU!Q4_K(p, k)
            [] call.typ = "Q6_K"   -> CPU!Q6_K(p, k)
    BY <1>3, <2>1, Zenon DEF CPU!WeightAt
  <2> HIDE DEF k
  <2>3. \/ call.typ = "F32" /\ Kernel = "MatVecF32"
        \/ call.typ = "F16" /\ Kernel = "MatVecF16"
        \/ call.typ = "Q4_0" /\ Kernel = "MatVecQ4_0"
        \/ call.typ = "Q4_K" /\ Kernel = "MatVecQ4K"
        \/ call.typ = "Q6_K" /\ Kernel = "MatVecQ6K"
    BY Zenon DEF Takes, Kernel
  <2> QED BY <2>2, <2>3, Zenon DEF RefWeight, CPU!Plain
<1>7. Taker(c) = <<lane, blk, part>>
  BY DEF Taker
<1> HIDE DEF blk, k, lane, part
<1> QED BY <1>3, <1>4, <1>5, <1>6, <1>7 DEF Term

\* A warp adds up the dot product of its row and its vector.
LEMMA SumIsDot ==
  ASSUME call \in Calls, Takes, CPU!Fits(call),
         NEW b \in 0 .. call.batch - 1, NEW r \in 0 .. call.rows - 1
  PROVE  WarpSum(b, r) = CPU!Dot(call, b, r)
<1> DEFINE cols == 0 .. call.cols - 1
           f    == [c \in cols |-> Taker(c)]
<1>1. call.cols \in Nat
  BY KernelLayout
<1>2. Cardinality(Taken) = call.cols
  <2>1. IsFiniteSet(cols) /\ Cardinality(cols) = call.cols
    <3>1. 0 \in Int /\ call.cols - 1 \in Int
      BY <1>1
    <3>2. IsFiniteSet(cols) /\ Cardinality(cols) = IF 0 > call.cols - 1 THEN 0 ELSE (call.cols - 1) - 0 + 1
      BY <3>1, FS_Interval
    <3> QED BY <1>1, <3>2
  <2>2. f \in Bijection(cols, Taken)
    BY TakenOnce DEF Bijection, Injection, Surjection, IsInjective
  <2>3. ExistsBijection(cols, Taken)
    BY <2>2 DEF ExistsBijection
  <2> QED BY <2>1, <2>3, FS_Bijection
<1> DEFINE T(t) == Term(b, r, t[1], t[2], t[3])
           R(c) == [x |-> b * call.cols + c, w |-> CPU!WeightAt(call.typ, call.cols, r, c)]
<1>3. {T(t) : t \in Taken} = {R(c) : c \in cols}
  <2>1. ASSUME NEW c \in cols PROVE Taker(c) \in Taken /\ T(Taker(c)) = R(c)
    BY TakenOnce, TermIsReference
  <2>2. ASSUME NEW t \in Taken PROVE \E c \in cols : t = Taker(c)
    BY TakenOnce
  <2> HIDE DEF T, R, cols
  <2>3. \A t \in Taken : \E c \in cols : T(t) = R(c)
    BY <2>1, <2>2
  <2>4. \A c \in cols : \E t \in Taken : T(t) = R(c)
    BY <2>1
  <2> QED BY <2>3, <2>4
<1> QED BY <1>2, <1>3 DEF WarpSum, CPU!Dot

-----------------------------------------------------------------------------
(* The state.                                                               *)

\* What has been written is what the warps that returned wrote: each element
\* of y is the row of one of them.
Written ==
  /\ status # "launched" => done = {} /\ DOMAIN y = {}
  /\ status = "launched" => Takes
  /\ CPU!Fits(call) =>
       \A i \in DOMAIN y : \E g \in done : Row(g) < call.rows /\ i = g[2] * call.rows + Row(g)

IInv == TypeOK /\ Written

\* A warp's row and its vector: an element of y, of an offset that is exact.
LEMMA ElementOf ==
  ASSUME call \in Calls, NEW g \in Warps, Row(g) < call.rows
  PROVE  /\ g[2] \in 0 .. call.batch - 1 /\ Row(g) \in 0 .. call.rows - 1
         /\ g[2] * call.rows + Row(g) \in 0 .. call.batch * call.rows - 1
         /\ CPU!Fits(call) => I32(g[2] * call.rows + Row(g)) = g[2] * call.rows + Row(g)
<1>1. call.rows \in Nat /\ call.batch \in Nat /\ MaxInt32 \in Nat /\ WarpsPerBlock \in Nat \ {0}
  BY CallsAssumption, WarpsAssumption
<1>2. GridX \in Nat
  BY <1>1 DEF GridX
<1>3. PICK x \in 0 .. GridX - 1, b \in 0 .. call.batch - 1, w \in 0 .. WarpsPerBlock - 1 : g = <<x, b, w>>
  BY DEF Warps
<1>4. g[1] = x /\ g[2] = b /\ g[3] = w
  BY <1>3
<1>5. Row(g) \in Nat
  <2>1. x \in Nat /\ w \in Nat /\ x * WarpsPerBlock \in Nat
    BY <1>1, <1>2
  <2> QED BY <1>4, <2>1 DEF Row
<1>6. b \in 0 .. call.batch - 1 /\ Row(g) \in 0 .. call.rows - 1
  BY <1>1, <1>5
<1>7. (b * call.rows + Row(g)) * 1 \in Nat /\ (b * call.rows + Row(g)) * 1 + 1 <= call.batch * (call.rows * 1)
  BY <1>1, <1>6, BlockInside
<1> DEFINE i == b * call.rows + Row(g)
<1>8. i \in Nat /\ i + 1 <= call.batch * call.rows /\ call.batch * call.rows \in Nat
  <2>1. i \in Nat /\ call.rows * 1 = call.rows /\ call.batch * call.rows \in Nat
    BY <1>1, <1>6
  <2> HIDE DEF i
  <2>2. i * 1 = i
    BY <2>1
  <2> QED BY <1>7, <2>1, <2>2 DEF i
<1>9. CPU!Fits(call) => call.batch * call.rows <= MaxInt32 + 1
  BY DEF CPU!Fits
<1> HIDE DEF i
<1>10. i \in 0 .. call.batch * call.rows - 1 /\ (CPU!Fits(call) => i <= MaxInt32)
  BY <1>1, <1>8, <1>9
<1>11. CPU!Fits(call) => I32(i) = i
  BY <1>8, <1>10, I32IsExact
<1> QED BY <1>4, <1>6, <1>10, <1>11 DEF i

\* No two warps have the same element.
LEMMA OneWarpEach ==
  ASSUME call \in Calls, NEW g \in Warps, NEW h \in Warps, Row(g) < call.rows, Row(h) < call.rows,
         g[2] * call.rows + Row(g) = h[2] * call.rows + Row(h)
  PROVE  g = h
<1>1. call.rows \in Nat /\ call.batch \in Nat /\ WarpsPerBlock \in Nat \ {0}
  BY CallsAssumption, WarpsAssumption
<1>2. g[2] \in Nat /\ h[2] \in Nat /\ Row(g) \in 0 .. call.rows - 1 /\ Row(h) \in 0 .. call.rows - 1
  BY <1>1, ElementOf
<1>3. g[2] = h[2] /\ Row(g) = Row(h)
  <2> DEFINE n == call.rows
             a == g[2]
             c == h[2]
             i == Row(g)
             j == Row(h)
  <2>1. n \in Nat /\ a \in Nat /\ c \in Nat /\ i \in 0 .. n - 1 /\ j \in 0 .. n - 1 /\ a * n + i = c * n + j
    BY <1>1, <1>2
  <2> HIDE DEF n, a, c, i, j
  <2>2. a = c /\ i = j
    BY <2>1, RowMajor
  <2> QED BY <2>2 DEF a, c, i, j
<1>4. GridX \in Nat
  BY <1>1 DEF GridX
<1>5. /\ g = <<g[1], g[2], g[3]>> /\ g[1] \in Nat /\ g[3] \in 0 .. WarpsPerBlock - 1
      /\ h = <<h[1], h[2], h[3]>> /\ h[1] \in Nat /\ h[3] \in 0 .. WarpsPerBlock - 1
  BY <1>1, <1>4 DEF Warps
<1>6. g[1] = h[1] /\ g[3] = h[3]
  BY <1>1, <1>3, <1>5, RowMajor DEF Row
<1> QED BY <1>3, <1>5, <1>6

\* What is worked out of the arguments stays as it is.
LEMMA SameCall ==
  ASSUME call' = call
  PROVE  (Takes' <=> Takes) /\ Warps' = Warps /\ (CPU!Fits(call)' <=> CPU!Fits(call))
BY Zenon DEF Takes, Kernel, Warps, GridX, CPU!Fits

LEMMA InitInv == ASSUME Init PROVE IInv
BY DEF Init, IInv, TypeOK, Written

\* The warp that writes writes an element that nobody wrote, with its dot product.
LEMMA WriteRowStep ==
  ASSUME IInv, NEW g \in Warps, Warp(g), WriteRow(g)
  PROVE  /\ IInv'
         /\ CPU!Fits(call) => CPU!WriteElement(g[2], Row(g))
<1> DEFINE i == g[2] * call.rows + Row(g)
<1>1. /\ call \in Calls /\ status = "launched" /\ Takes /\ Row(g) < call.rows
      /\ done' = done \cup {g} /\ g \notin done /\ done \subseteq Warps
      /\ call' = call /\ status' = status /\ y' = CPU!Put(I32(i), WarpSum(g[2], Row(g)))
  BY DEF IInv, TypeOK, Written, Warp, WriteRow
<1>2. /\ g[2] \in 0 .. call.batch - 1 /\ Row(g) \in 0 .. call.rows - 1
      /\ i \in 0 .. call.batch * call.rows - 1
      /\ CPU!Fits(call) => I32(i) = i
  BY <1>1, ElementOf
<1>3. DOMAIN y' = DOMAIN y \cup {I32(i)}
  BY <1>1 DEF CPU!Put
<1>4. ASSUME CPU!Fits(call) PROVE i \notin DOMAIN y
  <2> SUFFICES ASSUME i \in DOMAIN y PROVE FALSE
    OBVIOUS
  <2>1. PICK h \in done : Row(h) < call.rows /\ i = h[2] * call.rows + Row(h)
    BY <1>4 DEF IInv, Written
  <2>2. h = g
    BY <1>1, <2>1, OneWarpEach
  <2> QED BY <1>1, <2>2
<1>5. TypeOK'
  BY <1>1, <1>2, <1>3, SameCall DEF IInv, TypeOK
<1>6. Written'
  <2>1. status' = "launched" /\ Takes'
    BY <1>1, SameCall
  <2>2. ASSUME CPU!Fits(call)', NEW k \in DOMAIN y'
        PROVE  \E h \in done' : Row(h)' < call.rows' /\ k = h[2] * call.rows' + Row(h)'
    <3>1. CPU!Fits(call) /\ call' = call /\ \A h : Row(h)' = Row(h)
      BY <1>1, <2>2, SameCall DEF Row
    <3>2. CASE k \in DOMAIN y
      BY <1>1, <3>1, <3>2 DEF IInv, Written
    <3>3. CASE k \notin DOMAIN y
      <4>1. k = i
        BY <1>2, <1>3, <3>1, <3>3
      <4> QED BY <1>1, <3>1, <4>1
    <3> QED BY <3>2, <3>3
  <2> QED BY <2>1, <2>2 DEF Written
<1>7. CPU!Fits(call) => CPU!WriteElement(g[2], Row(g))
  <2>1. CPU!Defined(call)
    BY <1>1, KernelLayout
  <2>2. CPU!Fits(call) => WarpSum(g[2], Row(g)) = CPU!Dot(call, g[2], Row(g))
    BY <1>1, <1>2, SumIsDot
  <2>3. ASSUME CPU!Fits(call) PROVE y' = CPU!Put(i, CPU!Dot(call, g[2], Row(g)))
    BY <1>1, <1>2, <2>2, <2>3, Zenon
  <2> QED BY <1>4, <2>1, <2>3 DEF CPU!WriteElement
<1> QED BY <1>5, <1>6, <1>7 DEF IInv

\* Every step keeps the invariant, and is one of the reference or none.
LEMMA StepInv ==
  ASSUME IInv, [Next]_vars
  PROVE  IInv' /\ [CPU!Next]_<<call, y>>
<1>1. CASE Launch
  <2>1. call' = call /\ done' = done /\ y' = y /\ status = "called"
        /\ status' = IF Takes THEN "launched" ELSE "refused"
    BY <1>1 DEF Launch
  <2>2. TypeOK' /\ Written'
    BY <2>1, SameCall DEF IInv, TypeOK, Written
  <2> QED BY <2>1, <2>2 DEF IInv
<1>2. ASSUME NEW g \in Warps, Warp(g) PROVE IInv' /\ [CPU!Next]_<<call, y>>
  <2>1. CASE Spare(g)
    <3>1. call' = call /\ status' = status /\ done' = done \cup {g} /\ y' = y /\ status = "launched"
      BY <1>2, <2>1 DEF Warp, Spare
    <3>2. TypeOK' /\ Written'
      BY <3>1, SameCall DEF IInv, TypeOK, Written, Row
    <3> QED BY <3>1, <3>2 DEF IInv
  <2>2. CASE WriteRow(g)
    <3>1. IInv' /\ (CPU!Fits(call) => CPU!WriteElement(g[2], Row(g)))
      BY <1>2, <2>2, WriteRowStep
    <3>2. g[2] \in 0 .. call.batch - 1 /\ Row(g) \in 0 .. call.rows - 1 /\ call' = call
      BY <1>2, <2>2, ElementOf DEF Warp, WriteRow, IInv, TypeOK
    <3> QED BY <3>1, <3>2 DEF CPU!Next
  <2> QED BY <1>2, <2>1, <2>2 DEF Warp
<1>3. CASE UNCHANGED vars
  BY <1>3, SameCall DEF vars, IInv, TypeOK, Written, Row
<1> QED BY <1>1, <1>2, <1>3 DEF Next, RunWarp

THEOREM Invariance == Spec => []IInv
BY InitInv, StepInv, PTL DEF Spec

\* No warp writes outside y, whatever the last block of rows holds, as long as
\* int32 offsets reach the whole matrix.
THEOREM TypeCorrect == Spec => []TypeOK
BY Invariance, PTL DEF IInv

\* Every format's kernel computes the dot products of the reference, each
\* element once, for every matrix whose offsets an int32 holds.
THEOREM Implemented == Spec => Implements
<1>1. Init => CPU!Init
  BY DEF Init, CPU!Init
<1>2. IInv /\ [Next]_vars => [CPU!Next]_<<call, y>>
  BY StepInv
<1> QED BY <1>1, <1>2, Invariance, PTL DEF Spec, Implements, CPU!Spec

-----------------------------------------------------------------------------
(* Every element is written.                                               *)

\* Quotient and remainder.
LEMMA Division ==
  ASSUME NEW a \in Nat, NEW n \in Nat \ {0}
  PROVE  \E q \in Nat, r \in 0 .. n - 1 : a = q * n + r /\ a \div n = q
<1>1. a \div n \in Nat /\ a % n \in 0 .. n - 1 /\ a = (a \div n) * n + (a % n)
  OBVIOUS
<1> QED BY <1>1, Zenon

\* The grid has a warp for every row and vector.
LEMMA WarpOf ==
  ASSUME call \in Calls, NEW k \in 0 .. call.batch * call.rows - 1
  PROVE  \E g \in Warps : Row(g) < call.rows /\ k = g[2] * call.rows + Row(g)
<1> DEFINE W == WarpsPerBlock
           n == call.rows
           m == call.batch
           top == n + W - 1
<1>1. n \in Nat /\ m \in Nat /\ W \in Nat \ {0} /\ top \in Nat /\ k \in 0 .. m * n - 1
  BY CallsAssumption, WarpsAssumption
<1>2. GridX = top \div W
  BY DEF GridX
<1> HIDE DEF W, n, m, top
<1>3. n \in Nat \ {0} /\ m * n \in Nat /\ k \in Nat /\ k < m * n
  <2>1. m * n \in Nat
    BY <1>1
  <2>2. m * 0 = 0
    BY <1>1
  <2> QED BY <1>1, <2>1, <2>2
<1>4. PICK b \in Nat, r \in 0 .. n - 1 : k = b * n + r
  BY <1>3, Division, Zenon
<1>5. PICK x \in Nat, w \in 0 .. W - 1 : r = x * W + w
  <2>1. r \in Nat /\ W \in Nat \ {0}
    BY <1>1, <1>3
  <2> QED BY <2>1, Division, Zenon
<1>6. PICK X \in Nat, e \in 0 .. W - 1 : top = X * W + e /\ top \div W = X
  BY <1>1, Division, Zenon
<1>7. b < m
  <2> SUFFICES ASSUME b >= m PROVE FALSE
    BY <1>1
  <2>1. PICK d \in Nat : b = m + d
    <3>1. b - m \in Nat /\ b = m + (b - m)
      BY <1>1
    <3> QED BY <3>1
  <2>2. b * n = m * n + d * n /\ d * n \in Nat
    BY <1>1, <2>1
  <2> QED BY <1>3, <1>4, <2>2
<1>8. x < X
  <2> SUFFICES ASSUME x >= X PROVE FALSE
    OBVIOUS
  <2>1. PICK d \in Nat : x = X + d
    <3>1. x - X \in Nat /\ x = X + (x - X)
      OBVIOUS
    <3> QED BY <3>1
  <2>2. x * W = X * W + d * W /\ d * W \in Nat /\ X * W \in Nat
    BY <1>1, <2>1
  <2> QED BY <1>1, <1>5, <1>6, <2>2 DEF top
<1>9. <<x, b, w>> \in Warps
  <2>1. x \in 0 .. GridX - 1 /\ b \in 0 .. m - 1
    BY <1>1, <1>2, <1>6, <1>7, <1>8
  <2> QED BY <2>1 DEF Warps, m, W
<1>10. Row(<<x, b, w>>) = r
  BY <1>5 DEF Row, W
<1> QED BY <1>1, <1>4, <1>9, <1>10 DEF n

\* A warp that has returned has written its element, when it has one.
Reached ==
  CPU!Fits(call) => \A g \in done : Row(g) < call.rows => g[2] * call.rows + Row(g) \in DOMAIN y

\* Every step keeps that.
LEMMA StepReached == IInv /\ Reached /\ [Next]_vars => Reached'
<1> SUFFICES ASSUME IInv, Reached, [Next]_vars PROVE Reached'
  OBVIOUS
<1>1. CASE Launch
  BY <1>1, SameCall DEF Launch, Reached, Row
<1>2. ASSUME NEW g \in Warps, Warp(g) PROVE Reached'
  <2>1. call' = call /\ done' = done \cup {g} /\ call \in Calls
    BY <1>2 DEF Warp, IInv, TypeOK
  <2>2. SUFFICES ASSUME CPU!Fits(call), NEW h \in done', Row(h) < call.rows
                 PROVE  h[2] * call.rows + Row(h) \in DOMAIN y'
    BY <2>1, SameCall DEF Reached, Row
  <2>3. CASE Spare(g)
    <3>1. y' = y /\ h # g
      <4>1. Row(g) >= call.rows /\ y' = y
        BY <2>3 DEF Spare
      <4>2. call.rows \in Nat /\ WarpsPerBlock \in Nat \ {0}
        BY <2>1, CallsAssumption, WarpsAssumption
      <4>3. GridX \in Nat
        BY <4>2 DEF GridX
      <4>4. g[1] \in Nat /\ g[3] \in Nat
        BY <4>2, <4>3 DEF Warps
      <4>5. Row(g) \in Nat
        BY <4>2, <4>4 DEF Row
      <4> QED BY <2>2, <4>1, <4>2, <4>5
    <3> QED BY <2>1, <2>2, <3>1 DEF Reached
  <2>4. CASE WriteRow(g)
    <3>1. Row(g) < call.rows /\ y' = CPU!Put(I32(g[2] * call.rows + Row(g)), WarpSum(g[2], Row(g)))
      BY <2>4 DEF WriteRow
    <3>2. I32(g[2] * call.rows + Row(g)) = g[2] * call.rows + Row(g)
      BY <2>1, <2>2, <3>1, ElementOf
    <3>3. DOMAIN y' = DOMAIN y \cup {g[2] * call.rows + Row(g)}
      BY <3>1, <3>2 DEF CPU!Put
    <3> QED BY <2>1, <2>2, <3>3 DEF Reached
  <2> QED BY <1>2, <2>3, <2>4 DEF Warp
<1>3. CASE UNCHANGED vars
  BY <1>3, SameCall DEF vars, Reached, Row
<1> QED BY <1>1, <1>2, <1>3 DEF Next, RunWarp

\* A launch whose warps have all returned has written every element of every
\* vector, for every number of rows and of warps in a block, as long as int32
\* offsets reach the whole matrix.
THEOREM AlwaysComplete == Spec => []Complete
<1>1. Init => Reached
  BY DEF Init, Reached
<1>2. IInv /\ Reached => Complete
  <2> SUFFICES ASSUME IInv, Reached, status = "launched", done = Warps, CPU!Fits(call)
               PROVE  DOMAIN y = 0 .. call.batch * call.rows - 1
    BY DEF Complete
  <2>1. call \in Calls /\ DOMAIN y \subseteq 0 .. call.batch * call.rows - 1
    BY DEF IInv, TypeOK
  <2>2. ASSUME NEW k \in 0 .. call.batch * call.rows - 1 PROVE k \in DOMAIN y
    <3>1. PICK g \in Warps : Row(g) < call.rows /\ k = g[2] * call.rows + Row(g)
      BY <2>1, WarpOf
    <3> QED BY <3>1 DEF Reached
  <2> QED BY <2>1, <2>2
<1> QED BY <1>1, <1>2, StepReached, Invariance, PTL DEF Spec
=============================================================================
