----------------------------- MODULE DotProduct -----------------------------
(***************************************************************************)
(* What a matrix-vector product promises: each element of y is written     *)
(* once, with the dot product of its row and its vector.  The dot product  *)
(* is that of cpu.MatVecF16, MatVecF32 and MatVecQ, whose weights are what *)
(* quant.Dequantize decodes from the bytes of the file.                    *)
(*                                                                         *)
(* A sum is known by the terms that were added and by how many there were. *)
(* A term is an element of x and a weight; a weight is known by the bits   *)
(* it is decoded from, as the places of its factors in the matrix.         *)
(***************************************************************************)
EXTENDS Integers

CONSTANTS
  Calls,       \* matrices and batches: [typ, rows, cols, batch]
  MaxInt32     \* largest int32 (2^31 - 1)

VARIABLES
  call,
  y            \* the elements written so far, each with its sum

-----------------------------------------------------------------------------
(* gguf's Type                                                             *)

Plain     == {"F32", "F16"}
Quantized == {"Q4_0", "Q4_K", "Q6_K"}

BlockSize(typ) == CASE typ \in Plain -> 1 [] typ \in {"Q4_0", "Q8_0"} -> 32 [] OTHER -> 256
TypeSize(typ)  ==
  CASE typ \in Plain -> 1 [] typ = "Q4_0" -> 18 [] typ = "Q8_0" -> 34 [] typ = "Q4_K" -> 144 [] OTHER -> 210

\* The elements of a plain matrix are counted whole, the others in bytes.
RowSize(typ, cols) == (cols \div BlockSize(typ)) * TypeSize(typ)

-----------------------------------------------------------------------------
(* Bit fields.  b >> shift & (2^bits - 1), and fields joined with |.       *)

Bits(byte, shift, bits) == [byte |-> byte, shift |-> shift, bits |-> bits]
Low4(byte)  == Bits(byte, 0, 4)
High4(byte) == Bits(byte, 4, 4)

\* scale * (quant - less) - min
Weight(scale, quant, less, min) == [scale |-> scale, quant |-> quant, less |-> less, min |-> min]

\* ScaleMinQ4K: the 6-bit scale and min of sub-block j of the 12 bytes at s
ScaleQ4K(s, j) == IF j < 4 THEN <<Bits(s + j, 0, 6)>> ELSE <<Low4(s + j + 4), Bits(s + j - 4, 6, 2)>>
MinQ4K(s, j)   == IF j < 4 THEN <<Bits(s + j + 4, 0, 6)>> ELSE <<High4(s + j + 4), Bits(s + j, 6, 2)>>

-----------------------------------------------------------------------------
(* quant.Dequantize: element k of the block at byte p                      *)

Q4_0(p, k) == Weight(<<p>>, <<IF k < 16 THEN Low4(p + 2 + k) ELSE High4(p + 2 + k - 16)>>, 8, <<>>)

\* chunks of 64: the low nibbles of 32 bytes, then the high ones
Q4_K(p, k) ==
  LET chunk == k \div 64
      q     == p + 16 + chunk * 32 + (k % 32)
      high  == (k % 64) \div 32
  IN  Weight(<<p, ScaleQ4K(p + 4, 2 * chunk + high)>>, <<IF high = 0 THEN Low4(q) ELSE High4(q)>>, 0,
             <<p + 2, MinQ4K(p + 4, 2 * chunk + high)>>)

\* halves of 128: q1 .. q4 are 32 elements each
Q6_K(p, k) ==
  LET half == k \div 128
      qn   == (k % 128) \div 32
      l    == k % 32
      ql   == p + half * 64 + l + (IF qn \in {1, 3} THEN 32 ELSE 0)
      qh   == p + 128 + half * 32 + l
  IN  Weight(<<p + 208, <<Bits(p + 192 + half * 8 + (l \div 16) + 2 * qn, 0, 8)>>>>,
             <<IF qn < 2 THEN Low4(ql) ELSE High4(ql), Bits(qh, 2 * qn, 2)>>, 32, <<>>)

\* quant.Row: row r begins at r*RowBytes; its blocks follow one another.
WeightAt(typ, cols, r, c) ==
  LET p == r * RowSize(typ, cols) + (c \div BlockSize(typ)) * TypeSize(typ)
      k == c % BlockSize(typ)
  IN  CASE typ \in Plain  -> Weight(<<>>, <<p>>, 0, <<>>)
        [] typ = "Q4_0"   -> Q4_0(p, k)
        [] typ = "Q4_K"   -> Q4_K(p, k)
        [] typ = "Q6_K"   -> Q6_K(p, k)

\* y[b*rows+r]: row r with x[b*cols:], one term for each column.
Dot(m, b, r) ==
  [terms |-> {[x |-> b * m.cols + c, w |-> WeightAt(m.typ, m.cols, r, c)] : c \in 0 .. m.cols - 1},
   added |-> m.cols]

-----------------------------------------------------------------------------
(* The kernels count in int32 and the reference in int64: the promise is    *)
(* made for matrices and vectors whose offsets an int32 can hold.           *)

Fits(m) ==
  /\ m.rows * RowSize(m.typ, m.cols) <= MaxInt32 + 1
  /\ m.batch * m.cols <= MaxInt32 + 1
  /\ m.batch * m.rows <= MaxInt32 + 1

\* Dequantize refuses a row that is no whole number of blocks.
Defined(m) == m.typ \in Plain \cup Quantized /\ m.cols % BlockSize(m.typ) = 0

\* y.Set(i, sum)
Put(i, sum) == [k \in DOMAIN y \cup {i} |-> IF k = i THEN sum ELSE y[k]]

Init == call \in Calls /\ y = [i \in {} |-> 0]

WriteElement(b, r) ==
  /\ Defined(call)
  /\ b * call.rows + r \notin DOMAIN y
  /\ y' = Put(b * call.rows + r, Dot(call, b, r))

Next ==
  /\ Fits(call) => \E b \in 0 .. call.batch - 1, r \in 0 .. call.rows - 1 : WriteElement(b, r)
  /\ UNCHANGED call

Spec == Init /\ [][Next]_<<call, y>>
=============================================================================
