-------------------------- MODULE RowKernelsProofs --------------------------
(***************************************************************************)
(* Proofs about RowKernels, for every launch and every size of block.      *)
(***************************************************************************)
EXTENDS RowKernels, FiniteSetTheorems, SequenceTheorems, TLAPS

Kernels == RowKernels \cup Elementwise

\* An element has a row and a column, whatever the kernel; the elements an item
\* writes are neighbours.
RowAt(g, k) == IF call.kernel = "RoPE" THEN g * call.heads + (k \div half)
               ELSE IF IsRow THEN g ELSE 0
ColAt(k)    == IF call.kernel = "RoPE" THEN 2 * (k % half) ELSE k
Wide        == IF call.kernel = "RoPE" THEN 2 ELSE 1

\* Item k of block g: of a 1-D launch it is in one block only.
IsItem(g, k) == g \in Blocks /\ k \in 0 .. Limit - 1 /\ (~IsRow => g = k \div BlockSize)
Owner(g, k)  == <<g, k % BlockSize>>

Outs(g, k) == {<<call.out, Place(g, k) + e>> : e \in 0 .. Wide - 1}

-----------------------------------------------------------------------------
(* Rows and columns.                                                       *)

LEMMA Sizes ==
  ASSUME call \in Calls
  PROVE  /\ BlockSize \in Nat \ {0} /\ call.kernel \in Kernels
         /\ call.rows \in Nat \ {0} /\ call.heads \in Nat \ {0} /\ call.n \in Nat
         /\ half \in Nat /\ Limit \in Nat /\ Grid \in Nat
         /\ 2 * half <= call.n
         /\ {call.in, call.with, call.out} \cap {"pos", "freq"} = {}
         /\ call.kernel # "RoPE" => call.heads = 1
         /\ ~IsRow => call.rows = 1
<1>1. /\ BlockSize \in Nat \ {0} /\ call.kernel \in Kernels
      /\ call.rows \in Nat \ {0} /\ call.heads \in Nat \ {0} /\ call.n \in Nat
      /\ {call.in, call.with, call.out} \cap {"pos", "freq"} = {}
      /\ call.kernel # "RoPE" => call.heads = 1
      /\ ~IsRow => call.rows = 1
  BY CallsAssumption DEF Kernels, IsRow
<1>2. half \in Nat /\ 2 * half <= call.n
  BY <1>1 DEF half
<1>3. call.heads * half \in Nat
  BY <1>1, <1>2
<1>4. Limit \in Nat
  BY <1>1, <1>3 DEF Limit
<1>5. (call.n + BlockSize - 1) \div BlockSize \in Nat
  BY <1>1
<1>6. Grid \in Nat
  BY <1>1, <1>5 DEF Grid
<1> QED BY <1>1, <1>2, <1>4, <1>6

\* Two places of one array of rows of n are the same row and the same column.
LEMMA RowMajor ==
  ASSUME NEW n \in Nat, NEW a \in Nat, NEW c \in Nat,
         NEW x \in 0 .. n - 1, NEW y \in 0 .. n - 1, a * n + x = c * n + y
  PROVE  a = c /\ x = y
<1>1. \A p, q \in Nat : p < q => p * n + n <= q * n
  <2> SUFFICES ASSUME NEW p \in Nat, NEW q \in Nat, p < q PROVE p * n + n <= q * n
    OBVIOUS
  <2> DEFINE k == q - p - 1
  <2>1. k \in Nat /\ q = p + 1 + k
    OBVIOUS
  <2>2. q * n = p * n + n + k * n /\ k * n \in Nat
    BY <2>1
  <2> QED BY <2>2
<1>2. a * n \in Nat /\ c * n \in Nat
  OBVIOUS
<1>3. ~(a < c) /\ ~(c < a)
  BY <1>1, <1>2
<1> QED BY <1>3

\* A column of a row lies in the array.
LEMMA Inside ==
  ASSUME NEW r \in Nat, NEW n \in Nat, NEW a \in 0 .. r - 1, NEW x \in 0 .. n - 1
  PROVE  a * n + x \in 0 .. r * n - 1
<1> DEFINE k == r - a - 1
<1>1. k \in Nat /\ r = a + 1 + k
  OBVIOUS
<1>2. r * n = a * n + n + k * n /\ k * n \in Nat /\ a * n \in Nat
  BY <1>1
<1> HIDE DEF k
<1> QED BY <1>2

\* Quotient and remainder, of an item dealt out in rows of m.
LEMMA Quotient ==
  ASSUME NEW m \in Nat, NEW r \in Nat, NEW k \in 0 .. r * m - 1
  PROVE  /\ k \div m \in 0 .. r - 1 /\ k % m \in 0 .. m - 1
         /\ k = (k \div m) * m + (k % m)
<1>1. m > 0
  <2>1. m = 0 => r * m = 0
    OBVIOUS
  <2> QED BY <2>1
<1> DEFINE q == k \div m
           j == k % m
<1>2. q \in Nat /\ j \in 0 .. m - 1 /\ k = q * m + j
  BY <1>1
<1>3. q < r
  <2> HIDE DEF q, j
  <2> SUFFICES ASSUME q >= r PROVE FALSE
    BY <1>2
  <2> DEFINE d == q - r
  <2>1. d \in Nat /\ q = r + d
    BY <1>2
  <2>2. q * m = r * m + d * m /\ d * m \in Nat /\ r * m \in Nat
    BY <2>1
  <2> QED BY <1>2, <2>2
<1> HIDE DEF q, j
<1>4. q \in 0 .. r - 1
  BY <1>2, <1>3
<1> QED BY <1>2, <1>4 DEF q, j

-----------------------------------------------------------------------------
(* What each kernel reads and writes, case by case.                        *)

LEMMA PlaceIs ==
  ASSUME call.kernel \in Kernels, NEW g, NEW k
  PROVE  /\ call.kernel = "RoPE" =>
              Place(g, k) = g * call.heads * call.n + (k \div half) * call.n + 2 * (k % half)
         /\ call.kernel \in {"RMSNorm", "Softmax"} => Place(g, k) = g * call.n + k
         /\ ~IsRow => Place(g, k) = k
BY Zenon DEF Place, Kernels, RowKernels, Elementwise, IsRow

LEMMA NeedsAre ==
  ASSUME call.kernel \in Kernels, NEW g, NEW p, NEW k
  PROVE  /\ call.kernel = "RoPE" => Needs(g, p, k) =
              << <<call.in, Place(g, k)>>, <<call.in, Place(g, k) + 1>>, <<"pos", g>>, <<"freq", k % half>> >>
         /\ call.kernel = "RMSNorm" /\ p = 1 => Needs(g, p, k) = << <<call.in, Place(g, k)>> >>
         /\ call.kernel = "RMSNorm" /\ p # 1 =>
              Needs(g, p, k) = << <<call.in, Place(g, k)>>, <<call.with, k>> >>
         /\ call.kernel = "Softmax" /\ p = 3 => Needs(g, p, k) = << <<call.out, Place(g, k)>> >>
         /\ call.kernel = "Softmax" /\ p # 3 => Needs(g, p, k) = << <<call.in, Place(g, k)>> >>
         /\ ~IsRow => Needs(g, p, k) = << <<call.in, Place(g, k)>>, <<call.with, Place(g, k)>> >>
BY Zenon DEF Needs, Kernels, RowKernels, Elementwise, IsRow

LEMMA GivesAre ==
  ASSUME call.kernel \in Kernels, NEW g, NEW p, NEW k
  PROVE  /\ call.kernel = "RoPE" => Gives(g, p, k) = {<<call.out, Place(g, k)>>, <<call.out, Place(g, k) + 1>>}
         /\ call.kernel \in {"RMSNorm", "Softmax"} /\ p = 1 => Gives(g, p, k) = {}
         /\ call.kernel \in {"RMSNorm", "Softmax"} /\ p # 1 => Gives(g, p, k) = {<<call.out, Place(g, k)>>}
         /\ ~IsRow => Gives(g, p, k) = {<<call.out, Place(g, k)>>}
BY Zenon DEF Gives, Kernels, RowKernels, Elementwise, IsRow

LEMMA ValueRMSNorm ==
  ASSUME call.kernel = "RMSNorm", NEW g, NEW k, NEW read, NEW results, NEW a
  PROVE  Value(g, k, read, results, a) = <<"norm", read[1], results[1], read[2]>>
BY Zenon DEF Value

LEMMA ValueExp ==
  ASSUME call.kernel = "Softmax", NEW g, NEW k, NEW read, NEW results, Len(results) = 1, NEW a
  PROVE  Value(g, k, read, results, a) = <<"exp", read[1], results[1]>>
BY Zenon DEF Value

LEMMA ValueScaled ==
  ASSUME call.kernel = "Softmax", NEW g, NEW k, NEW read, NEW results, Len(results) # 1, NEW a
  PROVE  Value(g, k, read, results, a) = <<"scaled", read[1], results[2]>>
BY Zenon DEF Value

LEMMA ValueRoPE ==
  ASSUME call.kernel = "RoPE", NEW g, NEW k, NEW read, NEW results, NEW a
  PROVE  Value(g, k, read, results, a) = 
           <<"rotated", a[2] - Place(g, k), read[1], read[2], Theta(read[3], k % half, read[4])>>
BY Zenon DEF Value

LEMMA ValueElement ==
  ASSUME call.kernel \in Elementwise, NEW g, NEW k, NEW read, NEW results, NEW a
  PROVE  Value(g, k, read, results, a) = <<call.kernel, read[1], read[2]>>
BY Zenon DEF Value, Elementwise

LEMMA AddsRMSNorm ==
  ASSUME call.kernel = "RMSNorm", NEW read, NEW results
  PROVE  Adds(1, read, results) = {<<"square", read[1]>>}
BY Zenon DEF Adds

LEMMA AddsSoftmax ==
  ASSUME call.kernel = "Softmax", NEW read, NEW results
  PROVE  /\ Adds(1, read, results) = {<<"max", read[1]>>}
         /\ Adds(2, read, results) = {<<"exp", read[1], results[1]>>}
<1> 1 # 2
  OBVIOUS
<1>1. Adds(1, read, results) = {<<"max", read[1]>>}
  BY Zenon DEF Adds
<1>2. Adds(2, read, results) = {<<"exp", read[1], results[1]>>}
  BY Zenon DEF Adds
<1> QED BY <1>1, <1>2

LEMMA PassesAre ==
  ASSUME call.kernel \in Kernels
  PROVE  /\ call.kernel = "Softmax" => Passes = 3
         /\ call.kernel = "RMSNorm" => Passes = 2
         /\ call.kernel = "RoPE" \/ ~IsRow => Passes = 1
BY Zenon DEF Passes, Kernels, RowKernels, Elementwise, IsRow

LEMMA PassCount == ASSUME call \in Calls PROVE Passes \in {1, 2, 3}
<1>1. call.kernel \in Kernels
  BY Sizes
<1>2. CASE call.kernel \in {"RMSNorm", "Softmax"}
  BY <1>1, <1>2, PassesAre
<1>3. CASE call.kernel = "RoPE" \/ ~IsRow
  BY <1>1, <1>3, PassesAre
<1> QED BY <1>1, <1>2, <1>3 DEF Kernels, IsRow, RowKernels

\* The place of an item is that of its row and column, which are in the array.
LEMMA Placed ==
  ASSUME call \in Calls, NEW g, NEW k, IsItem(g, k)
  PROVE  /\ g \in Nat /\ k \in Nat
         /\ RowAt(g, k) \in 0 .. call.rows * call.heads - 1
         /\ ColAt(k) \in Nat /\ ColAt(k) + Wide <= call.n
         /\ Place(g, k) = RowAt(g, k) * call.n + ColAt(k)
         /\ call.kernel = "RoPE" => k \div half \in 0 .. call.heads - 1 /\ k % half \in 0 .. half - 1
                                     /\ k = (k \div half) * half + (k % half)
<1>1. call.kernel \in Kernels
  BY Sizes
<1>2. g \in 0 .. Grid - 1 /\ k \in 0 .. Limit - 1 /\ (~IsRow => g = k \div BlockSize)
  BY DEF IsItem, Blocks
<1>3. g \in Nat /\ k \in Nat
  BY <1>2, Sizes
<1>4. CASE call.kernel = "RoPE"
  <2> DEFINE q == k \div half
             j == k % half
  <2>1. Limit = call.heads * half /\ Grid = call.rows /\ IsRow
    BY <1>4 DEF Limit, Grid, IsRow, RowKernels
  <2>2. q \in 0 .. call.heads - 1 /\ j \in 0 .. half - 1 /\ k = q * half + j
    BY <1>2, <2>1, Sizes, Quotient
  <2>3. RowAt(g, k) = g * call.heads + q /\ ColAt(k) = 2 * j /\ Wide = 2
    BY <1>4 DEF RowAt, ColAt, Wide
  <2>4. g * call.heads + q \in 0 .. call.rows * call.heads - 1
    BY <1>2, <2>1, <2>2, Sizes, Inside
  <2>5. Place(g, k) = g * call.heads * call.n + q * call.n + 2 * j
    BY <1>1, <1>4, PlaceIs
  <2>6. q \in Nat /\ j \in Nat /\ j <= half - 1 /\ 2 * half <= call.n /\ call.heads \in Nat /\ call.n \in Nat /\ half \in Nat
    BY <2>2, Sizes
  <2> HIDE DEF q, j
  <2>7. g * call.heads * call.n + q * call.n + 2 * j = (g * call.heads + q) * call.n + 2 * j
    BY <1>3, <2>6
  <2>8. 2 * j \in Nat /\ 2 * j + 2 <= call.n
    BY <2>6
  <2> QED BY <1>3, <2>2, <2>3, <2>4, <2>5, <2>7, <2>8 DEF q, j
<1>5. CASE call.kernel # "RoPE" /\ IsRow
  <2>1. Limit = call.n /\ Grid = call.rows /\ call.heads = 1 /\ call.rows \in Nat /\ call.n \in Nat
    BY <1>5, Sizes DEF Limit, Grid
  <2>2. RowAt(g, k) = g /\ ColAt(k) = k /\ Wide = 1
    BY <1>5 DEF RowAt, ColAt, Wide
  <2>3. call.kernel \in {"RMSNorm", "Softmax"}
    BY <1>5 DEF IsRow, RowKernels
  <2>4. Place(g, k) = g * call.n + k
    BY <1>1, <2>3, PlaceIs
  <2> QED BY <1>2, <1>3, <1>5, <2>1, <2>2, <2>4
<1>6. CASE ~IsRow
  <2>1. call.kernel # "RoPE"
    BY <1>6 DEF IsRow, RowKernels
  <2>2. Limit = call.n /\ call.rows = 1 /\ call.heads = 1 /\ call.n \in Nat
    BY <1>6, <2>1, Sizes DEF Limit
  <2>3. RowAt(g, k) = 0 /\ ColAt(k) = k /\ Wide = 1
    BY <1>6, <2>1 DEF RowAt, ColAt, Wide
  <2>4. Place(g, k) = k
    BY <1>1, <1>6, PlaceIs
  <2> QED BY <1>2, <1>3, <2>1, <2>2, <2>3, <2>4
<1> QED BY <1>4, <1>5, <1>6

LEMMA PlaceNat ==
  ASSUME call \in Calls, NEW g, NEW k, IsItem(g, k)
  PROVE  Place(g, k) \in Nat /\ Place(g, k) + 0 = Place(g, k)
<1>1. RowAt(g, k) \in Nat /\ ColAt(k) \in Nat /\ call.n \in Nat
      /\ Place(g, k) = RowAt(g, k) * call.n + ColAt(k)
  BY Placed, Sizes
<1>2. RowAt(g, k) * call.n \in Nat
  BY <1>1
<1> QED BY <1>1, <1>2

\* No two items have an element in common, and no two elements of an item are one.
LEMMA Apart ==
  ASSUME call \in Calls, NEW g, NEW k, IsItem(g, k), NEW h, NEW l, IsItem(h, l),
         NEW d \in 0 .. Wide - 1, NEW e \in 0 .. Wide - 1,
         Place(g, k) + d = Place(h, l) + e
  PROVE  g = h /\ k = l /\ d = e
<1>1. Wide \in {1, 2} /\ (Wide = 2 <=> call.kernel = "RoPE")
  BY DEF Wide
<1>2. /\ RowAt(g, k) \in Nat /\ RowAt(h, l) \in Nat /\ call.n \in Nat
      /\ ColAt(k) + d \in 0 .. call.n - 1 /\ ColAt(l) + e \in 0 .. call.n - 1
      /\ Place(g, k) + d = RowAt(g, k) * call.n + (ColAt(k) + d)
      /\ Place(h, l) + e = RowAt(h, l) * call.n + (ColAt(l) + e)
  <2>1. /\ RowAt(g, k) \in Nat /\ ColAt(k) \in Nat /\ ColAt(k) + Wide <= call.n
        /\ Place(g, k) = RowAt(g, k) * call.n + ColAt(k)
    BY Placed
  <2>2. /\ RowAt(h, l) \in Nat /\ ColAt(l) \in Nat /\ ColAt(l) + Wide <= call.n
        /\ Place(h, l) = RowAt(h, l) * call.n + ColAt(l)
    BY Placed
  <2>3. call.n \in Nat
    BY Sizes
  <2>4. RowAt(g, k) * call.n \in Nat /\ RowAt(h, l) * call.n \in Nat
    BY <2>1, <2>2, <2>3
  <2> QED BY <1>1, <2>1, <2>2, <2>3, <2>4
<1>3. RowAt(g, k) = RowAt(h, l) /\ ColAt(k) + d = ColAt(l) + e
  <2> DEFINE a == RowAt(g, k)
             c == RowAt(h, l)
             x == ColAt(k) + d
             y == ColAt(l) + e
  <2>1. a \in Nat /\ c \in Nat /\ x \in 0 .. call.n - 1 /\ y \in 0 .. call.n - 1
        /\ a * call.n + x = c * call.n + y /\ call.n \in Nat
    BY <1>2
  <2> HIDE DEF a, c, x, y
  <2>2. a = c /\ x = y
    BY <2>1, RowMajor
  <2> QED BY <2>2 DEF a, c, x, y
<1>4. CASE call.kernel = "RoPE"
  <2> DEFINE q == k \div half
             j == k % half
             r == l \div half
             m == l % half
  <2>1. /\ q \in 0 .. call.heads - 1 /\ j \in 0 .. half - 1 /\ k = q * half + j
        /\ r \in 0 .. call.heads - 1 /\ m \in 0 .. half - 1 /\ l = r * half + m
        /\ g \in Nat /\ h \in Nat /\ call.heads \in Nat /\ half \in Nat
    BY <1>4, Placed, Sizes
  <2>2. /\ g * call.heads + q = h * call.heads + r
        /\ 2 * j + d = 2 * m + e
    BY <1>3, <1>4 DEF RowAt, ColAt
  <2> HIDE DEF q, j, r, m
  <2>3. g = h /\ q = r
    BY <2>1, <2>2, RowMajor
  <2>4. j = m /\ d = e
    BY <1>1, <2>1, <2>2
  <2> QED BY <2>1, <2>3, <2>4
<1>5. CASE call.kernel # "RoPE"
  <2>1. ColAt(k) = k /\ ColAt(l) = l /\ d = 0 /\ e = 0
    BY <1>1, <1>5 DEF ColAt
  <2>2. k = l
    BY <1>3, <2>1, Placed
  <2>3. CASE IsRow
    BY <1>3, <1>5, <2>1, <2>2, <2>3 DEF RowAt
  <2>4. CASE ~IsRow
    BY <2>1, <2>2, <2>4 DEF IsItem
  <2> QED BY <2>1, <2>2, <2>3, <2>4
<1> QED BY <1>4, <1>5

\* What an item touches of the output buffer is its own elements.
LEMMA Touches ==
  ASSUME call \in Calls, NEW g, NEW k, IsItem(g, k), NEW p, NEW a,
         a \in Gives(g, p, k) \/ (\E j \in DOMAIN Needs(g, p, k) : a = Needs(g, p, k)[j] /\ a[1] = call.out)
  PROVE  a \in Outs(g, k)
<1>1. call.kernel \in Kernels /\ call.out # "pos" /\ call.out # "freq"
  BY Sizes
<1>2. 0 \in 0 .. Wide - 1 /\ (call.kernel = "RoPE" => 1 \in 0 .. Wide - 1)
  BY DEF Wide
<1>3. Place(g, k) + 0 = Place(g, k)
  BY PlaceNat
<1>4. <<call.out, Place(g, k)>> \in Outs(g, k)
  BY <1>2, <1>3 DEF Outs
<1>5. call.kernel = "RoPE" => <<call.out, Place(g, k) + 1>> \in Outs(g, k)
  BY <1>2 DEF Outs
<1>6. CASE call.kernel = "RoPE"
  BY <1>1, <1>4, <1>5, <1>6, GivesAre, NeedsAre
<1>7. CASE call.kernel = "RMSNorm"
  <2>1. call.with # call.out
    BY <1>7, CallsAssumption DEF RowKernels
  <2> QED BY <1>1, <1>4, <1>7, <2>1, GivesAre, NeedsAre
<1>8. CASE call.kernel = "Softmax"
  BY <1>1, <1>4, <1>8, GivesAre, NeedsAre
<1>9. CASE ~IsRow
  BY <1>1, <1>4, <1>9, GivesAre, NeedsAre
<1> QED BY <1>1, <1>6, <1>7, <1>8, <1>9 DEF Kernels, IsRow, RowKernels

-----------------------------------------------------------------------------
(* Who works on an item.                                                   *)

LEMMA Remainder ==
  ASSUME NEW b \in Nat \ {0}, NEW q \in Nat, NEW r \in 0 .. b - 1
  PROVE  (q * b + r) \div b = q /\ (q * b + r) % b = r
<1> DEFINE k == q * b + r
           d == k \div b
           m == k % b
<1>1. k \in Nat /\ d \in Nat /\ m \in 0 .. b - 1 /\ k = d * b + m
  <2>1. q * b \in Nat
    OBVIOUS
  <2>2. k \in Nat
    BY <2>1
  <2> HIDE DEF k
  <2> QED BY <2>2
<1>2. q * b + r = d * b + m
  BY <1>1
<1> HIDE DEF d, m
<1>3. q = d /\ r = m
  BY <1>1, <1>2, RowMajor
<1> QED BY <1>3 DEF d, m

LEMMA NextRound ==
  ASSUME NEW b \in Nat \ {0}, NEW k \in Nat
  PROVE  (k + b) % b = k % b
<1> DEFINE q == k \div b
           r == k % b
<1>1. q \in Nat /\ r \in 0 .. b - 1 /\ k = q * b + r
  OBVIOUS
<1> HIDE DEF q, r
<1>2. k + b = (q + 1) * b + r /\ q + 1 \in Nat
  BY <1>1
<1>3. ((q + 1) * b + r) % b = r
  BY <1>1, <1>2, Remainder
<1> QED BY <1>2, <1>3 DEF r

\* A thread's counters, and what it holds, are those of an item of its own.
Types == /\ call \in Calls
         /\ pass \in [Threads -> 1 .. Passes]
         /\ i \in [Threads -> Nat]
         /\ held = [t \in Threads |-> held[t]]
         /\ acc = [t \in Threads |-> acc[t]]
         /\ total = [t \in Threads |-> total[t]]
         /\ mem = [a \in Cells |-> mem[a]]

Own == \A t \in Threads : /\ IsRow => i[t] % BlockSize = t[2]
                          /\ ~IsRow => i[t] = First(t) \/ i[t] = Limit
                          /\ held[t] # <<>> => i[t] < Limit

Inv == Types /\ Own

LEMMA ThreadIs ==
  ASSUME call \in Calls, NEW t \in Threads
  PROVE  /\ t = <<t[1], t[2]>> /\ t[1] \in Blocks /\ t[2] \in Tids
         /\ t[1] \in Nat /\ t[2] \in Nat /\ t[1] \in 0 .. Grid - 1 /\ t[2] \in 0 .. BlockSize - 1
         /\ First(t) \in Nat
         /\ IsRow => First(t) % BlockSize = t[2]
         /\ ~IsRow => First(t) \div BlockSize = t[1] /\ First(t) % BlockSize = t[2]
<1>1. /\ t = <<t[1], t[2]>> /\ t[1] \in Blocks /\ t[2] \in Tids
  BY DEF Threads
<1>2. /\ BlockSize \in Nat \ {0} /\ Grid \in Nat
      /\ t[1] \in Nat /\ t[2] \in Nat /\ t[1] \in 0 .. Grid - 1 /\ t[2] \in 0 .. BlockSize - 1
  BY <1>1, Sizes DEF Blocks, Tids
<1>3. CASE IsRow
  <2>1. First(t) = t[2]
    BY <1>3 DEF First
  <2>2. t[2] % BlockSize = t[2]
    <3>1. (0 * BlockSize + t[2]) % BlockSize = t[2] /\ 0 * BlockSize + t[2] = t[2]
      BY <1>2, Remainder
    <3> QED BY <3>1
  <2> QED BY <1>1, <1>2, <1>3, <2>1, <2>2
<1>4. CASE ~IsRow
  <2>1. First(t) = t[1] * BlockSize + t[2]
    BY <1>4 DEF First
  <2>2. (t[1] * BlockSize + t[2]) \div BlockSize = t[1] /\ (t[1] * BlockSize + t[2]) % BlockSize = t[2]
    BY <1>2, Remainder
  <2>3. t[1] * BlockSize + t[2] \in Nat
    BY <1>2
  <2> QED BY <1>1, <1>2, <1>4, <2>1, <2>2, <2>3
<1> QED BY <1>3, <1>4

LEMMA OwnItem ==
  ASSUME Inv, NEW t \in Threads, i[t] < Limit
  PROVE  IsItem(t[1], i[t]) /\ Owner(t[1], i[t]) = t
<1>1. call \in Calls /\ i[t] \in Nat
  BY DEF Inv, Types
<1>2. Limit \in Nat /\ i[t] \in 0 .. Limit - 1
  BY <1>1, Sizes
<1>3. i[t] % BlockSize = t[2] /\ (~IsRow => t[1] = i[t] \div BlockSize)
  <2>1. ~IsRow => i[t] = First(t)
    BY <1>2 DEF Inv, Own
  <2> QED BY <1>1, <2>1, ThreadIs DEF Inv, Own
<1> QED BY <1>1, <1>2, <1>3, ThreadIs DEF IsItem, Owner

LEMMA InitInv == Init => Inv
<1> SUFFICES ASSUME Init PROVE Inv
  OBVIOUS
<1>1. call \in Calls /\ call.kernel \in Kernels
  BY Sizes DEF Init
<1>2. 1 \in 1 .. Passes
  BY <1>1, PassCount
<1>3. Types
  BY <1>1, <1>2, ThreadIs DEF Init, Types, Before
<1>4. Own
  BY <1>1, ThreadIs DEF Init, Own
<1> QED BY <1>3, <1>4 DEF Inv

LEMMA StepInv == Inv /\ [Next]_vars => Inv'
<1> SUFFICES ASSUME Inv, [Next]_vars PROVE Inv'
  OBVIOUS
<1> USE DEF Inv
<1>1. call \in Calls /\ BlockSize \in Nat \ {0} /\ Limit \in Nat
  BY Sizes DEF Types
<1>2. ASSUME call' = call
      PROVE  Threads' = Threads /\ Passes' = Passes /\ Limit' = Limit /\ IsRow' = IsRow /\ Cells' = Cells
             /\ \A t \in Threads : First(t)' = First(t)
  BY <1>2 DEF Threads, Blocks, Tids, Grid, Passes, Limit, half, IsRow, Cells, First
<1>3. CASE UNCHANGED vars
  BY <1>2, <1>3 DEF vars, Types, Own
<1>4. ASSUME NEW t \in Threads, Read(t) PROVE Inv'
  <2>1. call' = call
    BY <1>4 DEF Read
  <2>2. Types'
    BY <1>2, <1>4, <2>1 DEF Read, Types
  <2>3. Own'
    BY <1>2, <1>4, <2>1 DEF Read, Own, Types
  <2> QED BY <2>2, <2>3
<1>5. ASSUME NEW t \in Threads, Write(t) PROVE Inv'
  <2>1. call' = call
    BY <1>5 DEF Write
  <2>2. After(t) \in Nat /\ (IsRow => After(t) % BlockSize = t[2]) /\ (~IsRow => After(t) = Limit)
    <3>1. i[t] \in Nat /\ (i[t] + BlockSize) % BlockSize = i[t] % BlockSize
      BY <1>1, NextRound DEF Types
    <3> QED BY <1>1, <3>1 DEF After, Own
  <2>3. Types'
    BY <1>2, <1>5, <2>1, <2>2 DEF Write, Types
  <2>4. Own'
    <3>1. \A u \in Threads : /\ i'[u] = IF u = t THEN After(t) ELSE i[u]
                             /\ held'[u] = IF u = t THEN <<>> ELSE held[u]
      BY <1>5 DEF Write, Types
    <3> SUFFICES ASSUME NEW u \in Threads
                 PROVE  /\ IsRow => i'[u] % BlockSize = u[2]
                        /\ ~IsRow => i'[u] = First(u) \/ i'[u] = Limit
                        /\ held'[u] # <<>> => i'[u] < Limit
      BY <1>2, <2>1 DEF Own
    <3>2. CASE u = t
      BY <2>2, <3>1, <3>2
    <3>3. CASE u # t
      BY <3>1, <3>3 DEF Own
    <3> QED BY <3>2, <3>3
  <2> QED BY <2>3, <2>4
<1>6. ASSUME NEW g \in Blocks, Reduce(g) PROVE Inv'
  <2>1. call' = call /\ mem' = mem /\ held' = held
    BY <1>6 DEF Reduce, GoOn
  <2>2. BlockOf(g) \subseteq Threads
    BY DEF BlockOf, Threads
  <2>3. \A t \in Threads : First(t) \in Nat /\ (IsRow => First(t) % BlockSize = t[2])
    BY <1>1, ThreadIs
  <2>4. \A t \in BlockOf(g) : pass[t] < Passes /\ i[t] >= Limit
    BY <1>6 DEF Reduce, Arrived
  <2>5. \A t \in BlockOf(g) : pass[t] + 1 \in 1 .. Passes
    <3>1. Passes \in Int
      BY <1>1, PassCount
    <3> QED BY <2>2, <2>4, <3>1 DEF Types
  <2>6. \A t \in Threads : /\ pass'[t] = IF t \in BlockOf(g) THEN pass[t] + 1 ELSE pass[t]
                           /\ i'[t] = IF t \in BlockOf(g) THEN First(t) ELSE i[t]
    BY <1>6 DEF Reduce, GoOn
  <2>7. Types'
    <3>1. pass' \in [Threads -> 1 .. Passes] /\ i' \in [Threads -> Nat]
      BY <1>6, <2>3, <2>5 DEF Reduce, GoOn, Types
    <3>2. acc' = [t \in Threads |-> acc'[t]] /\ total' = [t \in Threads |-> total'[t]]
      BY <1>6 DEF Reduce, GoOn
    <3> QED BY <1>2, <2>1, <3>1, <3>2 DEF Types
  <2>8. Own'
    <3> SUFFICES ASSUME NEW t \in Threads
                 PROVE  /\ IsRow => i'[t] % BlockSize = t[2]
                        /\ ~IsRow => i'[t] = First(t) \/ i'[t] = Limit
                        /\ held[t] # <<>> => i'[t] < Limit
      BY <1>2, <2>1 DEF Own
    <3>1. CASE t \in BlockOf(g)
      <4>1. held[t] = <<>>
        BY <1>1, <2>4, <3>1 DEF Own, Types
      <4> QED BY <2>3, <2>6, <3>1, <4>1
    <3>2. CASE t \notin BlockOf(g)
      BY <2>6, <3>2 DEF Own
    <3> QED BY <3>1, <3>2
  <2> QED BY <2>7, <2>8
<1> QED BY <1>3, <1>4, <1>5, <1>6 DEF Next, ThreadStep, BlockStep

LEMMA InvNoRace == Inv => NoRace
<1> SUFFICES ASSUME Inv, NEW t \in Threads, NEW u \in Threads, t # u,
                    NEW a, a \in Writing(t), a \in Reading(u) \cup Writing(u)
             PROVE  FALSE
  BY DEF NoRace
<1>1. call \in Calls
  BY DEF Inv, Types
<1>2. i[t] < Limit /\ a \in Gives(t[1], pass[t], i[t])
  BY DEF Writing, Inv, Own
<1>3. i[u] < Limit
  BY DEF Reading, Writing, Inv, Own
<1>4. /\ IsItem(t[1], i[t]) /\ Owner(t[1], i[t]) = t
      /\ IsItem(u[1], i[u]) /\ Owner(u[1], i[u]) = u
  BY <1>2, <1>3, OwnItem
<1>5. a \in Outs(t[1], i[t])
  BY <1>1, <1>2, <1>4, Touches
<1>6. a[1] = call.out
  BY <1>5 DEF Outs
<1>7. a \in Outs(u[1], i[u])
  <2>1. CASE a \in Writing(u)
    BY <1>1, <1>4, <2>1, Touches DEF Writing
  <2>2. CASE a \in Reading(u)
    <3>1. PICK j \in DOMAIN Needs(u[1], pass[u], i[u]) : a = Needs(u[1], pass[u], i[u])[j]
      BY <2>2 DEF Reading
    <3> QED BY <1>1, <1>4, <1>6, <3>1, Touches
  <2> QED BY <2>1, <2>2
<1>8. PICK d \in 0 .. Wide - 1 : a = <<call.out, Place(t[1], i[t]) + d>>
  BY <1>5 DEF Outs
<1>9. PICK e \in 0 .. Wide - 1 : a = <<call.out, Place(u[1], i[u]) + e>>
  BY <1>7 DEF Outs
<1>10. Place(t[1], i[t]) + d = Place(u[1], i[u]) + e
  BY <1>8, <1>9
<1>11. t[1] = u[1] /\ i[t] = i[u]
  BY <1>1, <1>4, <1>10, Apart
<1>12. Owner(t[1], i[t]) = Owner(u[1], i[u])
  BY <1>11
<1> QED BY <1>4, <1>12

\* rows.go, "x and out may be the same buffer": in any launch, two threads are
\* never about to touch one place with one of them writing.
THEOREM Raceless == Spec => []NoRace
BY InitInv, StepInv, InvNoRace, PTL DEF Spec

-----------------------------------------------------------------------------
(* What a launch has computed when it is between two steps.                *)

\* The loops that have done with item k, thread t's.
Done(t, k) == IF k < i[t] THEN pass[t] ELSE pass[t] - 1

\* What softmax leaves at a in its second loop, for the third.
Exponential(a) == <<"exp", Before[<<call.in, a[2]>>], RowMax(a[2] \div call.n)>>

\* An element of the output after d loops.
Stage(d, a) == IF d = Passes THEN Twin(a[2])
               ELSE IF call.kernel = "Softmax" /\ d = 2 THEN Exponential(a)
               ELSE Before[a]

\* What loop p finds at a, and what item k reads.
Seen(p, a)     == IF call.kernel = "Softmax" /\ p = 3 THEN Exponential(a) ELSE Before[a]
Reads(g, p, k) == [j \in DOMAIN Needs(g, p, k) |-> Seen(p, Needs(g, p, k)[j])]

\* The results of the reductions before loop p.
Results(g, p) == IF p = 1 THEN <<>>
                 ELSE IF call.kernel = "RMSNorm" THEN <<SumOfSquares(g)>>
                 ELSE IF p = 2 THEN <<RowMax(g)>>
                 ELSE <<RowMax(g), SumOfExps(g)>>

\* What item k adds, in a loop before a reduction.
Part(g, p, k) == LET x == Before[<<call.in, g * call.n + k>>]
                 IN  IF call.kernel = "RMSNorm" THEN <<"square", x>>
                     ELSE IF p = 1 THEN <<"max", x>>
                     ELSE <<"exp", x, RowMax(g)>>

MemRight == \A g \in Blocks : \A k \in 0 .. Limit - 1 :
              IsItem(g, k) => \A a \in Outs(g, k) : mem[a] = Stage(Done(Owner(g, k), k), a)

MemRest == \A a \in Cells :
             (\A g \in Blocks : \A k \in 0 .. Limit - 1 : IsItem(g, k) => a \notin Outs(g, k)) => mem[a] = Before[a]

HeldRight == \A t \in Threads : held[t] # <<>> => held[t] = Reads(t[1], pass[t], i[t])

TotalRight == \A t \in Threads : total[t] = Results(t[1], pass[t])

Items(t) == {k \in 0 .. Limit - 1 : k % BlockSize = t[2]}

AccRight == \A t \in Threads :
              pass[t] < Passes => acc[t] = {<<t, k, Part(t[1], pass[t], k)>> : k \in {l \in Items(t) : l < i[t]}}

SamePass == \A t, u \in Threads : t[1] = u[1] => pass[t] = pass[u]

Right == MemRight /\ MemRest /\ HeldRight /\ TotalRight /\ AccRight /\ SamePass

-----------------------------------------------------------------------------
(* The memory an item has to do with.                                      *)

\* The elements of the output an item gives are the array's, and in memory.
LEMMA OutsInside ==
  ASSUME call \in Calls, NEW g, NEW k, IsItem(g, k), NEW e \in 0 .. Wide - 1
  PROVE  /\ Place(g, k) + e \in 0 .. call.rows * call.heads * call.n - 1
         /\ <<call.out, Place(g, k) + e>> \in Cells /\ <<call.in, Place(g, k) + e>> \in Cells
<1> DEFINE r == call.rows * call.heads
           x == ColAt(k) + e
           a == RowAt(g, k)
<1>1. /\ call.n \in Nat /\ BlockSize \in Nat /\ r \in Nat /\ a \in 0 .. r - 1
      /\ x \in 0 .. call.n - 1 /\ Place(g, k) = a * call.n + ColAt(k)
      /\ ColAt(k) \in Nat /\ e \in Nat
  <2>1. /\ call.n \in Nat /\ BlockSize \in Nat /\ r \in Nat
    BY Sizes
  <2>2. a \in 0 .. r - 1 /\ ColAt(k) \in Nat /\ ColAt(k) + Wide <= call.n
        /\ Place(g, k) = a * call.n + ColAt(k)
    BY Placed
  <2>3. Wide \in {1, 2}
    BY DEF Wide
  <2> HIDE DEF r, a
  <2> QED BY <2>1, <2>2, <2>3
<1>2. a * call.n + x \in 0 .. r * call.n - 1
  <2> HIDE DEF r, a, x
  <2> QED BY <1>1, Inside
<1>3. a * call.n + x = Place(g, k) + e
  <2>1. a * call.n \in Nat
    BY <1>1
  <2> HIDE DEF a
  <2> QED BY <1>1, <2>1
<1>4. Place(g, k) + e \in 0 .. r * call.n - 1
  BY <1>2, <1>3
<1>5. 0 .. r * call.n - 1 \subseteq 0 .. r * call.n + 2 * BlockSize
  <2>1. r * call.n \in Nat /\ 2 * BlockSize \in Nat
    BY <1>1
  <2> HIDE DEF r
  <2> QED BY <2>1
<1> QED BY <1>4, <1>5 DEF Cells

\* So is all that it reads.
LEMMA NeedsInside ==
  ASSUME call \in Calls, NEW g, NEW k, IsItem(g, k), NEW p, NEW j \in DOMAIN Needs(g, p, k)
  PROVE  Needs(g, p, k)[j] \in Cells
<1> DEFINE m == call.rows * call.heads * call.n + 2 * BlockSize
           at == Place(g, k)
<1>1. /\ 0 \in 0 .. Wide - 1 /\ (call.kernel = "RoPE" => 1 \in 0 .. Wide - 1)
  BY DEF Wide
<1>2. /\ call.kernel \in Kernels /\ call.n \in Nat /\ call.rows \in Nat /\ call.heads \in Nat \ {0}
      /\ BlockSize \in Nat \ {0} /\ half \in Nat /\ 2 * half <= call.n
  BY Sizes
<1>3. at \in Nat
  BY PlaceNat
<1>4. <<call.out, at>> \in Cells /\ <<call.in, at>> \in Cells
  <2>1. <<call.out, at + 0>> \in Cells /\ <<call.in, at + 0>> \in Cells
    BY <1>1, OutsInside
  <2>2. at + 0 = at
    <3> HIDE DEF at
    <3> QED BY <1>3
  <2> QED BY <2>1, <2>2
<1>5. call.kernel = "RoPE" => <<call.in, at + 1>> \in Cells
  BY <1>1, OutsInside
<1>6. at <= m /\ at \in 0 .. m
  BY <1>3, <1>4 DEF Cells
<1>7. ~IsRow => <<call.with, at>> \in Cells
  BY <1>6 DEF Cells
<1>8. call.kernel = "RMSNorm" => <<call.with, k>> \in Cells
  <2> SUFFICES ASSUME call.kernel = "RMSNorm" PROVE k \in 0 .. m
    BY DEF Cells
  <2>1. at = g * call.n + k /\ g \in Nat /\ k \in Nat
    BY <1>2, Placed, PlaceIs
  <2>2. g * call.n \in Nat /\ m \in Int
    BY <1>2, <2>1
  <2> HIDE DEF at, m
  <2> QED BY <1>6, <2>1, <2>2
<1>9. call.kernel = "RoPE" => <<"pos", g>> \in Cells /\ <<"freq", k % half>> \in Cells
  <2> SUFFICES ASSUME call.kernel = "RoPE" PROVE g \in 0 .. m /\ k % half \in 0 .. m
    BY DEF Cells
  <2>1. g \in Nat /\ k \div half \in Nat /\ k % half \in 0 .. half - 1
        /\ at = g * call.heads * call.n + (k \div half) * call.n + 2 * (k % half)
    BY <1>2, Placed, PlaceIs
  <2> DEFINE q == k \div half
             c == k % half
  <2>2. g \in Nat /\ q \in Nat /\ c \in 0 .. half - 1
        /\ at = g * call.heads * call.n + q * call.n + 2 * c
    BY <2>1
  <2> HIDE DEF q, c, at, m
  <2>3. c \in Nat /\ half >= 1
    BY <1>2, <2>2
  <2>4. call.n >= 1 /\ q * call.n \in Nat
    BY <1>2, <2>2, <2>3
  <2>5. call.heads * call.n \in Nat /\ call.heads * call.n >= 1
    BY <1>2, <2>4
  <2>6. g * call.heads * call.n = g * (call.heads * call.n)
    BY <1>2, <2>2
  <2>7. g * (call.heads * call.n) >= g /\ g * (call.heads * call.n) \in Nat
    <3> DEFINE w == call.heads * call.n - 1
    <3>1. w \in Nat /\ call.heads * call.n = w + 1
      BY <2>5
    <3>2. g * (w + 1) = g * w + g /\ g * w \in Nat
      BY <2>2, <3>1
    <3> HIDE DEF w
    <3> QED BY <2>2, <3>1, <3>2
  <2>8. g <= at /\ c <= at
    BY <2>2, <2>3, <2>4, <2>6, <2>7
  <2>9. g \in 0 .. m /\ c \in 0 .. m
    <3>1. m \in Int
      BY <1>2 DEF m
    <3> QED BY <1>6, <2>2, <2>3, <2>8, <3>1
  <2> QED BY <2>9 DEF c
<1>10. \A a, b, c, d : /\ DOMAIN <<a>> = {1} /\ <<a>>[1] = a
                       /\ DOMAIN <<a, b>> = {1, 2} /\ <<a, b>>[1] = a /\ <<a, b>>[2] = b
                       /\ DOMAIN <<a, b, c, d>> = {1, 2, 3, 4}
                       /\ <<a, b, c, d>>[1] = a /\ <<a, b, c, d>>[2] = b
                       /\ <<a, b, c, d>>[3] = c /\ <<a, b, c, d>>[4] = d
  OBVIOUS
<1> HIDE DEF at
<1>11. CASE call.kernel = "RoPE"
  BY <1>2, <1>4, <1>5, <1>9, <1>11, NeedsAre DEF at
<1>12. CASE call.kernel = "RMSNorm"
  BY <1>2, <1>4, <1>8, <1>12, NeedsAre DEF at
<1>13. CASE call.kernel = "Softmax"
  BY <1>2, <1>4, <1>13, NeedsAre DEF at
<1>14. CASE ~IsRow
  BY <1>2, <1>4, <1>7, <1>14, NeedsAre DEF at
<1> QED BY <1>2, <1>11, <1>12, <1>13, <1>14 DEF Kernels, IsRow, RowKernels

-----------------------------------------------------------------------------
(* The order of a thread's items.                                          *)

LEMMA ItemOwner ==
  ASSUME call \in Calls, NEW g, NEW k, IsItem(g, k)
  PROVE  /\ Owner(g, k) \in Threads /\ Owner(g, k)[1] = g /\ Owner(g, k)[2] = k % BlockSize
         /\ g \in Blocks /\ k \in 0 .. Limit - 1 /\ k \in Nat
<1>1. g \in Blocks /\ k \in 0 .. Limit - 1 /\ k \in Nat
  BY Placed DEF IsItem
<1>2. k % BlockSize \in 0 .. BlockSize - 1
  BY <1>1, Sizes
<1> QED BY <1>1, <1>2 DEF Owner, Threads, Tids

\* The item of a 1-D launch is its thread's only one.
LEMMA OnlyItem ==
  ASSUME call \in Calls, ~IsRow, NEW g, NEW k, IsItem(g, k)
  PROVE  k = First(Owner(g, k))
<1>1. BlockSize \in Nat \ {0} /\ k \in Nat /\ g = k \div BlockSize
  BY Sizes, Placed DEF IsItem
<1>2. k = (k \div BlockSize) * BlockSize + (k % BlockSize)
  BY <1>1
<1> QED BY <1>1, <1>2 DEF First, Owner

LEMMA SameRemainder ==
  ASSUME NEW b \in Nat \ {0}, NEW k \in Nat, NEW l \in Nat, k % b = l % b, k < l
  PROVE  k + b <= l
<1> DEFINE q == k \div b
           r == k % b
           p == l \div b
<1>1. q \in Nat /\ p \in Nat /\ r \in 0 .. b - 1 /\ k = q * b + r /\ l = p * b + r
  OBVIOUS
<1> HIDE DEF q, r, p
<1>2. q * b \in Nat /\ p * b \in Nat
  BY <1>1
<1>3. ~(p <= q)
  <2> SUFFICES ASSUME p <= q PROVE FALSE
    OBVIOUS
  <2> DEFINE d == q - p
  <2>1. d \in Nat /\ q = p + d
    BY <1>1
  <2>2. q * b = p * b + d * b /\ d * b \in Nat
    BY <2>1, <1>1
  <2> QED BY <1>1, <1>2, <2>2
<1> DEFINE d == p - q - 1
<1>4. d \in Nat /\ p = q + 1 + d
  BY <1>1, <1>3
<1>5. p * b = q * b + b + d * b /\ d * b \in Nat
  BY <1>1, <1>4
<1> HIDE DEF d
<1> QED BY <1>1, <1>2, <1>5

\* An item done is behind its thread's counter; no other of its items is passed.
LEMMA Advance ==
  ASSUME Inv, NEW t \in Threads, i[t] < Limit, NEW l, IsItem(t[1], l), Owner(t[1], l) = t
  PROVE  l < After(t) <=> l < i[t] \/ l = i[t]
<1>1. /\ call \in Calls /\ BlockSize \in Nat \ {0} /\ i[t] \in Nat /\ Limit \in Nat
  BY Sizes DEF Inv, Types
<1>2. l \in 0 .. Limit - 1 /\ l \in Nat /\ l % BlockSize = t[2]
  BY <1>1, ItemOwner
<1>3. CASE IsRow
  <2>1. i[t] % BlockSize = l % BlockSize /\ After(t) = i[t] + BlockSize
    BY <1>2, <1>3 DEF Inv, Own, After
  <2>2. l > i[t] => i[t] + BlockSize <= l
    BY <1>1, <1>2, <2>1, SameRemainder
  <2> QED BY <1>1, <1>2, <2>1, <2>2
<1>4. CASE ~IsRow
  <2>1. l = First(t) /\ i[t] = First(t) /\ After(t) = Limit
    BY <1>1, <1>4, OnlyItem DEF Inv, Own, After
  <2> QED BY <1>1, <1>2, <2>1
<1> QED BY <1>3, <1>4

\* No item is before the first.
LEMMA NoneBefore ==
  ASSUME call \in Calls, NEW g, NEW k, IsItem(g, k)
  PROVE  ~(k < First(Owner(g, k)))
<1>1. BlockSize \in Nat \ {0} /\ k \in Nat
  BY Sizes, Placed
<1>2. CASE IsRow
  <2>1. First(Owner(g, k)) = k % BlockSize
    BY <1>2 DEF First, Owner
  <2>2. k % BlockSize <= k /\ k % BlockSize \in Nat
    <3> DEFINE q == k \div BlockSize
               r == k % BlockSize
    <3>1. q \in Nat /\ r \in Nat /\ k = q * BlockSize + r
      BY <1>1
    <3> HIDE DEF q, r
    <3>2. q * BlockSize \in Nat
      BY <1>1, <3>1
    <3> QED BY <3>1, <3>2 DEF r
  <2> QED BY <1>1, <2>1, <2>2
<1>3. CASE ~IsRow
  BY <1>1, <1>3, OnlyItem
<1> QED BY <1>2, <1>3

-----------------------------------------------------------------------------
(* What an item writes is the next stage of its elements.                  *)

LEMMA TwinIs ==
  ASSUME call.kernel \in Kernels, NEW k
  PROVE  /\ call.kernel = "RMSNorm" =>
              Twin(k) = <<"norm", Before[<<call.in, k>>], SumOfSquares(k \div call.n), Before[<<call.with, k % call.n>>]>>
         /\ call.kernel = "Softmax" =>
              Twin(k) = <<"scaled", <<"exp", Before[<<call.in, k>>], RowMax(k \div call.n)>>, SumOfExps(k \div call.n)>>
         /\ call.kernel = "RoPE" => Twin(k) = Rotated(k)
         /\ ~IsRow => Twin(k) = <<call.kernel, Before[<<call.in, k>>], Before[<<call.with, k>>]>>
BY Zenon DEF Twin, Kernels, RowKernels, Elementwise, IsRow

LEMMA ReadsRoPE ==
  ASSUME call.kernel = "RoPE", NEW g, NEW p, NEW k
  PROVE  /\ Reads(g, p, k)[1] = Before[<<call.in, Place(g, k)>>]
         /\ Reads(g, p, k)[2] = Before[<<call.in, Place(g, k) + 1>>]
         /\ Reads(g, p, k)[3] = Before[<<"pos", g>>]
         /\ Reads(g, p, k)[4] = Before[<<"freq", k % half>>]
<1>1. Needs(g, p, k) = << <<call.in, Place(g, k)>>, <<call.in, Place(g, k) + 1>>, <<"pos", g>>, <<"freq", k % half>> >>
  BY NeedsAre DEF Kernels, RowKernels
<1>2. \A j \in {1, 2, 3, 4} : Reads(g, p, k)[j] = Before[Needs(g, p, k)[j]]
  BY <1>1 DEF Reads, Seen
<1> QED BY <1>1, <1>2

LEMMA ReadsRMSNorm ==
  ASSUME call.kernel = "RMSNorm", NEW g, NEW p, NEW k
  PROVE  /\ Reads(g, p, k)[1] = Before[<<call.in, Place(g, k)>>]
         /\ p # 1 => Reads(g, p, k)[2] = Before[<<call.with, k>>]
<1>1. CASE p = 1
  <2>1. Needs(g, p, k) = << <<call.in, Place(g, k)>> >>
    BY <1>1, NeedsAre DEF Kernels, RowKernels
  <2>2. Reads(g, p, k)[1] = Before[Needs(g, p, k)[1]]
    BY <2>1 DEF Reads, Seen
  <2> QED BY <1>1, <2>1, <2>2
<1>2. CASE p # 1
  <2>1. Needs(g, p, k) = << <<call.in, Place(g, k)>>, <<call.with, k>> >>
    BY <1>2, NeedsAre DEF Kernels, RowKernels
  <2>2. \A j \in {1, 2} : Reads(g, p, k)[j] = Before[Needs(g, p, k)[j]]
    BY <2>1 DEF Reads, Seen
  <2> QED BY <2>1, <2>2
<1> QED BY <1>1, <1>2

LEMMA ReadsSoftmax ==
  ASSUME call.kernel = "Softmax", NEW g, NEW p, NEW k
  PROVE  /\ p # 3 => Reads(g, p, k)[1] = Before[<<call.in, Place(g, k)>>]
         /\ p = 3 => Reads(g, p, k)[1] = Exponential(<<call.out, Place(g, k)>>)
<1>1. CASE p = 3
  <2>1. Needs(g, p, k) = << <<call.out, Place(g, k)>> >>
    BY <1>1, NeedsAre DEF Kernels, RowKernels
  <2>2. Reads(g, p, k)[1] = Exponential(Needs(g, p, k)[1])
    BY <1>1, <2>1 DEF Reads, Seen
  <2> QED BY <1>1, <2>1, <2>2
<1>2. CASE p # 3
  <2>1. Needs(g, p, k) = << <<call.in, Place(g, k)>> >>
    BY <1>2, NeedsAre DEF Kernels, RowKernels
  <2>2. Reads(g, p, k)[1] = Before[Needs(g, p, k)[1]]
    BY <1>2, <2>1 DEF Reads, Seen
  <2> QED BY <1>2, <2>1, <2>2
<1> QED BY <1>1, <1>2

LEMMA ReadsElement ==
  ASSUME call.kernel \in Elementwise, NEW g, NEW p, NEW k
  PROVE  /\ Reads(g, p, k)[1] = Before[<<call.in, Place(g, k)>>]
         /\ Reads(g, p, k)[2] = Before[<<call.with, Place(g, k)>>]
<1>1. call.kernel \in Kernels /\ ~IsRow /\ call.kernel # "Softmax"
  BY DEF Kernels, IsRow, RowKernels, Elementwise
<1>2. Needs(g, p, k) = << <<call.in, Place(g, k)>>, <<call.with, Place(g, k)>> >>
  BY <1>1, NeedsAre
<1>3. \A j \in {1, 2} : Reads(g, p, k)[j] = Before[Needs(g, p, k)[j]]
  BY <1>1, <1>2 DEF Reads, Seen
<1> QED BY <1>2, <1>3

\* The last stage of an element of a row; of one of RoPE.
LEMMA RowTwin ==
  ASSUME call \in Calls, call.kernel \in {"RMSNorm", "Softmax"}, NEW g, NEW k, IsItem(g, k)
  PROVE  Place(g, k) \div call.n = g /\ Place(g, k) % call.n = k
<1>1. g \in Nat /\ k \in 0 .. call.n - 1 /\ call.n \in Nat /\ Place(g, k) = g * call.n + k
  <2>1. call.kernel \in Kernels /\ call.n \in Nat
    BY Sizes
  <2>2. g \in Nat /\ k \in Nat /\ ColAt(k) = k /\ Wide = 1 /\ ColAt(k) + Wide <= call.n
    BY Placed DEF ColAt, Wide
  <2> QED BY <2>1, <2>2, PlaceIs
<1>2. call.n \in Nat \ {0}
  BY <1>1
<1> QED BY <1>1, <1>2, Remainder

LEMMA RotatedIs ==
  ASSUME NEW z, NEW x, NEW g, z % call.n = x, z \div (call.heads * call.n) = g, x < 2 * half
  PROVE  Rotated(z) =
           <<"rotated", x % 2, Before[<<call.in, z - (x % 2)>>], Before[<<call.in, z - (x % 2) + 1>>],
             Theta(Before[<<"pos", g>>], x \div 2, Before[<<"freq", x \div 2>>])>>
BY Zenon DEF Rotated

LEMMA HeadTwin ==
  ASSUME call \in Calls, call.kernel = "RoPE", NEW g, NEW k, IsItem(g, k), NEW e \in {0, 1}
  PROVE  Rotated(Place(g, k) + e) =
           <<"rotated", e, Before[<<call.in, Place(g, k)>>], Before[<<call.in, Place(g, k) + 1>>],
             Theta(Before[<<"pos", g>>], k % half, Before[<<"freq", k % half>>])>>
<1> DEFINE q == k \div half
           j == k % half
           x == 2 * j + e
           at == Place(g, k)
<1>1. /\ call.kernel \in Kernels /\ call.n \in Nat /\ call.heads \in Nat \ {0} /\ half \in Nat /\ 2 * half <= call.n
      /\ g \in Nat /\ q \in 0 .. call.heads - 1 /\ j \in 0 .. half - 1
      /\ at = g * call.heads * call.n + q * call.n + 2 * j
  BY Sizes, Placed, PlaceIs
<1> HIDE DEF q, j, at
<1>2. call.n \in Nat \ {0} /\ x \in 0 .. call.n - 1 /\ j \in Nat /\ q \in Nat
  BY <1>1
<1>3. at + e = (g * call.heads + q) * call.n + x
  BY <1>1, <1>2
<1>4. g * call.heads + q \in Nat
  BY <1>1, <1>2
<1>5. (at + e) % call.n = x
  <2> HIDE DEF x
  <2> QED BY <1>2, <1>3, <1>4, Remainder
<1>6. (at + e) \div (call.heads * call.n) = g
  <2> HIDE DEF x
  <2>1. q * call.n + x \in 0 .. call.heads * call.n - 1
    BY <1>1, <1>2, Inside
  <2>2. call.heads * call.n \in Nat \ {0}
    BY <1>1, <1>2
  <2>3. at + e = g * (call.heads * call.n) + (q * call.n + x)
    BY <1>1, <1>2, <1>3
  <2> DEFINE w == call.heads * call.n
             y == q * call.n + x
  <2>4. w \in Nat \ {0} /\ y \in 0 .. w - 1 /\ at + e = g * w + y
    BY <2>1, <2>2, <2>3
  <2> HIDE DEF w, y
  <2>5. (at + e) \div w = g
    BY <1>1, <2>4, Remainder
  <2> QED BY <2>5 DEF w
<1>7. x % 2 = e /\ x \div 2 = j /\ x < 2 * half
  BY <1>1, <1>2
<1>8. at + e - (x % 2) = at /\ at \in Int
  <2>1. at \in Int
    <3>1. g * call.heads * call.n \in Nat /\ q * call.n \in Nat
      BY <1>1, <1>2
    <3> QED BY <1>1, <1>2, <3>1
  <2> QED BY <1>7, <2>1
<1> DEFINE z == at + e
<1> HIDE DEF x, z
<1>9. Rotated(z) =
        <<"rotated", x % 2, Before[<<call.in, z - (x % 2)>>], Before[<<call.in, z - (x % 2) + 1>>],
          Theta(Before[<<"pos", g>>], x \div 2, Before[<<"freq", x \div 2>>])>>
  BY <1>5, <1>6, <1>7, RotatedIs DEF z
<1>10. Rotated(at + e) =
         <<"rotated", e, Before[<<call.in, at>>], Before[<<call.in, at + 1>>],
           Theta(Before[<<"pos", g>>], j, Before[<<"freq", j>>])>>
  <2>1. x % 2 = e /\ x \div 2 = j /\ z - (x % 2) = at
    BY <1>7, <1>8 DEF z
  <2>2. Rotated(z) =
         <<"rotated", e, Before[<<call.in, at>>], Before[<<call.in, at + 1>>],
           Theta(Before[<<"pos", g>>], j, Before[<<"freq", j>>])>>
    BY <1>9, <2>1
  <2> QED BY <2>2 DEF z
<1> QED BY <1>10 DEF at, j

LEMMA ItemValue ==
  ASSUME call \in Calls, NEW g, NEW k, IsItem(g, k), NEW p \in 1 .. Passes, NEW a, a \in Gives(g, p, k)
  PROVE  Value(g, k, Reads(g, p, k), Results(g, p), a) = Stage(p, a)
<1>1. call.kernel \in Kernels
  BY Sizes
<1>2. \A x, y : Len(<<x>>) = 1 /\ Len(<<x, y>>) = 2 /\ <<x>>[1] = x /\ <<x, y>>[1] = x /\ <<x, y>>[2] = y
  OBVIOUS
<1>3. CASE call.kernel = "RMSNorm"
  <2>1. Passes = 2 /\ p # 1 /\ p = 2 /\ a = <<call.out, Place(g, k)>>
    BY <1>1, <1>3, PassesAre, GivesAre
  <2>2. Results(g, p) = <<SumOfSquares(g)>>
    BY <1>3, <2>1 DEF Results
  <2>3. Value(g, k, Reads(g, p, k), Results(g, p), a)
          = <<"norm", Before[<<call.in, Place(g, k)>>], SumOfSquares(g), Before[<<call.with, k>>]>>
    <3>1. Value(g, k, Reads(g, p, k), Results(g, p), a)
            = <<"norm", Reads(g, p, k)[1], Results(g, p)[1], Reads(g, p, k)[2]>>
      BY <1>3, ValueRMSNorm
    <3>2. Reads(g, p, k)[1] = Before[<<call.in, Place(g, k)>>] /\ Reads(g, p, k)[2] = Before[<<call.with, k>>]
      BY <1>3, <2>1, ReadsRMSNorm
    <3>3. Results(g, p)[1] = SumOfSquares(g)
      BY <1>2, <2>2
    <3> QED BY <3>1, <3>2, <3>3
  <2>4. Stage(p, a) = Twin(Place(g, k))
    BY <2>1 DEF Stage
  <2>5. Twin(Place(g, k)) = <<"norm", Before[<<call.in, Place(g, k)>>], SumOfSquares(g), Before[<<call.with, k>>]>>
    BY <1>1, <1>3, TwinIs, RowTwin
  <2> QED BY <2>3, <2>4, <2>5
<1>4. CASE call.kernel = "Softmax"
  <2>1. Passes = 3 /\ p # 1 /\ p \in {2, 3} /\ a = <<call.out, Place(g, k)>>
    BY <1>1, <1>4, PassesAre, GivesAre
  <2>2. Exponential(a) = <<"exp", Before[<<call.in, Place(g, k)>>], RowMax(g)>>
    BY <1>4, <2>1, RowTwin DEF Exponential
  <2>3. CASE p = 2
    <3> p # 3 /\ p # 1
      BY <2>3
    <3>4. Results(g, p) = <<RowMax(g)>>
      BY <1>4, <2>3 DEF Results
    <3>5. Reads(g, p, k)[1] = Before[<<call.in, Place(g, k)>>]
      BY <1>4, ReadsSoftmax
    <3>1. Results(g, p) = <<RowMax(g)>> /\ Reads(g, p, k)[1] = Before[<<call.in, Place(g, k)>>]
      BY <3>4, <3>5
    <3>2. Value(g, k, Reads(g, p, k), Results(g, p), a) = <<"exp", Before[<<call.in, Place(g, k)>>], RowMax(g)>>
      <4>1. Len(Results(g, p)) = 1 /\ Results(g, p)[1] = RowMax(g)
        BY <1>2, <3>1
      <4>2. Value(g, k, Reads(g, p, k), Results(g, p), a) = <<"exp", Reads(g, p, k)[1], Results(g, p)[1]>>
        BY <1>4, <4>1, ValueExp
      <4> QED BY <3>1, <4>1, <4>2
    <3>3. Stage(p, a) = Exponential(a)
      BY <1>4, <2>1, <2>3 DEF Stage
    <3> QED BY <2>2, <3>2, <3>3
  <2>4. CASE p = 3
    <3>1. Results(g, p) = <<RowMax(g), SumOfExps(g)>>
      BY <1>4, <2>4 DEF Results
    <3>2. Reads(g, p, k)[1] = Exponential(<<call.out, Place(g, k)>>)
      BY <1>4, <2>4, ReadsSoftmax
    <3>3. Results(g, p) = <<RowMax(g), SumOfExps(g)>> /\ Reads(g, p, k)[1] = Exponential(a)
      BY <2>1, <3>2, <3>1
    <3>4. Value(g, k, Reads(g, p, k), Results(g, p), a) = <<"scaled", Exponential(a), SumOfExps(g)>>
      <4>1. Len(Results(g, p)) = 2 /\ Results(g, p)[2] = SumOfExps(g)
        BY <1>2, <3>3
      <4>2. Len(Results(g, p)) # 1
        BY <4>1
      <4>3. Value(g, k, Reads(g, p, k), Results(g, p), a) = <<"scaled", Reads(g, p, k)[1], Results(g, p)[2]>>
        BY <1>4, <4>2, ValueScaled
      <4> QED BY <3>3, <4>1, <4>3
    <3>5. Stage(p, a) = Twin(Place(g, k))
      BY <2>1, <2>4 DEF Stage
    <3>6. Twin(Place(g, k)) = <<"scaled", Exponential(a), SumOfExps(g)>>
      <4>1. Place(g, k) \div call.n = g
        BY <1>4, RowTwin
      <4>2. Twin(Place(g, k)) = <<"scaled", <<"exp", Before[<<call.in, Place(g, k)>>], RowMax(Place(g, k) \div call.n)>>,
                                  SumOfExps(Place(g, k) \div call.n)>>
        BY <1>1, <1>4, TwinIs, Zenon
      <4> QED BY <2>2, <4>1, <4>2
    <3> QED BY <3>4, <3>5, <3>6
  <2> QED BY <2>1, <2>3, <2>4
<1>5. CASE call.kernel = "RoPE"
  <2>1. Passes = 1 /\ p = 1
    BY <1>1, <1>5, PassesAre
  <2>2. PICK e \in {0, 1} : a = <<call.out, Place(g, k) + e>>
    <3>1. a \in {<<call.out, Place(g, k)>>, <<call.out, Place(g, k) + 1>>}
      BY <1>1, <1>5, GivesAre
    <3>2. Place(g, k) + 0 = Place(g, k)
      BY PlaceNat
    <3> QED BY <3>1, <3>2
  <2>3. Place(g, k) \in Int /\ a[2] = Place(g, k) + e /\ a[2] - Place(g, k) = e
    BY <2>2, PlaceNat
  <2>4. Value(g, k, Reads(g, p, k), Results(g, p), a) =
          <<"rotated", e, Before[<<call.in, Place(g, k)>>], Before[<<call.in, Place(g, k) + 1>>],
            Theta(Before[<<"pos", g>>], k % half, Before[<<"freq", k % half>>])>>
    <3>1. Value(g, k, Reads(g, p, k), Results(g, p), a) =
            <<"rotated", a[2] - Place(g, k), Reads(g, p, k)[1], Reads(g, p, k)[2],
              Theta(Reads(g, p, k)[3], k % half, Reads(g, p, k)[4])>>
      BY <1>5, ValueRoPE
    <3>2. /\ Reads(g, p, k)[1] = Before[<<call.in, Place(g, k)>>]
          /\ Reads(g, p, k)[2] = Before[<<call.in, Place(g, k) + 1>>]
          /\ Reads(g, p, k)[3] = Before[<<"pos", g>>]
          /\ Reads(g, p, k)[4] = Before[<<"freq", k % half>>]
      BY <1>5, ReadsRoPE
    <3> QED BY <2>3, <3>1, <3>2
  <2>5. Stage(p, a) = Rotated(Place(g, k) + e)
    BY <1>1, <1>5, <2>1, <2>3, TwinIs DEF Stage
  <2> QED BY <1>5, <2>4, <2>5, HeadTwin
<1>6. CASE ~IsRow
  <2> call.kernel \in Elementwise
    BY <1>1, <1>6 DEF Kernels, IsRow
  <2>1. Passes = 1 /\ p = 1 /\ a = <<call.out, Place(g, k)>>
    BY <1>1, <1>6, PassesAre, GivesAre
  <2>2. Value(g, k, Reads(g, p, k), Results(g, p), a) =
          <<call.kernel, Before[<<call.in, Place(g, k)>>], Before[<<call.with, Place(g, k)>>]>>
    <3>1. Value(g, k, Reads(g, p, k), Results(g, p), a) = <<call.kernel, Reads(g, p, k)[1], Reads(g, p, k)[2]>>
      BY ValueElement
    <3>2. Reads(g, p, k)[1] = Before[<<call.in, Place(g, k)>>] /\ Reads(g, p, k)[2] = Before[<<call.with, Place(g, k)>>]
      BY ReadsElement
    <3> QED BY <3>1, <3>2
  <2>3. Stage(p, a) = Twin(Place(g, k))
    BY <2>1 DEF Stage
  <2> QED BY <1>1, <1>6, <2>2, <2>3, TwinIs
<1> QED BY <1>1, <1>3, <1>4, <1>5, <1>6 DEF Kernels, IsRow, RowKernels

\* What it adds, when there is a reduction to come.
LEMMA ItemAdds ==
  ASSUME call \in Calls, NEW g, NEW k, IsItem(g, k), NEW p \in 1 .. Passes, p < Passes
  PROVE  Adds(p, Reads(g, p, k), Results(g, p)) = {Part(g, p, k)}
<1>1. call.kernel \in Kernels
  BY Sizes
<1>2. CASE call.kernel = "RMSNorm"
  <2>1. p = 1
    BY <1>1, <1>2, PassesAre
  <2>2. Place(g, k) = g * call.n + k
    BY <1>1, <1>2, PlaceIs
  <2>3. Reads(g, p, k)[1] = Before[<<call.in, Place(g, k)>>]
    BY <1>2, ReadsRMSNorm
  <2>4. Adds(p, Reads(g, p, k), Results(g, p)) = {<<"square", Reads(g, p, k)[1]>>}
    BY <1>2, <2>1, AddsRMSNorm
  <2> QED BY <1>2, <2>2, <2>3, <2>4 DEF Part
<1>3. CASE call.kernel = "Softmax"
  <2>1. p \in {1, 2}
    BY <1>1, <1>3, PassesAre
  <2>2. Place(g, k) = g * call.n + k
    BY <1>1, <1>3, PlaceIs
  <2>3. Reads(g, p, k)[1] = Before[<<call.in, g * call.n + k>>]
    <3> p # 3
      BY <2>1
    <3>1. Reads(g, p, k)[1] = Before[<<call.in, Place(g, k)>>]
      BY <1>3, ReadsSoftmax
    <3> QED BY <2>2, <3>1
  <2>4. p = 2 => Results(g, p)[1] = RowMax(g)
    BY <1>3 DEF Results
  <2> QED BY <1>3, <2>1, <2>3, <2>4, AddsSoftmax DEF Part
<1>4. CASE call.kernel = "RoPE" \/ ~IsRow
  BY <1>1, <1>4, PassesAre
<1> QED BY <1>1, <1>2, <1>3, <1>4 DEF Kernels, IsRow, RowKernels

-----------------------------------------------------------------------------
(* The reductions.                                                         *)

\* What the threads of a block have added when all have ended loop p.
Added(g, p) == {<<Owner(g, k), k, Part(g, p, k)>> : k \in 0 .. Limit - 1}

\* Every item counts, and counts once.
LEMMA ReducedIs ==
  ASSUME call \in Calls, NEW g, NEW p
  PROVE  Reduced(Added(g, p)) =
           [terms |-> {<<k, Part(g, p, k)>> : k \in 0 .. Limit - 1}, added |-> Limit]
<1> DEFINE ks == 0 .. Limit - 1
           f == [k \in ks |-> <<Owner(g, k), k, Part(g, p, k)>>]
<1>1. Limit \in Nat
  BY Sizes
<1>2. IsFiniteSet(ks) /\ Cardinality(ks) = Limit
  <2>1. 0 \in Int /\ Limit - 1 \in Int
    BY <1>1
  <2>2. IsFiniteSet(ks) /\ Cardinality(ks) = IF 0 > Limit - 1 THEN 0 ELSE (Limit - 1) - 0 + 1
    BY <2>1, FS_Interval
  <2> QED BY <1>1, <2>2
<1>3. f \in Bijection(ks, Added(g, p))
  <2>1. \A k, l \in ks : f[k] = f[l] => k = l
    OBVIOUS
  <2>2. \A k \in ks : f[k] \in Added(g, p)
    BY DEF Added
  <2>3. \A c \in Added(g, p) : \E k \in ks : f[k] = c
    BY DEF Added
  <2>4. f \in [ks -> Added(g, p)]
    BY <2>2
  <2> HIDE DEF f, ks
  <2> QED BY <2>1, <2>3, <2>4 DEF Bijection, Injection, Surjection, IsInjective
<1>4. Cardinality(Added(g, p)) = Limit
  <2>1. ExistsBijection(ks, Added(g, p))
    BY <1>3 DEF ExistsBijection
  <2> HIDE DEF ks
  <2> QED BY <1>2, <2>1, FS_Bijection
<1>5. {<<c[2], c[3]>> : c \in Added(g, p)} = {<<k, Part(g, p, k)>> : k \in ks}
  <2>1. \A k : <<Owner(g, k), k, Part(g, p, k)>>[2] = k /\ <<Owner(g, k), k, Part(g, p, k)>>[3] = Part(g, p, k)
    OBVIOUS
  <2>2. \A c \in Added(g, p) : \E k \in ks : <<c[2], c[3]>> = <<k, Part(g, p, k)>>
    BY <2>1 DEF Added
  <2>3. \A k \in ks : \E c \in Added(g, p) : <<c[2], c[3]>> = <<k, Part(g, p, k)>>
    BY <2>1 DEF Added
  <2> HIDE DEF ks
  <2> QED BY <2>2, <2>3
<1> QED BY <1>4, <1>5 DEF Reduced

LEMMA AppendTwo == ASSUME NEW x, NEW y PROVE Append(<<x>>, y) = <<x, y>>
<1> DEFINE s == Append(<<x>>, y)
           u == <<x, y>>
<1>1. <<x>> \in Seq({x, y}) /\ y \in {x, y} /\ Len(<<x>>) = 1
  OBVIOUS
<1>2. s \in Seq({x, y}) /\ Len(s) = 2 /\ s[1] = x /\ s[2] = y
  BY <1>1, AppendProperties
<1>3. u \in Seq({x, y}) /\ Len(u) = 2 /\ u[1] = x /\ u[2] = y
  OBVIOUS
<1> HIDE DEF s, u
<1>4. \A j \in 1 .. Len(s) : s[j] = u[j]
  BY <1>2, <1>3
<1>5. s = u
  BY <1>2, <1>3, <1>4, SeqEqual
<1> QED BY <1>5 DEF s, u

LEMMA NextResult ==
  ASSUME call \in Calls, NEW g, NEW p \in 1 .. Passes, p < Passes
  PROVE  Append(Results(g, p), Reduced(Added(g, p))) = Results(g, p + 1)
<1> DEFINE terms == {<<k, Part(g, p, k)>> : k \in 0 .. call.n - 1}
<1>1. call.kernel \in Kernels
  BY Sizes
<1>2. call.kernel \in {"RMSNorm", "Softmax"} /\ Limit = call.n
  <2>1. CASE call.kernel = "RoPE" \/ ~IsRow
    BY <1>1, <2>1, PassesAre
  <2>2. CASE call.kernel \in {"RMSNorm", "Softmax"}
    BY <2>2 DEF Limit
  <2> QED BY <1>1, <2>1, <2>2 DEF Kernels, IsRow, RowKernels
<1>3. Reduced(Added(g, p)) = [terms |-> terms, added |-> call.n]
  BY <1>2, ReducedIs
<1>4. \A x, y : Append(<<>>, x) = <<x>> /\ Append(<<x>>, y) = <<x, y>>
  <2>1. \A x : Append(<<>>, x) = <<x>>
    OBVIOUS
  <2> QED BY <2>1, AppendTwo
<1>5. CASE call.kernel = "RMSNorm"
  <2>1. p = 1
    BY <1>1, <1>5, PassesAre
  <2>2. [terms |-> terms, added |-> call.n] = SumOfSquares(g)
    BY <1>5 DEF SumOfSquares, RowOf, Part
  <2> QED BY <1>3, <1>4, <1>5, <2>1, <2>2 DEF Results
<1>6. CASE call.kernel = "Softmax"
  <2>1. p \in {1, 2}
    BY <1>1, <1>6, PassesAre
  <2>2. CASE p = 1
    <3>1. [terms |-> terms, added |-> call.n] = RowMax(g)
      BY <1>6, <2>2 DEF RowMax, RowOf, Part
    <3> QED BY <1>3, <1>4, <1>6, <2>2, <3>1 DEF Results
  <2>3. CASE p = 2
    <3>1. [terms |-> terms, added |-> call.n] = SumOfExps(g)
      BY <1>6, <2>3 DEF SumOfExps, RowOf, Part
    <3>2. Results(g, p) = <<RowMax(g)>> /\ Results(g, p + 1) = <<RowMax(g), SumOfExps(g)>>
      BY <1>6, <2>3 DEF Results
    <3>3. Reduced(Added(g, p)) = SumOfExps(g)
      BY <1>3, <3>1
    <3> QED BY <1>4, <3>2, <3>3
  <2> QED BY <2>1, <2>2, <2>3
<1> QED BY <1>2, <1>5, <1>6

LEMMA BlockAdds ==
  ASSUME Inv, AccRight, NEW g \in Blocks, NEW p,
         \A t \in BlockOf(g) : pass[t] = p /\ p < Passes /\ i[t] >= Limit
  PROVE  UNION {acc[t] : t \in BlockOf(g)} = Added(g, p)
<1>1. call \in Calls /\ Limit \in Nat /\ BlockSize \in Nat \ {0}
  BY Sizes DEF Inv, Types
<1>2. BlockOf(g) \subseteq Threads /\ \A t \in BlockOf(g) : t[1] = g /\ t[2] \in Tids /\ t = <<g, t[2]>>
  BY DEF BlockOf, Threads
<1>3. \A t \in BlockOf(g) : acc[t] = {<<t, k, Part(g, p, k)>> : k \in Items(t)}
  <2> SUFFICES ASSUME NEW t \in BlockOf(g) PROVE acc[t] = {<<t, k, Part(g, p, k)>> : k \in Items(t)}
    OBVIOUS
  <2>1. \A k \in Items(t) : k < i[t]
    <3>1. i[t] \in Nat /\ i[t] >= Limit
      BY <1>2 DEF Inv, Types
    <3> QED BY <1>1, <3>1 DEF Items
  <2>2. {l \in Items(t) : l < i[t]} = Items(t)
    BY <2>1
  <2>3. acc[t] = {<<t, k, Part(t[1], pass[t], k)>> : k \in {l \in Items(t) : l < i[t]}}
    BY <1>2 DEF AccRight
  <2> QED BY <1>2, <2>2, <2>3
<1>4. ASSUME NEW c \in UNION {acc[t] : t \in BlockOf(g)} PROVE c \in Added(g, p)
  <2>1. PICK t \in BlockOf(g) : c \in acc[t]
    OBVIOUS
  <2>2. PICK k \in Items(t) : c = <<t, k, Part(g, p, k)>>
    BY <1>3, <2>1
  <2>3. t = Owner(g, k) /\ k \in 0 .. Limit - 1
    BY <1>2, <2>2 DEF Owner, Items
  <2> QED BY <2>2, <2>3 DEF Added
<1>5. ASSUME NEW c \in Added(g, p) PROVE c \in UNION {acc[t] : t \in BlockOf(g)}
  <2>1. PICK k \in 0 .. Limit - 1 : c = <<Owner(g, k), k, Part(g, p, k)>>
    BY DEF Added
  <2>2. k % BlockSize \in 0 .. BlockSize - 1
    BY <1>1
  <2>3. Owner(g, k) \in BlockOf(g) /\ k \in Items(Owner(g, k))
    BY <2>2 DEF Owner, BlockOf, Tids, Items
  <2>4. c \in acc[Owner(g, k)]
    BY <1>3, <2>1, <2>3
  <2> QED BY <2>3, <2>4
<1> QED BY <1>4, <1>5

-----------------------------------------------------------------------------
(* Every step keeps what has been computed right.                          *)

\* The arguments are fixed, and all that is defined from them.
LEMMA Fixed ==
  ASSUME call' = call
  PROVE  /\ Threads' = Threads /\ Blocks' = Blocks /\ Cells' = Cells /\ Before' = Before
         /\ Limit' = Limit /\ Passes' = Passes /\ half' = half /\ IsRow' = IsRow
         /\ \A g, k : Place(g, k)' = Place(g, k) /\ Outs(g, k)' = Outs(g, k) /\ IsItem(g, k)' = IsItem(g, k)
         /\ \A g, p, k : Needs(g, p, k)' = Needs(g, p, k) /\ Reads(g, p, k)' = Reads(g, p, k)
         /\ \A g, p, k : Part(g, p, k)' = Part(g, p, k)
         /\ \A g, p : Results(g, p)' = Results(g, p)
         /\ \A d, a : Stage(d, a)' = Stage(d, a)
         /\ \A t : Items(t)' = Items(t)
<1>1. Threads' = Threads /\ Blocks' = Blocks /\ Cells' = Cells /\ Before' = Before
  BY DEF Threads, Blocks, Tids, Grid, Cells, Before, IsRow
<1>2. Limit' = Limit /\ half' = half /\ IsRow' = IsRow
  BY DEF Limit, half, IsRow
<1>3. Passes' = Passes
  BY Zenon DEF Passes
<1>4. \A g, k : Place(g, k)' = Place(g, k)
  BY <1>2, Zenon DEF Place
<1>5. Wide' = Wide
  BY DEF Wide
<1>6. \A g, k : Outs(g, k)' = Outs(g, k)
  BY <1>4, <1>5 DEF Outs
<1>7. \A g, k : IsItem(g, k)' = IsItem(g, k)
  BY <1>1, <1>2 DEF IsItem
<1>8. \A g, p, k : Needs(g, p, k)' = Needs(g, p, k)
  BY <1>2, <1>4, Zenon DEF Needs
<1>9. \A r : SumOfSquares(r)' = SumOfSquares(r) /\ RowMax(r)' = RowMax(r)
  BY <1>1 DEF SumOfSquares, RowMax, RowOf
<1>10. \A r : SumOfExps(r)' = SumOfExps(r)
  BY <1>1, <1>9 DEF SumOfExps, RowOf
<1>11. \A k : Rotated(k)' = Rotated(k)
  BY <1>1, <1>2, Zenon DEF Rotated, Theta
<1>12. \A k : Twin(k)' = Twin(k)
  BY <1>1, <1>9, <1>10, <1>11, Zenon DEF Twin
<1>13. \A a : Exponential(a)' = Exponential(a)
  BY <1>1, <1>9 DEF Exponential
<1>14. \A d, a : Stage(d, a)' = Stage(d, a)
  BY <1>1, <1>3, <1>12, <1>13 DEF Stage
<1>15. \A p, a : Seen(p, a)' = Seen(p, a)
  BY <1>1, <1>13 DEF Seen
<1>16. \A g, p, k : Reads(g, p, k)' = Reads(g, p, k)
  BY <1>8, <1>15 DEF Reads
<1>17. \A g, p, k : Part(g, p, k)' = Part(g, p, k)
  BY <1>1, <1>9 DEF Part
<1>18. \A g, p : Results(g, p)' = Results(g, p)
  BY <1>9, <1>10 DEF Results
<1>19. \A t : Items(t)' = Items(t)
  BY <1>2 DEF Items
<1> QED BY <1>1, <1>2, <1>3, <1>4, <1>6, <1>7, <1>8, <1>14, <1>16, <1>17, <1>18, <1>19

LEMMA InitRight == Init => Right
<1> SUFFICES ASSUME Init PROVE Right
  OBVIOUS
<1>1. Inv /\ call \in Calls /\ Passes \in {1, 2, 3}
  BY InitInv, PassCount DEF Init
<1>2. /\ mem = Before
      /\ \A t \in Threads : pass[t] = 1 /\ i[t] = First(t) /\ held[t] = <<>> /\ acc[t] = {} /\ total[t] = <<>>
  BY DEF Init
<1>3. MemRight
  <2> SUFFICES ASSUME NEW g \in Blocks, NEW k \in 0 .. Limit - 1, IsItem(g, k), NEW a \in Outs(g, k)
               PROVE  mem[a] = Stage(Done(Owner(g, k), k), a)
    BY DEF MemRight
  <2>1. Done(Owner(g, k), k) = 0
    BY <1>1, <1>2, ItemOwner, NoneBefore DEF Done
  <2>2. Stage(0, a) = Before[a]
    BY <1>1 DEF Stage
  <2> QED BY <1>2, <2>1, <2>2
<1>4. MemRest /\ HeldRight /\ SamePass
  BY <1>2 DEF MemRest, HeldRight, SamePass, Threads
<1>5. TotalRight
  BY <1>2 DEF TotalRight, Results
<1>6. AccRight
  <2> SUFFICES ASSUME NEW t \in Threads, pass[t] < Passes
               PROVE  {l \in Items(t) : l < i[t]} = {}
    BY <1>2 DEF AccRight
  <2>1. IsRow
    BY <1>1, <1>2, Sizes, PassesAre
  <2> SUFFICES ASSUME NEW l \in Items(t), l < First(t) PROVE FALSE
    BY <1>2
  <2>2. IsItem(t[1], l) /\ Owner(t[1], l) = t
    BY <1>1, <2>1, ThreadIs DEF IsItem, Owner, Items
  <2> QED BY <1>1, <2>2, NoneBefore
<1> QED BY <1>3, <1>4, <1>5, <1>6 DEF Right

\* A thread reads what it should, whatever the others have written by then.
LEMMA ReadSees ==
  ASSUME Inv, Right, NEW t \in Threads, i[t] < Limit, NEW j \in DOMAIN Needs(t[1], pass[t], i[t])
  PROVE  mem[Needs(t[1], pass[t], i[t])[j]] = Seen(pass[t], Needs(t[1], pass[t], i[t])[j])
<1> DEFINE g == t[1]
           k == i[t]
           p == pass[t]
           a == Needs(g, p, k)[j]
<1>1. call \in Calls /\ call.kernel \in Kernels /\ p \in 1 .. Passes /\ Passes \in {1, 2, 3}
  BY Sizes, PassCount DEF Inv, Types
<1>2. IsItem(g, k) /\ Owner(g, k) = t /\ g \in Blocks /\ k \in 0 .. Limit - 1
  BY <1>1, OwnItem, ItemOwner
<1>3. a \in Cells
  BY <1>1, <1>2, NeedsInside
<1>4. CASE a[1] = call.out
  <2>1. a \in Outs(g, k)
    BY <1>1, <1>2, <1>4, Touches
  <2>2. mem[a] = Stage(Done(t, k), a)
    BY <1>2, <2>1 DEF Right, MemRight
  <2>3. Done(t, k) = p - 1
    BY <1>2 DEF Done
  <2>4. Stage(p - 1, a) = Seen(p, a)
    <3>1. p - 1 # Passes /\ (p - 1 = 2 <=> p = 3)
      BY <1>1
    <3> QED BY <3>1 DEF Stage, Seen
  <2> QED BY <2>2, <2>3, <2>4
<1>5. CASE a[1] # call.out
  <2>1. mem[a] = Before[a]
    BY <1>3, <1>5 DEF Right, MemRest, Outs
  <2>2. ~(call.kernel = "Softmax" /\ p = 3)
    <3> SUFFICES ASSUME call.kernel = "Softmax", p = 3 PROVE FALSE
      OBVIOUS
    <3>1. Needs(g, p, k) = << <<call.out, Place(g, k)>> >>
      BY <1>1, NeedsAre
    <3>2. j = 1
      BY <3>1
    <3> QED BY <1>5, <3>1, <3>2
  <2> QED BY <2>1, <2>2 DEF Seen
<1> QED BY <1>4, <1>5

LEMMA ReadRight == ASSUME Inv, Right, NEW t \in Threads, Read(t) PROVE Right'
<1> DEFINE need == Needs(t[1], pass[t], i[t])
<1>1. /\ call' = call /\ mem' = mem /\ pass' = pass /\ i' = i /\ acc' = acc /\ total' = total
      /\ i[t] < Limit
  BY DEF Read
<1>2. \A u \in Threads : held'[u] = IF u = t THEN [j \in DOMAIN need |-> mem[need[j]]] ELSE held[u]
  BY DEF Read, Inv, Types
<1>3. [j \in DOMAIN need |-> mem[need[j]]] = Reads(t[1], pass[t], i[t])
  BY <1>1, ReadSees DEF Reads
<1>4. HeldRight'
  <2> SUFFICES ASSUME NEW u \in Threads, held'[u] # <<>> PROVE held'[u] = Reads(u[1], pass[u], i[u])
    BY <1>1, Fixed DEF HeldRight
  <2>1. CASE u = t
    BY <1>2, <1>3, <2>1
  <2>2. CASE u # t
    BY <1>2, <2>2 DEF Right, HeldRight
  <2> QED BY <2>1, <2>2
<1>5. MemRight'
  BY <1>1, Fixed DEF Right, MemRight, Done, Owner
<1>6. MemRest'
  BY <1>1, Fixed DEF Right, MemRest
<1>7. TotalRight'
  BY <1>1, Fixed DEF Right, TotalRight
<1>8. AccRight'
  BY <1>1, Fixed DEF Right, AccRight
<1>9. SamePass'
  BY <1>1, Fixed DEF Right, SamePass
<1> QED BY <1>4, <1>5, <1>6, <1>7, <1>8, <1>9 DEF Right

\* An item that writes nothing is in a loop before the output's first.
LEMMA SilentStage ==
  ASSUME call \in Calls, NEW g, NEW k, IsItem(g, k), NEW p \in 1 .. Passes, NEW a \in Outs(g, k), a \notin Gives(g, p, k)
  PROVE  Stage(p, a) = Before[a] /\ Stage(p - 1, a) = Before[a]
<1>1. call.kernel \in Kernels /\ Passes \in {1, 2, 3}
  BY Sizes, PassCount
<1>2. PICK e \in 0 .. Wide - 1 : a = <<call.out, Place(g, k) + e>>
  BY DEF Outs
<1>3. Place(g, k) \in Nat /\ Place(g, k) + 0 = Place(g, k)
  BY PlaceNat
<1>4. call.kernel \in {"RMSNorm", "Softmax"} /\ p = 1
  <2>1. CASE call.kernel = "RoPE"
    <3>1. Gives(g, p, k) = {<<call.out, Place(g, k)>>, <<call.out, Place(g, k) + 1>>} /\ Wide = 2
      BY <1>1, <2>1, GivesAre DEF Wide
    <3>2. e = 0 \/ e = 1
      BY <3>1
    <3> QED BY <1>2, <1>3, <3>1, <3>2
  <2>2. CASE call.kernel # "RoPE"
    <3>1. Wide = 1 /\ e = 0 /\ a = <<call.out, Place(g, k)>>
      BY <1>2, <1>3, <2>2 DEF Wide
    <3>2. IsRow
      BY <1>1, <3>1, GivesAre
    <3>3. call.kernel \in {"RMSNorm", "Softmax"}
      BY <2>2, <3>2 DEF IsRow, RowKernels
    <3> QED BY <1>1, <3>1, <3>3, GivesAre
  <2> QED BY <2>1, <2>2
<1>5. Passes # 1
  BY <1>1, <1>4, PassesAre
<1> QED BY <1>1, <1>4, <1>5 DEF Stage

LEMMA WriteRight == ASSUME Inv, Right, NEW t \in Threads, Write(t) PROVE Right'
<1> DEFINE g == t[1]
           k == i[t]
           p == pass[t]
<1>1. /\ call \in Calls /\ p \in 1 .. Passes /\ Passes \in {1, 2, 3} /\ k < Limit /\ k \in Nat
  BY PassCount DEF Inv, Types, Own, Write
<1>2. IsItem(g, k) /\ Owner(g, k) = t /\ g \in Blocks
  BY <1>1, OwnItem, ItemOwner
<1>3. held[t] = Reads(g, p, k) /\ total[t] = Results(g, p)
  BY DEF Right, HeldRight, TotalRight, Write
<1>4. /\ call' = call /\ pass' = pass /\ total' = total
      /\ \A u \in Threads : /\ i'[u] = IF u = t THEN After(t) ELSE i[u]
                            /\ held'[u] = IF u = t THEN <<>> ELSE held[u]
                            /\ acc'[u] = IF u = t THEN acc[t] \cup {<<t, k, v>> : v \in Adds(p, held[t], total[t])}
                                         ELSE acc[u]
      /\ \A a \in Cells : mem'[a] = IF a \in Gives(g, p, k) THEN Value(g, k, held[t], total[t], a) ELSE mem[a]
  BY DEF Write, Inv, Types
<1>5. MemRight'
  <2> SUFFICES ASSUME NEW h \in Blocks, NEW l \in 0 .. Limit - 1, IsItem(h, l), NEW a \in Outs(h, l)
               PROVE  mem'[a] = Stage(IF l < i'[Owner(h, l)] THEN pass[Owner(h, l)] ELSE pass[Owner(h, l)] - 1, a)
    BY <1>4, Fixed DEF MemRight, Done, Owner
  <2>1. a \in Cells
    BY <1>1, OutsInside DEF Outs
  <2>2. Owner(h, l) \in Threads /\ Owner(h, l)[1] = h
    BY <1>1, ItemOwner
  <2>3. mem[a] = Stage(Done(Owner(h, l), l), a)
    BY DEF Right, MemRight
  <2>4. CASE h = g /\ l = k
    <3>1. Owner(h, l) = t
      BY <1>2, <2>4
    <3>2. l < After(t)
      BY <1>1, <1>2, <2>4, Advance
    <3>3. l < i'[Owner(h, l)] /\ pass[Owner(h, l)] = p
      BY <1>4, <3>1, <3>2
    <3>4. mem'[a] = Stage(p, a)
      <4>1. CASE a \in Gives(g, p, k)
        <5>1. mem'[a] = Value(g, k, Reads(g, p, k), Results(g, p), a)
          BY <1>3, <1>4, <2>1, <4>1
        <5> QED BY <1>1, <1>2, <4>1, <5>1, ItemValue
      <4>2. CASE a \notin Gives(g, p, k)
        <5>1. mem'[a] = mem[a]
          BY <1>4, <2>1, <4>2
        <5>2. Done(t, k) = p - 1
          BY <1>1 DEF Done
        <5>3. mem[a] = Stage(p - 1, a)
          BY <2>3, <2>4, <3>1, <5>2
        <5>4. Stage(p, a) = Before[a] /\ Stage(p - 1, a) = Before[a]
          BY <1>1, <1>2, <2>4, <4>2, SilentStage
        <5> QED BY <5>1, <5>3, <5>4
      <4> QED BY <4>1, <4>2
    <3> QED BY <3>3, <3>4
  <2>5. CASE ~(h = g /\ l = k)
    <3>1. a \notin Outs(g, k)
      <4> SUFFICES ASSUME a \in Outs(g, k) PROVE FALSE
        OBVIOUS
      <4>1. PICK d \in 0 .. Wide - 1 : a = <<call.out, Place(g, k) + d>>
        BY DEF Outs
      <4>2. PICK e \in 0 .. Wide - 1 : a = <<call.out, Place(h, l) + e>>
        BY DEF Outs
      <4>3. Place(g, k) + d = Place(h, l) + e
        BY <4>1, <4>2
      <4> QED BY <1>1, <1>2, <2>5, <4>3, Apart
    <3>2. a \notin Gives(g, p, k)
      BY <1>1, <1>2, <3>1, Touches
    <3>3. mem'[a] = mem[a]
      BY <1>4, <2>1, <3>2
    <3>4. l < i'[Owner(h, l)] <=> l < i[Owner(h, l)]
      <4>1. CASE Owner(h, l) = t
        <5>1. h = g /\ l # k
          BY <2>2, <2>5, <4>1
        <5>2. l < After(t) <=> l < i[t] \/ l = i[t]
          BY <1>1, <4>1, <5>1, Advance
        <5> QED BY <1>4, <4>1, <5>1, <5>2
      <4>2. CASE Owner(h, l) # t
        BY <1>4, <2>2, <4>2
      <4> QED BY <4>1, <4>2
    <3> QED BY <2>3, <3>3, <3>4 DEF Done
  <2> QED BY <2>4, <2>5
<1>6. MemRest'
  <2> SUFFICES ASSUME NEW a \in Cells,
                      \A h \in Blocks : \A l \in 0 .. Limit - 1 : IsItem(h, l) => a \notin Outs(h, l)
               PROVE  mem'[a] = Before[a]
    BY <1>4, Fixed DEF MemRest
  <2>1. a \notin Outs(g, k)
    BY <1>1, <1>2, ItemOwner
  <2>2. a \notin Gives(g, p, k)
    BY <1>1, <1>2, <2>1, Touches
  <2>3. mem[a] = Before[a]
    BY DEF Right, MemRest
  <2> QED BY <1>4, <2>2, <2>3
<1>7. HeldRight'
  <2> SUFFICES ASSUME NEW u \in Threads, held'[u] # <<>> PROVE held'[u] = Reads(u[1], pass[u], i'[u])
    BY <1>4, Fixed DEF HeldRight
  <2>1. u # t
    BY <1>4
  <2> QED BY <1>4, <2>1 DEF Right, HeldRight
<1>8. TotalRight'
  BY <1>4, Fixed DEF Right, TotalRight
<1>9. AccRight'
  <2> SUFFICES ASSUME NEW u \in Threads, pass[u] < Passes
               PROVE  acc'[u] = {<<u, l, Part(u[1], pass[u], l)>> : l \in {m \in Items(u) : m < i'[u]}}
    BY <1>4, Fixed DEF AccRight
  <2>1. CASE u # t
    BY <1>4, <2>1 DEF Right, AccRight
  <2>2. CASE u = t
    <3>1. acc[t] = {<<t, l, Part(g, p, l)>> : l \in {m \in Items(t) : m < k}}
      BY <2>2 DEF Right, AccRight
    <3>2. Adds(p, held[t], total[t]) = {Part(g, p, k)}
      BY <1>1, <1>2, <1>3, <2>2, ItemAdds
    <3>3. acc'[t] = acc[t] \cup {<<t, k, Part(g, p, k)>>}
      BY <1>4, <3>2
    <3>4. IsRow
      BY <1>1, <2>2, Sizes, PassesAre
    <3>5. {m \in Items(t) : m < i'[t]} = {m \in Items(t) : m < k} \cup {k}
      <4>1. k \in Items(t)
        BY <1>1, <3>4, Sizes DEF Items, Inv, Own
      <4>2. \A m \in Items(t) : m < After(t) <=> m < k \/ m = k
        <5> SUFFICES ASSUME NEW m \in Items(t) PROVE m < After(t) <=> m < k \/ m = k
          OBVIOUS
        <5>1. IsItem(t[1], m) /\ Owner(t[1], m) = t
          BY <1>1, <1>2, <3>4, ThreadIs DEF IsItem, Owner, Items
        <5> QED BY <1>1, <5>1, Advance
      <4>3. i'[t] = After(t)
        BY <1>4
      <4> QED BY <4>1, <4>2, <4>3
    <3> DEFINE old == {m \in Items(t) : m < k}
    <3>6. acc'[t] = {<<t, l, Part(g, p, l)>> : l \in old \cup {k}}
      <4> HIDE DEF old, g, k, p
      <4>1. acc[t] = {<<t, l, Part(g, p, l)>> : l \in old}
        BY <3>1 DEF old
      <4> QED BY <3>3, <4>1
    <3> QED BY <2>2, <3>5, <3>6
  <2> QED BY <2>1, <2>2
<1>10. SamePass'
  BY <1>4, Fixed DEF Right, SamePass
<1> QED BY <1>5, <1>6, <1>7, <1>8, <1>9, <1>10 DEF Right

LEMMA ReduceRight == ASSUME Inv, Right, NEW g \in Blocks, Reduce(g) PROVE Right'
<1>1. /\ call \in Calls /\ Limit \in Nat /\ BlockSize \in Nat \ {0} /\ Passes \in {1, 2, 3}
  BY Sizes, PassCount DEF Inv, Types
<1>2. BlockOf(g) \subseteq Threads /\ (\A t \in BlockOf(g) : t[1] = g)
  BY DEF BlockOf, Threads
<1>3. \A t \in Threads : t[1] = g => t \in BlockOf(g)
  BY DEF BlockOf, Threads
<1>4. \A t \in BlockOf(g) : pass[t] < Passes /\ i[t] >= Limit
  BY DEF Reduce, Arrived
<1>5. /\ call' = call /\ mem' = mem /\ held' = held
      /\ \A t \in Threads :
           /\ total'[t] = IF t \in BlockOf(g) THEN Append(total[t], Reduced(UNION {acc[u] : u \in BlockOf(g)}))
                          ELSE total[t]
           /\ pass'[t] = IF t \in BlockOf(g) THEN pass[t] + 1 ELSE pass[t]
           /\ i'[t] = IF t \in BlockOf(g) THEN First(t) ELSE i[t]
           /\ acc'[t] = IF t \in BlockOf(g) THEN {} ELSE acc[t]
  BY DEF Reduce, GoOn
<1>6. ASSUME NEW t \in BlockOf(g)
      PROVE  /\ UNION {acc[u] : u \in BlockOf(g)} = Added(g, pass[t])
             /\ pass[t] \in 1 .. Passes
  <2>1. \A u \in BlockOf(g) : pass[u] = pass[t] /\ pass[t] < Passes /\ i[u] >= Limit
    BY <1>2, <1>4 DEF Right, SamePass
  <2>2. AccRight
    BY DEF Right
  <2> QED BY <1>2, <2>1, <2>2, BlockAdds DEF Inv, Types
<1>7. MemRight'
  <2> SUFFICES ASSUME NEW h \in Blocks, NEW l \in 0 .. Limit - 1, IsItem(h, l), NEW a \in Outs(h, l)
               PROVE  mem[a] = Stage(IF l < i'[Owner(h, l)] THEN pass'[Owner(h, l)] ELSE pass'[Owner(h, l)] - 1, a)
    BY <1>5, Fixed DEF MemRight, Done, Owner
  <2> DEFINE t == Owner(h, l)
  <2>1. t \in Threads
    BY <1>1, ItemOwner
  <2>2. mem[a] = Stage(Done(t, l), a)
    BY DEF Right, MemRight
  <2>3. CASE t \in BlockOf(g)
    <3>1. Done(t, l) = pass[t]
      <4>1. l < i[t]
        BY <1>1, <1>4, <2>1, <2>3 DEF Inv, Types
      <4> QED BY <4>1 DEF Done
    <3>2. ~(l < i'[t]) /\ pass'[t] - 1 = pass[t]
      BY <1>1, <1>5, <1>6, <2>1, <2>3, NoneBefore
    <3> QED BY <2>2, <3>1, <3>2
  <2>4. CASE t \notin BlockOf(g)
    BY <1>5, <2>1, <2>2, <2>4 DEF Done
  <2> QED BY <2>3, <2>4
<1>8. MemRest'
  BY <1>5, Fixed DEF Right, MemRest
<1>9. HeldRight'
  <2> SUFFICES ASSUME NEW t \in Threads, held[t] # <<>> PROVE held[t] = Reads(t[1], pass'[t], i'[t])
    BY <1>5, Fixed DEF HeldRight
  <2>1. t \notin BlockOf(g)
    BY <1>1, <1>4 DEF Inv, Own, Types
  <2> QED BY <1>5, <2>1 DEF Right, HeldRight
<1>10. TotalRight'
  <2> SUFFICES ASSUME NEW t \in Threads PROVE total'[t] = Results(t[1], pass'[t])
    BY <1>5, Fixed DEF TotalRight
  <2>1. CASE t \in BlockOf(g)
    <3>1. total[t] = Results(g, pass[t])
      BY <1>2, <2>1 DEF Right, TotalRight
    <3>2. Append(Results(g, pass[t]), Reduced(Added(g, pass[t]))) = Results(g, pass[t] + 1)
      BY <1>1, <1>4, <1>6, <2>1, NextResult
    <3> QED BY <1>2, <1>5, <1>6, <2>1, <3>1, <3>2
  <2>2. CASE t \notin BlockOf(g)
    BY <1>5, <2>2 DEF Right, TotalRight
  <2> QED BY <2>1, <2>2
<1>11. AccRight'
  <2> SUFFICES ASSUME NEW t \in Threads, pass'[t] < Passes
               PROVE  acc'[t] = {<<t, l, Part(t[1], pass'[t], l)>> : l \in {m \in Items(t) : m < i'[t]}}
    BY <1>5, Fixed DEF AccRight
  <2>1. CASE t \in BlockOf(g)
    <3>1. IsRow
      BY <1>1, <1>4, <1>6, <2>1, Sizes, PassesAre
    <3>2. \A m \in Items(t) : ~(m < First(t))
      <4> SUFFICES ASSUME NEW m \in Items(t) PROVE ~(m < First(t))
        OBVIOUS
      <4>1. IsItem(t[1], m) /\ Owner(t[1], m) = t
        BY <1>1, <3>1, ThreadIs DEF IsItem, Owner, Items
      <4> QED BY <1>1, <4>1, NoneBefore
    <3>3. {m \in Items(t) : m < i'[t]} = {}
      BY <1>5, <2>1, <3>2
    <3> QED BY <1>5, <2>1, <3>3
  <2>2. CASE t \notin BlockOf(g)
    BY <1>5, <2>2 DEF Right, AccRight
  <2> QED BY <2>1, <2>2
<1>12. SamePass'
  <2> SUFFICES ASSUME NEW t \in Threads, NEW u \in Threads, t[1] = u[1] PROVE pass'[t] = pass'[u]
    BY <1>5, Fixed DEF SamePass
  <2>1. t \in BlockOf(g) <=> u \in BlockOf(g)
    BY <1>2, <1>3
  <2>2. pass[t] = pass[u]
    BY DEF Right, SamePass
  <2>3. /\ pass'[t] = IF t \in BlockOf(g) THEN pass[t] + 1 ELSE pass[t]
        /\ pass'[u] = IF u \in BlockOf(g) THEN pass[u] + 1 ELSE pass[u]
    BY <1>5
  <2> QED BY <2>1, <2>2, <2>3
<1> QED BY <1>7, <1>8, <1>9, <1>10, <1>11, <1>12 DEF Right

LEMMA StepRight == Inv /\ Right /\ [Next]_vars => Right'
<1> SUFFICES ASSUME Inv, Right, [Next]_vars PROVE Right'
  OBVIOUS
<1>1. CASE UNCHANGED vars
  <2>1. call' = call /\ mem' = mem /\ pass' = pass /\ i' = i /\ held' = held /\ acc' = acc /\ total' = total
    BY <1>1 DEF vars
  <2>2. MemRight' /\ MemRest'
    BY <2>1, Fixed DEF Right, MemRight, MemRest, Done, Owner
  <2>3. HeldRight' /\ TotalRight' /\ AccRight' /\ SamePass'
    BY <2>1, Fixed DEF Right, HeldRight, TotalRight, AccRight, SamePass
  <2> QED BY <2>2, <2>3 DEF Right
<1> QED BY <1>1, ReadRight, WriteRight, ReduceRight DEF Next, ThreadStep, BlockStep

-----------------------------------------------------------------------------
(* When all have returned.                                                 *)

\* Every element of the output is one of some item, but the last of a head of
\* an odd headDim.
LEMMA Covered ==
  ASSUME call \in Calls, NEW x \in 0 .. call.rows * call.heads * call.n - 1,
         call.kernel = "RoPE" => x % call.n < 2 * half
  PROVE  \E g \in Blocks : \E k \in 0 .. Limit - 1 : IsItem(g, k) /\ <<call.out, x>> \in Outs(g, k)
<1>1. /\ call.kernel \in Kernels /\ call.n \in Nat /\ half \in Nat /\ call.rows \in Nat /\ call.heads \in Nat
      /\ BlockSize \in Nat \ {0} /\ Limit \in Nat
  BY Sizes
<1> DEFINE R == x \div call.n
           d == x % call.n
<1>2. R \in 0 .. call.rows * call.heads - 1 /\ d \in 0 .. call.n - 1 /\ x = R * call.n + d
  <2> DEFINE r == call.rows * call.heads
  <2>1. r \in Nat /\ x \in 0 .. r * call.n - 1
    BY <1>1
  <2> HIDE DEF r
  <2>2. R \in 0 .. r - 1 /\ d \in 0 .. call.n - 1 /\ x = R * call.n + d
    BY <1>1, <2>1, Quotient
  <2> QED BY <2>2 DEF r
<1>3. CASE call.kernel = "RoPE"
  <2> DEFINE g == R \div call.heads
             q == R % call.heads
             j == d \div 2
             e == d % 2
             k == q * half + j
  <2>1. Blocks = 0 .. call.rows - 1 /\ IsRow /\ Limit = call.heads * half /\ Wide = 2
    BY <1>3 DEF Blocks, Grid, IsRow, RowKernels, Limit, Wide
  <2>2. g \in 0 .. call.rows - 1 /\ q \in 0 .. call.heads - 1 /\ R = g * call.heads + q
    <3> HIDE DEF R
    <3> QED BY <1>1, <1>2, Quotient
  <2>3. j \in 0 .. half - 1 /\ e \in {0, 1} /\ d = 2 * j + e /\ j \in Nat
    <3>1. d < 2 * half /\ d \in Nat
      BY <1>2, <1>3
    <3> HIDE DEF d
    <3> QED BY <1>1, <3>1
  <2> HIDE DEF R, d, g, q, j, e
  <2>4. k \in 0 .. Limit - 1
    BY <1>1, <2>1, <2>2, <2>3, Inside
  <2>5. q = k \div half /\ j = k % half
    <3>1. half \in Nat \ {0} /\ q \in Nat
      BY <1>1, <2>2, <2>3
    <3> QED BY <2>3, <3>1, Remainder
  <2> HIDE DEF k
  <2>6. IsItem(g, k) /\ g \in Blocks
    BY <2>1, <2>2, <2>4 DEF IsItem
  <2>7. Place(g, k) = g * call.heads * call.n + q * call.n + 2 * j
    BY <1>1, <1>3, <2>5, PlaceIs
  <2>8. x = Place(g, k) + e
    <3>1. g \in Nat /\ q \in Nat
      BY <2>2
    <3>2. x = (g * call.heads + q) * call.n + (2 * j + e)
      BY <1>2, <2>2, <2>3
    <3> QED BY <1>1, <2>3, <2>7, <3>1, <3>2
  <2>9. e \in 0 .. Wide - 1
    BY <2>1, <2>3
  <2>10. <<call.out, x>> \in Outs(g, k)
    BY <2>8, <2>9 DEF Outs
  <2> QED BY <2>4, <2>6, <2>10
<1>4. CASE call.kernel \in {"RMSNorm", "Softmax"}
  <2>1. Blocks = 0 .. call.rows - 1 /\ IsRow /\ Limit = call.n /\ call.heads = 1 /\ Wide = 1
    BY <1>4, Sizes DEF Blocks, Grid, IsRow, RowKernels, Limit, Wide
  <2>2. R \in 0 .. call.rows - 1 /\ R \in Nat /\ d \in Nat
    <3>1. call.rows * call.heads = call.rows
      BY <1>1, <2>1
    <3> HIDE DEF R, d
    <3> QED BY <1>1, <1>2, <3>1
  <2> HIDE DEF R, d
  <2>3. IsItem(R, d) /\ R \in Blocks /\ d \in 0 .. Limit - 1
    BY <1>2, <2>1, <2>2 DEF IsItem
  <2>4. Place(R, d) = x
    BY <1>1, <1>2, <1>4, PlaceIs
  <2>5. <<call.out, x>> \in Outs(R, d)
    BY <2>1, <2>4 DEF Outs
  <2> QED BY <2>3, <2>5
<1>5. CASE ~IsRow
  <2> DEFINE g == x \div BlockSize
  <2>1. call.kernel # "RoPE"
    BY <1>5 DEF IsRow, RowKernels
  <2>2. Limit = call.n /\ call.heads = 1 /\ call.rows = 1 /\ Wide = 1
    BY <1>5, <2>1, Sizes DEF Limit, Wide
  <2>3. x \in 0 .. Limit - 1 /\ x \in Nat
    BY <1>1, <2>2
  <2>4. g \in Blocks
    <3> DEFINE b == BlockSize
               m == (call.n + b - 1) \div b
               s == (call.n + b - 1) % b
               r == x % b
    <3>1. /\ b \in Nat /\ b > 0 /\ g \in Nat /\ m \in Nat /\ r \in 0 .. b - 1 /\ s \in 0 .. b - 1
          /\ x = g * b + r /\ call.n + b - 1 = m * b + s
      <4> DEFINE y == call.n + b - 1
      <4>1. b \in Nat \ {0} /\ x \in Nat /\ y \in Nat
        BY <1>1, <2>3
      <4>2. g \in Nat /\ r \in 0 .. b - 1 /\ x = g * b + r
        BY <4>1
      <4>3. y \div b \in Nat /\ y % b \in 0 .. b - 1 /\ y = (y \div b) * b + (y % b)
        <5> HIDE DEF b, y
        <5> QED BY <4>1
      <4> QED BY <4>1, <4>2, <4>3
    <3> HIDE DEF g, m, r, s, b
    <3>2. ~(g >= m)
      <4> SUFFICES ASSUME g >= m PROVE FALSE
        OBVIOUS
      <4> DEFINE c == g - m
      <4>1. c \in Nat /\ g = m + c
        BY <3>1
      <4>2. g * b = m * b + c * b /\ c * b \in Nat /\ m * b \in Nat
        BY <3>1, <4>1
      <4>3. x + 1 <= call.n
        BY <1>1, <2>2, <2>3
      <4> HIDE DEF c
      <4> QED BY <1>1, <2>3, <3>1, <4>2, <4>3
    <3>3. g \in 0 .. m - 1
      BY <3>1, <3>2
    <3> QED BY <1>5, <3>3 DEF Blocks, Grid, m, b
  <2>5. IsItem(g, x)
    BY <2>3, <2>4 DEF IsItem
  <2>6. <<call.out, x>> \in Outs(g, x)
    <3>1. Place(g, x) = x /\ x + 0 = x
      BY <1>1, <1>5, <2>3, PlaceIs
    <3> QED BY <2>2, <3>1 DEF Outs
  <2> QED BY <2>3, <2>4, <2>5, <2>6
<1> QED BY <1>1, <1>3, <1>4, <1>5 DEF Kernels, IsRow, RowKernels

LEMMA RightAsTwin == Inv /\ Right => AsTwin
<1> SUFFICES ASSUME Inv, Right, \A t \in Threads : pass[t] = Passes /\ i[t] >= Limit, NEW a \in Cells
             PROVE  mem[a] = IF InOut(a) THEN Twin(a[2]) ELSE Before[a]
  BY DEF AsTwin
<1>1. /\ call \in Calls /\ call.kernel \in Kernels /\ Limit \in Nat /\ call.n \in Nat
      /\ call.rows * call.heads * call.n \in Int
  BY Sizes DEF Inv, Types
<1>2. CASE \E g \in Blocks : \E k \in 0 .. Limit - 1 : IsItem(g, k) /\ a \in Outs(g, k)
  <2>1. PICK g \in Blocks, k \in 0 .. Limit - 1 : IsItem(g, k) /\ a \in Outs(g, k)
    BY <1>2
  <2>2. mem[a] = Stage(Done(Owner(g, k), k), a)
    BY <2>1 DEF Right, MemRight
  <2>3. Done(Owner(g, k), k) = Passes
    <3>1. Owner(g, k) \in Threads /\ k \in Nat
      BY <1>1, <2>1, ItemOwner
    <3>2. k < i[Owner(g, k)]
      BY <1>1, <2>1, <3>1 DEF Inv, Types
    <3> QED BY <3>1, <3>2 DEF Done
  <2>4. mem[a] = Twin(a[2])
    BY <2>2, <2>3 DEF Stage
  <2>5. InOut(a)
    <3>1. PICK e \in 0 .. Wide - 1 : a = <<call.out, Place(g, k) + e>>
      BY <2>1 DEF Outs
    <3>2. Place(g, k) + e \in 0 .. call.rows * call.heads * call.n - 1
      BY <1>1, <2>1, OutsInside
    <3>3. Place(g, k) + e < call.rows * call.heads * call.n
      BY <1>1, <3>2
    <3> QED BY <3>1, <3>3 DEF InOut
  <2> QED BY <2>4, <2>5
<1>3. CASE ~\E g \in Blocks : \E k \in 0 .. Limit - 1 : IsItem(g, k) /\ a \in Outs(g, k)
  <2>1. mem[a] = Before[a]
    BY <1>3 DEF Right, MemRest
  <2> SUFFICES ASSUME InOut(a) PROVE Twin(a[2]) = Before[a]
    BY <2>1
  <2>2. a = <<call.out, a[2]>> /\ a[2] \in 0 .. call.rows * call.heads * call.n - 1 /\ a[2] \in Nat
    <3>1. a = <<a[1], a[2]>> /\ a[2] \in Nat
      BY <1>1, Sizes DEF Cells
    <3> QED BY <1>1, <3>1 DEF InOut
  <2>3. call.kernel = "RoPE" /\ ~(a[2] % call.n < 2 * half)
    BY <1>1, <1>3, <2>2, Covered
  <2>4. Twin(a[2]) = Rotated(a[2])
    BY <1>1, <2>3, TwinIs
  <2>5. Rotated(a[2]) = Before[<<call.in, a[2]>>]
    BY <2>3, Zenon DEF Rotated
  <2>6. call.in = call.out
    BY <1>1, <2>3, CallsAssumption
  <2> QED BY <2>2, <2>4, <2>5, <2>6
<1> QED BY <1>2, <1>3

\* Whatever the order in which the threads run, in place or not where
\* CallsAssumption allows it, and whatever the sizes: the output is what the CPU
\* twin makes of the same memory.
THEOREM Computed == Spec => []AsTwin
<1>1. Init => Inv /\ Right
  BY InitInv, InitRight
<1>2. Inv /\ Right /\ [Next]_vars => (Inv /\ Right)'
  BY StepInv, StepRight
<1>3. Inv /\ Right => AsTwin
  BY RightAsTwin
<1> QED BY <1>1, <1>2, <1>3, PTL DEF Spec

\* Every variable has its type, and a thread has as many results as loops behind it.
THEOREM TypeCorrect == Spec => []TypeOK
<1>1. Init => Inv /\ Right
  BY InitInv, InitRight
<1>2. Inv /\ Right /\ [Next]_vars => (Inv /\ Right)'
  BY StepInv, StepRight
<1>3. Inv /\ Right => TypeOK
  <2> SUFFICES ASSUME Inv, Right PROVE TypeOK
    OBVIOUS
  <2>1. Passes \in {1, 2, 3} /\ call \in Calls /\ call.kernel \in Kernels
    BY PassCount, Sizes DEF Inv, Types
  <2>2. ASSUME NEW t \in Threads PROVE Len(total[t]) = pass[t] - 1
    <3>1. total[t] = Results(t[1], pass[t]) /\ pass[t] \in 1 .. Passes
      BY DEF Right, TotalRight, Inv, Types
    <3>2. call.kernel = "RMSNorm" => Passes = 2
      BY <2>1, PassesAre
    <3> QED BY <2>1, <3>1, <3>2 DEF Results
  <2>3. DOMAIN mem = Cells
    BY DEF Inv, Types
  <2> QED BY <2>2, <2>3 DEF TypeOK, Inv, Types, Own
<1> QED BY <1>1, <1>2, <1>3, PTL DEF Spec

\* A block that has not returned can go on: its threads are all in the same
\* loop, so where one waits in a reduction, none has left the last loop.
THEOREM AlwaysReady == Spec => []NeverStuck
<1>1. Init => Inv /\ Right
  BY InitInv, InitRight
<1>2. Inv /\ Right /\ [Next]_vars => (Inv /\ Right)'
  BY StepInv, StepRight
<1>3. Inv /\ Right => NeverStuck
  <2> SUFFICES ASSUME Inv, Right, NEW g \in Blocks, NEW t \in BlockOf(g), ~(pass[t] = Passes /\ i[t] >= Limit),
                      \A u \in BlockOf(g) : ~(i[u] < Limit)
               PROVE  BlockOf(g) = Arrived(g)
    BY DEF NeverStuck, Ready
  <2>1. Limit \in Nat /\ Passes \in {1, 2, 3}
    BY PassCount, Sizes DEF Inv, Types
  <2>2. \A u \in BlockOf(g) : u \in Threads /\ u[1] = g
    BY DEF BlockOf, Threads
  <2>3. \A u \in BlockOf(g) : i[u] \in Nat /\ pass[u] \in 1 .. Passes
    BY <2>2 DEF Inv, Types
  <2>4. \A u \in BlockOf(g) : i[u] >= Limit
    BY <2>1, <2>3
  <2>5. \A u \in BlockOf(g) : pass[u] = pass[t]
    BY <2>2 DEF Right, SamePass
  <2>6. pass[t] < Passes
    BY <2>1, <2>3, <2>4
  <2> QED BY <2>4, <2>5, <2>6 DEF Arrived
<1> QED BY <1>1, <1>2, <1>3, PTL DEF Spec

\* Thread t is in a later loop, at a later item, or has read its item.
Further(t) ==
  \/ pass'[t] > pass[t]
  \/ pass'[t] = pass[t] /\ i'[t] > i[t]
  \/ pass'[t] = pass[t] /\ i'[t] = i[t] /\ held[t] = <<>> /\ held'[t] # <<>>

Still(t) == pass'[t] = pass[t] /\ i'[t] = i[t] /\ held'[t] = held[t]

Advances == /\ \A t \in Threads : Further(t) \/ Still(t)
            /\ \E t \in Threads : Further(t)

\* A step takes a thread further, or a block, and nobody back: a launch has no
\* more steps than loops and items.  With a block that can always go on, every
\* thread returns.
THEOREM EveryStepAdvances == Spec => [][Advances]_vars
<1>1. Init => Inv /\ Right
  BY InitInv, InitRight
<1>2. Inv /\ Right /\ [Next]_vars => (Inv /\ Right)'
  BY StepInv, StepRight
<1>3. Inv /\ Right /\ [Next]_vars => [Advances]_vars
  <2> SUFFICES ASSUME Inv, Right, Next, ~(UNCHANGED vars) PROVE Advances
    OBVIOUS
  <2>1. /\ pass \in [Threads -> 1 .. Passes] /\ i \in [Threads -> Nat] /\ DOMAIN held = Threads
        /\ Passes \in {1, 2, 3} /\ BlockSize \in Nat \ {0} /\ Limit \in Nat
    BY PassCount, Sizes, CallsAssumption DEF Inv, Types
  <2>2. ASSUME NEW t \in Threads, Read(t) PROVE Advances
    <3>1. pass' = pass /\ i' = i /\ held[t] = <<>> /\ \A u \in Threads \ {t} : held'[u] = held[u]
      BY <2>1, <2>2 DEF Read
    <3>2. held'[t] # <<>>
      <4> SUFFICES ASSUME held'[t] = <<>> PROVE FALSE
        OBVIOUS
      <4>1. PICK x : held' = [held EXCEPT ![t] = x]
        BY <2>2 DEF Read
      <4>2. held = [u \in Threads |-> held[u]] /\ held' = [u \in Threads |-> held'[u]]
        BY <4>1 DEF Inv, Types
      <4>3. \A u \in Threads : held'[u] = held[u]
        BY <3>1
      <4>4. held' = held
        BY <4>2, <4>3, Zenon
      <4> QED BY <2>2, <4>4 DEF Read, vars
    <3> QED BY <3>1, <3>2 DEF Advances, Further, Still
  <2>3. ASSUME NEW t \in Threads, Write(t) PROVE Advances
    <3>1. pass' = pass /\ i' = [i EXCEPT ![t] = After(t)] /\ \A u \in Threads \ {t} : held'[u] = held[u]
      BY <2>1, <2>3 DEF Write
    <3>2. i[t] < Limit
      BY <2>3 DEF Write, Inv, Types, Own
    <3>3. i'[t] > i[t] /\ \A u \in Threads \ {t} : i'[u] = i[u]
      BY <2>1, <3>1, <3>2 DEF After
    <3> QED BY <3>1, <3>3 DEF Advances, Further, Still
  <2>4. ASSUME NEW g \in Blocks, Reduce(g) PROVE Advances
    <3>1. /\ \A t \in Threads : pass'[t] = IF t \in BlockOf(g) THEN pass[t] + 1 ELSE pass[t]
          /\ \A t \in Threads : t \notin BlockOf(g) => i'[t] = i[t]
          /\ held' = held
      BY <2>4 DEF Reduce, GoOn
    <3>2. <<g, 0>> \in Threads /\ <<g, 0>> \in BlockOf(g)
      BY <2>1 DEF Threads, BlockOf, Tids
    <3> QED BY <2>1, <3>1, <3>2 DEF Advances, Further, Still
  <2> QED BY <2>2, <2>3, <2>4 DEF Next, ThreadStep, BlockStep
<1> QED BY <1>1, <1>2, <1>3, PTL DEF Spec
=============================================================================
