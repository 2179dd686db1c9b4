--------------------------- MODULE ModelFileProofs ---------------------------
(***************************************************************************)
(* Proofs about a model's file and its loading.                            *)
(*                                                                         *)
(* ModelLoad, for every number of layers: the closers are the pieces       *)
(* acquired so far, in order, and the live pieces are those plus the one   *)
(* being acquired.                                                         *)
(*                                                                         *)
(* Gguf, for every set of keys, values (Value and []Value too) and tensors *)
(* that the writer takes, and every cut of the file: if the values are     *)
(* regular, each of a type that is listed and the elements of an array all *)
(* of its Elem, then the places where the writer puts each entry are the   *)
(* places where the reader looks for it (Inv), because what is written is  *)
(* a sequence of parts and reading a part moves past it.                   *)
(***************************************************************************)
EXTENDS ModelLoad, Gguf, SequenceTheorems, WellFoundedInduction, TLAPS

-----------------------------------------------------------------------------
(* Loading: ModelLoad.                                                      *)

\* The one piece that is allocated and not yet registered.
Held == IF pc \in {"fill", "shape", "register"} THEN {at} ELSE {}

\* m.closers holds the pieces 1, 2, ... up to the one being acquired.
ClosersInOrder ==
  /\ \A k \in 1 .. Len(closers) : closers[k] = k
  /\ pc \in {"check", "fill", "shape", "register"} => Len(closers) = at - 1
  /\ pc = "headshape" => Len(closers) = at
  /\ pc = "loaded" => Len(closers) = NumPieces
  /\ pc \in {"failed", "closed"} => Len(closers) = 0

LiveIsOwned == live = (1 .. Len(closers)) \cup Held

FreedIsDead ==
  /\ FreedOnce
  /\ pc \notin {"unwind", "failed", "closed"} => \A i \in Pieces : frees[i] = 0

\* The inductive invariant.
IInv == TypeOK /\ ClosersInOrder /\ LiveIsOwned /\ FreedIsDead

\* There is a piece to begin with: the number of pieces is positive.
LEMMA NumPiecesNat == NumPieces \in Nat /\ NumPieces >= 14
  BY LayersAssumption DEF NumPieces, InLayers, PerLayer, LayerPieces, TopPieces

\* Load starts with nothing acquired.
LEMMA InitIInv == LoadInit => IInv
<1> SUFFICES ASSUME LoadInit PROVE IInv
  OBVIOUS
<1>1. closers = <<>> /\ Len(closers) = 0 /\ pc = "check" /\ at = 1 /\ live = {}
  BY DEF LoadInit
<1>2. frees \in [Pieces -> Nat] /\ \A i \in Pieces : frees[i] = 0
  BY DEF LoadInit
<1>3. closers \in Seq(Pieces)
  BY <1>1
<1>5. at \in Pieces /\ pc \in Points
  BY <1>1, NumPiecesNat DEF Points, Pieces
<1>6. TypeOK
  BY <1>1, <1>2, <1>3, <1>5 DEF TypeOK
<1>7. ClosersInOrder /\ LiveIsOwned /\ FreedIsDead
  BY <1>1, <1>2 DEF ClosersInOrder, LiveIsOwned, FreedIsDead, FreedOnce, Held
<1> QED BY <1>6, <1>7 DEF IInv

\* In a state of the invariant, piece i is closed at the one index i.
LEMMA OccurrencesAre ==
  ASSUME IInv, NEW i \in Pieces
  PROVE  Occurrences(i) = IF i \in 1 .. Len(closers) THEN {i} ELSE {}
  BY DEF IInv, TypeOK, ClosersInOrder, Occurrences, CloseIndices, Pieces

\* Closing the model frees every live piece once and leaves none.
LEMMA CloseKeepsIInv ==
  ASSUME IInv, NEW from \in {"unwind", "loaded", "closed"}, NEW to \in {"failed", "closed"},
         CloseModel(from, to)
  PROVE  IInv'
<1>1. Held = {} /\ live = 1 .. Len(closers)
  BY DEF IInv, LiveIsOwned, Held, CloseModel
<1>2. live' = {}
  BY <1>1, OccurrencesAre DEF CloseModel, IInv, TypeOK, Pieces
<1>3. closers' = <<>> /\ pc' = to /\ at' = at
  BY DEF CloseModel
<1>4. ASSUME NEW i \in Pieces
      PROVE  frees'[i] = IF i \in live THEN frees[i] + 1 ELSE frees[i]
  BY <1>1, OccurrencesAre DEF CloseModel
<1>5. \A i \in Pieces : i \in live => frees[i] = 0
  BY DEF IInv, TypeOK, FreedIsDead, FreedOnce
<1>6. frees' \in [Pieces -> Nat]
  <2>1. frees' = [i \in Pieces |-> frees'[i]]
    BY DEF CloseModel
  <2>2. \A i \in Pieces : frees'[i] \in Nat
    BY <1>4 DEF IInv, TypeOK
  <2> QED BY <2>1, <2>2
<1>8. TypeOK'
  BY <1>2, <1>3, <1>6 DEF TypeOK, IInv, Points
<1>9. ClosersInOrder'
  BY <1>3 DEF ClosersInOrder
<1>10. LiveIsOwned'
  BY <1>2, <1>3 DEF LiveIsOwned, Held
<1>11. FreedIsDead'
  BY <1>2, <1>3, <1>4, <1>5 DEF FreedIsDead, FreedOnce, IInv, TypeOK
<1> QED BY <1>8, <1>9, <1>10, <1>11 DEF IInv

\* Every other step of load keeps the invariant.
LEMMA NextIInv == IInv /\ [LoadNext]_loadVars => IInv'
<1> SUFFICES ASSUME IInv, [LoadNext]_loadVars PROVE IInv'
  OBVIOUS
<1> USE NumPiecesNat
    DEF IInv, TypeOK, ClosersInOrder, LiveIsOwned, FreedIsDead, FreedOnce, Held, Pieces, Points, Fail
<1>1. CASE Refuse
  BY <1>1 DEF Refuse
<1>2. CASE Alloc
  BY <1>2 DEF Alloc
<1>3. CASE Fill
  BY <1>3 DEF Fill
<1>4. CASE FillFails
  BY <1>4 DEF FillFails
<1>5. CASE ShapeFits
  BY <1>5 DEF ShapeFits
<1>6. CASE ShapeMismatch
  BY <1>6 DEF ShapeMismatch
<1>7. CASE Register
  BY <1>7 DEF Register, RegisterOne, Advance
<1>8. CASE HeadShapeFits
  BY <1>8 DEF HeadShapeFits, Advance
<1>9. CASE HeadShapeMismatch
  BY <1>9 DEF HeadShapeMismatch
<1>10. CASE CloseModel("unwind", "failed") \/ CloseModel("loaded", "closed") \/ CloseModel("closed", "closed")
  BY <1>10, CloseKeepsIInv
<1>11. CASE UNCHANGED loadVars
  BY <1>11 DEF loadVars
<1> QED BY <1>1, <1>2, <1>3, <1>4, <1>5, <1>6, <1>7, <1>8, <1>9, <1>10, <1>11 DEF LoadNext

\* The invariant holds in every state of a load and what follows it.
LEMMA SpecIInv == LoadSpec => []IInv
  BY InitIInv, NextIInv, PTL DEF LoadSpec

\* The state of a load always has its type.
THEOREM TypeCorrect == LoadSpec => []TypeOK
<1>1. IInv => TypeOK
  BY DEF IInv
<1> QED BY <1>1, SpecIInv, PTL

\* No device memory outlives a failed Load or a closed model, and a loaded
\* model has every piece, for any number of layers.
THEOREM NothingLeaks == LoadSpec => []NoLeak
<1>1. IInv => NoLeak
  BY NumPiecesNat DEF IInv, TypeOK, NoLeak, LiveIsOwned, ClosersInOrder, Held, Pieces
<1> QED BY <1>1, SpecIInv, PTL

\* No device memory is freed twice, for any number of layers.
THEOREM EachFreedOnce == LoadSpec => []FreedOnce
<1>1. IInv => FreedOnce
  BY DEF IInv, FreedIsDead
<1> QED BY <1>1, SpecIInv, PTL

-----------------------------------------------------------------------------
(* The file: Gguf. Numbers, and the arithmetic of its alignment.            *)

\* The powers of two below 256.
Powers == {1, 2, 4, 8, 16, 32, 64, 128}

\* A number modulo 64 and 128 is the sum of its bits below.
LEMMA SumOfBits ==
  ASSUME NEW x \in Nat
  PROVE  LET b(w) == w * ((x \div w) % 2)
         IN  /\ x % 64 = b(1) + b(2) + b(4) + b(8) + b(16) + b(32)
             /\ x % 128 = b(1) + b(2) + b(4) + b(8) + b(16) + b(32) + b(64)
<1> DEFINE b(w) == w * ((x \div w) % 2)
           m(a) == x % a
<1>1. m(64) = m(32) + b(32) /\ m(128) = m(64) + b(64)
  <2>1. x % 64 = (x % 32) + 32 * ((x \div 32) % 2)
    OBVIOUS
  <2>2. x % 128 = (x % 64) + 64 * ((x \div 64) % 2)
    OBVIOUS
  <2> QED BY <2>1, <2>2
<1>2. m(32) = b(1) + b(2) + b(4) + b(8) + b(16)
  OBVIOUS
<1>3. /\ b(1) \in Nat /\ b(2) \in Nat /\ b(4) \in Nat /\ b(8) \in Nat /\ b(16) \in Nat
      /\ b(32) \in Nat /\ b(64) \in Nat
  OBVIOUS
<1> HIDE DEF b, m
<1>4. m(64) = b(1) + b(2) + b(4) + b(8) + b(16) + b(32)
  BY <1>1, <1>2, <1>3
<1>5. m(128) = b(1) + b(2) + b(4) + b(8) + b(16) + b(32) + b(64)
  BY <1>1, <1>3, <1>4
<1> QED BY <1>4, <1>5 DEF b, m

\* The low bits of a number.
LEMMA LowBits ==
  ASSUME NEW x \in Nat, NEW a \in Powers
  PROVE  And(x, a - 1) = x % a
<1> DEFINE b(w) == w * ((x \div w) % 2)
<1>1. CASE a \in {1, 2, 4, 8}
  <2>1. And(x, 0) = x % 1 /\ And(x, 1) = x % 2
    BY DEF And
  <2>2. And(x, 3) = x % 4 /\ And(x, 7) = x % 8
    BY DEF And
  <2> QED BY <1>1, <2>1, <2>2
<1>2. CASE a = 16
  BY <1>2 DEF And
<1>3. CASE a = 32
  BY <1>3 DEF And
<1>4. CASE a = 64
  <2>1. And(x, 63) = b(1) + b(2) + b(4) + b(8) + b(16) + b(32)
    BY DEF And
  <2>2. And(x, 63) = x % 64
    BY <2>1, SumOfBits, Zenon
  <2>3. a - 1 = 63
    BY <1>4
  <2> QED BY <1>4, <2>2, <2>3, Zenon
<1>5. CASE a = 128
  <2>1. And(x, 127) = b(1) + b(2) + b(4) + b(8) + b(16) + b(32) + b(64)
    BY DEF And
  <2>2. And(x, 127) = x % 128
    BY <2>1, SumOfBits, Zenon
  <2>3. a - 1 = 127
    BY <1>5
  <2> QED BY <1>5, <2>2, <2>3, Zenon
<1> QED BY <1>1, <1>2, <1>3, <1>4, <1>5 DEF Powers

\* A bit that two numbers share, with its weight.
Shared(w, x, y) == w * ((x \div w) % 2) * ((y \div w) % 2)

\* It is no less than nothing, and all its weight when both have it.
LEMMA SharedIs ==
  ASSUME NEW w \in Nat \ {0}, NEW x \in Nat, NEW y \in Nat
  PROVE  /\ Shared(w, x, y) \in Nat
         /\ x \div w = 1 /\ y \div w = 1 => Shared(w, x, y) = w
<1> DEFINE m == (x \div w) % 2
           n == (y \div w) % 2
<1>1. x \div w \in Nat /\ y \div w \in Nat
  OBVIOUS
<1>2. m \in {0, 1} /\ n \in {0, 1}
  <2> DEFINE c == x \div w
             d == y \div w
  <2> HIDE DEF c, d
  <2>1. c \in Nat /\ d \in Nat
    BY <1>1 DEF c, d
  <2>2. c % 2 \in {0, 1} /\ d % 2 \in {0, 1}
    BY <2>1
  <2> QED BY <2>2 DEF c, d
<1>3. x \div w = 1 /\ y \div w = 1 => m = 1 /\ n = 1
  OBVIOUS
<1>4. Shared(w, x, y) = w * m * n
  BY DEF Shared
<1> HIDE DEF m, n
<1> QED BY <1>2, <1>3, <1>4

\* A byte shares no bit with its predecessor just when it is a power of two.
LEMMA PowerTest ==
  ASSUME NEW a \in 1 .. 255
  PROVE  And(a, a - 1) = 0 <=> a \in Powers
<1> DEFINE b(w) == Shared(w, a, a - 1)
<1>1. And(a, a - 1) = b(1) + b(2) + b(4) + b(8) + b(16) + b(32) + b(64) + b(128)
  BY DEF And, Shared
<1>2. ASSUME a \in Powers PROVE And(a, a - 1) = 0
  BY <1>2 DEF And, Powers
<1>3. \A w \in Nat \ {0} : b(w) \in Nat /\ (a \div w = 1 /\ (a - 1) \div w = 1 => b(w) = w)
  BY SharedIs
<1>4. ASSUME a \notin Powers
      PROVE  \E w \in Powers : a \div w = 1 /\ (a - 1) \div w = 1
  <2>1. \/ a \in 3 .. 3 \/ a \in 5 .. 7 \/ a \in 9 .. 15 \/ a \in 17 .. 31 \/ a \in 33 .. 63 \/ a \in 65 .. 127 \/ a \in 129 .. 255
    BY <1>4 DEF Powers
  <2>2. /\ a \in 3 .. 3 => a \div 2 = 1 /\ (a - 1) \div 2 = 1
        /\ a \in 5 .. 7 => a \div 4 = 1 /\ (a - 1) \div 4 = 1
        /\ a \in 9 .. 15 => a \div 8 = 1 /\ (a - 1) \div 8 = 1
        /\ a \in 17 .. 31 => a \div 16 = 1 /\ (a - 1) \div 16 = 1
        /\ a \in 33 .. 63 => a \div 32 = 1 /\ (a - 1) \div 32 = 1
        /\ a \in 65 .. 127 => a \div 64 = 1 /\ (a - 1) \div 64 = 1
        /\ a \in 129 .. 255 => a \div 128 = 1 /\ (a - 1) \div 128 = 1
    OBVIOUS
  <2> QED BY <2>1, <2>2 DEF Powers
<1>5. ASSUME a \notin Powers PROVE And(a, a - 1) # 0
  <2>1. PICK w \in Powers : a \div w = 1 /\ (a - 1) \div w = 1
    BY <1>4, <1>5
  <2>2. b(w) = w /\ w > 0
    BY <1>3, <2>1 DEF Powers
  <2>3. /\ b(1) \in Nat /\ b(2) \in Nat /\ b(4) \in Nat /\ b(8) \in Nat
        /\ b(16) \in Nat /\ b(32) \in Nat /\ b(64) \in Nat /\ b(128) \in Nat
    BY <1>3
  <2> HIDE DEF b
  <2> QED BY <1>1, <2>1, <2>2, <2>3 DEF Powers
<1> QED BY <1>2, <1>5

\* Quotient and remainder, and that they are the only ones.
LEMMA Divided ==
  ASSUME NEW a \in Nat \ {0}, NEW x \in Nat
  PROVE  \E q \in Nat, m \in 0 .. a - 1 : x = q * a + m /\ x % a = m
<1> DEFINE q == x \div a
           m == x % a
<1>1. q \in Nat /\ m \in 0 .. a - 1 /\ x = q * a + m
  OBVIOUS
<1> HIDE DEF q
<1> QED BY <1>1

LEMMA Remains ==
  ASSUME NEW a \in Nat \ {0}, NEW q \in Nat, NEW m \in 0 .. a - 1
  PROVE  (q * a + m) % a = m
<1> DEFINE x == q * a + m
<1>1. x \in Nat /\ x = a * q + m
  OBVIOUS
<1> HIDE DEF x
<1>2. x % a = m
  BY <1>1
<1> QED BY <1>2 DEF x

\* What is missing to the next multiple: the bytes that Pad adds.
Gap(x, a) == (a - (x % a)) % a

LEMMA GapIs ==
  ASSUME NEW a \in Nat \ {0}, NEW x \in Nat
  PROVE  /\ Gap(x, a) \in 0 .. a - 1
         /\ (x + Gap(x, a)) % a = 0
         /\ Gap(x, a) = IF x % a = 0 THEN 0 ELSE a - (x % a)
<1>1. PICK q \in Nat, m \in 0 .. a - 1 : x = q * a + m /\ x % a = m
  BY Divided
<1>2. CASE m = 0
  <2>1. (1 * a + 0) % a = 0 /\ (q * a + 0) % a = 0
    BY Remains
  <2>2. Gap(x, a) = 0
    BY <1>1, <1>2, <2>1 DEF Gap
  <2>3. (x + 0) % a = 0
    BY <1>1, <1>2, <2>1
  <2> QED BY <1>1, <1>2, <2>2, <2>3
<1>3. CASE m # 0
  <2>1. (0 * a + (a - m)) % a = a - m
    BY <1>3, Remains
  <2>2. (q + 1) * a = q * a + a
    OBVIOUS
  <2>3. ((q + 1) * a + 0) % a = 0
    BY Remains
  <2>4. Gap(x, a) = a - m
    BY <1>1, <2>1 DEF Gap
  <2>5. x + (a - m) = (q + 1) * a + 0
    BY <1>1, <2>2
  <2> QED BY <1>1, <1>3, <2>3, <2>4, <2>5
<1> QED BY <1>2, <1>3

\* alignUp goes to the next multiple.
LEMMA AlignUpIs ==
  ASSUME NEW x \in Nat, NEW a \in Powers
  PROVE  /\ AlignUp(x, a) = x + Gap(x, a)
         /\ AlignUp(x, a) \in Nat
         /\ AlignUp(x, a) % a = 0
<1>0. a \in Nat \ {0} /\ x + a - 1 \in Nat
  BY DEF Powers
<1>1. AlignUp(x, a) = (x + a - 1) - ((x + a - 1) % a)
  BY <1>0, LowBits DEF AlignUp
<1>2. PICK q \in Nat, m \in 0 .. a - 1 : x = q * a + m /\ x % a = m
  BY <1>0, Divided
<1>3. AlignUp(x, a) = IF m = 0 THEN x ELSE x + (a - m)
  <2>1. CASE m = 0
    <3>1. (q * a + (a - 1)) % a = a - 1
      BY <1>0, Remains
    <3>2. x + a - 1 = q * a + (a - 1)
      BY <1>0, <1>2, <2>1
    <3>3. AlignUp(x, a) = (x + a - 1) - (a - 1)
      BY <1>1, <3>1, <3>2, Zenon
    <3> QED BY <1>0, <2>1, <3>3
  <2>2. CASE m # 0
    <3>1. ((q + 1) * a + (m - 1)) % a = m - 1
      BY <1>0, <2>2, Remains
    <3>2. x + a - 1 = (q + 1) * a + (m - 1)
      BY <1>0, <1>2, <2>2
    <3>3. AlignUp(x, a) = (x + a - 1) - (m - 1)
      BY <1>1, <3>1, <3>2, Zenon
    <3> QED BY <1>0, <2>2, <3>3
  <2> QED BY <2>1, <2>2
<1>4. Gap(x, a) = IF m = 0 THEN 0 ELSE a - m
  BY <1>0, <1>2, GapIs
<1>5. (x + Gap(x, a)) % a = 0
  BY <1>0, GapIs
<1>6. AlignUp(x, a) = x + Gap(x, a) /\ x + Gap(x, a) \in Nat
  BY <1>0, <1>2, <1>3, <1>4
<1> QED BY <1>5, <1>6, Zenon

\* The numbers that a shared bit adds are those of x, so that no more than x
\* is taken away: alignUp of a number is a number, whatever byte a is.
LEMMA AlignUpNat ==
  ASSUME NEW x \in Nat, NEW a \in 1 .. 255
  PROVE  AlignUp(x, a) \in Nat
<1> DEFINE y == x + a - 1
           b(w) == w * ((y \div w) % 2)
           c(w) == Shared(w, y, a - 1)
<1>1. y \in Nat /\ a - 1 \in Nat
  OBVIOUS
<1> HIDE DEF y
<1>2. ASSUME NEW w \in Nat \ {0} PROVE c(w) \in 0 .. b(w) /\ b(w) \in Nat
  <2> DEFINE m == (y \div w) % 2
             n == ((a - 1) \div w) % 2
  <2>1. y \div w \in Nat /\ (a - 1) \div w \in Nat
    BY <1>1
  <2>2. m \in {0, 1} /\ n \in {0, 1}
    <3> DEFINE d == y \div w
               e == (a - 1) \div w
    <3> HIDE DEF d, e
    <3>1. d \in Nat /\ e \in Nat
      BY <2>1 DEF d, e
    <3>2. d % 2 \in {0, 1} /\ e % 2 \in {0, 1}
      BY <3>1
    <3> QED BY <3>2 DEF d, e
  <2>3. c(w) = w * m * n /\ b(w) = w * m
    BY DEF Shared
  <2> HIDE DEF m, n, b, c
  <2> QED BY <2>2, <2>3
<1>3. y % 256 = (y % 128) + 128 * ((y \div 128) % 2)
  BY <1>1
<1>4. y % 128 = b(1) + b(2) + b(4) + b(8) + b(16) + b(32) + b(64)
  BY <1>1, SumOfBits, Zenon
<1>5. y % 256 = b(1) + b(2) + b(4) + b(8) + b(16) + b(32) + b(64) + b(128) /\ y % 256 <= y
  <2>1. y % 256 <= y
    BY <1>1
  <2> DEFINE m(k) == y % k
  <2>2. m(256) = m(128) + b(128) /\ m(128) = b(1) + b(2) + b(4) + b(8) + b(16) + b(32) + b(64)
    BY <1>3, <1>4
  <2> HIDE DEF m, b
  <2>3. m(256) = b(1) + b(2) + b(4) + b(8) + b(16) + b(32) + b(64) + b(128)
    BY <2>2, Zenon
  <2> QED BY <2>1, <2>3, Zenon DEF m
<1>6. And(y, a - 1) = c(1) + c(2) + c(4) + c(8) + c(16) + c(32) + c(64) + c(128)
  BY DEF And, Shared
<1>7. /\ c(1) \in 0 .. b(1) /\ c(2) \in 0 .. b(2) /\ c(4) \in 0 .. b(4) /\ c(8) \in 0 .. b(8)
      /\ c(16) \in 0 .. b(16) /\ c(32) \in 0 .. b(32) /\ c(64) \in 0 .. b(64) /\ c(128) \in 0 .. b(128)
  BY <1>2
<1>8. /\ b(1) \in Nat /\ b(2) \in Nat /\ b(4) \in Nat /\ b(8) \in Nat
      /\ b(16) \in Nat /\ b(32) \in Nat /\ b(64) \in Nat /\ b(128) \in Nat
  BY <1>2
<1>9. AlignUp(x, a) = y - And(y, a - 1)
  BY DEF AlignUp, y
<1> DEFINE z == y % 256
<1>10. z = b(1) + b(2) + b(4) + b(8) + b(16) + b(32) + b(64) + b(128) /\ z <= y
  BY <1>5
<1> HIDE DEF b, c, z
<1>11. And(y, a - 1) \in 0 .. y
  BY <1>1, <1>6, <1>7, <1>8, <1>10
<1> QED BY <1>1, <1>9, <1>11

\* A multiple in front changes no remainder.
LEMMA Shifted ==
  ASSUME NEW a \in Nat \ {0}, NEW d \in Nat, NEW x \in Nat, d % a = 0
  PROVE  (d + x) % a = x % a
<1>1. PICK q \in Nat, m \in 0 .. a - 1 : x = q * a + m /\ x % a = m
  BY Divided
<1>2. PICK p \in Nat, n \in 0 .. a - 1 : d = p * a + n /\ d % a = n
  BY Divided
<1>3. p * a + q * a = (p + q) * a /\ p + q \in Nat
  OBVIOUS
<1>4. ((p + q) * a + m) % a = m
  BY <1>3, Remains
<1> QED BY <1>1, <1>2, <1>3, <1>4

\* A set of numbers with a member has a least one.
LEMMA Least ==
  ASSUME NEW S, S \subseteq Nat, S # {}
  PROVE  \E x \in S : \A y \in S : x <= y
<1> DEFINE R == OpToRel(<, Nat)
<1>1. IsWellFoundedOn(R, Nat)
  BY NatLessThanWellFounded
<1> HIDE DEF R
<1>2. PICK x \in S : \A y \in S : ~(<<y, x>> \in R)
  BY <1>1, WFMin
<1>3. \A y \in S : ~(y < x)
  BY <1>2 DEF R, OpToRel
<1>4. \A y \in S : x <= y
  <2> TAKE y \in S
  <2>1. x \in Nat /\ y \in Nat /\ ~(y < x)
    BY <1>3
  <2> QED BY <2>1
<1> QED BY <1>4

\* Induction over a set.
LEMMA InductionOnNat ==
  ASSUME NEW S, 0 \in S, \A k \in Nat : k \in S => k + 1 \in S
  PROVE  Nat \subseteq S
<1> SUFFICES ASSUME ~(Nat \subseteq S) PROVE FALSE
  OBVIOUS
<1> DEFINE T == Nat \ S
<1>1. T # {} /\ T \subseteq Nat
  OBVIOUS
<1> HIDE DEF T
<1>2. PICK m \in T : \A y \in T : m <= y
  BY <1>1, Least
<1> USE DEF T
<1>3. m \in Nat /\ m # 0 /\ m - 1 \in Nat /\ (m - 1) + 1 = m
  BY <1>2
<1>4. m - 1 \in T
  BY <1>3
<1> QED BY <1>2, <1>3, <1>4

\* Induction up to a number.
LEMMA InductionUpTo ==
  ASSUME NEW n \in Nat, NEW S, 0 \in S, \A k \in 0 .. n - 1 : k \in S => k + 1 \in S
  PROVE  0 .. n \subseteq S
<1> DEFINE T == {k \in Nat : k <= n => k \in S}
<1>1. 0 \in T
  OBVIOUS
<1>2. ASSUME NEW k \in Nat, k \in T PROVE k + 1 \in T
  BY <1>2
<1> HIDE DEF T
<1>3. Nat \subseteq T
  BY <1>1, <1>2, InductionOnNat
<1> QED BY <1>3 DEF T

\* F starts at b and goes on by g.
Steps(F, b, g, n) == F[0] = b /\ \A k \in 1 .. n : F[k] = g[k][F[k - 1]]

\* There is a function that does.
LEMMA Iterates ==
  ASSUME NEW n \in Nat, NEW S, NEW b \in S, NEW g \in [1 .. n -> [S -> S]]
  PROVE  \E F \in [0 .. n -> S] : Steps(F, b, g, n)
<1> USE DEF Steps
<1> DEFINE T == {m \in Nat : m <= n => \E F \in [0 .. n -> S] : Steps(F, b, g, m)}
<1>1. 0 \in T
  <2> DEFINE F == [k \in 0 .. n |-> b]
  <2>1. F \in [0 .. n -> S] /\ Steps(F, b, g, 0)
    OBVIOUS
  <2> QED BY <2>1
<1>2. ASSUME NEW m \in Nat, m \in T PROVE m + 1 \in T
  <2> SUFFICES ASSUME m + 1 <= n PROVE \E F \in [0 .. n -> S] : Steps(F, b, g, m + 1)
    OBVIOUS
  <2>1. PICK F \in [0 .. n -> S] : Steps(F, b, g, m)
    BY <1>2
  <2> DEFINE x == g[m + 1][F[m]]
             H == [F EXCEPT ![m + 1] = x]
  <2>2. m \in 0 .. n /\ m + 1 \in 0 .. n /\ m + 1 \in 1 .. n /\ F[m] \in S
    OBVIOUS
  <2>3. x \in S
    BY <2>2
  <2> HIDE DEF x
  <2>4. H \in [0 .. n -> S] /\ H[m + 1] = x /\ \A k \in 0 .. m : H[k] = F[k]
    BY <2>2, <2>3
  <2> HIDE DEF H
  <2>5. H[0] = b
    BY <2>1, <2>4
  <2>6. ASSUME NEW k \in 1 .. m + 1 PROVE H[k] = g[k][H[k - 1]]
    <3>1. CASE k = m + 1
      <4>1. k - 1 = m /\ m \in 0 .. m
        BY <3>1
      <4> QED BY <2>4, <3>1, <4>1 DEF x
    <3>2. CASE k # m + 1
      <4>1. k \in 1 .. m /\ k \in 0 .. m /\ k - 1 \in 0 .. m
        BY <3>2
      <4> QED BY <2>1, <2>4, <4>1
    <3> QED BY <3>1, <3>2
  <2> QED BY <2>4, <2>5, <2>6
<1> HIDE DEF T
<1>3. n \in T
  BY <1>1, <1>2, InductionOnNat
<1> QED BY <1>3 DEF T

-----------------------------------------------------------------------------
(* Bytes in their places.                                                  *)

\* The bytes b are in s from position p on.
HoldsIn(s, p, b) == p + Len(b) <= Len(s) /\ \A j \in 1 .. Len(b) : s[p + j] = b[j]

\* Two sequences joined.
LEMMA Joined ==
  ASSUME NEW a \in Seq(Nat), NEW b \in Seq(Nat)
  PROVE  /\ a \o b \in Seq(Nat) /\ Len(a \o b) = Len(a) + Len(b) /\ Len(a) \in Nat /\ Len(b) \in Nat
         /\ HoldsIn(a \o b, 0, a) /\ HoldsIn(a \o b, Len(a), b)
<1> DEFINE c == a \o b
<1>1. /\ c \in Seq(Nat) /\ Len(c) = Len(a) + Len(b) /\ Len(a) \in Nat /\ Len(b) \in Nat
      /\ \A j \in 1 .. Len(c) : c[j] = IF j <= Len(a) THEN a[j] ELSE b[j - Len(a)]
  BY ConcatProperties
<1> HIDE DEF c
<1>2. HoldsIn(c, 0, a)
  BY <1>1 DEF HoldsIn
<1>3. HoldsIn(c, Len(a), b)
  <2>1. ASSUME NEW j \in 1 .. Len(b) PROVE c[Len(a) + j] = b[j]
    <3>1. Len(a) + j \in 1 .. Len(c) /\ ~(Len(a) + j <= Len(a)) /\ (Len(a) + j) - Len(a) = j
      BY <1>1
    <3> QED BY <1>1, <3>1
  <2>2. Len(a) + Len(b) <= Len(c)
    BY <1>1
  <2> QED BY <2>1, <2>2, Zenon DEF HoldsIn
<1> QED BY <1>1, <1>2, <1>3 DEF c

\* What is in a part is in the whole.
LEMMA HoldsWithin ==
  ASSUME NEW s, NEW b, NEW c, Len(s) \in Nat, Len(b) \in Nat, Len(c) \in Nat, NEW p \in Nat, NEW q \in Nat,
         HoldsIn(s, p, b), HoldsIn(b, q, c)
  PROVE  HoldsIn(s, p + q, c)
<1>1. (p + q) + Len(c) <= Len(s)
  BY DEF HoldsIn
<1>2. ASSUME NEW j \in 1 .. Len(c) PROVE s[(p + q) + j] = c[j]
  <2>1. q + j \in 1 .. Len(b) /\ b[q + j] = c[j] /\ p + (q + j) = (p + q) + j
    BY DEF HoldsIn
  <2>2. s[p + (q + j)] = b[q + j]
    BY <2>1 DEF HoldsIn
  <2> QED BY <2>1, <2>2
<1> QED BY <1>1, <1>2 DEF HoldsIn

\* Where two sequences joined are, each of them is.
LEMMA HoldsJoined ==
  ASSUME NEW s, Len(s) \in Nat, NEW p \in Nat, NEW a \in Seq(Nat), NEW b \in Seq(Nat), HoldsIn(s, p, a \o b)
  PROVE  HoldsIn(s, p, a) /\ HoldsIn(s, p + Len(a), b)
<1>1. /\ Len(a \o b) \in Nat /\ Len(a) \in Nat /\ Len(b) \in Nat
      /\ HoldsIn(a \o b, 0, a) /\ HoldsIn(a \o b, Len(a), b)
  BY Joined
<1>2. HoldsIn(s, p + 0, a) /\ HoldsIn(s, p + Len(a), b)
  BY <1>1, HoldsWithin
<1> QED BY <1>2

\* A sequence is all that it holds from its beginning to its end.
LEMMA HoldsAll ==
  ASSUME NEW a \in Seq(Nat), NEW b \in Seq(Nat), HoldsIn(a, 0, b), Len(a) = Len(b)
  PROVE  a = b
<1>1. \A j \in 1 .. Len(b) : a[j] = b[j]
  BY DEF HoldsIn
<1> QED BY <1>1, SeqEqual

\* Where each of s, laid one after the other, ends.
Placed(s, n, P) == P[0] = 0 /\ \A k \in 1 .. n : P[k] = P[k - 1] + Len(s[k])
Ends(s, n) == CHOOSE P \in [0 .. n -> Nat] : Placed(s, n, P)

\* There are such places.
LEMMA EndsAre ==
  ASSUME NEW n \in Nat, NEW s \in [1 .. n -> Seq(Nat)]
  PROVE  Ends(s, n) \in [0 .. n -> Nat] /\ Placed(s, n, Ends(s, n))
<1> DEFINE g == [k \in 1 .. n |-> [x \in Nat |-> x + Len(s[k])]]
<1>1. g \in [1 .. n -> [Nat -> Nat]]
  <2>1. \A k \in 1 .. n : Len(s[k]) \in Nat
    OBVIOUS
  <2> QED BY <2>1
<1>2. \A k \in 1 .. n, x \in Nat : g[k][x] = x + Len(s[k])
  OBVIOUS
<1> HIDE DEF g
<1>0. n \in Nat /\ 0 \in Nat
  OBVIOUS
<1>3. PICK P \in [0 .. n -> Nat] : Steps(P, 0, g, n)
  BY <1>0, <1>1, Iterates
<1>4. ASSUME NEW k \in 1 .. n PROVE P[k] = P[k - 1] + Len(s[k])
  <2>1. k - 1 \in 0 .. n
    OBVIOUS
  <2> QED BY <1>2, <1>3, <2>1 DEF Steps
<1>5. Placed(s, n, P)
  BY <1>3, <1>4 DEF Placed, Steps
<1> QED BY <1>5 DEF Ends

\* The last of them is at least as far as any other, and as many bytes as
\* there are pieces when none is empty.
LEMMA EndsGrow ==
  ASSUME NEW n \in Nat, NEW s \in [1 .. n -> Seq(Nat)]
  PROVE  (\A k \in 1 .. n : Len(s[k]) > 0) => n <= Ends(s, n)[n]
<1> SUFFICES ASSUME \A k \in 1 .. n : Len(s[k]) > 0 PROVE n <= Ends(s, n)[n]
  OBVIOUS
<1> DEFINE P == Ends(s, n)
           T == {k \in 0 .. n : k <= P[k]}
<1>1. P \in [0 .. n -> Nat] /\ P[0] = 0 /\ \A k \in 1 .. n : P[k] = P[k - 1] + Len(s[k])
  BY EndsAre DEF Placed
<1> HIDE DEF P
<1>2. 0 \in T
  BY <1>1
<1>3. ASSUME NEW k \in 0 .. n - 1, k \in T PROVE k + 1 \in T
  <2>1. k + 1 \in 1 .. n /\ (k + 1) - 1 = k /\ k \in 0 .. n
    OBVIOUS
  <2>2. P[k + 1] = P[k] + Len(s[k + 1]) /\ Len(s[k + 1]) \in Nat /\ Len(s[k + 1]) > 0
    BY <1>1, <2>1
  <2> QED BY <1>1, <1>3, <2>1, <2>2
<1> HIDE DEF T
<1>4. 0 .. n \subseteq T
  BY <1>2, <1>3, InductionUpTo
<1>5. n \in T
  BY <1>4
<1> QED BY <1>5 DEF T, P

\* FlattenSeq puts each piece in its place.
LEMMA FlattenAt ==
  ASSUME NEW n \in Nat, NEW s \in [1 .. n -> Seq(Nat)]
  PROVE  /\ FlattenSeq(s) \in Seq(Nat) /\ Len(FlattenSeq(s)) = Ends(s, n)[n]
         /\ \A k \in 1 .. n : HoldsIn(FlattenSeq(s), Ends(s, n)[k - 1], s[k])
<1> DEFINE P == Ends(s, n)
<1>1. P \in [0 .. n -> Nat] /\ P[0] = 0 /\ \A k \in 1 .. n : P[k] = P[k - 1] + Len(s[k])
  BY EndsAre DEF Placed
<1>2. s \in Seq(Seq(Nat)) /\ Len(s) = n
  OBVIOUS
<1> HIDE DEF P
<1>3. CASE n = 0
  <2>1. s = <<>> /\ FlattenSeq(s) = <<>>
    BY <1>2, <1>3 DEF FlattenSeq
  <2> QED BY <1>1, <1>3, <2>1 DEF P
<1>4. CASE n # 0
  <2> DEFINE Eqn(F) == F = [l \in 1 .. Len(s) |-> IF l = 1 THEN s[l] ELSE F[l - 1] \o s[l]]
             Q == CHOOSE F : Eqn(F)
  <2>1. FlattenSeq(s) = Q[n]
    BY <1>2, <1>4 DEF FlattenSeq
  <2>2. \E F : Eqn(F)
    <3> DEFINE g == [k \in 1 .. n |-> [x \in Seq(Nat) |-> x \o s[k]]]
    <3>1. g \in [1 .. n -> [Seq(Nat) -> Seq(Nat)]]
      <4>1. \A k \in 1 .. n, x \in Seq(Nat) : x \o s[k] \in Seq(Nat)
        BY Joined
      <4> QED BY <4>1
    <3>2. \A k \in 1 .. n, x \in Seq(Nat) : g[k][x] = x \o s[k]
      OBVIOUS
    <3> HIDE DEF g
    <3>3. <<>> \in Seq(Nat)
      OBVIOUS
    <3>4. PICK F \in [0 .. n -> Seq(Nat)] : Steps(F, <<>>, g, n)
      BY <3>1, <3>3, Iterates
    <3> DEFINE H == [l \in 1 .. n |-> F[l]]
    <3>5. ASSUME NEW l \in 1 .. n PROVE H[l] = IF l = 1 THEN s[l] ELSE H[l - 1] \o s[l]
      <4>1. l \in 0 .. n /\ l - 1 \in 0 .. n /\ F[l - 1] \in Seq(Nat) /\ s[l] \in Seq(Nat)
        OBVIOUS
      <4>2. F[l] = F[l - 1] \o s[l]
        BY <3>2, <3>4, <4>1 DEF Steps
      <4>3. l = 1 => F[l - 1] = <<>> /\ <<>> \o s[l] = s[l]
        BY <3>4, <4>1, ConcatEmptySeq DEF Steps
      <4>4. l # 1 => H[l - 1] = F[l - 1]
        OBVIOUS
      <4> QED BY <4>2, <4>3, <4>4
    <3>6. H = [l \in 1 .. n |-> H[l]]
      OBVIOUS
    <3> HIDE DEF H
    <3>7. Eqn(H)
      BY <1>2, <3>5, <3>6
    <3> QED BY <3>7
  <2>3. Eqn(Q)
    BY <2>2
  <2> HIDE DEF Q
  <2>4. \A l \in 1 .. n : Q[l] = IF l = 1 THEN s[l] ELSE Q[l - 1] \o s[l]
    BY <1>2, <2>3
  <2> DEFINE Right(m) == Q[m] \in Seq(Nat) /\ Len(Q[m]) = P[m] /\ \A k \in 1 .. m : HoldsIn(Q[m], P[k - 1], s[k])
             T == {m \in 0 .. n : m > 0 => Right(m)}
  <2>5. 0 \in T
    OBVIOUS
  <2>6. ASSUME NEW m \in 0 .. n - 1, m \in T PROVE m + 1 \in T
    <3>1. m + 1 \in 1 .. n /\ (m + 1) - 1 = m /\ m \in 0 .. n /\ s[m + 1] \in Seq(Nat)
      OBVIOUS
    <3>2. P[m + 1] = P[m] + Len(s[m + 1]) /\ P[m] \in Nat
      BY <1>1, <3>1
    <3>3. CASE m = 0
      <4>1. Q[1] = s[1] /\ P[1] = Len(s[1]) /\ P[0] = 0 /\ s[1] \in Seq(Nat)
        BY <1>1, <2>4, <3>1, <3>2, <3>3
      <4>2. HoldsIn(Q[1], P[0], s[1])
        BY <4>1 DEF HoldsIn
      <4> QED BY <3>1, <3>3, <4>1, <4>2
    <3>4. CASE m # 0
      <4> DEFINE a == Q[m]
                 b == s[m + 1]
      <4>1. a \in Seq(Nat) /\ Len(a) = P[m] /\ \A k \in 1 .. m : HoldsIn(a, P[k - 1], s[k])
        BY <2>6, <3>4
      <4>2. Q[m + 1] = a \o b
        <5>1. m + 1 # 1
          BY <3>4
        <5>2. Q[m + 1] = IF m + 1 = 1 THEN s[m + 1] ELSE Q[(m + 1) - 1] \o s[m + 1]
          BY <2>4, <3>1, Zenon
        <5> QED BY <3>1, <5>1, <5>2
      <4>3. b \in Seq(Nat)
        BY <3>1
      <4> HIDE DEF a, b
      <4>4. /\ a \o b \in Seq(Nat) /\ Len(a \o b) = Len(a) + Len(b) /\ Len(a) \in Nat /\ Len(b) \in Nat
            /\ HoldsIn(a \o b, 0, a) /\ HoldsIn(a \o b, Len(a), b)
        BY <4>1, <4>3, Joined
      <4>5. ASSUME NEW k \in 1 .. m + 1 PROVE HoldsIn(a \o b, P[k - 1], s[k])
        <5>1. CASE k = m + 1
          <6>1. P[k - 1] = Len(a) /\ s[k] = b
            BY <3>1, <4>1, <5>1 DEF b
          <6> QED BY <4>4, <6>1, Zenon
        <5>2. CASE k # m + 1
          <6>1. k \in 1 .. m /\ k - 1 \in 0 .. n /\ k \in 1 .. n
            BY <5>2
          <6>2. HoldsIn(a, P[k - 1], s[k]) /\ P[k - 1] \in Nat /\ Len(s[k]) \in Nat
            <7>1. P[k - 1] \in Nat /\ Len(s[k]) \in Nat
              BY <1>1, <6>1
            <7>2. HoldsIn(a, P[k - 1], s[k])
              BY <4>1, <6>1, Zenon
            <7> QED BY <7>1, <7>2
          <6>3. Len(a \o b) \in Nat
            BY <4>4
          <6>4. HoldsIn(a \o b, 0 + P[k - 1], s[k])
            BY <4>4, <6>2, <6>3, HoldsWithin
          <6>5. 0 + P[k - 1] = P[k - 1]
            BY <6>2
          <6> QED BY <6>4, <6>5, Zenon
        <5> QED BY <5>1, <5>2
      <4>6. Len(a \o b) = P[m + 1]
        <5>1. Len(b) = Len(s[m + 1])
          BY DEF b
        <5> QED BY <3>2, <4>1, <4>4, <5>1, Zenon
      <4>7. Right(m + 1)
        BY <4>2, <4>4, <4>5, <4>6, Zenon
      <4> HIDE DEF Right
      <4> QED BY <3>1, <4>7
    <3> QED BY <3>3, <3>4
  <2> HIDE DEF T
  <2>7. 0 .. n \subseteq T
    BY <2>5, <2>6, InductionUpTo
  <2>8. n \in T
    BY <2>7
  <2>9. Right(n)
    BY <1>4, <2>8 DEF T
  <2> QED BY <2>1, <2>9 DEF P
<1> QED BY <1>3, <1>4

-----------------------------------------------------------------------------
(* Values, and the bytes of them.                                          *)

\* What a type is a type of.
IsItem(type, x) ==
  x \in Seq(Byte) /\ (type # String => Len(x) = 1) /\ (type = Bool => x[1] \in {0, 1})

\* The regular Values that can be written: the items have the one type, and hold it.
ValueOf(type, of, xs) ==
  [type |-> type, elem |-> IF type = Array THEN of ELSE 0, items |-> [k \in 1 .. Len(xs) |-> Item(of, xs[k])]]

IsValue(v) ==
  \E type \in 0 .. 12, of \in ItemTypes, xs \in Seq(Seq(Byte)) :
    /\ v = ValueOf(type, of, xs)
    /\ \A k \in 1 .. Len(xs) : IsItem(of, xs[k])
    /\ type # Array => of = type /\ Len(xs) = 1

\* That type and what the items hold.
ItemKind(v) == IF v.type = Array THEN v.elem ELSE v.type
DataOf(v) == [k \in 1 .. Len(v.items) |-> v.items[k].data]

\* What toValue makes of a value of Go is a Value.
LEMMA ToValueIs ==
  ASSUME NEW x \in GoValues, Known(x)
  PROVE  IsGiven(ToValue(x))
<1>1. x.slice \in BOOLEAN /\ (~x.slice => Len(x.items) = 1)
  BY GgufAssumption
<1>2. CASE x.go = "Value" /\ ~x.slice
  BY <1>2, GgufAssumption DEF ToValue
<1>3. CASE x.go = "Value" /\ x.slice
  <2> DEFINE of == IF x.items = <<>> THEN String ELSE x.items[1].type
             u  == [type |-> Array, elem |-> 0, items |-> x.items]
  <2>1. IsGiven(u)
    BY <1>3, GgufAssumption
  <2>2. x.items \in Seq(Items) /\ \A k \in DOMAIN x.items : Scalar(x.items[k])
    BY <2>1 DEF IsGiven
  <2>3. of \in Byte \ {Array}
    <3>1. CASE x.items = <<>>
      BY <3>1 DEF Byte, String, Array
    <3>2. CASE x.items # <<>>
      <4> DEFINE y == x.items
      <4>1. y \in Seq(Items) /\ y # <<>>
        BY <2>2, <3>2
      <4> HIDE DEF y
      <4>2. y[1] \in Items
        <5>1. 1 \in 1 .. Len(y)
          BY <4>1
        <5> QED BY <4>1, <5>1
      <4>3. y[1].type \in Byte \ {Array}
        BY <4>2 DEF Items
      <4> QED BY <3>2, <4>3 DEF y
    <3> QED BY <3>1, <3>2
  <2>4. ToValue(x) = [type |-> Array, elem |-> of, items |-> x.items]
    BY <1>3 DEF ToValue
  <2> HIDE DEF of
  <2> QED BY <2>2, <2>3, <2>4 DEF IsGiven, Byte, Array
<1>4. CASE x.go # "Value"
  <2> DEFINE of    == IF x.slice THEN Slices[x.go] ELSE Scalars[x.go]
             items == [k \in 1 .. Len(x.items) |-> Item(of, x.items[k])]
  <2>1. /\ x.items \in Seq(Seq(Byte)) /\ Len(x.items) \in Nat /\ DOMAIN x.items = 1 .. Len(x.items)
        /\ \A k \in 1 .. Len(x.items) : x.items[k] \in Seq(Byte)
        /\ \A k \in 1 .. Len(x.items) :
             (x.go # "string" => Len(x.items[k]) = 1) /\ (x.go = "bool" => x.items[k][1] \in {0, 1})
    <3>1. x.items \in Seq(Seq(Byte))
      BY <1>4, GgufAssumption
    <3>2. /\ Len(x.items) \in Nat /\ DOMAIN x.items = 1 .. Len(x.items)
          /\ \A k \in 1 .. Len(x.items) : x.items[k] \in Seq(Byte)
      BY <3>1
    <3> QED BY <1>4, <3>1, <3>2, GgufAssumption
  <2>2. of \in Byte \ {Array} /\ (of # String => x.go # "string") /\ (of = Bool => x.go = "bool")
    <3>1. CASE x.slice
      <4>1. x.go \in {"string", "int32", "uint32", "float32"}
        BY <1>4, <3>1 DEF Known, Slices
      <4> QED BY <3>1, <4>1 DEF Slices, Byte, String, Int32, Uint32, Float32, Array, Bool
    <3>2. CASE ~x.slice
      <4>1. x.go \in {"uint8", "int8", "uint16", "int16", "uint32", "int32", "uint64", "int64", "int", "uint",
                      "float32", "float64", "bool", "string"}
        BY <1>4, <3>2 DEF Known, Scalars
      <4> QED BY <3>2, <4>1 DEF Scalars, Byte, String, Int32, Uint32, Float32, Array, Bool, U64
    <3> QED BY <1>1, <3>1, <3>2
  <2> HIDE DEF of
  <2>3. ASSUME NEW k \in 1 .. Len(x.items)
        PROVE  Scalar(Item(of, x.items[k])) /\ Item(of, x.items[k]) \in Items
    BY <2>1, <2>2 DEF Scalar, Item, Items
  <2>4. /\ items \in Seq(Items) /\ Len(items) = Len(x.items)
        /\ \A k \in DOMAIN items : Scalar(items[k])
    BY <2>1, <2>3
  <2>5. CASE x.slice
    <3>1. ToValue(x) = [type |-> Array, elem |-> of, items |-> items]
      BY <1>4, <2>1, <2>5 DEF ToValue, of
    <3> HIDE DEF items
    <3> QED BY <2>2, <2>4, <3>1 DEF IsGiven, Byte, Array
  <2>6. CASE ~x.slice
    <3>1. 1 \in 1 .. Len(x.items) /\ Len(x.items) = 1
      <4>1. Len(x.items) = 1
        BY <1>1, <2>6, Zenon
      <4> QED BY <4>1
    <3>2. items = <<Item(of, x.items[1])>>
      <4> DEFINE y == Item(of, x.items[1])
                 z == <<y>>
      <4>1. Len(items) = 1 /\ items[1] = y
        BY <2>4, <3>1
      <4>2. y \in Items
        BY <2>3, <3>1
      <4>3. items \in Seq(Items)
        BY <2>4
      <4> HIDE DEF y, items
      <4>4. z \in Seq(Items) /\ Len(z) = 1 /\ z[1] = y
        BY <4>2
      <4> HIDE DEF z
      <4>5. items = z
        BY <4>1, <4>3, <4>4, SeqEqual
      <4> QED BY <4>5 DEF y, z
    <3>3. ToValue(x) = [type |-> of, elem |-> 0, items |-> items]
      BY <1>4, <2>6, <3>2 DEF ToValue, of
    <3>4. items[1].type = of
      BY <3>1 DEF Item
    <3> HIDE DEF items
    <3>5. of # Array
      BY <2>2
    <3> QED BY <2>2, <2>4, <3>1, <3>3, <3>4, <3>5 DEF IsGiven, Byte, Array
  <2> QED BY <1>1, <2>5, <2>6
<1> QED BY <1>1, <1>2, <1>3, <1>4

\* A given Value that is regular and holds what its type says is one of those that
\* can be written.
LEMMA GivenIsValue ==
  ASSUME NEW v, IsGiven(v), ItemKind(v) \in ItemTypes,
         \A k \in DOMAIN v.items : v.items[k].type = ItemKind(v) /\ v.items[k].held = ItemKind(v)
  PROVE  IsValue(v)
<1> DEFINE of == ItemKind(v)
           xs == DataOf(v)
           n  == Len(v.items)
<1>1. /\ v \in [type : Byte, elem : Byte \ {Array}, items : Seq(Items)]
      /\ \A k \in DOMAIN v.items : Scalar(v.items[k])
      /\ v.type # Array => v.elem = 0 /\ n = 1 /\ v.items[1].type = v.type
  BY DEF IsGiven
<1>2. n \in Nat /\ DOMAIN v.items = 1 .. n /\ v.items = [k \in 1 .. n |-> v.items[k]] /\ \A k \in 1 .. n : v.items[k] \in Items
  BY <1>1
<1>3. ASSUME NEW k \in 1 .. n
      PROVE  v.items[k].data \in Seq(Byte) /\ v.items[k] = Item(of, v.items[k].data) /\ IsItem(of, v.items[k].data)
  <2>1. v.items[k] = [type |-> v.items[k].type, held |-> v.items[k].held, data |-> v.items[k].data] /\ v.items[k].data \in Seq(Byte)
    BY <1>2 DEF Items
  <2>2. v.items[k].type = of /\ v.items[k].held = of
    BY <1>2
  <2>3. Scalar(v.items[k])
    BY <1>1, <1>2
  <2> HIDE DEF of
  <2> QED BY <2>1, <2>2, <2>3 DEF Item, IsItem, Scalar
<1>4. xs \in Seq(Seq(Byte)) /\ Len(xs) = n /\ \A k \in 1 .. n : xs[k] = v.items[k].data
  BY <1>2, <1>3 DEF DataOf
<1>5. v.items = [k \in 1 .. Len(xs) |-> Item(of, xs[k])]
  <2> HIDE DEF of, xs
  <2> QED BY <1>2, <1>3, <1>4
<1>6. v.type \in 0 .. 12 /\ v.elem = (IF v.type = Array THEN of ELSE 0) /\ (v.type # Array => of = v.type)
  BY <1>1 DEF ItemKind, ItemTypes, Array
<1>7. v = [type |-> v.type, elem |-> v.elem, items |-> v.items]
  BY <1>1
<1> HIDE DEF of, xs
<1>8. v = ValueOf(v.type, of, xs)
  BY <1>5, <1>6, <1>7 DEF ValueOf
<1>9. of \in ItemTypes
  BY DEF of
<1> QED BY <1>1, <1>3, <1>4, <1>6, <1>8, <1>9 DEF IsValue

\* A number in so many bytes begins with it.
LEMMA NumIs ==
  ASSUME NEW x \in Nat, NEW w \in Nat \ {0}
  PROVE  Num(x, w) \in Seq(Nat) /\ Len(Num(x, w)) = w /\ Num(x, w)[1] = x
<1> DEFINE a == <<x>>
           b == [k \in 1 .. w - 1 |-> 0]
<1>1. a \in Seq(Nat) /\ Len(a) = 1 /\ a[1] = x
  OBVIOUS
<1>2. b \in Seq(Nat) /\ Len(b) = w - 1
  OBVIOUS
<1>3. Num(x, w) = a \o b
  BY DEF Num
<1> HIDE DEF a, b
<1>4. a \o b \in Seq(Nat) /\ Len(a \o b) = Len(a) + Len(b) /\ HoldsIn(a \o b, 0, a)
  BY <1>1, <1>2, Joined
<1>5. (a \o b)[0 + 1] = a[1]
  BY <1>1, <1>4 DEF HoldsIn
<1> QED BY <1>1, <1>2, <1>3, <1>4, <1>5

\* The number of bytes of a type.
LEMMA WidthIs ==
  ASSUME NEW type \in ItemTypes, type # String
  PROVE  Width[type + 1] \in Nat \ {0}
  BY DEF ItemTypes, Array, String, Width

\* Bytes are numbers.
LEMMA BytesAre == \A x \in Seq(Byte) : x \in Seq(Nat) /\ Len(x) \in Nat
<1> TAKE x \in Seq(Byte)
<1>1. Len(x) \in Nat /\ x \in [1 .. Len(x) -> Byte]
  OBVIOUS
<1>2. x \in [1 .. Len(x) -> Nat]
  <2>1. \A j \in 1 .. Len(x) : x[j] \in Byte
    BY <1>1
  <2>2. \A y \in Byte : y \in Nat
    BY DEF Byte
  <2>3. \A j \in 1 .. Len(x) : x[j] \in Nat
    BY <2>1, <2>2, Zenon
  <2> QED BY <1>1, <2>3
<1> QED BY <1>1, <1>2

\* A string is its length and its bytes.
LEMMA StrIs ==
  ASSUME NEW x \in Seq(Byte)
  PROVE  /\ Str(x) \in Seq(Nat) /\ Len(Str(x)) = 8 + Len(x) /\ Len(x) \in Nat /\ x \in Seq(Nat)
         /\ Num(Len(x), 8) \in Seq(Nat) /\ Len(Num(Len(x), 8)) = 8 /\ Num(Len(x), 8)[1] = Len(x)
         /\ Str(x) = Num(Len(x), 8) \o x
<1>1. x \in Seq(Nat) /\ Len(x) \in Nat
  BY BytesAre
<1> DEFINE b == Num(Len(x), 8)
<1>2. b \in Seq(Nat) /\ Len(b) = 8 /\ b[1] = Len(x)
  <2>1. Len(x) \in Nat /\ 8 \in Nat \ {0}
    BY <1>1
  <2> HIDE DEF b
  <2> QED BY <2>1, NumIs DEF b
<1>3. Str(x) = b \o x
  BY DEF Str
<1> HIDE DEF b
<1>4. b \o x \in Seq(Nat) /\ Len(b \o x) = Len(b) + Len(x)
  BY <1>1, <1>2, Joined
<1> QED BY <1>1, <1>2, <1>3, <1>4 DEF b

\* One item has at least one byte.
LEMMA TypedIs ==
  ASSUME NEW type \in ItemTypes, NEW x, IsItem(type, x)
  PROVE  Typed(type, x) \in Seq(Nat) /\ Len(Typed(type, x)) \in Nat /\ Len(Typed(type, x)) > 0
<1>1. CASE type = String
  <2>1. Typed(type, x) = Str(x) /\ x \in Seq(Byte)
    BY <1>1 DEF Typed, IsItem
  <2>2. Str(x) \in Seq(Nat) /\ Len(Str(x)) = 8 + Len(x) /\ Len(x) \in Nat
    BY <2>1, StrIs
  <2> QED BY <2>1, <2>2
<1>2. CASE type # String
  <2>1. x[1] \in Nat
    <3>1. x \in Seq(Nat) /\ Len(x) = 1
      BY <1>2, BytesAre DEF IsItem
    <3> QED BY <3>1
  <2>2. Width[type + 1] \in Nat \ {0}
    BY <1>2, WidthIs
  <2>3. Typed(type, x) = Num(x[1], Width[type + 1])
    BY <1>2 DEF Typed
  <2> DEFINE w == Width[type + 1]
             y == x[1]
  <2> HIDE DEF w, y
  <2>4. Num(y, w) \in Seq(Nat) /\ Len(Num(y, w)) = w /\ w \in Nat \ {0}
    BY <2>1, <2>2, NumIs DEF w, y
  <2>5. Typed(type, x) = Num(y, w)
    BY <2>3 DEF w, y
  <2> QED BY <2>4, <2>5
<1> QED BY <1>1, <1>2

-----------------------------------------------------------------------------
(* The reader, over a file that is the beginning of L.                      *)

Readers == [pos : Nat, err : BOOLEAN, val : Seq(Nat)]

Begins(L) == file \in Seq(Nat) /\ L \in Seq(Nat) /\ HoldsIn(L, 0, file)

\* From rd2 on the bytes from q are next, if there was no error, and there is
\* none in a complete file.
Reads(L, rd, q, rd2) ==
  /\ rd2 \in Readers
  /\ rd.err => rd2.err
  /\ ~rd2.err => rd2.pos = q
  /\ file = L /\ ~rd.err => ~rd2.err

AtPlace(rd, p) == rd \in Readers /\ (~rd.err => rd.pos = p)

\* One read after the other.
LEMMA ReadsOn ==
  ASSUME NEW L, NEW rd, NEW rd2, NEW rd3, NEW p, NEW q, Reads(L, rd, p, rd2), Reads(L, rd2, q, rd3),
         rd2.err \in BOOLEAN
  PROVE  Reads(L, rd, q, rd3)
  BY DEF Reads

\* The reader after one read is where that read ended.
LEMMA ReadsTo ==
  ASSUME NEW L, NEW rd, NEW p, NEW rd2, Reads(L, rd, p, rd2)
  PROVE  AtPlace(rd2, p) /\ rd2.err \in BOOLEAN
  BY DEF Reads, AtPlace, Readers

\* The type of what is read, and that an error stays.
LEMMA ReadType ==
  ASSUME file \in Seq(Nat), NEW rd \in Readers, NEW n \in Nat
  PROVE  /\ Read(rd, n) \in Readers /\ (rd.err => Read(rd, n).err)
         /\ Read(rd, n).err /\ n > 0 => Read(rd, n).val[1] = 0
         /\ Len(Read(rd, n).val) = n
<1>1. CASE Need(rd, n)
  <2> DEFINE p == rd.pos + 1
             q == rd.pos + n
             x == SubSeq(file, p, q)
  <2>1. p \in Int /\ q \in Int /\ rd.pos \in Nat /\ ~rd.err /\ q <= Len(file) /\ Len(file) \in Nat
    BY <1>1 DEF Need, Readers
  <2>2. \A j \in p .. q : file[j] \in Nat
    BY <2>1
  <2>3. IF p <= q THEN q - p + 1 = n ELSE n = 0
    BY <2>1
  <2>4. Read(rd, n) = [rd EXCEPT !.pos = @ + n, !.val = x]
    BY <1>1 DEF Read
  <2> HIDE DEF p, q
  <2>5. x \in Seq(Nat) /\ Len(x) = n
    BY <2>1, <2>2, <2>3, SubSeqProperties
  <2> HIDE DEF x
  <2>6. Read(rd, n) = [pos |-> rd.pos + n, err |-> rd.err, val |-> x]
    BY <2>4 DEF Readers
  <2> QED BY <2>1, <2>5, <2>6 DEF Readers
<1>2. CASE ~Need(rd, n)
  <2> DEFINE x == [k \in 1 .. n |-> 0]
  <2>1. x \in Seq(Nat) /\ Len(x) = n /\ (n > 0 => x[1] = 0)
    OBVIOUS
  <2>2. Read(rd, n) = [rd EXCEPT !.err = TRUE, !.val = x]
    BY <1>2 DEF Read
  <2> HIDE DEF x
  <2>3. Read(rd, n) = [pos |-> rd.pos, err |-> TRUE, val |-> x]
    BY <2>2 DEF Readers
  <2> QED BY <2>1, <2>3 DEF Readers
<1> QED BY <1>1, <1>2

\* Bytes that are in the complete file are read, or missing from the file.
LEMMA ReadIs ==
  ASSUME NEW L, Begins(L), NEW p \in Nat, NEW rd, AtPlace(rd, p), NEW b \in Seq(Nat), HoldsIn(L, p, b)
  PROVE  /\ Reads(L, rd, p + Len(b), Read(rd, Len(b)))
         /\ ~Read(rd, Len(b)).err => Read(rd, Len(b)).val = b
<1> DEFINE n == Len(b)
           w == Read(rd, n)
<1>1. n \in Nat /\ rd \in Readers /\ file \in Seq(Nat) /\ Len(file) \in Nat /\ Len(L) \in Nat
  BY DEF AtPlace, Begins
<1> HIDE DEF n
<1>2. w \in Readers /\ (rd.err => w.err) /\ Len(w.val) = n
  BY <1>1, ReadType
<1>3. CASE rd.err
  BY <1>2, <1>3 DEF Reads, n
<1>4. CASE ~rd.err
  <2>1. rd.pos = p /\ p + n <= Len(L) /\ Len(file) <= Len(L) /\ rd.pos \in Nat
    <3>1. 0 + Len(file) <= Len(L)
      BY DEF Begins, HoldsIn
    <3>2. p + n <= Len(L)
      BY DEF HoldsIn, n
    <3> QED BY <1>1, <1>4, <3>1, <3>2 DEF AtPlace
  <2>2. CASE Need(rd, n)
    <3> DEFINE c == p + 1
               d == p + n
               x == SubSeq(file, c, d)
    <3>1. c \in Int /\ d \in Int /\ d <= Len(file)
      BY <1>1, <2>1, <2>2 DEF Need
    <3>2. \A j \in c .. d : file[j] \in Nat
      BY <1>1, <3>1
    <3>3. d - c + 1 = n /\ \A j \in 1 .. n : c + j - 1 = p + j /\ c <= d
      BY <1>1
    <3>4. w = [rd EXCEPT !.pos = @ + n, !.val = x]
      BY <2>1, <2>2 DEF Read
    <3>5. \A j \in 1 .. n : p + j \in 1 .. Len(file)
      BY <1>1, <3>1
    <3> HIDE DEF c, d
    <3>6. x \in Seq(Nat) /\ \A j \in 1 .. d - c + 1 : x[j] = file[c + j - 1]
      BY <3>1, <3>2, SubSeqProperties
    <3> HIDE DEF x, w
    <3>7. w.val = x /\ w.pos = p + n /\ ~w.err
      BY <1>1, <1>4, <2>1, <3>4 DEF Readers
    <3>8. \A j \in 1 .. n : x[j] = b[j]
      <4> TAKE j \in 1 .. n
      <4>1. x[j] = file[p + j]
        BY <3>3, <3>6
      <4>2. L[0 + (p + j)] = file[p + j]
        BY <3>5 DEF Begins, HoldsIn
      <4>3. 0 + (p + j) = p + j
        BY <1>1
      <4>4. L[p + j] = b[j]
        BY DEF HoldsIn, n
      <4> QED BY <4>1, <4>2, <4>3, <4>4
    <3>9. x = b
      <4>1. Len(x) = Len(b)
        BY <1>2, <3>7 DEF n
      <4> QED BY <3>6, <3>8, <4>1, SeqEqual DEF n
    <3> QED BY <1>2, <1>4, <3>7, <3>9 DEF Reads, n, w
  <2>3. CASE ~Need(rd, n)
    <3>1. w = [rd EXCEPT !.err = TRUE, !.val = [k \in 1 .. n |-> 0]]
      BY <2>3 DEF Read
    <3>2. w.err
      BY <1>1, <3>1 DEF Readers
    <3>3. file # L
      BY <1>1, <1>4, <2>1, <2>3 DEF Need
    <3> QED BY <1>2, <3>2, <3>3 DEF Reads, n
  <2> QED BY <2>2, <2>3
<1> QED BY <1>1, <1>3, <1>4 DEF Readers

\* The type of a string that is read, and that an error stays.
LEMMA ReadStrType ==
  ASSUME file \in Seq(Nat), NEW rd \in Readers
  PROVE  ReadStr(rd) \in Readers /\ (rd.err => ReadStr(rd).err)
<1> DEFINE len == Read(rd, 8)
           n   == len.val[1]
<1>1. len \in Readers /\ (rd.err => len.err)
  BY ReadType
<1>2. ReadStr(rd) = IF n <= Len(file) /\ Need(len, n) THEN Read(len, n) ELSE [len EXCEPT !.err = TRUE, !.val = <<>>]
  BY DEF ReadStr
<1> HIDE DEF len
<1>3. CASE n <= Len(file) /\ Need(len, n)
  <2>1. Len(len.val) = 8 /\ len.val \in Seq(Nat)
    BY <1>1, ReadType DEF len, Readers
  <2>2. n \in Nat
    BY <2>1
  <2>3. ReadStr(rd) = Read(len, n) /\ ~len.err
    BY <1>2, <1>3 DEF Need
  <2> QED BY <1>1, <2>2, <2>3, ReadType
<1>4. CASE ~(n <= Len(file) /\ Need(len, n))
  <2>1. ReadStr(rd) = [pos |-> len.pos, err |-> TRUE, val |-> <<>>]
    BY <1>1, <1>2, <1>4 DEF Readers
  <2> QED BY <1>1, <2>1 DEF Readers
<1> QED BY <1>3, <1>4

\* A string that is in the complete file is read, or is missing from the file.
LEMMA ReadStrIs ==
  ASSUME NEW L, Begins(L), NEW p \in Nat, NEW rd, AtPlace(rd, p), NEW x \in Seq(Byte), HoldsIn(L, p, Str(x))
  PROVE  /\ Reads(L, rd, p + Len(Str(x)), ReadStr(rd))
         /\ ~ReadStr(rd).err => ReadStr(rd).val = x
<1> DEFINE b   == Num(Len(x), 8)
           len == Read(rd, 8)
           n   == len.val[1]
           w   == ReadStr(rd)
<1>1. /\ Len(Str(x)) = 8 + Len(x) /\ Len(x) \in Nat /\ x \in Seq(Nat)
      /\ b \in Seq(Nat) /\ Len(b) = 8 /\ b[1] = Len(x) /\ Str(x) = b \o x
  BY StrIs
<1>2. Len(L) \in Nat /\ Len(file) \in Nat /\ file \in Seq(Nat) /\ rd \in Readers
  BY DEF Begins, AtPlace
<1> HIDE DEF b
<1>3. HoldsIn(L, p, b) /\ HoldsIn(L, p + 8, x)
  <2>1. HoldsIn(L, p, b \o x)
    BY <1>1
  <2>2. HoldsIn(L, p, b) /\ HoldsIn(L, p + Len(b), x)
    BY <1>1, <1>2, <2>1, HoldsJoined
  <2> QED BY <1>1, <2>2
<1>4. Reads(L, rd, p + 8, len) /\ (~len.err => len.val = b)
  <2>1. b \in Seq(Nat) /\ HoldsIn(L, p, b)
    BY <1>1, <1>3
  <2>2. Reads(L, rd, p + Len(b), Read(rd, Len(b))) /\ (~Read(rd, Len(b)).err => Read(rd, Len(b)).val = b)
    BY <2>1, ReadIs
  <2> QED BY <1>1, <2>2
<1>5. w = IF n <= Len(file) /\ Need(len, n) THEN Read(len, n) ELSE [len EXCEPT !.err = TRUE, !.val = <<>>]
  BY DEF ReadStr
<1>6. w \in Readers /\ (rd.err => w.err)
  BY <1>2, ReadStrType
<1>7. len \in Readers /\ AtPlace(len, p + 8) /\ len.err \in BOOLEAN
  <2>1. len \in Readers
    BY <1>4 DEF Reads
  <2> HIDE DEF len
  <2>2. AtPlace(len, p + 8) /\ len.err \in BOOLEAN
    BY <1>4, ReadsTo
  <2> QED BY <2>1, <2>2
<1> HIDE DEF len, w
<1>8. CASE ~(n <= Len(file) /\ Need(len, n))
  <2>1. w.err
    BY <1>5, <1>7, <1>8 DEF Readers
  <2>2. ASSUME file = L, ~rd.err PROVE FALSE
    <3>1. ~len.err /\ len.val = b /\ len.pos = p + 8
      BY <1>4, <2>2 DEF Reads
    <3>2. n = Len(x)
      BY <1>1, <3>1
    <3>3. (p + 8) + Len(x) <= Len(L)
      BY <1>3 DEF HoldsIn
    <3>4. n <= Len(file) /\ len.pos + n <= Len(file)
      BY <1>1, <1>2, <2>2, <3>1, <3>2, <3>3
    <3> QED BY <1>8, <3>1, <3>4 DEF Need
  <2> QED BY <1>6, <2>1, <2>2 DEF Reads, w
<1>9. CASE n <= Len(file) /\ Need(len, n)
  <2>1. ~len.err /\ w = Read(len, n)
    BY <1>5, <1>9 DEF Need
  <2>2. n = Len(x)
    BY <1>1, <1>4, <2>1
  <2> DEFINE q == p + 8
  <2>3. q \in Nat /\ AtPlace(len, q) /\ HoldsIn(L, q, x) /\ x \in Seq(Nat)
    BY <1>1, <1>3, <1>7
  <2> HIDE DEF q
  <2>35. Reads(L, len, q + Len(x), Read(len, Len(x))) /\ (~Read(len, Len(x)).err => Read(len, Len(x)).val = x)
    BY <2>3, ReadIs
  <2>4. Reads(L, len, (p + 8) + Len(x), Read(len, Len(x))) /\ (~Read(len, Len(x)).err => Read(len, Len(x)).val = x)
    BY <2>35 DEF q
  <2>5. Reads(L, len, (p + 8) + Len(x), w) /\ (~w.err => w.val = x)
    BY <2>1, <2>2, <2>4
  <2>6. Reads(L, rd, (p + 8) + Len(x), w)
    BY <1>4, <1>7, <2>5, ReadsOn
  <2>7. (p + 8) + Len(x) = p + Len(Str(x))
    BY <1>1
  <2> QED BY <2>5, <2>6, <2>7 DEF w
<1> QED BY <1>8, <1>9

\* A sequence of one.
LEMMA Single ==
  ASSUME NEW x \in Seq(Nat), Len(x) = 1
  PROVE  x[1] \in Nat /\ x = <<x[1]>>
<1> DEFINE y == x[1]
           z == <<y>>
<1>1. y \in Nat
  <2>1. 1 \in 1 .. Len(x)
    OBVIOUS
  <2> QED BY <2>1, ElementOfSeq
<1> HIDE DEF y
<1>2. z \in Seq(Nat) /\ Len(z) = 1 /\ z[1] = y
  BY <1>1
<1> HIDE DEF z
<1>3. \A j \in 1 .. Len(x) : x[j] = z[j]
  BY <1>2 DEF y
<1>4. x = z
  BY <1>2, <1>3, SeqEqual
<1> QED BY <1>1, <1>4 DEF z, y

\* The type of one item that is read, and that an error stays.
LEMMA ReadTypedType ==
  ASSUME file \in Seq(Nat), NEW rd \in Readers, NEW type \in ItemTypes
  PROVE  ReadTyped(rd, type) \in Readers /\ (rd.err => ReadTyped(rd, type).err)
<1>1. CASE type = String
  BY <1>1, ReadStrType DEF ReadTyped
<1>2. CASE type # String
  <2> DEFINE n   == Width[type + 1]
             num == Read(rd, n)
             y   == IF type = Bool /\ num.val[1] # 0 THEN 1 ELSE num.val[1]
  <2>1. n \in Nat \ {0}
    BY <1>2, WidthIs
  <2>2. ReadTyped(rd, type) = [num EXCEPT !.val = <<y>>]
    BY <1>2 DEF ReadTyped
  <2> HIDE DEF n
  <2>3. num \in Readers /\ (rd.err => num.err) /\ Len(num.val) = n
    BY <2>1, ReadType
  <2> HIDE DEF num
  <2>4. y \in Nat
    BY <2>1, <2>3 DEF Readers
  <2> HIDE DEF y
  <2>5. <<y>> \in Seq(Nat)
    BY <2>4
  <2>6. [num EXCEPT !.val = <<y>>] = [pos |-> num.pos, err |-> num.err, val |-> <<y>>]
    BY <2>3 DEF Readers
  <2> QED BY <2>2, <2>3, <2>5, <2>6 DEF Readers
<1> QED BY <1>1, <1>2

\* One item that is in the complete file is read, or is missing from the file.
LEMMA ReadTypedIs ==
  ASSUME NEW L, Begins(L), NEW p \in Nat, NEW rd, AtPlace(rd, p), NEW type \in ItemTypes, NEW x, IsItem(type, x),
         HoldsIn(L, p, Typed(type, x))
  PROVE  /\ Reads(L, rd, p + Len(Typed(type, x)), ReadTyped(rd, type))
         /\ ~ReadTyped(rd, type).err => ReadTyped(rd, type).val = x
<1>0. x \in Seq(Byte)
  BY DEF IsItem
<1>1. CASE type = String
  <2>1. Typed(type, x) = Str(x) /\ ReadTyped(rd, type) = ReadStr(rd)
    BY <1>1 DEF Typed, ReadTyped
  <2> QED BY <1>0, <2>1, ReadStrIs
<1>2. CASE type # String
  <2> DEFINE n   == Width[type + 1]
             y   == x[1]
             b   == Num(y, n)
             num == Read(rd, n)
  <2>1. n \in Nat \ {0}
    BY <1>2, WidthIs
  <2>2. y \in Nat /\ x = <<y>>
    <3>1. x \in Seq(Nat) /\ Len(x) = 1
      BY <1>2, BytesAre DEF IsItem
    <3>2. x[1] \in Nat /\ x = <<x[1]>>
      BY <3>1, Single
    <3> HIDE DEF num, b, n
    <3> QED BY <3>2
  <2> DEFINE z == IF type = Bool /\ num.val[1] # 0 THEN <<1>> ELSE <<num.val[1]>>
  <2>3. Typed(type, x) = b /\ ReadTyped(rd, type) = [num EXCEPT !.val = z]
    BY <1>2 DEF Typed, ReadTyped
  <2>4. rd \in Readers /\ file \in Seq(Nat)
    BY DEF AtPlace, Begins
  <2>5. ReadTyped(rd, type) \in Readers /\ (rd.err => ReadTyped(rd, type).err)
    BY <2>4, ReadTypedType
  <2> HIDE DEF n, y
  <2>6. b \in Seq(Nat) /\ Len(b) = n /\ b[1] = y
    BY <2>1, <2>2, NumIs
  <2> HIDE DEF b
  <2>7. Reads(L, rd, p + Len(b), Read(rd, Len(b))) /\ (~Read(rd, Len(b)).err => Read(rd, Len(b)).val = b)
    BY <2>3, <2>6, ReadIs
  <2>8. Reads(L, rd, p + Len(b), num) /\ (~num.err => num.val = b)
    BY <2>6, <2>7
  <2> DEFINE w == ReadTyped(rd, type)
  <2>12. type = Bool => y \in {0, 1}
    BY DEF IsItem, y
  <2> HIDE DEF num, w
  <2>13. ~num.err => z = x
    BY <2>2, <2>6, <2>8, <2>12
  <2> HIDE DEF z
  <2>9. w = [pos |-> num.pos, err |-> num.err, val |-> z]
    BY <2>3, <2>8 DEF Reads, Readers, w
  <2>10. ~w.err => w.val = x
    BY <2>9, <2>13
  <2>11. Reads(L, rd, p + Len(b), w)
    BY <2>5, <2>8, <2>9 DEF Reads, w
  <2> QED BY <2>3, <2>10, <2>11 DEF w
<1> QED BY <1>1, <1>2

\* What ReadMany has read after each item.
ManyPairs == Readers \X Seq(Seq(Nat))
ManyStep(x, type) == <<ReadTyped(x[1], type), Append(x[2], ReadTyped(x[1], type).val)>>
ManySteps(M, rd, n, type) == M[0] = <<rd, <<>>>> /\ \A k \in 1 .. n : M[k] = ManyStep(M[k - 1], type)

\* One step of ReadMany.
LEMMA ManyStepType ==
  ASSUME file \in Seq(Nat), NEW type \in ItemTypes, NEW x \in ManyPairs
  PROVE  ManyStep(x, type) \in ManyPairs
<1> DEFINE one == ReadTyped(x[1], type)
<1>1. x[1] \in Readers /\ x[2] \in Seq(Seq(Nat))
  BY DEF ManyPairs
<1>2. one \in Readers
  BY <1>1, ReadTypedType
<1> HIDE DEF one
<1>3. one.val \in Seq(Nat)
  BY <1>2 DEF Readers
<1>4. Append(x[2], one.val) \in Seq(Seq(Nat))
  <2> DEFINE y == x[2]
             z == one.val
  <2>1. y \in Seq(Seq(Nat)) /\ z \in Seq(Nat)
    BY <1>1, <1>3
  <2> HIDE DEF y, z
  <2>2. Append(y, z) \in Seq(Seq(Nat))
    BY <2>1, AppendProperties
  <2> QED BY <2>2 DEF y, z
<1>5. <<one, Append(x[2], one.val)>> \in ManyPairs
  BY <1>2, <1>4 DEF ManyPairs
<1> QED BY <1>5 DEF ManyStep, one

\* ReadMany goes step by step.
LEMMA ManyIs ==
  ASSUME file \in Seq(Nat), NEW rd \in Readers, NEW n \in Nat, NEW type \in ItemTypes
  PROVE  \E M \in [0 .. n -> ManyPairs] : ManySteps(M, rd, n, type) /\ ReadMany(rd, n, type) = M[n]
<1> DEFINE Eqn(M) == M = [k \in 0 .. n |->
                            IF k = 0 THEN <<rd, <<>>>>
                            ELSE <<ReadTyped(M[k - 1][1], type), Append(M[k - 1][2], ReadTyped(M[k - 1][1], type).val)>>]
           Q == CHOOSE M : Eqn(M)
<1>1. ReadMany(rd, n, type) = Q[n]
  BY DEF ReadMany
<1> DEFINE start == <<rd, <<>>>>
           g == [k \in 1 .. n |-> [x \in ManyPairs |-> ManyStep(x, type)]]
<1>2. g \in [1 .. n -> [ManyPairs -> ManyPairs]]
  <2>1. \A x \in ManyPairs : ManyStep(x, type) \in ManyPairs
    BY ManyStepType
  <2> QED BY <2>1
<1>3. \A k \in 1 .. n, x \in ManyPairs : g[k][x] = ManyStep(x, type)
  OBVIOUS
<1>4. start \in ManyPairs
  <2> DEFINE e == <<>>
  <2>1. e \in Seq(Seq(Nat))
    BY EmptySeq
  <2> HIDE DEF e
  <2>2. <<rd, e>> \in ManyPairs
    BY <2>1 DEF ManyPairs
  <2> QED BY <2>2 DEF e
<1> HIDE DEF g, start
<1>5. PICK M \in [0 .. n -> ManyPairs] : Steps(M, start, g, n)
  BY <1>2, <1>4, Iterates
<1>6. M[0] = start /\ \A k \in 1 .. n : M[k] = ManyStep(M[k - 1], type)
  <2>1. ASSUME NEW k \in 1 .. n PROVE M[k] = ManyStep(M[k - 1], type)
    <3>1. k - 1 \in 0 .. n
      OBVIOUS
    <3>2. M[k - 1] \in ManyPairs /\ M[k] = g[k][M[k - 1]]
      BY <1>5, <3>1 DEF Steps
    <3> QED BY <1>3, <3>2
  <2> QED BY <1>5, <2>1 DEF Steps
<1>7. Eqn(M)
  <2>1. M = [k \in 0 .. n |-> M[k]]
    OBVIOUS
  <2>2. ASSUME NEW k \in 0 .. n
        PROVE  M[k] = IF k = 0 THEN <<rd, <<>>>>
                      ELSE <<ReadTyped(M[k - 1][1], type), Append(M[k - 1][2], ReadTyped(M[k - 1][1], type).val)>>
    <3>1. CASE k = 0
      BY <1>6, <3>1 DEF start
    <3>2. CASE k # 0
      <4>1. k \in 1 .. n
        BY <3>2
      <4> QED BY <1>6, <3>2, <4>1 DEF ManyStep
    <3> QED BY <3>1, <3>2
  <2> HIDE DEF Q
  <2> QED BY <2>1, <2>2, Zenon
<1>8. Eqn(Q)
  BY <1>7
<1> HIDE DEF Q
<1>9. \A k \in 0 .. n : Q[k] = IF k = 0 THEN <<rd, <<>>>>
         ELSE <<ReadTyped(Q[k - 1][1], type), Append(Q[k - 1][2], ReadTyped(Q[k - 1][1], type).val)>>
  BY <1>8
<1> HIDE DEF Eqn
<1>10. Q[0] = start /\ \A k \in 1 .. n : Q[k] = ManyStep(Q[k - 1], type)
  <2>1. ASSUME NEW k \in 1 .. n PROVE Q[k] = ManyStep(Q[k - 1], type)
    <3>1. k \in 0 .. n /\ k # 0
      OBVIOUS
    <3> QED BY <1>9, <3>1, Zenon DEF ManyStep
  <2>2. 0 \in 0 .. n
    OBVIOUS
  <2> QED BY <1>9, <2>1, <2>2, Zenon DEF start
<1> DEFINE T == {k \in 0 .. n : Q[k] = M[k]}
<1>11. 0 \in T
  BY <1>6, <1>10
<1>12. ASSUME NEW k \in 0 .. n - 1, k \in T PROVE k + 1 \in T
  <2>1. k + 1 \in 1 .. n /\ (k + 1) - 1 = k /\ k + 1 \in 0 .. n /\ Q[k] = M[k]
    BY <1>12
  <2>2. Q[k + 1] = ManyStep(Q[(k + 1) - 1], type) /\ M[k + 1] = ManyStep(M[(k + 1) - 1], type)
    BY <1>6, <1>10, <2>1, Zenon
  <2> QED BY <2>1, <2>2
<1> HIDE DEF T
<1>13. 0 .. n \subseteq T
  BY <1>11, <1>12, InductionUpTo
<1>14. Q[n] = M[n]
  <2>1. n \in T
    BY <1>13
  <2> QED BY <2>1 DEF T
<1>15. ManySteps(M, rd, n, type)
  BY <1>6 DEF ManySteps, start
<1> QED BY <1>1, <1>14, <1>15

\* The type of many items that are read, and that an error stays.
LEMMA ReadManyType ==
  ASSUME file \in Seq(Nat), NEW rd \in Readers, NEW n \in Nat, NEW type \in ItemTypes
  PROVE  /\ ReadMany(rd, n, type) \in ManyPairs
         /\ rd.err => ReadMany(rd, n, type)[1].err
<1>1. PICK M \in [0 .. n -> ManyPairs] : ManySteps(M, rd, n, type) /\ ReadMany(rd, n, type) = M[n]
  BY ManyIs
<1> DEFINE T == {k \in 0 .. n : rd.err => M[k][1].err}
<1>2. 0 \in T
  BY <1>1 DEF ManySteps
<1>3. ASSUME NEW k \in 0 .. n - 1, k \in T PROVE k + 1 \in T
  <2>1. k + 1 \in 1 .. n /\ (k + 1) - 1 = k /\ k + 1 \in 0 .. n /\ k \in 0 .. n
    OBVIOUS
  <2>2. M[k + 1] = ManyStep(M[k], type) /\ M[k] \in ManyPairs
    <3>1. M[k + 1] = ManyStep(M[(k + 1) - 1], type)
      BY <1>1, <2>1, Zenon DEF ManySteps
    <3> QED BY <2>1, <3>1
  <2> DEFINE x == M[k]
  <2>3. x[1] \in Readers
    BY <2>2 DEF ManyPairs
  <2>4. M[k + 1][1] = ReadTyped(x[1], type)
    BY <2>2 DEF ManyStep
  <2>5. rd.err => x[1].err
    BY <1>3
  <2> HIDE DEF x
  <2>6. x[1].err => ReadTyped(x[1], type).err
    BY <2>3, ReadTypedType
  <2>7. rd.err => M[k + 1][1].err
    BY <2>4, <2>5, <2>6
  <2> QED BY <2>1, <2>7
<1> HIDE DEF T
<1>4. 0 .. n \subseteq T
  BY <1>2, <1>3, InductionUpTo
<1>5. n \in T /\ M[n] \in ManyPairs
  BY <1>4
<1> QED BY <1>1, <1>5 DEF T

\* The bytes of the items xs, one after the other, are in the complete file.
TypedAll(type, xs) == [k \in 1 .. Len(xs) |-> Typed(type, xs[k])]
ItemsEnd(type, xs, k) == Ends(TypedAll(type, xs), Len(xs))[k]
AreItems(type, xs) == xs \in Seq(Seq(Nat)) /\ \A k \in 1 .. Len(xs) : IsItem(type, xs[k])
HoldsItems(s, p, type, xs) ==
  \A k \in 1 .. Len(xs) : HoldsIn(s, p + ItemsEnd(type, xs, k - 1), Typed(type, xs[k]))

\* The places of items.
LEMMA ItemsAre ==
  ASSUME NEW type \in ItemTypes, NEW xs, AreItems(type, xs)
  PROVE  /\ Len(xs) \in Nat /\ TypedAll(type, xs) \in [1 .. Len(xs) -> Seq(Nat)]
         /\ ItemsEnd(type, xs, 0) = 0
         /\ \A k \in 0 .. Len(xs) : ItemsEnd(type, xs, k) \in Nat
         /\ \A k \in 1 .. Len(xs) : /\ ItemsEnd(type, xs, k) = ItemsEnd(type, xs, k - 1) + Len(Typed(type, xs[k]))
                                    /\ TypedAll(type, xs)[k] = Typed(type, xs[k])
                                    /\ Typed(type, xs[k]) \in Seq(Nat)
         /\ Len(xs) <= ItemsEnd(type, xs, Len(xs))
<1> DEFINE n == Len(xs)
           s == TypedAll(type, xs)
<1>1. n \in Nat
  BY DEF AreItems
<1>2. \A k \in 1 .. n : IsItem(type, xs[k])
  BY DEF AreItems
<1>3. \A k \in 1 .. n : Typed(type, xs[k]) \in Seq(Nat) /\ Len(Typed(type, xs[k])) > 0
  BY <1>2, TypedIs
<1>4. s = [k \in 1 .. n |-> Typed(type, xs[k])]
  BY DEF TypedAll
<1> HIDE DEF n
<1>5. s \in [1 .. n -> Seq(Nat)] /\ \A k \in 1 .. n : s[k] = Typed(type, xs[k])
  BY <1>3, <1>4
<1> HIDE DEF s
<1>6. Ends(s, n) \in [0 .. n -> Nat] /\ Placed(s, n, Ends(s, n))
  BY <1>1, <1>5, EndsAre
<1>7. \A k \in 1 .. n : Len(s[k]) > 0
  BY <1>3, <1>5
<1>8. n <= Ends(s, n)[n]
  BY <1>1, <1>5, <1>7, EndsGrow
<1>9. \A k : ItemsEnd(type, xs, k) = Ends(s, n)[k]
  BY DEF ItemsEnd, s, n
<1>10. \A k \in 1 .. n : Ends(s, n)[k] = Ends(s, n)[k - 1] + Len(Typed(type, xs[k]))
  BY <1>5, <1>6 DEF Placed
<1>11. \A k \in 0 .. n : Ends(s, n)[k] \in Nat
  BY <1>6
<1>12. Ends(s, n)[0] = 0
  BY <1>6 DEF Placed
<1> QED BY <1>1, <1>3, <1>5, <1>8, <1>9, <1>10, <1>11, <1>12 DEF n, s

\* Many items that are in the complete file are read, or are missing from the file.
LEMMA ReadManyIs ==
  ASSUME NEW L, Begins(L), NEW p \in Nat, NEW rd, AtPlace(rd, p), NEW type \in ItemTypes, NEW xs, AreItems(type, xs),
         HoldsItems(L, p, type, xs)
  PROVE  /\ Reads(L, rd, p + ItemsEnd(type, xs, Len(xs)), ReadMany(rd, Len(xs), type)[1])
         /\ ~ReadMany(rd, Len(xs), type)[1].err => ReadMany(rd, Len(xs), type)[2] = xs
<1> DEFINE n == Len(xs)
           P(k) == ItemsEnd(type, xs, k)
           b(k) == Typed(type, xs[k])
<1>1. /\ n \in Nat /\ P(0) = 0 /\ \A k \in 0 .. n : P(k) \in Nat
      /\ \A k \in 1 .. n : P(k) = P(k - 1) + Len(b(k)) /\ b(k) \in Seq(Nat)
  BY ItemsAre
<1>2. \A k \in 1 .. n : HoldsIn(L, p + P(k - 1), b(k)) /\ IsItem(type, xs[k])
  BY DEF HoldsItems, AreItems
<1>3. file \in Seq(Nat) /\ rd \in Readers
  BY DEF Begins, AtPlace
<1>4. xs \in Seq(Seq(Nat))
  BY DEF AreItems
<1> HIDE DEF n, P, b
<1>5. PICK M \in [0 .. n -> ManyPairs] : ManySteps(M, rd, n, type) /\ ReadMany(rd, n, type) = M[n]
  BY <1>1, <1>3, ManyIs
<1> DEFINE Got(k) == /\ Reads(L, rd, p + P(k), M[k][1])
                     /\ ~M[k][1].err => Len(M[k][2]) = k /\ \A j \in 1 .. k : M[k][2][j] = xs[j]
           T == {k \in 0 .. n : Got(k)}
<1>6. 0 \in T
  <2>1. M[0][1] = rd /\ M[0][2] = <<>> /\ p + P(0) = p
    BY <1>1, <1>5 DEF ManySteps
  <2>2. Reads(L, rd, p, rd)
    BY <1>3 DEF Reads, AtPlace
  <2>3. Got(0)
    BY <2>1, <2>2
  <2> HIDE DEF Got
  <2> QED BY <1>1, <2>3
<1>7. ASSUME NEW k \in 0 .. n - 1, k \in T PROVE k + 1 \in T
  <2> DEFINE l == k + 1
             x == M[k]
             q == p + P(k)
             w == ReadTyped(x[1], type)
  <2>1. l \in 1 .. n /\ l - 1 = k /\ l \in 0 .. n /\ k \in 0 .. n
    BY <1>1
  <2>2. Got(k)
    BY <1>7
  <2> HIDE DEF l
  <2>3. M[l] = ManyStep(x, type) /\ x \in ManyPairs
    <3>1. M[l] = ManyStep(M[l - 1], type)
      BY <1>5, <2>1, Zenon DEF ManySteps
    <3> QED BY <2>1, <3>1
  <2>4. M[l][1] = w /\ M[l][2] = Append(x[2], w.val)
    BY <2>3 DEF ManyStep
  <2>5. x[1] \in Readers /\ x[2] \in Seq(Seq(Nat)) /\ Reads(L, rd, q, x[1])
    BY <2>2, <2>3 DEF ManyPairs
  <2>6. ~x[1].err => Len(x[2]) = k /\ \A j \in 1 .. k : x[2][j] = xs[j]
    BY <2>2
  <2>7. q \in Nat /\ HoldsIn(L, q, b(l)) /\ IsItem(type, xs[l])
    <3>1. HoldsIn(L, p + P(l - 1), b(l)) /\ IsItem(type, xs[l])
      BY <1>2, <2>1
    <3> QED BY <1>1, <2>1, <3>1
  <2> HIDE DEF q, x, w
  <2>8. AtPlace(x[1], q) /\ x[1].err \in BOOLEAN
    BY <2>5, ReadsTo
  <2>9. Reads(L, x[1], q + Len(b(l)), w) /\ (~w.err => w.val = xs[l])
    BY <2>7, <2>8, ReadTypedIs DEF b, w
  <2>10. Reads(L, rd, q + Len(b(l)), w)
    BY <2>5, <2>8, <2>9, ReadsOn
  <2>11. q + Len(b(l)) = p + P(l)
    <3>1. P(l) = P(l - 1) + Len(b(l)) /\ b(l) \in Seq(Nat) /\ P(k) \in Nat
      BY <1>1, <2>1
    <3>2. Len(b(l)) \in Nat
      BY <3>1
    <3> QED BY <2>1, <3>1, <3>2 DEF q
  <2>12. w.err \in BOOLEAN /\ w.val \in Seq(Nat)
    BY <2>9 DEF Reads, Readers
  <2>13. ASSUME ~w.err PROVE Len(M[l][2]) = l /\ \A j \in 1 .. l : M[l][2][j] = xs[j]
    <3>1. ~x[1].err
      BY <2>8, <2>9, <2>13 DEF Reads
    <3> DEFINE y == x[2]
               z == w.val
    <3>2. y \in Seq(Seq(Nat)) /\ z \in Seq(Nat) /\ Len(y) = k /\ z = xs[l] /\ \A j \in 1 .. k : y[j] = xs[j]
      BY <2>5, <2>6, <2>9, <2>12, <2>13, <3>1
    <3> HIDE DEF y, z
    <3>3. /\ Len(Append(y, z)) = k + 1 /\ \A j \in 1 .. k : Append(y, z)[j] = y[j]
          /\ Append(y, z)[k + 1] = z
      BY <3>2, AppendProperties
    <3>4. ASSUME NEW j \in 1 .. l PROVE Append(y, z)[j] = xs[j]
      <4>1. CASE j = l
        BY <3>2, <3>3, <4>1 DEF l
      <4>2. CASE j # l
        <5>1. j \in 1 .. k
          BY <2>1, <4>2 DEF l
        <5> QED BY <3>2, <3>3, <5>1
      <4> QED BY <4>1, <4>2
    <3>5. M[l][2] = Append(y, z)
      BY <2>4 DEF y, z
    <3>6. Len(Append(y, z)) = l
      BY <3>3 DEF l
    <3> QED BY <3>4, <3>5, <3>6, Zenon
  <2>14. Got(l)
    BY <2>4, <2>10, <2>11, <2>13, Zenon
  <2> HIDE DEF Got
  <2> QED BY <2>1, <2>14 DEF l
<1> HIDE DEF T
<1>8. 0 .. n \subseteq T
  BY <1>1, <1>6, <1>7, InductionUpTo
<1>9. Got(n) /\ M[n] \in ManyPairs
  <2>1. n \in 0 .. n
    BY <1>1
  <2>2. n \in T /\ M[n] \in ManyPairs
    BY <1>8, <2>1
  <2> HIDE DEF Got
  <2> QED BY <2>2 DEF T
<1>10. ~M[n][1].err => M[n][2] = xs
  <2> SUFFICES ASSUME ~M[n][1].err PROVE M[n][2] = xs
    OBVIOUS
  <2> DEFINE y == M[n][2]
  <2>1. y \in Seq(Seq(Nat)) /\ Len(y) = Len(xs) /\ \A j \in 1 .. Len(y) : y[j] = xs[j]
    BY <1>9 DEF ManyPairs, n
  <2> HIDE DEF y
  <2> QED BY <1>4, <2>1, SeqEqual DEF y
<1> QED BY <1>5, <1>9, <1>10 DEF n, P

\* A value's parts.
LEMMA ValueIs ==
  ASSUME NEW v, IsValue(v)
  PROVE  /\ v = ValueOf(v.type, ItemKind(v), DataOf(v))
         /\ v.type \in Nat /\ v.type \in 0 .. 12 /\ ItemKind(v) \in ItemTypes
         /\ AreItems(ItemKind(v), DataOf(v)) /\ Len(DataOf(v)) \in Nat
         /\ v.type # Array => ItemKind(v) = v.type /\ Len(DataOf(v)) = 1
         /\ v.type = Array => ItemKind(v) = v.elem
         /\ DataOf(v) \in Seq(Seq(Byte))
         /\ Len(v.items) = Len(DataOf(v)) /\ DOMAIN v.items = 1 .. Len(DataOf(v))
         /\ \A k \in 1 .. Len(DataOf(v)) : v.items[k] = Item(ItemKind(v), DataOf(v)[k])
<1>1. PICK type \in 0 .. 12, of \in ItemTypes, xs \in Seq(Seq(Byte)) :
        /\ v = ValueOf(type, of, xs)
        /\ \A k \in 1 .. Len(xs) : IsItem(of, xs[k])
        /\ type # Array => of = type /\ Len(xs) = 1
  BY DEF IsValue
<1> DEFINE n == Len(xs)
           items == [k \in 1 .. n |-> Item(of, xs[k])]
<1>2. n \in Nat /\ xs = [k \in 1 .. n |-> xs[k]] /\ xs \in [1 .. n -> Seq(Byte)]
  OBVIOUS
<1>3. v.type = type /\ v.elem = (IF type = Array THEN of ELSE 0) /\ v.items = items
  BY <1>1 DEF ValueOf
<1>4. Len(items) = n /\ DOMAIN items = 1 .. n /\ \A k \in 1 .. n : items[k] = Item(of, xs[k]) /\ items[k].data = xs[k]
  BY <1>2 DEF Item
<1>5. ItemKind(v) = of
  BY <1>1, <1>3 DEF ItemKind
<1> HIDE DEF items
<1>6. DataOf(v) = xs
  <2>1. DataOf(v) = [k \in 1 .. Len(v.items) |-> v.items[k].data] /\ v.items = items
    BY <1>3 DEF DataOf
  <2>2. Len(items) = n /\ \A k \in 1 .. n : items[k].data = xs[k]
    BY <1>4
  <2> HIDE DEF n
  <2>3. DataOf(v) = [k \in 1 .. n |-> items[k].data]
    BY <2>1, <2>2
  <2> QED BY <1>2, <2>2, <2>3
<1>7. xs \in Seq(Seq(Nat))
  <2>1. \A j \in 1 .. n : xs[j] \in Seq(Nat)
    BY <1>2, BytesAre
  <2>2. xs \in [1 .. n -> Seq(Nat)]
    BY <1>2, <2>1
  <2>3. n \in Nat
    BY <1>2
  <2> HIDE DEF n
  <2> QED BY <2>2, <2>3
<1>8. AreItems(of, xs)
  BY <1>1, <1>7 DEF AreItems
<1>9. type \in Nat
  OBVIOUS
<1> QED BY <1>1, <1>2, <1>3, <1>4, <1>5, <1>6, <1>8, <1>9

\* Items one after the other.
LEMMA ItemsBytes ==
  ASSUME NEW type \in ItemTypes, NEW xs, AreItems(type, xs)
  PROVE  /\ FlattenSeq(TypedAll(type, xs)) \in Seq(Nat)
         /\ Len(FlattenSeq(TypedAll(type, xs))) = ItemsEnd(type, xs, Len(xs))
         /\ ItemsEnd(type, xs, Len(xs)) \in Nat
         /\ \A s, p : Len(s) \in Nat /\ p \in Nat /\ HoldsIn(s, p, FlattenSeq(TypedAll(type, xs)))
                        => HoldsItems(s, p, type, xs)
<1> DEFINE n == Len(xs)
           t == TypedAll(type, xs)
           b == FlattenSeq(t)
<1>1. /\ n \in Nat /\ t \in [1 .. n -> Seq(Nat)]
      /\ \A k \in 0 .. n : ItemsEnd(type, xs, k) \in Nat
      /\ \A k \in 1 .. n : t[k] = Typed(type, xs[k]) /\ Typed(type, xs[k]) \in Seq(Nat)
  BY ItemsAre
<1>2. \A k : ItemsEnd(type, xs, k) = Ends(t, n)[k]
  BY DEF ItemsEnd
<1> HIDE DEF n, t
<1>3. b \in Seq(Nat) /\ Len(b) = Ends(t, n)[n] /\ \A k \in 1 .. n : HoldsIn(b, Ends(t, n)[k - 1], t[k])
  BY <1>1, FlattenAt
<1>4. n \in 0 .. n
  BY <1>1
<1> HIDE DEF b
<1>5. ASSUME NEW s, NEW p, Len(s) \in Nat, p \in Nat, HoldsIn(s, p, b) PROVE HoldsItems(s, p, type, xs)
  <2>1. ASSUME NEW k \in 1 .. n PROVE HoldsIn(s, p + ItemsEnd(type, xs, k - 1), Typed(type, xs[k]))
    <3>1. k - 1 \in 0 .. n
      BY <1>1
    <3> DEFINE q == ItemsEnd(type, xs, k - 1)
               c == Typed(type, xs[k])
    <3>2. q \in Nat /\ HoldsIn(b, q, c) /\ c \in Seq(Nat)
      BY <1>1, <1>2, <1>3, <3>1
    <3>3. Len(c) \in Nat /\ Len(b) \in Nat
      BY <1>3, <3>2
    <3> HIDE DEF q, c
    <3>4. HoldsIn(s, p + q, c)
      BY <1>5, <3>2, <3>3, HoldsWithin
    <3> QED BY <3>4 DEF q, c
  <2> QED BY <2>1 DEF HoldsItems, n
<1> QED BY <1>1, <1>2, <1>3, <1>4, <1>5 DEF b, t, n

\* The bytes of a value and where its parts are in them.
ItemsAt(v) == IF v.type = Array THEN 16 ELSE 4

LEMMA ValueBytesAre ==
  ASSUME NEW v, IsValue(v)
  PROVE  /\ ValueBytes(v) \in Seq(Nat)
         /\ Len(ValueBytes(v)) = ItemsAt(v) + ItemsEnd(ItemKind(v), DataOf(v), Len(DataOf(v)))
         /\ \A s, p : Len(s) \in Nat /\ p \in Nat /\ HoldsIn(s, p, ValueBytes(v)) =>
              /\ HoldsIn(s, p, Num(v.type, 4))
              /\ v.type = Array => HoldsIn(s, p + 4, Num(ItemKind(v), 4)) /\ HoldsIn(s, p + 8, Num(Len(DataOf(v)), 8))
              /\ HoldsItems(s, p + ItemsAt(v), ItemKind(v), DataOf(v))
<1> DEFINE type == v.type
           elem == ItemKind(v)
           xs   == DataOf(v)
           n    == Len(xs)
           b    == FlattenSeq(TypedAll(elem, xs))
           c    == ItemsEnd(elem, xs, n)
           hType == Num(type, 4)
           hElem == Num(elem, 4)
           hNum  == Num(n, 8)
           all   == ValueBytes(v)
<1>1. /\ type \in Nat /\ elem \in ItemTypes /\ AreItems(elem, xs) /\ n \in Nat /\ elem \in Nat /\ xs \in Seq(Seq(Nat))
      /\ type # Array => elem = type /\ n = 1
  <2>1. \A x \in ItemTypes : x \in Nat
    BY DEF ItemTypes
  <2>2. /\ type \in Nat /\ elem \in ItemTypes /\ AreItems(elem, xs) /\ n \in Nat
        /\ type # Array => elem = type /\ n = 1
    BY ValueIs
  <2>3. xs \in Seq(Seq(Nat))
    BY <2>2 DEF AreItems
  <2> QED BY <2>1, <2>2, <2>3
<1>2. all = hType \o IF type # Array THEN Typed(type, xs[1])
                     ELSE (hElem \o hNum) \o FlattenSeq(TypedAll(elem, xs))
  <2>1. /\ DOMAIN v.items = 1 .. n /\ Len(v.items) = n /\ \A k \in 1 .. n : v.items[k] = Item(elem, xs[k])
        /\ type = Array => elem = v.elem
    <3>1. /\ Len(v.items) = Len(DataOf(v)) /\ DOMAIN v.items = 1 .. Len(DataOf(v))
          /\ \A k \in 1 .. Len(DataOf(v)) : v.items[k] = Item(ItemKind(v), DataOf(v)[k])
      BY ValueIs
    <3>2. v.type = Array => ItemKind(v) = v.elem
      BY DEF ItemKind
    <3> QED BY <3>1, <3>2 DEF n, xs, elem, type
  <2>2. \A k \in 1 .. n : v.items[k].type = elem /\ v.items[k].data = xs[k]
    <3> HIDE DEF elem, xs, n
    <3> TAKE k \in 1 .. n
    <3>1. v.items[k] = Item(elem, xs[k])
      BY <2>1
    <3> DEFINE y == v.items[k]
               x == xs[k]
    <3>2. y = Item(elem, x)
      BY <3>1
    <3> HIDE DEF y, x
    <3>3. y.type = elem /\ y.data = x
      BY <3>2 DEF Item
    <3> QED BY <3>3 DEF y, x
  <2>3. TypedItems(v.items) = FlattenSeq(TypedAll(elem, xs))
    <3>1. [k \in DOMAIN v.items |-> Typed(v.items[k].type, v.items[k].data)] = [k \in 1 .. n |-> Typed(elem, xs[k])]
      <4> HIDE DEF elem, xs, n
      <4>1. \A k \in 1 .. n : Typed(v.items[k].type, v.items[k].data) = Typed(elem, xs[k])
        BY <2>2, Zenon
      <4>2. DOMAIN v.items = 1 .. n
        BY <2>1
      <4> QED BY <4>1, <4>2, Zenon
    <3> QED BY <3>1 DEF TypedItems, TypedAll
  <2>4. type # Array => v.items[1].data = xs[1]
    <3> HIDE DEF elem, xs, n, type
    <3> SUFFICES ASSUME type # Array PROVE v.items[1].data = xs[1]
      OBVIOUS
    <3>1. n = 1
      BY <1>1
    <3>2. 1 \in 1 .. n
      BY <3>1
    <3> QED BY <2>2, <3>2
  <2>5. all = hType \o IF type # Array THEN Typed(type, v.items[1].data)
                       ELSE (Num(v.elem, 4) \o Num(Len(v.items), 8)) \o TypedItems(v.items)
    BY DEF ValueBytes
  <2> HIDE DEF elem, xs, n, type, all
  <2> QED BY <2>1, <2>3, <2>4, <2>5
<1> HIDE DEF all, type, elem, xs
<1>4. n \in Nat /\ 4 \in Nat \ {0} /\ 8 \in Nat \ {0}
  BY <1>1
<1> HIDE DEF n
<1>5. /\ hType \in Seq(Nat) /\ Len(hType) = 4 /\ hElem \in Seq(Nat) /\ Len(hElem) = 4
      /\ hNum \in Seq(Nat) /\ Len(hNum) = 8
  BY <1>1, <1>4, NumIs
<1> HIDE DEF hType, hElem, hNum
<1>6. /\ b \in Seq(Nat) /\ Len(b) = c /\ c \in Nat
      /\ \A s, p : Len(s) \in Nat /\ p \in Nat /\ HoldsIn(s, p, b) => HoldsItems(s, p, elem, xs)
  BY <1>1, ItemsBytes DEF n
<1> HIDE DEF b
<1>7. CASE type # Array
  <2> DEFINE d == Typed(type, xs[1])
  <2>1. all = hType \o d
    BY <1>2, <1>7
  <2>2. /\ c = Len(d) /\ d \in Seq(Nat) /\ ItemsEnd(elem, xs, 0) = 0
    <3>1. n = 1 /\ elem = type
      BY <1>1, <1>7
    <3>2. /\ ItemsEnd(elem, xs, 0) = 0
          /\ \A k \in 1 .. n : /\ ItemsEnd(elem, xs, k) = ItemsEnd(elem, xs, k - 1) + Len(Typed(elem, xs[k]))
                               /\ Typed(elem, xs[k]) \in Seq(Nat)
      BY <1>1, ItemsAre DEF n
    <3>3. d \in Seq(Nat) /\ ItemsEnd(elem, xs, 1) = ItemsEnd(elem, xs, 0) + Len(d)
      <4>1. 1 \in 1 .. n /\ 1 - 1 = 0
        BY <3>1
      <4> QED BY <3>1, <3>2, <4>1
    <3>4. Len(d) \in Nat
      BY <3>3
    <3> QED BY <3>1, <3>2, <3>3, <3>4
  <2> HIDE DEF d
  <2>3. hType \o d \in Seq(Nat) /\ Len(hType \o d) = Len(hType) + Len(d)
    BY <1>5, <2>2, Joined
  <2>4. ASSUME NEW s, NEW p, Len(s) \in Nat, p \in Nat, HoldsIn(s, p, all)
        PROVE  HoldsIn(s, p, hType) /\ HoldsItems(s, p + 4, elem, xs)
    <3>1. HoldsIn(s, p, hType \o d)
      BY <2>1, <2>4
    <3>2. HoldsIn(s, p, hType) /\ HoldsIn(s, p + Len(hType), d)
      BY <1>5, <2>2, <2>4, <3>1, HoldsJoined
    <3> DEFINE q == p + 4
    <3>3. q \in Nat /\ HoldsIn(s, q, d) /\ q + 0 = q
      BY <1>5, <2>4, <3>2
    <3> HIDE DEF q
    <3>4. \A k \in 1 .. n : HoldsIn(s, q + ItemsEnd(elem, xs, k - 1), Typed(elem, xs[k]))
      <4> TAKE k \in 1 .. n
      <4>1. n = 1 /\ elem = type
        BY <1>1, <1>7
      <4>2. k = 1 /\ k - 1 = 0
        BY <4>1
      <4> QED BY <2>2, <3>3, <4>1, <4>2 DEF d
    <3>5. HoldsItems(s, q, elem, xs)
      BY <3>4 DEF HoldsItems, n
    <3> QED BY <3>2, <3>5 DEF q
  <2>5. ItemsAt(v) = 4
    BY <1>7 DEF ItemsAt, type
  <2>6. all \in Seq(Nat) /\ Len(all) = 4 + c
    BY <1>5, <2>1, <2>2, <2>3
  <2> QED BY <1>7, <2>4, <2>5, <2>6 DEF all, type, elem, xs, n, hType
<1>8. CASE type = Array
  <2> DEFINE h  == hElem \o hNum
             hb == h \o b
  <2>1. all = hType \o hb
    BY <1>2, <1>8 DEF b
  <2>2. h \in Seq(Nat) /\ Len(h) = 12
    <3>1. h \in Seq(Nat) /\ Len(h) = Len(hElem) + Len(hNum)
      BY <1>5, Joined
    <3> QED BY <1>5, <3>1
  <2> HIDE DEF h
  <2>3. hb \in Seq(Nat) /\ Len(hb) = 12 + c
    <3>1. hb \in Seq(Nat) /\ Len(hb) = Len(h) + Len(b)
      BY <1>6, <2>2, Joined
    <3> QED BY <1>6, <2>2, <3>1
  <2> HIDE DEF hb
  <2>4. all \in Seq(Nat) /\ Len(all) = 16 + c
    <3>1. hType \o hb \in Seq(Nat) /\ Len(hType \o hb) = Len(hType) + Len(hb)
      BY <1>5, <2>3, Joined
    <3> QED BY <1>5, <1>6, <2>1, <2>3, <3>1
  <2>5. ASSUME NEW s, NEW p, Len(s) \in Nat, p \in Nat, HoldsIn(s, p, all)
        PROVE  /\ HoldsIn(s, p, hType) /\ HoldsIn(s, p + 4, hElem) /\ HoldsIn(s, p + 8, hNum)
               /\ HoldsItems(s, p + 16, elem, xs)
    <3>1. HoldsIn(s, p, hType \o hb)
      BY <2>1, <2>5
    <3>2. HoldsIn(s, p, hType) /\ HoldsIn(s, p + Len(hType), hb)
      BY <1>5, <2>3, <2>5, <3>1, HoldsJoined
    <3> DEFINE q == p + 4
    <3>3. q \in Nat /\ HoldsIn(s, q, h \o b)
      BY <1>5, <2>5, <3>2 DEF hb
    <3> HIDE DEF q
    <3>4. HoldsIn(s, q, h) /\ HoldsIn(s, q + Len(h), b)
      BY <1>6, <2>2, <2>5, <3>3, HoldsJoined
    <3>5. HoldsIn(s, q, hElem \o hNum)
      BY <3>4 DEF h
    <3>6. HoldsIn(s, q, hElem) /\ HoldsIn(s, q + Len(hElem), hNum)
      BY <1>5, <2>5, <3>3, <3>5, HoldsJoined
    <3>7. q + 4 = p + 8 /\ q + 12 = p + 16 /\ p + 16 \in Nat
      BY <2>5 DEF q
    <3>8. HoldsIn(s, p + 8, hNum) /\ HoldsIn(s, p + 16, b)
      <4>1. q + Len(hElem) = p + 8 /\ q + Len(h) = p + 16
        BY <1>5, <2>2, <3>7
      <4> QED BY <3>4, <3>6, <4>1, Zenon
    <3>9. HoldsItems(s, p + 16, elem, xs)
      BY <1>6, <2>5, <3>7, <3>8
    <3> QED BY <3>2, <3>6, <3>8, <3>9 DEF q
  <2>6. ItemsAt(v) = 16
    BY <1>8 DEF ItemsAt, type
  <2> QED BY <2>4, <2>5, <2>6 DEF all, type, elem, xs, n, hType, hElem, hNum
<1> QED BY <1>7, <1>8

\* A number that is in the complete file is read, or is missing from the file;
\* the reader that has failed reads 0.
LEMMA ReadNumIs ==
  ASSUME NEW L, Begins(L), NEW p \in Nat, NEW rd, AtPlace(rd, p), NEW x \in Nat, NEW w \in Nat \ {0},
         HoldsIn(L, p, Num(x, w))
  PROVE  /\ Reads(L, rd, p + w, Read(rd, w)) /\ AtPlace(Read(rd, w), p + w) /\ Read(rd, w).err \in BOOLEAN
         /\ Read(rd, w) \in Readers
         /\ Read(rd, w).val[1] = IF Read(rd, w).err THEN 0 ELSE x
         /\ ~Read(rd, w).err => Read(rd, w).val = Num(x, w)
<1> DEFINE b == Num(x, w)
           y == Read(rd, w)
<1>1. b \in Seq(Nat) /\ Len(b) = w /\ b[1] = x
  BY NumIs
<1> HIDE DEF b
<1>2. Reads(L, rd, p + Len(b), Read(rd, Len(b))) /\ (~Read(rd, Len(b)).err => Read(rd, Len(b)).val = b)
  BY <1>1, ReadIs DEF b
<1>3. Reads(L, rd, p + w, y) /\ (~y.err => y.val = b)
  BY <1>1, <1>2
<1>4. rd \in Readers /\ file \in Seq(Nat) /\ w \in Nat /\ w > 0
  BY DEF AtPlace, Begins
<1>5. y.err => y.val[1] = 0
  BY <1>4, ReadType
<1> HIDE DEF y
<1>6. AtPlace(y, p + w) /\ y.err \in BOOLEAN
  BY <1>3, ReadsTo
<1>7. y \in Readers
  BY <1>3 DEF Reads
<1> QED BY <1>1, <1>3, <1>5, <1>6, <1>7 DEF y, b

\* A value that is in the complete file is read, or is missing from the file.
LEMMA ReadValueIs ==
  ASSUME NEW L, Begins(L), NEW p \in Nat, NEW rd, AtPlace(rd, p), NEW v, IsValue(v), HoldsIn(L, p, ValueBytes(v))
  PROVE  /\ Reads(L, rd, p + Len(ValueBytes(v)), ReadValue(rd)[1])
         /\ ~ReadValue(rd)[1].err => ReadValue(rd)[2] = v
<1> DEFINE kind == ItemKind(v)
           xs == DataOf(v)
           n  == Len(xs)
           c  == ItemsEnd(kind, xs, n)
           end == p + Len(ValueBytes(v))
           type == Read(rd, 4)
           elem == Read(type, 4)
           num  == Read(elem, 8)
           len  == [num EXCEPT !.err = @ \/ num.val[1] > Len(file)]
           many == IF type.val[1] # Array THEN ReadMany(type, 1, type.val[1])
                   ELSE ReadMany(len, IF len.err THEN 0 ELSE len.val[1], elem.val[1])
           of   == IF type.val[1] # Array THEN type.val[1] ELSE elem.val[1]
           got  == [type |-> type.val[1], elem |-> IF type.val[1] # Array THEN 0 ELSE elem.val[1],
                    items |-> [k \in DOMAIN many[2] |-> Item(of, many[2][k])]]
           y == ReadValue(rd)
<1>0. y[1] = many[1] /\ (many[2] = xs => y[2] = ValueOf(type.val[1], of, xs))
  <2>1. y = <<many[1], got>>
    BY DEF ReadValue
  <2>2. DOMAIN xs = 1 .. Len(xs)
    <3>1. xs \in Seq(Seq(Byte))
      BY ValueIs
    <3> QED BY <3>1
  <2>3. many[2] = xs => got = ValueOf(type.val[1], of, xs)
    <3> HIDE DEF many, type, elem, xs
    <3> QED BY <2>2 DEF ValueOf
  <2> HIDE DEF many, got, y, of
  <2> QED BY <2>1, <2>3
<1> HIDE DEF y
<1>1. /\ v = ValueOf(v.type, kind, xs)
      /\ v.type \in Nat /\ v.type \in 0 .. 12 /\ kind \in ItemTypes /\ kind \in Nat /\ AreItems(kind, xs) /\ n \in Nat
      /\ v.type # Array => kind = v.type /\ n = 1
  <2>1. \A x \in ItemTypes : x \in Nat
    BY DEF ItemTypes
  <2> QED BY <2>1, ValueIs
<1>2. Len(L) \in Nat /\ file \in Seq(Nat) /\ Len(file) \in Nat
  BY DEF Begins
<1>3. /\ HoldsIn(L, p, Num(v.type, 4))
      /\ v.type = Array => HoldsIn(L, p + 4, Num(kind, 4)) /\ HoldsIn(L, p + 8, Num(n, 8))
      /\ HoldsItems(L, p + ItemsAt(v), kind, xs)
      /\ Len(ValueBytes(v)) = ItemsAt(v) + c
  BY <1>2, ValueBytesAre
<1> HIDE DEF kind, xs
<1>4. c \in Nat /\ n <= c
  BY <1>1, ItemsAre
<1>5. /\ Reads(L, rd, p + 4, type) /\ AtPlace(type, p + 4) /\ type.err \in BOOLEAN /\ type \in Readers
      /\ type.val[1] = IF type.err THEN 0 ELSE v.type
  BY <1>1, <1>3, ReadNumIs
<1>6. rd.err \in BOOLEAN
  BY DEF AtPlace, Readers
<1>8. ASSUME type.err PROVE Reads(L, rd, end, y[1]) /\ y[1].err
  <2>1. type.val[1] = 0 /\ 0 # Array
    BY <1>5, <1>8 DEF Array
  <2> HIDE DEF type, elem, num, len
  <2>2. y[1] = ReadMany(type, 1, 0)[1]
    BY <1>0, <2>1
  <2>3. 0 \in ItemTypes /\ 1 \in Nat
    BY DEF ItemTypes, Array
  <2>4. ReadMany(type, 1, 0) \in ManyPairs /\ ReadMany(type, 1, 0)[1].err
    BY <1>2, <1>5, <1>8, <2>3, ReadManyType
  <2>5. y[1] \in Readers /\ y[1].err
    BY <2>2, <2>4 DEF ManyPairs
  <2> QED BY <1>5, <1>8, <2>5 DEF Reads
<1>9. ASSUME ~type.err, v.type # Array PROVE Reads(L, rd, end, y[1]) /\ (~y[1].err => y[2] = v)
  <2>1. type.val[1] = v.type /\ kind = v.type /\ n = 1 /\ ItemsAt(v) = 4
    BY <1>1, <1>5, <1>9 DEF ItemsAt
  <2> HIDE DEF type, n, elem, num, len
  <2> DEFINE m == ReadMany(type, n, kind)
             q == p + 4
  <2>2. y[1] = m[1] /\ (m[2] = xs => y[2] = ValueOf(v.type, kind, xs))
    BY <1>0, <1>9, <2>1
  <2>3. q \in Nat /\ HoldsItems(L, q, kind, xs) /\ AtPlace(type, q) /\ end = q + c
    BY <1>3, <1>4, <1>5, <2>1
  <2> HIDE DEF q, end
  <2>4. Reads(L, type, q + c, m[1]) /\ (~m[1].err => m[2] = xs)
    BY <1>1, <2>3, ReadManyIs DEF n
  <2> HIDE DEF m
  <2>5. Reads(L, rd, end, y[1])
    <3> DEFINE z == y[1]
    <3>1. Reads(L, type, end, z)
      BY <2>2, <2>3, <2>4
    <3> HIDE DEF z
    <3>2. Reads(L, rd, end, z)
      BY <1>5, <3>1, ReadsOn
    <3> QED BY <3>2 DEF z
  <2>6. ~y[1].err => y[2] = v
    BY <1>1, <2>1, <2>2, <2>4
  <2> QED BY <2>5, <2>6
<1>10. ASSUME ~type.err, v.type = Array PROVE Reads(L, rd, end, y[1]) /\ (~y[1].err => y[2] = v)
  <2>1. type.val[1] = Array /\ ItemsAt(v) = 16
    BY <1>5, <1>10 DEF ItemsAt
  <2> DEFINE q == p + 4
             s == p + 8
             t == p + 16
  <2>2. q \in Nat /\ s \in Nat /\ t \in Nat /\ q + 4 = s /\ s + 8 = t
    OBVIOUS
  <2>3. /\ type.err \in BOOLEAN /\ HoldsIn(L, q, Num(kind, 4)) /\ HoldsIn(L, s, Num(n, 8)) /\ HoldsItems(L, t, kind, xs)
        /\ end = t + c /\ AtPlace(type, q) /\ Reads(L, rd, q, type)
    BY <1>3, <1>4, <1>5, <1>10, <2>1
  <2> HIDE DEF q, s, t, end, type, n
  <2>4. /\ Reads(L, type, s, elem) /\ AtPlace(elem, s) /\ elem.err \in BOOLEAN /\ elem \in Readers
        /\ elem.val[1] = IF elem.err THEN 0 ELSE kind
    BY <1>1, <2>2, <2>3, ReadNumIs
  <2> HIDE DEF elem
  <2>5. /\ Reads(L, elem, t, num) /\ AtPlace(num, t) /\ num.err \in BOOLEAN /\ num \in Readers
        /\ num.val[1] = IF num.err THEN 0 ELSE n
    BY <1>1, <2>2, <2>3, <2>4, ReadNumIs
  <2> HIDE DEF num
  <2> DEFINE m == ReadMany(len, IF len.err THEN 0 ELSE len.val[1], elem.val[1])
  <2>6. y[1] = m[1] /\ (m[2] = xs => y[2] = ValueOf(type.val[1], elem.val[1], xs))
    BY <1>0, <2>1
  <2>7. /\ len \in Readers /\ len.pos = num.pos /\ len.val = num.val
        /\ len.err = (num.err \/ num.val[1] > Len(file))
    <3> DEFINE e == num.err \/ num.val[1] > Len(file)
    <3>1. len = [pos |-> num.pos, err |-> e, val |-> num.val] /\ e \in BOOLEAN
      BY <2>5 DEF Readers
    <3> HIDE DEF e
    <3>2. len.pos = num.pos /\ len.val = num.val /\ len.err = e
      BY <3>1
    <3>3. len \in Readers
      BY <2>5, <3>1 DEF Readers
    <3> HIDE DEF len
    <3> QED BY <3>2, <3>3 DEF e
  <2>8. Reads(L, rd, t, num)
    <3>1. Reads(L, rd, s, elem)
      BY <2>3, <2>4, ReadsOn
    <3> QED BY <2>4, <2>5, <3>1, ReadsOn
  <2> HIDE DEF len
  <2>9. Reads(L, rd, t, len) /\ AtPlace(len, t) /\ len.err \in BOOLEAN
    <3>1. file = L /\ ~rd.err => ~len.err
      <4> SUFFICES ASSUME file = L, ~rd.err PROVE ~len.err
        OBVIOUS
      <4>1. ~num.err /\ num.val[1] = n
        BY <2>5, <2>8 DEF Reads
      <4>2. n <= Len(file)
        <5>1. end <= Len(L)
          BY DEF HoldsIn, end
        <5> QED BY <1>1, <1>2, <1>4, <2>2, <2>3, <5>1 DEF n
      <4>3. ~(n > Len(file))
        BY <1>1, <1>2, <4>2 DEF n
      <4> QED BY <2>7, <4>1, <4>3
    <3>2. Reads(L, rd, t, len)
      BY <2>7, <2>8, <3>1 DEF Reads
    <3> QED BY <3>2, ReadsTo
  <2>10. ASSUME len.err PROVE Reads(L, rd, end, y[1]) /\ y[1].err
    <3>1. m = ReadMany(len, 0, elem.val[1])
      BY <2>10
    <3>2. elem.val[1] \in ItemTypes /\ 0 \in Nat
      <4>1. 0 \in ItemTypes
        BY DEF ItemTypes, Array
      <4> QED BY <1>1, <2>4, <4>1
    <3> DEFINE k == elem.val[1]
    <3> HIDE DEF m, k
    <3>3. ReadMany(len, 0, k) \in ManyPairs /\ ReadMany(len, 0, k)[1].err
      BY <1>2, <2>7, <2>10, <3>2, ReadManyType DEF k
    <3>4. m[1] \in Readers /\ m[1].err
      BY <3>1, <3>3 DEF ManyPairs, k
    <3>5. ~(file = L /\ ~rd.err)
      BY <2>9, <2>10 DEF Reads
    <3>6. Reads(L, rd, end, m[1])
      BY <3>4, <3>5 DEF Reads
    <3> QED BY <2>6, <3>4, <3>6 DEF m
  <2>11. ASSUME ~len.err PROVE Reads(L, rd, end, y[1]) /\ (~y[1].err => y[2] = v)
    <3>1. ~num.err
      BY <2>7, <2>11
    <3>2. ~elem.err
      BY <2>5, <3>1 DEF Reads
    <3>3. len.val[1] = n /\ elem.val[1] = kind
      BY <2>4, <2>5, <2>7, <3>1, <3>2
    <3>4. m = ReadMany(len, n, kind)
      BY <2>11, <3>3
    <3> HIDE DEF m
    <3>5. Reads(L, len, t + c, m[1]) /\ (~m[1].err => m[2] = xs)
      BY <1>1, <2>2, <2>3, <2>9, <3>4, ReadManyIs DEF n
    <3>6. Reads(L, rd, end, m[1])
      <4> DEFINE z == m[1]
      <4>1. Reads(L, len, end, z)
        BY <2>3, <3>5
      <4> HIDE DEF z
      <4>2. Reads(L, rd, end, z)
        BY <2>9, <4>1, ReadsOn
      <4> QED BY <4>2 DEF z
    <3>7. ~m[1].err => y[2] = v
      BY <1>1, <1>10, <2>1, <2>6, <3>3, <3>5 DEF m
    <3>8. y[1] = m[1]
      BY <2>6 DEF m
    <3> QED BY <3>6, <3>7, <3>8
  <2> QED BY <2>10, <2>11
<1> HIDE DEF type, end
<1> QED BY <1>5, <1>8, <1>9, <1>10 DEF y, end

-----------------------------------------------------------------------------
(* What the Writer has gathered, and the header it makes of it.             *)

\* Tensors that AddTensor takes.
GoodTensors ==
  {t \in [name : Seq(Byte), dims : Seq(1 .. 255), type : DOMAIN TypeInfos, data : Seq(Byte)] :
     Len(t.data) = TensorBytes(t.type, t.dims)}

Written ==
  /\ keys \in Seq(Seq(Byte)) /\ \A k \in 1 .. Len(keys) : keys[k] \in DOMAIN kv /\ IsValue(kv[keys[k]])
  /\ tensors \in Seq(GoodTensors)
  /\ alignment \in 1 .. 255

\* A tensor that the Writer holds.
LEMMA TensorIs ==
  ASSUME NEW t \in GoodTensors
  PROVE  /\ t.name \in Seq(Byte) /\ t.dims \in Seq(1 .. 255) /\ Len(t.dims) \in Nat
         /\ t.type \in Nat /\ t.type \in DOMAIN TypeInfos
         /\ t.data \in Seq(Nat) /\ Len(t.data) \in Nat /\ Len(t.data) = TensorBytes(t.type, t.dims)
         /\ t = [name |-> t.name, dims |-> t.dims, type |-> t.type, data |-> t.data]
<1>1. /\ t \in [name : Seq(Byte), dims : Seq(1 .. 255), type : DOMAIN TypeInfos, data : Seq(Byte)]
      /\ Len(t.data) = TensorBytes(t.type, t.dims)
  BY DEF GoodTensors
<1>2. t.type \in Byte
  BY <1>1, GgufAssumption
<1>3. t.type \in Nat
  BY <1>2 DEF Byte
<1>4. t.data \in Seq(Nat) /\ Len(t.data) \in Nat
  BY <1>1, BytesAre
<1>5. Len(t.dims) \in Nat
  BY <1>1
<1> QED BY <1>1, <1>3, <1>4, <1>5

\* Each offset is the one before it and that tensor's data, rounded up.
LEMMA OffsetsAre ==
  ASSUME Written
  PROVE  /\ Offsets \in [1 .. Len(tensors) -> Nat]
         /\ \A k \in 1 .. Len(tensors) :
              Offsets[k] = IF k = 1 THEN 0 ELSE AlignUp(Offsets[k - 1] + Len(tensors[k - 1].data), alignment)
<1> DEFINE n == Len(tensors)
           Eqn(F) == F = [k \in 1 .. n |-> IF k = 1 THEN 0 ELSE AlignUp(F[k - 1] + Len(tensors[k - 1].data), alignment)]
           g == [k \in 1 .. n |-> [x \in Nat |-> AlignUp(x + Len(tensors[k].data), alignment)]]
<1>1. n \in Nat /\ tensors \in Seq(GoodTensors) /\ alignment \in 1 .. 255
  BY DEF Written
<1>2. \A k \in 1 .. n : Len(tensors[k].data) \in Nat
  <2>1. \A k \in 1 .. n : tensors[k] \in GoodTensors
    BY <1>1
  <2> QED BY <2>1, TensorIs
<1>3. Offsets = CHOOSE F : Eqn(F)
  BY DEF Offsets
<1>4. g \in [1 .. n -> [Nat -> Nat]]
  <2>1. ASSUME NEW k \in 1 .. n, NEW x \in Nat PROVE AlignUp(x + Len(tensors[k].data), alignment) \in Nat
    <3>1. x + Len(tensors[k].data) \in Nat
      BY <1>2
    <3> QED BY <1>1, <3>1, AlignUpNat
  <2> QED BY <2>1
<1>5. \A k \in 1 .. n, x \in Nat : g[k][x] = AlignUp(x + Len(tensors[k].data), alignment)
  OBVIOUS
<1> HIDE DEF g, n
<1>6. 0 \in Nat
  OBVIOUS
<1>7. PICK F \in [0 .. n -> Nat] : Steps(F, 0, g, n)
  BY <1>1, <1>4, <1>6, Iterates
<1> DEFINE H == [k \in 1 .. n |-> F[k - 1]]
<1>8. ASSUME NEW k \in 1 .. n
      PROVE  H[k] = IF k = 1 THEN 0 ELSE AlignUp(H[k - 1] + Len(tensors[k - 1].data), alignment)
  <2>1. CASE k = 1
    BY <1>7, <2>1 DEF Steps
  <2>2. CASE k # 1
    <3> DEFINE l == k - 1
    <3>1. l \in 1 .. n /\ l - 1 \in 0 .. n /\ H[k] = F[l] /\ H[l] = F[l - 1]
      BY <1>1, <2>2
    <3> HIDE DEF l, H
    <3>2. F[l] = g[l][F[l - 1]] /\ F[l - 1] \in Nat
      BY <1>7, <3>1 DEF Steps
    <3>3. F[l] = AlignUp(F[l - 1] + Len(tensors[l].data), alignment)
      BY <1>5, <3>1, <3>2
    <3>4. H[k] = AlignUp(H[l] + Len(tensors[l].data), alignment)
      BY <3>1, <3>3
    <3> QED BY <2>2, <3>4 DEF l
  <2> QED BY <2>1, <2>2
<1>9. H \in [1 .. n -> Nat]
  <2>1. \A k \in 1 .. n : k - 1 \in 0 .. n
    BY <1>1
  <2>2. \A k \in 1 .. n : F[k - 1] \in Nat
    BY <1>7, <2>1
  <2> QED BY <2>2
<1>10. H = [k \in 1 .. n |-> H[k]]
  OBVIOUS
<1> HIDE DEF H
<1>11. Eqn(H)
  BY <1>8, <1>10
<1>12. Eqn(Offsets)
  BY <1>3, <1>11
<1>13. \A k \in 1 .. n : Offsets[k] = IF k = 1 THEN 0 ELSE AlignUp(Offsets[k - 1] + Len(tensors[k - 1].data), alignment)
  BY <1>12
<1>14. DOMAIN Offsets = 1 .. n /\ Offsets = [k \in 1 .. n |-> Offsets[k]]
  BY <1>12
<1> HIDE DEF Eqn
<1> DEFINE T == {k \in 0 .. n : k > 0 => Offsets[k] \in Nat}
<1>15. 0 \in T
  BY <1>1
<1>16. ASSUME NEW k \in 0 .. n - 1, k \in T PROVE k + 1 \in T
  <2>1. k + 1 \in 1 .. n /\ (k + 1) - 1 = k /\ k + 1 \in 0 .. n
    BY <1>1
  <2>2. Offsets[k + 1] = IF k + 1 = 1 THEN 0 ELSE AlignUp(Offsets[k] + Len(tensors[k].data), alignment)
    BY <1>13, <2>1
  <2>3. CASE k = 0
    BY <2>1, <2>2, <2>3
  <2>4. CASE k # 0
    <3>1. k \in 1 .. n /\ Offsets[k] \in Nat /\ k + 1 # 1
      BY <1>16, <2>4
    <3>2. Len(tensors[k].data) \in Nat
      BY <1>2, <3>1
    <3> DEFINE x == Offsets[k] + Len(tensors[k].data)
    <3>3. x \in Nat
      BY <3>1, <3>2
    <3> HIDE DEF x
    <3>4. AlignUp(x, alignment) \in Nat
      BY <1>1, <3>3, AlignUpNat
    <3>5. Offsets[k + 1] \in Nat
      BY <2>2, <3>1, <3>4 DEF x
    <3> QED BY <2>1, <3>5
  <2> QED BY <2>3, <2>4
<1> HIDE DEF T
<1>17. 0 .. n \subseteq T
  BY <1>1, <1>15, <1>16, InductionUpTo
<1>18. ASSUME NEW k \in 1 .. n PROVE Offsets[k] \in Nat
  <2>1. k \in T /\ k > 0
    BY <1>17
  <2> QED BY <2>1 DEF T
<1> QED BY <1>13, <1>14, <1>18 DEF n

\* The bytes of a tensor's entry.
DimItems(dims) == [d \in 1 .. Len(dims) |-> <<dims[d]>>]
DimsEnd(dims) == ItemsEnd(U64, DimItems(dims), Len(dims))
InfoBytes(t, off) ==
  Str(t.name) \o Num(Len(t.dims), 4) \o FlattenSeq([d \in DOMAIN t.dims |-> Num(t.dims[d], 8)])
    \o Num(t.type, 4) \o Num(off, 8)

\* Dimensions are items of 8 bytes.
LEMMA DimsAre ==
  ASSUME NEW dims \in Seq(1 .. 255)
  PROVE  /\ AreItems(U64, DimItems(dims)) /\ Len(DimItems(dims)) = Len(dims) /\ U64 \in ItemTypes
         /\ [d \in DOMAIN dims |-> Num(dims[d], 8)] = TypedAll(U64, DimItems(dims))
<1> DEFINE n == Len(dims)
           xs == DimItems(dims)
<1>1. n \in Nat /\ DOMAIN dims = 1 .. n
  OBVIOUS
<1>2. \A d \in 1 .. n : dims[d] \in 1 .. 255
  BY ElementOfSeq
<1> DEFINE R == 1 .. 255
<1>0. \A y \in R : y \in Byte /\ y \in Nat
  BY DEF Byte
<1>3. \A d \in 1 .. n : <<dims[d]>> \in Seq(Byte) /\ Len(<<dims[d]>>) = 1 /\ <<dims[d]>> \in Seq(Nat) /\ <<dims[d]>>[1] = dims[d]
  <2> TAKE d \in 1 .. n
  <2> DEFINE y == dims[d]
  <2>1. y \in Byte /\ y \in Nat
    BY <1>0, <1>2
  <2> HIDE DEF y
  <2>2. <<y>> \in Seq(Byte) /\ Len(<<y>>) = 1 /\ <<y>> \in Seq(Nat) /\ <<y>>[1] = y
    BY <2>1
  <2> QED BY <2>2 DEF y
<1>4. xs = [d \in 1 .. n |-> <<dims[d]>>]
  BY DEF DimItems
<1> HIDE DEF n, xs
<1>5. xs \in Seq(Seq(Nat)) /\ Len(xs) = n
  <2>1. xs \in [1 .. n -> Seq(Nat)]
    BY <1>3, <1>4
  <2> QED BY <1>1, <2>1
<1>6. \A d \in 1 .. n : xs[d] = <<dims[d]>>
  BY <1>4
<1>7. U64 \in ItemTypes /\ U64 # String /\ U64 # Bool /\ Width[U64 + 1] = 8
  BY DEF U64, ItemTypes, String, Bool, Array, Width
<1>8. AreItems(U64, xs)
  BY <1>3, <1>5, <1>6, <1>7 DEF AreItems, IsItem
<1>9. ASSUME NEW d \in 1 .. n PROVE Typed(U64, xs[d]) = Num(dims[d], 8)
  BY <1>3, <1>6, <1>7 DEF Typed
<1>10. [d \in 1 .. n |-> Num(dims[d], 8)] = [d \in 1 .. n |-> Typed(U64, xs[d])]
  BY <1>9
<1>11. [d \in DOMAIN dims |-> Num(dims[d], 8)] = TypedAll(U64, xs)
  BY <1>1, <1>5, <1>10, Zenon DEF TypedAll
<1> QED BY <1>5, <1>7, <1>8, <1>11 DEF n, xs

\* A tensor's entry and where its parts are.
LEMMA InfoBytesAre ==
  ASSUME NEW t \in GoodTensors, NEW off \in Nat
  PROVE  /\ InfoBytes(t, off) \in Seq(Nat)
         /\ Len(Str(t.name)) \in Nat /\ DimsEnd(t.dims) \in Nat
         /\ Len(InfoBytes(t, off)) = Len(Str(t.name)) + DimsEnd(t.dims) + 16
         /\ \A s, p : Len(s) \in Nat /\ p \in Nat /\ HoldsIn(s, p, InfoBytes(t, off)) =>
              LET q == p + Len(Str(t.name))
                  e == q + 4 + DimsEnd(t.dims)
              IN  /\ HoldsIn(s, p, Str(t.name)) /\ HoldsIn(s, q, Num(Len(t.dims), 4))
                  /\ HoldsItems(s, q + 4, U64, DimItems(t.dims))
                  /\ HoldsIn(s, e, Num(t.type, 4)) /\ HoldsIn(s, e + 4, Num(off, 8))
<1> DEFINE a1 == Str(t.name)
           a2 == Num(Len(t.dims), 4)
           a3 == FlattenSeq(TypedAll(U64, DimItems(t.dims)))
           a4 == Num(t.type, 4)
           a5 == Num(off, 8)
           n  == Len(a1)
           c  == DimsEnd(t.dims)
           all == InfoBytes(t, off)
<1>1. /\ t.name \in Seq(Byte) /\ t.dims \in Seq(1 .. 255) /\ Len(t.dims) \in Nat /\ t.type \in Nat
      /\ 4 \in Nat \ {0} /\ 8 \in Nat \ {0}
  BY TensorIs
<1>2. /\ AreItems(U64, DimItems(t.dims)) /\ Len(DimItems(t.dims)) = Len(t.dims) /\ U64 \in ItemTypes
      /\ [d \in DOMAIN t.dims |-> Num(t.dims[d], 8)] = TypedAll(U64, DimItems(t.dims))
  BY <1>1, DimsAre
<1>3. all = (((a1 \o a2) \o a3) \o a4) \o a5
  BY <1>2 DEF InfoBytes
<1>4. a1 \in Seq(Nat) /\ n \in Nat
  <2>1. /\ Str(t.name) \in Seq(Nat) /\ Len(Str(t.name)) = 8 + Len(t.name) /\ Len(t.name) \in Nat
    BY <1>1, StrIs
  <2> QED BY <2>1
<1>5. /\ a2 \in Seq(Nat) /\ Len(a2) = 4 /\ a4 \in Seq(Nat) /\ Len(a4) = 4 /\ a5 \in Seq(Nat) /\ Len(a5) = 8
  BY <1>1, NumIs
<1>6. /\ a3 \in Seq(Nat) /\ Len(a3) = c /\ c \in Nat
      /\ \A s, p : Len(s) \in Nat /\ p \in Nat /\ HoldsIn(s, p, a3) => HoldsItems(s, p, U64, DimItems(t.dims))
  BY <1>2, ItemsBytes DEF DimsEnd
<1> HIDE DEF a1, a2, a3, a4, a5, c, all
<1> DEFINE b2 == a1 \o a2
           b3 == b2 \o a3
           b4 == b3 \o a4
           b5 == b4 \o a5
<1>7. b2 \in Seq(Nat) /\ Len(b2) = n + 4
  <2>1. b2 \in Seq(Nat) /\ Len(b2) = Len(a1) + Len(a2)
    BY <1>4, <1>5, Joined
  <2> QED BY <1>4, <1>5, <2>1
<1> HIDE DEF b2
<1>8. b3 \in Seq(Nat) /\ Len(b3) = n + 4 + c
  <2>1. b3 \in Seq(Nat) /\ Len(b3) = Len(b2) + Len(a3)
    BY <1>6, <1>7, Joined
  <2> QED BY <1>4, <1>6, <1>7, <2>1
<1> HIDE DEF b3
<1>9. b4 \in Seq(Nat) /\ Len(b4) = n + 4 + c + 4
  <2>1. b4 \in Seq(Nat) /\ Len(b4) = Len(b3) + Len(a4)
    BY <1>5, <1>8, Joined
  <2> QED BY <1>4, <1>5, <1>6, <1>8, <2>1
<1> HIDE DEF b4
<1>10. b5 \in Seq(Nat) /\ Len(b5) = n + c + 16
  <2>1. b5 \in Seq(Nat) /\ Len(b5) = Len(b4) + Len(a5)
    BY <1>5, <1>9, Joined
  <2> QED BY <1>4, <1>5, <1>6, <1>9, <2>1
<1>11. all = b5
  BY <1>3 DEF b2, b3, b4
<1> HIDE DEF b5
<1>12. ASSUME NEW s, NEW p, Len(s) \in Nat, p \in Nat, HoldsIn(s, p, all)
       PROVE  /\ HoldsIn(s, p, a1) /\ HoldsIn(s, p + n, a2) /\ HoldsItems(s, p + n + 4, U64, DimItems(t.dims))
              /\ HoldsIn(s, p + n + 4 + c, a4) /\ HoldsIn(s, (p + n + 4 + c) + 4, a5)
  <2>1. HoldsIn(s, p, b4) /\ HoldsIn(s, p + Len(b4), a5)
    <3>1. HoldsIn(s, p, b4 \o a5)
      BY <1>11, <1>12 DEF b5
    <3> QED BY <1>5, <1>9, <1>12, <3>1, HoldsJoined
  <2>2. HoldsIn(s, p, b3) /\ HoldsIn(s, p + Len(b3), a4)
    <3>1. HoldsIn(s, p, b3 \o a4)
      BY <2>1 DEF b4
    <3> QED BY <1>5, <1>8, <1>12, <3>1, HoldsJoined
  <2>3. HoldsIn(s, p, b2) /\ HoldsIn(s, p + Len(b2), a3)
    <3>1. HoldsIn(s, p, b2 \o a3)
      BY <2>2 DEF b3
    <3> QED BY <1>6, <1>7, <1>12, <3>1, HoldsJoined
  <2>4. HoldsIn(s, p, a1) /\ HoldsIn(s, p + Len(a1), a2)
    <3>1. HoldsIn(s, p, a1 \o a2)
      BY <2>3 DEF b2
    <3> QED BY <1>4, <1>5, <1>12, <3>1, HoldsJoined
  <2>5. p + Len(b4) = (p + n + 4 + c) + 4 /\ p + Len(b3) = p + n + 4 + c /\ p + Len(b2) = p + n + 4 /\ p + n + 4 \in Nat
    BY <1>4, <1>6, <1>7, <1>8, <1>9, <1>12
  <2> DEFINE q == p + n + 4
  <2>6. q \in Nat /\ HoldsIn(s, q, a3)
    BY <2>3, <2>5
  <2> HIDE DEF q
  <2>7. HoldsItems(s, q, U64, DimItems(t.dims))
    BY <1>6, <1>12, <2>6
  <2> QED BY <2>1, <2>2, <2>4, <2>5, <2>7 DEF q
<1> HIDE DEF n
<1> QED BY <1>4, <1>6, <1>10, <1>11, <1>12, Zenon DEF n, c, a1, a2, a4, a5, all

\* The entries of keys and of tensors, and where each ends.
KeyEntries == [k \in DOMAIN keys |-> Str(keys[k]) \o ValueBytes(kv[keys[k]])]
Infos ==
  [k \in DOMAIN tensors |->
     Str(tensors[k].name) \o Num(Len(tensors[k].dims), 4)
       \o FlattenSeq([d \in DOMAIN tensors[k].dims |-> Num(tensors[k].dims[d], 8)])
       \o Num(tensors[k].type, 4) \o Num(Offsets[k], 8)]
KeyAt(k) == 24 + Ends(KeyEntries, Len(keys))[k]
InfoAt(k) == KeyAt(Len(keys)) + Ends(Infos, Len(tensors))[k]

\* The entries of the keys.
LEMMA KeyEntriesAre ==
  ASSUME Written
  PROVE  /\ Len(keys) \in Nat /\ KeyEntries \in [1 .. Len(keys) -> Seq(Nat)] /\ KeyAt(0) = 24
         /\ \A k \in 0 .. Len(keys) : KeyAt(k) \in Nat
         /\ \A k \in 1 .. Len(keys) :
              /\ KeyEntries[k] = Str(keys[k]) \o ValueBytes(kv[keys[k]])
              /\ Str(keys[k]) \in Seq(Nat) /\ ValueBytes(kv[keys[k]]) \in Seq(Nat)
              /\ KeyAt(k) = KeyAt(k - 1) + (Len(Str(keys[k])) + Len(ValueBytes(kv[keys[k]])))
         /\ Len(keys) <= KeyAt(Len(keys))
<1> DEFINE n == Len(keys)
           s == KeyEntries
           a(k) == Str(keys[k])
           b(k) == ValueBytes(kv[keys[k]])
<1>1. n \in Nat /\ DOMAIN keys = 1 .. n
  BY DEF Written
<1>2. ASSUME NEW k \in 1 .. n
      PROVE  /\ a(k) \in Seq(Nat) /\ Len(a(k)) \in Nat /\ Len(a(k)) > 0 /\ b(k) \in Seq(Nat) /\ Len(b(k)) \in Nat
             /\ a(k) \o b(k) \in Seq(Nat) /\ Len(a(k) \o b(k)) = Len(a(k)) + Len(b(k))
  <2>1. keys[k] \in Seq(Byte)
    BY <1>1 DEF Written
  <2>2. IsValue(kv[keys[k]])
    BY DEF Written
  <2>3. a(k) \in Seq(Nat) /\ Len(a(k)) \in Nat /\ Len(a(k)) > 0
    <3>1. /\ Str(keys[k]) \in Seq(Nat) /\ Len(Str(keys[k])) = 8 + Len(keys[k]) /\ Len(keys[k]) \in Nat
      BY <2>1, StrIs
    <3> QED BY <3>1
  <2>4. b(k) \in Seq(Nat)
    BY <2>2, ValueBytesAre
  <2> HIDE DEF a, b
  <2>5. Len(b(k)) \in Nat
    BY <2>4
  <2>6. a(k) \o b(k) \in Seq(Nat) /\ Len(a(k) \o b(k)) = Len(a(k)) + Len(b(k))
    BY <2>3, <2>4, Joined
  <2> QED BY <2>3, <2>4, <2>5, <2>6
<1>3. s = [k \in 1 .. n |-> a(k) \o b(k)]
  BY <1>1 DEF KeyEntries
<1> HIDE DEF n, a, b, s
<1>4. s \in [1 .. n -> Seq(Nat)] /\ \A k \in 1 .. n : s[k] = a(k) \o b(k)
  BY <1>2, <1>3
<1>5. \A k \in 1 .. n : Len(s[k]) > 0 /\ Len(s[k]) = Len(a(k)) + Len(b(k))
  BY <1>2, <1>4
<1>6. Ends(s, n) \in [0 .. n -> Nat] /\ Placed(s, n, Ends(s, n))
  BY <1>1, <1>4, EndsAre
<1>7. n <= Ends(s, n)[n]
  BY <1>1, <1>4, <1>5, EndsGrow
<1>8. \A k : KeyAt(k) = 24 + Ends(s, n)[k]
  BY DEF KeyAt, s, n
<1>9. \A k \in 0 .. n : Ends(s, n)[k] \in Nat
  BY <1>6
<1>10. Ends(s, n)[0] = 0 /\ \A k \in 1 .. n : Ends(s, n)[k] = Ends(s, n)[k - 1] + Len(s[k])
  BY <1>6 DEF Placed
<1>11. ASSUME NEW k \in 1 .. n PROVE KeyAt(k) = KeyAt(k - 1) + (Len(a(k)) + Len(b(k)))
  <2>1. k \in 0 .. n /\ k - 1 \in 0 .. n
    BY <1>1
  <2>2. KeyAt(k) = 24 + Ends(s, n)[k] /\ KeyAt(k - 1) = 24 + Ends(s, n)[k - 1]
    BY <1>8
  <2>3. Ends(s, n)[k] \in Nat /\ Ends(s, n)[k - 1] \in Nat /\ Ends(s, n)[k] = Ends(s, n)[k - 1] + (Len(a(k)) + Len(b(k)))
    BY <1>5, <1>9, <1>10, <2>1
  <2> QED BY <1>2, <2>2, <2>3
<1>12. KeyAt(0) = 24 /\ n <= KeyAt(n) /\ \A k \in 0 .. n : KeyAt(k) \in Nat
  <2>1. n \in 0 .. n
    BY <1>1
  <2>2. KeyAt(0) = 24 + Ends(s, n)[0] /\ KeyAt(n) = 24 + Ends(s, n)[n] /\ Ends(s, n)[n] \in Nat
    BY <1>8, <1>9, <2>1
  <2>3. ASSUME NEW k \in 0 .. n PROVE KeyAt(k) \in Nat
    <3>1. KeyAt(k) = 24 + Ends(s, n)[k] /\ Ends(s, n)[k] \in Nat
      BY <1>8, <1>9
    <3> QED BY <3>1
  <2> QED BY <1>1, <1>7, <1>10, <2>2, <2>3
<1> QED BY <1>1, <1>2, <1>4, <1>11, <1>12 DEF n, a, b, s

\* The entries of the tensors.
LEMMA InfosAre ==
  ASSUME Written
  PROVE  /\ Len(tensors) \in Nat /\ Infos \in [1 .. Len(tensors) -> Seq(Nat)]
         /\ InfoAt(0) = KeyAt(Len(keys))
         /\ \A k \in 0 .. Len(tensors) : InfoAt(k) \in Nat
         /\ \A k \in 1 .. Len(tensors) :
              /\ tensors[k] \in GoodTensors /\ Offsets[k] \in Nat /\ Infos[k] = InfoBytes(tensors[k], Offsets[k])
              /\ InfoAt(k) = InfoAt(k - 1) + Len(InfoBytes(tensors[k], Offsets[k]))
         /\ Len(tensors) <= InfoAt(Len(tensors)) /\ KeyAt(Len(keys)) <= InfoAt(Len(tensors))
<1> DEFINE n == Len(tensors)
           s == Infos
           b(k) == InfoBytes(tensors[k], Offsets[k])
           q == KeyAt(Len(keys))
<1>1. n \in Nat /\ DOMAIN tensors = 1 .. n /\ \A k \in 1 .. n : tensors[k] \in GoodTensors
  BY DEF Written
<1>2. \A k \in 1 .. n : Offsets[k] \in Nat
  BY OffsetsAre
<1>3. ASSUME NEW k \in 1 .. n PROVE b(k) \in Seq(Nat) /\ Len(b(k)) \in Nat /\ Len(b(k)) > 0
  <2> DEFINE t == tensors[k]
             x == Len(Str(t.name))
             y == DimsEnd(t.dims)
  <2>1. b(k) \in Seq(Nat) /\ x \in Nat /\ y \in Nat /\ Len(b(k)) = x + y + 16
    BY <1>1, <1>2, InfoBytesAre
  <2> HIDE DEF x, y, b
  <2> QED BY <2>1
<1>4. s = [k \in 1 .. n |-> b(k)]
  BY <1>1 DEF Infos, InfoBytes
<1>5. q \in Nat
  <2>1. Len(keys) \in 0 .. Len(keys) /\ \A k \in 0 .. Len(keys) : KeyAt(k) \in Nat
    BY KeyEntriesAre
  <2> QED BY <2>1
<1> HIDE DEF n, b, s, q
<1>6. s \in [1 .. n -> Seq(Nat)] /\ \A k \in 1 .. n : s[k] = b(k)
  BY <1>3, <1>4
<1>7. \A k \in 1 .. n : Len(s[k]) > 0
  BY <1>3, <1>6
<1>8. Ends(s, n) \in [0 .. n -> Nat] /\ Placed(s, n, Ends(s, n))
  BY <1>1, <1>6, EndsAre
<1>9. n <= Ends(s, n)[n]
  BY <1>1, <1>6, <1>7, EndsGrow
<1>10. \A k : InfoAt(k) = q + Ends(s, n)[k]
  BY DEF InfoAt, s, n, q
<1>11. \A k \in 0 .. n : Ends(s, n)[k] \in Nat
  BY <1>8
<1>12. Ends(s, n)[0] = 0 /\ \A k \in 1 .. n : Ends(s, n)[k] = Ends(s, n)[k - 1] + Len(b(k))
  BY <1>6, <1>8 DEF Placed
<1>13. ASSUME NEW k \in 1 .. n PROVE InfoAt(k) = InfoAt(k - 1) + Len(b(k))
  <2>1. k \in 0 .. n /\ k - 1 \in 0 .. n
    BY <1>1
  <2>2. InfoAt(k) = q + Ends(s, n)[k] /\ InfoAt(k - 1) = q + Ends(s, n)[k - 1]
    BY <1>10
  <2>3. Ends(s, n)[k] \in Nat /\ Ends(s, n)[k - 1] \in Nat /\ Ends(s, n)[k] = Ends(s, n)[k - 1] + Len(b(k))
    BY <1>11, <1>12, <2>1
  <2> QED BY <1>3, <1>5, <2>2, <2>3
<1>14. InfoAt(0) = q /\ n <= InfoAt(n) /\ q <= InfoAt(n) /\ \A k \in 0 .. n : InfoAt(k) \in Nat
  <2>1. n \in 0 .. n
    BY <1>1
  <2>2. InfoAt(0) = q + Ends(s, n)[0] /\ InfoAt(n) = q + Ends(s, n)[n] /\ Ends(s, n)[n] \in Nat
    BY <1>10, <1>11, <2>1
  <2>3. ASSUME NEW k \in 0 .. n PROVE InfoAt(k) \in Nat
    <3>1. InfoAt(k) = q + Ends(s, n)[k] /\ Ends(s, n)[k] \in Nat
      BY <1>10, <1>11
    <3> QED BY <1>5, <3>1
  <2> QED BY <1>1, <1>5, <1>9, <1>12, <2>2, <2>3
<1> QED BY <1>1, <1>2, <1>6, <1>13, <1>14 DEF n, b, s, q

\* Where the parts of the header are.
HeaderHolds(s) ==
  /\ HoldsIn(s, 0, Magic) /\ HoldsIn(s, 4, Num(3, 4)) /\ HoldsIn(s, 8, Num(Len(tensors), 8))
  /\ HoldsIn(s, 16, Num(Len(keys), 8))
  /\ \A k \in 1 .. Len(keys) : HoldsIn(s, KeyAt(k - 1), KeyEntries[k])
  /\ \A k \in 1 .. Len(tensors) : HoldsIn(s, InfoAt(k - 1), Infos[k])

\* The header is laid out so.
LEMMA HeaderIs ==
  ASSUME Written
  PROVE  /\ Header \in Seq(Nat) /\ Len(Header) = InfoAt(Len(tensors)) /\ InfoAt(Len(tensors)) \in Nat
         /\ \A s : Len(s) \in Nat /\ HoldsIn(s, 0, Header) => HeaderHolds(s)
<1> DEFINE n == Len(keys)
           m == Len(tensors)
           a1 == Magic
           a2 == Num(3, 4)
           a3 == Num(m, 8)
           a4 == Num(n, 8)
           a5 == FlattenSeq(KeyEntries)
           a6 == FlattenSeq(Infos)
           x == Ends(KeyEntries, n)
           y == Ends(Infos, m)
<1>1. Header = ((((a1 \o a2) \o a3) \o a4) \o a5) \o a6
  BY DEF Header, KeyEntries, Infos
<1>2. /\ n \in Nat /\ m \in Nat /\ KeyEntries \in [1 .. n -> Seq(Nat)] /\ Infos \in [1 .. m -> Seq(Nat)]
      /\ KeyAt(n) \in Nat /\ InfoAt(m) \in Nat
  <2>1. /\ n \in Nat /\ m \in Nat /\ KeyEntries \in [1 .. n -> Seq(Nat)] /\ Infos \in [1 .. m -> Seq(Nat)]
        /\ \A k \in 0 .. n : KeyAt(k) \in Nat
        /\ \A k \in 0 .. m : InfoAt(k) \in Nat
    BY KeyEntriesAre, InfosAre
  <2> HIDE DEF n, m
  <2>2. n \in 0 .. n /\ m \in 0 .. m
    BY <2>1
  <2> QED BY <2>1, <2>2
<1>3. (\A k : KeyAt(k) = 24 + x[k]) /\ (\A k : InfoAt(k) = KeyAt(n) + y[k])
  BY DEF KeyAt, InfoAt
<1> HIDE DEF n, m
<1>5. a1 \in Seq(Nat) /\ Len(a1) = 4
  BY DEF Magic
<1>6. /\ a2 \in Seq(Nat) /\ Len(a2) = 4 /\ a3 \in Seq(Nat) /\ Len(a3) = 8 /\ a4 \in Seq(Nat) /\ Len(a4) = 8
  <2>1. 3 \in Nat /\ 4 \in Nat \ {0} /\ 8 \in Nat \ {0}
    OBVIOUS
  <2> QED BY <1>2, <2>1, NumIs
<1>7. a5 \in Seq(Nat) /\ Len(a5) = x[n] /\ \A k \in 1 .. n : HoldsIn(a5, x[k - 1], KeyEntries[k])
  BY <1>2, FlattenAt
<1>8. a6 \in Seq(Nat) /\ Len(a6) = y[m] /\ \A k \in 1 .. m : HoldsIn(a6, y[k - 1], Infos[k])
  BY <1>2, FlattenAt
<1>9. x \in [0 .. n -> Nat] /\ y \in [0 .. m -> Nat]
  BY <1>2, EndsAre
<1> HIDE DEF a1, a2, a3, a4, a5, a6, x, y
<1> DEFINE b2 == a1 \o a2
           b3 == b2 \o a3
           b4 == b3 \o a4
           b5 == b4 \o a5
           b6 == b5 \o a6
<1>10. b2 \in Seq(Nat) /\ Len(b2) = 8
  <2>1. b2 \in Seq(Nat) /\ Len(b2) = Len(a1) + Len(a2)
    BY <1>5, <1>6, Joined
  <2> QED BY <1>5, <1>6, <2>1
<1> HIDE DEF b2
<1>11. b3 \in Seq(Nat) /\ Len(b3) = 16
  <2>1. b3 \in Seq(Nat) /\ Len(b3) = Len(b2) + Len(a3)
    BY <1>6, <1>10, Joined
  <2> QED BY <1>6, <1>10, <2>1
<1> HIDE DEF b3
<1>12. b4 \in Seq(Nat) /\ Len(b4) = 24
  <2>1. b4 \in Seq(Nat) /\ Len(b4) = Len(b3) + Len(a4)
    BY <1>6, <1>11, Joined
  <2> QED BY <1>6, <1>11, <2>1
<1> HIDE DEF b4
<1>13. b5 \in Seq(Nat) /\ Len(b5) = KeyAt(n)
  <2>1. b5 \in Seq(Nat) /\ Len(b5) = Len(b4) + Len(a5)
    BY <1>7, <1>12, Joined
  <2> QED BY <1>3, <1>7, <1>12, <2>1
<1> HIDE DEF b5
<1>14. b6 \in Seq(Nat) /\ Len(b6) = InfoAt(m)
  <2>1. b6 \in Seq(Nat) /\ Len(b6) = Len(b5) + Len(a6)
    BY <1>8, <1>13, Joined
  <2> QED BY <1>3, <1>8, <1>13, <2>1
<1>15. Header = b6
  BY <1>1 DEF b2, b3, b4, b5
<1> HIDE DEF b6
<1>16. ASSUME NEW s, Len(s) \in Nat, HoldsIn(s, 0, Header) PROVE HeaderHolds(s)
  <2>0. 0 \in Nat
    OBVIOUS
  <2>1. HoldsIn(s, 0, b5) /\ HoldsIn(s, 0 + Len(b5), a6)
    <3>1. HoldsIn(s, 0, b5 \o a6)
      BY <1>15, <1>16 DEF b6
    <3> QED BY <1>8, <1>13, <1>16, <2>0, <3>1, HoldsJoined
  <2>2. HoldsIn(s, 0, b4) /\ HoldsIn(s, 0 + Len(b4), a5)
    <3>1. HoldsIn(s, 0, b4 \o a5)
      BY <2>1 DEF b5
    <3> QED BY <1>7, <1>12, <1>16, <2>0, <3>1, HoldsJoined
  <2>3. HoldsIn(s, 0, b3) /\ HoldsIn(s, 0 + Len(b3), a4)
    <3>1. HoldsIn(s, 0, b3 \o a4)
      BY <2>2 DEF b4
    <3> QED BY <1>6, <1>11, <1>16, <2>0, <3>1, HoldsJoined
  <2>4. HoldsIn(s, 0, b2) /\ HoldsIn(s, 0 + Len(b2), a3)
    <3>1. HoldsIn(s, 0, b2 \o a3)
      BY <2>3 DEF b3
    <3> QED BY <1>6, <1>10, <1>16, <2>0, <3>1, HoldsJoined
  <2>5. HoldsIn(s, 0, a1) /\ HoldsIn(s, 0 + Len(a1), a2)
    <3>1. HoldsIn(s, 0, a1 \o a2)
      BY <2>4 DEF b2
    <3> QED BY <1>5, <1>6, <1>16, <2>0, <3>1, HoldsJoined
  <2>6. HoldsIn(s, 4, a2) /\ HoldsIn(s, 8, a3) /\ HoldsIn(s, 16, a4)
    BY <1>5, <1>10, <1>11, <2>3, <2>4, <2>5
  <2>7. HoldsIn(s, 24, a5)
    BY <1>12, <2>2
  <2>8. HoldsIn(s, KeyAt(n), a6)
    BY <1>2, <1>13, <2>1
  <2>9. ASSUME NEW k \in 1 .. n PROVE HoldsIn(s, KeyAt(k - 1), KeyEntries[k])
    <3> DEFINE c == KeyEntries[k]
               q == x[k - 1]
    <3>1. HoldsIn(a5, q, c) /\ c \in Seq(Nat)
      BY <1>2, <1>7
    <3>2. k - 1 \in 0 .. n /\ KeyAt(k - 1) = 24 + q
      BY <1>2, <1>3
    <3>3. q \in Nat
      BY <1>9, <3>2
    <3> HIDE DEF c, q
    <3>4. Len(c) \in Nat /\ Len(a5) \in Nat /\ 24 \in Nat
      BY <1>7, <3>1
    <3>5. HoldsIn(s, 24 + q, c)
      BY <1>16, <2>7, <3>1, <3>3, <3>4, HoldsWithin
    <3> QED BY <3>2, <3>5 DEF c
  <2>10. ASSUME NEW k \in 1 .. m PROVE HoldsIn(s, InfoAt(k - 1), Infos[k])
    <3> DEFINE c == Infos[k]
               q == y[k - 1]
    <3>1. HoldsIn(a6, q, c) /\ c \in Seq(Nat)
      BY <1>2, <1>8
    <3>2. k - 1 \in 0 .. m /\ InfoAt(k - 1) = KeyAt(n) + q
      BY <1>2, <1>3
    <3>3. q \in Nat
      BY <1>9, <3>2
    <3> HIDE DEF c, q
    <3>4. Len(c) \in Nat /\ Len(a6) \in Nat
      BY <1>8, <3>1
    <3>5. HoldsIn(s, KeyAt(n) + q, c)
      BY <1>2, <1>16, <2>8, <3>1, <3>3, <3>4, HoldsWithin
    <3> QED BY <3>2, <3>5 DEF c
  <2> QED BY <2>5, <2>6, <2>9, <2>10 DEF HeaderHolds, a1, a2, a3, a4, m, n
<1> QED BY <1>2, <1>14, <1>15, <1>16 DEF m

-----------------------------------------------------------------------------
(* The whole file.                                                          *)

\* Padding fills up to the alignment.
LEMMA PadIs ==
  ASSUME NEW b \in Seq(Nat), NEW a \in Nat \ {0}
  PROVE  /\ Pad(b, a) \in Seq(Nat) /\ Len(Pad(b, a)) = Len(b) + Gap(Len(b), a)
         /\ HoldsIn(Pad(b, a), 0, b)
<1> DEFINE g == Gap(Len(b), a)
           z == [k \in 1 .. g |-> 0]
<1>1. Len(b) \in Nat
  OBVIOUS
<1>2. g \in Nat
  <2>1. Gap(Len(b), a) \in 0 .. a - 1
    BY <1>1, GapIs
  <2> QED BY <2>1
<1>3. Pad(b, a) = b \o z
  BY DEF Pad, Gap
<1> HIDE DEF g
<1>4. z \in Seq(Nat) /\ Len(z) = g
  BY <1>2
<1> HIDE DEF z
<1>5. b \o z \in Seq(Nat) /\ Len(b \o z) = Len(b) + Len(z) /\ HoldsIn(b \o z, 0, b)
  BY <1>4, Joined
<1> QED BY <1>3, <1>4, <1>5 DEF g

\* WriteTo goes tensor by tensor.
LayoutStep(x, k) == Pad(x \o tensors[k].data, alignment)

LEMMA LayoutSteps ==
  ASSUME Written
  PROVE  \E U \in [0 .. Len(tensors) -> Seq(Nat)] :
           /\ U[0] = Pad(Header, alignment) /\ \A k \in 1 .. Len(tensors) : U[k] = LayoutStep(U[k - 1], k)
           /\ Layout = U[Len(tensors)]
<1> DEFINE n == Len(tensors)
           start == Pad(Header, alignment)
           Eqn(U) == U = [k \in 0 .. n |-> Pad(IF k = 0 THEN Header ELSE U[k - 1] \o tensors[k].data, alignment)]
           Q == CHOOSE U : Eqn(U)
           g == [k \in 1 .. n |-> [x \in Seq(Nat) |-> LayoutStep(x, k)]]
<1>1. n \in Nat /\ alignment \in Nat \ {0} /\ \A k \in 1 .. n : tensors[k].data \in Seq(Nat)
  <2>1. n \in Nat /\ alignment \in Nat \ {0} /\ \A k \in 1 .. n : tensors[k] \in GoodTensors
    <3>1. n \in Nat /\ \A k \in 1 .. n : tensors[k] \in GoodTensors
      BY DEF Written
    <3>2. alignment \in Nat \ {0}
      BY DEF Written
    <3> QED BY <3>1, <3>2
  <2> QED BY <2>1, TensorIs
<1>2. Layout = Q[n]
  BY DEF Layout
<1>3. start \in Seq(Nat)
  <2>1. Header \in Seq(Nat)
    BY HeaderIs
  <2> QED BY <1>1, <2>1, PadIs
<1>4. ASSUME NEW k \in 1 .. n, NEW x \in Seq(Nat) PROVE LayoutStep(x, k) \in Seq(Nat)
  <2> DEFINE b == x \o tensors[k].data
  <2>1. b \in Seq(Nat)
    BY <1>1, Joined
  <2> HIDE DEF b
  <2>2. Pad(b, alignment) \in Seq(Nat)
    BY <1>1, <2>1, PadIs
  <2> QED BY <2>2 DEF LayoutStep, b
<1>5. g \in [1 .. n -> [Seq(Nat) -> Seq(Nat)]] /\ \A k \in 1 .. n, x \in Seq(Nat) : g[k][x] = LayoutStep(x, k)
  BY <1>4
<1> HIDE DEF g, start, n
<1>6. PICK U \in [0 .. n -> Seq(Nat)] : Steps(U, start, g, n)
  BY <1>1, <1>3, <1>5, Iterates
<1>7. U[0] = start /\ \A k \in 1 .. n : U[k] = LayoutStep(U[k - 1], k)
  <2>1. ASSUME NEW k \in 1 .. n PROVE U[k] = LayoutStep(U[k - 1], k)
    <3>1. k - 1 \in 0 .. n
      BY <1>1
    <3>2. U[k - 1] \in Seq(Nat) /\ U[k] = g[k][U[k - 1]]
      BY <1>6, <3>1 DEF Steps
    <3> QED BY <1>5, <3>2
  <2> QED BY <1>6, <2>1 DEF Steps
<1>8. Eqn(U)
  <2>1. U = [k \in 0 .. n |-> U[k]]
    OBVIOUS
  <2>2. ASSUME NEW k \in 0 .. n
        PROVE  U[k] = Pad(IF k = 0 THEN Header ELSE U[k - 1] \o tensors[k].data, alignment)
    <3>1. CASE k = 0
      BY <1>7, <3>1 DEF start
    <3>2. CASE k # 0
      <4>1. k \in 1 .. n
        BY <3>2
      <4> QED BY <1>7, <3>2, <4>1 DEF LayoutStep
    <3> QED BY <3>1, <3>2
  <2> HIDE DEF Q
  <2> QED BY <2>1, <2>2, Zenon
<1>9. Eqn(Q)
  BY <1>8
<1> HIDE DEF Q
<1>10. \A k \in 0 .. n : Q[k] = Pad(IF k = 0 THEN Header ELSE Q[k - 1] \o tensors[k].data, alignment)
  BY <1>9
<1> HIDE DEF Eqn
<1> DEFINE T == {k \in 0 .. n : Q[k] = U[k]}
<1>11. 0 \in T
  <2>1. 0 \in 0 .. n
    BY <1>1
  <2>2. Q[0] = start
    BY <1>10, <2>1 DEF start
  <2> QED BY <1>7, <2>1, <2>2
<1>12. ASSUME NEW k \in 0 .. n - 1, k \in T PROVE k + 1 \in T
  <2>1. k + 1 \in 1 .. n /\ (k + 1) - 1 = k /\ k + 1 \in 0 .. n /\ k + 1 # 0 /\ Q[k] = U[k]
    BY <1>1, <1>12
  <2>2. Q[k + 1] = LayoutStep(Q[(k + 1) - 1], k + 1)
    BY <1>10, <2>1, Zenon DEF LayoutStep
  <2>3. U[k + 1] = LayoutStep(U[(k + 1) - 1], k + 1)
    BY <1>7, <2>1, Zenon
  <2> QED BY <2>1, <2>2, <2>3
<1> HIDE DEF T
<1>13. 0 .. n \subseteq T
  BY <1>1, <1>11, <1>12, InductionUpTo
<1>14. Q[n] = U[n]
  <2>1. n \in T
    BY <1>1, <1>13
  <2> QED BY <2>1 DEF T
<1> QED BY <1>2, <1>7, <1>14 DEF n, start

\* Where the data of the tensors begins, and what is before each of them.
DataStart == Len(Header) + Gap(Len(Header), alignment)
DataEnd(k) == IF k = 0 THEN 0 ELSE AlignUp(Offsets[k] + Len(tensors[k].data), alignment)

\* Each tensor begins at a multiple of the alignment.
LEMMA OffsetsFit ==
  ASSUME Written, alignment \in Powers
  PROVE  \A k \in 1 .. Len(tensors) : /\ Offsets[k] \in Nat /\ Offsets[k] = DataEnd(k - 1) /\ Offsets[k] % alignment = 0
                                      /\ Len(tensors[k].data) \in Nat /\ tensors[k].data \in Seq(Nat)
<1> DEFINE n == Len(tensors)
           d(k) == Len(tensors[k].data)
<1>1. n \in Nat /\ \A k \in 1 .. n : d(k) \in Nat /\ tensors[k].data \in Seq(Nat)
  <2>1. n \in Nat /\ \A k \in 1 .. n : tensors[k] \in GoodTensors
    BY DEF Written
  <2> QED BY <2>1, TensorIs
<1>2. /\ \A k \in 1 .. n : Offsets[k] \in Nat
      /\ \A k \in 1 .. n : Offsets[k] = IF k = 1 THEN 0 ELSE AlignUp(Offsets[k - 1] + d(k - 1), alignment)
  BY OffsetsAre
<1> HIDE DEF n, d
<1>3. ASSUME NEW k \in 1 .. n PROVE Offsets[k] = DataEnd(k - 1)
  <2>1. k = 1 <=> k - 1 = 0
    BY <1>1
  <2>2. Offsets[k] = IF k = 1 THEN 0 ELSE AlignUp(Offsets[k - 1] + d(k - 1), alignment)
    BY <1>2
  <2> QED BY <2>1, <2>2, Zenon DEF DataEnd, d
<1>4. ASSUME NEW k \in 1 .. n PROVE Offsets[k] % alignment = 0
  <2>1. CASE k = 1
    <3>1. alignment \in Nat \ {0} /\ 0 \in Nat
      BY DEF Powers
    <3>2. 0 \in 0 .. alignment - 1
      BY <3>1
    <3>3. (0 * alignment + 0) % alignment = 0
      BY <3>1, <3>2, Remains
    <3>4. 0 * alignment + 0 = 0
      BY <3>1
    <3>5. Offsets[k] = 0
      BY <1>2, <2>1
    <3> QED BY <3>3, <3>4, <3>5
  <2>2. CASE k # 1
    <3> DEFINE l == k - 1
               x == Offsets[l] + d(l)
    <3>1. l \in 1 .. n
      BY <1>1, <2>2
    <3>2. Offsets[k] = AlignUp(x, alignment) /\ x \in Nat
      BY <1>1, <1>2, <2>2, <3>1
    <3> HIDE DEF x
    <3>3. AlignUp(x, alignment) % alignment = 0
      BY <3>2, AlignUpIs
    <3> QED BY <3>2, <3>3
  <2> QED BY <2>1, <2>2
<1> QED BY <1>1, <1>2, <1>3, <1>4 DEF n, d

\* The data area begins at a multiple of the alignment, where the reader looks.
LEMMA DataStartIs ==
  ASSUME Written
  PROVE  /\ DataStart \in Nat /\ DataStart % alignment = 0 /\ Len(Header) \in Nat /\ Len(Header) <= DataStart
         /\ alignment \in Powers => AlignUp(Len(Header), alignment) = DataStart
<1> DEFINE x == Len(Header)
<1>1. x \in Nat /\ alignment \in Nat \ {0}
  <2>1. Len(Header) = InfoAt(Len(tensors)) /\ InfoAt(Len(tensors)) \in Nat
    BY HeaderIs
  <2> QED BY <2>1 DEF Written
<1> HIDE DEF x
<1>2. Gap(x, alignment) \in 0 .. alignment - 1 /\ (x + Gap(x, alignment)) % alignment = 0
  BY <1>1, GapIs
<1>3. DataStart = x + Gap(x, alignment)
  BY DEF DataStart, x
<1>4. alignment \in Powers => AlignUp(x, alignment) = x + Gap(x, alignment)
  BY <1>1, AlignUpIs
<1>5. DataStart \in Nat /\ x <= DataStart
  BY <1>1, <1>2, <1>3
<1> QED BY <1>1, <1>2, <1>3, <1>4, <1>5 DEF x

\* The header is at the beginning of the file and the data of each tensor where
\* its offset says, if the alignment is a power of two.
LEMMA LayoutIs ==
  ASSUME Written
  PROVE  /\ Layout \in Seq(Nat) /\ HoldsIn(Layout, 0, Header)
         /\ alignment \in Powers =>
              \A k \in 1 .. Len(tensors) : HoldsIn(Layout, DataStart + Offsets[k], tensors[k].data)
<1> DEFINE n == Len(tensors)
           d(k) == tensors[k].data
<1>1. n \in Nat /\ alignment \in Nat \ {0} /\ \A k \in 1 .. n : d(k) \in Seq(Nat)
  <2>1. n \in Nat /\ alignment \in Nat \ {0} /\ \A k \in 1 .. n : tensors[k] \in GoodTensors
    <3>1. n \in Nat /\ \A k \in 1 .. n : tensors[k] \in GoodTensors
      BY DEF Written
    <3>2. alignment \in Nat \ {0}
      BY DEF Written
    <3> QED BY <3>1, <3>2
  <2> QED BY <2>1, TensorIs
<1>2. Header \in Seq(Nat) /\ Len(Header) \in Nat
  BY HeaderIs
<1>3. DataStart \in Nat /\ DataStart % alignment = 0
  BY DataStartIs
<1> HIDE DEF n, d
<1>4. PICK U \in [0 .. n -> Seq(Nat)] :
           /\ U[0] = Pad(Header, alignment) /\ \A k \in 1 .. n : U[k] = LayoutStep(U[k - 1], k)
           /\ Layout = U[n]
  BY LayoutSteps DEF n
<1> DEFINE Placing(k) == /\ Len(U[k]) = DataStart + DataEnd(k)
                         /\ \A j \in 1 .. k : HoldsIn(U[k], DataStart + Offsets[j], d(j))
           Right(k) == HoldsIn(U[k], 0, Header) /\ (alignment \in Powers => Placing(k))
           T == {k \in 0 .. n : Right(k)}
<1>5. 0 \in T
  <2>1. /\ Len(Pad(Header, alignment)) = Len(Header) + Gap(Len(Header), alignment)
        /\ HoldsIn(Pad(Header, alignment), 0, Header)
    BY <1>1, <1>2, PadIs
  <2>2. Len(U[0]) = DataStart + DataEnd(0) /\ HoldsIn(U[0], 0, Header)
    <3>1. Len(U[0]) = DataStart
      BY <1>4, <2>1 DEF DataStart
    <3>2. DataEnd(0) = 0
      BY DEF DataEnd
    <3> QED BY <1>3, <1>4, <2>1, <3>1, <3>2
  <2>3. Right(0)
    BY <2>2
  <2> HIDE DEF Right
  <2> QED BY <1>1, <2>3
<1>6. ASSUME NEW k \in 0 .. n - 1, k \in T PROVE k + 1 \in T
  <2> DEFINE l == k + 1
             u == U[k]
             b == d(l)
             c == u \o b
             w == Pad(c, alignment)
  <2>1. l \in 1 .. n /\ l - 1 = k /\ l \in 0 .. n /\ k \in 0 .. n
    BY <1>1
  <2>2. Right(k)
    BY <1>6
  <2> HIDE DEF l
  <2>3. U[l] = w /\ u \in Seq(Nat) /\ b \in Seq(Nat)
    <3>1. U[l] = LayoutStep(U[l - 1], l)
      BY <1>4, <2>1, Zenon
    <3> QED BY <1>1, <1>4, <2>1, <3>1 DEF LayoutStep, d
  <2>4. HoldsIn(u, 0, Header) /\ (alignment \in Powers => Placing(k))
    BY <2>2
  <2> DEFINE Placed1 == /\ Len(u) = DataStart + DataEnd(k) /\ \A j \in 1 .. k : HoldsIn(u, DataStart + Offsets[j], d(j))
  <2>5. alignment \in Powers => Placed1
    BY <2>4
  <2> HIDE DEF u, b
  <2>6. /\ c \in Seq(Nat) /\ Len(c) = Len(u) + Len(b) /\ Len(u) \in Nat /\ Len(b) \in Nat
        /\ HoldsIn(c, 0, u) /\ HoldsIn(c, Len(u), b)
    BY <2>3, Joined
  <2> HIDE DEF c
  <2>7. w \in Seq(Nat) /\ Len(w) = Len(c) + Gap(Len(c), alignment) /\ HoldsIn(w, 0, c)
    BY <1>1, <2>6, PadIs
  <2> HIDE DEF w
  <2>8. ASSUME NEW p \in Nat, NEW e, Len(e) \in Nat, HoldsIn(c, p, e) PROVE HoldsIn(w, p, e)
    <3>1. Len(w) \in Nat /\ Len(c) \in Nat /\ 0 \in Nat
      BY <2>6, <2>7
    <3>2. HoldsIn(w, 0 + p, e)
      BY <2>7, <2>8, <3>1, HoldsWithin
    <3>3. 0 + p = p
      OBVIOUS
    <3> QED BY <3>2, <3>3
  <2>9. ASSUME NEW p \in Nat, NEW e, Len(e) \in Nat, HoldsIn(u, p, e) PROVE HoldsIn(w, p, e)
    <3>1. Len(c) \in Nat /\ 0 \in Nat
      BY <2>6
    <3>2. HoldsIn(c, 0 + p, e)
      BY <2>6, <2>9, <3>1, HoldsWithin
    <3>3. 0 + p = p
      OBVIOUS
    <3> QED BY <2>8, <2>9, <3>2, <3>3
  <2>10. HoldsIn(w, 0, Header)
    BY <1>2, <2>4, <2>9
  <2>11. ASSUME alignment \in Powers
         PROVE  Len(w) = DataStart + DataEnd(l) /\ \A j \in 1 .. l : HoldsIn(w, DataStart + Offsets[j], d(j))
    <3>1. /\ \A j \in 1 .. n : Offsets[j] \in Nat /\ Len(d(j)) \in Nat
          /\ Offsets[l] = DataEnd(l - 1) /\ Offsets[l] \in Nat
      <4>1. \A j \in 1 .. n : Offsets[j] \in Nat /\ Len(d(j)) \in Nat /\ Offsets[j] = DataEnd(j - 1)
        BY <2>11, OffsetsFit DEF n, d
      <4> QED BY <2>1, <4>1
    <3>2. Len(u) = DataStart + Offsets[l]
      BY <2>1, <2>5, <2>11, <3>1
    <3>3. HoldsIn(w, DataStart + Offsets[l], b)
      BY <2>6, <2>8, <3>2
    <3>4. ASSUME NEW j \in 1 .. l PROVE HoldsIn(w, DataStart + Offsets[j], d(j))
      <4>1. CASE j = l
        BY <3>3, <4>1 DEF b
      <4>2. CASE j # l
        <5>1. j \in 1 .. k /\ j \in 1 .. n
          BY <1>1, <2>1, <4>2
        <5>2. HoldsIn(u, DataStart + Offsets[j], d(j))
          BY <2>5, <2>11, <5>1
        <5> DEFINE p == DataStart + Offsets[j]
        <5>3. p \in Nat /\ Len(d(j)) \in Nat
          BY <1>3, <3>1, <5>1
        <5> HIDE DEF p
        <5>4. HoldsIn(w, p, d(j))
          BY <2>9, <5>2, <5>3 DEF p
        <5> QED BY <5>4 DEF p
      <4> QED BY <4>1, <4>2
    <3>5. Len(w) = DataStart + DataEnd(l)
      <4> DEFINE y == Offsets[l] + Len(b)
      <4>1. y \in Nat /\ Len(c) = DataStart + y
        BY <1>3, <2>6, <3>1, <3>2
      <4>2. DataEnd(l) = AlignUp(y, alignment)
        <5>1. l # 0
          BY <2>1
        <5> QED BY <5>1 DEF DataEnd, b, d
      <4> HIDE DEF y
      <4>3. AlignUp(y, alignment) = y + Gap(y, alignment) /\ Gap(y, alignment) \in 0 .. alignment - 1
        BY <1>1, <2>11, <4>1, AlignUpIs, GapIs
      <4>4. (DataStart + y) % alignment = y % alignment
        BY <1>1, <1>3, <4>1, Shifted
      <4>5. Gap(DataStart + y, alignment) = Gap(y, alignment)
        BY <4>4 DEF Gap
      <4> DEFINE g == Gap(y, alignment)
      <4>6. g \in Nat /\ Len(w) = (DataStart + y) + g /\ DataEnd(l) = y + g
        <5>1. g \in Nat
          BY <1>1, <4>3
        <5> QED BY <2>7, <4>1, <4>2, <4>3, <4>5, <5>1
      <4> HIDE DEF g
      <4> QED BY <1>3, <4>1, <4>6
    <3> QED BY <3>4, <3>5
  <2>12. Right(l)
    BY <2>3, <2>10, <2>11, Zenon
  <2> HIDE DEF Right
  <2> QED BY <2>1, <2>12 DEF l
<1> HIDE DEF T
<1>7. 0 .. n \subseteq T
  BY <1>1, <1>5, <1>6, InductionUpTo
<1>8. Right(n) /\ Layout \in Seq(Nat)
  <2>1. n \in T /\ n \in 0 .. n
    BY <1>1, <1>7
  <2> HIDE DEF Right
  <2> QED BY <1>4, <2>1 DEF T
<1> QED BY <1>4, <1>8 DEF n, d

-----------------------------------------------------------------------------
(* The inductive invariant.                                                 *)

AlignmentOf(m) == IF KeyAlignment \in DOMAIN m THEN Uint64(m[KeyAlignment]) ELSE DefaultAlignment

\* What the Writer has gathered: each key once, in the order of the first Set,
\* Values, tensors that can be written, and the alignment last set.
Gathered ==
  /\ keys \in Seq(Seq(Byte)) /\ \A j, k \in 1 .. Len(keys) : keys[j] = keys[k] => j = k
  /\ DOMAIN kv = {keys[k] : k \in 1 .. Len(keys)} /\ kv = [x \in DOMAIN kv |-> kv[x]]
  /\ \A x \in DOMAIN kv : IsGiven(kv[x])
  /\ tensors \in Seq(GoodTensors)
  /\ alignment = AlignmentOf(kv) /\ alignment \in Byte

WriterInv ==
  /\ panicked = "no" => Gathered
  /\ stage # "build" => panicked = "no" /\ alignment # 0 /\ ~Mistyped

ReaderStart ==
  /\ r = [pos |-> 0, err |-> FALSE, val |-> <<>>]
  /\ f = [keys |-> <<>>, kv |-> <<>>, tensors |-> <<>>, alignment |-> DefaultAlignment, dataOffset |-> 0, left |-> <<0, 0>>]

\* The reader is after the first i keys and has those.
AfterKeys(i) ==
  /\ r \in Readers /\ ~r.err /\ r.pos = KeyAt(i)
  /\ f = [keys |-> f.keys, kv |-> f.kv, tensors |-> <<>>, alignment |-> DefaultAlignment, dataOffset |-> 0,
          left |-> <<Len(keys) - i, Len(tensors)>>]
  /\ f.keys \in Seq(Seq(Byte)) /\ Len(f.keys) = i /\ \A j \in 1 .. i : f.keys[j] = keys[j]
  /\ DOMAIN f.kv = {keys[j] : j \in 1 .. i} /\ f.kv = [x \in DOMAIN f.kv |-> kv[x]]

\* The first i tensors, as they are read, and that they are what can be read.
Entry(k) == [name |-> tensors[k].name, dims |-> tensors[k].dims, type |-> tensors[k].type, offset |-> Offsets[k]]
AcceptableUpTo(i) ==
  /\ alignment \in Powers
  /\ \A k, l \in 1 .. i : Len(tensors[k].dims) <= 4 /\ (k # l => tensors[k].name # tensors[l].name)
FileUpTo(i, dataOffset) ==
  [keys |-> keys, kv |-> kv, tensors |-> [k \in 1 .. i |-> Entry(k)], alignment |-> alignment, dataOffset |-> dataOffset,
   left |-> <<0, Len(tensors) - i>>]

AfterTensors(i) ==
  r \in Readers /\ ~r.err /\ r.pos = InfoAt(i) /\ f = FileUpTo(i, 0) /\ AcceptableUpTo(i)

Parsed ==
  /\ f = FileUpTo(Len(tensors), DataStart) /\ AcceptableUpTo(Len(tensors))
  /\ \A k \in 1 .. Len(tensors) : DataStart + Offsets[k] + Len(tensors[k].data) <= Len(file)

ReaderInv ==
  /\ stage = "header" => ReaderStart
  /\ stage # "build" => Begins(Layout)
  /\ stage = "kv" => \E i \in 0 .. Len(keys) : AfterKeys(i)
  /\ stage = "tensors" => \E i \in 0 .. Len(tensors) : AfterTensors(i)
  /\ stage = "parsed" => Parsed
  /\ stage = "rejected" /\ file = Layout => ~Acceptable

\* Of a file of values that are not regular no more is known than who wrote it.
Inv ==
  /\ stage \in {"build", "header", "kv", "tensors", "parsed", "rejected"}
  /\ WriterInv
  /\ stage = "build" => ReaderStart
  /\ Regular => ReaderInv

\* What can be laid out.
LEMMA GatheredWritten ==
  ASSUME Gathered, alignment # 0, Regular, ~Mistyped
  PROVE  Written
<1>1. alignment \in 1 .. 255
  BY DEF Gathered, Byte
<1>2. \A k \in 1 .. Len(keys) : keys[k] \in DOMAIN kv
  BY DEF Gathered
<1>3. ASSUME NEW x \in DOMAIN kv PROVE IsValue(kv[x])
  <2> DEFINE v == kv[x]
  <2>1. IsGiven(v)
    BY DEF Gathered
  <2>2. ItemKind(v) \in ItemTypes /\ \A k \in DOMAIN v.items : v.items[k].type = ItemKind(v)
    BY DEF Regular, ItemKind
  <2>3. \A k \in DOMAIN v.items : v.items[k].type \in ItemTypes => v.items[k].held = v.items[k].type
    BY DEF Mistyped
  <2> HIDE DEF v
  <2>4. \A k \in DOMAIN v.items : v.items[k].type = ItemKind(v) /\ v.items[k].held = ItemKind(v)
    BY <2>2, <2>3
  <2>5. IsValue(v)
    BY <2>1, <2>2, <2>4, GivenIsValue
  <2> QED BY <2>5 DEF v
<1> QED BY <1>1, <1>2, <1>3 DEF Gathered, Written

\* While the Writer stands still so does all that it lays out.
LEMMA Still ==
  ASSUME UNCHANGED writerVars
  PROVE  /\ Layout' = Layout /\ DataStart' = DataStart /\ Offsets' = Offsets
         /\ \A i : KeyAt(i)' = KeyAt(i)
         /\ \A i : InfoAt(i)' = InfoAt(i)
         /\ \A i : Entry(i)' = Entry(i)
         /\ \A i : AcceptableUpTo(i)' = AcceptableUpTo(i)
         /\ \A i, d : FileUpTo(i, d)' = FileUpTo(i, d)
         /\ Acceptable' = Acceptable
         /\ Gathered' = Gathered /\ Written' = Written /\ Regular' = Regular /\ Mistyped' = Mistyped
<1>1. /\ keys' = keys /\ kv' = kv /\ tensors' = tensors /\ alignment' = alignment
  BY DEF writerVars
<1>2. Offsets' = Offsets
  BY <1>1 DEF Offsets
<1>3. Header' = Header
  BY <1>1, <1>2 DEF Header
<1>4. Layout' = Layout
  BY <1>1, <1>3 DEF Layout
<1>5. DataStart' = DataStart
  BY <1>1, <1>3 DEF DataStart
<1>6. KeyEntries' = KeyEntries
  BY <1>1 DEF KeyEntries
<1>7. Infos' = Infos
  BY <1>1, <1>2 DEF Infos
<1>8. \A i : KeyAt(i)' = KeyAt(i)
  BY <1>1, <1>6 DEF KeyAt
<1>9. \A i : InfoAt(i)' = InfoAt(i)
  BY <1>1, <1>7, <1>8 DEF InfoAt
<1>10. \A i : Entry(i)' = Entry(i)
  BY <1>1, <1>2 DEF Entry
<1>11. \A i : AcceptableUpTo(i)' = AcceptableUpTo(i)
  BY <1>1 DEF AcceptableUpTo
<1>12. \A i, d : FileUpTo(i, d)' = FileUpTo(i, d)
  BY <1>1, <1>2 DEF FileUpTo, Entry
<1>13. Acceptable' = Acceptable
  BY <1>1 DEF Acceptable
<1>14. Gathered' = Gathered /\ Written' = Written /\ Regular' = Regular /\ Mistyped' = Mistyped
  BY <1>1 DEF Gathered, Written, AlignmentOf, Uint64, Regular, Mistyped
<1> QED BY <1>2, <1>4, <1>5, <1>8, <1>9, <1>10, <1>11, <1>12, <1>13, <1>14

-----------------------------------------------------------------------------
(* The Writer's steps.                                                      *)

\* A map with a key set.
LEMMA WithIs ==
  ASSUME NEW m, NEW key, NEW x
  PROVE  /\ DOMAIN With(m, key, x) = DOMAIN m \cup {key}
         /\ With(m, key, x)[key] = x
         /\ \A y \in DOMAIN m : y # key => With(m, key, x)[y] = m[y]
         /\ With(m, key, x) = [y \in DOMAIN With(m, key, x) |-> With(m, key, x)[y]]
  BY DEF With

\* What a value says of the alignment is a byte.
LEMMA Uint64Is ==
  ASSUME NEW v, IsGiven(v)
  PROVE  Uint64(v) \in Byte
<1>1. CASE v.type # Array /\ v.items[1].held \in Integer \cup {Bool}
  <2> DEFINE xs == v.items
  <2>1. xs \in Seq(Items) /\ Len(xs) = 1 /\ \A k \in DOMAIN xs : Scalar(xs[k])
    BY <1>1 DEF IsGiven
  <2> HIDE DEF xs
  <2>2. xs[1] \in Items /\ Scalar(xs[1])
    BY <2>1
  <2>3. xs[1].held # String
    BY <1>1 DEF xs, Integer, Bool, String, Uint32, Int32, U64
  <2> DEFINE y == xs[1].data
  <2>4. y \in Seq(Byte) /\ Len(y) = 1
    BY <2>2, <2>3 DEF Scalar, Items
  <2> HIDE DEF y
  <2>5. 1 \in 1 .. Len(y)
    BY <2>4
  <2>6. y[1] \in Byte
    BY <2>4, <2>5, ElementOfSeq
  <2> QED BY <1>1, <2>6 DEF Uint64, y, xs
<1>2. CASE ~(v.type # Array /\ v.items[1].held \in Integer \cup {Bool})
  BY <1>2 DEF Uint64, Byte
<1> QED BY <1>1, <1>2

\* Set keeps what is gathered.
LEMMA SetGathers ==
  ASSUME Gathered, NEW key \in Keys, NEW x \in GoValues, Set(key, x), panicked' = "no"
  PROVE  Gathered'
<1> DEFINE v == ToValue(x)
           n == Len(keys)
<1>1. panicked = "no" /\ tensors' = tensors /\ keys' = (IF key \in DOMAIN kv THEN keys ELSE Append(keys, key))
  BY DEF Set
<1>2. Known(x) /\ kv' = With(kv, key, v) /\ alignment' = (IF key = KeyAlignment THEN Uint64(v) ELSE alignment)
  BY DEF Set
<1>3. IsGiven(v)
  BY <1>2, ToValueIs
<1> HIDE DEF v
<1>4. /\ DOMAIN kv' = DOMAIN kv \cup {key} /\ kv'[key] = v
      /\ \A y \in DOMAIN kv : y # key => kv'[y] = kv[y]
      /\ kv' = [y \in DOMAIN kv' |-> kv'[y]]
  <2> DEFINE w == With(kv, key, v)
  <2>1. /\ DOMAIN w = DOMAIN kv \cup {key} /\ w[key] = v
        /\ \A y \in DOMAIN kv : y # key => w[y] = kv[y]
        /\ w = [y \in DOMAIN w |-> w[y]]
    BY DEF With
  <2>2. kv' = w
    BY <1>2
  <2> HIDE DEF w
  <2> QED BY <2>1, <2>2, Zenon
<1>5. \A y \in DOMAIN kv' : IsGiven(kv'[y])
  BY <1>3, <1>4 DEF Gathered
<1>6. key \in Seq(Byte) /\ n \in Nat /\ keys \in Seq(Seq(Byte))
  BY GgufAssumption DEF Gathered
<1>7. /\ keys' \in Seq(Seq(Byte)) /\ \A j, k \in 1 .. Len(keys') : keys'[j] = keys'[k] => j = k
      /\ DOMAIN kv' = {keys'[k] : k \in 1 .. Len(keys')}
  <2>1. CASE key \in DOMAIN kv
    <3>1. keys' = keys /\ DOMAIN kv' = DOMAIN kv
      BY <1>1, <1>4, <2>1
    <3> QED BY <3>1 DEF Gathered
  <2>2. CASE key \notin DOMAIN kv
    <3> DEFINE a == Append(keys, key)
    <3>1. a \in Seq(Seq(Byte)) /\ Len(a) = n + 1 /\ (\A j \in 1 .. n : a[j] = keys[j]) /\ a[n + 1] = key
      BY <1>6, AppendProperties
    <3>2. keys' = a
      BY <1>1, <2>2
    <3> HIDE DEF a, n
    <3>3. DOMAIN kv = {keys[k] : k \in 1 .. n} /\ \A j, k \in 1 .. n : keys[j] = keys[k] => j = k
      BY DEF Gathered, n
    <3>4. 1 .. n + 1 = (1 .. n) \cup {n + 1}
      BY <1>6
    <3>5. \A k \in 1 .. n : a[k] # key
      BY <2>2, <3>1, <3>3
    <3>6. ASSUME NEW j \in 1 .. n + 1, NEW k \in 1 .. n + 1, a[j] = a[k] PROVE j = k
      BY <3>1, <3>3, <3>4, <3>5, <3>6
    <3>7. {a[k] : k \in 1 .. n + 1} = {keys[k] : k \in 1 .. n} \cup {key}
      BY <3>1, <3>4
    <3>8. DOMAIN kv' = {a[k] : k \in 1 .. n + 1}
      BY <1>4, <3>3, <3>7
    <3> QED BY <3>1, <3>2, <3>6, <3>8
  <2> QED BY <2>1, <2>2
<1>8. alignment' = AlignmentOf(kv)'
  <2>1. CASE key = KeyAlignment
    BY <1>2, <1>4, <2>1 DEF AlignmentOf
  <2>2. CASE key # KeyAlignment
    <3>1. alignment' = alignment /\ alignment = AlignmentOf(kv)
      BY <1>2, <2>2 DEF Gathered
    <3>2. KeyAlignment \in DOMAIN kv' <=> KeyAlignment \in DOMAIN kv
      BY <1>4, <2>2
    <3>3. KeyAlignment \in DOMAIN kv => kv'[KeyAlignment] = kv[KeyAlignment]
      BY <1>4, <2>2
    <3> QED BY <3>1, <3>2, <3>3 DEF AlignmentOf
  <2> QED BY <2>1, <2>2
<1>9. alignment' \in Byte
  <2>1. Uint64(v) \in Byte
    BY <1>3, Uint64Is
  <2> QED BY <1>2, <2>1 DEF Gathered
<1> QED BY <1>1, <1>4, <1>5, <1>7, <1>8, <1>9 DEF Gathered

\* So does AddTensor.
LEMMA AddTensorGathers ==
  ASSUME Gathered, NEW t \in Tensors, AddTensor(t)
  PROVE  Gathered'
<1> DEFINE dims == Reverse(t.shape)
           u == [name |-> t.name, dims |-> dims, type |-> t.type, data |-> t.data]
<1>1. tensors' = Append(tensors, u) /\ keys' = keys /\ kv' = kv /\ alignment' = alignment
  BY DEF AddTensor
<1>2. t.name \in Seq(Byte) /\ t.shape \in Seq(1 .. 255) /\ t.data \in Seq(Byte)
  BY GgufAssumption
<1>3. t.type \in DOMAIN TypeInfos /\ Len(t.data) = TensorBytes(t.type, dims)
  BY DEF AddTensor, Fits
<1>4. dims \in Seq(1 .. 255)
  <2> DEFINE n == Len(t.shape)
             R == 1 .. 255
  <2>1. n \in Nat /\ \A k \in 1 .. n : (n - k) + 1 \in 1 .. n
    BY <1>2
  <2>2. t.shape \in Seq(R)
    BY <1>2
  <2> HIDE DEF R
  <2>3. \A k \in 1 .. n : t.shape[k] \in R
    BY <2>2, ElementOfSeq
  <2>4. dims = [k \in 1 .. n |-> t.shape[(n - k) + 1]]
    BY DEF Reverse
  <2> HIDE DEF n, dims
  <2>5. dims \in [1 .. n -> R]
    BY <2>1, <2>3, <2>4
  <2>6. dims \in Seq(R)
    BY <2>1, <2>5
  <2> QED BY <2>6 DEF R
<1> HIDE DEF dims
<1>5. u \in GoodTensors
  BY <1>2, <1>3, <1>4 DEF GoodTensors
<1> HIDE DEF u
<1>6. Append(tensors, u) \in Seq(GoodTensors)
  BY <1>5, AppendProperties DEF Gathered
<1>7. AlignmentOf(kv)' = AlignmentOf(kv)
  BY <1>1 DEF AlignmentOf, Uint64
<1>8. tensors' \in Seq(GoodTensors)
  BY <1>1, <1>6
<1>9. keys' \in Seq(Seq(Byte)) /\ \A j, k \in 1 .. Len(keys') : keys'[j] = keys'[k] => j = k
  BY <1>1 DEF Gathered
<1>10. DOMAIN kv' = {keys'[k] : k \in 1 .. Len(keys')} /\ kv' = [x \in DOMAIN kv' |-> kv'[x]]
  BY <1>1, Zenon DEF Gathered
<1>11. \A x \in DOMAIN kv' : IsGiven(kv'[x])
  BY <1>1 DEF Gathered
<1>12. alignment' = AlignmentOf(kv)' /\ alignment' \in Byte
  BY <1>1, <1>7 DEF Gathered
<1> QED BY <1>8, <1>9, <1>10, <1>11, <1>12 DEF Gathered

-----------------------------------------------------------------------------
(* What Parse reads at each of its steps.                                   *)

\* What the header says is in the complete file, where the entries are.
LEMMA HeaderPlaces ==
  ASSUME Written
  PROVE  HeaderHolds(Layout) /\ Len(Layout) \in Nat /\ Len(keys) <= Len(Layout) /\ Len(tensors) <= Len(Layout)
<1>1. Layout \in Seq(Nat) /\ HoldsIn(Layout, 0, Header)
  BY LayoutIs
<1>2. Len(Layout) \in Nat
  BY <1>1
<1>3. HeaderHolds(Layout) /\ Len(Header) = InfoAt(Len(tensors)) /\ InfoAt(Len(tensors)) \in Nat
  BY <1>1, <1>2, HeaderIs
<1>4. Len(Header) <= Len(Layout)
  <2>1. 0 + Len(Header) <= Len(Layout)
    BY <1>1 DEF HoldsIn
  <2> QED BY <1>3, <2>1
<1>5. /\ Len(keys) <= KeyAt(Len(keys)) /\ Len(tensors) <= InfoAt(Len(tensors)) /\ KeyAt(Len(keys)) <= InfoAt(Len(tensors))
      /\ Len(keys) \in Nat /\ Len(tensors) \in Nat /\ KeyAt(Len(keys)) \in Nat
  <2>1. \A k \in 0 .. Len(keys) : KeyAt(k) \in Nat
    BY KeyEntriesAre
  <2>2. /\ Len(keys) <= KeyAt(Len(keys)) /\ Len(tensors) <= InfoAt(Len(tensors)) /\ KeyAt(Len(keys)) <= InfoAt(Len(tensors))
        /\ Len(keys) \in Nat /\ Len(tensors) \in Nat
    BY KeyEntriesAre, InfosAre
  <2>3. Len(keys) \in 0 .. Len(keys)
    BY <2>2
  <2> QED BY <2>1, <2>2, <2>3
<1> QED BY <1>2, <1>3, <1>4, <1>5

\* ParseHeader reads the two counts, and a complete file it does not refuse.
LEMMA HeaderRead ==
  ASSUME Written, Begins(Layout), r = [pos |-> 0, err |-> FALSE, val |-> <<>>]
  PROVE  LET magic   == Read(r, 4)
             version == Read(magic, 4)
             nTensors == Read(version, 8)
             nKV     == Read(nTensors, 8)
         IN  /\ nKV \in Readers /\ (~nKV.err => nKV.pos = 24 /\ nKV.val[1] = Len(keys) /\ nTensors.val[1] = Len(tensors))
             /\ file = Layout => /\ magic.val = Magic /\ version.val[1] = 3 /\ ~nKV.err
                                 /\ nKV.val[1] <= Len(file) /\ nTensors.val[1] <= Len(file)
<1> DEFINE L == Layout
           magic   == Read(r, 4)
           version == Read(magic, 4)
           nTensors == Read(version, 8)
           nKV     == Read(nTensors, 8)
           n == Len(keys)
           m == Len(tensors)
<1>1. /\ HoldsIn(L, 0, Magic) /\ HoldsIn(L, 4, Num(3, 4)) /\ HoldsIn(L, 8, Num(m, 8)) /\ HoldsIn(L, 16, Num(n, 8))
      /\ n <= Len(L) /\ m <= Len(L)
  BY HeaderPlaces DEF HeaderHolds
<1>2. /\ n \in Nat /\ m \in Nat /\ 3 \in Nat /\ 4 \in Nat \ {0} /\ 8 \in Nat \ {0}
      /\ 0 \in Nat /\ 4 \in Nat /\ 8 \in Nat /\ 16 \in Nat
  BY DEF Written
<1>3. Magic \in Seq(Nat) /\ Len(Magic) = 4
  BY DEF Magic
<1>4. r \in Readers /\ ~r.err /\ AtPlace(r, 0)
  <2>1. <<>> \in Seq(Nat)
    OBVIOUS
  <2> QED BY <2>1 DEF Readers, AtPlace
<1> HIDE DEF L, n, m, magic
<1>5. Reads(L, r, 0 + Len(Magic), Read(r, Len(Magic))) /\ (~Read(r, Len(Magic)).err => Read(r, Len(Magic)).val = Magic)
  <2> DEFINE z == 0
             b == Magic
  <2>1. Begins(L) /\ z \in Nat /\ AtPlace(r, z) /\ b \in Seq(Nat) /\ HoldsIn(L, z, b)
    BY <1>1, <1>3, <1>4 DEF L
  <2> HIDE DEF z, b
  <2>2. Reads(L, r, z + Len(b), Read(r, Len(b))) /\ (~Read(r, Len(b)).err => Read(r, Len(b)).val = b)
    BY <2>1, ReadIs
  <2> QED BY <2>2 DEF z, b
<1>6. Reads(L, r, 4, magic) /\ (~magic.err => magic.val = Magic)
  BY <1>3, <1>5 DEF magic
<1>7. AtPlace(magic, 4) /\ magic.err \in BOOLEAN
  BY <1>6, ReadsTo
<1> HIDE DEF version
<1>8. Reads(L, magic, 8, version) /\ AtPlace(version, 8) /\ version.err \in BOOLEAN /\ version.val[1] = IF version.err THEN 0 ELSE 3
  <2>1. /\ Reads(L, magic, 4 + 4, version) /\ AtPlace(version, 4 + 4) /\ version.err \in BOOLEAN
        /\ version.val[1] = IF version.err THEN 0 ELSE 3
    BY <1>1, <1>2, <1>7, ReadNumIs DEF version, L
  <2> QED BY <2>1
<1> HIDE DEF nTensors
<1>9. /\ Reads(L, version, 16, nTensors) /\ AtPlace(nTensors, 16) /\ nTensors.err \in BOOLEAN
      /\ nTensors.val[1] = IF nTensors.err THEN 0 ELSE m
  <2>1. /\ Reads(L, version, 8 + 8, nTensors) /\ AtPlace(nTensors, 8 + 8) /\ nTensors.err \in BOOLEAN
        /\ nTensors.val[1] = IF nTensors.err THEN 0 ELSE m
    BY <1>1, <1>2, <1>8, ReadNumIs DEF nTensors, L
  <2> QED BY <2>1
<1> HIDE DEF nKV
<1>10. Reads(L, nTensors, 24, nKV) /\ nKV.err \in BOOLEAN /\ nKV.val[1] = IF nKV.err THEN 0 ELSE n
  <2>1. /\ Reads(L, nTensors, 16 + 8, nKV) /\ nKV.err \in BOOLEAN
        /\ nKV.val[1] = IF nKV.err THEN 0 ELSE n
    BY <1>1, <1>2, <1>9, ReadNumIs DEF nKV, L
  <2> QED BY <2>1
<1>11. nKV \in Readers
  BY <1>10 DEF Reads
<1>12. ~nKV.err => nKV.pos = 24 /\ nKV.val[1] = n /\ nTensors.val[1] = m
  BY <1>9, <1>10 DEF Reads
<1>13. ASSUME file = L
       PROVE  /\ magic.val = Magic /\ version.val[1] = 3 /\ ~nKV.err
              /\ nKV.val[1] <= Len(file) /\ nTensors.val[1] <= Len(file)
  <2>1. ~magic.err /\ ~version.err /\ ~nTensors.err /\ ~nKV.err
    BY <1>4, <1>6, <1>8, <1>9, <1>10, <1>13 DEF Reads
  <2> QED BY <1>1, <1>6, <1>8, <1>9, <1>10, <1>13, <2>1
<1> QED BY <1>11, <1>12, <1>13 DEF L, n, m, magic, version, nTensors, nKV

\* ParseKV reads a key and its value.
LEMMA KeyRead ==
  ASSUME Written, Begins(Layout), NEW i \in 1 .. Len(keys), r \in Readers, ~r.err, r.pos = KeyAt(i - 1)
  PROVE  LET key == ReadStr(r)
             v   == ReadValue(key)
         IN  /\ v[1] \in Readers
             /\ ~v[1].err => v[1].pos = KeyAt(i) /\ key.val = keys[i] /\ v[2] = kv[keys[i]]
             /\ file = Layout => ~v[1].err
<1> DEFINE L == Layout
           p == KeyAt(i - 1)
           x == keys[i]
           y == kv[x]
           a == Str(x)
           b == ValueBytes(y)
           key == ReadStr(r)
           v   == ReadValue(key)
<1>1. /\ p \in Nat /\ a \in Seq(Nat) /\ b \in Seq(Nat) /\ KeyEntries[i] = a \o b
      /\ KeyAt(i) = p + (Len(a) + Len(b))
  <2>1. i - 1 \in 0 .. Len(keys)
    <3>1. Len(keys) \in Nat
      BY KeyEntriesAre
    <3> QED BY <3>1
  <2> QED BY <2>1, KeyEntriesAre
<1>2. x \in Seq(Byte) /\ IsValue(y)
  <2>1. x \in Seq(Byte)
    BY DEF Written
  <2> QED BY <2>1 DEF Written
<1>3. HoldsIn(L, p, a \o b) /\ Len(L) \in Nat
  <2>1. HoldsIn(L, p, KeyEntries[i]) /\ Len(L) \in Nat
    BY HeaderPlaces DEF HeaderHolds
  <2> QED BY <1>1, <2>1
<1> HIDE DEF L, p, x, y, a, b, key
<1>4. HoldsIn(L, p, a) /\ HoldsIn(L, p + Len(a), b) /\ Len(a) \in Nat /\ Len(b) \in Nat
  BY <1>1, <1>3, HoldsJoined
<1>5. AtPlace(r, p)
  BY DEF AtPlace, p
<1>6. Reads(L, r, p + Len(a), key) /\ (~key.err => key.val = x)
  BY <1>1, <1>2, <1>4, <1>5, ReadStrIs DEF L, a, key
<1>7. AtPlace(key, p + Len(a)) /\ key.err \in BOOLEAN
  BY <1>6, ReadsTo
<1> DEFINE q == p + Len(a)
           w == v[1]
<1>8. q \in Nat /\ AtPlace(key, q) /\ HoldsIn(L, q, b)
  BY <1>1, <1>4, <1>7
<1> HIDE DEF q, v
<1>9. Reads(L, key, q + Len(b), w) /\ (~w.err => v[2] = y)
  BY <1>2, <1>8, ReadValueIs DEF L, b, v
<1> HIDE DEF w
<1>10. Reads(L, r, q, key)
  BY <1>6 DEF q
<1>11. Reads(L, r, q + Len(b), w)
  BY <1>7, <1>9, <1>10, ReadsOn
<1>12. q + Len(b) = KeyAt(i)
  BY <1>1, <1>4 DEF q
<1>13. ~w.err => ~key.err
  BY <1>9 DEF Reads
<1>14. w \in Readers /\ (~w.err => w.pos = KeyAt(i)) /\ (file = L => ~w.err)
  BY <1>11, <1>12 DEF Reads
<1> QED BY <1>6, <1>9, <1>13, <1>14 DEF L, x, y, key, v, w

\* ParseTensor reads an entry.
LEMMA TensorRead ==
  ASSUME Written, Begins(Layout), NEW i \in 1 .. Len(tensors), r \in Readers, ~r.err, r.pos = InfoAt(i - 1)
  PROVE  LET name == ReadStr(r)
             nd   == Read(name, 4)
             dims == ReadMany(nd, nd.val[1], U64)
             type == Read(dims[1], 4)
             off  == Read(type, 8)
         IN  /\ off \in Readers
             /\ nd.val[1] = 0 \/ nd.val[1] = Len(tensors[i].dims)
             /\ ~off.err => /\ off.pos = InfoAt(i) /\ name.val = tensors[i].name /\ dims[2] = DimItems(tensors[i].dims)
                            /\ type.val[1] = tensors[i].type /\ off.val[1] = Offsets[i]
                            /\ nd.val[1] = Len(tensors[i].dims)
             /\ file = Layout => ~off.err
<1> DEFINE L == Layout
           p == InfoAt(i - 1)
           t == tensors[i]
           a == Str(t.name)
           n == Len(t.dims)
           c == DimsEnd(t.dims)
           xs == DimItems(t.dims)
           name == ReadStr(r)
           nd   == Read(name, 4)
           dims == ReadMany(nd, nd.val[1], U64)
           type == Read(dims[1], 4)
           off  == Read(type, 8)
           q == p + Len(a)
           q1 == q + 4
           e == q1 + c
           e1 == e + 4
<1>1. /\ p \in Nat /\ t \in GoodTensors /\ Offsets[i] \in Nat /\ Infos[i] = InfoBytes(t, Offsets[i])
      /\ InfoAt(i) = p + Len(InfoBytes(t, Offsets[i]))
  <2>1. i - 1 \in 0 .. Len(tensors)
    <3>1. Len(tensors) \in Nat
      BY InfosAre
    <3> QED BY <3>1
  <2> QED BY <2>1, InfosAre
<1>2. HoldsIn(L, p, InfoBytes(t, Offsets[i])) /\ Len(L) \in Nat
  <2>1. HoldsIn(L, p, Infos[i]) /\ Len(L) \in Nat
    BY HeaderPlaces DEF HeaderHolds
  <2> QED BY <1>1, <2>1
<1>3. /\ t.name \in Seq(Byte) /\ n \in Nat /\ t.type \in Nat /\ t.dims \in Seq(1 .. 255)
      /\ 4 \in Nat \ {0} /\ 8 \in Nat \ {0}
  BY <1>1, TensorIs
<1>4. AreItems(U64, xs) /\ Len(xs) = n /\ U64 \in ItemTypes /\ c = ItemsEnd(U64, xs, n)
  BY <1>3, DimsAre DEF DimsEnd
<1> HIDE DEF p, L, t, n, c, xs, name
<1>5. /\ Len(a) \in Nat /\ c \in Nat
      /\ Len(InfoBytes(t, Offsets[i])) = Len(a) + c + 16
      /\ HoldsIn(L, p, a) /\ HoldsIn(L, q, Num(n, 4)) /\ HoldsItems(L, q1, U64, xs)
      /\ HoldsIn(L, e, Num(t.type, 4)) /\ HoldsIn(L, e1, Num(Offsets[i], 8))
  <2> DEFINE b == InfoBytes(t, Offsets[i])
             pos1 == p + Len(Str(t.name))
             pos2 == pos1 + 4 + DimsEnd(t.dims)
  <2>1. /\ Len(Str(t.name)) \in Nat /\ DimsEnd(t.dims) \in Nat
        /\ Len(b) = Len(Str(t.name)) + DimsEnd(t.dims) + 16
        /\ HoldsIn(L, p, Str(t.name)) /\ HoldsIn(L, pos1, Num(Len(t.dims), 4))
        /\ HoldsItems(L, pos1 + 4, U64, DimItems(t.dims))
        /\ HoldsIn(L, pos2, Num(t.type, 4)) /\ HoldsIn(L, pos2 + 4, Num(Offsets[i], 8))
    BY <1>1, <1>2, InfoBytesAre, Zenon
  <2> QED BY <2>1 DEF n, c, xs
<1>6. q \in Nat /\ q1 \in Nat /\ e \in Nat /\ e1 \in Nat /\ q + 4 = q1 /\ q1 + c = e /\ e + 4 = e1 /\ e1 + 8 = InfoAt(i)
  BY <1>1, <1>5
<1>7. AtPlace(r, p)
  BY DEF AtPlace, p
<1>8. Reads(L, r, q, name) /\ (~name.err => name.val = t.name)
  BY <1>1, <1>3, <1>5, <1>7, ReadStrIs DEF L, name
<1> HIDE DEF a, q, q1, e, e1, nd
<1>9. AtPlace(name, q) /\ name.err \in BOOLEAN
  BY <1>8, ReadsTo
<1>10. /\ Reads(L, name, q1, nd) /\ AtPlace(nd, q1) /\ nd.err \in BOOLEAN /\ nd \in Readers
       /\ nd.val[1] = IF nd.err THEN 0 ELSE n
  <2>1. /\ Reads(L, name, q + 4, nd) /\ AtPlace(nd, q + 4) /\ nd.err \in BOOLEAN /\ nd \in Readers
        /\ nd.val[1] = IF nd.err THEN 0 ELSE n
    BY <1>3, <1>5, <1>6, <1>9, ReadNumIs DEF L, nd
  <2> QED BY <1>6, <2>1
<1> HIDE DEF dims
<1> DEFINE d == dims[1]
<1>11. Reads(L, nd, e, d) /\ (~d.err => dims[2] = xs)
  <2>1. CASE nd.err
    <3> DEFINE many == ReadMany(nd, 0, U64)
    <3>1. dims = many
      BY <1>10, <2>1 DEF dims
    <3>2. file \in Seq(Nat) /\ 0 \in Nat
      BY DEF Begins
    <3>3. many \in ManyPairs /\ many[1].err
      BY <1>4, <1>10, <2>1, <3>2, ReadManyType
    <3> HIDE DEF many
    <3>4. d \in Readers /\ d.err
      BY <3>1, <3>3 DEF ManyPairs
    <3> HIDE DEF d
    <3> QED BY <2>1, <3>4 DEF Reads
  <2>2. CASE ~nd.err
    <3> DEFINE many == ReadMany(nd, n, U64)
    <3>1. dims = many
      BY <1>10, <2>2 DEF dims
    <3>2. /\ Reads(L, nd, q1 + ItemsEnd(U64, xs, Len(xs)), ReadMany(nd, Len(xs), U64)[1])
          /\ ~ReadMany(nd, Len(xs), U64)[1].err => ReadMany(nd, Len(xs), U64)[2] = xs
      <4>1. /\ Begins(L) /\ q1 \in Nat /\ AtPlace(nd, q1) /\ U64 \in ItemTypes /\ AreItems(U64, xs)
            /\ HoldsItems(L, q1, U64, xs)
        BY <1>4, <1>5, <1>6, <1>10 DEF L
      <4> QED BY <4>1, ReadManyIs
    <3>3. q1 + ItemsEnd(U64, xs, Len(xs)) = e
      BY <1>4, <1>6
    <3> QED BY <1>4, <3>1, <3>2, <3>3
  <2> QED BY <1>10, <2>1, <2>2
<1> HIDE DEF d
<1>12. AtPlace(d, e) /\ d.err \in BOOLEAN
  BY <1>11, ReadsTo
<1> HIDE DEF type
<1>13. /\ Reads(L, d, e1, type) /\ AtPlace(type, e1) /\ type.err \in BOOLEAN
       /\ type.val[1] = IF type.err THEN 0 ELSE t.type
  <2>1. /\ Reads(L, d, e + 4, type) /\ AtPlace(type, e + 4) /\ type.err \in BOOLEAN
        /\ type.val[1] = IF type.err THEN 0 ELSE t.type
    BY <1>3, <1>5, <1>6, <1>12, ReadNumIs DEF L, type, d
  <2> QED BY <1>6, <2>1
<1> HIDE DEF off
<1>14. /\ Reads(L, type, InfoAt(i), off) /\ off.err \in BOOLEAN /\ off \in Readers
       /\ off.val[1] = IF off.err THEN 0 ELSE Offsets[i]
  <2>1. /\ Reads(L, type, e1 + 8, off) /\ off.err \in BOOLEAN /\ off \in Readers
        /\ off.val[1] = IF off.err THEN 0 ELSE Offsets[i]
    <3> DEFINE o == Offsets[i]
    <3>1. /\ Begins(L) /\ e1 \in Nat /\ AtPlace(type, e1) /\ o \in Nat /\ 8 \in Nat \ {0}
          /\ HoldsIn(L, e1, Num(o, 8))
      BY <1>1, <1>5, <1>6, <1>13 DEF L
    <3> HIDE DEF o
    <3>2. /\ Reads(L, type, e1 + 8, off) /\ off.err \in BOOLEAN /\ off \in Readers
          /\ off.val[1] = IF off.err THEN 0 ELSE o
      BY <3>1, ReadNumIs DEF off
    <3> QED BY <3>2 DEF o
  <2> QED BY <1>6, <2>1
<1>15. ASSUME ~off.err PROVE ~type.err /\ ~d.err /\ ~nd.err /\ ~name.err
  BY <1>10, <1>11, <1>13, <1>14, <1>15 DEF Reads
<1>16. ~off.err => off.pos = InfoAt(i)
  BY <1>14 DEF Reads
<1>17. ASSUME file = L PROVE ~off.err
  BY <1>8, <1>10, <1>11, <1>13, <1>14, <1>17 DEF Reads
<1>18. /\ off \in Readers
       /\ nd.val[1] = 0 \/ nd.val[1] = n
       /\ ~off.err => /\ off.pos = InfoAt(i) /\ name.val = t.name /\ dims[2] = xs
                      /\ type.val[1] = t.type /\ off.val[1] = Offsets[i]
                      /\ nd.val[1] = n
       /\ file = L => ~off.err
  BY <1>8, <1>10, <1>11, <1>13, <1>14, <1>15, <1>16, <1>17
<1> QED BY <1>18, Zenon DEF L, t, n, xs, name, nd, dims, type, off

\* What is in a place is what is taken from it.
LEMMA SliceIs ==
  ASSUME NEW s \in Seq(Nat), NEW p \in Nat, NEW b \in Seq(Nat), HoldsIn(s, p, b)
  PROVE  SubSeq(s, p + 1, p + Len(b)) = b
<1> DEFINE c == p + 1
           d == p + Len(b)
           x == SubSeq(s, c, d)
           n == Len(b)
<1>1. c \in Int /\ d \in Int /\ n \in Nat /\ d - c + 1 = n /\ d <= Len(s) /\ (c <= d <=> n > 0) /\ Len(s) \in Nat
  BY DEF HoldsIn
<1>2. \A j \in c .. d : s[j] \in Nat
  BY <1>1
<1>3. \A j \in 1 .. n : c + j - 1 = p + j /\ s[p + j] = b[j]
  BY <1>1 DEF HoldsIn
<1> HIDE DEF c, d
<1>4. /\ x \in Seq(Nat) /\ Len(x) = (IF c <= d THEN d - c + 1 ELSE 0)
      /\ \A j \in 1 .. d - c + 1 : x[j] = s[c + j - 1]
  BY <1>1, <1>2, SubSeqProperties
<1> HIDE DEF x
<1>5. Len(x) = n
  <2>1. CASE c <= d
    BY <1>1, <1>4, <2>1
  <2>2. CASE ~(c <= d)
    <3>1. n = 0
      BY <1>1, <2>2
    <3> QED BY <1>4, <2>2, <3>1
  <2> QED BY <2>1, <2>2
<1>6. ASSUME NEW j \in 1 .. n PROVE x[j] = b[j]
  <2>1. x[j] = s[c + j - 1]
    BY <1>1, <1>4
  <2>2. c + j - 1 = p + j /\ s[p + j] = b[j]
    BY <1>3
  <2> QED BY <2>1, <2>2
<1> HIDE DEF n
<1>7. x = b
  BY <1>4, <1>5, <1>6, SeqEqual DEF n
<1> QED BY <1>7 DEF x, c, d

\* A beginning holds what is in it.
LEMMA BeginningHolds ==
  ASSUME NEW L, Begins(L), NEW p \in Nat, NEW b \in Seq(Nat), HoldsIn(L, p, b), p + Len(b) <= Len(file)
  PROVE  HoldsIn(file, p, b)
<1>1. ASSUME NEW j \in 1 .. Len(b) PROVE file[p + j] = b[j]
  <2>1. p + j \in 1 .. Len(file) /\ 0 + (p + j) = p + j
    BY DEF Begins
  <2>2. L[0 + (p + j)] = file[p + j] /\ L[p + j] = b[j]
    BY <2>1 DEF Begins, HoldsIn
  <2> QED BY <2>1, <2>2
<1> QED BY <1>1 DEF HoldsIn

\* The data of a tensor is within the complete file, and where it is within
\* the file it is the tensor's.
LEMMA DataRead ==
  ASSUME Written, alignment \in Powers, Begins(Layout), NEW k \in 1 .. Len(tensors)
  PROVE  LET t == tensors[k]
             p == DataStart + Offsets[k]
         IN  /\ p \in Nat /\ Len(t.data) = TensorBytes(t.type, t.dims)
             /\ file = Layout => p + Len(t.data) <= Len(file)
             /\ p + Len(t.data) <= Len(file) => SubSeq(file, p + 1, p + Len(t.data)) = t.data
<1> DEFINE L == Layout
           t == tensors[k]
           b == t.data
           p == DataStart + Offsets[k]
<1>1. HoldsIn(L, p, b) /\ file \in Seq(Nat) /\ Begins(L)
  BY LayoutIs DEF Begins
<1>2. t \in GoodTensors
  BY DEF Written
<1>3. b \in Seq(Nat) /\ Len(b) = TensorBytes(t.type, t.dims)
  BY <1>2, TensorIs
<1>4. p \in Nat
  <2>1. DataStart \in Nat /\ Offsets[k] \in Nat
    BY DataStartIs, OffsetsAre
  <2> QED BY <2>1
<1> HIDE DEF L, t, b, p
<1>5. file = L => p + Len(b) <= Len(file)
  BY <1>1 DEF HoldsIn
<1>6. ASSUME p + Len(b) <= Len(file) PROVE SubSeq(file, p + 1, p + Len(b)) = b
  <2>1. HoldsIn(file, p, b)
    BY <1>1, <1>3, <1>4, <1>6, BeginningHolds
  <2> QED BY <1>1, <1>3, <1>4, <2>1, SliceIs
<1> QED BY <1>3, <1>4, <1>5, <1>6, Zenon DEF L, t, b, p

\* Names and dimensions are looked at for the tensors up to the last.
LEMMA AcceptableIs ==
  ASSUME Written
  PROVE  Acceptable <=> AcceptableUpTo(Len(tensors))
<1> DEFINE Ok(k, l) == Len(tensors[k].dims) <= 4 /\ (k # l => tensors[k].name # tensors[l].name)
<1>1. DOMAIN tensors = 1 .. Len(tensors)
  BY DEF Written
<1>2. Acceptable <=> alignment \in Powers /\ \A k, l \in DOMAIN tensors : Ok(k, l)
  BY DEF Acceptable, Powers
<1>3. AcceptableUpTo(Len(tensors)) <=> alignment \in Powers /\ \A k, l \in 1 .. Len(tensors) : Ok(k, l)
  BY DEF AcceptableUpTo
<1> HIDE DEF Ok
<1> QED BY <1>1, <1>2, <1>3

-----------------------------------------------------------------------------
(* Parse's steps.                                                           *)

\* Parse changes neither what was written nor the file.
LEMMA ParseKeeps ==
  ASSUME Inv, Regular, stage # "build", UNCHANGED <<writerVars, file>>, stage' \in {"kv", "tensors", "parsed", "rejected"},
         stage' = "kv" => \E i \in 0 .. Len(keys) : AfterKeys(i)',
         stage' = "tensors" => \E i \in 0 .. Len(tensors) : AfterTensors(i)',
         stage' = "parsed" => Parsed',
         stage' = "rejected" /\ file = Layout => ~Acceptable
  PROVE  Inv'
<1>1. writerVars' = writerVars /\ file' = file /\ keys' = keys /\ tensors' = tensors /\ panicked' = panicked /\ alignment' = alignment
  BY DEF writerVars
<1>2. Layout' = Layout /\ Acceptable' = Acceptable /\ Gathered' = Gathered /\ Mistyped' = Mistyped
  BY <1>1, Still
<1>3. WriterInv'
  BY <1>1, <1>2 DEF Inv, WriterInv
<1>4. Begins(Layout)'
  BY <1>1, <1>2 DEF Inv, ReaderInv, Begins
<1>5. ReaderInv'
  <2>1. stage' = "kv" => (\E i \in 0 .. Len(keys) : AfterKeys(i))'
    BY <1>1
  <2>2. stage' = "tensors" => (\E i \in 0 .. Len(tensors) : AfterTensors(i))'
    BY <1>1
  <2>3. stage' = "rejected" /\ file' = Layout' => ~Acceptable'
    BY <1>1, <1>2
  <2>4. stage' \notin {"build", "header"}
    OBVIOUS
  <2> QED BY <1>4, <2>1, <2>2, <2>3, <2>4 DEF ReaderInv
<1> QED BY <1>3, <1>5 DEF Inv

\* That is all there is to keep when the values are not regular.
LEMMA IrregularKeeps ==
  ASSUME Inv, ~Regular, stage # "build", UNCHANGED writerVars,
         stage' \in {"header", "kv", "tensors", "parsed", "rejected"}
  PROVE  Inv'
<1>1. panicked' = panicked /\ alignment' = alignment
  BY DEF writerVars
<1>2. Gathered' = Gathered /\ Mistyped' = Mistyped /\ Regular' = Regular
  BY Still
<1>3. WriterInv'
  BY <1>1, <1>2 DEF Inv, WriterInv
<1> QED BY <1>2, <1>3 DEF Inv

\* What Parse may count on.
LEMMA ParseAssumes ==
  ASSUME Inv, Regular, stage # "build"
  PROVE  Gathered /\ Written /\ Begins(Layout)
<1>1. Gathered /\ alignment # 0 /\ ~Mistyped /\ Begins(Layout)
  BY DEF Inv, WriterInv, ReaderInv
<1> QED BY <1>1, GatheredWritten

\* The header.
LEMMA HeaderStep ==
  ASSUME Inv, Regular, ParseHeader
  PROVE  Inv'
<1> DEFINE magic   == Read(r, 4)
           version == Read(magic, 4)
           nTensors == Read(version, 8)
           nKV     == Read(nTensors, 8)
           bad == \/ magic.val # Magic \/ version.val[1] \notin 2 .. 3 \/ nKV.err
                  \/ nKV.val[1] > Len(file) \/ nTensors.val[1] > Len(file)
<1>1. /\ stage = "header" /\ UNCHANGED <<writerVars, file>>
      /\ bad => stage' = "rejected"
      /\ ~bad => stage' = "kv" /\ r' = nKV /\ f' = [f EXCEPT !.left = <<nKV.val[1], nTensors.val[1]>>]
  BY DEF ParseHeader, Reject
<1>2. Written /\ Begins(Layout)
  BY <1>1, ParseAssumes
<1>3. ReaderStart
  BY <1>1 DEF Inv, ReaderInv
<1>4. /\ nKV \in Readers /\ (~nKV.err => nKV.pos = 24 /\ nKV.val[1] = Len(keys) /\ nTensors.val[1] = Len(tensors))
      /\ file = Layout => /\ magic.val = Magic /\ version.val[1] = 3 /\ ~nKV.err
                          /\ nKV.val[1] <= Len(file) /\ nTensors.val[1] <= Len(file)
  BY <1>2, <1>3, HeaderRead DEF ReaderStart
<1> HIDE DEF magic, version, nTensors, nKV
<1>5. CASE bad
  <2>1. file # Layout
    <3> SUFFICES ASSUME file = Layout PROVE FALSE
      OBVIOUS
    <3>1. /\ magic.val = Magic /\ version.val[1] = 3 /\ ~nKV.err
          /\ nKV.val[1] <= Len(file) /\ nTensors.val[1] <= Len(file) /\ nKV.val[1] = Len(keys) /\ nTensors.val[1] = Len(tensors)
      BY <1>4
    <3>2. Len(keys) \in Nat /\ Len(tensors) \in Nat /\ Len(file) \in Nat
      BY <1>2 DEF Written, Begins
    <3>3. ~(nKV.val[1] > Len(file)) /\ ~(nTensors.val[1] > Len(file))
      BY <3>1, <3>2
    <3> QED BY <1>5, <3>1, <3>3
  <2> HIDE DEF bad
  <2>2. stage' = "rejected"
    BY <1>1, <1>5
  <2>3. stage # "build" /\ stage' \in {"kv", "tensors", "parsed", "rejected"} /\ stage' \notin {"kv", "tensors", "parsed"}
    BY <1>1, <2>2
  <2> QED BY <1>1, <2>1, <2>3, ParseKeeps
<1>6. CASE ~bad
  <2>1. ~nKV.err
    BY <1>6
  <2> HIDE DEF bad
  <2>2. stage' = "kv" /\ r' = nKV /\ f' = [f EXCEPT !.left = <<nKV.val[1], nTensors.val[1]>>]
    BY <1>1, <1>6
  <2>3. Len(keys) \in Nat /\ KeyAt(0) = 24
    BY <1>2, KeyEntriesAre
  <2> DEFINE left == <<Len(keys) - 0, Len(tensors)>>
  <2>4. left = <<nKV.val[1], nTensors.val[1]>>
    BY <1>4, <2>1, <2>3
  <2> HIDE DEF left
  <2>5. f' = [keys |-> <<>>, kv |-> <<>>, tensors |-> <<>>, alignment |-> DefaultAlignment, dataOffset |-> 0, left |-> left]
    BY <1>3, <2>2, <2>4 DEF ReaderStart
  <2>6. /\ f'.keys = <<>> /\ f'.kv = <<>>
        /\ f' = [keys |-> f'.keys, kv |-> f'.kv, tensors |-> <<>>, alignment |-> DefaultAlignment, dataOffset |-> 0, left |-> left]
    BY <2>5
  <2>7. <<>> \in Seq(Seq(Byte)) /\ Len(<<>>) = 0
    BY EmptySeq
  <2>8. DOMAIN <<>> = {keys'[j] : j \in 1 .. 0} /\ <<>> = [x \in DOMAIN <<>> |-> kv'[x]]
    OBVIOUS
  <2>9. KeyAt(0)' = KeyAt(0) /\ keys' = keys /\ tensors' = tensors
    BY <1>1, Still DEF writerVars
  <2>10. AfterKeys(0)'
    <3>1. r' \in Readers /\ ~r'.err /\ r'.pos = KeyAt(0)'
      BY <1>4, <2>1, <2>2, <2>3, <2>9
    <3>2. f' = [keys |-> f'.keys, kv |-> f'.kv, tensors |-> <<>>, alignment |-> DefaultAlignment, dataOffset |-> 0,
                left |-> <<Len(keys') - 0, Len(tensors')>>]
      BY <2>6, <2>9 DEF left
    <3>3. f'.keys \in Seq(Seq(Byte)) /\ Len(f'.keys) = 0 /\ \A j \in 1 .. 0 : f'.keys[j] = keys'[j]
      BY <2>6, <2>7
    <3>4. DOMAIN f'.kv = {keys'[j] : j \in 1 .. 0} /\ f'.kv = [x \in DOMAIN f'.kv |-> kv'[x]]
      BY <2>6, <2>8
    <3> QED BY <3>1, <3>2, <3>3, <3>4 DEF AfterKeys
  <2>11. 0 \in 0 .. Len(keys)
    BY <2>3
  <2>12. stage # "build" /\ stage' \in {"kv", "tensors", "parsed", "rejected"} /\ stage' \notin {"rejected", "tensors", "parsed"}
    BY <1>1, <2>2
  <2> QED BY <1>1, <2>10, <2>11, <2>12, ParseKeeps
<1> QED BY <1>5, <1>6

\* The File with one entry more, which is one less to read.
WithKey(g, key, v) == [g EXCEPT !.left[1] = @ - 1, !.keys = Append(@, key), !.kv = With(@, key, v)]
WithTensor(g, t) == [g EXCEPT !.left[2] = @ - 1, !.tensors = Append(@, t)]
FileOf(ks, m, ts, a, x, y) ==
  [keys |-> ks, kv |-> m, tensors |-> ts, alignment |-> a, dataOffset |-> 0, left |-> <<x, y>>]

\* With a key.
LEMMA KeyTaken ==
  ASSUME NEW ks, NEW m, NEW ts, NEW a, NEW x \in Int, NEW y, NEW key, NEW v
  PROVE  WithKey(FileOf(ks, m, ts, a, x, y), key, v) = FileOf(Append(ks, key), With(m, key, v), ts, a, x - 1, y)
<1> DEFINE g == FileOf(ks, m, ts, a, x, y)
           g1 == [g EXCEPT !.left[1] = @ - 1]
           k2 == Append(ks, key)
           m2 == With(m, key, v)
           g2 == [g1 EXCEPT !.keys = k2]
           g3 == [g2 EXCEPT !.kv = m2]
           left == <<x - 1, y>>
<1>1. g1 = [keys |-> ks, kv |-> m, tensors |-> ts, alignment |-> a, dataOffset |-> 0, left |-> left]
  BY DEF FileOf
<1> HIDE DEF g1, left, k2, m2
<1>2. g2 = [keys |-> k2, kv |-> m, tensors |-> ts, alignment |-> a, dataOffset |-> 0, left |-> left]
  BY <1>1
<1> HIDE DEF g2
<1>3. g3 = [keys |-> k2, kv |-> m2, tensors |-> ts, alignment |-> a, dataOffset |-> 0, left |-> left]
  BY <1>2
<1>4. g.keys = ks /\ g.kv = m
  BY DEF FileOf
<1>5. Append(g.keys, key) = k2 /\ With(g.kv, key, v) = m2
  BY <1>4, Zenon DEF k2, m2
<1> USE DEF g1, g2
<1> HIDE DEF g
<1>6. WithKey(g, key, v) = [g EXCEPT !.left[1] = @ - 1, !.keys = k2, !.kv = m2]
  BY <1>5, Zenon DEF WithKey
<1>7. WithKey(g, key, v) = g3
  BY <1>6
<1> QED BY <1>3, <1>7 DEF g, k2, m2, left, FileOf

\* With a tensor.
LEMMA TensorTaken ==
  ASSUME NEW ks, NEW m, NEW ts, NEW a, NEW x, NEW y \in Int, NEW t
  PROVE  WithTensor(FileOf(ks, m, ts, a, x, y), t) = FileOf(ks, m, Append(ts, t), a, x, y - 1)
<1> DEFINE g == FileOf(ks, m, ts, a, x, y)
           g1 == [g EXCEPT !.left[2] = @ - 1]
           t2 == Append(ts, t)
           g2 == [g1 EXCEPT !.tensors = t2]
           left == <<x, y - 1>>
<1>1. g1 = [keys |-> ks, kv |-> m, tensors |-> ts, alignment |-> a, dataOffset |-> 0, left |-> left]
  BY DEF FileOf
<1> HIDE DEF g1, left, t2
<1>2. g2 = [keys |-> ks, kv |-> m, tensors |-> t2, alignment |-> a, dataOffset |-> 0, left |-> left]
  BY <1>1
<1>3. g.tensors = ts
  BY DEF FileOf
<1>4. Append(g.tensors, t) = t2
  BY <1>3, Zenon DEF t2
<1> USE DEF g1
<1> HIDE DEF g
<1>5. WithTensor(g, t) = [g EXCEPT !.left[2] = @ - 1, !.tensors = t2]
  BY <1>4, Zenon DEF WithTensor
<1>6. WithTensor(g, t) = g2
  BY <1>5
<1> QED BY <1>2, <1>6 DEF g, t2, left, FileOf

\* A key and its value.
LEMMA KeyStep ==
  ASSUME Inv, Regular, ParseKV
  PROVE  Inv'
<1> DEFINE key == ReadStr(r)
           v   == ReadValue(key)
           n   == Len(keys)
           m   == Len(tensors)
<1>1. /\ stage = "kv" /\ f.left[1] > 0 /\ UNCHANGED <<writerVars, file>>
      /\ v[1].err => stage' = "rejected"
      /\ ~v[1].err => /\ stage' = "kv" /\ r' = v[1]
                      /\ f' = [f EXCEPT !.left[1] = @ - 1, !.keys = Append(@, key.val), !.kv = With(@, key.val, v[2])]
  BY DEF ParseKV, Reject
<1>2. Written /\ Begins(Layout)
  BY <1>1, ParseAssumes
<1>3. n \in Nat /\ m \in Nat
  BY <1>2 DEF Written
<1>4. PICK i \in 0 .. n : AfterKeys(i)
  BY <1>1 DEF Inv, ReaderInv
<1> DEFINE j == i + 1
           x == keys[j]
           ks == f.keys
           pairs == f.kv
<1>5. r \in Readers /\ ~r.err /\ r.pos = KeyAt(i)
  BY <1>4 DEF AfterKeys
<1>6. f = [keys |-> ks, kv |-> pairs, tensors |-> <<>>, alignment |-> DefaultAlignment, dataOffset |-> 0, left |-> <<n - i, m>>]
  BY <1>4 DEF AfterKeys
<1>7. ks \in Seq(Seq(Byte)) /\ Len(ks) = i /\ \A l \in 1 .. i : ks[l] = keys[l]
  BY <1>4 DEF AfterKeys
<1>8. DOMAIN pairs = {keys[l] : l \in 1 .. i} /\ pairs = [z \in DOMAIN pairs |-> kv[z]]
  BY <1>4 DEF AfterKeys
<1>9. f.left[1] = n - i
  BY <1>6
<1>10. i \in Nat /\ j \in 1 .. n /\ j - 1 = i /\ j \in 0 .. n /\ n - i \in Int /\ (n - i) - 1 = n - j
  BY <1>1, <1>3, <1>9
<1>11. /\ v[1] \in Readers
       /\ ~v[1].err => v[1].pos = KeyAt(j) /\ key.val = x /\ v[2] = kv[x]
       /\ file = Layout => ~v[1].err
  <2> HIDE DEF j
  <2>1. r.pos = KeyAt(j - 1)
    BY <1>5, <1>10
  <2> QED BY <1>2, <1>5, <1>10, <2>1, KeyRead
<1> HIDE DEF key, v, n, m
<1>12. CASE v[1].err
  <2>1. stage' = "rejected" /\ file # Layout
    BY <1>1, <1>11, <1>12
  <2>2. stage # "build" /\ stage' \in {"kv", "tensors", "parsed", "rejected"} /\ stage' \notin {"kv", "tensors", "parsed"}
    BY <1>1, <2>1
  <2> QED BY <1>1, <2>1, <2>2, ParseKeeps
<1>13. CASE ~v[1].err
  <2> DEFINE ks2 == Append(ks, x)
             pairs2 == With(pairs, x, kv[x])
  <2>1. stage' = "kv" /\ r' = v[1] /\ key.val = x /\ v[2] = kv[x] /\ r'.pos = KeyAt(j) /\ r' \in Readers /\ ~r'.err
    BY <1>1, <1>11, <1>13
  <2>2. f' = [f EXCEPT !.left[1] = @ - 1, !.keys = Append(@, x), !.kv = With(@, x, kv[x])]
    BY <1>1, <1>13, <2>1
  <2> HIDE DEF j, x, ks, pairs
  <2> DEFINE n1 == n - i
  <2>3. f' = [keys |-> ks2, kv |-> pairs2, tensors |-> <<>>, alignment |-> DefaultAlignment, dataOffset |-> 0, left |-> <<n - j, m>>]
    <3> DEFINE y == kv[x]
    <3>1. n1 \in Int /\ n1 - 1 = n - j
      BY <1>10
    <3>2. f = FileOf(ks, pairs, <<>>, DefaultAlignment, n1, m)
      BY <1>6 DEF FileOf
    <3>3. f' = WithKey(f, x, y)
      BY <2>2 DEF WithKey
    <3> HIDE DEF n1, y
    <3>4. WithKey(FileOf(ks, pairs, <<>>, DefaultAlignment, n1, m), x, y)
           = FileOf(Append(ks, x), With(pairs, x, y), <<>>, DefaultAlignment, n1 - 1, m)
      BY <3>1, KeyTaken
    <3>5. f' = FileOf(ks2, pairs2, <<>>, DefaultAlignment, n - j, m)
      BY <3>1, <3>2, <3>3, <3>4 DEF y
    <3> QED BY <3>5 DEF FileOf
  <2>4. x \in Seq(Byte)
    BY <1>2, <1>10 DEF Written, x, n
  <2>5. ks2 \in Seq(Seq(Byte)) /\ Len(ks2) = i + 1 /\ (\A l \in 1 .. i : ks2[l] = ks[l]) /\ ks2[i + 1] = x
    BY <1>7, <2>4, AppendProperties
  <2> HIDE DEF ks2
  <2>6. ks2 \in Seq(Seq(Byte)) /\ Len(ks2) = j /\ \A l \in 1 .. j : ks2[l] = keys[l]
    <3>1. ks2 \in Seq(Seq(Byte)) /\ Len(ks2) = j /\ ks2[j] = keys[j]
      BY <2>5 DEF j, x
    <3>2. 1 .. j = (1 .. i) \cup {j}
      BY <1>10
    <3>3. \A l \in 1 .. i : ks2[l] = keys[l]
      BY <1>7, <2>5
    <3>4. \A l \in 1 .. j : ks2[l] = keys[l]
      BY <3>1, <3>2, <3>3
    <3> QED BY <3>1, <3>4
  <2>7. DOMAIN pairs2 = {keys[l] : l \in 1 .. j} /\ pairs2 = [z \in DOMAIN pairs2 |-> kv[z]]
    <3> DEFINE D == DOMAIN pairs \cup {x}
    <3>1. pairs2 = [z \in D |-> IF z = x THEN kv[x] ELSE pairs[z]]
      BY DEF With
    <3>2. \A z \in DOMAIN pairs : pairs[z] = kv[z]
      BY <1>8
    <3> HIDE DEF pairs2
    <3>3. DOMAIN pairs2 = D
      BY <3>1
    <3>4. \A z \in D : (IF z = x THEN kv[x] ELSE pairs[z]) = kv[z]
      BY <3>2
    <3>5. pairs2 = [z \in D |-> kv[z]]
      BY <3>1, <3>4
    <3>6. 1 .. j = (1 .. i) \cup {j}
      BY <1>10
    <3>7. D = {keys[l] : l \in 1 .. j}
      BY <1>8, <3>6 DEF x
    <3> HIDE DEF D
    <3> QED BY <3>3, <3>5, <3>7, Zenon
  <2> HIDE DEF pairs2
  <2>8. AfterKeys(j)'
    <3>1. keys' = keys /\ tensors' = tensors /\ kv' = kv /\ KeyAt(j)' = KeyAt(j)
      BY <1>1, Still DEF writerVars
    <3>2. r' \in Readers /\ ~r'.err /\ r'.pos = KeyAt(j)'
      BY <2>1, <3>1
    <3>3. f'.keys = ks2 /\ f'.kv = pairs2
      BY <2>3
    <3>4. f' = [keys |-> f'.keys, kv |-> f'.kv, tensors |-> <<>>, alignment |-> DefaultAlignment, dataOffset |-> 0,
                left |-> <<Len(keys') - j, Len(tensors')>>]
      BY <2>3, <3>1, <3>3 DEF n, m
    <3>5. f'.keys \in Seq(Seq(Byte)) /\ Len(f'.keys) = j /\ \A l \in 1 .. j : f'.keys[l] = keys'[l]
      BY <2>6, <3>1, <3>3
    <3>6. DOMAIN f'.kv = {keys'[l] : l \in 1 .. j} /\ f'.kv = [z \in DOMAIN f'.kv |-> kv'[z]]
      BY <2>7, <3>1, <3>3, Zenon
    <3> QED BY <3>2, <3>4, <3>5, <3>6 DEF AfterKeys
  <2>9. j \in 0 .. Len(keys)
    BY <1>10 DEF n
  <2>10. stage # "build" /\ stage' \in {"kv", "tensors", "parsed", "rejected"} /\ stage' \notin {"rejected", "tensors", "parsed"}
    BY <1>1, <2>1
  <2> QED BY <1>1, <2>8, <2>9, <2>10, ParseKeeps
<1> QED BY <1>12, <1>13

\* After the last key the keys and the values are the Writer's.
LEMMA AllKeys ==
  ASSUME Gathered, AfterKeys(Len(keys))
  PROVE  f.keys = keys /\ f.kv = kv
<1> DEFINE n == Len(keys)
           ks == f.keys
           pairs == f.kv
           S == Seq(Byte)
<1>1. ks \in Seq(S) /\ Len(ks) = n /\ \A l \in 1 .. n : ks[l] = keys[l]
  BY DEF AfterKeys
<1>2. DOMAIN pairs = {keys[l] : l \in 1 .. n} /\ pairs = [z \in DOMAIN pairs |-> kv[z]]
  BY DEF AfterKeys
<1>3. keys \in Seq(S) /\ DOMAIN kv = {keys[l] : l \in 1 .. n} /\ kv = [z \in DOMAIN kv |-> kv[z]]
  BY DEF Gathered
<1> HIDE DEF ks, pairs, S
<1>4. ks = keys
  BY <1>1, <1>3, SeqEqual
<1>5. pairs = kv
  <2>1. DOMAIN pairs = DOMAIN kv
    BY <1>2, <1>3
  <2> QED BY <1>2, <1>3, <2>1, Zenon
<1> QED BY <1>4, <1>5 DEF ks, pairs

\* The alignment, once all keys are read.
LEMMA AlignmentStep ==
  ASSUME Inv, Regular, ParseAlignment
  PROVE  Inv'
<1> DEFINE a == AlignmentOf(f.kv)
           n == Len(keys)
           m == Len(tensors)
           bad == a = 0 \/ And(a, a - 1) # 0
<1>1. /\ stage = "kv" /\ f.left[1] = 0 /\ UNCHANGED <<writerVars, file>>
      /\ bad => stage' = "rejected"
      /\ ~bad => stage' = "tensors" /\ f' = [f EXCEPT !.alignment = a] /\ r' = r
  BY DEF ParseAlignment, Reject, AlignmentOf
<1>2. Gathered /\ Written /\ Begins(Layout)
  BY <1>1, ParseAssumes
<1>3. n \in Nat /\ m \in Nat /\ alignment \in 1 .. 255
  BY <1>2 DEF Written
<1>4. AfterKeys(n)
  <2>1. PICK i \in 0 .. n : AfterKeys(i)
    BY <1>1 DEF Inv, ReaderInv
  <2>2. f.left = <<n - i, m>>
    BY <2>1 DEF AfterKeys
  <2>3. n - i = 0
    BY <1>1, <2>2
  <2>4. i = n
    BY <1>3, <2>3
  <2> QED BY <2>1, <2>4
<1>5. f.keys = keys /\ f.kv = kv
  BY <1>2, <1>4, AllKeys
<1>6. a = alignment
  BY <1>2, <1>5 DEF Gathered
<1>7. bad <=> alignment \notin Powers
  <2>1. a \in 1 .. 255 /\ a # 0
    BY <1>3, <1>6
  <2>2. And(a, a - 1) = 0 <=> a \in Powers
    <3> HIDE DEF a
    <3> QED BY <2>1, PowerTest
  <2> QED BY <1>6, <2>1, <2>2
<1> HIDE DEF bad
<1>8. CASE bad
  <2>1. stage' = "rejected" /\ ~Acceptable
    BY <1>1, <1>7, <1>8 DEF Acceptable, Powers
  <2>2. stage # "build" /\ stage' \in {"kv", "tensors", "parsed", "rejected"} /\ stage' \notin {"kv", "tensors", "parsed"}
    BY <1>1, <2>1
  <2> QED BY <1>1, <2>1, <2>2, ParseKeeps
<1>9. CASE ~bad
  <2>1. stage' = "tensors" /\ f' = [f EXCEPT !.alignment = alignment] /\ r' = r
    BY <1>1, <1>6, <1>9
  <2>2. r \in Readers /\ ~r.err /\ r.pos = InfoAt(0)
    <3>1. r \in Readers /\ ~r.err /\ r.pos = KeyAt(n)
      BY <1>4 DEF AfterKeys
    <3>2. InfoAt(0) = KeyAt(n)
      BY <1>2, InfosAre
    <3> QED BY <3>1, <3>2
  <2> DEFINE left == <<n - n, m>>
             none == [k \in 1 .. 0 |-> Entry(k)]
  <2>3. left = <<0, m - 0>>
    BY <1>3
  <2>4. none = <<>>
    OBVIOUS
  <2> HIDE DEF left, none
  <2>5. f = [keys |-> keys, kv |-> kv, tensors |-> <<>>, alignment |-> DefaultAlignment, dataOffset |-> 0, left |-> left]
    <3>1. f = [keys |-> f.keys, kv |-> f.kv, tensors |-> <<>>, alignment |-> DefaultAlignment, dataOffset |-> 0, left |-> <<n - n, m>>]
      BY <1>4 DEF AfterKeys
    <3> QED BY <1>5, <3>1, Zenon DEF left
  <2>6. f' = [keys |-> keys, kv |-> kv, tensors |-> <<>>, alignment |-> alignment, dataOffset |-> 0, left |-> left]
    BY <2>1, <2>5
  <2>7. f' = FileUpTo(0, 0)
    <3>1. FileUpTo(0, 0) = [keys |-> keys, kv |-> kv, tensors |-> none, alignment |-> alignment, dataOffset |-> 0, left |-> left]
      BY <2>3, Zenon DEF FileUpTo, none
    <3> QED BY <2>4, <2>6, <3>1
  <2>8. AcceptableUpTo(0)
    <3>1. alignment \in Powers
      BY <1>7, <1>9
    <3>2. 1 .. 0 = {}
      OBVIOUS
    <3> QED BY <3>1, <3>2 DEF AcceptableUpTo
  <2>9. AfterTensors(0)'
    <3>1. InfoAt(0)' = InfoAt(0) /\ FileUpTo(0, 0)' = FileUpTo(0, 0) /\ AcceptableUpTo(0)' = AcceptableUpTo(0)
      BY <1>1, Still
    <3> QED BY <2>1, <2>2, <2>7, <2>8, <3>1 DEF AfterTensors
  <2>10. 0 \in 0 .. Len(tensors)
    BY <1>3
  <2>11. stage # "build" /\ stage' \in {"kv", "tensors", "parsed", "rejected"} /\ stage' \notin {"rejected", "kv", "parsed"}
    BY <1>1, <2>1
  <2>12. tensors' = tensors
    BY <1>1 DEF writerVars
  <2> QED BY <1>1, <2>9, <2>10, <2>11, ParseKeeps
<1> QED BY <1>8, <1>9

\* What one more tensor needs.
LEMMA AcceptableNext ==
  ASSUME NEW i \in Nat, AcceptableUpTo(i), Len(tensors[i + 1].dims) <= 4,
         \A k \in 1 .. i : tensors[k].name # tensors[i + 1].name
  PROVE  AcceptableUpTo(i + 1)
<1>1. 1 .. i + 1 = (1 .. i) \cup {i + 1} /\ i + 1 \notin 1 .. i
  OBVIOUS
<1> DEFINE j == i + 1
<1> HIDE DEF j
<1>2. ASSUME NEW k \in 1 .. j, NEW l \in 1 .. j
      PROVE  Len(tensors[k].dims) <= 4 /\ (k # l => tensors[k].name # tensors[l].name)
  <2>1. CASE k \in 1 .. i /\ l \in 1 .. i
    BY <2>1 DEF AcceptableUpTo
  <2>2. CASE k = j
    BY <1>1, <2>2 DEF j
  <2>3. CASE k \in 1 .. i /\ l = j
    <3>1. Len(tensors[k].dims) <= 4
      BY <2>3 DEF AcceptableUpTo
    <3> QED BY <2>3, <3>1 DEF j
  <2> QED BY <1>1, <2>1, <2>2, <2>3 DEF j
<1>3. alignment \in Powers
  BY DEF AcceptableUpTo
<1> QED BY <1>2, <1>3 DEF AcceptableUpTo, j

\* The dimensions that are read are the tensor's.
LEMMA DimsBack ==
  ASSUME NEW dims \in Seq(1 .. 255), NEW xs, xs = DimItems(dims)
  PROVE  [d \in DOMAIN xs |-> xs[d][1]] = dims
<1> DEFINE n == Len(dims)
           R == 1 .. 255
<1>1. dims \in Seq(R)
  OBVIOUS
<1> HIDE DEF R
<1>2. n \in Nat /\ dims = [d \in 1 .. n |-> dims[d]]
  BY <1>1
<1>3. xs = [d \in 1 .. n |-> <<dims[d]>>]
  BY DEF DimItems
<1> HIDE DEF n
<1>4. DOMAIN xs = 1 .. n /\ \A d \in 1 .. n : xs[d][1] = dims[d]
  BY <1>3
<1>5. [d \in DOMAIN xs |-> xs[d][1]] = [d \in 1 .. n |-> dims[d]]
  BY <1>4
<1> QED BY <1>2, <1>5

\* The entries with one more.
LEMMA EntriesNext ==
  ASSUME NEW i \in Nat, NEW e, e = Entry(i + 1)
  PROVE  Append([k \in 1 .. i |-> Entry(k)], e) = [k \in 1 .. i + 1 |-> Entry(k)]
<1> DEFINE j == i + 1
           ts == [k \in 1 .. i |-> Entry(k)]
           S  == {Entry(k) : k \in 1 .. j}
           us == [k \in 1 .. j |-> Entry(k)]
<1>1. j \in Nat /\ 1 .. i \subseteq 1 .. j /\ j \in 1 .. j /\ 1 .. j = (1 .. i) \cup {j} /\ e = Entry(j)
  OBVIOUS
<1> HIDE DEF j
<1>2. ts \in [1 .. i -> S] /\ us \in [1 .. j -> S] /\ e \in S
  BY <1>1
<1>3. (\A k \in 1 .. i : ts[k] = Entry(k)) /\ \A k \in 1 .. j : us[k] = Entry(k)
  OBVIOUS
<1> HIDE DEF ts, us, S
<1>4. ts \in Seq(S) /\ Len(ts) = i /\ us \in Seq(S) /\ Len(us) = j
  BY <1>1, <1>2, LenProperties
<1>5. Append(ts, e) \in Seq(S) /\ Len(Append(ts, e)) = i + 1 /\ (\A k \in 1 .. i : Append(ts, e)[k] = ts[k]) /\ Append(ts, e)[i + 1] = e
  BY <1>2, <1>4, AppendProperties
<1> DEFINE vs == Append(ts, e)
<1> HIDE DEF vs
<1>6. vs \in Seq(S) /\ Len(vs) = j /\ (\A k \in 1 .. i : vs[k] = ts[k]) /\ vs[j] = e
  BY <1>5 DEF vs, j
<1>7. \A k \in 1 .. j : vs[k] = us[k]
  <2> TAKE k \in 1 .. j
  <2>1. CASE k \in 1 .. i
    BY <1>3, <1>6, <2>1
  <2>2. CASE k = j
    BY <1>1, <1>3, <1>6, <2>2
  <2> QED BY <1>1, <2>1, <2>2
<1>8. vs = us
  BY <1>4, <1>6, <1>7, SeqEqual
<1> QED BY <1>8 DEF vs, us, ts, j

\* What Parse makes of one tensor, and why it refuses one.
LEMMA EntryTaken ==
  ASSUME Written, Begins(Layout), NEW i \in Nat, i + 1 \in 1 .. Len(tensors), AfterTensors(i)
  PROVE  LET name == ReadStr(r)
             nd   == Read(name, 4)
             dims == ReadMany(nd, nd.val[1], U64)
             type == Read(dims[1], 4)
             off  == Read(type, 8)
             t    == [name |-> name.val, dims |-> [d \in DOMAIN dims[2] |-> dims[2][d][1]],
                      type |-> type.val[1], offset |-> off.val[1]]
             bad  == nd.val[1] > 4 \/ off.err \/ t.type \notin DOMAIN TypeInfos \/ \E u \in Range(f.tensors) : u.name = t.name
         IN  /\ bad /\ file = Layout => ~AcceptableUpTo(Len(tensors))
             /\ ~bad => /\ off \in Readers /\ ~off.err /\ off.pos = InfoAt(i + 1) /\ t = Entry(i + 1)
                        /\ AcceptableUpTo(i + 1)
<1> DEFINE j == i + 1
           name == ReadStr(r)
           nd   == Read(name, 4)
           dims == ReadMany(nd, nd.val[1], U64)
           type == Read(dims[1], 4)
           off  == Read(type, 8)
           t    == [name |-> name.val, dims |-> [d \in DOMAIN dims[2] |-> dims[2][d][1]],
                    type |-> type.val[1], offset |-> off.val[1]]
           T    == tensors[j]
           n    == Len(T.dims)
           known == \E u \in Range(f.tensors) : u.name = t.name
           bad  == nd.val[1] > 4 \/ off.err \/ t.type \notin DOMAIN TypeInfos \/ known
<1>1. j \in 1 .. Len(tensors) /\ j - 1 = i /\ Len(tensors) \in Nat
  BY DEF Written
<1>2. r \in Readers /\ ~r.err /\ r.pos = InfoAt(i) /\ f = FileUpTo(i, 0) /\ AcceptableUpTo(i)
  BY DEF AfterTensors
<1>3. /\ off \in Readers
      /\ nd.val[1] = 0 \/ nd.val[1] = n
      /\ ~off.err => /\ off.pos = InfoAt(j) /\ name.val = T.name /\ dims[2] = DimItems(T.dims)
                     /\ type.val[1] = T.type /\ off.val[1] = Offsets[j] /\ nd.val[1] = n
      /\ file = Layout => ~off.err
  <2> HIDE DEF j
  <2>1. r.pos = InfoAt(j - 1)
    BY <1>1, <1>2
  <2> QED BY <1>1, <1>2, <2>1, TensorRead
<1>4. T \in GoodTensors
  BY <1>1 DEF Written
<1>5. T.dims \in Seq(1 .. 255) /\ n \in Nat /\ T.type \in DOMAIN TypeInfos
  <2> HIDE DEF T
  <2> QED BY <1>4, TensorIs
<1> HIDE DEF name, nd, dims, type, off
<1>6. ~off.err => t = Entry(j)
  <2> SUFFICES ASSUME ~off.err PROVE t = Entry(j)
    OBVIOUS
  <2> DEFINE xs == dims[2]
             back == [d \in DOMAIN xs |-> xs[d][1]]
  <2>1. name.val = T.name /\ xs = DimItems(T.dims) /\ type.val[1] = T.type /\ off.val[1] = Offsets[j]
    BY <1>3
  <2>2. T.dims \in Seq(1 .. 255)
    BY <1>5
  <2> HIDE DEF xs, T
  <2>3. back = T.dims
    BY <2>1, <2>2, DimsBack
  <2> HIDE DEF back
  <2>4. t = [name |-> T.name, dims |-> T.dims, type |-> T.type, offset |-> Offsets[j]]
    BY <2>1, <2>3 DEF back, xs
  <2> QED BY <2>4 DEF Entry, T
<1>7. Range(f.tensors) = {Entry(k) : k \in 1 .. i}
  <2>1. f.tensors = [k \in 1 .. i |-> Entry(k)]
    BY <1>2 DEF FileUpTo
  <2> HIDE DEF T, t
  <2> QED BY <2>1 DEF Range
<1>8. ~off.err => (known <=> \E k \in 1 .. i : tensors[k].name = T.name) /\ t.type = T.type
  <2> SUFFICES ASSUME ~off.err PROVE (known <=> \E k \in 1 .. i : tensors[k].name = T.name) /\ t.type = T.type
    OBVIOUS
  <2>1. t = Entry(j)
    BY <1>6
  <2> HIDE DEF t
  <2>2. t.name = T.name /\ t.type = T.type
    BY <2>1 DEF Entry
  <2>3. \A k \in 1 .. i : Entry(k).name = tensors[k].name
    BY DEF Entry
  <2> HIDE DEF T
  <2> QED BY <1>7, <2>2, <2>3
<1> HIDE DEF known, t, T
<1>9. ASSUME bad, file = Layout PROVE ~AcceptableUpTo(Len(tensors))
  <2>1. ~off.err /\ nd.val[1] = n /\ t.type = T.type /\ (known <=> \E k \in 1 .. i : tensors[k].name = T.name)
    BY <1>3, <1>8, <1>9
  <2>2. n > 4 \/ \E k \in 1 .. i : tensors[k].name = T.name
    BY <1>5, <1>9, <2>1
  <2>3. \A k \in 1 .. i : k \in 1 .. Len(tensors) /\ k # j
    BY <1>1
  <2>4. CASE n > 4
    BY <1>1, <1>5, <2>4 DEF AcceptableUpTo, T
  <2>5. CASE \E k \in 1 .. i : tensors[k].name = T.name
    BY <1>1, <2>3, <2>5 DEF AcceptableUpTo, T
  <2> QED BY <2>2, <2>4, <2>5
<1>10. ASSUME ~bad PROVE /\ off \in Readers /\ ~off.err /\ off.pos = InfoAt(j) /\ t = Entry(j) /\ AcceptableUpTo(j)
  <2>1. ~off.err /\ ~(nd.val[1] > 4) /\ ~known
    BY <1>10
  <2>2. n <= 4 /\ \A k \in 1 .. i : tensors[k].name # T.name
    BY <1>3, <1>5, <1>8, <2>1
  <2>3. AcceptableUpTo(i + 1)
    BY <1>2, <2>2, AcceptableNext DEF T
  <2> QED BY <1>3, <1>6, <2>1, <2>3
<1> QED BY <1>9, <1>10 DEF bad, known, t, name, nd, dims, type, off

\* A tensor's entry.
LEMMA TensorStep ==
  ASSUME Inv, Regular, ParseTensor
  PROVE  Inv'
<1> DEFINE name == ReadStr(r)
           nd   == Read(name, 4)
           dims == ReadMany(nd, nd.val[1], U64)
           type == Read(dims[1], 4)
           off  == Read(type, 8)
           t    == [name |-> name.val, dims |-> [d \in DOMAIN dims[2] |-> dims[2][d][1]],
                    type |-> type.val[1], offset |-> off.val[1]]
           bad  == nd.val[1] > 4 \/ off.err \/ t.type \notin DOMAIN TypeInfos \/ \E u \in Range(f.tensors) : u.name = t.name
           m    == Len(tensors)
<1>1. /\ stage = "tensors" /\ f.left[2] > 0 /\ UNCHANGED <<writerVars, file>>
      /\ bad => stage' = "rejected"
      /\ ~bad => stage' = "tensors" /\ r' = off /\ f' = WithTensor(f, t)
  BY DEF ParseTensor, Reject, WithTensor
<1>2. Gathered /\ Written /\ Begins(Layout)
  BY <1>1, ParseAssumes
<1>3. m \in Nat
  BY <1>2 DEF Written
<1>4. PICK i \in 0 .. m : AfterTensors(i)
  BY <1>1 DEF Inv, ReaderInv
<1>5. f = FileUpTo(i, 0)
  BY <1>4 DEF AfterTensors
<1> DEFINE j == i + 1
<1>6. i \in Nat /\ j \in 1 .. m /\ j \in 0 .. m /\ m - i \in Int /\ (m - i) - 1 = m - j
  <2>1. f.left = <<0, m - i>>
    BY <1>5 DEF FileUpTo
  <2>2. m - i > 0
    BY <1>1, <2>1
  <2> QED BY <1>3, <2>2
<1>7. /\ bad /\ file = Layout => ~AcceptableUpTo(m)
      /\ ~bad => off \in Readers /\ ~off.err /\ off.pos = InfoAt(j) /\ t = Entry(j) /\ AcceptableUpTo(j)
  BY <1>2, <1>4, <1>6, EntryTaken
<1> HIDE DEF bad, off, t
<1>8. CASE bad
  <2>1. stage' = "rejected" /\ (file = Layout => ~Acceptable)
    BY <1>1, <1>2, <1>7, <1>8, AcceptableIs
  <2>2. stage # "build" /\ stage' \in {"kv", "tensors", "parsed", "rejected"} /\ stage' \notin {"kv", "tensors", "parsed"}
    BY <1>1, <2>1
  <2> QED BY <1>1, <2>1, <2>2, ParseKeeps
<1>9. CASE ~bad
  <2>1. stage' = "tensors" /\ r' \in Readers /\ ~r'.err /\ r'.pos = InfoAt(j) /\ t = Entry(j) /\ AcceptableUpTo(j)
    BY <1>1, <1>7, <1>9
  <2> DEFINE n1 == m - i
             e == Entry(j)
             ts == [k \in 1 .. i |-> Entry(k)]
  <2>2. f = FileOf(keys, kv, ts, alignment, 0, n1)
    BY <1>5 DEF FileUpTo, FileOf
  <2>3. f' = WithTensor(f, e)
    BY <1>1, <1>9, <2>1
  <2>4. n1 \in Int /\ n1 - 1 = m - j
    BY <1>6
  <2>5. Append(ts, e) = [k \in 1 .. j |-> Entry(k)]
    BY <1>6, EntriesNext
  <2> HIDE DEF n1, e, ts
  <2>6. WithTensor(FileOf(keys, kv, ts, alignment, 0, n1), e) = FileOf(keys, kv, Append(ts, e), alignment, 0, n1 - 1)
    BY <2>4, TensorTaken
  <2>7. f' = FileOf(keys, kv, [k \in 1 .. j |-> Entry(k)], alignment, 0, m - j)
    BY <2>2, <2>3, <2>4, <2>5, <2>6
  <2>8. f' = FileUpTo(j, 0)
    BY <2>7, Zenon DEF FileUpTo, FileOf
  <2> HIDE DEF j
  <2>9. InfoAt(j)' = InfoAt(j) /\ FileUpTo(j, 0)' = FileUpTo(j, 0) /\ AcceptableUpTo(j)' = AcceptableUpTo(j)
    BY <1>1, Still
  <2>10. AfterTensors(j)'
    BY <2>1, <2>8, <2>9 DEF AfterTensors
  <2>11. stage # "build" /\ stage' \in {"kv", "tensors", "parsed", "rejected"} /\ stage' \notin {"rejected", "kv", "parsed"}
    BY <1>1, <2>1
  <2>12. tensors' = tensors
    BY <1>1 DEF writerVars
  <2> QED BY <1>1, <1>6, <2>10, <2>11, ParseKeeps
<1> QED BY <1>8, <1>9

\* The data.
LEMMA DataStep ==
  ASSUME Inv, Regular, ParseData
  PROVE  Inv'
<1> DEFINE d == AlignUp(r.pos, f.alignment)
           m == Len(tensors)
           bad == r.err \/ \E t \in Range(f.tensors) : ~InRange(t, d)
<1>1. /\ stage = "tensors" /\ f.left[2] = 0 /\ UNCHANGED <<writerVars, file>>
      /\ bad => stage' = "rejected"
      /\ ~bad => stage' = "parsed" /\ f' = [f EXCEPT !.dataOffset = d]
  BY DEF ParseData, Reject
<1>2. Gathered /\ Written /\ Begins(Layout)
  BY <1>1, ParseAssumes
<1>3. m \in Nat
  BY <1>2 DEF Written
<1>4. AfterTensors(m)
  <2>1. PICK i \in 0 .. m : AfterTensors(i)
    BY <1>1 DEF Inv, ReaderInv
  <2>2. f.left = <<0, m - i>>
    BY <2>1 DEF AfterTensors, FileUpTo
  <2>3. m - i = 0
    BY <1>1, <2>2
  <2>4. i = m
    BY <1>3, <2>3
  <2> QED BY <2>1, <2>4
<1>5. ~r.err /\ r.pos = InfoAt(m) /\ f = FileUpTo(m, 0) /\ AcceptableUpTo(m)
  BY <1>4 DEF AfterTensors
<1>6. alignment \in Powers /\ f.alignment = alignment
  BY <1>5 DEF AcceptableUpTo, FileUpTo
<1>7. d = DataStart
  <2>1. Len(Header) = InfoAt(m)
    BY <1>2, HeaderIs
  <2>2. AlignUp(Len(Header), alignment) = DataStart
    BY <1>2, <1>6, DataStartIs
  <2> QED BY <1>5, <1>6, <2>1, <2>2
<1> HIDE DEF d
<1>8. Range(f.tensors) = {Entry(k) : k \in 1 .. m}
  <2>1. f.tensors = [k \in 1 .. m |-> Entry(k)]
    BY <1>5 DEF FileUpTo
  <2> QED BY <2>1 DEF Range
<1>9. ASSUME NEW k \in 1 .. m
      PROVE  /\ InRange(Entry(k), d) <=> DataStart + Offsets[k] + Len(tensors[k].data) <= Len(file)
             /\ file = Layout => DataStart + Offsets[k] + Len(tensors[k].data) <= Len(file)
  <2>1. Offsets[k] % alignment = 0
    BY <1>2, <1>6, OffsetsFit
  <2>2. /\ Len(tensors[k].data) = TensorBytes(tensors[k].type, tensors[k].dims)
        /\ file = Layout => DataStart + Offsets[k] + Len(tensors[k].data) <= Len(file)
    BY <1>2, <1>6, DataRead
  <2>3. Entry(k).offset = Offsets[k] /\ Entry(k).type = tensors[k].type /\ Entry(k).dims = tensors[k].dims
    BY DEF Entry
  <2>4. InRange(Entry(k), d) <=> Offsets[k] % alignment = 0 /\ DataStart + Offsets[k] + Len(tensors[k].data) <= Len(file)
    BY <1>6, <1>7, <2>2, <2>3 DEF InRange
  <2> QED BY <2>1, <2>2, <2>4
<1>10. bad <=> \E k \in 1 .. m : ~(DataStart + Offsets[k] + Len(tensors[k].data) <= Len(file))
  BY <1>5, <1>8, <1>9
<1> HIDE DEF bad
<1>11. CASE bad
  <2>1. stage' = "rejected" /\ file # Layout
    BY <1>1, <1>9, <1>10, <1>11
  <2>2. stage # "build" /\ stage' \in {"kv", "tensors", "parsed", "rejected"} /\ stage' \notin {"kv", "tensors", "parsed"}
    BY <1>1, <2>1
  <2> QED BY <1>1, <2>1, <2>2, ParseKeeps
<1>12. CASE ~bad
  <2>1. stage' = "parsed" /\ f' = [f EXCEPT !.dataOffset = DataStart]
    BY <1>1, <1>7, <1>12
  <2>2. f' = FileUpTo(m, DataStart)
    BY <1>5, <2>1 DEF FileUpTo
  <2>3. \A k \in 1 .. m : DataStart + Offsets[k] + Len(tensors[k].data) <= Len(file)
    BY <1>10, <1>12
  <2>4. /\ FileUpTo(m, DataStart)' = FileUpTo(m, DataStart) /\ AcceptableUpTo(m)' = AcceptableUpTo(m)
        /\ DataStart' = DataStart /\ Offsets' = Offsets /\ tensors' = tensors /\ file' = file
    <3>1. tensors' = tensors /\ file' = file /\ m' = m
      BY <1>1 DEF writerVars
    <3>2. DataStart' = DataStart /\ Offsets' = Offsets
      BY <1>1, Still
    <3>3. FileUpTo(m, DataStart)' = FileUpTo(m, DataStart)
      BY <3>1, <3>2, <1>1, Still
    <3>4. AcceptableUpTo(m)' = AcceptableUpTo(m)
      BY <3>1, <1>1, Still
    <3> QED BY <3>1, <3>2, <3>3, <3>4
  <2>5. Parsed'
    BY <1>5, <2>2, <2>3, <2>4 DEF Parsed
  <2>6. stage # "build" /\ stage' \in {"kv", "tensors", "parsed", "rejected"} /\ stage' \notin {"kv", "tensors", "rejected"}
    BY <1>1, <2>1
  <2> QED BY <1>1, <2>5, <2>6, ParseKeeps
<1> QED BY <1>11, <1>12

-----------------------------------------------------------------------------
(* The invariant, and what follows.                                         *)

\* What the disk keeps of a sequence is its beginning.
LEMMA CutIs ==
  ASSUME NEW s \in Seq(Nat), NEW n \in 0 .. Len(s)
  PROVE  /\ SubSeq(s, 1, n) \in Seq(Nat) /\ HoldsIn(s, 0, SubSeq(s, 1, n))
<1> DEFINE x == SubSeq(s, 1, n)
<1>1. n \in Int /\ 1 \in Int /\ Len(s) \in Nat /\ n <= Len(s) /\ n - 1 + 1 = n
  OBVIOUS
<1>2. \A j \in 1 .. n : s[j] \in Nat
  BY <1>1
<1>3. /\ x \in Seq(Nat) /\ Len(x) = (IF 1 <= n THEN n - 1 + 1 ELSE 0)
      /\ \A j \in 1 .. n - 1 + 1 : x[j] = s[1 + j - 1]
  BY <1>1, <1>2, SubSeqProperties
<1> HIDE DEF x
<1>4. Len(x) = n
  BY <1>1, <1>3
<1>5. ASSUME NEW j \in 1 .. n PROVE s[0 + j] = x[j]
  <2>1. 1 + j - 1 = j /\ 0 + j = j
    OBVIOUS
  <2>2. x[j] = s[1 + j - 1]
    BY <1>1, <1>3
  <2> QED BY <2>1, <2>2
<1>6. HoldsIn(s, 0, x)
  BY <1>1, <1>4, <1>5 DEF HoldsIn
<1> QED BY <1>3, <1>6 DEF x

\* A file that is not written yet has nothing to read.
LEMMA BuildKeeps ==
  ASSUME Inv, stage = "build", stage' = "build", UNCHANGED <<r, f>>, panicked' = "no" => Gathered'
  PROVE  Inv'
<1>1. ReaderStart'
  BY DEF Inv, ReaderStart
<1> QED BY <1>1 DEF Inv, WriterInv, ReaderInv

\* Nothing stops the writer of regular values.
LEMMA ReachIs ==
  ASSUME Gathered, Regular
  PROVE  Reach = Len(Layout)
<1>1. ASSUME NEW x \in DOMAIN kv PROVE Unlisted(kv[x]) = 0
  <2> DEFINE v == kv[x]
  <2>1. \A k \in DOMAIN v.items : v.items[k].type \in ItemTypes
    BY DEF Regular
  <2>2. v.items \in Seq(Items)
    BY DEF Gathered, IsGiven
  <2> HIDE DEF v
  <2>3. DOMAIN v.items = 1 .. Len(v.items)
    BY <2>2
  <2>4. ~\E k \in 1 .. Len(v.items) : v.items[k].type \notin ItemTypes
    BY <2>1, <2>3
  <2>5. Unlisted(v) = 0
    BY <2>4 DEF Unlisted, SelectInSeq
  <2> QED BY <2>5 DEF v
<1>2. \A k \in 1 .. Len(keys) : Unlisted(kv[keys[k]]) = 0
  BY <1>1 DEF Gathered
<1>3. SelectInSeq(keys, LAMBDA key : Unlisted(kv[key]) # 0) = 0
  BY <1>2 DEF SelectInSeq
<1> QED BY <1>3 DEF Reach

\* WriteTo, and what the disk keeps of it.
LEMMA WriteStep ==
  ASSUME Inv, WriteFile
  PROVE  Inv'
<1>1. stage = "build" /\ panicked = "no" /\ UNCHANGED <<keys, kv, tensors, alignment, sets, r, f>>
  BY DEF WriteFile
<1>2. Gathered
  BY <1>1 DEF Inv, WriterInv
<1>3. CASE alignment = 0 \/ Mistyped
  <2>1. stage' = "build" /\ panicked' # "no"
    BY <1>1, <1>3 DEF WriteFile
  <2> QED BY <1>1, <2>1, BuildKeeps
<1>4. CASE alignment # 0 /\ ~Mistyped
  <2>1. (\E n \in 0 .. Reach : file' = SubSeq(Layout, 1, n)) /\ stage' = "header" /\ panicked' = panicked
    BY <1>4 DEF WriteFile
  <2>2. UNCHANGED writerVars
    BY <1>1, <2>1 DEF writerVars
  <2>3. Layout' = Layout /\ Gathered' = Gathered /\ Mistyped' = Mistyped /\ Regular' = Regular
    BY <2>2, Still
  <2>4. WriterInv'
    BY <1>1, <1>2, <1>4, <2>1, <2>3 DEF WriterInv
  <2>5. ReaderStart'
    BY <1>1 DEF Inv, ReaderStart
  <2>6. ASSUME Regular PROVE Begins(Layout)'
    <3> DEFINE L == Layout
    <3>1. L \in Seq(Nat) /\ L' = L
      BY <1>2, <1>4, <2>3, <2>6, GatheredWritten, LayoutIs
    <3>2. Reach = Len(L)
      BY <1>2, <2>6, ReachIs
    <3>3. PICK n \in 0 .. Len(L) : file' = SubSeq(L, 1, n)
      BY <2>1, <3>2
    <3> HIDE DEF L
    <3>4. file' \in Seq(Nat) /\ HoldsIn(L, 0, file')
      BY <3>1, <3>3, CutIs
    <3>5. L' \in Seq(Nat) /\ HoldsIn(L', 0, file')
      BY <3>1, <3>4
    <3> QED BY <3>4, <3>5 DEF Begins, L
  <2>7. Regular => ReaderInv'
    BY <2>1, <2>5, <2>6 DEF ReaderInv
  <2> QED BY <2>1, <2>3, <2>4, <2>7 DEF Inv
<1> QED BY <1>3, <1>4

\* The Writer starts with nothing.
LEMMA InitInv == Init => Inv
<1> SUFFICES ASSUME Init PROVE Inv
  OBVIOUS
<1>1. /\ keys = <<>> /\ kv = <<>> /\ tensors = <<>> /\ alignment = 32 /\ panicked = "no" /\ stage = "build"
      /\ ReaderStart
  BY DEF Init, ReaderStart, DefaultAlignment
<1>2. DOMAIN kv = {} /\ Len(keys) = 0 /\ 1 .. 0 = {} /\ kv = [x \in DOMAIN kv |-> kv[x]]
  BY <1>1
<1>3. keys \in Seq(Seq(Byte)) /\ tensors \in Seq(GoodTensors)
  BY <1>1, EmptySeq
<1>4. alignment = AlignmentOf(kv) /\ alignment \in Byte
  BY <1>1, <1>2 DEF AlignmentOf, DefaultAlignment, Byte
<1>5. Gathered
  BY <1>2, <1>3, <1>4 DEF Gathered
<1>6. WriterInv /\ ReaderInv
  BY <1>1, <1>5 DEF WriterInv, ReaderInv
<1> QED BY <1>1, <1>6 DEF Inv

\* A step that changes nothing.
LEMMA StutterInv == Inv /\ UNCHANGED vars => Inv'
<1> SUFFICES ASSUME Inv, UNCHANGED vars PROVE Inv'
  OBVIOUS
<1>1. UNCHANGED writerVars /\ file' = file /\ stage' = stage /\ r' = r /\ f' = f
  BY DEF vars
<1>2. keys' = keys /\ tensors' = tensors /\ kv' = kv /\ panicked' = panicked /\ alignment' = alignment
  BY <1>1 DEF writerVars
<1>3. CASE stage = "build"
  <2>1. Gathered' = Gathered
    BY <1>1, Still
  <2>2. panicked' = "no" => Gathered'
    BY <1>2, <1>3, <2>1 DEF Inv, WriterInv
  <2> QED BY <1>1, <1>3, <2>2, BuildKeeps
<1>5. CASE stage # "build" /\ ~Regular
  <2>1. stage # "build" /\ stage' \in {"header", "kv", "tensors", "parsed", "rejected"}
    BY <1>1, <1>5 DEF Inv
  <2> QED BY <1>1, <1>5, <2>1, IrregularKeeps
<1>4. CASE stage # "build" /\ Regular
  <2>1. /\ Layout' = Layout /\ Gathered' = Gathered /\ Mistyped' = Mistyped /\ DataStart' = DataStart /\ Offsets' = Offsets /\ Acceptable' = Acceptable
        /\ \A i : KeyAt(i)' = KeyAt(i)
        /\ \A i : InfoAt(i)' = InfoAt(i)
        /\ \A i : AcceptableUpTo(i)' = AcceptableUpTo(i)
        /\ \A i, d : FileUpTo(i, d)' = FileUpTo(i, d)
    BY <1>1, Still
  <2>2. WriterInv'
    BY <1>1, <1>2, <2>1 DEF Inv, WriterInv
  <2>3. stage = "header" => ReaderStart'
    BY <1>1, <1>4 DEF Inv, ReaderInv, ReaderStart
  <2>4. Begins(Layout)'
    BY <1>1, <1>4, <2>1 DEF Inv, ReaderInv, Begins
  <2>5. stage = "kv" => (\E i \in 0 .. Len(keys) : AfterKeys(i))'
    <3> SUFFICES ASSUME stage = "kv" PROVE (\E i \in 0 .. Len(keys) : AfterKeys(i))'
      OBVIOUS
    <3>1. PICK i \in 0 .. Len(keys) : AfterKeys(i)
      BY <1>4 DEF Inv, ReaderInv
    <3>2. KeyAt(i)' = KeyAt(i)
      BY <2>1
    <3>3. AfterKeys(i)'
      BY <1>1, <1>2, <3>1, <3>2, Zenon DEF AfterKeys
    <3> QED BY <1>2, <3>3
  <2>6. stage = "tensors" => (\E i \in 0 .. Len(tensors) : AfterTensors(i))'
    <3> SUFFICES ASSUME stage = "tensors" PROVE (\E i \in 0 .. Len(tensors) : AfterTensors(i))'
      OBVIOUS
    <3>1. PICK i \in 0 .. Len(tensors) : AfterTensors(i)
      BY <1>4 DEF Inv, ReaderInv
    <3>2. InfoAt(i)' = InfoAt(i) /\ AcceptableUpTo(i)' = AcceptableUpTo(i) /\ FileUpTo(i, 0)' = FileUpTo(i, 0)
      BY <2>1
    <3>3. AfterTensors(i)'
      BY <1>1, <3>1, <3>2 DEF AfterTensors
    <3> QED BY <1>2, <3>3
  <2>7. stage = "parsed" => Parsed'
    <3> SUFFICES ASSUME stage = "parsed" PROVE Parsed'
      OBVIOUS
    <3> DEFINE m == Len(tensors)
               d == DataStart
    <3>1. m' = m /\ d' = d
      BY <1>2, <2>1
    <3>2. AcceptableUpTo(m)' = AcceptableUpTo(m) /\ FileUpTo(m, d)' = FileUpTo(m, d)
      <4>1. FileUpTo(m, d)' = FileUpTo(m, d)
        BY <1>1, <3>1, Still
      <4>2. AcceptableUpTo(m)' = AcceptableUpTo(m)
        BY <1>1, <3>1, Still
      <4> QED BY <4>1, <4>2
    <3>3. Parsed
      BY <1>4 DEF Inv, ReaderInv
    <3> QED BY <1>1, <1>2, <2>1, <3>2, <3>3 DEF Parsed
  <2>8. stage = "rejected" /\ file = Layout => ~Acceptable'
    BY <1>4, <2>1 DEF Inv, ReaderInv
  <2>9. stage' # "build" /\ stage' = stage /\ file' = file /\ Layout' = Layout
    BY <1>1, <1>4, <2>1
  <2>10. ReaderInv'
    BY <2>3, <2>4, <2>5, <2>6, <2>7, <2>8, <2>9 DEF ReaderInv
  <2> QED BY <2>2, <2>9, <2>10 DEF Inv
<1> QED BY <1>3, <1>4, <1>5

\* Every step keeps the invariant.
LEMMA NextInv == Inv /\ [Next]_vars => Inv'
<1> SUFFICES ASSUME Inv, [Next]_vars PROVE Inv'
  OBVIOUS
<1>1. ASSUME NEW key \in Keys, NEW x \in GoValues, Set(key, x) PROVE Inv'
  <2>1. stage = "build" /\ stage' = "build" /\ UNCHANGED <<r, f>> /\ panicked = "no"
    BY <1>1 DEF Set
  <2>2. panicked' = "no" => Gathered'
    BY <1>1, <2>1, SetGathers DEF Inv, WriterInv
  <2> QED BY <2>1, <2>2, BuildKeeps
<1>2. ASSUME NEW t \in Tensors, AddTensor(t) PROVE Inv'
  <2>1. stage = "build" /\ stage' = "build" /\ UNCHANGED <<r, f>> /\ panicked = "no"
    BY <1>2 DEF AddTensor
  <2>2. Gathered'
    BY <1>2, <2>1, AddTensorGathers DEF Inv, WriterInv
  <2> QED BY <2>1, <2>2, BuildKeeps
<1>3. CASE WriteFile
  BY <1>3, WriteStep
<1> DEFINE Parse == ParseHeader \/ ParseKV \/ ParseAlignment \/ ParseTensor \/ ParseData
<1>4. CASE Parse /\ ~Regular
  <2>1. stage # "build" /\ UNCHANGED writerVars /\ stage' \in {"header", "kv", "tensors", "parsed", "rejected"}
    BY <1>4 DEF ParseHeader, ParseKV, ParseAlignment, ParseTensor, ParseData, Reject
  <2> QED BY <1>4, <2>1, IrregularKeeps
<1>5. CASE Parse /\ Regular
  <2>1. CASE ParseHeader
    BY <1>5, <2>1, HeaderStep
  <2>2. CASE ParseKV
    BY <1>5, <2>2, KeyStep
  <2>3. CASE ParseAlignment
    BY <1>5, <2>3, AlignmentStep
  <2>4. CASE ParseTensor
    BY <1>5, <2>4, TensorStep
  <2>5. CASE ParseData
    BY <1>5, <2>5, DataStep
  <2> QED BY <1>5, <2>1, <2>2, <2>3, <2>4, <2>5
<1>9. CASE UNCHANGED vars
  BY <1>9, StutterInv
<1> QED BY <1>1, <1>2, <1>3, <1>4, <1>5, <1>9 DEF Next

\* Whatever Writer, disk and reader do: if all values set are regular, what is
\* read so far is a beginning of what was set and added, and the reader stands
\* where the rest of it begins.
THEOREM GgufInvariant == Spec => []Inv
<1>1. Init => Inv
  BY InitInv
<1>2. Inv /\ [Next]_vars => Inv'
  BY NextInv
<1> QED BY <1>1, <1>2, PTL DEF Spec

\* What is known when Parse has accepted.
LEMMA AcceptedIs ==
  ASSUME Inv, Regular, stage = "parsed"
  PROVE  /\ Gathered /\ Written /\ Begins(Layout) /\ alignment \in Powers
         /\ f = FileUpTo(Len(tensors), DataStart) /\ f.keys = keys /\ f.kv = kv /\ f.dataOffset = DataStart
         /\ f.tensors = [k \in 1 .. Len(tensors) |-> Entry(k)]
         /\ \A k \in 1 .. Len(tensors) : DataStart + Offsets[k] + Len(tensors[k].data) <= Len(file)
<1>1. Gathered /\ Written /\ Begins(Layout)
  BY ParseAssumes
<1>2. Parsed
  BY DEF Inv, ReaderInv
<1>3. alignment \in Powers /\ f = FileUpTo(Len(tensors), DataStart)
  BY <1>2 DEF Parsed, AcceptableUpTo
<1>4. f.keys = keys /\ f.kv = kv /\ f.dataOffset = DataStart /\ f.tensors = [k \in 1 .. Len(tensors) |-> Entry(k)]
  BY <1>3 DEF FileUpTo
<1> QED BY <1>1, <1>2, <1>3, <1>4 DEF Parsed

\* What Parse accepts gives back every key, value, tensor and byte of data as
\* they were given to the Writer, for files of every size and shape whose values
\* are regular.
THEOREM AlwaysRoundTrip == Spec => []RoundTrip
<1>1. Inv => RoundTrip
  <2> SUFFICES ASSUME Inv, Regular, stage = "parsed"
               PROVE  /\ f.keys = keys /\ f.kv = kv
                      /\ [k \in DOMAIN f.tensors |-> [name |-> f.tensors[k].name, dims |-> f.tensors[k].dims,
                                                      type |-> f.tensors[k].type, data |-> Data(f.tensors[k])]] = tensors
    BY DEF RoundTrip
  <2> DEFINE m == Len(tensors)
             Back(k) == [name |-> f.tensors[k].name, dims |-> f.tensors[k].dims,
                         type |-> f.tensors[k].type, data |-> Data(f.tensors[k])]
  <2>1. /\ Written /\ Begins(Layout) /\ alignment \in Powers
        /\ f.keys = keys /\ f.kv = kv /\ f.dataOffset = DataStart
        /\ f.tensors = [k \in 1 .. m |-> Entry(k)]
        /\ \A k \in 1 .. m : DataStart + Offsets[k] + Len(tensors[k].data) <= Len(file)
    BY AcceptedIs
  <2>2. ASSUME NEW k \in 1 .. m PROVE Back(k) = tensors[k]
    <3> DEFINE t == tensors[k]
               p == DataStart + Offsets[k]
    <3>1. f.tensors[k] = Entry(k)
      BY <2>1
    <3>2. Entry(k).offset = Offsets[k] /\ Entry(k).type = t.type /\ Entry(k).dims = t.dims /\ Entry(k).name = t.name
      BY DEF Entry
    <3>3. Len(t.data) = TensorBytes(t.type, t.dims) /\ SubSeq(file, p + 1, p + Len(t.data)) = t.data
      BY <2>1, DataRead
    <3>4. Data(f.tensors[k]) = t.data
      BY <2>1, <3>1, <3>2, <3>3 DEF Data
    <3>5. t \in GoodTensors
      BY <2>1 DEF Written
    <3> HIDE DEF t
    <3>6. t = [name |-> t.name, dims |-> t.dims, type |-> t.type, data |-> t.data]
      BY <3>5, TensorIs
    <3>7. Back(k) = [name |-> t.name, dims |-> t.dims, type |-> t.type, data |-> t.data]
      BY <3>1, <3>2, <3>4
    <3> QED BY <3>6, <3>7 DEF t
  <2>3. DOMAIN f.tensors = 1 .. m /\ tensors = [k \in 1 .. m |-> tensors[k]]
    <3>1. tensors \in Seq(GoodTensors)
      BY <2>1 DEF Written
    <3> QED BY <2>1, <3>1
  <2> HIDE DEF Back, m
  <2>4. [k \in DOMAIN f.tensors |-> Back(k)] = tensors
    BY <2>2, <2>3
  <2> QED BY <2>1, <2>4 DEF Back
<1> QED BY <1>1, GgufInvariant, PTL

\* A complete file of regular values is refused for the three reasons only.
THEOREM AlwaysOnlyRefusals == Spec => []OnlyRefusals
<1>1. Inv => OnlyRefusals
  <2> SUFFICES ASSUME Inv, Regular, stage \in {"parsed", "rejected"}, file = Layout PROVE stage = "parsed" <=> Acceptable
    BY DEF OnlyRefusals
  <2>1. CASE stage = "parsed"
    <3>1. Written
      BY <2>1, ParseAssumes
    <3>2. AcceptableUpTo(Len(tensors))
      BY <2>1 DEF Inv, ReaderInv, Parsed
    <3> QED BY <2>1, <3>1, <3>2, AcceptableIs
  <2>2. CASE stage = "rejected"
    BY <2>2 DEF Inv, ReaderInv
  <2> QED BY <2>1, <2>2
<1> QED BY <1>1, GgufInvariant, PTL

\* A file of regular values that was cut is refused unless all its data is there.
THEOREM AlwaysCutIsRefused == Spec => []CutIsRefused
<1>1. Inv => CutIsRefused
  <2> SUFFICES ASSUME Inv, Regular, stage = "parsed"
               PROVE  /\ f.keys = keys /\ f.kv = kv
                      /\ \A k \in DOMAIN tensors : f.dataOffset + Offsets[k] + Len(tensors[k].data) <= Len(file)
    BY DEF CutIsRefused
  <2>1. /\ Written /\ f.keys = keys /\ f.kv = kv /\ f.dataOffset = DataStart
        /\ \A k \in 1 .. Len(tensors) : DataStart + Offsets[k] + Len(tensors[k].data) <= Len(file)
    BY AcceptedIs
  <2>2. DOMAIN tensors = 1 .. Len(tensors)
    BY <2>1 DEF Written
  <2> QED BY <2>1, <2>2
<1> QED BY <1>1, GgufInvariant, PTL
=============================================================================
