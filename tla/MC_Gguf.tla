------------------------------- MODULE MC_Gguf -------------------------------
(* Gguf for TLC: numbers, arrays, Values, an alignment set or not; types   *)
(* of one byte and of two to an element and one with blocks.               *)
EXTENDS Gguf

AlignmentKey == <<7>>
KeysMC == {AlignmentKey, <<8, 8>>}

Go(go, items)    == [slice |-> FALSE, go |-> go, items |-> items]
GoSlice(go, items) == [slice |-> TRUE, go |-> go, items |-> items]

Number(type, held, n) == [type |-> type, held |-> held, data |-> <<n>>]
GoValue(v)         == [slice |-> FALSE, go |-> "Value", items |-> <<v>>]
GoValueSlice(items) == [slice |-> TRUE, go |-> "Value", items |-> items]

\* A bool as a Value, a []Value of nothing, of one type and of two; "int" is what
\* toValue has no case for as a slice.
GoValuesMC == {
  Go("uint32", <<<<8>>>>), Go("int", <<<<12>>>>), GoSlice("string", <<<<9>>, <<>>>>), GoSlice("int", <<<<1>>>>),
  GoValue([type |-> Bool, elem |-> 0, items |-> <<Number(Bool, Bool, 1)>>]),
  GoValueSlice(<<>>), GoValueSlice(<<Number(0, 0, 3), Number(0, 0, 4)>>),
  GoValueSlice(<<Number(Bool, Bool, 1), Number(0, 0, 3)>>)}

\* More of what Set does not look at: a []Value of two widths; a Value of a type
\* that is not listed, alone and in an array; one whose V has another type.
IrregularMC == {
  Go("uint32", <<<<8>>>>), GoValueSlice(<<Number(0, 0, 3), Number(Uint32, Uint32, 3)>>),
  GoValue([type |-> 13, elem |-> 0, items |-> <<Number(13, Uint32, 3)>>]),
  GoValueSlice(<<Number(0, 0, 3), Number(13, 0, 4)>>),
  GoValue([type |-> Uint32, elem |-> 0, items |-> <<Number(Uint32, Int32, 3)>>])}

\* F16, I8 and Q8_0
TypeInfosMC == 1 :> [blockSize |-> 1, typeSize |-> 2] @@ 24 :> [blockSize |-> 1, typeSize |-> 1]
                 @@ 8 :> [blockSize |-> 32, typeSize |-> 34]

Filled(name, shape, type, n) == [name |-> name, shape |-> shape, type |-> type, data |-> [k \in 1 .. n |-> 100 + n + k]]

\* Four dimensions and five, a name twice, and what AddTensor refuses: data of
\* the wrong length, half a block, no dimension, an unknown type.
TensorsMC == {
  Filled(<<1>>, <<1, 1, 2, 3>>, 1, 12), Filled(<<2, 2>>, <<1, 1, 1, 1, 5>>, 24, 5), Filled(<<1>>, <<32>>, 8, 34),
  Filled(<<1>>, <<2, 3>>, 1, 11), Filled(<<1>>, <<16>>, 8, 17), Filled(<<4>>, <<>>, 24, 1), Filled(<<5>>, <<1>>, 99, 1)}

\* Three bytes, so that an error may come at a count that is not aligned
IrregularTensorsMC == {Filled(<<1>>, <<3>>, 24, 3)}
=============================================================================
