-------------------------------- MODULE Gguf --------------------------------
(***************************************************************************)
(* A model file, from the Writer that lays it out (gguf/writer.go) over a  *)
(* disk that may keep only a part of it to the reader (Parse, gguf.go).    *)
(*                                                                         *)
(* A file is the sequence of its bytes. A number is its first byte and     *)
(* zeros, as it is below 256: a length or an offset above that would have  *)
(* its value in one place all the same. Numbers are unsigned, no dimension *)
(* is 0 and the elements of arrays are no arrays. Where a []Value mixes    *)
(* types of different widths the reader is not followed into it.           *)
(***************************************************************************)
EXTENDS Naturals, SequencesExt

CONSTANTS
  KeyAlignment, Keys,    \* metadata keys, as sequences of bytes
  GoValues,              \* what Set is given: [slice, go, items]; see GgufAssumption
  Tensors,               \* what AddTensor is given: [name, shape, type, data]
  TypeInfos,             \* gguf.Type |-> [blockSize, typeSize]
  BufSize,               \* bytes that bufio holds back, 4096; no string is as long
  MaxSets, MaxTensors    \* bounds: calls of Set and of AddTensor

Byte == 0 .. 255

Magic == <<71, 71, 85, 70>>
DefaultAlignment == 32

\* Value types, and the bytes a number of each takes
Uint32 == 4
Int32  == 5
Float32 == 6
Bool   == 7
String == 8
Array  == 9
U64    == 10
Width  == <<1, 1, 2, 2, 4, 4, 4, 1, 0, 0, 8, 8, 8>>
Integer == {0, 1, 2, 3, Uint32, Int32, U64, 11}
ItemTypes == (0 .. 12) \ {Array}   \* those that typed writes and reads; a Value may have others

\* A scalar: its type, the type that what V holds would have, and V. What is not
\* a string is one number, a bool 0 or 1.
Items == [type : Byte \ {Array}, held : Byte, data : Seq(Byte)]
Scalar(i) ==
  /\ i \in Items
  /\ (i.held # String => Len(i.data) = 1) /\ (i.held = Bool => i.data[1] \in {0, 1})

\* A Value: one scalar, or those of a []Value; Elem is 0 where it means nothing.
IsGiven(v) ==
  /\ v \in [type : Byte, elem : Byte \ {Array}, items : Seq(Items)]
  /\ \A k \in DOMAIN v.items : Scalar(v.items[k])
  /\ v.type # Array => v.elem = 0 /\ Len(v.items) = 1 /\ v.items[1].type = v.type

\* The items of a Go value are bytes; those of a []Value are scalars, and the one
\* of a Value is that Value.
ASSUME GgufAssumption ==
  /\ KeyAlignment \in Keys /\ Keys \subseteq Seq(Byte)
  /\ \A x \in GoValues : x.slice \in BOOLEAN /\ (~x.slice => Len(x.items) = 1)
  /\ \A x \in GoValues : x.go # "Value" =>
       /\ x.items \in Seq(Seq(Byte))
       /\ \A k \in DOMAIN x.items :
            /\ x.go # "string" => Len(x.items[k]) = 1
            /\ x.go = "bool" => x.items[k][1] \in {0, 1}
  /\ \A x \in GoValues : x.go = "Value" =>
       IF x.slice THEN IsGiven([type |-> Array, elem |-> 0, items |-> x.items]) ELSE IsGiven(x.items[1])
  /\ DOMAIN TypeInfos \subseteq Byte
  /\ \A t \in Tensors : t.name \in Seq(Byte) /\ t.shape \in Seq(1 .. 255) /\ t.data \in Seq(Byte)
  /\ BufSize \in Nat \ {0}

VARIABLES
  keys, kv, tensors, alignment, sets, panicked,   \* the Writer
  file,        \* the bytes at the path
  wrote,       \* what WriteFile returned: "no" (not yet), "nil", "error", or "hangs"
  stage,       \* "build", then Parse's: "header" .. "parsed" or "rejected"
  r,           \* the reader: position, error, what it last read
  f            \* the File being parsed

writerVars == <<keys, kv, tensors, alignment, sets, panicked>>
vars == <<writerVars, file, wrote, stage, r, f>>

Init ==
  /\ keys = <<>> /\ kv = <<>> /\ tensors = <<>> /\ alignment = DefaultAlignment
  /\ sets = 0 /\ panicked = "no"
  /\ file = <<>> /\ wrote = "no" /\ stage = "build"
  /\ r = [pos |-> 0, err |-> FALSE, val |-> <<>>]
  /\ f = [keys |-> <<>>, kv |-> <<>>, tensors |-> <<>>, alignment |-> DefaultAlignment, dataOffset |-> 0, left |-> <<0, 0>>]

With(m, key, x) == [k \in DOMAIN m \cup {key} |-> IF k = key THEN x ELSE m[k]]

Product(s) == FoldLeft(LAMBDA a, b : a * b, 1, s)

\* x & y, bit by bit; y is a byte.
And(x, y) ==
  LET bit(w) == w * ((x \div w) % 2) * ((y \div w) % 2)
  IN  bit(1) + bit(2) + bit(4) + bit(8) + bit(16) + bit(32) + bit(64) + bit(128)

\* (x + a - 1) &^ (a - 1)
AlignUp(x, a) == LET y == x + a - 1 IN y - And(y, a - 1)

RowBytes(type, n) == (n \div TypeInfos[type].blockSize) * TypeInfos[type].typeSize
TensorBytes(type, dims) == RowBytes(type, dims[1]) * (Product(dims) \div dims[1])

\* By what V holds: integers and bools; anything else counts as 0.
Uint64(v) == IF v.type # Array /\ v.items[1].held \in Integer \cup {Bool} THEN v.items[1].data[1] ELSE 0

Item(type, data) == [type |-> type, held |-> type, data |-> data]

-----------------------------------------------------------------------------
(* The Writer                                                              *)

\* The value types of the Go types that toValue knows, and of their slices
Scalars == [uint8 |-> 0, int8 |-> 1, uint16 |-> 2, int16 |-> 3, uint32 |-> Uint32, int32 |-> Int32,
            uint64 |-> U64, int64 |-> 11, int |-> Int32, uint |-> Uint32,
            float32 |-> Float32, float64 |-> 12, bool |-> Bool, string |-> String]
Slices  == [string |-> String, int32 |-> Int32, uint32 |-> Uint32, float32 |-> Float32]

\* Values and slices of them are taken too; any other type makes toValue panic.
Known(x) == x.go = "Value" \/ x.go \in DOMAIN (IF x.slice THEN Slices ELSE Scalars)

\* A []Value has the type of its first.
ToValue(x) ==
  CASE x.go = "Value" /\ ~x.slice -> x.items[1]
    [] x.go = "Value" /\ x.slice ->
         [type |-> Array, elem |-> IF x.items = <<>> THEN String ELSE x.items[1].type, items |-> x.items]
    [] x.go # "Value" /\ ~x.slice ->
         [type |-> Scalars[x.go], elem |-> 0, items |-> <<Item(Scalars[x.go], x.items[1])>>]
    [] x.go # "Value" /\ x.slice ->
         [type |-> Array, elem |-> Slices[x.go], items |-> [k \in DOMAIN x.items |-> Item(Slices[x.go], x.items[k])]]

\* A key set again keeps the alignment it had.
SetOnce(key, x) ==
  /\ Known(x)
  /\ stage = "build" /\ panicked = "no" /\ sets < MaxSets
  /\ sets' = sets + 1
  /\ keys' = IF key \in DOMAIN kv THEN keys ELSE Append(keys, key)
  /\ kv' = With(kv, key, ToValue(x))
  /\ alignment' = IF key = KeyAlignment /\ key \notin DOMAIN kv THEN Uint64(ToValue(x)) ELSE alignment
  /\ UNCHANGED <<tensors, panicked, file, wrote, stage, r, f>>

Set(key, x) ==
  /\ stage = "build" /\ panicked = "no" /\ sets < MaxSets
  /\ sets' = sets + 1
  /\ keys' = IF key \in DOMAIN kv THEN keys ELSE Append(keys, key)
  /\ IF Known(x)
     THEN /\ kv' = With(kv, key, ToValue(x))
          /\ alignment' = IF key = KeyAlignment THEN Uint64(ToValue(x)) ELSE alignment
          /\ UNCHANGED panicked
     ELSE panicked' = "Set" /\ UNCHANGED <<kv, alignment>>
  /\ UNCHANGED <<tensors, file, wrote, stage, r, f>>

\* AddTensor takes t: dims are the shape, innermost first.
Fits(t) ==
  /\ t.type \in DOMAIN TypeInfos /\ t.shape # <<>>
  /\ Last(t.shape) % TypeInfos[t.type].blockSize = 0
  /\ Len(t.data) = TensorBytes(t.type, Reverse(t.shape))

AddTensor(t) ==
  /\ stage = "build" /\ panicked = "no" /\ Len(tensors) < MaxTensors
  /\ Fits(t)
  /\ tensors' = Append(tensors, [name |-> t.name, dims |-> Reverse(t.shape), type |-> t.type, data |-> t.data])
  /\ UNCHANGED <<keys, kv, alignment, sets, panicked, file, wrote, stage, r, f>>

Num(n, width) == <<n>> \o [k \in 1 .. width - 1 |-> 0]
Str(s) == Num(Len(s), 8) \o s
Pad(bytes, a) == bytes \o [k \in 1 .. (a - (Len(bytes) % a)) % a |-> 0]

\* Each by its own type; nothing of a type that is not listed
Typed(type, data) ==
  IF type \notin ItemTypes THEN <<>> ELSE IF type = String THEN Str(data) ELSE Num(data[1], Width[type + 1])

TypedItems(items) == FlattenSeq([k \in DOMAIN items |-> Typed(items[k].type, items[k].data)])

ValueBytes(v) ==
  Num(v.type, 4) \o
    IF v.type # Array THEN Typed(v.type, v.items[1].data) ELSE Num(v.elem, 4) \o Num(Len(v.items), 8) \o TypedItems(v.items)

\* Where each tensor's data begins, from the start of the data
Offsets[k \in 1 .. Len(tensors)] ==
  IF k = 1 THEN 0 ELSE AlignUp(Offsets[k - 1] + Len(tensors[k - 1].data), alignment)

Header ==
  Magic \o Num(3, 4) \o Num(Len(tensors), 8) \o Num(Len(keys), 8)
    \o FlattenSeq([k \in DOMAIN keys |-> Str(keys[k]) \o ValueBytes(kv[keys[k]])])
    \o FlattenSeq([k \in DOMAIN tensors |->
         Str(tensors[k].name) \o Num(Len(tensors[k].dims), 4)
           \o FlattenSeq([d \in DOMAIN tensors[k].dims |-> Num(tensors[k].dims[d], 8)])
           \o Num(tensors[k].type, 4) \o Num(Offsets[k], 8)])

\* The header is not padded.
LayoutUnpadded ==
  LET upTo[k \in 0 .. Len(tensors)] ==
        IF k = 0 THEN Header ELSE Pad(upTo[k - 1] \o tensors[k].data, alignment)
  IN  upTo[Len(tensors)]

\* The header, and the data of each tensor, padded
Layout ==
  LET upTo[k \in 0 .. Len(tensors)] ==
        Pad(IF k = 0 THEN Header ELSE upTo[k - 1] \o tensors[k].data, alignment)
  IN  upTo[Len(tensors)]

\* The type assertions of typed
Mistyped ==
  \E key \in DOMAIN kv : \E k \in DOMAIN kv[key].items :
    LET i == kv[key].items[k] IN i.type \in ItemTypes /\ i.held # i.type

\* The first item that typed has no case for, 0 if there is none
Unlisted(v) == SelectInSeq(v.items, LAMBDA i : i.type \notin ItemTypes)

\* How far the writer gets: such an item is an error, and what follows an error
\* is not written.
Reach ==
  LET k == SelectInSeq(keys, LAMBDA key : Unlisted(kv[key]) # 0)
      v == kv[keys[k]]
  IN  IF k = 0 THEN Len(Layout)
      ELSE 24 + Len(FlattenSeq([l \in 1 .. k - 1 |-> Str(keys[l]) \o ValueBytes(kv[keys[l]])]) \o Str(keys[k]))
             + (IF v.type = Array THEN 16 ELSE 4) + Len(TypedItems(SubSeq(v.items, 1, Unlisted(v) - 1)))

\* The counts at which the disk may refuse: those of a full buffer, and any later
\* one once there is a piece that does not fit the buffer.
Refusals(reach) ==
  {m \in BufSize .. reach - 1 : m % BufSize = 0 \/ \E t \in Range(tensors) : Len(t.data) > BufSize}

\* A disk that fills up, a crash or a value that cannot be written leaves the
\* first n bytes. After an error the count stands still, and so does pad unless
\* the count is aligned. What is not buffered any more may fail in Flush or Close.
WriteFile ==
  /\ stage = "build" /\ panicked = "no"
  /\ IF alignment = 0 \/ Mistyped
     THEN panicked' = "WriteTo" /\ UNCHANGED <<file, wrote, stage>>
     ELSE LET layout  == Layout
              reach   == Reach
              refused == \E key \in DOMAIN kv : Unlisted(kv[key]) # 0
              errors  == Refusals(reach) \cup (IF refused THEN {reach} ELSE {})
          IN  /\ \E n \in 0 .. reach :
                   /\ file' = SubSeq(layout, 1, n)
                   /\ \/ wrote' = "no"
                      \/ wrote' \in {IF m % alignment = 0 THEN "error" ELSE "hangs" : m \in {e \in errors : e >= n}}
                      \/ ~refused /\ wrote' = "error"
                      \/ ~refused /\ n = reach /\ wrote' = "nil"
              /\ stage' = "header"
              /\ UNCHANGED panicked
  /\ UNCHANGED <<keys, kv, tensors, alignment, sets, r, f>>

-----------------------------------------------------------------------------
(* Parse. An error sticks to the reader: from then on it reads zeros.      *)

Need(rd, n) == ~rd.err /\ rd.pos + n <= Len(file)

Read(rd, n) ==
  IF Need(rd, n) THEN [rd EXCEPT !.pos = @ + n, !.val = SubSeq(file, rd.pos + 1, rd.pos + n)]
  ELSE [rd EXCEPT !.err = TRUE, !.val = [k \in 1 .. n |-> 0]]

ReadStr(rd) ==
  LET len == Read(rd, 8)
  IN  IF len.val[1] <= Len(file) /\ Need(len, len.val[1]) THEN Read(len, len.val[1])
      ELSE [len EXCEPT !.err = TRUE, !.val = <<>>]

\* One number or string of the type; a type that is not listed is an error.
ReadTyped(rd, type) ==
  IF type \notin ItemTypes THEN [rd EXCEPT !.err = TRUE, !.val = <<>>]
  ELSE IF type = String THEN ReadStr(rd)
  ELSE LET num == Read(rd, Width[type + 1])
       IN  [num EXCEPT !.val = IF type = Bool /\ num.val[1] # 0 THEN <<1>> ELSE <<num.val[1]>>]

\* n of the type, one after the other: the reader then, and what was read
ReadMany(rd, n, type) ==
  LET read[k \in 0 .. n] ==
        IF k = 0 THEN <<rd, <<>>>>
        ELSE LET before == read[k - 1]
                 one    == ReadTyped(before[1], type)
             IN  <<one, Append(before[2], one.val)>>
  IN  read[n]

ReadValue(rd) ==
  LET type == Read(rd, 4)
      elem == Read(type, 4)
      num  == Read(elem, 8)
      len  == [num EXCEPT !.err = @ \/ num.val[1] > Len(file)]
      many == IF type.val[1] # Array THEN ReadMany(type, 1, type.val[1])
              ELSE ReadMany(len, IF len.err THEN 0 ELSE len.val[1], elem.val[1])
      of   == IF type.val[1] # Array THEN type.val[1] ELSE elem.val[1]
  IN  <<many[1], [type |-> type.val[1], elem |-> IF type.val[1] # Array THEN 0 ELSE elem.val[1],
                  items |-> [k \in DOMAIN many[2] |-> Item(of, many[2][k])]]>>

Reject == stage' = "rejected" /\ UNCHANGED <<r, f>>

ParseHeader ==
  LET magic   == Read(r, 4)
      version == Read(magic, 4)
      nTensors == Read(version, 8)
      nKV     == Read(nTensors, 8)
  IN  /\ stage = "header"
      /\ IF \/ magic.val # Magic \/ version.val[1] \notin 2 .. 3 \/ nKV.err
            \/ nKV.val[1] > Len(file) \/ nTensors.val[1] > Len(file)
         THEN Reject
         ELSE stage' = "kv" /\ r' = nKV /\ f' = [f EXCEPT !.left = <<nKV.val[1], nTensors.val[1]>>]
      /\ UNCHANGED <<writerVars, file, wrote>>

\* The items of an array take the bytes that the reader takes for one.
InStep(v) ==
  v.type = Array => \A k \in DOMAIN v.items :
    LET type == v.items[k].type
    IN  type \in ItemTypes /\ v.elem \in ItemTypes => Width[type + 1] = Width[v.elem + 1]

ParseKV ==
  LET key == ReadStr(r)
      v   == ReadValue(key)
  IN  /\ stage = "kv" /\ f.left[1] > 0 /\ InStep(kv[keys[Len(f.keys) + 1]])
      /\ IF v[1].err THEN Reject
         ELSE /\ r' = v[1]
              /\ f' = [f EXCEPT !.left[1] = @ - 1, !.keys = Append(@, key.val), !.kv = With(@, key.val, v[2])]
              /\ UNCHANGED stage
      /\ UNCHANGED <<writerVars, file, wrote>>

ParseAlignment ==
  LET a == IF KeyAlignment \in DOMAIN f.kv THEN Uint64(f.kv[KeyAlignment]) ELSE DefaultAlignment
  IN  /\ stage = "kv" /\ f.left[1] = 0
      /\ IF a = 0 \/ And(a, a - 1) # 0 THEN Reject
         ELSE stage' = "tensors" /\ f' = [f EXCEPT !.alignment = a] /\ UNCHANGED r
      /\ UNCHANGED <<writerVars, file, wrote>>

ParseTensor ==
  LET name == ReadStr(r)
      nd   == Read(name, 4)
      dims == ReadMany(nd, nd.val[1], U64)
      type == Read(dims[1], 4)
      off  == Read(type, 8)
      t    == [name |-> name.val, dims |-> [d \in DOMAIN dims[2] |-> dims[2][d][1]],
               type |-> type.val[1], offset |-> off.val[1]]
  IN  /\ stage = "tensors" /\ f.left[2] > 0
      /\ IF nd.val[1] > 4 \/ off.err \/ t.type \notin DOMAIN TypeInfos \/ \E u \in Range(f.tensors) : u.name = t.name
         THEN Reject
         ELSE r' = off /\ f' = [f EXCEPT !.left[2] = @ - 1, !.tensors = Append(@, t)] /\ UNCHANGED stage
      /\ UNCHANGED <<writerVars, file, wrote>>

\* The offset alone is checked against the file.
StartInRange(t, dataOffset) == t.offset % f.alignment = 0 /\ dataOffset + t.offset <= Len(file)

InRange(t, dataOffset) ==
  /\ t.offset % f.alignment = 0
  /\ dataOffset + t.offset + TensorBytes(t.type, t.dims) <= Len(file)

ParseData ==
  LET dataOffset == AlignUp(r.pos, f.alignment)
  IN  /\ stage = "tensors" /\ f.left[2] = 0
      /\ IF r.err \/ \E t \in Range(f.tensors) : ~InRange(t, dataOffset) THEN Reject
         ELSE stage' = "parsed" /\ f' = [f EXCEPT !.dataOffset = dataOffset] /\ UNCHANGED r
      /\ UNCHANGED <<writerVars, file, wrote>>

Next ==
  \/ \E key \in Keys, x \in GoValues : Set(key, x)
  \/ \E t \in Tensors : AddTensor(t)
  \/ WriteFile
  \/ ParseHeader \/ ParseKV \/ ParseAlignment \/ ParseTensor \/ ParseData

Spec == Init /\ [][Next]_vars

-----------------------------------------------------------------------------
(* Properties                                                              *)

\* TensorInfo.Data
Data(t) == SubSeq(file, f.dataOffset + t.offset + 1, f.dataOffset + t.offset + TensorBytes(t.type, t.dims))

\* Every value has one of the listed types, and so have the elements of an array,
\* which is the type that Elem gives them all (gguf.go:39-41). Set takes any Value
\* (writer.go:31) and does not look: a []Value of several types is written as an
\* array of the type of its first, and read so.
Regular ==
  \A key \in DOMAIN kv :
    LET v == kv[key]
        of == IF v.type = Array THEN v.elem ELSE v.type
    IN  of \in ItemTypes /\ \A k \in DOMAIN v.items : v.items[k].type = of

\* A file of regular values that Parse accepts, all of it or what was left of it,
\* gives back every key and value and every tensor with its data as they were
\* added: the offsets that WriteTo computes, the padding it writes and the place
\* where the reader looks agree, in whatever order alignment and tensors were set.
RoundTrip ==
  Regular /\ stage = "parsed" =>
    /\ f.keys = keys /\ f.kv = kv
    /\ [k \in DOMAIN f.tensors |-> [name |-> f.tensors[k].name, dims |-> f.tensors[k].dims,
                                    type |-> f.tensors[k].type, data |-> Data(f.tensors[k])]] = tensors

\* A complete file of regular values is refused for three reasons only, which the
\* Writer does not look at: an alignment that is no power of two, a tensor of more
\* than four dimensions and two tensors of one name.
Acceptable ==
  /\ alignment \in {1, 2, 4, 8, 16, 32, 64, 128}
  /\ \A k, l \in DOMAIN tensors : Len(tensors[k].dims) <= 4 /\ (k # l => tensors[k].name # tensors[l].name)
OnlyRefusals ==
  Regular /\ stage \in {"parsed", "rejected"} /\ file = Layout => (stage = "parsed" <=> Acceptable)

\* A file of regular values that was cut, in the header, between two entries, in an
\* array, in the padding or within a tensor, is refused unless only padding is
\* missing at its end: what Parse accepts has every key and every tensor's bytes.
CutIsRefused ==
  Regular /\ stage = "parsed" =>
    /\ f.keys = keys /\ f.kv = kv
    /\ \A k \in DOMAIN tensors : f.dataOffset + Offsets[k] + Len(tensors[k].data) <= Len(file)

\* An error of WriteTo, "cannot write value type" (writer.go:248) or the disk's, is
\* returned. The code pads first, for ever where the count is not aligned.
ErrorReturned == wrote # "hangs"
=============================================================================
