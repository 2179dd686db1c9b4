------------------------------ MODULE ModelLoad ------------------------------
(***************************************************************************)
(* Load and Close of a Model (model/model.go): the device memory of a      *)
(* model is acquired piece by piece, any piece can be missing from the     *)
(* file, have the wrong shape or not fit, and whatever was acquired before *)
(* must be freed once, by Load when it fails and by Close when it does not.*)
(***************************************************************************)
EXTENDS Naturals, Sequences

CONSTANT Layers        \* transformer blocks

ASSUME LayersAssumption == Layers \in Nat

-----------------------------------------------------------------------------
(* The pieces, in the order of load: a norm is allocated, filled and        *)
(* registered in m.closers; a linear is checked in between, the LM head     *)
(* after; a work buffer is not filled.                                      *)

LayerPieces ==
  << "norm", "norm",                                   \* attn_norm, ffn_norm
     "linear", "linear", "linear", "linear",           \* wq, wk, wv, wo
     "linear", "linear", "linear",                     \* gate, up, down
     "work", "work" >>                                 \* kcache, vcache
TopPieces ==
  << "norm", "head", "norm",                           \* output_norm, output, freq
     "work", "work", "work", "work", "work",           \* x, xn, q, kv, attn
     "work", "work", "work", "work", "work",           \* o, gate, up, act, logits
     "work" >>                                         \* pos

PerLayer  == Len(LayerPieces)
InLayers  == PerLayer * Layers
NumPieces == InLayers + Len(TopPieces)
Pieces    == 1 .. NumPieces

KindOf(i) == IF i <= InLayers THEN LayerPieces[1 + ((i - 1) % PerLayer)]
                              ELSE TopPieces[i - InLayers]

VARIABLES
  pc,
  at,         \* the piece being acquired
  closers,    \* m.closers
  frees,      \* how often each piece's device memory was freed
  live        \* pieces whose device memory is allocated

loadVars == <<pc, at, closers, frees, live>>

LoadInit ==
  /\ pc = "check" /\ at = 1
  /\ closers = <<>> /\ frees = [i \in Pieces |-> 0] /\ live = {}

Registered == {closers[k] : k \in 1 .. Len(closers)}

\* load returns an error and Load calls m.Close.
Fail == pc' = "unwind"

-----------------------------------------------------------------------------
\* The tensor is missing, or is not a matrix, or has no kernel, or the
\* allocation fails.
Refuse ==
  /\ pc = "check"
  /\ Fail
  /\ UNCHANGED <<at, closers, frees, live>>

Alloc ==
  /\ pc = "check"
  /\ live' = live \cup {at}
  /\ pc' = IF KindOf(at) = "work" THEN "register" ELSE "fill"
  /\ UNCHANGED <<at, closers, frees>>

Fill ==
  /\ pc = "fill"
  /\ pc' = IF KindOf(at) = "linear" THEN "shape" ELSE "register"
  /\ UNCHANGED <<at, closers, frees, live>>

\* The copy fails and the error is returned at once.
FillFailsEarly ==
  /\ pc = "fill"
  /\ Fail
  /\ UNCHANGED <<at, closers, frees, live>>

\* alloc and Ones close the buffer they could not fill.
FillFails ==
  /\ pc = "fill"
  /\ live' = live \ {at} /\ frees' = [frees EXCEPT ![at] = @ + 1]
  /\ Fail
  /\ UNCHANGED <<at, closers>>

ShapeFits ==
  /\ pc = "shape"
  /\ pc' = "register"
  /\ UNCHANGED <<at, closers, frees, live>>

\* linear: l.close(), and the matrix is never registered.
ShapeMismatch ==
  /\ pc = "shape"
  /\ live' = live \ {at} /\ frees' = [frees EXCEPT ![at] = @ + 1]
  /\ Fail
  /\ UNCHANGED <<at, closers>>

\* The work buffers other than pos register themselves twice over.
RegisterTwice ==
  closers' = IF KindOf(at) = "work" THEN closers \o <<at, at>> ELSE Append(closers, at)

RegisterOne == closers' = Append(closers, at)

Advance == IF at = NumPieces THEN pc' = "loaded" /\ UNCHANGED at
                             ELSE pc' = "check" /\ at' = at + 1

\* m.closers = append(m.closers, ...), and on to the next piece.
Register ==
  /\ pc = "register"
  /\ RegisterOne
  /\ IF KindOf(at) = "head" THEN pc' = "headshape" /\ UNCHANGED at ELSE Advance
  /\ UNCHANGED <<frees, live>>

\* The LM head is registered before its shape is checked.
HeadShapeFits ==
  /\ pc = "headshape"
  /\ Advance
  /\ UNCHANGED <<closers, frees, live>>

HeadShapeMismatch ==
  /\ pc = "headshape"
  /\ Fail
  /\ UNCHANGED <<at, closers, frees, live>>

\* i >= 1: the first closer is never reached.
CloseIndicesFromOne == 2 .. Len(closers)

\* for i := len(m.closers) - 1; i >= 0; i--
CloseIndices == 1 .. Len(closers)

Occurrences(i) == {k \in CloseIndices : closers[k] = i}

\* Model.Close: every closer once, and the list is dropped, so that a second
\* Close does nothing.  By Load on failure, by the user of a loaded model.
CloseModel(from, to) ==
  /\ pc = from
  /\ live' = {i \in live : Occurrences(i) = {}}
  /\ frees' = [i \in Pieces |-> IF Occurrences(i) = {} THEN frees[i]
                                ELSE IF \E k, l \in Occurrences(i) : k # l THEN frees[i] + 2
                                ELSE frees[i] + 1]
  /\ closers' = <<>>
  /\ pc' = to
  /\ UNCHANGED at

LoadNext ==
  \/ Refuse \/ Alloc \/ Fill \/ FillFails
  \/ ShapeFits \/ ShapeMismatch \/ Register \/ HeadShapeFits \/ HeadShapeMismatch
  \/ CloseModel("unwind", "failed")
  \/ CloseModel("loaded", "closed")
  \/ CloseModel("closed", "closed")

LoadSpec == LoadInit /\ [][LoadNext]_loadVars

-----------------------------------------------------------------------------
(* Properties                                                              *)

Points == {"check", "fill", "shape", "register", "headshape",
           "unwind", "failed", "loaded", "closed"}

TypeOK ==
  /\ pc \in Points
  /\ at \in Pieces
  /\ closers \in Seq(Pieces)
  /\ frees \in [Pieces -> Nat]
  /\ live \subseteq Pieces

\* No device memory outlives a Load that failed or a model that was closed,
\* wherever it failed; and a loaded model has every piece.
NoLeak ==
  /\ pc \in {"failed", "closed"} => live = {}
  /\ pc = "loaded" => live = Pieces

\* No device memory is freed twice, not by a cleanup and the closers both,
\* nor by Close called again; what was freed is not in use.
FreedOnce == \A i \in Pieces : frees[i] <= 1 /\ (frees[i] = 1 => i \notin live)
=============================================================================
