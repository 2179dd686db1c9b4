# Formal models of gollama.cu

gollama.cu runs Llama models from GGUF files on one NVIDIA GPU: the kernels are
Go functions compiled to PTX, the rest is ordinary Go. These are TLA+ modules of
its parts, TLC configurations that check them on small instances, and proofs
for every value of their parameters.

To run a check: `tlc -config Forward.cfg MC_Forward`. To check proofs:
`tlapm ForwardProofs.tla`. `PROJECT.json` lists the runs, the line of the source
that each definition models, the hazards that the properties are aimed at, and
for each property a mutation of the model that breaks it.

Contents: [inventory](#1-inventory) - [modules](#2-modules) -
[runs and bounds](#3-what-the-runs-show) - [fairness](#4-fairness) -
[proofs](#5-what-is-proved) - [findings](#6-findings) -
[what is not modelled](#7-not-modelled) - [plan](#8-plan)

## 1. Inventory

How the parts hang together. `gollama run` (`cmd/gollama/run.go`) opens the file
(`gguf`), maps it, builds the tokenizer (`tokenizer`) from its metadata, opens a
CUDA context, loads the kernels (`backend/gpu`) and uploads the weights
(`model.Load`). Then it feeds one token at a time to `Model.Forward`, which
issues about 17 steps per layer to the default CUDA stream and copies the logits
back; run takes the arg max, prints the token's bytes and feeds it again. One
goroutine does all of this. What runs concurrently is the device: behind the
host, and in a kernel thousands of threads.

| Component (source) | State | Operations | What is hard | What makes it correct |
|---|---|---|---|---|
| Attention kernel and block reductions (`kernels/attention.go`, `reduce.go`) | scores and scratch in shared memory, the output | position loop per warp, two reductions, exponentials, output | every interleaving of threads between barriers; memory reused by the second reduction; short caches; concurrent blocks | no data race, complete reductions, softmax over all positions, no thread left at a barrier |
| Forward pass and KV cache (`model/model.go` Forward) | host row, position, ten work buffers shared by all layers, the caches | one call per token | the device lags behind; a call fails half-way and what it issued still runs; one buffer carries K then V | cache rows exact and final, logits those of the tokens fed |
| Loading and closing (`model/model.go` Load, Close) | device buffers, list of closers | allocate, fill, check, register, close | a failure at any of several hundred calls | freed once, never lost |
| Run command (`cmd/gollama/run.go`) | the plan, logits, tokens printed, deferred closers | set up, plan, prefill, decode, stop | budget against cache length, off-by-ones between the two loops, a slice reused by each call | positions in order, greedy from the latest logits, cache never overrun, resources nest |
| UTF-8 output (`run.go` utf8Writer) | pending bytes | Write, Flush | tokens cut characters anywhere; Forward fails while bytes are held back | the screen shows the answer, nothing incomplete is printed |
| Tokenizer (`tokenizer/tokenizer.go`) | tables from the file | PreTokenize, Encode (bpe), Decode | a regular expression with look-ahead written out by hand; merges by rank | the same pieces as the expression, the same merges as training, round trip |
| GGUF (`gguf/`) | Writer: metadata, tensors, alignment; File: the parsed header | Set, AddTensor, WriteFile; Parse | three computations of one offset; files cut short; an error inside a loop that waits for a count | what is written is read, what is cut is refused |
| Launch wrappers (`backend/gpu/gpu.go`) | loaded module | Load, one launch per kernel | grid and shared memory per kernel; a kernel missing half-way through Load | every row covered once, the module closed |
| Kernels over rows (`kernels/rows.go`) | the buffers, often one for input and output | RMSNorm, Softmax, RoPE, SiluMul, Add | RoPE in place, two elements per item; a reduction with threads that have no element; odd head sizes | no race, equal to the CPU twin |
| Matrix kernels (`kernels/matvec.go`, `quantmv.go`) | none | MatVec F32, F16, Q4_0, Q4_K, Q6_K | early return of spare warps, block layouts read nibble by nibble in another order than the reference, int32 offsets | equal to the reference of `quant` |
| Dequantization, f16 (`quant/`, `f16/`) | none | Dequantize, Row, conversions | block layouts, rounding | the ggml formats |
| CPU twins (`backend/cpu`) | none | the kernels, sequentially | nothing; they are the reference of the tests | - |
| Ollama store (`ollama/`) | the file system, which ollama changes | Resolve | name to file, layers in a manifest, a store four directories above a manifest | the file that ollama would use |
| doctor, info (`cmd/gollama/doctor.go`, `main.go`) | problems counted, context and files open, models found | checks that nest and stop early, the list of models | models that vanish between two look-ups; failures not counted | the verdict is that of run, nothing stays open |
| PTX, CUDA binding | external | streams, launches, shuffles, barriers | - | assumed as documented |

The hazards behind these cells, each at its line, are in `PROJECT.json`.

## 2. Modules

Names of variables and actions follow the source. Each action is a whole step of
the code: a call of a function that does nothing concurrent is one action; where
the host can be overtaken by the device, or where a step can fail, it is divided.

**AttnDecode** is a launch of the attention kernel: `pc[h][th]` is where thread
`th` of block (head) `h` is, `v` its register in a reduction, `scores` the
block's shared row, `scratch` the reductions' shared array, `out` the result.
Threads move alone between barriers (`Sync`); the lanes of a warp move together
where the code shuffles (`WarpReduce`, which does the butterfly of `Shuffle`
level by level). Floating point is abstracted to the multiset of positions that
went into a value, so that a score lost, counted twice or taken from the other
reduction shows. What this leaves out is rounding: the order of a sum is not a
property here.

**Reference** is what the network computes, after the sequential forward pass of
the tests (`cpuForward` in `model/model_test.go`), without cache or buffers.
**Decode** is the promise of `Forward` to its caller: an answer is the logits of
the tokens fed so far, or an error that has fed nothing. **Forward** is the
code: the host copies the embedding and the position, issues the steps of every
layer in the code's order (`LayerSteps`) and copies the logits back; the device
runs the stream in order, on shared work buffers. A call can fail at each copy
and launch (`Error`); the stream goes on. `Implements` says that Forward
refines Decode. The kernels are uninterpreted functions; in MC_Forward they are
term constructors, so that values agree only if they were computed alike.

**Generate** is `run`: the eight set-up calls with four deferred closers, the
plan with its wrapping sum (`Wrap`), both loops, the stop test. `Forward` occurs
at its interface: it refuses a position or token out of range, may fail, and
otherwise returns logits with an arbitrary arg max. `logits.after` counts the
tokens they are the logits of: the slice that `Forward` reuses is one variable.

**ModelLoad** is `Load` and `Close`: the pieces of device memory in the order of
`load` (`Pieces`, `KindOf`), each allocated, filled, checked and registered as
its kind demands; the LM head is registered before its shape is checked.

**DotProduct** is what a matrix-vector product promises: each element of `y`
written once, with the dot product of its row, whose weights are those that
`quant.Dequantize` decodes. A weight is known by the bits it is decoded from, at
their places in the file, so that a lane that takes the wrong nibble, the scale
of another sub-block or the byte of another row shows; a sum by its terms and
how many there were, so that one taken twice shows. **MatVec** is the five
kernels and their wrappers: the refusal of formats and ragged rows, the grid of
warps, and for each format which terms a lane takes, with offsets that wrap as
int32 do (`I32`). A warp is one step: it reads only what nobody writes. It
refines DotProduct, whose promise holds for matrices that int32 offsets can
reach (`Fits`).

**RowKernels** is a launch of a kernel over rows or elements. Here each thread's
read and write are two steps, since the input may be the output; a reduction is
one step of a block that has arrived (`Reduce`), its inside being AttnDecode's.
RMSNorm and Softmax in place are safe by their shape, each thread writing only what
it alone reads; what can go wrong there is the reduction. Values are the terms that
compute them. `Twin` is what the loops of `backend/cpu`
make of the memory before the launch.

**PreTokenize** is the hand-written matcher (`MatchAt`) beside the regular
expression that its comment says it replaces, written as the set of texts that
each alternative matches (`RegexMatches`). **Encode** drives it from the start of
a text to its end and adds the merging of each piece, one merge per step, and
decoding. A character is a class member with its bytes; the printable letters
that GPT-2 vocabularies use for bytes are the bytes that they stand for.

**Utf8Writer** is the output buffer, with bytes told apart as far as UTF-8 does:
by the length that a lead byte announces and by which continuations may follow.
**Answer** composes it with Generate: each token printed is the bytes that the
vocabulary has for it, the buffer is flushed when the loop ends, and is not when
Forward fails. Its actions are conjunctions of an action of each.

**Ollama** is the resolution of a reference as an operator over a file system:
a function from paths, sequences of names, to what lies there. How a reference
splits into a name and a tag is given with it. A model is a namespace, a name and a
tag, as `Resolve` takes `llama` (of the namespace `library`) and `user/llama`. **Doctor** is `doctor` with
`gpu.Load`: every call that may fail, the early ends, what is acquired and
released, and the list of models, read one directory, one manifest and one file
at a time while `ollama` pulls and removes models between any two steps.

**Gguf** is the Writer, a disk that may keep only the first bytes, and Parse, on
sequences of bytes; the two sides meet only in the file. Numbers stay below 256,
so the upper bytes of each are zeros of the right count; a larger one, a length or
an offset, stands in its first byte whole. The bitwise arithmetic of the
alignment is done bit by bit (`And`), which proofs can follow. The reader's error
is sticky as in the code: a read that fails gives zeros. So is the writer's: after
it the count stands still, so that `pad` ends only if the count is aligned
(`wrote` is then "error", else "hangs"). What `Set` takes is all that `toValue` has
a case for, Values and []Value too. A scalar has the type it claims and the type
that what it holds has (`held`), since nothing makes them agree. `Regular` says
that every value has a listed type and the elements of an array that of its Elem.

The `MC_` modules hold the constants for TLC. The `...Proofs` modules extend a
module with its inductive invariant and theorems. No module with a theorem
reaches a recursive operator: what recurs there, AttnDecode's shuffle, Reference's
layers, Encode's merges and the offsets and items of Gguf, is a function. The
proofs about Gguf and those about ModelLoad share `ModelFileProofs`.

## 3. What the runs show

| Run | Bounds | Shows |
|---|---|---|
| AttnDecodeBlock | 1 block, 2 warps of 4 lanes, 10 positions, 5 dimensions | `NoRace`, `ReductionsComplete`, `OutputIsSoftmax` in every interleaving |
| AttnDecodeGrid | 2 blocks, 2 warps of 2 lanes, 1 position | `NoRace`: blocks stay apart; `NeverStuck`, `Terminates`: threads without a position still reach every barrier |
| Forward | 2 layers, 2 tokens, 3 positions, stream depth 2, 1 failure | `CacheExact`, `HistoryFrozen`, `Implements` |
| Answer | prompts of 2 to 15 tokens, caches of 1 to 18 rows, -n from -1 to IntMax = 31, two tokenizers; answers of 3 tokens over any two of 16 pieces of up to 3 bytes, of 4 over two bytes | `FedInOrder`, `GreedyFromLatest`, `CompleteAnswer`, `PlanFits`, `ResourcesNest`, `StreamIsAnswer`, `HeldBack`, `Exits` |
| ModelLoad | 2 layers | `NoLeak`, `FreedOnce` with a failure at any call, Close twice |
| MatVec | five formats, up to 5 rows, plain rows of 0 to 65, one, two and 33 blocks, 1 to 4 vectors, 2 warps in a block; int32 cut to 1023 | `Implements`, `Computes` |
| RowKernels | blocks of 2 threads, rows of 0 to 4 elements, 2 rows, 2 heads of even and odd size, in place and not | `NoRace`, `AsTwin`, `Returns` in every interleaving |
| Encode | every text of 4 characters over 9; of 5 over two sets of classes that interact; all tables of 3 merges over 2 letters, words of up to 5; three tables with texts of up to 4 characters, one of them of two bytes; a control token | `MatchesRegex`, `RoundTrip`, `MergedInOrder`, `RanksRise`, `NoControl`, `Encodes` |
| Gguf | up to 2 calls of Set, with eight values, up to 2 tensors, each file cut after every byte, a buffer of 96 bytes | `RoundTrip`, `OnlyRefusals`, `CutIsRefused` |
| Doctor | machines that lack nothing, one thing or two; 9 stores, with models of one namespace or two; 2 changes by ollama between any steps | `TrueVerdict`, `ListedRuns`, `ListsLibrary`, `Released`, `SameFile` |
| GenerateLongPrompt, GgufUnlisted | the commands with a long prompt; irregular values and bufio's buffer of 4096 bytes | violated: see findings |

Why the bounds are enough:

- *AttnDecode.* With 10 positions on 8 threads some threads own two, some one;
  with 4 lanes and 2 warps, lanes without a warp total exist (the `else` of the
  second stage). A third warp or reduction adds no new neighbour: races are
  between consecutive barrier intervals, which 2 warps show. `NoRace` is proved
  for every size.
- *Forward.* Two layers make the layers share work buffers, and the second one
  read what the first wrote; three positions make a row be read by two later
  calls; depth 2 lets the device lag over the boundary of steps and, when a call
  fails, of calls. The order of the stream makes more depth stutter-equivalent.
  One failing call is followed by a retry and by calls after it.
- *Answer.* Caches and prompts straddle equality on both sides, and IntMax is
  small enough that -n near it wraps. The pieces cut every kind of sequence at
  every byte, also where a continuation makes it invalid; a rune has at most four
  bytes and an answer up to nine.
- *Encode.* Three merges let a product be part of two later merges that compete
  for it, and words of five hold each pair twice, overlapping.
- *MatVec.* Rows on both sides of 32 and 64 give lanes no term, one or two, and a
  second block an offset. The bounds of int32 are reached: the largest x that
  fits and the first matrix that does not. What is inside a block has its real
  size. Every number of rows, columns and vectors is covered by proof.
- *RowKernels.* Two threads and rows of up to 4 give rows shorter than the block,
  as long, one longer and twice as long. Every size is covered by proof.
- *Gguf.* Two tensors show offsets and padding between them; two calls of Set
  let the alignment be set twice, before or after them, to 8, to 12, which is no
  power of two, and to a value that counts as 0. The small buffer lets the disk
  refuse at a count inside the file; no file here is as long as bufio's own. One
  value is irregular: without `Regular`, `RoundTrip` is false in this run.
- *Doctor.* Each store has one thing wrong or doubled: no blob, a blob cut short,
  another architecture, a second tag, a file of the working directory with a model's
  name, a model of a user (without its first condition `ListsLibrary` is false
  there). Two changes let a model vanish and another come within one walk.

## 4. Fairness

Five runs check a liveness property.

- `AttnDecode!FairSpec` and `RowKernels!FairSpec` are `WF_vars(Next)` over the
  whole grid: the device goes on while some thread can. Nothing weaker is usable
  and nothing stronger is needed, since every step brings some thread closer to
  its end: `Terminates` and `Returns` fail only if all remaining threads wait,
  and then for ever. Fairness between warps, which CUDA does not promise, is not
  assumed.
- `MatVec!FairSpec` is weak fairness of the launch and of some warp's step: the
  host makes its call, and the device goes on while a warp is left. A warp waits
  for no other.
- `Encode!EncFairSpec` and `Answer!AnswerFairSpec` are weak fairness of the next
  step: both are sequential calls, which are executed. `Encodes` fails if a match
  of length zero, or a merge that puts back what it took, makes a loop go round;
  `Exits` if the decode loop outlives its budget or a closer is never reached.

All other runs check safety. They set `CHECK_DEADLOCK FALSE` where the program
ends (a kernel, a run, a file parsed, a text encoded); `Forward` can always take
another call and is checked for deadlock.

## 5. What is proved

TLAPS checks, without a bound on any parameter:

| Theorem | Of | Assumes |
|---|---|---|
| `AttnDecodeProofs!RaceFree`, `TypeCorrect`, `AlwaysComplete`, `AlwaysSoftmax`, `AlwaysReady` | `NoRace`, `TypeOK`, `ReductionsComplete`, `OutputIsSoftmax`, `NeverStuck` | `GridAssumption`: sizes positive, no more warps than lanes, a power of two of lanes (a CUDA warp has 32) |
| `AttnDecodeProofs!EveryStepAdvances` | every step takes a thread or a warp further, none back | the same |
| `ForwardProofs!TypeCorrect`, `HistoryIsFrozen`, `CacheAlwaysExact` | `TypeOK`, `HistoryFrozen`, `CacheExact` | `ForwardAssumption`, `LayersAssumption`: sizes are numbers |
| `ForwardProofs!PromiseKept` | `Implements`: Forward refines Decode | the same |
| `AnswerProofs!TypeCorrect`, `AlwaysFedInOrder`, `AlwaysGreedyFromLatest`, `PlanAlwaysFits`, `AnswersAreComplete`, `ResourcesAlwaysNest` | the invariants of Generate | `GenerateAssumption`, `TokensAssumption`: what Encode returns are tokens |
| `AnswerProofs!RunsGenerate` | a run that prints is a run of Generate, so the line above holds of it | none |
| `AnswerProofs!AlwaysHeldBack`, `AlwaysOnScreen` | `HeldBack`, `StreamIsAnswer` | those of Generate and `PiecesAssumption`: a token's text is bytes |
| `AnswerProofs!EveryStepShrinks` | every step of run leaves less to do | those of Generate |
| `ModelFileProofs!TypeCorrect`, `NothingLeaks`, `EachFreedOnce` | the invariants of ModelLoad | `LayersAssumption` |
| `ModelFileProofs!AlwaysRoundTrip`, `AlwaysOnlyRefusals`, `AlwaysCutIsRefused` | `RoundTrip`, `OnlyRefusals`, `CutIsRefused` | `GgufAssumption`: keys and data are bytes, dimensions 1 to 255, what is not a string is one number, type numbers are bytes, the elements of an array are no arrays. The properties speak of regular values; Set takes others |
| `MatVecProofs!Implemented` | `Implements`: every step of MatVec is one of DotProduct or a stutter | `WarpsAssumption`, `CallsAssumption`: sizes are numbers |
| `MatVecProofs!TypeCorrect`, `AlwaysComplete` | `TypeOK`: no warp writes outside y; `Complete`: when all have returned every element is written | the same |
| `RowKernelsProofs!Raceless`, `Computed`, `TypeCorrect`, `AlwaysReady` | `NoRace`, `AsTwin`, `TypeOK`, `NeverStuck` | `CallsAssumption`: which buffers may be one, blocks not empty |
| `RowKernelsProofs!EveryStepAdvances` | every step takes a thread, or all of a block, further, none back | the same |
| `EncodeProofs!AlwaysRegex` | `MatchesRegex` | `CharsAssumption`, `ContractionsAssumption`: none of s t re ve m ll d (`tokenizer.go:210`) begins another |
| `EncodeProofs!AlwaysRoundTrip`, `AlwaysRise`, `AlwaysInOrder` | `RoundTrip`, `RanksRise`, `MergedInOrder` | and `ModelsAssumption`: each byte and each product of a merge is a token (`tokenizer.go:125`) |
| `EncodeProofs!EveryStepShrinks` | every step of Encode leaves less text, or fewer symbols of the piece | the same |
| `EncodeProofs!AlwaysNoControl` | `NoControl` | and `ControlAssumption`: the text of a control token is no byte and no product |
| `DoctorProofs!AlwaysTrueVerdict`, `AlwaysListedRuns`, `AlwaysListsLibrary`, `AlwaysReleased`, `AlwaysSameFile` | the invariants of Doctor | `NamesAssumption`, `DoctorAssumption`: the file system is a tree, and the working directory is not below the store |

Assumptions are about the parameters only, and TLC evaluates each in the runs.
Two are about the model file and are not checked by the code: that every byte and
every product is a token (where one is not, Encode takes the token of byte 0, at a
line whose comment says that it cannot happen), and that no merge makes a control
token.

The arguments:

*AttnDecode.* `NoRace` is not inductive: nothing in it says where other threads
are. `IInv` adds that all threads of a block are in one barrier interval
(`SamePhase`) and that a warp visits its own positions (`OwnPositions`). In each
interval, then, two threads touch a location together only if two strided loops
meet, which `StridesDisjoint` excludes by division, or if they are lane 0 of
the same warp. Blocks touch locations with different names (`BlocksApart`).
For the results, `Data` says by program point what each register, published
total, score and output holds. Its heart is the butterfly: with a power of two of
lanes, a lane has before the round of offset d the values of the lanes congruent
to it modulo 2d (`Group`), each once, so in the end those of all; the strided
loops split the positions over threads, and the warps' totals split them again.
The second reduction overwrites the first's totals only when all have read them
(`Unpublishing`).

*Forward.* `HistoryFrozen` needs to know what is pending. `IInv` says that all
that is in the stream, of this call or of one that failed, is for position
`Len(fed)` (`NextPosition`). It is kept because `fed` grows only when logits are
copied, which waits for the stream to be empty. A store therefore never writes
below `Len(fed)`. `CacheExact` needs `Progress` besides: from the copy into `x` on,
which waits too, only the call's own steps are pending, and after n of them the
buffers that later steps read hold what `Reference` defines (`InLayer`, a line for
each of the 17 steps, and `OnTop`). A buffer that a later step overwrites is not
mentioned any more, which is how K and V share one. `PromiseKept` then maps each
step to one of Decode or a stutter: the copy of the logits to an answer, the
errors to an error. No property of the kernels is used.

*Generate.* `Progress` counts: logits are those of the last call, and calls are
prompt tokens fed plus tokens printed. With it FedInOrder and GreedyFromLatest
are inductive. `PlanInv`, on top, keeps what the plan checked (`Planned`) and that
calls stay within the cache and printing within the budget; `WrapIsExact` turns
machine sums into sums outside the two cases that `PlanFits` names, which are
findings. `Deferred` says which closers are deferred at each set-up step.

*ModelLoad.* The closers are exactly the pieces acquired so far, in order
(`ClosersInOrder`), and live memory is those plus the one in hand
(`LiveIsOwned`), so closing the list frees each once and all.

*MatVec.* The invariant is small: a row is written when its warp has returned,
and a warp of another row has another element. The work is in the data. For each
format a lemma says that the place a lane reads, in the order of the kernel, is
the place of the element that the reference has there, by quotients and
remainders of 2, 4, 8, 16, 32 and 64; `TakenOnce` that lanes, blocks and parts
stand one to one to columns, so that the sum has as many terms; and
`OffsetsExact` that `I32` is the identity on every offset when `Fits` holds.

*RowKernels.* Neither property is inductive. For `NoRace`, `Own` says that a
thread's counter is always at an item of its own, and `Apart` that two items
have no element in common: places are rows and columns of one array
(`RowMajor`), also the pairs of RoPE. For `AsTwin`, `Right` says of every
element at which stage it is (`Stage`), from how many loops its owner has
finished with it (`Done`); so a thread, whenever it runs, reads what it should
(`ReadSees`): the elements it needs are its own, or nobody's. `AccRight` says
what each thread has added so far, and `ReducedIs` that at a barrier that makes
each item of the row once. `Covered` shows that the items reach every element but
the last of a head of odd size, which the twin leaves alone too.

*Answer.* A position of a text is open when the bytes from it on are the start of
one sequence, not all of it. A text has at most one; `keep`, which looks at four
bytes, and the reference `Incomplete`, which looks at all, both find it, and bytes
in front do not change it. So a write prints the right part of what was pending
and the new piece together, and `StreamIsAnswer` is inductive.

*Encode.* The alternatives of the expression are taken one by one and `MatchAt`
shown to find the longest match of the first that has one, so that the pieces cut
the text as the expression does (`Cutting`). `EncInv` adds that the symbols at hand
are bytes or products of merges and spell the piece, and that the ids so far
decode to the text so far. For `RanksRise`: in a trained table the parts of a
product are made before it, so a merge makes only pairs of a higher rank. For
`MergedInOrder`, `Ordered` says that doing all merges in the order of the table to
the symbols at hand gives what it gives of the bytes: merges below the lowest
rank present change nothing, and the one of that rank, which bpe does place by
place, commutes with doing it everywhere.

*Doctor.* The problems counted are those of the calls made so far (`Counted`).
The store changes under doctor, so the rest is about what a step of ollama leaves
alone (`Keeps`). Blobs, directories of names and manifests lie two, four and five
names below the store and the working directory is elsewhere (`Apart`): a step
about one model disturbs neither the library, nor the working directory, nor
manifest or blob of a model not touched. So the path at hand is that of its model
(`AtHand`), what was listed is still good (`Listed`), and a model that can be run is
listed or still ahead (`ListedAll`). This is about models of the library (`Own`), the
only ones that doctor looks at; ollama pulls and removes models of any namespace.

*Gguf.* None of the three properties is inductive: they speak of the end, and a
file is refused or accepted step by step. The part about the reader assumes
`Regular`, which neither disk nor reader changes (`IrregularKeeps`); a mistyped value
makes WriteTo panic, so that no file of one is read. `Inv` says where the reader is: at
`KeyAt(i)` after i keys, with those in its hands (`AfterKeys`), and at `InfoAt(i)`
after i tensors (`AfterTensors`), of what the Writer has gathered (`Gathered`: a
key once, values of the shapes that toValue makes, tensors whose data has the size
of their shape, and the alignment that the metadata says, in whatever order it
was set). Both places are sums of lengths of parts. `FlattenAt` and `HoldsJoined`
find a part of the file in its place. Of each kind of part, a number, a string, an
item of a list, a value, a tensor's entry, a lemma (`ReadNumIs`, `ReadStrIs`,
`ReadManyIs`, `ReadValueIs`, `TensorRead`) says that a reader in front of it comes
out behind it with what was written, or with an error, and in a complete file
without one; `Reads` is that statement, and two of them after each other are one
(`ReadsOn`). Since a file cut short is a beginning of the complete one (`Begins`),
the same lemmas serve both. The data needs the three computations of one place:
the padding that the Writer counts, the offsets that it rounds up and the rounding
of the reader agree when the alignment is a power of two (`AlignUpIs`, from
`LowBits`: the low bits are the remainder), and the reader refuses exactly the
others (`PowerTest`, a fact about bytes).

*That they end.* What can be proved of it without fairness is that something can
always be done and that each step does some of a finite amount. In a reduction the
lanes of a warp move together (`Lockstep`) and the threads of a block are in one
barrier interval, so in AttnDecode either a thread is short of the next barrier
and its warp can go on, or all are at it and it opens: `NeverStuck`. In
RowKernels the threads of a block are in one pass of its loops. `EveryStepAdvances` says
that program points and positions only grow, up to the last ones that the types
allow. `EveryStepShrinks` gives numbers, in lexicographic order, that each step lowers: in
Encode the text not yet cut, the pieces not yet looked up and the symbols of the
piece, since a match is never empty and a merge takes two symbols and puts back one;
in run the parts of it to come and, within a part, the set-up calls, prompt tokens,
budget or closers that are left.
In MatVec a step launches, or adds a warp to those that have returned, of a
finite grid; `Complete` says that then every element is written, because the
grid has a warp for each row of each vector (`WarpOf`). `Terminates`, `Returns`,
`Encodes`, `Exits` and `Computes` follow from these by fairness, a step that the
prover cannot take.

Induction is done over sets: the least element of a set of counterexamples, from
the well-foundedness of < on the numbers, has a predecessor that is none. Recursive
functions are shown to exist that way, step by step, before they are used.

Only model-checked: the liveness properties themselves (`Terminates`, `Returns`,
`Encodes`, `Exits`, `Computes`), which need fairness and are beyond the prover, and
the two properties that are findings. Only proved, with no run of their own:
`TypeOK` of AttnDecode, RowKernels, MatVec and ModelLoad, `NeverStuck` of
RowKernels and `Complete` of MatVec, which `Returns` and `Computes` include on small
instances. Every
invariant and every action property of the passing runs is proved.

## 6. Findings

Two places where the code does other than a message or a guard of it says, each
a run that TLC must find violated.

- *Long prompt* (`run.go:102`). With no -n and a prompt longer than the cache
  `*n` becomes negative and both checks pass; the prompt is fed until Forward
  refuses a position, instead of the message for a prompt that fills the cache.
- *An error that is not returned* (`writer.go:200`). A value of a type that `typed`
  has no case for sets the writer's error; so does a disk that is full. `bytes` then
  no longer counts, and `pad`, which waits for the count to be aligned, goes on for
  ever unless it happens to be. The message of `writer.go:248` is then never seen.

Four more are in the models and have no run of their own.

- The sum in `run.go:99` wraps for a -n close to the largest int and passes its
  check: the last disjunct of `PlanFits` is needed for it.
- `ollamaModels` "lists the models of the ollama store" (`doctor.go:119`) but reads
  the directory `library` only, while `Resolve`, and so run, takes `user/model`. Such
  a model is in neither list, and if there is no other doctor reports that models are
  missing. `ListsLibrary` is what holds.
- `Set` takes a `[]Value` of any contents. The array gets the type of its first
  element (`writer.go:88`), each element is written by its own type and read by the
  array's: a bool and a uint8 come back as two bools. `gguf.go:40` says "arrays as
  []Value with Elem set to the element type". Where the widths differ the reader is
  out of step, and what it then makes of the file is not modelled. `Regular` leaves
  both out of what is promised.
- `Set` panics on a slice of any type but string, int32, uint32, float32 and Value,
  where its comment (`writer.go:31`) allows a slice of any integer, float, bool or
  string.

In `PlanFits` the last two disjuncts name the two cases of the plan: outside
them the cache is never overrun, and that is proved.

Two remarks that have no run. `doctor` promises "a fix for each missing
piece" (`doctor.go:26`) and prints none for a context that cannot be made. It
looks each model up as `name:tag`, which Resolve takes for a file of the working
directory when there is one so named, and prints it without `:latest`. It can so
list a model as one that gollama can run because of a file that `run`, given the
name printed, does not open; or leave out one that `run` opens under the name
printed, because the file is of another kind. `ListedRuns` excepts both names and
`ListsLibrary` the one with the tag; with only the name printed excepted `ListedRuns`
is false, on the store of MC_Doctor that has a `qwen:latest` in the working directory.

## 7. Not modelled

- `f16` rounding: arithmetic on bit patterns, tested exhaustively by its tests.
- `backend/cpu` on its own: sequential loops. What they return is Reference,
  `Dot` and `Twin`.
- `info` prints one file and keeps no state; `installToolchain` of doctor runs an
  external script.
- PTX and the CUDA binding: external. Assumed: the default stream runs
  operations in order, host copies wait for it, a barrier holds until the whole
  block is there, a shuffle meets the lanes of its warp.
- The 48 KB of shared memory that bound the attention row (`gpu.go:120`): a limit
  of the device, past which the launch fails; Forward has failing launches.
- Nil buffers: `if b != nil` (`model.go:122`) never spares one, since a nil pointer
  in an interface is not nil. Close of the binding is assumed to accept it.
- int32 offsets in `rows.go`: activations, of one token, stay far below.
- Timing, and floating-point rounding.
- Of `gguf`: arrays of arrays; what is not a `[]Value` in a Value of type Array,
  which panics as a mistyped scalar does; Elem of a scalar, which nothing reads; the
  caller's slice changed between `Set` and `WriteFile`, which a Value shares with
  it; what a panic of WriteTo leaves in the file; the reader behind an array whose
  elements have another width than it expects (`InStep`); the bytes of numbers above
  255; the getters that convert. The theorems cover lengths and offsets of any size, as numbers that
  are not divided into bytes; that `binary.LittleEndian` puts and takes the same
  bytes is assumed. A shape whose last dimension is 0 is not among the inputs:
  AddTensor (`writer.go:120`) divides by it.

## 8. Plan

Done: AttnDecode, Reference, Decode, Forward, Generate, ModelLoad, MatVec on
DotProduct, RowKernels (with proofs), PreTokenize, Encode, Utf8Writer, Answer,
Gguf, Ollama, Doctor.

What is left: numbers above 255 and arrays of arrays in Gguf, where a number
would be its bytes instead of its first one; and the shared memory of the attention
row as a limit of the launch.
