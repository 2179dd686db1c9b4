\* One block of 2 warps of 4 lanes: lanes 2 and 3 hold no warp total.
\* 10 positions over 8 threads: two threads have two, a warp has five.
CONSTANTS
  NumHeads = 1
  NumWarps = 2
  WarpSize = 4
  KvLen = 10
  HeadDim = 5
SPECIFICATION Spec
INVARIANTS NoRace ReductionsComplete OutputIsSoftmax
CHECK_DEADLOCK FALSE
