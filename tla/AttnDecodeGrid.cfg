\* Two concurrent blocks (heads) that share nothing but global memory.
\* KvLen = 1: the second position loop is empty for all threads but one,
\* and the second warp has no position at all.
CONSTANTS
  NumHeads = 2
  NumWarps = 2
  WarpSize = 2
  KvLen = 1
  HeadDim = 2
SPECIFICATION FairSpec
INVARIANTS NoRace NeverStuck
PROPERTY Terminates
CHECK_DEADLOCK FALSE
