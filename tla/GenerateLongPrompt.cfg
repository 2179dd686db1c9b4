\* A prompt longer than the cache and no -n.
CONSTANTS
  Commands <- TooLong
  Tokenizers <- MCTokenizers
  Encode <- MCEncode
  NoText = "none"
  VocabSize = 5
  CtxLen = 18
  IntMax = 31
SPECIFICATION Spec
INVARIANT LongPromptReported
CHECK_DEADLOCK FALSE
