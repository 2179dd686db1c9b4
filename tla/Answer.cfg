\* Every kind of command line: prompts that fit, that fill the cache and that
\* are too long; -n negative, zero, small and near the largest int; and answers
\* over every two of many pieces.
CONSTANTS
  Commands <- AnswerCommands
  Tokenizers <- MCTokenizers
  Encode <- MCEncode
  PiecesOf <- MCPieces
  NoText = "none"
  VocabSize = 5
  CtxLen = 18
  IntMax = 31
SPECIFICATION AnswerFairSpec
INVARIANTS TypeOK FedInOrder GreedyFromLatest CompleteAnswer PlanFits ResourcesNest StreamIsAnswer HeldBack
PROPERTY Exits
CHECK_DEADLOCK FALSE
