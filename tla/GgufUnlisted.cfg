\* A Value of a type that typed has no case for, with bufio's buffer.
CONSTANTS
  KeyAlignment <- AlignmentKey
  Keys <- KeysMC
  GoValues <- IrregularMC
  Tensors <- IrregularTensorsMC
  TypeInfos <- TypeInfosMC
  MaxSets = 2
  MaxTensors = 1
  BufSize = 4096
SPECIFICATION Spec
INVARIANT ErrorReturned
CHECK_DEADLOCK FALSE
