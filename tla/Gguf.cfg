\* Every file of at most two calls of Set and two tensors, cut after every byte; a
\* small buffer, so that the disk refuses early and late.
CONSTANTS
  KeyAlignment <- AlignmentKey
  Keys <- KeysMC
  GoValues <- GoValuesMC
  Tensors <- TensorsMC
  TypeInfos <- TypeInfosMC
  MaxSets = 2
  MaxTensors = 2
  BufSize = 96
SPECIFICATION Spec
INVARIANTS RoundTrip OnlyRefusals CutIsRefused
CHECK_DEADLOCK FALSE
