\* Two layers, so that work buffers are reused between layers; three positions,
\* so that cache rows are read and must stay over several calls; one failing call, anywhere.
CONSTANTS
  Layers = 2
  VocabSize = 2
  MaxLen = 3
  StreamDepth = 2
  MaxFailures = 1
  Undef <- UndefTerm
  NoAnswer <- NoAnswerTerm
  Failure <- FailureTerm
  Embed <- TermEmbed
  RMSNorm <- TermRMSNorm
  MatVec <- TermMatVec
  RoPE <- TermRoPE
  Attend <- TermAttend
  Add <- TermAdd
  SiluMul <- TermSiluMul
SPECIFICATION Spec
INVARIANTS TypeOK CacheExact
PROPERTIES HistoryFrozen Implements
