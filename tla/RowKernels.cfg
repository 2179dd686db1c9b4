CONSTANTS
  Calls <- CallsMC
  BlockSize = 2
SPECIFICATION FairSpec
INVARIANTS NoRace AsTwin
PROPERTY Returns
CHECK_DEADLOCK FALSE
