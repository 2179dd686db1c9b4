CONSTANTS
  Calls <- CallsMC
  MaxInt32 = 1023
  WarpsPerBlock = 2
SPECIFICATION FairSpec
PROPERTIES Implements Computes
CHECK_DEADLOCK FALSE
