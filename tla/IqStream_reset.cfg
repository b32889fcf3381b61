SPECIFICATION FairSpec
CONSTANTS
  N = 2
  RingChunks = 1
  StallLimit = 2
  MaxFaults = 0
  MaxResets = 1
PROPERTY ResetRestoresStream
CHECK_DEADLOCK FALSE
