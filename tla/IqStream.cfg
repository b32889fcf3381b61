SPECIFICATION FairSpec
CONSTANTS
  N = 2
  RingChunks = 1
  StallLimit = 2
  MaxFaults = 2
  MaxResets = 1
INVARIANTS QueueHasRoom 
PROPERTIES FlushOnlyWhenSilent WedgeHandled
CHECK_DEADLOCK FALSE
