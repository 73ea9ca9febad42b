SPECIFICATION FairSpec
CONSTANTS
  MaxDials = 3
  MaxStanzas = 1
  MaxCalls = 2
INVARIANT OneReader
PROPERTIES NoAuthLoop LossIsAnswered
CHECK_DEADLOCK FALSE
