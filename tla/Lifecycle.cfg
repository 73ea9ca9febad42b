SPECIFICATION Spec
CONSTANTS
  MaxDials = 2
  MaxPackets = 1
  Failures = {"dial", "stream", "session", "setup"}
INVARIANTS TypeOK SingleResumer RecvReadsOwn NoCrash
PROPERTY PermanentErrorEnds
CHECK_DEADLOCK FALSE
