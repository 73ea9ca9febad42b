SPECIFICATION FairSpec
CONSTANTS
  MaxDials = 3
  MaxPackets = 0
  Failures = {"stream"}
PROPERTIES Reconnects GoroutinesEnd
CHECK_DEADLOCK FALSE
