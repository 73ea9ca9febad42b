SPECIFICATION FairSpec
CONSTANTS
  MaxConnects = 2
  MaxChunks = 2
  QueueSize = 1
  Packets = {"stanza", "error"}
INVARIANTS InOrder PanicsHaveCauses
PROPERTIES LossIsNoticed ReadersEnd
CHECK_DEADLOCK FALSE
