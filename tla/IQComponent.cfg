SPECIFICATION FairSpec
CONSTANTS
  c1 = c1
  c2 = c2
  q1 = q1
  None = None
  Component = TRUE
  Calls = {c1, c2}
  PeerRequests = {}
  Ids = {c1, c2}
  IdOf <- DistinctIds
  Handled = {}
PROPERTY AnswersArrive
CHECK_DEADLOCK FALSE
