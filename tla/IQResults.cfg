SPECIFICATION FairSpec
CONSTANTS
  c1 = c1
  c2 = c2
  q1 = q1
  None = None
  Component = FALSE
  Calls = {c1, c2}
  PeerRequests = {q1}
  Ids = {c1, c2}
  IdOf <- SharedId
  Handled = {}
INVARIANTS PanicsNeedSharedRoute ResultIsOwn RoutesAreLive
PROPERTIES AnswersArrive ContextRemovesRoute RequestsAnswered
CHECK_DEADLOCK FALSE
