SPECIFICATION Spec
CONSTANTS
  Senders = {s1}
  MaxSends = 2
  MaxInbound = 0
  MaxRequests = 1
  MaxDials = 2
INVARIANT DiscardedWereHandled
CHECK_DEADLOCK FALSE
