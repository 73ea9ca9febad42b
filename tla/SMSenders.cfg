SPECIFICATION Spec
CONSTANTS
  Senders = {s1, s2}
  MaxSends = 2
  MaxInbound = 0
  MaxRequests = 0
  MaxDials = 1
SYMMETRY Symmetry
INVARIANT StoredUntilAcked
CHECK_DEADLOCK FALSE
