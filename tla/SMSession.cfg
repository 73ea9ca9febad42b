SPECIFICATION FairSpec
CONSTANTS
  Senders = {s1}
  MaxSends = 2
  MaxInbound = 2
  MaxRequests = 2
  MaxDials = 2
INVARIANTS IdsConsecutive QueueInSendOrder StoredUntilAcked SameSession ClaimsAreSound
PROPERTIES RequestDrainsQueue DeliverySpec
CHECK_DEADLOCK FALSE
