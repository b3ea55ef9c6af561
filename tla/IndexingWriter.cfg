SPECIFICATION FairSpec
CONSTANTS
  Event = {e1, e2}
  Bare = {e2}
  Worker = {w1, w2}
  NoEvent = NoEvent
  MaxFaults = 4
INVARIANTS
  IndexInv
  AckedComplete
  OnePropertyClaim
  PropertyDuplicatesNeedAFailedSend
PROPERTIES
  AmbiguousForGood
  ImplementsVisibility
  EventuallyWritten
CHECK_DEADLOCK FALSE
