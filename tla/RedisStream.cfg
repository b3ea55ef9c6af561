SPECIFICATION FairSpec
CONSTANTS
  MaxEntry = 3
  Malformed = {2}
  Consumer = {c1, c2}
  Count = 2
  MaxAttempts = 2
  HasDeadLetterStream = TRUE
  MaxFaults = 2
INVARIANTS
  NothingLost
  ExactWithoutFaults
  FreshOnlyWhenDrained
PROPERTY EventuallySettled
CHECK_DEADLOCK FALSE
