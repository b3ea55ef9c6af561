SPECIFICATION FairSpec
CONSTANTS
  Event = {e1}
  Worker = {w1, w2, w3}
  NoEvent = NoEvent
  MaxFaults = 5
INVARIANTS
  WriteInv
  AckedStored
  AttemptsCoverRows
  DuplicatesNeedAWindow
PROPERTY EventuallyAcked
CHECK_DEADLOCK FALSE
