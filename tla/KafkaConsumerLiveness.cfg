CONSTANTS
  p1 = p1
  p2 = p2
  w1 = w1
  w2 = w2
  NoTask = NoTask
  Partition = {p1}
  Log <- PlainLog
  LogEnd <- PlainLogEnd
  Malformed <- PlainMalformed
  Worker = {w1}
  QueueSize = 1
  MaxAttempts = 2
  MaxGeneration = 2
SPECIFICATION FairSpec
PROPERTIES
  CancelledSessionEnds
  EventuallyAllCommitted
CHECK_DEADLOCK FALSE
