CONSTANTS
  p1 = p1
  p2 = p2
  w1 = w1
  w2 = w2
  NoTask = NoTask
  Partition = {p1}
  Log <- OneLog
  LogEnd <- OneLogEnd
  Malformed <- OneMalformed
  Worker = {w1}
  QueueSize = 1
  MaxAttempts = 1
  MaxGeneration = 1
  HardPending = 9
  HardGate = 9
SPECIFICATION ProtectedFairSpec
PROPERTY PauseEndsWithPressure
CHECK_DEADLOCK FALSE
