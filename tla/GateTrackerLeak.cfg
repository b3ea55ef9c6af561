CONSTANTS
  p1 = p1
  p2 = p2
  w1 = w1
  w2 = w2
  NoTask = NoTask
  Partition = {p1}
  Log <- GapLog
  LogEnd <- GapLogEnd
  Malformed <- GapMalformed
  Worker = {w1}
  QueueSize = 1
  MaxAttempts = 1
  MaxGeneration = 2
SPECIFICATION Spec
INVARIANT WaitingTasksExact
CHECK_DEADLOCK FALSE
