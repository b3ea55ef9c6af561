CONSTANTS
  p1 = p1
  p2 = p2
  w1 = w1
  w2 = w2
  NoTask = NoTask
  Partition = {p1, p2}
  Log <- TwoLog
  LogEnd <- TwoLogEnd
  Malformed <- TwoMalformed
  Worker = {w1}
  QueueSize = 1
  MaxAttempts = 1
  MaxGeneration = 2
  HardPending = 9
  HardGate = 9
SPECIFICATION ProtectedFairSpec
INVARIANTS
  
  
  QuietPauseIsStale
PROPERTY CommittedUnlessStale
CHECK_DEADLOCK FALSE
