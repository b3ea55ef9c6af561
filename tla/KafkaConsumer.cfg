CONSTANTS
  p1 = p1
  p2 = p2
  w1 = w1
  w2 = w2
  NoTask = NoTask
  Partition = {p1}
  Log <- GapLog
  LogEnd <- GapLogEnd
  Malformed <- GapMalformed
  Worker = {w1, w2}
  QueueSize = 2
  MaxAttempts = 2
  MaxGeneration = 2
SPECIFICATION Spec
SYMMETRY WorkerSymmetry
INVARIANTS
  IInv
  OnlySettledAcknowledged
  CommitterCoherent
  CommitterOwnedByClaim
  PendingCarriedOnce
  GateNeverUnderReports
PROPERTIES
  MarksInsideOpenClaim
  ImplementsAtLeastOnce
CHECK_DEADLOCK FALSE
