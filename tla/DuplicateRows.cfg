SPECIFICATION Spec
CONSTANTS
  Event = {e1}
  Worker = {w1, w2}
  NoEvent = NoEvent
  MaxFaults = 2
INVARIANT NoDuplicateRows
CHECK_DEADLOCK FALSE
