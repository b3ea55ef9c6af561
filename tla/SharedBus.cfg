SPECIFICATION Spec
CONSTANTS


  Group = {"a", "b"}
  Log = {0, 1}
  LogEnd = 2
  MaxGeneration = 2
INVARIANT CommittedBySelf
CHECK_DEADLOCK FALSE
