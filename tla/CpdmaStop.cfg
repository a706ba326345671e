SPECIFICATION Spec
CONSTANTS
  NumDesc = 3
  MaxSubmit = 4
  MaxStop = 1
  Quota = 1
  AckInTime = FALSE
INVARIANTS PoolExact
PROPERTIES GivesBackInOrder
CHECK_DEADLOCK FALSE
