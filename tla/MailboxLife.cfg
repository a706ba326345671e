SPECIFICATION Spec
CONSTANTS
  Mboxes = {m1, m2}
  NoMbox = NoMbox
  MaxUsers = 2
  MaxGets = 3
  MaxFails = 2
INVARIANTS TypeOK CountsExact ClockRuns QuiescedWhenFreed
CHECK_DEADLOCK FALSE
