SPECIFICATION Spec
CONSTANTS
  KfifoLen = 2
  FifoDepth = 2
  MaxSend = 0
  MaxPost = 5
  MaxMask = 0
INVARIANT RxNothingLost
CHECK_DEADLOCK FALSE
