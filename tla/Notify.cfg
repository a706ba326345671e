SPECIFICATION Spec
CONSTANTS
  Senders = {s1, s2}
  NoThread = NoThread
  NumEvents = 2
  WaitModes = {TRUE}
  Kinds = {"many"}
  MaxPoll = 0
  BellCap = 2
  KfifoLen = 1
  MaxSends = 3
  MaxCtrl = 3
  MaxMask = 0
INVARIANTS TypeOK ScanFindsCallback NoLostWakeup
PROPERTIES IsBox EventsServed SendReturns
CHECK_DEADLOCK FALSE
