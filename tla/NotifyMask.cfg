SPECIFICATION Spec
CONSTANTS
  Senders = {s1, s2}
  NoThread = NoThread
  NumEvents = 2
  WaitModes = {TRUE, FALSE}
  Kinds = {"single", "many"}
  MaxPoll = 2
  BellCap = 2
  KfifoLen = 1
  MaxSends = 2
  MaxCtrl = 3
  MaxMask = 1
SYMMETRY SenderSymmetry
INVARIANTS GateExact WaitersNeverOverwrite ChartExact
CHECK_DEADLOCK FALSE
