SPECIFICATION Spec
CONSTANTS
  Senders = {s1, s2}
  NoThread = NoThread
  NumEvents = 1
  WaitModes = {TRUE}
  Kinds = {"single"}
  MaxPoll = 0
  BellCap = 2
  KfifoLen = 1
  MaxSends = 2
  MaxCtrl = 1
  MaxMask = 1
PROPERTY DisabledPayloadKept
CHECK_DEADLOCK FALSE
