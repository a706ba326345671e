SPECIFICATION Spec
CONSTANTS
  NumDesc = 5
  RxDescs = 2
  TxQuota = 2
  Budget = 2
  PadFails = TRUE
  MaxBacklog = 2
INVARIANTS TypeOK StoppedHasReason NoMissedCompletion NothingHeldWhenDown
  OneHolder HalvesApart UsedDescExact TxFailsOnlyWhenFull
PROPERTIES QueueRestarts UsesPool
