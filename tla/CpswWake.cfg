SPECIFICATION EngineSpec
CONSTANTS
  NumDesc = 3
  RxDescs = 1
  TxQuota = 2
  Budget = 2
  PadFails = FALSE
  MaxBacklog = 1
PROPERTY RefusedIsOfferedAgain
