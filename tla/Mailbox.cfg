SPECIFICATION Spec
CONSTANTS
  KfifoLen = 2
  FifoDepth = 2
  MaxSend = 4
  MaxPost = 4
  MaxMask = 1
INVARIANTS TypeOK TxNoStall TxConserved RxNoStall RxWorkComes
PROPERTIES TxIsReliable RxInOrder TxDelivers RxDrains
CHECK_DEADLOCK FALSE
