SPECIFICATION Spec
CONSTANTS
  NumDesc = 3
  MaxSubmit = 5
  MaxStop = 0
  Quota = 2
  AckInTime = TRUE
INVARIANTS TypeOK EngineOwnsItsDescriptor TransferredInOrder GivenBackAfterTransfer
PROPERTIES HdpWrittenWhenIdle AllGivenBack
CHECK_DEADLOCK FALSE
