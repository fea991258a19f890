SPECIFICATION FairSpec
CONSTANTS
  Data = {d1, d2}
  MaxResponses = 3
  QueueCapacity = 2
  MaxPushes = 3
  Pending = Pending
  NoBlob = NoBlob
INVARIANTS
  TypeOK
  NoBlobAfterFailedPush
PROPERTIES
  DeliversInOrder
  EndIsReported
  StopFreesTheThread
  ImplementsUpload
  EveryCallReturns
CHECK_DEADLOCK FALSE
