SPECIFICATION FairSpec
CONSTANTS
  a = a
  b = b
  Unset = Unset
  NoTable = NoTable
  LineBreak = LineBreak
  Delimiter = Delimiter
  Blank = Blank
  Uuid <- MCUuid
  Lists <- MCLists
  QueueSize = 1
  MaxCalls = 2
INVARIANTS
  TypeOK
  MappingIsComplete
  UuidsAreUnique
  MappingReadsBack
  ReadyAfterSuccess
  BreaksOnlyWhenRefused
PROPERTY
  CallEnds
CHECK_DEADLOCK FALSE
