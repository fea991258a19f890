SPECIFICATION FairSpec
CONSTANTS
  a = a
  b = b
  Unset = Unset
  NoTable = NoTable
  LineBreak = LineBreak
  Delimiter = Delimiter
  Blank = Blank
  Uuid <- MCUuid
  Lists <- MCLists
  QueueSize = 1
  MaxCalls = 2
INVARIANT
  BusyMeansEncrypting
CHECK_DEADLOCK FALSE
