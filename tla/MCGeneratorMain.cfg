SPECIFICATION FairSpec
CONSTANTS
  a = a
  b = b
  c = c
  LineBreak = LineBreak
  Delimiter = Delimiter
  Blank = Blank
  NoTable = NoTable
  NoThread = NoThread
  Email <- MCEmail
  NumThreads = 2
  MaxEmails = 3
INVARIANTS
  TypeOK
  EmailFileIsComplete
  MappingMapsTheSample
PROPERTY
  RunsEnd
CHECK_DEADLOCK FALSE
