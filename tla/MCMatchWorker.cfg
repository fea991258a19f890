SPECIFICATION FairSpec
CONSTANTS
  a = a
  b = b
  ua = ua
  ub = ub
  LineBreak = LineBreak
  Delimiter = Delimiter
  Blank = Blank
  NoRow = NoRow
  NoTable = NoTable
  NoBlob = NoBlob
  Char <- MCChar
  Chunk <- MCChunk
  Files <- MCFiles
  Mappings <- MCMappings
  EncryptedId <- MCEncryptedId
  MaxBufferedDataSize = 3
  QueueCapacity = 1
  TextBound = 6
INVARIANTS
  TypeOK
  NoUploadLeftOpen
  FunctorNotMisused
  StreamSettledBeforeUse
  SuccessExportsTheMatches
  DanglesOnlyAfterEarlyReturn
PROPERTY
  ExportEnds
CHECK_DEADLOCK FALSE
