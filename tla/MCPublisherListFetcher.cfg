SPECIFICATION Spec
CONSTANTS
  a = a
  b = b
  LineBreak = LineBreak
  Delimiter = Delimiter
  Blank = Blank
  NoRow = NoRow
  Char <- MCChar
  Chunk <- MCChunk
  Kinds <- MCKinds
  Blobs <- MCBlobs
  MaxBufferedDataSize = 7
  QueueCapacity = 2
  TextBound = 18
  MaxCalls = 4
INVARIANTS
  TypeOK
  GoodRowsAreFetched
CHECK_DEADLOCK FALSE
