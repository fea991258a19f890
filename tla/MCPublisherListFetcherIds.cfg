SPECIFICATION Spec
CONSTANTS
  a = a
  b = b
  LineBreak = LineBreak
  Delimiter = Delimiter
  Blank = Blank
  NoRow = NoRow
  Char <- MCChar
  Chunk <- MCChunk
  Kinds <- MCGcs
  Blobs <- MCBlobs
  MaxBufferedDataSize = 7
  QueueCapacity = 2
  TextBound = 18
  MaxCalls = 2
INVARIANT IdsAreOfTheBlob
CHECK_DEADLOCK FALSE
