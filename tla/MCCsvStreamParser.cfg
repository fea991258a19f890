SPECIFICATION FairParserSpec
CONSTANTS
  x = x
  LineBreak = LineBreak
  Delimiter = Delimiter
  Blank = Blank
  NoRow = NoRow
  Char <- MCChar
  Chunk <- MCChunk
  MaxBufferedDataSize = 4
  QueueCapacity = 2
  TextBound = 6
INVARIANTS
  ParserTypeOK
  BufferedWithinLimit
  BufferedIsExact
PROPERTIES
  ImplementsLineStream
  LinesAreDelivered
  RefusedChunkFindsRoom
CHECK_DEADLOCK FALSE
