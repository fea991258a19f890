--------------------------- MODULE MCCsvStreamParser ---------------------------
EXTENDS CsvStreamParser

CONSTANT x   \* any character that is not the line break

MCChar == {x, LineBreak}
MCChunk == SeqOf(MCChar, 2)
================================================================================
