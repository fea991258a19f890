------------------------- MODULE MCPublisherListFetcher -------------------------
EXTENDS PublisherListFetcher

CONSTANTS a, b

MCChar == {a, b, Delimiter, LineBreak, Blank}
MCKinds == {"gcs", "local"}
MCGcs == {"gcs"}

\* Lists of none, one and two IDs; IDs with blanks around and inside; one whose
\* last row has no line break; one with an empty row; one with a delimiter in the
\* middle and one with delimiters at the end of the rows (the form the local
\* fetcher is tested with); one that never fits.
MCBlobs ==
  {<<>>,
   <<a, LineBreak>>,
   <<a, LineBreak, b, LineBreak>>,
   <<Blank, a, Blank, Blank, b, LineBreak>>,
   <<b, LineBreak, a>>,
   <<LineBreak, b, LineBreak>>,
   <<a, Delimiter, b, LineBreak, b, LineBreak>>,
   <<a, Delimiter, LineBreak, b, Delimiter, LineBreak>>,
   <<a, a, a, a, a, a, a, LineBreak>>}

\* What the two fetchers make of these lists.
MCChunk == UNION {ToSet(ChunksOf(k, list)) : k \in MCKinds, list \in MCBlobs}
================================================================================
