----------------------------- MODULE MCMatchWorker -----------------------------
EXTENDS MatchWorker

CONSTANTS a, b, ua, ub   \* two IDs and their encrypted forms

MCChar == {a, b, ua, ub, LineBreak, Delimiter, Blank}

\* Every list of at most two chunks of at most two letters, lists long enough to
\* start an upload and push twice, and rows with blanks and delimiters.
MCFiles ==
  SeqOf(SeqOf({a, b, LineBreak}, 2), 2) \cup
  TupleOf({<<a, LineBreak>>, <<b, LineBreak>>, <<LineBreak, a>>}, 3) \cup
  { << <<Blank, a>>, <<LineBreak>> >>,
    << <<a, Blank, LineBreak>>, <<b, LineBreak>> >>,
    << <<a, LineBreak>>, <<b, Delimiter, LineBreak>> >>,
    << <<Blank, LineBreak>>, <<b, LineBreak>> >> }
MCChunk == UNION {ToSet(f) : f \in MCFiles}

\* Both are the publisher's, between blanks; both, but the last row has no line
\* break; a is there twice; a row has too few columns.
MCMappings ==
  { <<a, Blank, Delimiter, ua, LineBreak, b, Delimiter, Blank, ub, LineBreak>>,
    <<a, Delimiter, ua, LineBreak, b, Delimiter, ub>>,
    <<a, Delimiter, ua, LineBreak, a, Delimiter, ub, LineBreak>>,
    <<a, Delimiter, ua, LineBreak, b, LineBreak>> }
MCEncryptedId == {<<ua>>, <<ub>>}
================================================================================
