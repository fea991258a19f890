-------------------------- MODULE PublisherListFetcher --------------------------
(****************************************************************************)
(* The calls of FetchPublisherIds that are made, one after another, on one  *)
(* fetcher: a GcsPublisherListFetcher (gcs_publisher_list_fetcher.cc), which*)
(* gives its parser a blob as one chunk, or a LocalPublisherListFetcher     *)
(* (local_publisher_list_fetcher.cc), which gives it the pieces of a file   *)
(* between the delimiters.  All calls share one CsvStreamParser, which      *)
(* nobody ever clears: what a call leaves in it is the next call's.  All is *)
(* done by one thread, so the steps of the parser (CsvStreamParser, composed*)
(* here as it is) follow one another; the module is about what goes from    *)
(* one call to the next.  The list is one ID per row (csv_row.cc).          *)
(****************************************************************************)
EXTENDS CsvStreamParser

CONSTANTS
  Kinds,       \* the fetchers looked at: "gcs", "local"
  Blobs,       \* the contents of the blobs, or files, to be fetched
  MaxCalls     \* bound of the model: calls of FetchPublisherIds

VARIABLES
  kind,         \* which fetcher it is
  at,           \* where FetchPublisherIds is; "idle" between calls
  toAdd,        \* the chunks still to be given to the parser
  ids,          \* the IDs of the response
  fetchResult,  \* what the latest finished call returned
  calls,        \* history: calls begun so far
  blob,         \* history: the blob of the latest call that got one
  regular,      \* history: every blob so far was well-formed and taken whole
  regularBefore \* history: so was every blob before the latest one

\* The chunks a fetcher makes of what it reads.
ChunksOf(k, b) == IF k = "gcs" THEN <<b>> ELSE Getline(b, Delimiter)

ASSUME FetcherAssumption ==
  /\ Blank \in Char /\ Delimiter \in Char \ {LineBreak, Blank}
  /\ Kinds \subseteq {"gcs", "local"}
  /\ Blobs \subseteq Seq(Char)
  /\ \A k \in Kinds, b \in Blobs : ToSet(ChunksOf(k, b)) \subseteq Chunk
  /\ MaxCalls \in Nat

history == <<calls, blob, regular, regularBefore>>
vars == <<parserVars, kind, at, toAdd, ids, fetchResult, history>>

\* What a well-formed list is, said without Build: each line is one non-empty
\* column and ends in a line break.
Given(b) == FlattenSeq(ChunksOf(kind, b))
OneColumn(line) == line # <<>> /\ Delimiter \notin ToSet(line)
WellFormed(b) ==
  /\ Given(b) = <<>> \/ Last(Given(b)) = LineBreak
  /\ \A line \in ToSet(CompleteLines(Given(b))) : OneColumn(line)

Init ==
  /\ ParserInit
  /\ kind \in Kinds
  /\ at = "idle"
  /\ toAdd = <<>>
  /\ ids = <<>>
  /\ fetchResult = "none"
  /\ calls = 0
  /\ blob = <<>>
  /\ regular = TRUE
  /\ regularBefore = TRUE

Return(r) == at' = "idle" /\ fetchResult' = r

\* GetBlobSync fails, or the file cannot be opened: so does the call.
FetchFails ==
  /\ at = "idle"
  /\ calls < MaxCalls
  /\ calls' = calls + 1
  /\ Return("Failure")
  /\ UNCHANGED <<parserVars, kind, toAdd, ids, blob, regular, regularBefore>>

Fetch(b) ==
  /\ at = "idle"
  /\ calls < MaxCalls
  /\ calls' = calls + 1
  /\ at' = "adding"
  /\ toAdd' = ChunksOf(kind, b)
  /\ ids' = <<>>
  /\ blob' = b
  /\ regular' = (regular /\ WellFormed(b))
  /\ regularBefore' = regular
  /\ UNCHANGED <<parserVars, kind, fetchResult>>

\* AddCsvChunk takes the next chunk ...
AddChunk ==
  /\ at = "adding"
  /\ toAdd # <<>>
  /\ BeginChunk(Head(toAdd))
  /\ at' = "inParser"
  /\ UNCHANGED <<kind, toAdd, ids, fetchResult, history>>

\* ... or has no room for it: the call fails, and leaves the chunks before it.
ChunkRefused ==
  /\ at = "adding"
  /\ toAdd # <<>>
  /\ RefuseChunk(Head(toAdd))
  /\ Return("Failure")
  /\ regular' = (regularBefore /\ toAdd = ChunksOf(kind, blob))
  /\ UNCHANGED <<kind, toAdd, ids, calls, blob, regularBefore>>

AddingChunk ==
  /\ at = "inParser"
  /\ FinishAddCsvChunk
  /\ UNCHANGED <<kind, at, toAdd, ids, fetchResult, history>>

\* Mutation: the next chunk is added while the parser works on this one.
ChunkAddedEarly ==
  /\ at = "inParser"
  /\ toAdd' = Tail(toAdd)
  /\ IF addResult = "Success"
     THEN at' = "adding" /\ UNCHANGED <<fetchResult, regular>>
     ELSE Return("Failure") /\ regular' = FALSE
  /\ UNCHANGED <<parserVars, kind, ids, calls, blob, regularBefore>>

ChunkAdded ==
  /\ at = "inParser"
  /\ producer = "idle"
  /\ toAdd' = Tail(toAdd)
  /\ IF addResult = "Success"
     THEN at' = "adding" /\ UNCHANGED <<fetchResult, regular>>
     ELSE Return("Failure") /\ regular' = FALSE
  /\ UNCHANGED <<parserVars, kind, ids, calls, blob, regularBefore>>

\* The file fails somewhere before its end.
ReadFails ==
  /\ kind = "local"
  /\ at = "adding"
  /\ Return("Failure")
  /\ regular' = (regularBefore /\ toAdd = ChunksOf(kind, blob))
  /\ UNCHANGED <<parserVars, kind, toAdd, ids, calls, blob, regularBefore>>

AllAdded ==
  /\ at = "adding"
  /\ toAdd = <<>>
  /\ at' = "rows"
  /\ UNCHANGED <<parserVars, kind, toAdd, ids, fetchResult, history>>

\* GetNextRow: dequeue, give the bytes back ...
GetRow ==
  /\ at = "rows"
  /\ GetNextRow
  /\ at' = IF taken = NoRow THEN at ELSE "built"
  /\ UNCHANGED <<kind, toAdd, ids, fetchResult, history>>

\* ... and Build: an ID for the response, and on to the next row,
AddId ==
  /\ at = "built"
  /\ BuildSucceeds(Last(delivered), 1)
  /\ ids' = Append(ids, GetColumn(Last(delivered), 0))
  /\ at' = "rows"
  /\ UNCHANGED <<parserVars, kind, toAdd, fetchResult, history>>

\* or an error, which ends the loop as the lack of a row does.
StopAtBadRow ==
  /\ at = "built"
  /\ ~BuildSucceeds(Last(delivered), 1)
  /\ Return("Success")
  /\ UNCHANGED <<parserVars, kind, toAdd, ids, history>>

StopAtNoRow ==
  /\ at = "rows"
  /\ taken = NoRow
  /\ rows = <<>>
  /\ Return("Success")
  /\ UNCHANGED <<parserVars, kind, toAdd, ids, history>>

Work ==
  \/ AddChunk \/ ChunkRefused \/ AddingChunk \/ ChunkAdded \/ ReadFails
  \/ AllAdded \/ GetRow \/ AddId \/ StopAtBadRow \/ StopAtNoRow

Next == FetchFails \/ Work \/ \E b \in Blobs : Fetch(b)

Spec == Init /\ [][Next]_vars

--------------------------------------------------------------------------------
\* The variables' types; a row is looked at only when one has been delivered,
\* and the parser works only inside AddCsvChunk.
TypeOK ==
  /\ ParserTypeOK
  /\ kind \in Kinds
  /\ at \in {"idle", "adding", "inParser", "rows", "built"}
  /\ at # "inParser" => producer = "idle"
  /\ at = "built" => delivered # <<>> /\ taken = NoRow
  /\ IsSuffix(toAdd, ChunksOf(kind, blob)) \/ blob = <<>>
  /\ ids \in Seq(Seq(Char))
  /\ fetchResult \in {"none", "Success", "Failure"}
  /\ calls \in 0..MaxCalls
  /\ blob \in Blobs \cup {<<>>}
  /\ {regular, regularBefore} \subseteq BOOLEAN

Fetched == at = "idle" /\ fetchResult = "Success"

\* The IDs of a list before its first line that is not one column.
GoodIds(b) ==
  LET lines == CompleteLines(Given(b))
      good  == {n \in 0..Len(lines) : \A i \in 1..n : OneColumn(lines[i])}
  IN  [i \in 1..Max(good) |-> RemoveExtraAsciiWhitespace(lines[i])]

\* While every earlier list was well-formed and taken whole, a successful call
\* returns exactly the IDs of its own list, in order, up to the first row that is
\* not one column; if there is none, it leaves the parser as it found it: no row,
\* no half of a row, no byte on the counter.
GoodRowsAreFetched ==
  regularBefore /\ Fetched =>
    /\ ids = GoodIds(blob)
    /\ regular => rows = <<>> /\ cursor = Len(text) + 1 /\ buffered_data_size = 0

\* publisher_list_fetcher.h:37 says of the ids of a response: "The IDs that have
\* been fetched."  So they are lines of the blob this call has fetched.
IdsAreOfTheBlob ==
  Fetched /\ blob # <<>> =>
    \A i \in DOMAIN ids :
      \E line \in ToSet(AllLines(Given(blob))) :
        ids[i] = RemoveExtraAsciiWhitespace(line)
================================================================================
