------------------------------ MODULE MatchWorker ------------------------------
(****************************************************************************)
(* src/cc/matcher/match_worker/src/match_worker.cc: one call of             *)
(* ExportMatches.  Two threads share the locals of that call:               *)
(*   - main, which runs ExportMatches: it fetches and parses the            *)
(*     publisher's mapping, starts the download of the advertiser's list,   *)
(*     polls the parser for rows, uploads the encrypted ID of each row that *)
(*     matches, and completes or cancels the upload;                        *)
(*   - task, the executor's thread inside BlobStreamer, which runs the      *)
(*     callback given to GetBlobStream: it feeds chunks to the parser and   *)
(*     at the end stores the result and raises all_advertiser_ids_received. *)
(*                                                                          *)
(* The module composes three others.  The parser csv_parser is the detailed *)
(* one: each of its steps is an action of CsvStreamParser.  The two sides of*)
(* BlobStreamer appear as what they are shown to implement: the callback    *)
(* sees the chunks in order and then the final call (OrderedDelivery), and  *)
(* the function returned by PutBlobStream keeps the promises of Upload.     *)
(*                                                                          *)
(* The advertiser's list is one ID per row; CsvRow::Build refuses a row of  *)
(* any other number of columns.  The mapping is the text GetBlobSync gave.  *)
(****************************************************************************)
EXTENDS CsvStreamParser, PublisherMapping

CONSTANTS
  Files,        \* the advertiser lists, each as the chunks it is streamed in
  Mappings,     \* the publisher mappings
  EncryptedId,  \* their second columns
  NoBlob        \* nothing has been uploaded

ASSUME MatchWorkerAssumption ==
  /\ Blank \in Char
  /\ Files \subseteq Seq(Chunk)
  /\ Mappings \subseteq Seq(Char)
  /\ \A mapping \in Mappings : \A line \in ToSet(CompleteLines(mapping)) :
       BuildSucceeds(line, 2) => GetColumn(line, 1) \in EncryptedId

VARIABLES
  \* the upload behind add_chunk_functor
  accepted, blob, verdict,
  \* ExportMatches
  file,                         \* the advertiser's list of this call
  main,                         \* where main is
  lastPass,                     \* main is in the GetExistingRows after the loop
  match_table,                  \* match_table_
  add_chunk_functor,            \* "empty" or "bound"
  get_stream_result,            \* starts as a failure, see execution_result.h
  all_advertiser_ids_received,
  exportResult,                 \* what ExportMatches returned
  \* the streaming task
  task,                         \* where the callback is
  toCome,                       \* the chunks the callback has not seen yet
  streamOutcome,                \* the result the stream ended with
  \* history
  lost,                         \* an AddCsvChunk did not succeed
  dangling                      \* the callback ran after ExportMatches returned

Uploading == INSTANCE Upload WITH Data <- EncryptedId

uploadVars == <<accepted, blob, verdict>>
exportVars == <<match_table, add_chunk_functor, lastPass, exportResult>>
taskVars == <<task, toCome, streamOutcome, get_stream_result,
              all_advertiser_ids_received, lost, dangling>>
vars == <<parserVars, uploadVars, exportVars, taskVars, file, main>>

Returned == main \in {"returned", "crashed"}

\* The values an ExecutionResult takes here.  "Default" is the value an
\* ExecutionResult is born with, which is a failure.
Successful(r) == r = "Success"

Init ==
  /\ ParserInit
  /\ Uploading!UInit
  /\ file \in Files
  /\ main = "fetch"
  /\ lastPass = FALSE
  /\ match_table = EmptyTable
  /\ add_chunk_functor = "empty"
  /\ get_stream_result = "Default"
  /\ all_advertiser_ids_received = FALSE
  /\ exportResult = "none"
  /\ task = "none"
  /\ toCome = file
  /\ streamOutcome = "none"
  /\ lost = FALSE
  /\ dangling = FALSE

(****************************************************************************)
(* main, before the loop.                                                   *)
(****************************************************************************)

\* ExportMatches returns r.
Return(r) ==
  /\ main' = "returned"
  /\ exportResult' = r

\* No table: GetBlobSync failed, a row has not two columns, or a key is there
\* twice.  (What match_table_ holds then is not looked at again.)
FetchedTables == {ParsedMapping(m) : m \in Mappings} \cup {NoTable}

FetchMapping ==
  /\ main = "fetch"
  /\ \E t \in FetchedTables :
       \/ /\ t # NoTable
          /\ match_table' = t
          /\ main' = "startStream"
          /\ UNCHANGED exportResult
       \/ t = NoTable /\ Return("Failure") /\ UNCHANGED match_table
  /\ UNCHANGED <<parserVars, uploadVars, taskVars, file, add_chunk_functor,
                 lastPass>>

StartStream ==
  /\ main = "startStream"
  /\ \/ task' = "waiting" /\ main' = "loop" /\ UNCHANGED exportResult
     \/ Return("Failure") /\ UNCHANGED task      \* the task was not scheduled
  /\ UNCHANGED <<parserVars, uploadVars, file, match_table,
                 add_chunk_functor, lastPass, toCome, streamOutcome,
                 get_stream_result, all_advertiser_ids_received, lost, dangling>>

(****************************************************************************)
(* main, the loop and GetExistingRows.                                      *)
(****************************************************************************)

MainGoes(from, to) ==
  /\ main = from
  /\ main' = to
  /\ UNCHANGED <<uploadVars, taskVars, file, match_table,
                 add_chunk_functor, exportResult>>

\* while (!all_advertiser_ids_received)
TestReceived ==
  /\ IF all_advertiser_ids_received
     THEN MainGoes("loop", "checkResult")
     ELSE MainGoes("loop", "rows")
  /\ UNCHANGED <<parserVars, lastPass>>

\* HasRow is false: GetExistingRows returns success.
NoMoreRows ==
  /\ rows = <<>>
  /\ taken = NoRow
  /\ MainGoes("rows", IF lastPass THEN "complete" ELSE "loop")
  /\ UNCHANGED <<parserVars, lastPass>>

TakeNextRow == MainGoes("rows", "getting") /\ TakeRow /\ UNCHANGED lastPass
ReturnNextRow == MainGoes("getting", "row") /\ ReturnRow /\ UNCHANGED lastPass

row == Last(delivered)
ValidRow == BuildSucceeds(row, 1)
plaintext_id == GetColumn(row, 0)
Matched == ValidRow /\ HasElement(match_table, plaintext_id)
Encrypted == GetValue(match_table, plaintext_id)

\* Mutation: an error does not reach the upload.
CancelNothing == UNCHANGED uploadVars

\* The bound function is called with an error, which ends the upload.
CancelUploadIfStarted ==
  IF add_chunk_functor = "bound" THEN Uploading!Abort ELSE UNCHANGED uploadVars

BadRow ==
  /\ main = "row"
  /\ ~ValidRow
  /\ CancelUploadIfStarted
  /\ Return("Failure")
  /\ UNCHANGED <<parserVars, taskVars, file, match_table, add_chunk_functor,
                 lastPass>>

UnmatchedRow ==
  /\ MainGoes("row", "rows")
  /\ ValidRow
  /\ ~Matched
  /\ UNCHANGED <<parserVars, lastPass>>

\* The first match starts the upload.
StartUpload ==
  /\ main = "row"
  /\ Matched
  /\ add_chunk_functor = "empty"
  /\ match_table' = MarkMatched(match_table, plaintext_id)
  /\ \/ /\ Uploading!Open(Encrypted)
        /\ add_chunk_functor' = "bound"
        /\ main' = "rows"
        /\ UNCHANGED exportResult
     \/ Return("Failure") /\ UNCHANGED <<uploadVars, add_chunk_functor>>
  /\ UNCHANGED <<parserVars, taskVars, file, lastPass>>

\* Mutation: the result of the push is not looked at.
PushMatchUnchecked ==
  /\ main = "row"
  /\ Matched
  /\ add_chunk_functor = "bound"
  /\ match_table' = MarkMatched(match_table, plaintext_id)
  /\ main' = "rows"
  /\ Uploading!Push(Encrypted) \/ Uploading!Abort
  /\ UNCHANGED <<parserVars, taskVars, file, add_chunk_functor, lastPass,
                 exportResult>>

\* Every other one is pushed; a push that fails has ended the upload.
PushMatch ==
  /\ main = "row"
  /\ Matched
  /\ add_chunk_functor = "bound"
  /\ match_table' = MarkMatched(match_table, plaintext_id)
  /\ \/ Uploading!Push(Encrypted) /\ main' = "rows" /\ UNCHANGED exportResult
     \/ Uploading!Abort /\ Return("Failure")
  /\ UNCHANGED <<parserVars, taskVars, file, add_chunk_functor, lastPass>>

(****************************************************************************)
(* main, after the loop.                                                    *)
(****************************************************************************)

StreamFailed ==
  /\ main = "checkResult"
  /\ ~Successful(get_stream_result)
  /\ CancelUploadIfStarted
  /\ Return("Failure")
  /\ UNCHANGED <<parserVars, taskVars, file, match_table, add_chunk_functor,
                 lastPass>>

\* Mutation: no last pass over the rows.
StreamSucceededNoLastPass ==
  /\ Successful(get_stream_result)
  /\ MainGoes("checkResult", "complete")
  /\ UNCHANGED <<parserVars, lastPass>>

StreamSucceeded ==
  /\ Successful(get_stream_result)
  /\ MainGoes("checkResult", "rows")
  /\ lastPass' = TRUE
  /\ UNCHANGED parserVars

\* return add_chunk_functor(PutBlobStreamDoneMarker)
CompleteUpload ==
  /\ main = "complete"
  /\ add_chunk_functor = "bound"
  /\ \/ Uploading!Commit /\ Return("Success")
     \/ Uploading!Abort /\ Return("Failure")
  /\ UNCHANGED <<parserVars, taskVars, file, match_table, add_chunk_functor,
                 lastPass>>

\* Nothing matched: the call of an empty std::function throws, nobody catches.
CallEmptyFunctor ==
  /\ add_chunk_functor = "empty"
  /\ MainGoes("complete", "crashed")
  /\ UNCHANGED <<parserVars, lastPass>>

(****************************************************************************)
(* task: the callback.  A callback that runs when ExportMatches has         *)
(* returned uses locals that are gone; what it does then is undefined and   *)
(* not followed further.                                                    *)
(****************************************************************************)

mainOnly == <<uploadVars, exportVars, file, main>>

\* callback(chunk, is_done = false) calls AddCsvChunk ...
ChunkArrives ==
  /\ task = "waiting"
  /\ ~Returned
  /\ toCome # <<>>
  /\ BeginChunk(Head(toCome)) \/ RefuseChunk(Head(toCome))
  /\ toCome' = Tail(toCome)
  /\ task' = "adding"
  /\ UNCHANGED <<streamOutcome, get_stream_result, all_advertiser_ids_received,
                 lost, dangling>>
  /\ UNCHANGED mainOnly

AddingChunk ==
  /\ task = "adding"
  /\ ~Returned
  /\ FinishAddCsvChunk
  /\ UNCHANGED taskVars
  /\ UNCHANGED mainOnly

\* ... and keeps its result if it is not a success.
ChunkAdded ==
  /\ task = "adding"
  /\ ~Returned
  /\ producer = "idle"
  /\ IF Successful(addResult)
     THEN UNCHANGED <<get_stream_result, lost>>
     ELSE get_stream_result' = addResult /\ lost' = TRUE
  /\ task' = "waiting"
  /\ UNCHANGED <<parserVars, toCome, streamOutcome, all_advertiser_ids_received,
                 dangling>>
  /\ UNCHANGED mainOnly

\* Mutation: the test as its comment reads, on a result born a failure.
FinalStreamResultIfNoError(r) ==
  IF Successful(get_stream_result) THEN r ELSE get_stream_result

\* The result the final call leaves in get_stream_result.
FinalStreamResult(r) ==
  IF ~Successful(get_stream_result) THEN r ELSE get_stream_result

\* Mutation: the flag is raised before the result is stored.
StreamEndsFlagFirst ==
  /\ task = "waiting"
  /\ ~Returned
  /\ \E r \in {"Success", "StreamError"} :
       /\ Successful(r) => toCome = <<>>
       /\ streamOutcome' = r
       /\ get_stream_result' = FinalStreamResult(r)
  /\ all_advertiser_ids_received' = TRUE
  /\ task' = "ending"
  /\ UNCHANGED <<parserVars, toCome, lost, dangling>>
  /\ UNCHANGED mainOnly

\* callback(empty, is_done = true, r): the result first ...
StreamEnds ==
  /\ task = "waiting"
  /\ ~Returned
  /\ \E r \in {"Success", "StreamError"} :
       /\ Successful(r) => toCome = <<>>
       /\ streamOutcome' = r
       /\ get_stream_result' = FinalStreamResult(r)
  /\ task' = "ending"
  /\ UNCHANGED <<parserVars, toCome, all_advertiser_ids_received, lost, dangling>>
  /\ UNCHANGED mainOnly

\* Mutation: a stream that failed does not raise the flag.
AllReceivedOnSuccess ==
  /\ task = "ending"
  /\ ~Returned
  /\ all_advertiser_ids_received' = Successful(get_stream_result)
  /\ task' = "ended"
  /\ UNCHANGED <<parserVars, toCome, streamOutcome, get_stream_result, lost,
                 dangling>>
  /\ UNCHANGED mainOnly

\* ... and then the flag main polls.
AllReceived ==
  /\ task = "ending"
  /\ ~Returned
  /\ all_advertiser_ids_received' = TRUE
  /\ task' = "ended"
  /\ UNCHANGED <<parserVars, toCome, streamOutcome, get_stream_result, lost,
                 dangling>>
  /\ UNCHANGED mainOnly

CallbackAfterReturn ==
  /\ task \in {"waiting", "adding", "ending"}
  /\ Returned
  /\ dangling' = TRUE
  /\ task' = "ended"
  /\ UNCHANGED <<parserVars, toCome, streamOutcome, get_stream_result,
                 all_advertiser_ids_received, lost>>
  /\ UNCHANGED mainOnly

Main ==
  \/ FetchMapping \/ StartStream
  \/ TestReceived \/ NoMoreRows \/ TakeNextRow \/ ReturnNextRow
  \/ BadRow \/ UnmatchedRow \/ StartUpload \/ PushMatch
  \/ StreamFailed \/ StreamSucceeded \/ CompleteUpload \/ CallEmptyFunctor

Callback ==
  \/ ChunkArrives \/ AddingChunk \/ ChunkAdded
  \/ StreamEnds \/ AllReceived \/ CallbackAfterReturn

Next == Main \/ Callback

\* Both threads are scheduled, and the download ends one way or the other
\* (GetBlobStream!EndIsReported; the streamer is not stopped meanwhile).
Fairness == WF_vars(Main) /\ WF_vars(Callback)

Spec == Init /\ [][Next]_vars
FairSpec == Spec /\ Fairness

--------------------------------------------------------------------------------
\* The encrypted IDs of the rows that match, in order.
MatchesOf(lines) ==
  LET matches[n \in 0..Len(lines)] ==
        IF n = 0 THEN <<>>
        ELSE LET id == RemoveExtraAsciiWhitespace(lines[n])
             IN  IF HasElement(match_table, id)
                 THEN Append(matches[n - 1], GetValue(match_table, id))
                 ELSE matches[n - 1]
  IN  matches[Len(lines)]

\* The types; when the stream is over its result has been assigned.
TypeOK ==
  /\ ParserTypeOK
  /\ accepted \in Seq(EncryptedId)
  /\ blob \in Seq(EncryptedId) \cup {NoBlob}
  /\ verdict \in {"none", "open", "Success", "Failure"}
  /\ file \in Files
  /\ main \in {"fetch", "startStream", "loop", "rows", "getting", "row",
               "checkResult", "complete", "returned", "crashed"}
  /\ lastPass \in BOOLEAN
  /\ add_chunk_functor \in {"empty", "bound"}
  /\ get_stream_result \in
       {"Success", "Retry", "Failure", "StreamError"} \cup
         IF all_advertiser_ids_received THEN {} ELSE {"Default"}
  /\ all_advertiser_ids_received \in BOOLEAN
  /\ exportResult \in {"none", "Success", "Failure"}
  /\ task \in {"none", "waiting", "adding", "ending", "ended"}
  /\ IsSuffix(toCome, file)
  /\ streamOutcome \in {"none", "Success", "StreamError"}
  /\ {lost, dangling} \subseteq BOOLEAN

\* However ExportMatches ends (a bad row, a failed push, a failed stream, no
\* match at all), the upload it may have started is completed or cancelled:
\* none is left open with nobody holding its function.
NoUploadLeftOpen == Returned => verdict # "open"

\* The function is never called again after the call that ended the upload:
\* as long as main may still call it, the upload is open.  PutBlobStream takes
\* that for granted.
FunctorNotMisused ==
  add_chunk_functor = "bound" /\ ~Returned => verdict = "open"

\* main reads get_stream_result, and parses for the last time, only when the
\* callback has made its last write: the flag is raised after the result.
StreamSettledBeforeUse ==
  main \in {"checkResult", "complete"} \/ lastPass =>
    /\ task = "ended"
    /\ producer = "idle"
    /\ ~dangling

\* A successful export has read the whole stream, and what it uploaded is,
\* row by row, the encrypted IDs of the matching complete rows of the list,
\* provided the parser took every chunk.  The table agrees on what matched.
SuccessExportsTheMatches ==
  exportResult = "Success" /\ ~lost =>
    /\ streamOutcome = "Success"
    /\ blob = MatchesOf(CompleteLines(FlattenSeq(file)))
    /\ {pair[2] : pair \in VisitMatched(match_table)} = ToSet(blob)

\* An error inside the loop makes ExportMatches return while the callback is
\* still to use its locals.  That is undefined behaviour; it never strikes a
\* call that succeeded, nor one that returned after the loop.
DanglesOnlyAfterEarlyReturn ==
  dangling => exportResult = "Failure" /\ ~all_advertiser_ids_received

\* ExportMatches comes to an end under every schedule of the two threads.
ExportEnds == <>Returned

\* match_worker.cc:165, of the final call: "Do not overwrite
\* get_stream_result if it has an error".
FinalCallKeepsTheError ==
  [][task = "waiting" /\ task' = "ending" /\ lost => UNCHANGED get_stream_result]_vars

\* match_worker.h:63-64: ExportMatches "exports all of the matched IDs"; the
\* last row of a list counts whether or not a line break follows it.
SuccessExportsAllMatches ==
  exportResult = "Success" /\ ~lost => blob = MatchesOf(AllLines(FlattenSeq(file)))

\* match_worker.h:67: ExportMatches returns an ExecutionResult.
ExportReturns == <>(main = "returned")
================================================================================
