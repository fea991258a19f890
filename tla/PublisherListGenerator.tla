------------------------ MODULE PublisherListGenerator ------------------------
(****************************************************************************)
(* src/cc/publisher_list_generator/generator/src/generator.h: one Generator *)
(* and the sequence of GeneratePublisherList calls a worker makes on it.    *)
(* Four threads take part in a call:                                        *)
(*   - main, which fetches the list, begins the encryption, reads the pairs *)
(*     that stream back, waits for the others and uploads the mapping;      *)
(*   - pushing_thread_, which pushes the IDs into the encrypt context;      *)
(*   - the two tasks of RandomIdEncryptor, on the CPU executor.             *)
(* The callbacks and the pushing thread refer to locals of the call.  What  *)
(* happens when one of them runs after the call has returned, or when a     *)
(* second pushing thread is assigned over a joinable one, is undefined or   *)
(* the end of the process: broken records it, and nothing happens after it. *)
(****************************************************************************)
EXTENDS RandomIdEncryptor, PublisherMapping

CONSTANTS
  Lists,      \* the ID lists a call may fetch
  MaxCalls    \* bound of the model: calls of GeneratePublisherList

\* The plaintext IDs that occur in the lists.
PlainId == UNION {Range(list) : list \in Lists}

\* A UUID as text: a column of one character.
ToText(uuid) == <<uuid>>

ASSUME GeneratorAssumption ==
  /\ MaxCalls \in Nat /\ QueueSize \in Nat
  /\ Lists \subseteq Seq(PlainId)
  /\ Unset \notin {"Success", "Failure"}
  \* A fetched ID is a column of a row of one, trimmed as the parser does.
  /\ \A id \in PlainId :
       /\ id \in Seq(Range(id))
       /\ Range(id) \cap {LineBreak, Delimiter} = {}
       /\ RemoveExtraAsciiWhitespace(id) = id
  /\ Uuid \cap {LineBreak, Delimiter, Blank} = {}
  /\ LineBreak # Delimiter
  /\ NoTable \notin Tables(PlainId, {ToText(uuid) : uuid \in Uuid})

VARIABLES
  calls,              \* history: calls begun so far
  main,               \* where main is; "idle" between calls
  ids,                \* fetch_response.ids
  encrypted_pairs,    \* the pairs RetrieveAllIds has read
  encryption_done,    \* locals of the call that others write to
  encryption_result,
  pushing_result,
  streaming_done,
  streaming_result,
  pusher,             \* pushing_thread_: "none", "pushing", "ended"
  toPush,             \* the IDs it has still to push
  encryptFor,         \* the call the encrypt context's callback belongs to
  callResult,         \* what the latest finished call returned
  uploaded,           \* history: the mappings uploaded, with their lists
  refused,            \* history: what has failed so far of {"schedule", "enqueue"}
  broken              \* "no", "dangling", "overlap" or "terminated"

mainVars == <<calls, main, ids, encrypted_pairs, callResult, uploaded>>
sharedVars == <<encryption_done, encryption_result, streaming_done,
                streaming_result>>
pusherVars == <<pusher, toPush, pushing_result>>
vars == <<encryptorVars, encryptVars, streamVars, mainVars, sharedVars,
          pusherVars, encryptFor, refused, broken>>

Init ==
  /\ EncryptorInit
  /\ calls = 0
  /\ main = "idle"
  /\ ids = <<>>
  /\ encrypted_pairs = <<>>
  /\ encryption_done = FALSE
  /\ encryption_result = Unset
  /\ pushing_result = Unset
  /\ streaming_done = FALSE
  /\ streaming_result = Unset
  /\ pusher = "none"
  /\ toPush = <<>>
  /\ encryptFor = 0
  /\ callResult = "none"
  /\ uploaded = {}
  /\ refused = {}
  /\ broken = "no"

Running == broken = "no"

\* The locals the callback or the pushing thread refers to still exist.
FrameAlive == main # "idle" /\ encryptFor = calls

(****************************************************************************)
(* main.                                                                    *)
(****************************************************************************)

MainGoes(from, to) ==
  /\ Running
  /\ main = from
  /\ main' = to
  /\ UNCHANGED <<calls, ids, encrypted_pairs, callResult, uploaded>>

Return(r) == main' = "idle" /\ callResult' = r

\* The name of the bucket the mapping goes to is read from the metadata file.
GetOutputBucketName ==
  \/ main' = "encrypt" /\ UNCHANGED callResult
  \/ Return("Failure")

\* The publisher's list and the bucket's name are fetched, or the call fails.
FetchList ==
  /\ Running
  /\ main = "idle"
  /\ calls < MaxCalls
  /\ calls' = calls + 1
  /\ encrypted_pairs' = <<>>
  /\ \/ \E list \in Lists : ids' = list
        /\ GetOutputBucketName
     \/ Return("Failure") /\ UNCHANGED ids
  /\ encryption_done' = FALSE
  /\ encryption_result' = Unset
  /\ streaming_done' = FALSE
  /\ streaming_result' = Unset
  /\ UNCHANGED <<encryptorVars, encryptVars, streamVars, pusherVars,
                 encryptFor, uploaded, refused, broken>>

EncryptorBusy ==
  /\ Running
  /\ main = "encrypt"
  /\ Busy
  /\ Return("Busy")
  /\ UNCHANGED <<encryptorVars, encryptVars, streamVars, sharedVars,
                 pusherVars, calls, ids, encrypted_pairs, uploaded,
                 encryptFor, refused, broken>>

\* BeginEncryption: Encrypt, then the pushing thread.  Assigning over a thread
\* that was never joined ends the process; a task of an earlier call that is
\* still in its loop shares used_ids_ with the new one.
BeginEncryption ==
  /\ Running
  /\ main = "encrypt"
  /\ pusher = "none"
  /\ encryptTask = "none"
  /\ OpenEncryption(TRUE)
  /\ main' = "stream"
  /\ pusher' = "pushing"
  /\ toPush' = ids
  /\ pushing_result' = Unset
  /\ encryptFor' = calls
  /\ UNCHANGED <<sharedVars, calls, ids, encrypted_pairs, callResult,
                 uploaded, refused, broken>>

EncryptNotScheduled ==
  /\ Running
  /\ main = "encrypt"
  /\ OpenEncryption(FALSE)
  /\ Return("Failure")
  /\ refused' = refused \cup {"schedule"}
  /\ UNCHANGED <<sharedVars, pusherVars, calls, ids, encrypted_pairs,
                 uploaded, encryptFor, broken>>

BeginOverEarlierCall ==
  /\ Running
  /\ main = "encrypt"
  /\ ~Busy
  /\ \/ pusher # "none" /\ broken' = "terminated"
     \/ encryptTask # "none" /\ broken' = "overlap"
  /\ UNCHANGED <<encryptorVars, encryptVars, streamVars, mainVars,
                 sharedVars, pusherVars, encryptFor, refused>>

\* StreamIds: the stream context holds one pair per ID.
BeginStream ==
  /\ MainGoes("stream", "retrieve")
  /\ OpenStream(Len(ids), TRUE)
  /\ UNCHANGED <<sharedVars, pusherVars, encryptFor, refused, broken>>

\* The call returns at once: nobody joins the pushing thread.
StreamNotScheduled ==
  /\ Running
  /\ main = "stream"
  /\ OpenStream(Len(ids), FALSE)
  /\ Return("Failure")
  /\ refused' = refused \cup {"schedule"}
  /\ UNCHANGED <<sharedVars, pusherVars, calls, ids, encrypted_pairs,
                 uploaded, encryptFor, broken>>

\* RetrieveAllIds: TryGetNextResponse returns a pair, before or after the
\* stream is done ...
RetrievePair ==
  /\ Running
  /\ main \in {"retrieve", "retrieveLast"}
  /\ responses # <<>>
  /\ encrypted_pairs' = Append(encrypted_pairs, Head(responses))
  /\ responses' = Tail(responses)
  /\ UNCHANGED <<encryptorVars, encryptVars, streamTask, capacity,
                 streamResult, sharedVars, pusherVars, calls, main, ids,
                 callResult, uploaded, encryptFor, refused, broken>>

\* ... or nothing; the flag is read only after that.
RetrieveNothing ==
  /\ \/ responses = <<>> /\ MainGoes("retrieve", "gotNull")
     \/ streaming_done /\ MainGoes("gotNull", "retrieveLast")
     \/ ~streaming_done /\ MainGoes("gotNull", "retrieve")
     \/ responses = <<>> /\ MainGoes("retrieveLast", "checkStream")
  /\ UNCHANGED <<encryptorVars, encryptVars, streamVars, sharedVars,
                 pusherVars, encryptFor, refused, broken>>

\* A stream that failed also returns at once, with the pushing thread unjoined.
StreamFailed ==
  /\ Running
  /\ main = "checkStream"
  /\ streaming_result # "Success"
  /\ Return("Failure")
  /\ UNCHANGED <<encryptorVars, encryptVars, streamVars, sharedVars,
                 pusherVars, calls, ids, encrypted_pairs, uploaded,
                 encryptFor, refused, broken>>

\* Mutation: main waits for the encryption but leaves the thread alone.
JoinEncryptionOnly ==
  /\ streaming_result = "Success" /\ encryption_done
  /\ MainGoes("checkStream", "checkResults")
  /\ UNCHANGED <<encryptorVars, encryptVars, streamVars, sharedVars,
                 pusherVars, encryptFor, refused, broken>>

\* while (!encryption_done.load()); pushing_thread_.join();
JoinOthers ==
  /\ streaming_result = "Success" /\ encryption_done /\ pusher = "ended"
  /\ MainGoes("checkStream", "checkResults")
  /\ pusher' = "none"
  /\ UNCHANGED <<encryptorVars, encryptVars, streamVars, sharedVars, toPush,
                 pushing_result, encryptFor, refused, broken>>

\* The uploader's PutBlobSync overwrites the blob or fails.
UploadIdMapping(upload) ==
  \/ Return("Success") /\ uploaded' = uploaded \cup {upload}
  \/ Return("Failure") /\ UNCHANGED uploaded

\* The rows of the mapping, an ID and an encrypted one each.
Rows(pairs) == [i \in DOMAIN pairs |-> <<pairs[i][1], ToText(pairs[i][2])>>]

\* The mapping is uploaded, as text, if both results are successes, and the call
\* returns what the upload returns.
UploadMapping ==
  /\ Running
  /\ main = "checkResults"
  /\ \/ /\ pushing_result = "Success"
        /\ encryption_result = "Success"
        /\ UploadIdMapping(
             [call |-> calls, list |-> ids, pairs |-> encrypted_pairs,
              mapping |-> MappingText(Rows(encrypted_pairs))])
     \/ /\ pushing_result # "Success" \/ encryption_result # "Success"
        /\ Return("Failure")
        /\ UNCHANGED uploaded
  /\ UNCHANGED <<encryptorVars, encryptVars, streamVars, sharedVars,
                 pusherVars, calls, ids, encrypted_pairs, encryptFor,
                 refused, broken>>

(****************************************************************************)
(* pushing_thread_.                                                         *)
(****************************************************************************)

PushId ==
  /\ Running
  /\ pusher = "pushing"
  /\ FrameAlive
  /\ toPush # <<>>
  /\ ~requestsDone
  /\ requests' = Append(requests, Head(toPush))
  /\ toPush' = Tail(toPush)
  /\ UNCHANGED <<encryptorVars, encryptTask, requestsDone, streamVars,
                 mainVars, sharedVars, pusher, pushing_result, encryptFor,
                 refused, broken>>

\* The encryptor has marked the context done: TryPushRequest fails.
\* Otherwise, after the last ID, the thread marks it done itself.
EndPushing ==
  /\ Running
  /\ pusher = "pushing"
  /\ FrameAlive
  /\ \/ toPush # <<>> /\ requestsDone /\ pushing_result' = "Failure"
     \/ toPush = <<>> /\ pushing_result' = "Success"
  /\ requestsDone' = TRUE
  /\ pusher' = "ended"
  /\ UNCHANGED <<encryptorVars, encryptTask, requests, streamVars, mainVars,
                 sharedVars, toPush, encryptFor, refused, broken>>

(****************************************************************************)
(* The tasks of the encryptor, and their callbacks.                         *)
(****************************************************************************)

EncryptTask ==
  /\ Running
  /\ EncryptStep
  /\ refused' = refused
       \cup (IF encryptTask' \in {"fail", "failLast"} THEN {"enqueue"} ELSE {})
       \cup (IF encryptTask' = "failEnd" THEN {"schedule"} ELSE {})
  /\ UNCHANGED <<mainVars, sharedVars, pusherVars, encryptFor, broken>>

StreamTask ==
  /\ Running
  /\ StreamStep
  /\ refused' = refused
       \cup (IF streamTask = "reschedule" /\ streamTask' = "finish"
             THEN {"schedule"} ELSE {})
  /\ UNCHANGED <<mainVars, sharedVars, pusherVars, encryptFor, broken>>

\* The encrypt context's Finish: encryption_result = context.result, and then
\* encryption_done, which is what main waits for.
Finishing == [succeed  |-> [result |-> "Success", next |-> "succeeded"],
              fail     |-> [result |-> "Failure", next |-> "failed"],
              failLast |-> [result |-> "Failure", next |-> "failedLast"],
              failEnd  |-> [result |-> "Failure", next |-> "failedEnd"]]

FinishEncryption ==
  /\ Running
  /\ FrameAlive
  /\ encryptTask \in DOMAIN Finishing
  /\ encryption_result' = Finishing[encryptTask].result
  /\ encryption_done' = TRUE
  /\ encryptTask' = Finishing[encryptTask].next
  /\ UNCHANGED <<encryptorVars, requests, requestsDone, streamVars, mainVars,
                 streaming_done, streaming_result, pusherVars, encryptFor,
                 refused, broken>>

\* The stream context's Finish.  StreamIds does not return before it.
FinishStream ==
  /\ Running
  /\ streamTask = "finish"
  /\ streaming_result' = streamResult
  /\ streaming_done' = TRUE
  /\ streamTask' = "none"
  /\ UNCHANGED <<encryptorVars, encryptVars, responses, capacity,
                 streamResult, mainVars, encryption_done, encryption_result,
                 pusherVars, encryptFor, refused, broken>>

\* The callback or the pushing thread touches locals that are gone.
TouchDeadFrame ==
  /\ Running
  /\ ~FrameAlive
  /\ encryptTask \in DOMAIN Finishing \/ pusher = "pushing"
  /\ broken' = "dangling"
  /\ UNCHANGED <<encryptorVars, encryptVars, streamVars, mainVars,
                 sharedVars, pusherVars, encryptFor, refused>>

Main ==
  \/ EncryptorBusy \/ BeginEncryption \/ EncryptNotScheduled
  \/ BeginOverEarlierCall \/ BeginStream \/ StreamNotScheduled
  \/ RetrievePair \/ RetrieveNothing \/ StreamFailed \/ JoinOthers
  \/ UploadMapping
Pusher == PushId \/ EndPushing
EncryptTaskThread == EncryptTask \/ FinishEncryption
StreamTaskThread == StreamTask \/ FinishStream

Next ==
  \/ FetchList \/ Main \/ Pusher \/ EncryptTaskThread \/ StreamTaskThread
  \/ TouchDeadFrame

\* All four threads are scheduled; nobody has to ask for another list.
Fairness ==
  /\ WF_vars(Main)
  /\ WF_vars(Pusher)
  /\ WF_vars(EncryptTaskThread)
  /\ WF_vars(StreamTaskThread)

Spec == Init /\ [][Next]_vars
FairSpec == Spec /\ Fairness

(****************************************************************************)
(* Properties.                                                              *)
(****************************************************************************)

Results == {"Success", "Failure", Unset}
Pairs == PlainId \X Uuid

\* The type invariant: every variable of the encryptor and of the generator
\* holds a value the C++ member or local can hold.
TypeOK ==
  /\ {done_encrypting, done_streaming, requestsDone, encryption_done,
      streaming_done} \subseteq BOOLEAN
  /\ refused \subseteq {"schedule", "enqueue"}
  /\ {encryption_result, pushing_result, streaming_result, streamResult}
       \subseteq Results
  /\ Range(encrypted_ids_queue) \cup Range(responses) \cup
       Range(encrypted_pairs) \subseteq Pairs
  /\ Len(encrypted_ids_queue) <= QueueSize
  /\ Len(responses) <= capacity
  /\ used_ids \subseteq Uuid
  /\ encryptTask \in {"none", "drain", "checkMarked", "drainLast",
                      "reschedule"} \cup DOMAIN Finishing \cup DOMAIN AfterFinish
  /\ streamTask \in {"none", "drain", "checkDone", "drainLast", "succeed",
                     "reschedule", "finish"}
  /\ main \in {"idle", "encrypt", "stream", "retrieve", "gotNull",
               "retrieveLast", "checkStream", "checkResults"}
  /\ pusher \in {"none", "pushing", "ended"}
  /\ callResult \in {"none", "Success", "Failure", "Busy"}
  /\ broken \in {"no", "dangling", "overlap", "terminated"}
  /\ calls \in 0..MaxCalls /\ encryptFor \in 0..calls

IdsOf(pairs) == [i \in DOMAIN pairs |-> pairs[i][1]]

\* A mapping that is uploaded has one line for each ID of its publisher's list,
\* in the list's order, however the pushing thread, the two tasks and main
\* overlap: no ID is lost between "drained" and "done", and none of another
\* list gets in.  (Once encrypted_ids_queue_ has been full, all of this is off.)
MappingIsComplete ==
  "enqueue" \notin refused => \A u \in uploaded : IdsOf(u.pairs) = u.list

\* Two lines, of one mapping or of the mappings of two calls, never carry the
\* same UUID: GetUniqueUuid promises that for the encryptor's whole life.
UuidsAreUnique ==
  \A u, v \in uploaded :
    \A i \in DOMAIN u.pairs, j \in DOMAIN v.pairs :
      u.pairs[i][2] = v.pairs[j][2] => u = v /\ i = j

\* What a match job reads back from an uploaded mapping is the table of exactly
\* the pairs, blanks inside an ID and an empty ID included; but a list that names
\* an ID twice uploads, with a success, a mapping no match job can parse.
MappingReadsBack ==
  \A u \in uploaded :
    ParsedMapping(u.mapping) =
      IF ~IsInjective(IdsOf(u.pairs)) THEN NoTable
      ELSE [id \in Range(IdsOf(u.pairs)) |->
              [value |-> ToText((CHOOSE pair \in Range(u.pairs) : pair[1] = id)[2]),
               is_matched |-> FALSE]]

\* A call that succeeds leaves nothing behind for the next one to trip over:
\* no pair in the queue, no task at work, no thread to join, and an encryptor
\* whose two flags, set by tasks main never joins, are up again.
ReadyAfterSuccess ==
  main = "idle" /\ callResult = "Success" /\ "enqueue" \notin refused =>
    /\ ~Busy /\ encrypted_ids_queue = <<>>
    /\ encryptTask = "none" /\ streamTask = "none" /\ pusher = "none"

\* The callbacks and the pushing thread hold references to locals of the call,
\* and a thread may not be assigned over.  That goes wrong only when the
\* executor has refused a task before, or the queue a pair.
BreaksOnlyWhenRefused == broken # "no" => refused # {}

\* A call comes to an end, although main spins on three flags that others set.
\* The process may break first.
CallEnds == main # "idle" ~> main = "idle" \/ ~Running

\* "The ID encryptor must finish its current encryption before beginning
\* another" (error_codes.h:27-29): when that is the answer, there is one to finish.
BusyMeansEncrypting ==
  Running /\ main = "encrypt" /\ Busy =>
    encryptTask # "none" \/ streamTask # "none"
================================================================================
