------------------------------ MODULE BlobStreamer ------------------------------
(****************************************************************************)
(* The BlobStreamer as its callers have it: a download (GetBlobStream) or   *)
(* an upload (PutBlobStream).  The two share the storage client, which      *)
(* keeps the streams of different contexts apart, and nothing else: stop_   *)
(* is read by downloads only.  So one of them per behaviour is enough, and  *)
(* the promises of both are stated here, for the code that calls them       *)
(* (MatchWorker).                                                           *)
(****************************************************************************)
EXTENDS Integers, Sequences

CONSTANTS
  Data,           \* the chunks of a blob
  MaxResponses,   \* bound of the model: responses of one download
  QueueCapacity,  \* requests the streaming context of an upload can hold
  MaxPushes,      \* bound of the model: calls that push data
  Pending,        \* an ExecutionResult nobody has assigned
  NoBlob          \* the client has stored nothing

ASSUME BlobStreamerAssumption ==
  /\ MaxResponses \in Nat
  /\ QueueCapacity \in Nat
  /\ MaxPushes \in Nat
  /\ Pending \notin {"Success", "Failure"}
  /\ NoBlob \notin Seq(Data)

VARIABLES
  operation,  \* "get" or "put"
  \* the download: see GetBlobStream
  call, getClient, responses, sent, getOutcome, getResult, getIsDone, stop,
  task, received, final,
  \* the upload: see PutBlobStream
  caller, returned, accepted, rejected, requests, marked, cancelled, putClient,
  written, putOutcome, blob, putResult, putIsDone

Get == INSTANCE GetBlobStream WITH
  client <- getClient, context <- responses, outcome <- getOutcome,
  result <- getResult, is_done <- getIsDone

Put == INSTANCE PutBlobStream WITH
  client <- putClient, context <- requests, outcome <- putOutcome,
  result <- putResult, is_done <- putIsDone

downloadVars ==
  <<call, getClient, responses, sent, getOutcome, getResult, getIsDone, stop,
    task, received, final>>
uploadVars ==
  <<caller, returned, accepted, rejected, requests, marked, cancelled,
    putClient, written, putOutcome, blob, putResult, putIsDone>>
vars == <<operation, downloadVars, uploadVars>>

Init == operation \in {"get", "put"} /\ Get!Init /\ Put!Init

Next ==
  \/ operation = "get" /\ Get!Next /\ UNCHANGED <<operation, uploadVars>>
  \/ operation = "put" /\ Put!Next /\ UNCHANGED <<operation, downloadVars>>

\* Of the two only the operation's own actions are ever enabled.
Fairness == Get!Fairness /\ Put!Fairness

Spec == Init /\ [][Next]_vars
FairSpec == Spec /\ Fairness

--------------------------------------------------------------------------------
\* The types, of both; no call passes on a result nobody has assigned.
TypeOK == operation \in {"get", "put"} /\ Get!TypeOK /\ Put!TypeOK

\* What GetBlobStream's callers rely on (get_blob_stream_context.h:25-35).
DeliversInOrder == Get!DeliversInOrder

\* A download that ends, before its task is scheduled or after, is reported
\* (blob_streamer.cc:190-202).
EndIsReported == Get!EndIsReported

\* Stop gives the executor its thread back (blob_streamer.cc:159-162, 190).
StopFreesTheThread == Get!StopFreesTheThread

\* A failed push leaves no blob (blob_streamer.cc:131-136).
NoBlobAfterFailedPush == Put!NoBlobAfterFailedPush

\* What PutBlobStream's callers rely on (blob_streamer_interface.h:28-36).
ImplementsUpload == Put!ImplementsUpload

\* No branch of the upload's function spins for ever (blob_streamer.cc:107-138).
EveryCallReturns == Put!EveryCallReturns
================================================================================
