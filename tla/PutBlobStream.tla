----------------------------- MODULE PutBlobStream -----------------------------
(****************************************************************************)
(* src/cc/common/blob_streamer/src/blob_streamer.cc, BlobStreamer's upload: *)
(* one call of PutBlobStream and the calls of the function it returns       *)
(* (PutBlobStreamFunctor with its first three arguments bound).  Threads:   *)
(*   - the caller, which pushes data, completes the upload with             *)
(*     PutBlobStreamDoneMarker or cancels it with an error, and spins on    *)
(*     is_done inside the function;                                         *)
(*   - the storage client (external), which takes the requests from the     *)
(*     streaming context, stores the blob and runs the context's callback.  *)
(* The client is modelled after blob_streamer_test.cc:253-274 and 345-355:  *)
(* it reads requests until the context is marked done or cancelled; marked  *)
(* done, it reads the rest and may succeed; it may fail at any time, and a  *)
(* cancelled upload fails.  The caller keeps to the interface and makes no  *)
(* call after the one that ended the upload (MatchWorker is shown to obey). *)
(****************************************************************************)
EXTENDS Integers, Sequences

CONSTANTS
  Data,           \* the pieces of data
  QueueCapacity,  \* requests the streaming context can hold
  MaxPushes,      \* bound of the model: calls that push data
  Pending,        \* an ExecutionResult nobody has assigned
  NoBlob          \* the client has stored nothing

Success == "Success"
Failure == "Failure"
Results == {Success, Failure}

VARIABLES
  caller,      \* "start", "ready", "spinning", "ended"
  returned,    \* what the latest finished call returned
  accepted,    \* history: the data whose push returned success
  rejected,    \* history: a push of data has failed
  context,     \* the requests queued in the streaming context
  marked,      \* MarkDone was called on the context
  cancelled,   \* TryCancel was called on the context
  client,      \* "off", "writing", "closing", "storing", "finished"
  written,     \* the data the client has taken from the context
  outcome,     \* context.result
  blob,        \* the object in the bucket
  result,      \* *result, written by the context's callback
  is_done      \* *is_done, written by the context's callback

vars == <<caller, returned, accepted, rejected, context, marked, cancelled,
          client, written, outcome, blob, result, is_done>>
callerOnly == <<caller, returned, accepted, rejected, marked, cancelled>>
clientOnly == <<client, written, outcome, blob, result, is_done>>

Init ==
  /\ caller = "start"
  /\ returned = Pending
  /\ accepted = <<>>
  /\ context = <<>>
  /\ rejected = FALSE
  /\ marked = FALSE
  /\ cancelled = FALSE
  /\ client = "off"
  /\ written = <<>>
  /\ outcome = Pending
  /\ blob = NoBlob
  /\ result = Pending
  /\ is_done = FALSE

(****************************************************************************)
(* The caller.                                                              *)
(****************************************************************************)

\* PutBlobStream: the request that starts the client's stream carries the
\* initial data.
PutBlobStream(d) ==
  /\ caller = "start"
  /\ caller' = "ready"
  /\ returned' = Success
  /\ accepted' = <<d>>
  /\ client' = "writing"
  /\ written' = <<d>>
  /\ UNCHANGED <<rejected, context, marked, cancelled, outcome, blob, result,
                 is_done>>

CanPush == Len(context) < QueueCapacity /\ ~marked /\ ~cancelled

MorePushes == Len(accepted) <= MaxPushes

PushData(d) ==
  /\ caller = "ready"
  /\ MorePushes
  /\ CanPush
  /\ context' = Append(context, d)
  /\ accepted' = Append(accepted, d)
  /\ returned' = Success
  /\ UNCHANGED <<caller, rejected, marked, cancelled>>
  /\ UNCHANGED clientOnly

\* Mutation: a push that fails completes the upload instead of cancelling it.
PushFailsMarksDone ==
  /\ caller = "ready"
  /\ MorePushes
  /\ ~CanPush
  /\ marked' = TRUE
  /\ rejected' = TRUE
  /\ caller' = "spinning"
  /\ UNCHANGED <<returned, accepted, cancelled, context>>
  /\ UNCHANGED clientOnly

\* "If pushing fails, try to cancel and acquire the result."
PushFails ==
  /\ caller = "ready"
  /\ MorePushes
  /\ ~CanPush
  /\ cancelled' = TRUE
  /\ rejected' = TRUE
  /\ caller' = "spinning"
  /\ UNCHANGED <<returned, accepted, marked, context>>
  /\ UNCHANGED clientOnly

\* Mutation: the done marker does not wait for the client.
PushDoneMarkerNoWait ==
  /\ caller = "ready"
  /\ marked' = TRUE
  /\ caller' = "ended"
  /\ returned' = Success
  /\ UNCHANGED <<accepted, rejected, cancelled, context>>
  /\ UNCHANGED clientOnly

PushDoneMarker ==
  /\ caller = "ready"
  /\ marked' = TRUE
  /\ caller' = "spinning"
  /\ UNCHANGED <<returned, accepted, rejected, cancelled, context>>
  /\ UNCHANGED clientOnly

\* Mutation: the error is not passed on to the client.
PushErrorNoCancel ==
  /\ caller = "ready"
  /\ caller' = "spinning"
  /\ UNCHANGED <<returned, accepted, rejected, marked, cancelled, context>>
  /\ UNCHANGED clientOnly

PushError ==
  /\ caller = "ready"
  /\ cancelled' = TRUE
  /\ caller' = "spinning"
  /\ UNCHANGED <<returned, accepted, rejected, marked, context>>
  /\ UNCHANGED clientOnly

\* while (!is_done->load()); return *result;
ReturnResult ==
  /\ caller = "spinning"
  /\ is_done
  /\ returned' = result
  /\ caller' = "ended"
  /\ UNCHANGED <<accepted, rejected, marked, cancelled, context>>
  /\ UNCHANGED clientOnly

(****************************************************************************)
(* The storage client.                                                      *)
(****************************************************************************)

TakeRequest ==
  /\ client = "writing"
  /\ context # <<>>
  /\ written' = Append(written, Head(context))
  /\ context' = Tail(context)
  /\ UNCHANGED <<client, outcome, blob, result, is_done>>
  /\ UNCHANGED callerOnly

\* Marked done and drained: the object is complete.
FinishUpload ==
  /\ client = "writing"
  /\ marked
  /\ ~cancelled
  /\ context = <<>>
  /\ client' = "closing"
  /\ outcome' = Success
  /\ blob' = written
  /\ UNCHANGED <<context, written, result, is_done>>
  /\ UNCHANGED callerOnly

FailUpload ==
  /\ client = "writing"
  /\ client' = "closing"
  /\ outcome' = Failure
  /\ UNCHANGED <<context, written, blob, result, is_done>>
  /\ UNCHANGED callerOnly

\* Mutation: only a failure is stored.
StoreFailure ==
  /\ client = "closing"
  /\ client' = "storing"
  /\ result' = IF outcome = Failure THEN outcome ELSE result
  /\ UNCHANGED <<context, written, outcome, blob, is_done>>
  /\ UNCHANGED callerOnly

\* The context's callback: first the result ...
StoreResult ==
  /\ client = "closing"
  /\ client' = "storing"
  /\ result' = outcome
  /\ UNCHANGED <<context, written, outcome, blob, is_done>>
  /\ UNCHANGED callerOnly

\* ... and then the flag.
StoreIsDone ==
  /\ client = "storing"
  /\ client' = "finished"
  /\ is_done' = TRUE
  /\ UNCHANGED <<context, written, outcome, blob, result>>
  /\ UNCHANGED callerOnly

Functor ==
  \/ \E d \in Data : PushData(d)
  \/ PushFails
  \/ PushDoneMarker
  \/ PushError
  \/ ReturnResult
Client == TakeRequest \/ FinishUpload \/ FailUpload \/ StoreResult \/ StoreIsDone

Next == (\E d \in Data : PutBlobStream(d)) \/ Functor \/ Client

\* The client's thread goes on taking requests, ends an upload it was asked to
\* complete or to cancel, and runs the callback; the caller's spinning thread
\* is scheduled.  An upload nobody ends may stay open for ever, and a failure
\* of its own accord is never owed.
Fairness ==
  /\ WF_vars(TakeRequest)
  /\ WF_vars((marked \/ cancelled) /\ (FinishUpload \/ FailUpload))
  /\ WF_vars(StoreResult)
  /\ WF_vars(StoreIsDone)
  /\ WF_vars(ReturnResult)

Spec == Init /\ [][Next]_vars
FairSpec == Spec /\ Fairness

--------------------------------------------------------------------------------
\* The types; a call never returns a result nobody has assigned.
TypeOK ==
  /\ caller \in {"start", "ready", "spinning", "ended"}
  /\ returned \in Results \cup IF caller = "start" THEN {Pending} ELSE {}
  /\ accepted \in Seq(Data)
  /\ rejected \in BOOLEAN
  /\ context \in Seq(Data)
  /\ marked \in BOOLEAN
  /\ cancelled \in BOOLEAN
  /\ client \in {"off", "writing", "closing", "storing", "finished"}
  /\ written \in Seq(Data)
  /\ outcome \in Results \cup {Pending}
  /\ blob \in Seq(Data) \cup {NoBlob}
  /\ result \in Results \cup {Pending}
  /\ is_done \in BOOLEAN

\* What the caller is told: the upload is over when a call has spun to its end,
\* with the value that call returned.
verdict ==
  CASE caller = "start" -> "none"
    [] caller = "ended" -> returned
    [] OTHER            -> "open"

\* The blob counts from the moment the caller learns that it is there.
visibleBlob == IF caller = "ended" THEN blob ELSE NoBlob

\* The function keeps what it promises: a Success from the done marker means
\* that all the data whose push succeeded is in the blob, in order, and every
\* other end leaves no blob (blob_streamer_interface.h:28-36).
Abstract == INSTANCE Upload WITH blob <- visibleBlob
ImplementsUpload == Abstract!USpec

\* Data that could not be pushed is never reported as uploaded, and what was
\* pushed before it is not left behind as a blob that looks complete: once one
\* push has failed, the client is made to fail too, however far it has got, and
\* its result is what the call returns (blob_streamer.cc:131-136).
NoBlobAfterFailedPush ==
  rejected /\ caller = "ended" => returned = Failure /\ blob = NoBlob

\* The spin on is_done ends, in every branch of the function.
EveryCallReturns == caller = "spinning" ~> caller = "ended"
================================================================================
