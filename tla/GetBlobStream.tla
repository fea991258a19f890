----------------------------- MODULE GetBlobStream -----------------------------
(****************************************************************************)
(* src/cc/common/blob_streamer/src/blob_streamer.cc, BlobStreamer's         *)
(* download: one call of GetBlobStream and its stream.  Three threads:      *)
(*   - the caller, which starts the client's stream and then schedules the  *)
(*     reading task on the executor;                                        *)
(*   - the storage client (external), which pushes responses, marks the     *)
(*     streaming context done and then runs process_callback;               *)
(*   - the reading task, which polls the context until it has seen the end. *)
(* Stop may come from any thread at any time.  The client is modelled as    *)
(* blob_streamer_test.cc:94-102 plays it: the context is marked done before *)
(* the process_callback that says so.  The process_callback of a single     *)
(* response does nothing (it is the branch stream_done = false) and is left *)
(* out.                                                                     *)
(****************************************************************************)
EXTENDS Integers, Sequences

CONSTANTS
  Data,           \* the chunks the client may read from the blob
  MaxResponses,   \* bound of the model: responses of one stream
  Pending         \* an ExecutionResult nobody has assigned

Success == "Success"
Failure == "Failure"
Results == {Success, Failure}

VARIABLES
  call,        \* the caller: "start", "schedule", "ok", "failed"
  client,      \* the storage client: "off", "streaming", "marked", "storing", "finished"
  context,     \* the responses queued in the streaming context
  sent,        \* history: the responses the client has pushed
  outcome,     \* context.result
  result,      \* *result, written by process_callback
  is_done,     \* *is_done, written by process_callback
  stop,        \* stop_
  task,        \* where the reading task is in its loop
  received,    \* history: the chunks the callback was called with
  final        \* history: the result of the callback's last call

vars == <<call, client, context, sent, outcome, result, is_done, stop, task,
          received, final>>
clientOnly == <<client, sent, outcome, result, is_done>>
taskOnly == <<task, received, final>>

Init ==
  /\ call = "start"
  /\ client = "off"
  /\ context = <<>>
  /\ sent = <<>>
  /\ outcome = Pending
  /\ result = Pending
  /\ is_done = FALSE
  /\ stop = FALSE
  /\ task = "none"
  /\ received = <<>>
  /\ final = Pending

IsMarkedDone == client \in {"marked", "storing", "finished"}

(****************************************************************************)
(* The caller: the client's stream starts before the task is scheduled.     *)
(****************************************************************************)

StartClient ==
  /\ call = "start"
  /\ call' = "schedule"
  /\ client' = "streaming"
  /\ UNCHANGED <<context, sent, outcome, result, is_done, stop>>
  /\ UNCHANGED taskOnly

Schedule ==
  /\ call = "schedule"
  /\ \/ call' = "ok" /\ task' = "loop"
     \/ call' = "failed" /\ UNCHANGED task   \* the client streams on, unread
  /\ UNCHANGED <<context, stop, received, final>>
  /\ UNCHANGED clientOnly

Stop ==
  /\ ~stop
  /\ stop' = TRUE
  /\ UNCHANGED <<call, context>>
  /\ UNCHANGED clientOnly
  /\ UNCHANGED taskOnly

(****************************************************************************)
(* The storage client.                                                      *)
(****************************************************************************)

PushResponse(d) ==
  /\ client = "streaming"
  /\ Len(sent) < MaxResponses
  /\ context' = Append(context, d)
  /\ sent' = Append(sent, d)
  /\ UNCHANGED <<call, client, outcome, result, is_done, stop>>
  /\ UNCHANGED taskOnly

\* context.result = r; context.MarkDone().
MarkDone(r) ==
  /\ client = "streaming"
  /\ client' = "marked"
  /\ outcome' = r
  /\ UNCHANGED <<call, context, sent, result, is_done, stop>>
  /\ UNCHANGED taskOnly

\* Mutation: only a failure is stored.
StoreFailure ==
  /\ client = "marked"
  /\ client' = "storing"
  /\ result' = IF outcome = Failure THEN outcome ELSE result
  /\ UNCHANGED <<call, context, sent, outcome, is_done, stop>>
  /\ UNCHANGED taskOnly

\* process_callback(context, stream_done = true): first the result ...
StoreResult ==
  /\ client = "marked"
  /\ client' = "storing"
  /\ result' = outcome
  /\ UNCHANGED <<call, context, sent, outcome, is_done, stop>>
  /\ UNCHANGED taskOnly

\* Mutation: the flag is raised for a success only.
StoreIsDoneOnSuccess ==
  /\ client = "storing"
  /\ client' = "finished"
  /\ is_done' = (result = Success)
  /\ UNCHANGED <<call, context, sent, outcome, result, stop>>
  /\ UNCHANGED taskOnly

\* ... and then the flag.
StoreIsDone ==
  /\ client = "storing"
  /\ client' = "finished"
  /\ is_done' = TRUE
  /\ UNCHANGED <<call, context, sent, outcome, result, stop>>
  /\ UNCHANGED taskOnly

(****************************************************************************)
(* The reading task.                                                        *)
(****************************************************************************)

\* callback(response, is_done = false), then around the loop again.
PassOn ==
  /\ context # <<>>
  /\ received' = Append(received, Head(context))
  /\ context' = Tail(context)
  /\ task' = "loop"
  /\ UNCHANGED <<call, stop, final>>
  /\ UNCHANGED clientOnly

TaskGoes(from, to) ==
  /\ task = from
  /\ task' = to
  /\ UNCHANGED <<call, context, stop, received, final>>
  /\ UNCHANGED clientOnly

\* Mutation: the loop does not look at stop_.
CheckNothing == TaskGoes("loop", "tryGet")

CheckStop ==
  \/ stop /\ TaskGoes("loop", "stopped")
  \/ ~stop /\ TaskGoes("loop", "tryGet")

TryGet ==
  \/ task = "tryGet" /\ PassOn
  \/ context = <<>> /\ TaskGoes("tryGet", "gotNull")

\* Mutation: no second TryGetNextResponse.
CheckMarkedDoneOnce ==
  \/ IsMarkedDone /\ TaskGoes("gotNull", "drained")
  \/ ~IsMarkedDone /\ TaskGoes("gotNull", "loop")

CheckMarkedDone ==
  \/ IsMarkedDone /\ TaskGoes("gotNull", "tryAgain")
  \/ ~IsMarkedDone /\ TaskGoes("gotNull", "loop")

\* A response may have been pushed and the context marked done between the
\* first TryGetNextResponse and IsMarkedDone.
TryGetAgain ==
  \/ task = "tryAgain" /\ PassOn
  \/ context = <<>> /\ TaskGoes("tryAgain", "drained")

NotDoneYet == ~is_done /\ TaskGoes("drained", "loop")

\* callback(empty, is_done = true, *result) and out of the loop.
CallFinal ==
  /\ task = "drained"
  /\ is_done
  /\ final' = result
  /\ task' = "returned"
  /\ UNCHANGED <<call, context, stop, received>>
  /\ UNCHANGED clientOnly

Caller == StartClient \/ Schedule
ClientEnds == (\E r \in Results : MarkDone(r)) \/ StoreResult \/ StoreIsDone
Task ==
  CheckStop \/ TryGet \/ CheckMarkedDone \/ TryGetAgain \/ NotDoneYet \/ CallFinal

Next ==
  \/ Caller
  \/ Stop
  \/ \E d \in Data : PushResponse(d)
  \/ ClientEnds
  \/ Task

\* The executor runs a scheduled task, and a client that has marked the stream
\* done runs process_callback.  A stream need not end, and nobody has to stop.
Fairness == WF_vars(Task) /\ WF_vars(StoreResult) /\ WF_vars(StoreIsDone)

Spec == Init /\ [][Next]_vars
FairSpec == Spec /\ Fairness

--------------------------------------------------------------------------------
\* The types; the final call, when it is made, passes a result that was
\* assigned, never the one make_shared was born with.
TypeOK ==
  /\ call \in {"start", "schedule", "ok", "failed"}
  /\ client \in {"off", "streaming", "marked", "storing", "finished"}
  /\ context \in Seq(Data)
  /\ sent \in Seq(Data)
  /\ outcome \in Results \cup {Pending}
  /\ result \in Results \cup {Pending}
  /\ is_done \in BOOLEAN
  /\ stop \in BOOLEAN
  /\ task \in {"none", "loop", "tryGet", "gotNull", "tryAgain", "drained",
               "stopped", "returned"}
  /\ received \in Seq(Data)
  /\ final \in IF task = "returned" THEN Results ELSE {Pending}

\* The callback sees all chunks, in order, each once, and then the result of
\* the stream, although the task reads the queue, the mark, the queue again
\* and the flag at four different moments while the client goes on.  A call
\* that returns a failure has no task, so the callback, with whatever locals of
\* the caller it holds, stays silent though the client streams on.
Abstract == INSTANCE OrderedDelivery WITH refused <- (call = "failed")
DeliversInOrder == Abstract!DSpec

\* When the client has ended the stream and the task is scheduled, whichever came
\* first, the end gets through to the callback unless the streamer is stopped
\* (blob_streamer.cc:190-202).  In blob_streamer_test.cc:149-155 the client has
\* run process_callback to its end before line 187 schedules the task.
EndIsReported ==
  IsMarkedDone /\ call = "ok" ~> final # Pending \/ stop

\* Stop gives the executor its thread back, whatever the client does.
StopFreesTheThread == stop /\ call = "ok" ~> task \in {"stopped", "returned"}
================================================================================
