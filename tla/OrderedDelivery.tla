---------------------------- MODULE OrderedDelivery ----------------------------
(****************************************************************************)
(* What BlobStreamer::GetBlobStream promises to the callback it is given    *)
(* (get_blob_stream_context.h:25-35): the callback sees every chunk of the  *)
(* stream, in the order the client received them, then at most one call     *)
(* with is_done set, which carries the result of the stream, then nothing.  *)
(* If GetBlobStream itself returns a failure the callback is never called,  *)
(* on which MatchWorker relies when it returns with the locals the callback *)
(* holds.                                                                   *)
(****************************************************************************)
EXTENDS Integers, Sequences

CONSTANTS
  Data,      \* the chunks a stream may carry
  Results,   \* the results a stream may end with
  Pending    \* no result yet

VARIABLES
  sent,      \* the chunks the storage client put into the stream
  outcome,   \* the result the client closed the stream with
  received,  \* the chunks the callback was called with
  final,     \* the result of the call with is_done set
  refused    \* GetBlobStream has returned a failure

dvars == <<sent, outcome, received, final, refused>>

DInit ==
  /\ sent = <<>>
  /\ outcome = Pending
  /\ received = <<>>
  /\ final = Pending
  /\ refused = FALSE

Send(d) ==
  /\ outcome = Pending
  /\ sent' = Append(sent, d)
  /\ UNCHANGED <<outcome, received, final, refused>>

Close(r) ==
  /\ outcome = Pending
  /\ outcome' = r
  /\ UNCHANGED <<sent, received, final, refused>>

Refuse ==
  /\ received = <<>>
  /\ final = Pending
  /\ refused' = TRUE
  /\ UNCHANGED <<sent, outcome, received, final>>

Receive ==
  /\ ~refused
  /\ final = Pending
  /\ Len(received) < Len(sent)
  /\ received' = Append(received, sent[Len(received) + 1])
  /\ UNCHANGED <<sent, outcome, final, refused>>

ReceiveFinal ==
  /\ ~refused
  /\ final = Pending
  /\ outcome # Pending
  /\ received = sent
  /\ final' = outcome
  /\ UNCHANGED <<sent, outcome, received, refused>>

DNext ==
  \/ \E d \in Data : Send(d)
  \/ \E r \in Results : Close(r)
  \/ Refuse
  \/ Receive
  \/ ReceiveFinal

DSpec == DInit /\ [][DNext]_dvars
================================================================================
