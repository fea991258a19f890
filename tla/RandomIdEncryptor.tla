--------------------------- MODULE RandomIdEncryptor ---------------------------
(****************************************************************************)
(* src/cc/publisher_list_generator/id_encryptor/src/random_id_encryptor.cc. *)
(* The encryptor runs two tasks on the CPU executor at the same time:       *)
(*   - EncryptIdsInternal takes plaintext IDs from the encrypt context,     *)
(*     gives each a fresh UUID and puts the pair into encrypted_ids_queue_; *)
(*   - StreamIdsInternal moves pairs from that queue to the stream context. *)
(* Each drains its source, looks at a mark or flag, drains once more if the *)
(* mark is there, and otherwise schedules itself again.  This module holds  *)
(* the state and the steps of the two tasks; the contexts are fed and read  *)
(* by the generator, and PublisherListGenerator composes the two.           *)
(****************************************************************************)
EXTENDS Integers, Sequences

CONSTANTS
  Uuid,          \* the values Uuid::GenerateUuid may return, enough of them
  QueueSize,     \* kEncryptedIdsQueueSize
  Unset          \* an ExecutionResult nobody has assigned (a failure)

VARIABLES
  done_encrypting,      \* done_encrypting_
  done_streaming,       \* done_streaming_
  encrypted_ids_queue,  \* encrypted_ids_queue_: pairs <<ID, UUID>>
  used_ids,             \* used_ids_
  encryptTask,          \* where EncryptIdsInternal is
  requests,             \* the encrypt context: IDs not yet taken
  requestsDone,         \* the encrypt context is marked done
  streamTask,           \* where StreamIdsInternal is
  responses,            \* the stream context: pairs not yet read
  capacity,             \* pairs the stream context can hold
  streamResult          \* the stream context's result

encryptorVars == <<done_encrypting, done_streaming, encrypted_ids_queue,
                   used_ids>>
encryptVars == <<encryptTask, requests, requestsDone>>
streamVars == <<streamTask, responses, capacity, streamResult>>

EncryptorInit ==
  /\ done_encrypting = TRUE
  /\ done_streaming = TRUE
  /\ encrypted_ids_queue = <<>>
  /\ used_ids = {}
  /\ encryptTask = "none"
  /\ requests = <<>>
  /\ requestsDone = FALSE
  /\ streamTask = "none"
  /\ responses = <<>>
  /\ capacity = 0
  /\ streamResult = Unset

\* Mutation: one pair too many.
QueueOverfull == Len(encrypted_ids_queue) > QueueSize

\* ConcurrentQueue refuses a pair beyond its size.
QueueFull == Len(encrypted_ids_queue) >= QueueSize

\* Mutation: a UUID that was used before is good enough.
GetAnyUuid == CHOOSE uuid \in Uuid : TRUE

\* GetUniqueUuid generates until it finds a value not in used_ids_.  UUIDs are
\* only ever compared, so which of the unused values it finds is left open.
GetUniqueUuid == CHOOSE uuid \in Uuid : uuid \notin used_ids

\* Until there is such a value the loop goes on: the task takes no other step.
HasUniqueUuid == \E uuid \in Uuid : uuid \notin used_ids

(****************************************************************************)
(* The calls of the generator.                                              *)
(****************************************************************************)

Busy == ~done_encrypting \/ ~done_streaming

\* Encrypt, on a fresh context.  The flags go down before Schedule, and stay
\* down when Schedule fails.  The context is then dropped, and a task of an
\* earlier call keeps its own.
OpenEncryption(scheduled) ==
  /\ ~Busy
  /\ done_encrypting' = FALSE
  /\ done_streaming' = FALSE
  /\ requests' = IF scheduled THEN <<>> ELSE requests
  /\ requestsDone' = (requestsDone /\ ~scheduled)
  /\ encryptTask' = IF scheduled THEN "drain" ELSE encryptTask
  /\ UNCHANGED <<encrypted_ids_queue, used_ids>>
  /\ UNCHANGED streamVars

\* StreamEncryptedIds, on a fresh context for n pairs.
OpenStream(n, scheduled) ==
  /\ responses' = <<>>
  /\ capacity' = n
  /\ streamResult' = Unset
  /\ streamTask' = IF scheduled THEN "drain" ELSE streamTask
  /\ UNCHANGED encryptorVars
  /\ UNCHANGED encryptVars

(****************************************************************************)
(* EncryptIdsInternal.                                                      *)
(****************************************************************************)

EncryptTaskGoes(from, to) ==
  /\ encryptTask = from
  /\ encryptTask' = to
  /\ UNCHANGED <<requests, requestsDone>>
  /\ UNCHANGED encryptorVars
  /\ UNCHANGED streamVars

\* One turn of either loop: take an ID, give it a UUID, enqueue the pair.
EncryptId ==
  /\ encryptTask \in {"drain", "drainLast"}
  /\ requests # <<>>
  /\ HasUniqueUuid
  /\ ~QueueFull
  /\ encrypted_ids_queue' =
       Append(encrypted_ids_queue, <<Head(requests), GetUniqueUuid>>)
  /\ used_ids' = used_ids \cup {GetUniqueUuid}
  /\ requests' = Tail(requests)
  /\ UNCHANGED <<done_encrypting, done_streaming, encryptTask, requestsDone>>
  /\ UNCHANGED streamVars

\* The queue is full: the ID is lost and the context is marked done.  Finish
\* and the flag follow (EncryptFailureFinishes), and then the loop goes on.
EncryptIdFails ==
  /\ encryptTask \in {"drain", "drainLast"}
  /\ requests # <<>>
  /\ HasUniqueUuid
  /\ QueueFull
  /\ used_ids' = used_ids \cup {GetUniqueUuid}
  /\ requests' = Tail(requests)
  /\ requestsDone' = TRUE
  /\ encryptTask' = IF encryptTask = "drain" THEN "fail" ELSE "failLast"
  /\ UNCHANGED <<done_encrypting, done_streaming, encrypted_ids_queue>>
  /\ UNCHANGED streamVars

EncryptDrained ==
  /\ requests = <<>>
  /\ \/ EncryptTaskGoes("drain", "checkMarked")
     \/ EncryptTaskGoes("drainLast", "succeed")

\* Mutation: no second look at the requests after the mark.
EncryptCheckMarkedOnce ==
  IF requestsDone
  THEN EncryptTaskGoes("checkMarked", "succeed")
  ELSE EncryptTaskGoes("checkMarked", "reschedule")

EncryptCheckMarked ==
  IF requestsDone
  THEN EncryptTaskGoes("checkMarked", "drainLast")
  ELSE EncryptTaskGoes("checkMarked", "reschedule")

EncryptRescheduled == EncryptTaskGoes("reschedule", "drain")

EncryptNotRescheduled ==
  /\ encryptTask = "reschedule"
  /\ encryptTask' = "failEnd"
  /\ requestsDone' = TRUE
  /\ UNCHANGED requests
  /\ UNCHANGED encryptorVars
  /\ UNCHANGED streamVars

\* done_encrypting_ = true, the last statement of every branch; after a failed
\* TryEnqueue the code has no return and is back in its loop.
AfterFinish == [succeeded   |-> "none",
                failedEnd   |-> "none",
                failed      |-> "drain",
                failedLast  |-> "drainLast"]

\* Mutation: the flag is set on success only.
SetDoneEncryptingOnSuccess ==
  /\ encryptTask \in DOMAIN AfterFinish
  /\ encryptTask' = AfterFinish[encryptTask]
  /\ done_encrypting' = (done_encrypting \/ encryptTask = "succeeded")
  /\ UNCHANGED <<requests, requestsDone, done_streaming, encrypted_ids_queue,
                 used_ids>>
  /\ UNCHANGED streamVars

SetDoneEncrypting ==
  /\ encryptTask \in DOMAIN AfterFinish
  /\ encryptTask' = AfterFinish[encryptTask]
  /\ done_encrypting' = TRUE
  /\ UNCHANGED <<requests, requestsDone, done_streaming, encrypted_ids_queue,
                 used_ids>>
  /\ UNCHANGED streamVars

(****************************************************************************)
(* StreamIdsInternal.                                                       *)
(****************************************************************************)

StreamTaskGoes(from, to) ==
  /\ streamTask = from
  /\ streamTask' = to
  /\ UNCHANGED <<responses, capacity, streamResult>>
  /\ UNCHANGED encryptorVars
  /\ UNCHANGED encryptVars

\* One turn of either loop: move a pair from the queue to the context.
StreamPair ==
  /\ streamTask \in {"drain", "drainLast"}
  /\ encrypted_ids_queue # <<>>
  /\ Len(responses) < capacity
  /\ responses' = Append(responses, Head(encrypted_ids_queue))
  /\ encrypted_ids_queue' = Tail(encrypted_ids_queue)
  /\ UNCHANGED <<done_encrypting, done_streaming, used_ids, streamTask,
                 capacity, streamResult>>
  /\ UNCHANGED encryptVars

\* The context has no room: the pair is lost and the task ends.
StreamPairFails ==
  /\ streamTask \in {"drain", "drainLast"}
  /\ encrypted_ids_queue # <<>>
  /\ Len(responses) >= capacity
  /\ encrypted_ids_queue' = Tail(encrypted_ids_queue)
  /\ done_streaming' = TRUE
  /\ streamResult' = "Failure"
  /\ streamTask' = "finish"
  /\ UNCHANGED <<done_encrypting, used_ids, responses, capacity>>
  /\ UNCHANGED encryptVars

StreamDrained ==
  /\ encrypted_ids_queue = <<>>
  /\ \/ StreamTaskGoes("drain", "checkDone")
     \/ StreamTaskGoes("drainLast", "succeed")

StreamCheckDone ==
  IF done_encrypting
  THEN StreamTaskGoes("checkDone", "drainLast")
  ELSE StreamTaskGoes("checkDone", "reschedule")

StreamRescheduled == StreamTaskGoes("reschedule", "drain")

\* Mutation: done_streaming_ is forgotten on success.
SetDoneStreamingOnFailure ==
  /\ \/ streamTask = "succeed" /\ streamResult' = "Success"
     \/ streamTask = "reschedule" /\ streamResult' = "Failure"
  /\ done_streaming' = (streamTask = "reschedule")
  /\ streamTask' = "finish"
  /\ UNCHANGED <<done_encrypting, encrypted_ids_queue, used_ids, responses,
                 capacity>>
  /\ UNCHANGED encryptVars

\* The end of the task, after the last pair or when it cannot be scheduled
\* again: the flag first; Finish, which tells the generator, comes after it.
SetDoneStreaming ==
  /\ \/ streamTask = "succeed" /\ streamResult' = "Success"
     \/ streamTask = "reschedule" /\ streamResult' = "Failure"
  /\ done_streaming' = TRUE
  /\ streamTask' = "finish"
  /\ UNCHANGED <<done_encrypting, encrypted_ids_queue, used_ids, responses,
                 capacity>>
  /\ UNCHANGED encryptVars

EncryptStep ==
  \/ EncryptId \/ EncryptIdFails \/ EncryptDrained \/ EncryptCheckMarked
  \/ EncryptRescheduled \/ EncryptNotRescheduled \/ SetDoneEncrypting

StreamStep ==
  \/ StreamPair \/ StreamPairFails \/ StreamDrained \/ StreamCheckDone
  \/ StreamRescheduled \/ SetDoneStreaming
================================================================================
