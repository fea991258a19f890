-------------------------- MODULE BlobStreamer_proofs --------------------------
(****************************************************************************)
(* Proofs about BlobStreamer, for every set of chunks and every bound.  The *)
(* download and the upload have an inductive invariant each.  Both say      *)
(* where every chunk is (passed on already or still in the streaming        *)
(* context, so that the queue can be forgotten), how far the client's       *)
(* process_callback has got, and what the other thread may conclude from    *)
(* where it is itself.                                                      *)
(****************************************************************************)
EXTENDS BlobStreamer, SequenceTheorems, TLAPS

\* What the task knows after two looks at the queue, with the mark seen in
\* between: nothing follows what it has passed on.
DownloadInv ==
  /\ Get!TypeOK
  /\ sent = received \o responses
  /\ call = "start" <=> getClient = "off"
  /\ call = "ok" <=> task # "none"
  /\ task = "none" => received = <<>>
  /\ getOutcome = Pending <=> getClient \in {"off", "streaming"}
  /\ getResult = IF getClient \in {"storing", "finished"} THEN getOutcome ELSE Pending
  /\ getIsDone <=> getClient = "finished"
  /\ task = "tryAgain" => Get!IsMarkedDone
  /\ task = "drained" => Get!IsMarkedDone /\ responses = <<>>

\* The call that ends the upload marks the context or cancels it, never both,
\* and only then may the client store a blob, of all that was accepted.
UploadInv ==
  /\ Put!TypeOK
  /\ accepted = written \o requests
  /\ caller = "start" <=> putClient = "off"
  /\ caller = "start" => accepted = <<>>
  /\ caller \in {"start", "ready"} <=> ~marked /\ ~cancelled
  /\ ~(marked /\ cancelled)
  /\ rejected => cancelled
  /\ putOutcome = Pending <=> putClient \in {"off", "writing"}
  /\ IF putOutcome = "Success"
     THEN marked /\ requests = <<>> /\ blob = accepted
     ELSE blob = NoBlob
  /\ putResult = IF putClient \in {"storing", "finished"} THEN putOutcome ELSE Pending
  /\ putIsDone <=> putClient = "finished"
  /\ caller = "ended" => putIsDone /\ returned = putResult

IInv == operation \in {"get", "put"} /\ DownloadInv /\ UploadInv

--------------------------------------------------------------------------------
LEMMA PushKeepsOrder ==
  ASSUME NEW S, NEW s \in Seq(S), NEW t \in Seq(S), NEW e \in S
  PROVE  s \o Append(t, e) = Append(s \o t, e)
<1>1. s \o t \in Seq(S) /\ <<e>> \in Seq(S)
  BY ConcatProperties
<1>2. s \o Append(t, e) = s \o (t \o <<e>>)
  BY AppendIsConcat
<1>3. Append(s \o t, e) = (s \o t) \o <<e>>
  BY <1>1, AppendIsConcat
<1>4. QED
  BY <1>1, <1>2, <1>3, ConcatAssociative

LEMMA PassOnKeepsOrder ==
  ASSUME NEW S, NEW s \in Seq(S), NEW t \in Seq(S), t # <<>>
  PROVE  /\ Append(s, Head(t)) \o Tail(t) = s \o t
         /\ (s \o t)[Len(s) + 1] = Head(t)
         /\ Len(s) < Len(s \o t)
<1>1. /\ Head(t) \in S /\ Tail(t) \in Seq(S) /\ Len(Tail(t)) = Len(t) - 1
      /\ \A i \in 1 .. Len(Tail(t)) : Tail(t)[i] = t[i + 1]
      /\ Len(t) \in Nat \ {0} /\ Len(s) \in Nat
  BY HeadTailProperties, EmptySeq, LenProperties
<1>2. /\ s \o t \in Seq(S) /\ Len(s \o t) = Len(s) + Len(t)
      /\ \A i \in 1 .. Len(s) + Len(t) :
            (s \o t)[i] = IF i <= Len(s) THEN s[i] ELSE t[i - Len(s)]
  BY ConcatProperties
<1>3. /\ Append(s, Head(t)) \in Seq(S) /\ Len(Append(s, Head(t))) = Len(s) + 1
      /\ \A i \in 1 .. Len(s) : Append(s, Head(t))[i] = s[i]
      /\ Append(s, Head(t))[Len(s) + 1] = Head(t)
  BY <1>1, AppendProperties
<1>4. /\ Append(s, Head(t)) \o Tail(t) \in Seq(S)
      /\ Len(Append(s, Head(t)) \o Tail(t)) = Len(s) + Len(t)
      /\ \A i \in 1 .. Len(s) + Len(t) :
            (Append(s, Head(t)) \o Tail(t))[i] =
              IF i <= Len(s) + 1 THEN Append(s, Head(t))[i]
              ELSE Tail(t)[i - (Len(s) + 1)]
  BY <1>1, <1>3, ConcatProperties
<1>5. Head(t) = t[1]
  OBVIOUS
<1>6. ASSUME NEW i \in 1 .. Len(s \o t)
      PROVE  (Append(s, Head(t)) \o Tail(t))[i] = (s \o t)[i]
  <2>1. CASE i <= Len(s)
    BY <1>1, <1>2, <1>3, <1>4, <2>1
  <2>2. CASE i = Len(s) + 1
    BY <1>1, <1>2, <1>3, <1>4, <1>5, <2>2
  <2>3. CASE i > Len(s) + 1
    <3>1. i - (Len(s) + 1) \in 1 .. Len(Tail(t))
      BY <1>1, <1>2, <2>3
    <3>2. Tail(t)[i - (Len(s) + 1)] = t[i - Len(s)]
      BY <1>1, <3>1
    <3>3. QED
      BY <1>1, <1>2, <1>4, <2>3, <3>2
  <2>4. QED
    BY <1>1, <1>2, <2>1, <2>2, <2>3
<1>7. QED
  BY <1>1, <1>2, <1>4, <1>5, <1>6, SeqEqual

--------------------------------------------------------------------------------
LEMMA DownloadStep ==
  ASSUME DownloadInv, Get!Next
  PROVE  DownloadInv'
<1> USE BlobStreamerAssumption
    DEF DownloadInv, Get!TypeOK, Get!Results, Get!Success, Get!Failure,
        Get!IsMarkedDone, Get!clientOnly, Get!taskOnly
<1>1. CASE Get!StartClient
  BY <1>1 DEF Get!StartClient
<1>2. CASE Get!Schedule
  BY <1>2 DEF Get!Schedule
<1>3. CASE Get!Stop
  BY <1>3 DEF Get!Stop
<1>4. ASSUME NEW d \in Data, Get!PushResponse(d)
      PROVE  DownloadInv'
  <2>1. /\ received \in Seq(Data) /\ responses \in Seq(Data)
        /\ sent = received \o responses
    OBVIOUS
  <2>2. received \o Append(responses, d) = Append(received \o responses, d)
    BY <2>1, PushKeepsOrder
  <2>3. Append(responses, d) \in Seq(Data) /\ Append(sent, d) \in Seq(Data)
    BY <2>1, AppendProperties
  <2>4. QED
    BY <1>4, <2>1, <2>2, <2>3 DEF Get!PushResponse
<1>5. ASSUME NEW r \in Get!Results, Get!MarkDone(r)
      PROVE  DownloadInv'
  BY <1>5 DEF Get!MarkDone
<1>6. CASE Get!StoreResult
  BY <1>6 DEF Get!StoreResult
<1>7. CASE Get!StoreIsDone
  BY <1>7 DEF Get!StoreIsDone
<1>8. ASSUME task \in {"tryGet", "tryAgain"}, Get!PassOn
      PROVE  DownloadInv'
  <2>1. /\ received \in Seq(Data) /\ responses \in Seq(Data) /\ responses # <<>>
        /\ sent = received \o responses
    BY <1>8 DEF Get!PassOn
  <2>2. Append(received, Head(responses)) \o Tail(responses) = received \o responses
    BY <2>1, PassOnKeepsOrder
  <2>3. /\ Tail(responses) \in Seq(Data)
        /\ Append(received, Head(responses)) \in Seq(Data)
    BY <2>1, HeadTailProperties, AppendProperties
  <2>4. QED
    BY <1>8, <2>1, <2>2, <2>3 DEF Get!PassOn
<1>9. ASSUME NEW from, NEW to, Get!TaskGoes(from, to),
             from \notin {"none", "returned"},
             to \in {"loop", "tryGet", "gotNull", "tryAgain", "drained", "stopped"},
             to = "tryAgain" => Get!IsMarkedDone,
             to = "drained" => Get!IsMarkedDone /\ responses = <<>>
      PROVE  DownloadInv'
  BY <1>9 DEF Get!TaskGoes
<1>10. CASE Get!CheckStop
  BY <1>9, <1>10 DEF Get!CheckStop
<1>11. CASE Get!TryGet
  BY <1>8, <1>9, <1>11 DEF Get!TryGet
<1>12. CASE Get!CheckMarkedDone
  BY <1>9, <1>12 DEF Get!CheckMarkedDone
<1>13. CASE Get!TryGetAgain
  <2>1. CASE task = "tryAgain" /\ Get!PassOn
    BY <1>8, <2>1
  <2>2. CASE responses = <<>> /\ Get!TaskGoes("tryAgain", "drained")
    <3>1. task = "tryAgain"
      BY <2>2 DEF Get!TaskGoes
    <3>2. QED
      BY <1>9, <2>2, <3>1
  <2>3. QED
    BY <1>13, <2>1, <2>2 DEF Get!TryGetAgain
<1>14. CASE Get!NotDoneYet
  BY <1>9, <1>14 DEF Get!NotDoneYet
<1>15. CASE Get!CallFinal
  BY <1>15 DEF Get!CallFinal
<1>16. QED
  BY <1>1, <1>2, <1>3, <1>4, <1>5, <1>6, <1>7, <1>10, <1>11, <1>12, <1>13, <1>14,
     <1>15
     DEF Get!Next, Get!Caller, Get!ClientEnds, Get!Task

\* Each step of the download is one of OrderedDelivery, or none.
LEMMA DownloadSimulates ==
  ASSUME DownloadInv, Get!Next
  PROVE  [Get!Abstract!DNext]_(Get!Abstract!dvars)
<1> USE BlobStreamerAssumption
    DEF DownloadInv, Get!TypeOK, Get!Results, Get!Success, Get!Failure,
        Get!IsMarkedDone, Get!clientOnly, Get!taskOnly, Get!Abstract!dvars
<1>1. CASE Get!StartClient
  BY <1>1 DEF Get!StartClient
<1>2. CASE Get!Schedule
  BY <1>2 DEF Get!Schedule, Get!Abstract!DNext, Get!Abstract!Refuse
<1>3. CASE Get!Stop
  BY <1>3 DEF Get!Stop
<1>4. ASSUME NEW d \in Data, Get!PushResponse(d)
      PROVE  Get!Abstract!Send(d)
  BY <1>4 DEF Get!PushResponse, Get!Abstract!Send
<1>5. ASSUME NEW r \in Get!Results, Get!MarkDone(r)
      PROVE  Get!Abstract!Close(r)
  BY <1>5 DEF Get!MarkDone, Get!Abstract!Close
<1>6. CASE Get!StoreResult \/ Get!StoreIsDone
  BY <1>6 DEF Get!StoreResult, Get!StoreIsDone
<1>7. ASSUME task \in {"tryGet", "tryAgain"}, Get!PassOn
      PROVE  Get!Abstract!Receive
  <2>1. /\ received \in Seq(Data) /\ responses \in Seq(Data) /\ responses # <<>>
        /\ sent = received \o responses
    BY <1>7 DEF Get!PassOn
  <2>2. sent[Len(received) + 1] = Head(responses) /\ Len(received) < Len(sent)
    BY <2>1, PassOnKeepsOrder
  <2>3. call = "ok" /\ final = Pending
    BY <1>7
  <2>4. QED
    BY <1>7, <2>2, <2>3 DEF Get!PassOn, Get!Abstract!Receive
<1>8. ASSUME NEW from, NEW to, Get!TaskGoes(from, to)
      PROVE  UNCHANGED Get!Abstract!dvars
  BY <1>8 DEF Get!TaskGoes
<1>9. CASE Get!CallFinal
  <2>1. received = sent
    BY <1>9, ConcatEmptySeq DEF Get!CallFinal
  <2>2. Get!Abstract!ReceiveFinal
    BY <1>9, <2>1 DEF Get!CallFinal, Get!Abstract!ReceiveFinal
  <2>3. QED
    BY <2>2 DEF Get!Abstract!DNext
<1>10. CASE Get!Task
  <2>1. CASE Get!TryGet \/ Get!TryGetAgain
    BY <1>7, <1>8, <2>1 DEF Get!TryGet, Get!TryGetAgain, Get!TaskGoes, Get!Abstract!DNext
  <2>2. CASE Get!CheckStop \/ Get!CheckMarkedDone \/ Get!NotDoneYet
    BY <1>8, <2>2 DEF Get!CheckStop, Get!CheckMarkedDone, Get!NotDoneYet
  <2>3. QED
    BY <1>9, <1>10, <2>1, <2>2 DEF Get!Task
<1>11. QED
  BY <1>1, <1>2, <1>3, <1>4, <1>5, <1>6, <1>10
     DEF Get!Next, Get!Caller, Get!ClientEnds, Get!Abstract!DNext

--------------------------------------------------------------------------------
LEMMA UploadStep ==
  ASSUME UploadInv, Put!Next
  PROVE  UploadInv'
<1> USE BlobStreamerAssumption
    DEF UploadInv, Put!TypeOK, Put!Results, Put!Success, Put!Failure,
        Put!clientOnly, Put!callerOnly
<1>1. ASSUME NEW d \in Data, Put!PutBlobStream(d)
      PROVE  UploadInv'
  <2>1. accepted' = <<d>> /\ written' = <<d>> /\ requests' = <<>>
    <3>1. accepted = <<>> /\ caller = "start" /\ requests' = requests
      BY <1>1 DEF Put!PutBlobStream
    <3>2. requests = <<>>
      <4>1. requests \in Seq(Data) /\ written \in Seq(Data) /\ written \o requests = <<>>
        BY <3>1
      <4>2. QED
        BY <4>1, ConcatSimplifications!concIsEmpty
    <3>3. QED
      BY <1>1, <3>1, <3>2 DEF Put!PutBlobStream
  <2>2. <<d>> \in Seq(Data) /\ <<d>> = <<d>> \o <<>>
    BY ConcatEmptySeq
  <2>3. QED
    BY <1>1, <2>1, <2>2 DEF Put!PutBlobStream
<1>2. ASSUME NEW d \in Data, Put!PushData(d)
      PROVE  UploadInv'
  <2>1. /\ written \in Seq(Data) /\ requests \in Seq(Data)
        /\ accepted \in Seq(Data) /\ accepted = written \o requests
    OBVIOUS
  <2>2. written \o Append(requests, d) = Append(accepted, d)
    BY <2>1, PushKeepsOrder
  <2>3. Append(requests, d) \in Seq(Data) /\ Append(accepted, d) \in Seq(Data)
    BY <2>1, AppendProperties
  <2>4. QED
    BY <1>2, <2>1, <2>2, <2>3 DEF Put!PushData, Put!CanPush
<1>3. CASE Put!PushFails
  BY <1>3 DEF Put!PushFails
<1>4. CASE Put!PushDoneMarker
  BY <1>4 DEF Put!PushDoneMarker
<1>5. CASE Put!PushError
  BY <1>5 DEF Put!PushError
<1>6. CASE Put!ReturnResult
  BY <1>6 DEF Put!ReturnResult
<1>7. CASE Put!TakeRequest
  <2>1. /\ written \in Seq(Data) /\ requests \in Seq(Data) /\ requests # <<>>
        /\ accepted = written \o requests
    BY <1>7 DEF Put!TakeRequest
  <2>2. Append(written, Head(requests)) \o Tail(requests) = written \o requests
    BY <2>1, PassOnKeepsOrder
  <2>3. /\ Tail(requests) \in Seq(Data)
        /\ Append(written, Head(requests)) \in Seq(Data)
    BY <2>1, HeadTailProperties, AppendProperties
  <2>4. QED
    BY <1>7, <2>1, <2>2, <2>3 DEF Put!TakeRequest
<1>8. CASE Put!FinishUpload
  <2>1. written = accepted
    BY <1>8, ConcatEmptySeq DEF Put!FinishUpload
  <2>2. QED
    BY <1>8, <2>1 DEF Put!FinishUpload
<1>9. CASE Put!FailUpload
  BY <1>9 DEF Put!FailUpload
<1>10. CASE Put!StoreResult
  BY <1>10 DEF Put!StoreResult
<1>11. CASE Put!StoreIsDone
  BY <1>11 DEF Put!StoreIsDone
<1>12. QED
  BY <1>1, <1>2, <1>3, <1>4, <1>5, <1>6, <1>7, <1>8, <1>9, <1>10, <1>11
     DEF Put!Next, Put!Functor, Put!Client

\* Each step of the upload is one of Upload, or none: the verdict is given, and
\* the blob seen, when the call that spun returns.
LEMMA UploadSimulates ==
  ASSUME UploadInv, Put!Next
  PROVE  [Put!Abstract!UNext]_(Put!Abstract!uvars)
<1> USE BlobStreamerAssumption
    DEF UploadInv, Put!TypeOK, Put!Results, Put!Success, Put!Failure,
        Put!clientOnly, Put!callerOnly, Put!Abstract!uvars, Put!verdict,
        Put!visibleBlob
<1>1. ASSUME NEW d \in Data, Put!PutBlobStream(d)
      PROVE  Put!Abstract!Open(d)
  BY <1>1 DEF Put!PutBlobStream, Put!Abstract!Open
<1>2. ASSUME NEW d \in Data, Put!PushData(d)
      PROVE  Put!Abstract!Push(d)
  BY <1>2 DEF Put!PushData, Put!Abstract!Push
<1>3. CASE Put!PushFails \/ Put!PushDoneMarker \/ Put!PushError
  BY <1>3 DEF Put!PushFails, Put!PushDoneMarker, Put!PushError
<1>4. CASE Put!ReturnResult
  <2>1. putResult = putOutcome /\ putOutcome \in {"Success", "Failure"}
    BY <1>4 DEF Put!ReturnResult
  <2>2. CASE putOutcome = "Success"
    BY <1>4, <2>1, <2>2 DEF Put!ReturnResult, Put!Abstract!UNext, Put!Abstract!Commit
  <2>3. CASE putOutcome = "Failure"
    BY <1>4, <2>1, <2>3 DEF Put!ReturnResult, Put!Abstract!UNext, Put!Abstract!Abort
  <2>4. QED
    BY <2>1, <2>2, <2>3
<1>5. CASE Put!Client
  BY <1>5 DEF Put!Client, Put!TakeRequest, Put!FinishUpload, Put!FailUpload,
              Put!StoreResult, Put!StoreIsDone
<1>6. QED
  BY <1>1, <1>2, <1>3, <1>4, <1>5
     DEF Put!Next, Put!Functor, Put!Abstract!UNext

--------------------------------------------------------------------------------
LEMMA InitInv == Init => IInv
<1> SUFFICES ASSUME Init PROVE IInv
  OBVIOUS
<1> USE BlobStreamerAssumption
<1>1. DownloadInv
  BY ConcatEmptySeq, EmptySeq
     DEF Init, Get!Init, DownloadInv, Get!TypeOK, Get!Results, Get!Success,
         Get!Failure, Get!IsMarkedDone
<1>2. UploadInv
  BY ConcatEmptySeq, EmptySeq
     DEF Init, Put!Init, UploadInv, Put!TypeOK, Put!Results, Put!Success,
         Put!Failure
<1>3. QED
  BY <1>1, <1>2 DEF IInv, Init

\* A behaviour is a download whose upload never begins, or the reverse: the
\* other one's invariant is kept because nothing it speaks of changes.
LEMMA Frames ==
  /\ UNCHANGED downloadVars => (DownloadInv => DownloadInv') /\ UNCHANGED Get!Abstract!dvars
  /\ UNCHANGED uploadVars => (UploadInv => UploadInv') /\ UNCHANGED Put!Abstract!uvars
<1>1. ASSUME UNCHANGED downloadVars
      PROVE  (DownloadInv => DownloadInv') /\ UNCHANGED Get!Abstract!dvars
  BY <1>1 DEF downloadVars, DownloadInv, Get!TypeOK, Get!IsMarkedDone, Get!Abstract!dvars
<1>2. ASSUME UNCHANGED uploadVars
      PROVE  (UploadInv => UploadInv') /\ UNCHANGED Put!Abstract!uvars
  BY <1>2 DEF uploadVars, UploadInv, Put!TypeOK, Put!Abstract!uvars, Put!verdict,
              Put!visibleBlob
<1>3. QED
  BY <1>1, <1>2

LEMMA NextCases ==
  ASSUME [Next]_vars
  PROVE  /\ operation' = operation
         /\ Get!Next \/ UNCHANGED downloadVars
         /\ Put!Next \/ UNCHANGED uploadVars
BY DEF Next, vars

\* Where the chunks are and what each thread may conclude stays true whatever
\* caller, client and task do, in any order.
THEOREM Invariance == Spec => []IInv
<1>1. Init => IInv
  BY InitInv
<1>2. IInv /\ [Next]_vars => IInv'
  BY NextCases, DownloadStep, UploadStep, Frames DEF IInv
<1>3. QED
  BY <1>1, <1>2, PTL DEF Spec

\* Every variable keeps its type: in particular, no final call and no call of
\* the upload's function passes on a result nobody has assigned.
THEOREM TypeCorrect == Spec => []TypeOK
<1>1. IInv => TypeOK
  BY DEF IInv, DownloadInv, UploadInv, TypeOK
<1>2. QED
  BY <1>1, Invariance, PTL

\* Once a push of data has failed, the call reports a failure and the bucket
\* has no blob, however far the client had got (blob_streamer.cc:131-136).
THEOREM FailedPushLeavesNoBlob == Spec => []NoBlobAfterFailedPush
<1>1. IInv => NoBlobAfterFailedPush
  BY BlobStreamerAssumption
     DEF IInv, UploadInv, NoBlobAfterFailedPush, Put!NoBlobAfterFailedPush,
         Put!TypeOK, Put!Results, Put!Success, Put!Failure
<1>2. QED
  BY <1>1, Invariance, PTL

\* The detailed download implements OrderedDelivery: the callback sees all
\* chunks in order, each once, then the result, and nothing after a failure of
\* GetBlobStream itself.
THEOREM DownloadDeliversInOrder == Spec => DeliversInOrder
<1>1. Init => Get!Abstract!DInit
  BY DEF Init, Get!Init, Get!Abstract!DInit
<1>2. IInv /\ [Next]_vars => [Get!Abstract!DNext]_(Get!Abstract!dvars)
  BY NextCases, DownloadSimulates, Frames DEF IInv
<1>3. QED
  BY <1>1, <1>2, Invariance, PTL
     DEF Spec, DeliversInOrder, Get!DeliversInOrder, Get!Abstract!DSpec

\* The detailed upload implements Upload: a success means that all the data
\* taken is in the blob, in order, and any other end leaves none.
THEOREM UploadKeepsItsPromise == Spec => ImplementsUpload
<1>1. Init => Put!Abstract!UInit
  BY DEF Init, Put!Init, Put!Abstract!UInit, Put!verdict, Put!visibleBlob
<1>2. IInv /\ [Next]_vars => [Put!Abstract!UNext]_(Put!Abstract!uvars)
  BY NextCases, UploadSimulates, Frames DEF IInv
<1>3. QED
  BY <1>1, <1>2, Invariance, PTL
     DEF Spec, ImplementsUpload, Put!ImplementsUpload, Put!Abstract!USpec
================================================================================
