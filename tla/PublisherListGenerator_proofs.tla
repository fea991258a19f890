---------------------- MODULE PublisherListGenerator_proofs ----------------------
(****************************************************************************)
(* Proofs about PublisherListGenerator, for all lists, any set of UUIDs,    *)
(* any queue and any number of calls: the threads' places determine what is *)
(* left where (ControlInv, CleanInv), every ID of the list is in exactly    *)
(* one place on its way (FlowInv), no UUID is in two (UuidInv), and nothing *)
(* breaks before something has been refused (RefusedInv).  What is in       *)
(* uploaded is kept complete, and the text of its pairs (TextInv), by the   *)
(* step that puts it there.  That this text parses to the table of the      *)
(* pairs is about the pure definitions of PublisherMapping, and proved for  *)
(* every mapping in CsvRow_proofs (PairsReadBack).                          *)
(****************************************************************************)
EXTENDS PublisherListGenerator, CsvRow_proofs

InCall == main \in {"stream", "retrieve", "gotNull", "retrieveLast",
                    "checkStream", "checkResults"}
EnqueueRefused == "enqueue" \in refused
StreamSucceeded ==
  \/ streamTask = "finish" /\ streamResult = "Success"
  \/ streaming_done /\ streaming_result = "Success"

\* TypeOK, with what the provers need besides: sequences, not their ranges.
SequenceTypes ==
  /\ ids \in Seq(PlainId) /\ toPush \in Seq(PlainId) /\ requests \in Seq(PlainId)
  /\ encrypted_ids_queue \in Seq(Pairs) /\ Len(encrypted_ids_queue) <= QueueSize
  /\ capacity \in Nat
  /\ responses \in Seq(Pairs) /\ Len(responses) <= capacity
  /\ encrypted_pairs \in Seq(Pairs)
UploadTypes == \A u \in uploaded : u.list \in Seq(PlainId) /\ u.pairs \in Seq(Pairs)
FlagTypes ==
  /\ done_encrypting \in BOOLEAN /\ done_streaming \in BOOLEAN
  /\ requestsDone \in BOOLEAN
  /\ encryption_done \in BOOLEAN /\ streaming_done \in BOOLEAN
  /\ refused \in SUBSET {"schedule", "enqueue"}
  /\ encryption_result \in Results /\ pushing_result \in Results
  /\ streaming_result \in Results /\ streamResult \in Results
  /\ used_ids \in SUBSET Uuid
PlaceTypes ==
  /\ encryptTask \in {"none", "drain", "checkMarked", "drainLast", "reschedule",
                      "succeed", "fail", "failLast", "failEnd",
                      "succeeded", "failed", "failedLast", "failedEnd"}
  /\ streamTask \in {"none", "drain", "checkDone", "drainLast", "succeed",
                     "reschedule", "finish"}
  /\ main \in {"idle", "encrypt", "stream", "retrieve", "gotNull",
               "retrieveLast", "checkStream", "checkResults"}
  /\ pusher \in {"none", "pushing", "ended"}
  /\ callResult \in {"none", "Success", "Failure", "Busy"}
  /\ broken \in {"no", "dangling", "overlap", "terminated"}
CallTypes == calls \in 0..MaxCalls /\ encryptFor \in 0..calls
TypeInv == SequenceTypes /\ UploadTypes /\ FlagTypes /\ PlaceTypes /\ CallTypes

\* Where main is, and what it has read in the flags, tells it about the others.
ControlInv ==
  /\ streamTask # "none" <=> main \in {"retrieve", "gotNull"} /\ ~streaming_done
  /\ main \in {"encrypt", "stream"} => ~streaming_done /\ encrypted_pairs = <<>>
  /\ main \in {"retrieveLast", "checkStream", "checkResults"} => streaming_done
  /\ main \in {"checkStream", "checkResults"} => responses = <<>>
  /\ main = "encrypt" => encryptFor < calls /\ encryption_result = Unset
  /\ InCall => encryptFor = calls
  /\ InCall /\ main # "checkResults" => pusher # "none"
  /\ InCall /\ main # "stream" => capacity = Len(ids)
  /\ main = "checkResults" => pusher = "none" /\ streaming_result = "Success"
  /\ streamTask \in {"drainLast", "succeed"} => done_encrypting
  /\ streamTask = "finish" => done_streaming
  /\ StreamSucceeded => done_encrypting /\ done_streaming
  /\ pushing_result = "Success" => toPush = <<>>

\* As long as the queue has had room: a flag that is up, or a success, means
\* that the task behind it has ended and that its source is empty.
CleanInv ==
  ~EnqueueRefused =>
    /\ encryptTask \notin {"fail", "failLast", "failed", "failedLast"}
    /\ done_encrypting => encryptTask = "none"
    /\ streamTask = "succeed" \/ StreamSucceeded => encrypted_ids_queue = <<>>
    /\ pusher = "none" =>
         encrypted_ids_queue = <<>> /\ encryptTask = "none" /\ streamTask = "none"
    /\ encryptTask \in {"drainLast", "succeed", "succeeded"} => requestsDone
    /\ encryptTask \in {"succeed", "succeeded"} => requests = <<>>
    /\ encryption_result = "Success" => requestsDone /\ requests = <<>>
    /\ main = "idle" /\ callResult = "Success" =>
         done_encrypting /\ done_streaming /\ pusher = "none"

\* The IDs of the list, from the ones that have got furthest to the ones that
\* have not been pushed: in order, none lost, none twice.  (Until BeginStream,
\* responses is the stream context of an earlier call.)
ThisCallsResponses == IF main = "stream" THEN <<>> ELSE responses
FlowInv ==
  ~EnqueueRefused /\ InCall =>
    IdsOf(encrypted_pairs) \o (IdsOf(ThisCallsResponses) \o
      (IdsOf(encrypted_ids_queue) \o (requests \o toPush))) = ids

Uuids(pairs) == {pairs[i][2] : i \in DOMAIN pairs}
NoUuidTwice(pairs) ==
  \A i, j \in DOMAIN pairs : pairs[i][2] = pairs[j][2] => i = j
Apart(pairs, others) == Uuids(pairs) \cap Uuids(others) = {}

\* A UUID is in one place only, and used_ids_ knows it.
UuidInv ==
  /\ NoUuidTwice(encrypted_ids_queue) /\ Uuids(encrypted_ids_queue) \subseteq used_ids
  /\ NoUuidTwice(responses) /\ Uuids(responses) \subseteq used_ids
  /\ NoUuidTwice(encrypted_pairs) /\ Uuids(encrypted_pairs) \subseteq used_ids
  /\ Apart(encrypted_ids_queue, responses)
  /\ Apart(encrypted_ids_queue, encrypted_pairs)
  /\ Apart(responses, encrypted_pairs)
  /\ \A u \in uploaded :
       /\ Uuids(u.pairs) \subseteq used_ids
       /\ Apart(u.pairs, encrypted_ids_queue)
       /\ Apart(u.pairs, responses)
       /\ main # "idle" => Apart(u.pairs, encrypted_pairs)
  /\ UuidsAreUnique

\* Before anything is refused, no call leaves a thread behind.
RefusedInv ==
  refused = {} =>
    /\ streamTask = "finish" => streamResult = "Success"
    /\ streaming_done => streaming_result = "Success"
    /\ main \in {"idle", "encrypt"} => pusher = "none"
    /\ broken = "no"

\* What is uploaded is the text of its pairs.
TextInv == \A u \in uploaded : u.mapping = MappingText(Rows(u.pairs))

IInv ==
  /\ TypeInv /\ ControlInv /\ CleanInv /\ FlowInv /\ UuidInv /\ RefusedInv
  /\ MappingIsComplete /\ TextInv


--------------------------------------------------------------------------------
\* What one end of a queue or the other gives and takes.
LEMMA MoveProperties ==
  ASSUME NEW S, NEW s \in Seq(S), s # <<>>
  PROVE  /\ Head(s) \in S
         /\ Tail(s) \in Seq(S)
         /\ Len(Tail(s)) = Len(s) - 1
         /\ Len(s) \in Nat \ {0}
BY HeadTailProperties, EmptySeq, LenProperties

\* Passing the first element of the one on to the other keeps their order.
KeepsOrder(s, t, u) == Append(s, Head(t)) \o (Tail(t) \o u) = s \o (t \o u)

LEMMA PassOnKeepsOrder ==
  ASSUME NEW S, NEW s \in Seq(S), NEW t \in Seq(S), NEW u \in Seq(S), t # <<>>
  PROVE  KeepsOrder(s, t, u)
<1>1. /\ Head(t) \in S /\ Tail(t) \in Seq(S) /\ <<Head(t)>> \in Seq(S)
      /\ Append(s, Head(t)) \in Seq(S)
  BY HeadTailProperties, AppendProperties
<1>2. Append(s, Head(t)) = s \o <<Head(t)>>
  BY <1>1, AppendIsConcat
<1>3. <<Head(t)>> \o Tail(t) = t
  <2>1. Len(<<Head(t)>> \o Tail(t)) = Len(t)
    BY <1>1, ConcatProperties, MoveProperties
  <2>2. /\ <<Head(t)>> \o Tail(t) \in Seq(S)
        /\ \A i \in 1 .. Len(<<Head(t)>> \o Tail(t)) :
             (<<Head(t)>> \o Tail(t))[i] =
               IF i <= Len(<<Head(t)>>) THEN <<Head(t)>>[i]
               ELSE Tail(t)[i - Len(<<Head(t)>>)]
    BY <1>1, ConcatProperties
  <2>3. /\ \A i \in 1 .. Len(Tail(t)) : Tail(t)[i] = t[i + 1]
        /\ Len(Tail(t)) = Len(t) - 1 /\ Head(t) = t[1] /\ Len(t) \in Nat
    BY HeadTailProperties, LenProperties
  <2>4. ASSUME NEW i \in 1 .. Len(t)
        PROVE  (<<Head(t)>> \o Tail(t))[i] = t[i]
    <3>1. CASE i = 1
      BY <2>1, <2>2, <2>3, <3>1
    <3>2. CASE i # 1
      <4>1. i - 1 \in 1 .. Len(Tail(t)) /\ (i - 1) + 1 = i
        BY <2>3, <3>2
      <4>2. Tail(t)[i - 1] = t[i]
        BY <2>3, <4>1
      <4>3. QED
        BY <2>1, <2>2, <3>2, <4>2
    <3>3. QED
      BY <3>1, <3>2
  <2>5. QED
    BY <2>1, <2>2, <2>4, SeqEqual
<1>4. (s \o <<Head(t)>>) \o (Tail(t) \o u) = s \o (<<Head(t)>> \o (Tail(t) \o u))
  <2> DEFINE h == <<Head(t)>>
             w == Tail(t) \o u
  <2>1. h \in Seq(S) /\ w \in Seq(S)
    BY <1>1, ConcatProperties
  <2> HIDE DEF h, w
  <2>2. (s \o h) \o w = s \o (h \o w)
    BY <2>1, ConcatAssociative, SMTT(30)
  <2>3. QED
    BY <2>2 DEF h, w
<1>5. <<Head(t)>> \o (Tail(t) \o u) = (<<Head(t)>> \o Tail(t)) \o u
  BY <1>1, ConcatAssociative
<1>6. QED
  BY <1>2, <1>3, <1>4, <1>5, Zenon DEF KeepsOrder

LEMMA IdsOfProperties ==
  ASSUME NEW pairs \in Seq(Pairs)
  PROVE  /\ IdsOf(pairs) \in Seq(PlainId)
         /\ Len(IdsOf(pairs)) = Len(pairs)
         /\ IdsOf(pairs) = <<>> <=> pairs = <<>>
<1>1. /\ Len(pairs) \in Nat /\ DOMAIN pairs = 1 .. Len(pairs)
      /\ \A i \in 1 .. Len(pairs) : pairs[i] \in Pairs
  BY LenProperties, ElementOfSeq
<1>2. IdsOf(pairs) = [i \in 1 .. Len(pairs) |-> pairs[i][1]]
  BY <1>1 DEF IdsOf
<1>3. \A i \in 1 .. Len(pairs) : pairs[i][1] \in PlainId
  BY <1>1 DEF Pairs
<1>4. IdsOf(pairs) \in Seq(PlainId) /\ Len(IdsOf(pairs)) = Len(pairs)
  BY <1>1, <1>2, <1>3, IsASeq, LenProperties
<1>5. QED
  BY <1>4, EmptySeq

LEMMA IdsOfEmpty == IdsOf(<<>>) = <<>>
<1>1. <<>> \in Seq(Pairs)
  BY EmptySeq
<1>2. QED
  BY <1>1, IdsOfProperties

LEMMA IdsOfAppend ==
  ASSUME NEW pairs \in Seq(Pairs), NEW pair \in Pairs
  PROVE  IdsOf(Append(pairs, pair)) = Append(IdsOf(pairs), pair[1])
<1> DEFINE more == Append(pairs, pair)
<1>1. /\ more \in Seq(Pairs) /\ Len(more) = Len(pairs) + 1
      /\ \A i \in 1 .. Len(pairs) : more[i] = pairs[i]
      /\ more[Len(pairs) + 1] = pair
      /\ Len(pairs) \in Nat
  BY AppendProperties, LenProperties
<1> HIDE DEF more
<1>2. pair[1] \in PlainId
  BY DEF Pairs
<1>3. /\ IdsOf(more) \in Seq(PlainId) /\ Len(IdsOf(more)) = Len(pairs) + 1
      /\ IdsOf(pairs) \in Seq(PlainId) /\ Len(IdsOf(pairs)) = Len(pairs)
  BY <1>1, IdsOfProperties
<1>4. /\ Append(IdsOf(pairs), pair[1]) \in Seq(PlainId)
      /\ Len(Append(IdsOf(pairs), pair[1])) = Len(pairs) + 1
      /\ \A i \in 1 .. Len(pairs) : Append(IdsOf(pairs), pair[1])[i] = IdsOf(pairs)[i]
      /\ Append(IdsOf(pairs), pair[1])[Len(pairs) + 1] = pair[1]
  BY <1>2, <1>3, AppendProperties
<1>5. /\ \A i \in 1 .. Len(pairs) + 1 : IdsOf(more)[i] = more[i][1]
      /\ \A i \in 1 .. Len(pairs) : IdsOf(pairs)[i] = pairs[i][1]
  <2>1. DOMAIN more = 1 .. Len(pairs) + 1 /\ DOMAIN pairs = 1 .. Len(pairs)
    BY <1>1, LenProperties
  <2>2. QED
    BY <2>1 DEF IdsOf
<1>6. ASSUME NEW i \in 1 .. Len(pairs) + 1
      PROVE  IdsOf(more)[i] = Append(IdsOf(pairs), pair[1])[i]
  <2>1. CASE i = Len(pairs) + 1
    BY <1>1, <1>4, <1>5, <2>1
  <2>2. CASE i \in 1 .. Len(pairs)
    BY <1>1, <1>4, <1>5, <2>2
  <2>3. i = Len(pairs) + 1 \/ i \in 1 .. Len(pairs)
    BY <1>1
  <2>4. QED
    BY <2>1, <2>2, <2>3
<1>7. IdsOf(more) = Append(IdsOf(pairs), pair[1])
  BY <1>3, <1>4, <1>6, SeqEqual
<1>8. QED
  BY <1>7 DEF more

LEMMA IdsOfHeadTail ==
  ASSUME NEW pairs \in Seq(Pairs), pairs # <<>>
  PROVE  /\ Head(IdsOf(pairs)) = Head(pairs)[1]
         /\ Tail(IdsOf(pairs)) = IdsOf(Tail(pairs))
         /\ Head(pairs) \in Pairs
         /\ Head(pairs)[1] \in PlainId
<1>1. /\ Tail(pairs) \in Seq(Pairs) /\ Len(Tail(pairs)) = Len(pairs) - 1
      /\ \A i \in 1 .. Len(Tail(pairs)) : Tail(pairs)[i] = pairs[i + 1]
      /\ Head(pairs) = pairs[1] /\ Len(pairs) \in Nat \ {0} /\ Head(pairs) \in Pairs
  BY HeadTailProperties, EmptySeq, LenProperties
<1>2. /\ IdsOf(pairs) \in Seq(PlainId) /\ Len(IdsOf(pairs)) = Len(pairs)
      /\ IdsOf(pairs) # <<>>
      /\ IdsOf(Tail(pairs)) \in Seq(PlainId)
      /\ Len(IdsOf(Tail(pairs))) = Len(pairs) - 1
  BY <1>1, IdsOfProperties
<1>3. /\ Tail(IdsOf(pairs)) \in Seq(PlainId)
      /\ Len(Tail(IdsOf(pairs))) = Len(pairs) - 1
      /\ \A i \in 1 .. Len(pairs) - 1 : Tail(IdsOf(pairs))[i] = IdsOf(pairs)[i + 1]
      /\ Head(IdsOf(pairs)) = IdsOf(pairs)[1]
  BY <1>2, HeadTailProperties
<1>4. /\ \A i \in 1 .. Len(pairs) : IdsOf(pairs)[i] = pairs[i][1]
      /\ \A i \in 1 .. Len(pairs) - 1 : IdsOf(Tail(pairs))[i] = Tail(pairs)[i][1]
  <2>1. DOMAIN pairs = 1 .. Len(pairs) /\ DOMAIN Tail(pairs) = 1 .. Len(pairs) - 1
    BY <1>1, LenProperties
  <2>2. QED
    BY <2>1 DEF IdsOf
<1>5. ASSUME NEW i \in 1 .. Len(pairs) - 1
      PROVE  Tail(IdsOf(pairs))[i] = IdsOf(Tail(pairs))[i]
  <2>1. i + 1 \in 1 .. Len(pairs) /\ i \in 1 .. Len(Tail(pairs))
    BY <1>1
  <2>2. Tail(IdsOf(pairs))[i] = pairs[i + 1][1]
    BY <1>3, <1>4, <2>1
  <2>3. IdsOf(Tail(pairs))[i] = pairs[i + 1][1]
    BY <1>1, <1>4, <2>1
  <2>4. QED
    BY <2>2, <2>3
<1>6. Tail(IdsOf(pairs)) = IdsOf(Tail(pairs))
  BY <1>2, <1>3, <1>5, SeqEqual
<1>7. Head(IdsOf(pairs)) = Head(pairs)[1]
  BY <1>1, <1>3, <1>4
<1>8. Head(pairs)[1] \in PlainId
  BY <1>1 DEF Pairs
<1>9. QED
  BY <1>1, <1>6, <1>7, <1>8

LEMMA UuidsEmpty == Uuids(<<>>) = {} /\ NoUuidTwice(<<>>)
BY DEF Uuids, NoUuidTwice

LEMMA UuidsAppend ==
  ASSUME NEW pairs \in Seq(Pairs), NEW pair \in Pairs
  PROVE  /\ Uuids(Append(pairs, pair)) = Uuids(pairs) \cup {pair[2]}
         /\ NoUuidTwice(pairs) /\ pair[2] \notin Uuids(pairs) =>
              NoUuidTwice(Append(pairs, pair))
<1> DEFINE more == Append(pairs, pair)
<1>1. /\ DOMAIN more = 1 .. Len(pairs) + 1 /\ DOMAIN pairs = 1 .. Len(pairs)
      /\ \A i \in 1 .. Len(pairs) : more[i] = pairs[i]
      /\ more[Len(pairs) + 1] = pair
      /\ Len(pairs) \in Nat
  BY AppendProperties, LenProperties
<1> HIDE DEF more
<1>2. Uuids(more) = Uuids(pairs) \cup {pair[2]}
  BY <1>1 DEF Uuids
<1>3. ASSUME NoUuidTwice(pairs), pair[2] \notin Uuids(pairs)
      PROVE  NoUuidTwice(more)
  <2>1. SUFFICES ASSUME NEW i \in 1 .. Len(pairs) + 1, NEW j \in 1 .. Len(pairs) + 1,
                        more[i][2] = more[j][2]
                 PROVE  i = j
    BY <1>1 DEF NoUuidTwice
  <2>2. \A k \in 1 .. Len(pairs) : more[k][2] # pair[2]
    BY <1>1, <1>3 DEF Uuids
  <2>3. QED
    BY <1>1, <1>3, <2>1, <2>2 DEF NoUuidTwice
<1>4. QED
  BY <1>2, <1>3 DEF more

LEMMA UuidsHeadTail ==
  ASSUME NEW pairs \in Seq(Pairs), pairs # <<>>
  PROVE  /\ Uuids(pairs) = Uuids(Tail(pairs)) \cup {Head(pairs)[2]}
         /\ NoUuidTwice(pairs) =>
              NoUuidTwice(Tail(pairs)) /\ Head(pairs)[2] \notin Uuids(Tail(pairs))
<1> DEFINE rest == Tail(pairs)
<1>1. /\ Len(rest) = Len(pairs) - 1 /\ Head(pairs) = pairs[1]
      /\ \A i \in 1 .. Len(rest) : rest[i] = pairs[i + 1]
      /\ Len(pairs) \in Nat \ {0} /\ rest \in Seq(Pairs)
  BY HeadTailProperties, EmptySeq, LenProperties
<1>2. DOMAIN pairs = 1 .. Len(pairs) /\ DOMAIN rest = 1 .. Len(pairs) - 1
  BY <1>1, LenProperties
<1> HIDE DEF rest
<1>3. Uuids(pairs) = Uuids(rest) \cup {Head(pairs)[2]}
  <2>1. ASSUME NEW i \in 1 .. Len(pairs)
        PROVE  i = 1 \/ (i - 1 \in 1 .. Len(rest) /\ rest[i - 1] = pairs[i])
    <3>1. CASE i # 1
      <4>1. i - 1 \in 1 .. Len(rest) /\ (i - 1) + 1 = i
        BY <1>1, <3>1
      <4>2. QED
        BY <1>1, <4>1
    <3>2. QED
      BY <3>1
  <2>2. ASSUME NEW i \in 1 .. Len(rest)
        PROVE  i + 1 \in 1 .. Len(pairs) /\ rest[i] = pairs[i + 1]
    BY <1>1
  <2>3. Uuids(rest) \cup {Head(pairs)[2]} \subseteq Uuids(pairs)
    BY <1>1, <1>2, <2>2 DEF Uuids
  <2>4. Uuids(pairs) \subseteq Uuids(rest) \cup {Head(pairs)[2]}
    BY <1>1, <1>2, <2>1 DEF Uuids
  <2>5. QED
    BY <2>3, <2>4
<1>4. ASSUME NoUuidTwice(pairs)
      PROVE  NoUuidTwice(rest) /\ Head(pairs)[2] \notin Uuids(rest)
  <2>1. ASSUME NEW i \in 1 .. Len(pairs) - 1
        PROVE  i + 1 \in 1 .. Len(pairs) /\ 1 \in 1 .. Len(pairs) /\ i + 1 # 1
               /\ rest[i] = pairs[i + 1]
    BY <1>1
  <2>2. \A i \in 1 .. Len(pairs) - 1 : rest[i][2] # pairs[1][2]
    BY <1>2, <1>4, <2>1 DEF NoUuidTwice
  <2>3. \A i, j \in 1 .. Len(pairs) - 1 : rest[i][2] = rest[j][2] => i + 1 = j + 1
    BY <1>2, <1>4, <2>1 DEF NoUuidTwice
  <2>4. NoUuidTwice(rest)
    BY <1>2, <2>3 DEF NoUuidTwice
  <2>5. Head(pairs)[2] \notin Uuids(rest)
    BY <1>1, <1>2, <2>2 DEF Uuids
  <2>6. QED
    BY <2>4, <2>5
<1>5. QED
  BY <1>3, <1>4 DEF rest


--------------------------------------------------------------------------------
\* The steps of the encryptor's two tasks that end in a callback or a flag.
LEMMA Ends ==
  /\ DOMAIN Finishing = {"succeed", "fail", "failLast", "failEnd"}
  /\ DOMAIN AfterFinish = {"succeeded", "failedEnd", "failed", "failedLast"}
  /\ Finishing["succeed"].result = "Success"
  /\ \A t \in {"fail", "failLast", "failEnd"} : Finishing[t].result = "Failure"
  /\ Finishing["succeed"].next = "succeeded"
  /\ Finishing["fail"].next = "failed"
  /\ Finishing["failLast"].next = "failedLast"
  /\ Finishing["failEnd"].next = "failedEnd"
  /\ AfterFinish["succeeded"] = "none" /\ AfterFinish["failedEnd"] = "none"
  /\ AfterFinish["failed"] = "drain" /\ AfterFinish["failedLast"] = "drainLast"
BY DEF Finishing, AfterFinish

LEMMA FreshUuid ==
  ASSUME HasUniqueUuid
  PROVE  GetUniqueUuid \in Uuid /\ GetUniqueUuid \notin used_ids
BY DEF HasUniqueUuid, GetUniqueUuid

LEMMA WhatIsUploaded ==
  ASSUME UploadMapping, NEW u \in uploaded', u \notin uploaded
  PROVE  /\ u.list = ids /\ u.pairs = encrypted_pairs
         /\ u.mapping = MappingText(Rows(encrypted_pairs))
         /\ pushing_result = "Success" /\ encryption_result = "Success"
         /\ \A v \in uploaded' : v \in uploaded \/ v = u
<1> DEFINE text == MappingText(Rows(encrypted_pairs))
           new == [call |-> calls, list |-> ids, pairs |-> encrypted_pairs,
                   mapping |-> text]
<1>1. /\ uploaded' = uploaded \cup {new}
      /\ pushing_result = "Success" /\ encryption_result = "Success"
  BY DEF UploadMapping, UploadIdMapping
<1> HIDE DEF text
<1>2. new.list = ids /\ new.pairs = encrypted_pairs /\ new.mapping = text
  OBVIOUS
<1> HIDE DEF new
<1>3. QED
  BY <1>1, <1>2 DEF text

LEMMA TypesInit == Init => TypeInv
<1> SUFFICES ASSUME Init PROVE TypeInv
  OBVIOUS
<1>1. <<>> \in Seq(PlainId) /\ <<>> \in Seq(Pairs) /\ Len(<<>>) = 0
  BY EmptySeq
<1>2. SequenceTypes
  BY <1>1, GeneratorAssumption DEF Init, EncryptorInit, SequenceTypes
<1>3. UploadTypes
  BY DEF Init, UploadTypes
<1>4. FlagTypes
  BY DEF Init, EncryptorInit, FlagTypes, Results
<1>5. PlaceTypes
  BY DEF Init, EncryptorInit, PlaceTypes
<1>6. CallTypes
  BY GeneratorAssumption DEF Init, CallTypes
<1>7. QED
  BY <1>2, <1>3, <1>4, <1>5, <1>6 DEF TypeInv

LEMMA TypesStep ==
  ASSUME TypeInv, Next
  PROVE  TypeInv'
<1> USE GeneratorAssumption
    DEF TypeInv, SequenceTypes, UploadTypes, FlagTypes, PlaceTypes, CallTypes, Results,
        encryptorVars, encryptVars, streamVars, mainVars, sharedVars, pusherVars, Return, MainGoes
<1>0. <<>> \in Seq(PlainId) /\ <<>> \in Seq(Pairs) /\ Len(<<>>) = 0
  BY EmptySeq
<1>1. CASE FetchList
  <2>1. \A list \in Lists : list \in Seq(PlainId)
    OBVIOUS
  <2>2. QED
    <3>1. SequenceTypes'
      BY <1>0, <1>1, <2>1 DEF FetchList, GetOutputBucketName
    <3>2. UploadTypes'
      BY <1>0, <1>1, <2>1 DEF FetchList, GetOutputBucketName
    <3>3. FlagTypes'
      BY <1>1, <2>1 DEF FetchList, GetOutputBucketName
    <3>4. PlaceTypes'
      BY <1>1, <2>1 DEF FetchList, GetOutputBucketName
    <3>5. CallTypes'
      BY <1>1, <2>1 DEF FetchList, GetOutputBucketName
    <3>6. QED
      BY <3>1, <3>2, <3>3, <3>4, <3>5 DEF TypeInv
<1>2. CASE EncryptorBusy
  BY <1>2 DEF EncryptorBusy
<1>3. CASE BeginEncryption
  <2>1. SequenceTypes'
    BY <1>0, <1>3 DEF BeginEncryption, OpenEncryption
  <2>2. UploadTypes'
    BY <1>0, <1>3 DEF BeginEncryption, OpenEncryption
  <2>3. FlagTypes'
    BY <1>3 DEF BeginEncryption, OpenEncryption
  <2>4. PlaceTypes'
    BY <1>3 DEF BeginEncryption, OpenEncryption
  <2>5. CallTypes'
    BY <1>3 DEF BeginEncryption, OpenEncryption
  <2>6. QED
    BY <2>1, <2>2, <2>3, <2>4, <2>5 DEF TypeInv
<1>4. CASE EncryptNotScheduled
  <2>1. SequenceTypes'
    BY <1>0, <1>4 DEF EncryptNotScheduled, OpenEncryption
  <2>2. UploadTypes'
    BY <1>0, <1>4 DEF EncryptNotScheduled, OpenEncryption
  <2>3. FlagTypes'
    BY <1>4 DEF EncryptNotScheduled, OpenEncryption
  <2>4. PlaceTypes'
    BY <1>4 DEF EncryptNotScheduled, OpenEncryption
  <2>5. CallTypes'
    BY <1>4 DEF EncryptNotScheduled, OpenEncryption
  <2>6. QED
    BY <2>1, <2>2, <2>3, <2>4, <2>5 DEF TypeInv
<1>5. CASE BeginOverEarlierCall
  BY <1>5 DEF BeginOverEarlierCall
<1>6. CASE BeginStream
  <2>1. Len(ids) \in Nat
    BY LenProperties
  <2>2. QED
    BY <1>0, <1>6, <2>1 DEF BeginStream, OpenStream
<1>7. CASE StreamNotScheduled
  <2>1. Len(ids) \in Nat
    BY LenProperties
  <2>2. QED
    BY <1>0, <1>7, <2>1 DEF StreamNotScheduled, OpenStream
<1>8. CASE RetrievePair
  <2>1. /\ responses \in Seq(Pairs) /\ responses # <<>>
        /\ encrypted_pairs \in Seq(Pairs)
    BY <1>8 DEF RetrievePair
  <2>2. /\ Tail(responses) \in Seq(Pairs) /\ Len(Tail(responses)) = Len(responses) - 1
        /\ Append(encrypted_pairs, Head(responses)) \in Seq(Pairs)
        /\ Len(responses) \in Nat
    BY <2>1, MoveProperties, AppendProperties
  <2>3. QED
    BY <1>8, <2>2 DEF RetrievePair
<1>9. CASE RetrieveNothing
  BY <1>9 DEF RetrieveNothing
<1>10. CASE StreamFailed
  BY <1>10 DEF StreamFailed
<1>11. CASE JoinOthers
  BY <1>11 DEF JoinOthers
<1>12. CASE UploadMapping
  <2>1. SequenceTypes'
    BY <1>12 DEF UploadMapping, UploadIdMapping
  <2>2. UploadTypes'
    BY <1>12, WhatIsUploaded DEF UploadMapping
  <2>3. FlagTypes'
    BY <1>12 DEF UploadMapping, UploadIdMapping
  <2>4. PlaceTypes'
    BY <1>12 DEF UploadMapping, UploadIdMapping
  <2>5. CallTypes'
    BY <1>12 DEF UploadMapping, UploadIdMapping
  <2>6. QED
    BY <2>1, <2>2, <2>3, <2>4, <2>5 DEF TypeInv
<1>13. CASE PushId
  <2>1. toPush \in Seq(PlainId) /\ toPush # <<>> /\ requests \in Seq(PlainId)
    BY <1>13 DEF PushId
  <2>2. /\ Tail(toPush) \in Seq(PlainId)
        /\ Append(requests, Head(toPush)) \in Seq(PlainId)
    BY <2>1, MoveProperties, AppendProperties
  <2>3. QED
    BY <1>13, <2>2 DEF PushId
<1>14. CASE EndPushing
  BY <1>14 DEF EndPushing
<1>15. CASE EncryptTask
  <2>1. CASE EncryptId
    <3>1. requests \in Seq(PlainId) /\ requests # <<>> /\ GetUniqueUuid \in Uuid
      BY <2>1, FreshUuid DEF EncryptId
    <3>2. <<Head(requests), GetUniqueUuid>> \in Pairs /\ Tail(requests) \in Seq(PlainId)
      BY <3>1, MoveProperties DEF Pairs
    <3> DEFINE more == Append(encrypted_ids_queue, <<Head(requests), GetUniqueUuid>>)
    <3>3. /\ more \in Seq(Pairs) /\ Len(more) = Len(encrypted_ids_queue) + 1
          /\ Len(encrypted_ids_queue) \in Nat
      BY <3>2, AppendProperties, LenProperties
    <3>4. Len(more) <= QueueSize
      BY <2>1, <3>3 DEF EncryptId, QueueFull
    <3>5. encrypted_ids_queue' = more
      BY <2>1 DEF EncryptId
    <3> HIDE DEF more
    <3>6. QED
      BY <1>15, <2>1, <3>1, <3>2, <3>3, <3>4, <3>5 DEF EncryptTask, EncryptId
  <2>2. CASE EncryptIdFails
    <3>1. requests \in Seq(PlainId) /\ requests # <<>> /\ GetUniqueUuid \in Uuid
      BY <2>2, FreshUuid DEF EncryptIdFails
    <3>2. Tail(requests) \in Seq(PlainId)
      BY <3>1, MoveProperties
    <3>3. QED
      BY <1>15, <2>2, <3>1, <3>2 DEF EncryptTask, EncryptIdFails
  <2>3. CASE EncryptDrained \/ EncryptCheckMarked \/ EncryptRescheduled
    BY <1>15, <2>3 DEF EncryptTask, EncryptDrained, EncryptCheckMarked,
                       EncryptRescheduled, EncryptTaskGoes
  <2>4. CASE EncryptNotRescheduled
    BY <1>15, <2>4 DEF EncryptTask, EncryptNotRescheduled
  <2>5. CASE SetDoneEncrypting
    BY <1>15, <2>5, Ends DEF EncryptTask, SetDoneEncrypting
  <2>6. QED
    BY <1>15, <2>1, <2>2, <2>3, <2>4, <2>5 DEF EncryptTask, EncryptStep
<1>16. CASE FinishEncryption
  BY <1>16, Ends DEF FinishEncryption
<1>17. CASE StreamTask
  <2>1. CASE StreamPair
    <3>1. /\ encrypted_ids_queue \in Seq(Pairs) /\ encrypted_ids_queue # <<>>
          /\ responses \in Seq(Pairs)
      BY <2>1 DEF StreamPair
    <3> DEFINE more == Append(responses, Head(encrypted_ids_queue))
               rest == Tail(encrypted_ids_queue)
    <3>2. /\ rest \in Seq(Pairs) /\ Len(rest) = Len(encrypted_ids_queue) - 1
          /\ Len(encrypted_ids_queue) \in Nat
          /\ more \in Seq(Pairs) /\ Len(more) = Len(responses) + 1
          /\ Len(responses) \in Nat
      BY <3>1, MoveProperties, AppendProperties, LenProperties
    <3>3. responses' = more /\ encrypted_ids_queue' = rest /\ Len(responses) < capacity
      BY <2>1 DEF StreamPair
    <3> HIDE DEF more, rest
    <3>4. QED
      BY <1>17, <2>1, <3>2, <3>3 DEF StreamTask, StreamPair
  <2>2. CASE StreamPairFails
    <3>1. encrypted_ids_queue \in Seq(Pairs) /\ encrypted_ids_queue # <<>>
      BY <2>2 DEF StreamPairFails
    <3>2. /\ Tail(encrypted_ids_queue) \in Seq(Pairs)
          /\ Len(Tail(encrypted_ids_queue)) = Len(encrypted_ids_queue) - 1
          /\ Len(encrypted_ids_queue) \in Nat
      BY <3>1, MoveProperties
    <3>3. QED
      BY <1>17, <2>2, <3>2 DEF StreamTask, StreamPairFails
  <2>3. CASE StreamDrained \/ StreamCheckDone \/ StreamRescheduled
    BY <1>17, <2>3 DEF StreamTask, StreamDrained, StreamCheckDone, StreamRescheduled,
                       StreamTaskGoes
  <2>4. CASE SetDoneStreaming
    BY <1>17, <2>4 DEF StreamTask, SetDoneStreaming
  <2>5. QED
    BY <1>17, <2>1, <2>2, <2>3, <2>4 DEF StreamTask, StreamStep
<1>18. CASE FinishStream
  BY <1>18 DEF FinishStream
<1>19. CASE TouchDeadFrame
  BY <1>19 DEF TouchDeadFrame
<1>20. QED
  BY <1>1, <1>2, <1>3, <1>4, <1>5, <1>6, <1>7, <1>8, <1>9, <1>10, <1>11, <1>12,
     <1>13, <1>14, <1>15, <1>16, <1>17, <1>18, <1>19
     DEF Next, Main, Pusher, EncryptTaskThread, StreamTaskThread

--------------------------------------------------------------------------------
LEMMA ControlInit == Init => ControlInv
BY GeneratorAssumption
   DEF Init, EncryptorInit, ControlInv, InCall, StreamSucceeded

LEMMA ControlStep ==
  ASSUME TypeInv, ControlInv, Next
  PROVE  ControlInv'
<1> USE GeneratorAssumption
    DEF ControlInv, InCall, StreamSucceeded, encryptorVars, encryptVars, streamVars,
        mainVars,
        sharedVars, pusherVars, Return, MainGoes
<1>0. /\ FlagTypes /\ PlaceTypes /\ CallTypes
      /\ calls \in Nat /\ encryptFor \in Nat /\ encryptFor <= calls
  BY DEF TypeInv, CallTypes
<1>1. CASE FetchList
  BY <1>0, <1>1 DEF FetchList, GetOutputBucketName
<1>2. CASE EncryptorBusy
  BY <1>2 DEF EncryptorBusy
<1>3. CASE BeginEncryption
  BY <1>3 DEF BeginEncryption, OpenEncryption
<1>4. CASE EncryptNotScheduled
  BY <1>4 DEF EncryptNotScheduled, OpenEncryption
<1>5. CASE BeginOverEarlierCall
  BY <1>5 DEF BeginOverEarlierCall
<1>6. CASE BeginStream
  BY <1>6 DEF BeginStream, OpenStream
<1>7. CASE StreamNotScheduled
  BY <1>7 DEF StreamNotScheduled, OpenStream
<1>8. CASE RetrievePair
  BY <1>8 DEF RetrievePair
<1>9. CASE RetrieveNothing
  BY <1>9 DEF RetrieveNothing
<1>10. CASE StreamFailed
  BY <1>10 DEF StreamFailed
<1>11. CASE JoinOthers
  BY <1>11 DEF JoinOthers
<1>12. CASE UploadMapping
  BY <1>12 DEF UploadMapping, UploadIdMapping
<1>13. CASE PushId
  BY <1>13 DEF PushId
<1>14. CASE EndPushing
  BY <1>14 DEF EndPushing
<1>15. CASE EncryptTask
  <2>1. CASE EncryptId \/ EncryptIdFails
    BY <1>15, <2>1 DEF EncryptTask, EncryptId, EncryptIdFails
  <2>2. CASE EncryptDrained \/ EncryptCheckMarked \/ EncryptRescheduled
    BY <1>15, <2>2 DEF EncryptTask, EncryptDrained, EncryptCheckMarked,
                       EncryptRescheduled, EncryptTaskGoes
  <2>3. CASE EncryptNotRescheduled
    BY <1>15, <2>3 DEF EncryptTask, EncryptNotRescheduled
  <2>4. CASE SetDoneEncrypting
    BY <1>15, <2>4 DEF EncryptTask, SetDoneEncrypting
  <2>5. QED
    BY <1>15, <2>1, <2>2, <2>3, <2>4 DEF EncryptTask, EncryptStep
<1>16. CASE FinishEncryption
  BY <1>0, <1>16 DEF FinishEncryption, FrameAlive
<1>17. CASE StreamTask
  <2>1. CASE StreamPair
    BY <1>17, <2>1 DEF StreamTask, StreamPair
  <2>2. CASE StreamPairFails
    BY <1>17, <2>2 DEF StreamTask, StreamPairFails
  <2>3. CASE StreamDrained \/ StreamCheckDone \/ StreamRescheduled
    BY <1>17, <2>3 DEF StreamTask, StreamDrained, StreamCheckDone, StreamRescheduled,
                       StreamTaskGoes
  <2>4. CASE SetDoneStreaming
    BY <1>17, <2>4 DEF StreamTask, SetDoneStreaming
  <2>5. QED
    BY <1>17, <2>1, <2>2, <2>3, <2>4 DEF StreamTask, StreamStep
<1>18. CASE FinishStream
  BY <1>18 DEF FinishStream
<1>19. CASE TouchDeadFrame
  BY <1>19 DEF TouchDeadFrame
<1>20. QED
  BY <1>1, <1>2, <1>3, <1>4, <1>5, <1>6, <1>7, <1>8, <1>9, <1>10, <1>11, <1>12,
     <1>13, <1>14, <1>15, <1>16, <1>17, <1>18, <1>19
     DEF Next, Main, Pusher, EncryptTaskThread, StreamTaskThread

--------------------------------------------------------------------------------
LEMMA CleanInit == Init => CleanInv
BY GeneratorAssumption
   DEF Init, EncryptorInit, CleanInv, EnqueueRefused, StreamSucceeded

LEMMA CleanStep ==
  ASSUME TypeInv, ControlInv, CleanInv, Next
  PROVE  CleanInv'
<1> USE GeneratorAssumption
    DEF CleanInv, EnqueueRefused, ControlInv, InCall, StreamSucceeded,
        encryptorVars, encryptVars, streamVars, mainVars,
        sharedVars, pusherVars, Return, MainGoes
<1>0. /\ FlagTypes /\ PlaceTypes /\ CallTypes
      /\ calls \in Nat /\ encryptFor \in Nat /\ encryptFor <= calls
  BY DEF TypeInv, CallTypes
<1>1. CASE FetchList
  BY <1>0, <1>1 DEF FetchList, GetOutputBucketName
<1>2. CASE EncryptorBusy
  BY <1>2 DEF EncryptorBusy
<1>3. CASE BeginEncryption
  BY <1>3 DEF BeginEncryption, OpenEncryption
<1>4. CASE EncryptNotScheduled
  BY <1>4 DEF EncryptNotScheduled, OpenEncryption, Busy
<1>5. CASE BeginOverEarlierCall
  BY <1>5 DEF BeginOverEarlierCall
<1>6. CASE BeginStream
  BY <1>6 DEF BeginStream, OpenStream
<1>7. CASE StreamNotScheduled
  BY <1>7 DEF StreamNotScheduled, OpenStream
<1>8. CASE RetrievePair
  BY <1>8 DEF RetrievePair
<1>9. CASE RetrieveNothing
  BY <1>9 DEF RetrieveNothing
<1>10. CASE StreamFailed
  BY <1>10 DEF StreamFailed
<1>11. CASE JoinOthers
  BY <1>11 DEF JoinOthers
<1>12. CASE UploadMapping
  BY <1>12 DEF UploadMapping, UploadIdMapping
<1>13. CASE PushId
  BY <1>13 DEF PushId
<1>14. CASE EndPushing
  BY <1>14 DEF EndPushing
<1>15. CASE EncryptTask
  <2>1. CASE EncryptId \/ EncryptIdFails
    BY <1>15, <2>1 DEF EncryptTask, EncryptId, EncryptIdFails
  <2>2. CASE EncryptDrained \/ EncryptCheckMarked \/ EncryptRescheduled
    BY <1>15, <2>2 DEF EncryptTask, EncryptDrained, EncryptCheckMarked,
                       EncryptRescheduled, EncryptTaskGoes
  <2>3. CASE EncryptNotRescheduled
    BY <1>15, <2>3 DEF EncryptTask, EncryptNotRescheduled
  <2>4. CASE SetDoneEncrypting
    BY <1>15, <2>4, Ends DEF EncryptTask, SetDoneEncrypting
  <2>5. QED
    BY <1>15, <2>1, <2>2, <2>3, <2>4 DEF EncryptTask, EncryptStep
<1>16. CASE FinishEncryption
  BY <1>0, <1>16, Ends DEF FinishEncryption, FrameAlive
<1>17. CASE StreamTask
  <2>1. CASE StreamPair
    BY <1>17, <2>1 DEF StreamTask, StreamPair
  <2>2. CASE StreamPairFails
    BY <1>17, <2>2 DEF StreamTask, StreamPairFails
  <2>3. CASE StreamDrained \/ StreamCheckDone \/ StreamRescheduled
    BY <1>17, <2>3 DEF StreamTask, StreamDrained, StreamCheckDone, StreamRescheduled,
                       StreamTaskGoes
  <2>4. CASE SetDoneStreaming
    BY <1>17, <2>4 DEF StreamTask, SetDoneStreaming
  <2>5. QED
    BY <1>17, <2>1, <2>2, <2>3, <2>4 DEF StreamTask, StreamStep
<1>18. CASE FinishStream
  BY <1>18 DEF FinishStream
<1>19. CASE TouchDeadFrame
  BY <1>19 DEF TouchDeadFrame
<1>20. QED
  BY <1>1, <1>2, <1>3, <1>4, <1>5, <1>6, <1>7, <1>8, <1>9, <1>10, <1>11, <1>12,
     <1>13, <1>14, <1>15, <1>16, <1>17, <1>18, <1>19
     DEF Next, Main, Pusher, EncryptTaskThread, StreamTaskThread

--------------------------------------------------------------------------------
flowVars == <<encrypted_pairs, responses, encrypted_ids_queue, requests, toPush, ids>>

\* The types the steps of FlowInv rest on.
LEMMA FlowTypes ==
  ASSUME TypeInv
  PROVE  /\ requests \in Seq(PlainId) /\ toPush \in Seq(PlainId) /\ ids \in Seq(PlainId)
         /\ requests \o toPush \in Seq(PlainId)
         /\ encrypted_pairs \in Seq(Pairs) /\ responses \in Seq(Pairs)
         /\ encrypted_ids_queue \in Seq(Pairs) /\ ThisCallsResponses \in Seq(Pairs)
         /\ IdsOf(encrypted_pairs) \in Seq(PlainId)
         /\ IdsOf(ThisCallsResponses) \in Seq(PlainId)
         /\ IdsOf(encrypted_ids_queue) \in Seq(PlainId)
         /\ IdsOf(encrypted_ids_queue) \o (requests \o toPush) \in Seq(PlainId)
<1>1. /\ requests \in Seq(PlainId) /\ toPush \in Seq(PlainId) /\ ids \in Seq(PlainId)
      /\ encrypted_pairs \in Seq(Pairs) /\ responses \in Seq(Pairs)
      /\ encrypted_ids_queue \in Seq(Pairs)
  BY DEF TypeInv, SequenceTypes
<1>2. ThisCallsResponses \in Seq(Pairs)
  BY <1>1, EmptySeq DEF ThisCallsResponses
<1>3. requests \o toPush \in Seq(PlainId)
  BY <1>1, ConcatProperties
<1>4. /\ IdsOf(encrypted_pairs) \in Seq(PlainId)
      /\ IdsOf(ThisCallsResponses) \in Seq(PlainId)
      /\ IdsOf(encrypted_ids_queue) \in Seq(PlainId)
  BY <1>1, <1>2, IdsOfProperties
<1>5. IdsOf(encrypted_ids_queue) \o (requests \o toPush) \in Seq(PlainId)
  BY <1>3, <1>4, ConcatProperties
<1>6. QED
  BY <1>1, <1>2, <1>3, <1>4, <1>5

LEMMA FlowFrame ==
  ASSUME FlowInv, UNCHANGED flowVars,
         InCall' => InCall /\ (main' = "stream" <=> main = "stream"),
         EnqueueRefused => EnqueueRefused'
  PROVE  FlowInv'
BY DEF FlowInv, flowVars, ThisCallsResponses

\* The stream context has room for whatever is in the queue.
LEMMA StreamHasRoom ==
  ASSUME TypeInv, ControlInv, FlowInv, ~EnqueueRefused,
         streamTask # "none", encrypted_ids_queue # <<>>
  PROVE  Len(responses) < capacity
<1>1. /\ InCall /\ main # "stream" /\ ThisCallsResponses = responses
      /\ capacity = Len(ids)
  BY DEF ControlInv, InCall, ThisCallsResponses
<1> DEFINE p == IdsOf(encrypted_pairs)
           r == IdsOf(responses)
           q == IdsOf(encrypted_ids_queue)
           rest == requests \o toPush
<1>2. /\ p \in Seq(PlainId) /\ r \in Seq(PlainId) /\ q \in Seq(PlainId)
      /\ rest \in Seq(PlainId) /\ q \o rest \in Seq(PlainId)
      /\ responses \in Seq(Pairs) /\ encrypted_ids_queue \in Seq(Pairs)
  BY <1>1, FlowTypes
<1>3. /\ Len(r) = Len(responses) /\ Len(q) = Len(encrypted_ids_queue)
      /\ Len(encrypted_ids_queue) \in Nat \ {0}
  BY <1>2, IdsOfProperties, MoveProperties
<1>4. p \o (r \o (q \o rest)) = ids
  BY <1>1 DEF FlowInv
<1> HIDE DEF p, r, q, rest
<1>5. Len(q \o rest) = Len(q) + Len(rest)
  BY <1>2, ConcatProperties
<1>6. /\ r \o (q \o rest) \in Seq(PlainId)
      /\ Len(r \o (q \o rest)) = Len(r) + Len(q \o rest)
  BY <1>2, ConcatProperties
<1>7. Len(p \o (r \o (q \o rest))) = Len(p) + Len(r \o (q \o rest))
  BY <1>2, <1>6, ConcatProperties
<1>8. Len(p) \in Nat /\ Len(r) \in Nat /\ Len(q) \in Nat /\ Len(rest) \in Nat
  BY <1>2, LenProperties
<1>9. QED
  BY <1>1, <1>3, <1>4, <1>5, <1>6, <1>7, <1>8

LEMMA FlowStep ==
  ASSUME TypeInv, ControlInv, CleanInv, FlowInv, Next
  PROVE  FlowInv'
<1> USE DEF EnqueueRefused, encryptorVars, encryptVars, streamVars, mainVars,
            sharedVars, pusherVars, Return, MainGoes
<1>0. EnqueueRefused => EnqueueRefused'
  BY DEF Next, Main, Pusher, EncryptTaskThread, StreamTaskThread, FetchList,
     EncryptorBusy, BeginEncryption, EncryptNotScheduled, BeginOverEarlierCall,
     BeginStream, StreamNotScheduled, RetrievePair, RetrieveNothing, StreamFailed,
     JoinOthers, UploadMapping, PushId, EndPushing, EncryptTask, FinishEncryption,
     StreamTask, FinishStream, TouchDeadFrame
<1> HIDE DEF EnqueueRefused
<1>1. ASSUME ~InCall' PROVE FlowInv'
  BY <1>1 DEF FlowInv
<1>2. CASE FetchList
  BY <1>1, <1>2 DEF FetchList, GetOutputBucketName, InCall
<1>3. CASE EncryptorBusy \/ EncryptNotScheduled \/ StreamNotScheduled \/ StreamFailed
           \/ UploadMapping
  BY <1>1, <1>3 DEF EncryptorBusy, EncryptNotScheduled, StreamNotScheduled,
     StreamFailed, UploadMapping, UploadIdMapping, InCall
<1>4. CASE BeginEncryption
  <2>1. SUFFICES ASSUME ~EnqueueRefused
                 PROVE  FlowInv'
    BY <1>0 DEF FlowInv
  <2>2. /\ encrypted_pairs' = <<>> /\ encrypted_ids_queue' = <<>>
        /\ requests' = <<>> /\ toPush' = ids /\ ids' = ids /\ main' = "stream"
    BY <1>4, <2>1 DEF BeginEncryption, OpenEncryption, ControlInv, CleanInv
  <2>3. ThisCallsResponses' = <<>>
    BY <2>2 DEF ThisCallsResponses
  <2>4. ids \in Seq(PlainId)
    BY FlowTypes
  <2>5. <<>> \o (<<>> \o (<<>> \o (<<>> \o ids))) = ids
    BY <2>4, ConcatEmptySeq
  <2>6. QED
    BY <2>2, <2>3, <2>5, IdsOfEmpty DEF FlowInv
<1>5. CASE BeginStream
  <2>1. SUFFICES ASSUME ~EnqueueRefused
                 PROVE  FlowInv'
    BY <1>0 DEF FlowInv
  <2>2. /\ InCall /\ ThisCallsResponses = <<>> /\ ThisCallsResponses' = <<>>
        /\ UNCHANGED <<encrypted_pairs, encrypted_ids_queue, requests, toPush, ids>>
    BY <1>5 DEF BeginStream, OpenStream, InCall, ThisCallsResponses
  <2>3. QED
    BY <2>1, <2>2 DEF FlowInv
<1>6. CASE RetrievePair
  <2>1. SUFFICES ASSUME ~EnqueueRefused
                 PROVE  FlowInv'
    BY <1>0 DEF FlowInv
  <2> DEFINE behind == IdsOf(encrypted_ids_queue) \o (requests \o toPush)
  <2>2. /\ responses # <<>> /\ InCall /\ behind' = behind
        /\ ThisCallsResponses = responses /\ ThisCallsResponses' = responses'
        /\ encrypted_pairs' = Append(encrypted_pairs, Head(responses))
        /\ responses' = Tail(responses) /\ ids' = ids
    BY <1>6 DEF RetrievePair, InCall, ThisCallsResponses
  <2>3. /\ encrypted_pairs \in Seq(Pairs) /\ responses \in Seq(Pairs)
        /\ behind \in Seq(PlainId) /\ IdsOf(encrypted_pairs) \in Seq(PlainId)
        /\ IdsOf(responses) \in Seq(PlainId)
    BY <2>2, FlowTypes
  <2>4. IdsOf(encrypted_pairs) \o (IdsOf(responses) \o behind) = ids
    BY <2>1, <2>2 DEF FlowInv
  <2>5. /\ IdsOf(encrypted_pairs') = Append(IdsOf(encrypted_pairs), Head(IdsOf(responses)))
        /\ IdsOf(responses') = Tail(IdsOf(responses))
        /\ IdsOf(responses) # <<>>
    BY <2>2, <2>3, IdsOfAppend, IdsOfHeadTail, IdsOfProperties
  <2> HIDE DEF behind
  <2>6. IdsOf(encrypted_pairs') \o (IdsOf(responses') \o behind) = ids
    <3> DEFINE p == IdsOf(encrypted_pairs)
               r == IdsOf(responses)
    <3>1. p \in Seq(PlainId) /\ r \in Seq(PlainId) /\ r # <<>> /\ behind \in Seq(PlainId)
      BY <2>3, <2>5
    <3> HIDE DEF p, r
    <3>2. KeepsOrder(p, r, behind)
      BY <3>1, PassOnKeepsOrder
    <3>3. QED
      BY <2>4, <2>5, <3>2, Zenon DEF p, r, KeepsOrder
  <2>7. IdsOf(encrypted_pairs)' \o (IdsOf(ThisCallsResponses)' \o behind') = ids'
    BY <2>2, <2>6 DEF IdsOf
  <2>8. QED
    BY <2>7 DEF FlowInv, behind
<1>7. CASE RetrieveNothing \/ JoinOthers \/ EndPushing \/ FinishEncryption \/ FinishStream
           \/ BeginOverEarlierCall \/ TouchDeadFrame
  <2>1. /\ UNCHANGED flowVars
        /\ InCall' => InCall /\ (main' = "stream" <=> main = "stream")
    BY <1>7 DEF RetrieveNothing, JoinOthers, EndPushing, FinishEncryption, FinishStream,
       BeginOverEarlierCall, TouchDeadFrame, flowVars, InCall
  <2>2. QED
    BY <1>0, <2>1, FlowFrame
<1>8. CASE PushId
  <2>1. /\ toPush # <<>> /\ requests \in Seq(PlainId) /\ toPush \in Seq(PlainId)
        /\ requests' = Append(requests, Head(toPush)) /\ toPush' = Tail(toPush)
    BY <1>8, FlowTypes DEF PushId
  <2>2. requests' \o toPush' = requests \o toPush
    <3>1. /\ Append(requests, Head(toPush)) \in Seq(PlainId)
          /\ Tail(toPush) \in Seq(PlainId)
      BY <2>1, MoveProperties, AppendProperties
    <3>2. <<>> \in Seq(PlainId)
      BY EmptySeq
    <3>3. KeepsOrder(requests, toPush, <<>>)
      BY <2>1, <3>2, PassOnKeepsOrder
    <3>4. Tail(toPush) \o <<>> = Tail(toPush) /\ toPush \o <<>> = toPush
      BY <2>1, <3>1, ConcatEmptySeq, Zenon
    <3>5. QED
      BY <2>1, <3>3, <3>4, Zenon DEF KeepsOrder
  <2>3. /\ InCall' <=> InCall
        /\ UNCHANGED <<encrypted_pairs, ThisCallsResponses, encrypted_ids_queue, ids>>
    BY <1>8 DEF PushId, InCall, ThisCallsResponses
  <2>4. QED
    BY <1>0, <2>2, <2>3 DEF FlowInv, IdsOf
<1>9. CASE EncryptTask
  <2>1. CASE EncryptId
    <3>1. SUFFICES ASSUME ~EnqueueRefused, InCall
                   PROVE  FlowInv'
      BY <1>0, <1>9 DEF FlowInv, EncryptTask, InCall
    <3> DEFINE pair == <<Head(requests), GetUniqueUuid>>
    <3>2. /\ requests # <<>> /\ requests' = Tail(requests)
          /\ encrypted_ids_queue' = Append(encrypted_ids_queue, pair)
          /\ GetUniqueUuid \in Uuid
          /\ UNCHANGED <<encrypted_pairs, ThisCallsResponses, toPush, ids>>
      BY <1>9, <2>1, FreshUuid DEF EncryptTask, EncryptId, ThisCallsResponses
    <3>3. /\ requests \in Seq(PlainId) /\ toPush \in Seq(PlainId)
          /\ encrypted_ids_queue \in Seq(Pairs)
          /\ IdsOf(encrypted_ids_queue) \in Seq(PlainId)
      BY FlowTypes
    <3>4. pair \in Pairs /\ pair[1] = Head(requests)
      BY <3>2, <3>3, MoveProperties DEF Pairs
    <3> HIDE DEF pair
    <3>5. IdsOf(encrypted_ids_queue') = Append(IdsOf(encrypted_ids_queue), Head(requests))
      BY <3>2, <3>3, <3>4, IdsOfAppend
    <3>6. IdsOf(encrypted_ids_queue') \o (requests' \o toPush)
            = IdsOf(encrypted_ids_queue) \o (requests \o toPush)
      <4>1. KeepsOrder(IdsOf(encrypted_ids_queue), requests, toPush)
        BY <3>2, <3>3, PassOnKeepsOrder
      <4>2. QED
        BY <3>2, <3>5, <4>1, Zenon DEF KeepsOrder
    <3>7. IdsOf(encrypted_ids_queue)' \o (requests' \o toPush')
            = IdsOf(encrypted_ids_queue) \o (requests \o toPush)
      BY <3>2, <3>6 DEF IdsOf
    <3>8. QED
      BY <3>1, <3>2, <3>7 DEF FlowInv, IdsOf
  <2>2. CASE EncryptIdFails
    <3>1. EnqueueRefused'
      BY <1>9, <2>2 DEF EncryptTask, EncryptIdFails, EnqueueRefused
    <3>2. QED
      BY <3>1 DEF FlowInv
  <2>3. CASE EncryptDrained \/ EncryptCheckMarked \/ EncryptRescheduled
             \/ EncryptNotRescheduled \/ SetDoneEncrypting
    <3>1. UNCHANGED flowVars /\ UNCHANGED main
      BY <1>9, <2>3 DEF EncryptTask, EncryptDrained, EncryptCheckMarked,
         EncryptRescheduled, EncryptNotRescheduled, SetDoneEncrypting, EncryptTaskGoes,
         flowVars
    <3>2. QED
      BY <1>0, <3>1, FlowFrame DEF InCall
  <2>4. QED
    BY <1>9, <2>1, <2>2, <2>3 DEF EncryptTask, EncryptStep
<1>10. CASE StreamTask
  <2>1. CASE StreamPair
    <3>1. SUFFICES ASSUME ~EnqueueRefused
                   PROVE  FlowInv'
      BY <1>0 DEF FlowInv
    <3> DEFINE behind == requests \o toPush
    <3>2. /\ encrypted_ids_queue # <<>> /\ InCall /\ behind' = behind
          /\ ThisCallsResponses = responses /\ ThisCallsResponses' = responses'
          /\ responses' = Append(responses, Head(encrypted_ids_queue))
          /\ encrypted_ids_queue' = Tail(encrypted_ids_queue)
          /\ UNCHANGED <<encrypted_pairs, ids>>
      BY <1>10, <2>1 DEF StreamTask, StreamPair, InCall, ThisCallsResponses, ControlInv
    <3>3. /\ responses \in Seq(Pairs) /\ encrypted_ids_queue \in Seq(Pairs)
          /\ behind \in Seq(PlainId) /\ IdsOf(responses) \in Seq(PlainId)
          /\ IdsOf(encrypted_ids_queue) \in Seq(PlainId)
      BY <3>2, FlowTypes
    <3>4. IdsOf(encrypted_pairs) \o (IdsOf(responses) \o
            (IdsOf(encrypted_ids_queue) \o behind)) = ids
      BY <3>1, <3>2 DEF FlowInv
    <3>5. /\ IdsOf(responses') = Append(IdsOf(responses), Head(IdsOf(encrypted_ids_queue)))
          /\ IdsOf(encrypted_ids_queue') = Tail(IdsOf(encrypted_ids_queue))
          /\ IdsOf(encrypted_ids_queue) # <<>>
      BY <3>2, <3>3, IdsOfAppend, IdsOfHeadTail, IdsOfProperties
    <3> HIDE DEF behind
    <3>6. IdsOf(responses') \o (IdsOf(encrypted_ids_queue') \o behind)
            = IdsOf(responses) \o (IdsOf(encrypted_ids_queue) \o behind)
      <4> DEFINE passed == IdsOf(responses)
                 queued == IdsOf(encrypted_ids_queue)
      <4>1. /\ passed \in Seq(PlainId) /\ queued \in Seq(PlainId) /\ queued # <<>>
            /\ behind \in Seq(PlainId)
        BY <3>3, <3>5
      <4> HIDE DEF passed, queued
      <4>2. KeepsOrder(passed, queued, behind)
        BY <4>1, PassOnKeepsOrder
      <4>3. QED
        BY <3>5, <4>2, Zenon DEF passed, queued, KeepsOrder
    <3>7. IdsOf(encrypted_pairs)' \o (IdsOf(ThisCallsResponses)' \o
            (IdsOf(encrypted_ids_queue)' \o behind')) = ids'
      BY <3>2, <3>4, <3>6 DEF IdsOf
    <3>8. QED
      BY <3>7 DEF FlowInv, behind
  <2>2. CASE StreamPairFails
    <3>1. SUFFICES ASSUME ~EnqueueRefused
                   PROVE  FALSE
      BY <1>0 DEF FlowInv
    <3>2. Len(responses) < capacity
      BY <2>2, <3>1, StreamHasRoom DEF StreamPairFails
    <3>3. Len(responses) >= capacity /\ capacity \in Nat /\ Len(responses) \in Nat
      BY <2>2, FlowTypes, LenProperties DEF StreamPairFails, TypeInv, SequenceTypes
    <3>4. QED
      BY <3>2, <3>3
  <2>3. CASE StreamDrained \/ StreamCheckDone \/ StreamRescheduled \/ SetDoneStreaming
    <3>1. UNCHANGED flowVars /\ UNCHANGED main
      BY <1>10, <2>3 DEF StreamTask, StreamDrained, StreamCheckDone, StreamRescheduled,
         SetDoneStreaming, StreamTaskGoes, flowVars
    <3>2. QED
      BY <1>0, <3>1, FlowFrame DEF InCall
  <2>4. QED
    BY <1>10, <2>1, <2>2, <2>3 DEF StreamTask, StreamStep
<1>11. QED
  BY <1>2, <1>3, <1>4, <1>5, <1>6, <1>7, <1>8, <1>9, <1>10
     DEF Next, Main, Pusher, EncryptTaskThread, StreamTaskThread

--------------------------------------------------------------------------------
LEMMA UuidFrame ==
  ASSUME UuidInv, main' # "idle" => main # "idle",
         UNCHANGED <<encrypted_pairs, responses, encrypted_ids_queue, used_ids, uploaded>>
  PROVE  UuidInv'
<1>1. UuidsAreUnique'
  BY DEF UuidInv, UuidsAreUnique
<1>2. QED
  BY <1>1 DEF UuidInv, Apart

LEMMA UuidStep ==
  ASSUME TypeInv, UuidInv, Next
  PROVE  UuidInv'
<1> USE DEF encryptorVars, encryptVars, streamVars, mainVars, sharedVars, pusherVars,
            Return, MainGoes
<1>0. /\ encrypted_ids_queue \in Seq(Pairs) /\ responses \in Seq(Pairs)
      /\ encrypted_pairs \in Seq(Pairs) /\ requests \in Seq(PlainId)
  BY FlowTypes
<1>1. CASE FetchList
  <2>1. /\ encrypted_pairs' = <<>>
        /\ UNCHANGED <<responses, encrypted_ids_queue, used_ids, uploaded>>
    BY <1>1 DEF FetchList
  <2>2. UuidsAreUnique'
    BY <2>1 DEF UuidInv, UuidsAreUnique
  <2>3. QED
    BY <2>1, <2>2, UuidsEmpty DEF UuidInv, Apart
<1>2. CASE EncryptorBusy \/ BeginEncryption \/ EncryptNotScheduled
           \/ BeginOverEarlierCall \/ RetrieveNothing \/ StreamFailed \/ JoinOthers
           \/ PushId \/ EndPushing \/ FinishEncryption \/ FinishStream \/ TouchDeadFrame
  <2>1. /\ main' # "idle" => main # "idle"
        /\ UNCHANGED <<encrypted_pairs, responses, encrypted_ids_queue, used_ids, uploaded>>
    BY <1>2 DEF EncryptorBusy, BeginEncryption, EncryptNotScheduled,
       BeginOverEarlierCall, RetrieveNothing, StreamFailed, JoinOthers, PushId,
       EndPushing, FinishEncryption, FinishStream, TouchDeadFrame, OpenEncryption
  <2>2. QED
    BY <2>1, UuidFrame
<1>3. CASE BeginStream \/ StreamNotScheduled
  <2>1. /\ responses' = <<>>
        /\ main' # "idle" => main # "idle"
        /\ UNCHANGED <<encrypted_pairs, encrypted_ids_queue, used_ids, uploaded>>
    BY <1>3 DEF BeginStream, StreamNotScheduled, OpenStream
  <2>2. UuidsAreUnique'
    BY <2>1 DEF UuidInv, UuidsAreUnique
  <2>3. QED
    BY <2>1, <2>2, UuidsEmpty DEF UuidInv, Apart
<1>4. CASE RetrievePair
  <2> DEFINE uuid == Head(responses)[2]
  <2>1. /\ responses # <<>> /\ main # "idle"
        /\ encrypted_pairs' = Append(encrypted_pairs, Head(responses))
        /\ responses' = Tail(responses)
        /\ UNCHANGED <<encrypted_ids_queue, used_ids, uploaded>>
    BY <1>4 DEF RetrievePair
  <2>2. /\ Uuids(responses) = Uuids(responses') \cup {uuid}
        /\ NoUuidTwice(responses') /\ uuid \notin Uuids(responses')
    BY <1>0, <2>1, UuidsHeadTail DEF UuidInv
  <2>3. Head(responses) \in Pairs
    BY <1>0, <2>1, MoveProperties
  <2>4. /\ Uuids(encrypted_pairs') = Uuids(encrypted_pairs) \cup {uuid}
        /\ uuid \notin Uuids(encrypted_pairs) => NoUuidTwice(encrypted_pairs')
    BY <1>0, <2>1, <2>3, UuidsAppend DEF UuidInv
  <2>5. UuidsAreUnique'
    BY <2>1 DEF UuidInv, UuidsAreUnique
  <2> HIDE DEF uuid
  <2>6. QED
    BY <2>1, <2>2, <2>4, <2>5 DEF UuidInv, Apart
<1>5. CASE UploadMapping
  <2>1. /\ UNCHANGED <<encrypted_pairs, responses, encrypted_ids_queue, used_ids>>
        /\ main # "idle" /\ main' = "idle"
    BY <1>5 DEF UploadMapping, UploadIdMapping
  <2>2. \A u \in uploaded' : u \in uploaded \/ u.pairs = encrypted_pairs
    BY <1>5, WhatIsUploaded
  <2>3. UuidsAreUnique'
    <3>1. SUFFICES ASSUME NEW u \in uploaded', NEW v \in uploaded',
                          NEW i \in DOMAIN u.pairs, NEW j \in DOMAIN v.pairs,
                          u.pairs[i][2] = v.pairs[j][2]
                   PROVE  u = v /\ i = j
      BY DEF UuidsAreUnique
    <3>2. u.pairs[i][2] \in Uuids(u.pairs) /\ u.pairs[i][2] \in Uuids(v.pairs)
      BY <3>1 DEF Uuids
    <3>3. CASE u \in uploaded /\ v \in uploaded
      BY <3>1, <3>3 DEF UuidInv, UuidsAreUnique
    <3>4. CASE u \in uploaded /\ v \notin uploaded
      BY <2>1, <2>2, <3>2, <3>4 DEF UuidInv, Apart
    <3>5. CASE u \notin uploaded /\ v \in uploaded
      BY <2>1, <2>2, <3>2, <3>5 DEF UuidInv, Apart
    <3>6. CASE u \notin uploaded /\ v \notin uploaded
      <4>1. u = v /\ u.pairs = encrypted_pairs /\ v.pairs = encrypted_pairs
        BY <1>5, <3>6, WhatIsUploaded
      <4>2. i = j
        BY <3>1, <4>1 DEF UuidInv, NoUuidTwice
      <4>3. QED
        BY <4>1, <4>2
    <3>7. QED
      BY <3>3, <3>4, <3>5, <3>6
  <2>4. QED
    BY <2>1, <2>2, <2>3 DEF UuidInv, Apart
<1>6. CASE EncryptTask
  <2>1. CASE EncryptId
    <3> DEFINE pair == <<Head(requests), GetUniqueUuid>>
    <3>1. /\ requests # <<>> /\ used_ids' = used_ids \cup {GetUniqueUuid}
          /\ encrypted_ids_queue' = Append(encrypted_ids_queue, pair)
          /\ UNCHANGED <<encrypted_pairs, responses, uploaded, main>>
      BY <1>6, <2>1 DEF EncryptTask, EncryptId
    <3>2. GetUniqueUuid \in Uuid /\ GetUniqueUuid \notin used_ids
      BY <2>1, FreshUuid DEF EncryptId
    <3>3. pair \in Pairs /\ pair[2] = GetUniqueUuid
      BY <1>0, <3>1, <3>2, MoveProperties DEF Pairs
    <3> HIDE DEF pair
    <3>4. /\ Uuids(encrypted_ids_queue') = Uuids(encrypted_ids_queue) \cup {GetUniqueUuid}
          /\ NoUuidTwice(encrypted_ids_queue')
      BY <1>0, <3>1, <3>2, <3>3, UuidsAppend DEF UuidInv
    <3>5. UuidsAreUnique'
      BY <3>1 DEF UuidInv, UuidsAreUnique
    <3>6. QED
      BY <3>1, <3>2, <3>4, <3>5 DEF UuidInv, Apart
  <2>2. CASE EncryptIdFails
    <3>1. /\ used_ids \subseteq used_ids'
          /\ UNCHANGED <<encrypted_pairs, responses, encrypted_ids_queue, uploaded, main>>
      BY <1>6, <2>2 DEF EncryptTask, EncryptIdFails
    <3>2. UuidsAreUnique'
      BY <3>1 DEF UuidInv, UuidsAreUnique
    <3>3. QED
      BY <3>1, <3>2 DEF UuidInv, Apart
  <2>3. CASE EncryptDrained \/ EncryptCheckMarked \/ EncryptRescheduled
             \/ EncryptNotRescheduled \/ SetDoneEncrypting
    <3>1. UNCHANGED <<encrypted_pairs, responses, encrypted_ids_queue, used_ids, uploaded,
                      main>>
      BY <1>6, <2>3 DEF EncryptTask, EncryptDrained, EncryptCheckMarked,
         EncryptRescheduled, EncryptNotRescheduled, SetDoneEncrypting, EncryptTaskGoes
    <3>2. QED
      BY <3>1, UuidFrame
  <2>4. QED
    BY <1>6, <2>1, <2>2, <2>3 DEF EncryptTask, EncryptStep
<1>7. CASE StreamTask
  <2>1. CASE StreamPair
    <3> DEFINE uuid == Head(encrypted_ids_queue)[2]
    <3>1. /\ encrypted_ids_queue # <<>>
          /\ responses' = Append(responses, Head(encrypted_ids_queue))
          /\ encrypted_ids_queue' = Tail(encrypted_ids_queue)
          /\ UNCHANGED <<encrypted_pairs, used_ids, uploaded, main>>
      BY <1>7, <2>1 DEF StreamTask, StreamPair
    <3>2. /\ Uuids(encrypted_ids_queue) = Uuids(encrypted_ids_queue') \cup {uuid}
          /\ NoUuidTwice(encrypted_ids_queue') /\ uuid \notin Uuids(encrypted_ids_queue')
      BY <1>0, <3>1, UuidsHeadTail DEF UuidInv
    <3>3. Head(encrypted_ids_queue) \in Pairs
      BY <1>0, <3>1, MoveProperties
    <3>4. /\ Uuids(responses') = Uuids(responses) \cup {uuid}
          /\ uuid \notin Uuids(responses) => NoUuidTwice(responses')
      BY <1>0, <3>1, <3>3, UuidsAppend DEF UuidInv
    <3>5. UuidsAreUnique'
      BY <3>1 DEF UuidInv, UuidsAreUnique
    <3> HIDE DEF uuid
    <3>6. QED
      BY <3>1, <3>2, <3>4, <3>5 DEF UuidInv, Apart
  <2>2. CASE StreamPairFails
    <3>1. /\ encrypted_ids_queue # <<>>
          /\ encrypted_ids_queue' = Tail(encrypted_ids_queue)
          /\ UNCHANGED <<encrypted_pairs, responses, used_ids, uploaded, main>>
      BY <1>7, <2>2 DEF StreamTask, StreamPairFails
    <3>2. /\ Uuids(encrypted_ids_queue') \subseteq Uuids(encrypted_ids_queue)
          /\ NoUuidTwice(encrypted_ids_queue')
      BY <1>0, <3>1, UuidsHeadTail DEF UuidInv
    <3>3. UuidsAreUnique'
      BY <3>1 DEF UuidInv, UuidsAreUnique
    <3>4. QED
      BY <3>1, <3>2, <3>3 DEF UuidInv, Apart
  <2>3. CASE StreamDrained \/ StreamCheckDone \/ StreamRescheduled \/ SetDoneStreaming
    <3>1. UNCHANGED <<encrypted_pairs, responses, encrypted_ids_queue, used_ids, uploaded,
                      main>>
      BY <1>7, <2>3 DEF StreamTask, StreamDrained, StreamCheckDone, StreamRescheduled,
         SetDoneStreaming, StreamTaskGoes
    <3>2. QED
      BY <3>1, UuidFrame
  <2>4. QED
    BY <1>7, <2>1, <2>2, <2>3 DEF StreamTask, StreamStep
<1>8. QED
  BY <1>1, <1>2, <1>3, <1>4, <1>5, <1>6, <1>7
     DEF Next, Main, Pusher, EncryptTaskThread, StreamTaskThread

--------------------------------------------------------------------------------
LEMMA RefusedStep ==
  ASSUME TypeInv, ControlInv, CleanInv, FlowInv, RefusedInv, Next
  PROVE  RefusedInv'
<1> USE DEF RefusedInv, encryptorVars, encryptVars, streamVars, mainVars, sharedVars,
            pusherVars, Return, MainGoes
<1>1. SUFFICES ASSUME refused' = {}
               PROVE  RefusedInv'
  OBVIOUS
<1>2. refused = {}
  BY <1>1
     DEF Next, Main, Pusher, EncryptTaskThread, StreamTaskThread, FetchList,
     EncryptorBusy, BeginEncryption, EncryptNotScheduled, BeginOverEarlierCall,
     BeginStream, StreamNotScheduled, RetrievePair, RetrieveNothing, StreamFailed,
     JoinOthers, UploadMapping, PushId, EndPushing, EncryptTask, FinishEncryption,
     StreamTask, FinishStream, TouchDeadFrame
<1>3. ~EnqueueRefused
  BY <1>2 DEF EnqueueRefused
<1>4. CASE FetchList
  BY <1>2, <1>4 DEF FetchList, GetOutputBucketName
<1>5. CASE EncryptorBusy \/ BeginEncryption \/ BeginStream \/ RetrievePair
           \/ RetrieveNothing \/ JoinOthers \/ PushId \/ EndPushing \/ FinishEncryption
  <2>1. CASE EncryptorBusy \/ BeginEncryption
    BY <1>2, <2>1 DEF EncryptorBusy, BeginEncryption, OpenEncryption
  <2>2. CASE BeginStream
    BY <1>2, <2>2 DEF BeginStream, OpenStream
  <2>3. CASE RetrievePair \/ RetrieveNothing \/ JoinOthers
    BY <1>2, <2>3 DEF RetrievePair, RetrieveNothing, JoinOthers
  <2>4. CASE PushId \/ EndPushing \/ FinishEncryption
    BY <1>2, <2>4 DEF PushId, EndPushing, FinishEncryption, FrameAlive, ControlInv
  <2>5. QED
    BY <1>5, <2>1, <2>2, <2>3, <2>4
<1>6. CASE EncryptNotScheduled \/ StreamNotScheduled
  BY <1>1, <1>6 DEF EncryptNotScheduled, StreamNotScheduled
<1>7. CASE StreamFailed
  BY <1>2, <1>7 DEF StreamFailed, ControlInv
<1>8. CASE UploadMapping
  BY <1>2, <1>8 DEF UploadMapping, UploadIdMapping, ControlInv
<1>9. CASE BeginOverEarlierCall
  BY <1>2, <1>3, <1>9 DEF BeginOverEarlierCall, CleanInv
<1>10. CASE EncryptTask
  <2>1. UNCHANGED streamVars
    BY <1>10 DEF EncryptTask, EncryptStep, EncryptId, EncryptIdFails, EncryptDrained,
       EncryptCheckMarked, EncryptRescheduled, EncryptNotRescheduled, SetDoneEncrypting,
       EncryptTaskGoes
  <2>2. QED
    BY <1>2, <1>10, <2>1 DEF EncryptTask
<1>11. CASE StreamTask
  <2>1. UNCHANGED <<main, pusher, streaming_done, streaming_result, broken>>
    BY <1>11 DEF StreamTask
  <2>2. CASE StreamPairFails
    <3>1. Len(responses) < capacity
      BY <1>3, <2>2, StreamHasRoom DEF StreamPairFails
    <3>2. Len(responses) >= capacity /\ capacity \in Nat /\ Len(responses) \in Nat
      BY <2>2, FlowTypes, LenProperties DEF StreamPairFails, TypeInv, SequenceTypes
    <3>3. QED
      BY <3>1, <3>2
  <2>3. CASE SetDoneStreaming
    BY <1>1, <1>2, <1>11, <2>1, <2>3 DEF StreamTask, SetDoneStreaming
  <2>4. CASE StreamPair \/ StreamDrained \/ StreamCheckDone \/ StreamRescheduled
    BY <1>2, <2>1, <2>4 DEF StreamPair, StreamDrained, StreamCheckDone,
       StreamRescheduled, StreamTaskGoes
  <2>5. QED
    BY <1>11, <2>2, <2>3, <2>4 DEF StreamTask, StreamStep
<1>12. CASE FinishStream
  BY <1>2, <1>12 DEF FinishStream
<1>13. CASE TouchDeadFrame
  <2>1. CASE main \in {"idle", "encrypt"}
    <3>1. pusher = "none" /\ encryptTask = "none"
      BY <1>2, <1>3, <2>1 DEF CleanInv
    <3>2. QED
      BY <1>13, <3>1, Ends DEF TouchDeadFrame
  <2>2. CASE main \notin {"idle", "encrypt"}
    <3>1. InCall
      BY <2>2 DEF InCall, TypeInv, PlaceTypes
    <3>2. QED
      BY <1>13, <2>2, <3>1 DEF TouchDeadFrame, FrameAlive, ControlInv
  <2>3. QED
    BY <2>1, <2>2
<1>14. QED
  BY <1>4, <1>5, <1>6, <1>7, <1>8, <1>9, <1>10, <1>11, <1>12, <1>13
     DEF Next, Main, Pusher, EncryptTaskThread, StreamTaskThread

\* When a mapping is uploaded, all the IDs have arrived.
LEMMA CompleteStep ==
  ASSUME TypeInv, ControlInv, CleanInv, FlowInv, MappingIsComplete, Next
  PROVE  MappingIsComplete'
<1> USE DEF encryptorVars, encryptVars, streamVars, mainVars, sharedVars, pusherVars
<1>1. "enqueue" \notin refused' => ~EnqueueRefused
  BY DEF Next, Main, Pusher, EncryptTaskThread, StreamTaskThread, FetchList,
     EncryptorBusy, BeginEncryption, EncryptNotScheduled, BeginOverEarlierCall,
     BeginStream, StreamNotScheduled, RetrievePair, RetrieveNothing, StreamFailed,
     JoinOthers, UploadMapping, PushId, EndPushing, EncryptTask, FinishEncryption,
     StreamTask, FinishStream, TouchDeadFrame, EnqueueRefused
<1>2. CASE UploadMapping
  <2>1. SUFFICES ASSUME "enqueue" \notin refused', NEW u \in uploaded', u \notin uploaded
                 PROVE  IdsOf(u.pairs) = u.list
    BY <1>1 DEF MappingIsComplete, EnqueueRefused, IdsOf
  <2>2. /\ u.list = ids /\ u.pairs = encrypted_pairs
        /\ pushing_result = "Success" /\ encryption_result = "Success"
    BY <1>2, <2>1, WhatIsUploaded
  <2>3. main = "checkResults" /\ InCall /\ ~EnqueueRefused
    BY <1>1, <1>2, <2>1 DEF UploadMapping, InCall
  <2>4. /\ ThisCallsResponses = <<>> /\ encrypted_ids_queue = <<>>
        /\ requests = <<>> /\ toPush = <<>>
    BY <2>2, <2>3 DEF ControlInv, CleanInv, StreamSucceeded, ThisCallsResponses
  <2>5. IdsOf(encrypted_pairs) \o (<<>> \o (<<>> \o (<<>> \o <<>>))) = ids
    BY <2>3, <2>4, IdsOfEmpty DEF FlowInv
  <2>6. IdsOf(encrypted_pairs) \in Seq(PlainId) /\ <<>> \in Seq(PlainId)
    BY FlowTypes, EmptySeq
  <2>7. IdsOf(encrypted_pairs) \o (<<>> \o (<<>> \o (<<>> \o <<>>))) = IdsOf(encrypted_pairs)
    BY <2>6, ConcatEmptySeq
  <2>8. QED
    BY <2>2, <2>5, <2>7
<1>3. CASE ~UploadMapping
  <2>1. uploaded' = uploaded
    BY <1>3
       DEF Next, Main, Pusher, EncryptTaskThread, StreamTaskThread, FetchList,
       EncryptorBusy, BeginEncryption, EncryptNotScheduled, BeginOverEarlierCall,
       BeginStream, StreamNotScheduled, RetrievePair, RetrieveNothing, StreamFailed,
       JoinOthers, PushId, EndPushing, EncryptTask, FinishEncryption, StreamTask,
       FinishStream, TouchDeadFrame, MainGoes
  <2>2. QED
    BY <1>1, <2>1 DEF MappingIsComplete, EnqueueRefused, IdsOf
<1>4. QED
  BY <1>2, <1>3

LEMMA TextStep ==
  ASSUME TextInv, Next
  PROVE  TextInv'
<1> USE DEF encryptorVars, encryptVars, streamVars, mainVars, sharedVars, pusherVars
<1>1. CASE UploadMapping
  <2>1. SUFFICES ASSUME NEW u \in uploaded', u \notin uploaded
                 PROVE  u.mapping = MappingText(Rows(u.pairs))
    BY DEF TextInv
  <2>2. QED
    BY <1>1, <2>1, WhatIsUploaded
<1>2. CASE ~UploadMapping
  <2>1. uploaded' = uploaded
    BY <1>2
       DEF Next, Main, Pusher, EncryptTaskThread, StreamTaskThread, FetchList,
       EncryptorBusy, BeginEncryption, EncryptNotScheduled, BeginOverEarlierCall,
       BeginStream, StreamNotScheduled, RetrievePair, RetrieveNothing, StreamFailed,
       JoinOthers, PushId, EndPushing, EncryptTask, FinishEncryption, StreamTask,
       FinishStream, TouchDeadFrame, MainGoes
  <2>2. QED
    BY <2>1 DEF TextInv
<1>3. QED
  BY <1>1, <1>2

--------------------------------------------------------------------------------
\* What the mapping's text is read back as.
IdChar == UNION {Range(id) : id \in PlainId}
Char == IdChar \cup Uuid \cup {LineBreak, Delimiter}

LEMMA Characters ==
  /\ LineBreak \in Char /\ Delimiter \in Char /\ LineBreak # Delimiter
  /\ \A uuid \in Uuid : uuid \in Char /\ uuid \notin {LineBreak, Delimiter, Blank}
<1>1. Uuid \cap {LineBreak, Delimiter, Blank} = {} /\ LineBreak # Delimiter
  BY GeneratorAssumption, Zenon
<1>2. Uuid \subseteq Char /\ {LineBreak, Delimiter} \subseteq Char
  BY DEF Char
<1> HIDE DEF Char
<1>3. QED
  BY <1>1, <1>2

LEMMA IdIsText ==
  ASSUME NEW id \in PlainId
  PROVE  /\ id \in Seq(Char)
         /\ LineBreak \notin ToSet(id) /\ Delimiter \notin ToSet(id)
         /\ RemoveExtraAsciiWhitespace(id) = id
<1>1. /\ id \in Seq(Range(id))
      /\ Range(id) \cap {LineBreak, Delimiter} = {}
      /\ RemoveExtraAsciiWhitespace(id) = id
  BY GeneratorAssumption
<1>2. ToSet(id) = Range(id)
  BY DEF ToSet, Range
<1>3. id \in Seq(Char)
  <2>1. Range(id) \subseteq Char
    BY DEF Char, IdChar
  <2> DEFINE R == Range(id)
  <2> HIDE DEF R, Char
  <2>2. id \in Seq(R) /\ R \subseteq Char
    BY <1>1, <2>1 DEF R
  <2>3. Len(id) \in Nat /\ id = [i \in 1..Len(id) |-> id[i]] /\ \A i \in 1..Len(id) : id[i] \in R
    BY <2>2, LenProperties, ElementOfSeq
  <2>4. QED
    BY <2>2, <2>3, IsASeq
<1>4. QED
  BY <1>1, <1>2, <1>3

LEMMA UuidIsText ==
  ASSUME NEW uuid \in Uuid
  PROVE  /\ ToText(uuid) \in Seq(Char) /\ ToText(uuid) # <<>>
         /\ LineBreak \notin ToSet(ToText(uuid)) /\ Delimiter \notin ToSet(ToText(uuid))
         /\ RemoveExtraAsciiWhitespace(ToText(uuid)) = ToText(uuid)
<1>1. uuid \in Char /\ uuid \notin {LineBreak, Delimiter, Blank}
  BY Characters
<1>2. RemoveExtraAsciiWhitespace(<<uuid>>) = <<uuid>>
  BY <1>1, TrimmedCharacter
<1>3. ToSet(<<uuid>>) = {uuid}
  BY DEF ToSet
<1>4. <<uuid>> \in Seq(Char) /\ <<uuid>> # <<>>
  <2> HIDE DEF Char
  <2>1. QED
    BY <1>1
<1>5. QED
  BY <1>1, <1>2, <1>3, <1>4 DEF ToText

\* IDs and UUIDs are keys and values of a mapping.
UuidText == {ToText(uuid) : uuid \in Uuid}

LEMMA PairsAreWritable ==
  /\ Writable(Char, PlainId, UuidText)
  /\ \A pairs \in Seq(Pairs) : Rows(pairs) \in Seq(PlainId \X UuidText)
<1>1. PlainId \subseteq Field(Char)
  BY IdIsText DEF Field
<1>2. UuidText \subseteq Field(Char) \ {<<>>}
  BY UuidIsText DEF Field, UuidText
<1>3. NoTable \notin Tables(PlainId, UuidText)
  BY GeneratorAssumption, Zenon DEF UuidText
<1>4. Writable(Char, PlainId, UuidText)
  BY <1>1, <1>2, <1>3, Characters, Zenon DEF Writable
<1>5. ASSUME NEW pairs \in Seq(Pairs)
      PROVE  Rows(pairs) \in Seq(PlainId \X UuidText)
  <2>1. /\ Len(pairs) \in Nat /\ DOMAIN pairs = 1..Len(pairs)
        /\ \A i \in 1..Len(pairs) : pairs[i] \in Pairs
    BY LenProperties, ElementOfSeq
  <2>2. \A i \in 1..Len(pairs) : <<pairs[i][1], ToText(pairs[i][2])>> \in PlainId \X UuidText
    BY <2>1 DEF Pairs, UuidText
  <2>3. Rows(pairs) = [i \in 1..Len(pairs) |-> <<pairs[i][1], ToText(pairs[i][2])>>]
    BY <2>1, Zenon DEF Rows
  <2> DEFINE T == PlainId \X UuidText
  <2> HIDE DEF T
  <2>4. QED
    BY <2>1, <2>2, <2>3, IsASeq DEF T
<1>6. QED
  BY <1>4, <1>5

\* What a job reads for the pairs that a generation has written.
LEMMA GeneratedReadBack ==
  ASSUME NEW pairs \in Seq(Pairs)
  PROVE  ParsedMapping(MappingText(Rows(pairs))) =
           IF ~IsInjective(IdsOf(pairs)) THEN NoTable
           ELSE [id \in Range(IdsOf(pairs)) |->
                   [value |-> ToText((CHOOSE pair \in Range(pairs) : pair[1] = id)[2]),
                    is_matched |-> FALSE]]
<1> DEFINE n == Len(pairs)
           rows == Rows(pairs)
           table == ParsedMapping(MappingText(rows))
           Chosen(id) == CHOOSE pair \in Range(pairs) : pair[1] = id
           Entry(pair) == [value |-> ToText(pair[2]), is_matched |-> FALSE]
<1>1. /\ n \in Nat /\ DOMAIN pairs = 1..n /\ \A i \in 1..n : pairs[i] \in Pairs
      /\ rows \in Seq(PlainId \X UuidText)
  BY PairsAreWritable, LenProperties, ElementOfSeq
<1>2. /\ Len(rows) = n
      /\ \A i \in 1..n : rows[i][1] = pairs[i][1] /\ rows[i][2] = ToText(pairs[i][2])
  <2>1. DOMAIN rows = 1..n /\ \A i \in 1..n : rows[i] = <<pairs[i][1], ToText(pairs[i][2])>>
    BY <1>1, Zenon DEF Rows
  <2> HIDE DEF rows
  <2>2. Len(rows) = n
    BY <1>1, <2>1, LenProperties
  <2>3. QED
    BY <2>1, <2>2
<1>3. /\ DistinctKeys(rows, n) =>
           /\ DOMAIN table = {rows[i][1] : i \in 1..n}
           /\ \A i \in 1..n :
                table[rows[i][1]] = [value |-> rows[i][2], is_matched |-> FALSE]
           /\ table = [id \in DOMAIN table |-> table[id]]
      /\ ~DistinctKeys(rows, n) => table = NoTable
  <2>1. Writable(Char, PlainId, UuidText)
    BY PairsAreWritable
  <2> HIDE DEF rows, n
  <2>2. ReadsAs(rows, table)
    BY <1>1, <2>1, PairsReadBack
  <2> HIDE DEF table
  <2>3. QED
    BY <1>2, <2>2, Zenon DEF ReadsAs
<1>4. /\ DOMAIN IdsOf(pairs) = 1..n /\ \A i \in 1..n : IdsOf(pairs)[i] = pairs[i][1]
  BY <1>1 DEF IdsOf
<1>5. IsInjective(IdsOf(pairs)) <=> DistinctKeys(rows, n)
  <2> HIDE DEF rows, n
  <2>1. QED
    BY <1>2, <1>4 DEF IsInjective, DistinctKeys
<1>6. Range(IdsOf(pairs)) = {rows[i][1] : i \in 1..n}
  <2> HIDE DEF rows, n
  <2>1. QED
    BY <1>2, <1>4 DEF Range
<1>7. ASSUME DistinctKeys(rows, n)
      PROVE  table = [id \in Range(IdsOf(pairs)) |-> Entry(Chosen(id))]
  <2>1. ASSUME NEW i \in 1..n
        PROVE  Chosen(pairs[i][1]) = pairs[i]
    <3>1. pairs[i] \in Range(pairs) /\ pairs[i][1] = pairs[i][1]
      BY <1>1 DEF Range
    <3>2. Chosen(pairs[i][1]) \in Range(pairs) /\ Chosen(pairs[i][1])[1] = pairs[i][1]
      BY <3>1
    <3> HIDE DEF Chosen
    <3>3. PICK j \in 1..n : Chosen(pairs[i][1]) = pairs[j]
      BY <1>1, <3>2 DEF Range
    <3>4. j = i
      <4> HIDE DEF rows, n
      <4>1. QED
        BY <1>2, <1>7, <3>2, <3>3 DEF DistinctKeys
    <3>5. QED
      BY <3>3, <3>4
  <2>2. \A i \in 1..n : table[pairs[i][1]] = Entry(Chosen(pairs[i][1]))
    <3> HIDE DEF Chosen, table, rows, n
    <3>1. QED
      BY <1>2, <1>3, <1>7, <2>1
  <2>3. \A id \in Range(IdsOf(pairs)) : table[id] = Entry(Chosen(id))
    <3> HIDE DEF Chosen, Entry, table, n
    <3>1. QED
      BY <1>4, <2>2 DEF Range
  <2>4. DOMAIN table = Range(IdsOf(pairs)) /\ table = [id \in DOMAIN table |-> table[id]]
    BY <1>3, <1>6, <1>7, Zenon
  <2> HIDE DEF Entry, Chosen, table
  <2>5. QED
    BY <2>3, <2>4
<1> HIDE DEF n, rows, table
<1>8. QED
  BY <1>3, <1>5, <1>7, Zenon DEF table, rows

--------------------------------------------------------------------------------
\* The invariant is inductive, whatever the lists, the UUIDs, the size of the
\* queue and the number of calls.
THEOREM Invariance == Spec => []IInv
<1>1. Init => IInv
  <2>1. Init => FlowInv
    BY DEF Init, FlowInv, InCall
  <2>2. Init => UuidInv
    BY UuidsEmpty DEF Init, EncryptorInit, UuidInv, UuidsAreUnique, Apart
  <2>3. Init => RefusedInv /\ MappingIsComplete /\ TextInv
    BY DEF Init, EncryptorInit, RefusedInv, MappingIsComplete, TextInv
  <2>4. QED
    BY <2>1, <2>2, <2>3, TypesInit, ControlInit, CleanInit DEF IInv
<1>2. IInv /\ [Next]_vars => IInv'
  <2>1. ASSUME IInv, Next PROVE IInv'
    BY <2>1, TypesStep, ControlStep, CleanStep, FlowStep, UuidStep, RefusedStep,
       CompleteStep, TextStep DEF IInv
  <2>2. ASSUME IInv, UNCHANGED vars PROVE IInv'
    <3> USE <2>2 DEF IInv, vars, encryptorVars, encryptVars, streamVars, mainVars,
                     sharedVars, pusherVars
    <3>1. SequenceTypes' /\ UploadTypes'
      BY DEF TypeInv, SequenceTypes, UploadTypes
    <3>2. FlagTypes' /\ PlaceTypes' /\ CallTypes'
      BY DEF TypeInv, FlagTypes, PlaceTypes, CallTypes, Results
    <3>3. ControlInv' /\ CleanInv' /\ RefusedInv'
      BY DEF ControlInv, CleanInv, RefusedInv, InCall, StreamSucceeded, EnqueueRefused
    <3>4. FlowInv' /\ UuidInv'
      BY FlowFrame, UuidFrame DEF flowVars, InCall, EnqueueRefused
    <3>5. MappingIsComplete' /\ TextInv'
      BY DEF MappingIsComplete, IdsOf, TextInv
    <3>6. QED
      BY <3>1, <3>2, <3>3, <3>4, <3>5 DEF TypeInv
  <2>3. QED
    BY <2>1, <2>2
<1>3. QED
  BY <1>1, <1>2, PTL DEF Spec

\* Every variable of the encryptor and of a call holds what its C++ type allows,
\* and neither the queue nor the stream context ever holds more than it may.
THEOREM TypeCorrect == Spec => []TypeOK
<1>1. IInv => TypeOK
  <2>1. SUFFICES ASSUME TypeInv PROVE TypeOK
    BY DEF IInv
  <2>2. /\ Range(encrypted_ids_queue) \subseteq Pairs
        /\ Range(responses) \subseteq Pairs
        /\ Range(encrypted_pairs) \subseteq Pairs
    <3>1. \A s \in Seq(Pairs) : Range(s) \subseteq Pairs
      BY ElementOfSeq, LenProperties DEF Range
    <3>2. QED
      BY <2>1, <3>1 DEF TypeInv, SequenceTypes
  <2>3. /\ encryptTask \in {"none", "drain", "checkMarked", "drainLast",
                      "reschedule"} \cup DOMAIN Finishing \cup DOMAIN AfterFinish
        /\ streamTask \in {"none", "drain", "checkDone", "drainLast", "succeed",
                           "reschedule", "finish"}
        /\ main \in {"idle", "encrypt", "stream", "retrieve", "gotNull",
                     "retrieveLast", "checkStream", "checkResults"}
        /\ pusher \in {"none", "pushing", "ended"}
        /\ callResult \in {"none", "Success", "Failure", "Busy"}
        /\ broken \in {"no", "dangling", "overlap", "terminated"}
    BY <2>1, Ends DEF TypeInv, PlaceTypes
  <2>4. /\ {done_encrypting, done_streaming, requestsDone, encryption_done,
            streaming_done} \subseteq BOOLEAN
        /\ refused \subseteq {"schedule", "enqueue"}
        /\ {encryption_result, pushing_result, streaming_result, streamResult}
             \subseteq Results
        /\ used_ids \subseteq Uuid
    BY <2>1 DEF TypeInv, FlagTypes
  <2>5. QED
    BY <2>1, <2>2, <2>3, <2>4 DEF TypeOK, TypeInv, SequenceTypes, CallTypes
<1>2. QED
  BY <1>1, Invariance, PTL

\* No ID is lost, doubled or brought in from another list between the thread that
\* pushes, the two tasks and main, as long as the queue has had room.
THEOREM MappingsAreComplete == Spec => []MappingIsComplete
<1>1. IInv => MappingIsComplete
  BY DEF IInv
<1>2. QED
  BY <1>1, Invariance, PTL

\* Written by a generation and parsed by a match job, a mapping of any length is
\* the table of its pairs; only an ID that is in the list twice makes it unreadable.
THEOREM MappingsReadBack == Spec => []MappingReadsBack
<1>1. IInv => MappingReadsBack
  <2>1. SUFFICES ASSUME IInv, NEW u \in uploaded
                 PROVE  ParsedMapping(u.mapping) =
                          IF ~IsInjective(IdsOf(u.pairs)) THEN NoTable
                          ELSE [id \in Range(IdsOf(u.pairs)) |->
                                  [value |-> ToText((CHOOSE pair \in Range(u.pairs) :
                                                       pair[1] = id)[2]),
                                   is_matched |-> FALSE]]
    BY Zenon DEF MappingReadsBack
  <2>2. u.pairs \in Seq(Pairs) /\ u.mapping = MappingText(Rows(u.pairs))
    BY <2>1 DEF IInv, TypeInv, UploadTypes, TextInv
  <2> DEFINE pairs == u.pairs
  <2>3. pairs \in Seq(Pairs)
    BY <2>2
  <2> HIDE DEF pairs
  <2>4. ParsedMapping(MappingText(Rows(pairs))) =
          IF ~IsInjective(IdsOf(pairs)) THEN NoTable
          ELSE [id \in Range(IdsOf(pairs)) |->
                  [value |-> ToText((CHOOSE pair \in Range(pairs) : pair[1] = id)[2]),
                   is_matched |-> FALSE]]
    BY <2>3, GeneratedReadBack
  <2>5. QED
    BY <2>2, <2>4, Zenon DEF pairs
<1>2. QED
  BY <1>1, Invariance, PTL

\* No UUID is given to two lines, of one mapping or of two, even after the
\* queue has been full and pairs of one call are met by the next.
THEOREM UuidsStayUnique == Spec => []UuidsAreUnique
<1>1. IInv => UuidsAreUnique
  BY DEF IInv, UuidInv
<1>2. QED
  BY <1>1, Invariance, PTL

\* After a success the encryptor takes the next call, and finds nothing of this one.
THEOREM SuccessLeavesNothing == Spec => []ReadyAfterSuccess
<1>1. IInv => ReadyAfterSuccess
  BY DEF IInv, ReadyAfterSuccess, CleanInv, EnqueueRefused, Busy
<1>2. QED
  BY <1>1, Invariance, PTL

\* No thread touches a dead frame, and none is assigned over, before the executor
\* has refused a task or the queue a pair.
THEOREM BreaksOnlyAfterRefusal == Spec => []BreaksOnlyWhenRefused
<1>1. IInv => BreaksOnlyWhenRefused
  BY DEF IInv, BreaksOnlyWhenRefused, RefusedInv
<1>2. QED
  BY <1>1, Invariance, PTL
================================================================================
