----------------------- MODULE PublisherListFetcher_proofs -----------------------
(****************************************************************************)
(* Proofs about PublisherListFetcher, for both fetchers, every set of lists,*)
(* every size of the buffer and of the queue and every number of calls.     *)
(*                                                                          *)
(* A call is only as good as what the calls before it left in the parser.   *)
(* So the inductive invariant IInv follows one call through its phases,     *)
(* next to ParserInv and LinesInv of CsvStreamParser_proofs:                *)
(*   CallInv     what the phases of a call promise each other;              *)
(*   CleanInv    between calls: after regular lists the parser is empty;    *)
(*   AddInv      while chunks are added: what has gone in since the call    *)
(*               began, and what is still to come, are its list;            *)
(*   RowInv      while rows are taken: what has come out since the call     *)
(*               began are the first lines of its list, and the IDs of the  *)
(*               response are those lines, each one column.                 *)
(* A call that begins on an empty parser has AddInv; when all is added it   *)
(* has RowInv, because lines are counted afresh behind a line break; and at *)
(* its end RowInv says that the IDs are the good ones, and that nothing is  *)
(* left, which is CleanInv again for the next call.                         *)
(****************************************************************************)
EXTENDS PublisherListFetcher, CsvStreamParser_proofs

Lines == CompleteLines(Given(blob))

CallInv ==
  /\ toAdd \in Seq(Chunk)
  /\ regular => regularBefore
  /\ at # "idle" => blob \in Blobs /\ IsSuffix(toAdd, ChunksOf(kind, blob))
  /\ at # "idle" /\ regular => WellFormed(blob)
  /\ at \in {"idle", "adding", "inParser"} => taken = NoRow
  /\ at = "inParser" => toAdd # <<>>
  /\ at = "inParser" /\ producer = "reserve" => chunk = Head(toAdd)

Clean == intact /\ taken = NoRow /\ consumed = Len(text)
CleanInv == at = "idle" /\ regular => Clean

\* A chunk is being added, or was added in full.
Adding ==
  \/ at = "adding"
  \/ at = "inParser" /\ (producer # "idle" \/ addResult = "Success")

\* What the parser has not seen yet of the list.
Coming ==
  IF at = "adding" \/ producer = "reserve"
  THEN FlattenSeq(toAdd) ELSE FlattenSeq(Tail(toAdd))

\* old is the text before the call, new what the call has added to it.
Added(old, new) ==
  text = old \o new /\ Len(old) = consumed /\ Given(blob) = new \o Coming

AddInv ==
  regularBefore /\ Adding =>
    /\ intact
    /\ ids = <<>>
    /\ \E old \in Seq(Char), new \in Seq(Char) : Added(old, new)

Read == Len(ids) + (IF at = "built" THEN 1 ELSE 0)

\* old is the text before the call, whose list is in the parser in full.
Taken(old) ==
  /\ text = old \o Given(blob)
  /\ Rest(old, LineBreak) = <<>>
  /\ Len(delivered) = Len(CompleteLines(old)) + Read

IdsAreLines ==
  /\ Len(ids) <= Len(Lines)
  /\ \A i \in 1..Len(ids) :
       OneColumn(Lines[i]) /\ ids[i] = RemoveExtraAsciiWhitespace(Lines[i])

RowInv ==
  regularBefore /\ at \in {"rows", "built"} =>
    /\ intact
    /\ IdsAreLines
    /\ \E old \in Seq(Char) : Taken(old)

IdsInv == regularBefore /\ Fetched => ids = GoodIds(blob)

IInv ==
  TypeOK /\ ParserInv /\ LinesInv /\ CallInv /\ CleanInv /\ AddInv /\ RowInv /\ IdsInv

--------------------------------------------------------------------------------
LEMMA SeqOfMembers ==
  ASSUME NEW S, NEW T, NEW s \in Seq(S), ToSet(s) \subseteq T
  PROVE  s \in Seq(T)
<1>1. DOMAIN s = 1..Len(s) /\ Len(s) \in Nat /\ s = [i \in 1..Len(s) |-> s[i]]
  BY LenProperties
<1>2. \A i \in 1..Len(s) : s[i] \in T
  BY <1>1 DEF ToSet
<1>3. QED
  BY <1>1, <1>2

LEMMA ChunksType ==
  ASSUME NEW k \in Kinds, NEW b \in Blobs
  PROVE  ChunksOf(k, b) \in Seq(Chunk)
<1>1. b \in Seq(Char)
  BY FetcherAssumption
<1>2. ChunksOf(k, b) \in Seq(Seq(Char))
  <2>1. Pieces(b, Delimiter) \in NonEmptySeq(Seq(Char))
    BY <1>1, PiecesProperties
  <2>2. Getline(b, Delimiter) \in Seq(Seq(Char))
    BY <2>1, FrontLastProperties DEF Getline, NonEmptySeq
  <2>3. QED
    BY <1>1, <2>2 DEF ChunksOf
<1>3. ToSet(ChunksOf(k, b)) \subseteq Chunk
  BY FetcherAssumption
<1> DEFINE chunks == ChunksOf(k, b)
<1> HIDE DEF chunks
<1>4. chunks \in Seq(Seq(Char)) /\ ToSet(chunks) \subseteq Chunk
  BY <1>2, <1>3 DEF chunks
<1>5. chunks \in Seq(Chunk)
  BY <1>4, SeqOfMembers
<1>6. QED
  BY <1>5 DEF chunks

LEMMA FlattenType ==
  ASSUME NEW s \in Seq(Chunk)
  PROVE  FlattenSeq(s) \in Seq(Char)
<1>1. s \in Seq(Seq(Char))
  BY ParserAssumption, SeqMonotonic
<1>2. QED
  BY <1>1, FlattenProperties

LEMMA GivenType ==
  ASSUME kind \in Kinds, NEW b \in Blobs
  PROVE  /\ Given(b) \in Seq(Char)
         /\ CompleteLines(Given(b)) \in Seq(Seq(Char))
         /\ Len(CompleteLines(Given(b))) \in Nat
<1>1. Given(b) \in Seq(Char)
  BY ChunksType, FlattenType DEF Given
<1>2. QED
  BY <1>1, LinesType, LenProperties

\* Every step of the fetcher is one of its parser, or leaves the parser alone.
LEMMA FetcherStepsParser ==
  ASSUME toAdd \in Seq(Chunk), [Next]_vars
  PROVE  [ParserNext]_(parserVars)
<1>1. CASE AddChunk \/ ChunkRefused
  <2>1. Head(toAdd) \in Chunk
    BY <1>1, HeadTailProperties DEF AddChunk, ChunkRefused
  <2>2. QED
    BY <1>1, <2>1 DEF AddChunk, ChunkRefused, ParserNext
<1>2. CASE AddingChunk
  BY <1>2 DEF AddingChunk, ParserNext
<1>3. CASE GetRow
  BY <1>3 DEF GetRow, ParserNext
<1>4. CASE UNCHANGED parserVars
  BY <1>4 DEF parserVars, parserVars
<1>5. [Next]_vars => \/ AddChunk \/ ChunkRefused \/ AddingChunk \/ GetRow
                     \/ UNCHANGED parserVars
  BY DEF Next, Work, vars, FetchFails, Fetch, ChunkAdded, ReadFails, AllAdded,
         AddId, StopAtBadRow, StopAtNoRow
<1>6. QED
  BY <1>1, <1>2, <1>3, <1>4, <1>5

LEMMA InitIInv == Init => IInv
<1> SUFFICES ASSUME Init PROVE IInv
  OBVIOUS
<1>1. ParserInv /\ LinesInv
  BY InitParserInv, InitLinesInv DEF Init
<1>2. ParserTypeOK
  BY <1>1 DEF ParserInv
<1>3. text = <<>> /\ taken = NoRow /\ consumed = 0 /\ intact /\ producer = "idle"
  BY DEF Init, ParserInit
<1>4. Len(text) = 0
  BY <1>3, EmptySeq
<1>5. at = "idle" /\ toAdd = <<>> /\ ids = <<>> /\ fetchResult = "none"
  BY DEF Init
<1>6. toAdd \in Seq(Chunk) /\ ids \in Seq(Seq(Char))
  BY <1>5, EmptySeq
<1>7. TypeOK
  BY <1>2, <1>3, <1>5, <1>6, FetcherAssumption DEF Init, TypeOK
<1>8. CallInv
  BY <1>3, <1>5, <1>6 DEF Init, CallInv
<1>9. CleanInv
  BY <1>3, <1>4 DEF CleanInv, Clean
<1>10. AddInv /\ RowInv /\ IdsInv
  BY <1>5 DEF AddInv, Adding, RowInv, IdsInv, Fetched
<1>11. QED
  BY <1>1, <1>7, <1>8, <1>9, <1>10 DEF IInv

LEMMA NextTypeOK ==
  ASSUME IInv, [Next]_vars, ParserTypeOK'
  PROVE  TypeOK'
<1> USE DEF IInv
<1>1. ASSUME FetchFails
      PROVE  TypeOK'
  BY <1>1, FetcherAssumption DEF FetchFails, Return, TypeOK, parserVars
<1>2. ASSUME NEW b \in Blobs, Fetch(b)
      PROVE  TypeOK'
  <2>1. /\ calls < MaxCalls /\ calls' = calls + 1 /\ at' = "adding" /\ ids' = <<>>
        /\ toAdd' = ChunksOf(kind, b) /\ blob' = b /\ at = "idle"
        /\ regular' = (regular /\ WellFormed(b)) /\ regularBefore' = regular
        /\ UNCHANGED <<producer, taken, delivered, kind, fetchResult>>
    BY <1>2 DEF Fetch, parserVars
  <2>2. IsSuffix(ChunksOf(kind, b), ChunksOf(kind, b))
    BY ChunksType, SuffixItself DEF TypeOK
  <2>3. IsSuffix(toAdd', ChunksOf(kind', blob'))
    BY <2>1, <2>2, Zenon
  <2>4. ids' \in Seq(Seq(Char))
    BY <2>1, EmptySeq
  <2>5. regular' \in BOOLEAN
    BY <2>1, Zenon DEF TypeOK
  <2>6. calls' \in 0..MaxCalls
    BY <2>1, FetcherAssumption DEF TypeOK
  <2>7. QED
    BY <2>1, <2>3, <2>4, <2>5, <2>6 DEF TypeOK
<1>3. ASSUME AddChunk \/ ChunkRefused \/ AddingChunk
      PROVE  TypeOK'
  <2>1. CASE AddChunk
    BY <2>1 DEF AddChunk, history, TypeOK
  <2>2. CASE AddingChunk
    BY <2>2 DEF AddingChunk, history, TypeOK
  <2>3. CASE ChunkRefused
    <3>1. /\ at' = "idle" /\ fetchResult' = "Failure" /\ producer = "idle"
          /\ regular' = (regularBefore /\ toAdd = ChunksOf(kind, blob))
          /\ UNCHANGED <<kind, toAdd, ids, calls, blob, regularBefore, producer>>
      BY <2>3 DEF ChunkRefused, Return, RefuseChunk, TypeOK
    <3>2. regular' \in BOOLEAN
      BY <3>1, Zenon DEF TypeOK
    <3>3. QED
      BY <3>1, <3>2 DEF TypeOK
  <2>4. QED
    BY <1>3, <2>1, <2>2, <2>3
<1>4. ASSUME ChunkAdded
      PROVE  TypeOK'
  <2>1. /\ at = "inParser" /\ producer = "idle" /\ toAdd' = Tail(toAdd)
        /\ at' \in {"adding", "idle"} /\ fetchResult' \in {fetchResult, "Failure"}
        /\ regular' \in {regular, FALSE}
        /\ UNCHANGED <<producer, taken, delivered, kind, ids, calls, blob, regularBefore>>
    BY <1>4 DEF ChunkAdded, Return, parserVars
  <2>2. /\ toAdd \in Seq(Chunk) /\ toAdd # <<>> /\ blob \in Blobs
        /\ IsSuffix(toAdd, ChunksOf(kind, blob))
    BY <2>1 DEF CallInv
  <2>3. IsSuffix(Tail(toAdd), ChunksOf(kind, blob))
    BY <2>2, ChunksType, SuffixTail DEF TypeOK
  <2>4. IsSuffix(toAdd', ChunksOf(kind', blob'))
    BY <2>1, <2>3, Zenon
  <2>5. QED
    BY <2>1, <2>4 DEF TypeOK
<1>5. ASSUME ReadFails
      PROVE  TypeOK'
  <2>1. /\ at = "adding" /\ at' = "idle" /\ fetchResult' = "Failure"
        /\ regular' = (regularBefore /\ toAdd = ChunksOf(kind, blob))
        /\ UNCHANGED <<producer, taken, delivered, kind, toAdd, ids, calls, blob,
                       regularBefore>>
    BY <1>5 DEF ReadFails, Return, parserVars
  <2>2. regular' \in BOOLEAN
    BY <2>1, Zenon DEF TypeOK
  <2>3. QED
    BY <2>1, <2>2 DEF TypeOK
<1>6. ASSUME AllAdded \/ StopAtBadRow \/ StopAtNoRow
      PROVE  TypeOK'
  BY <1>6 DEF AllAdded, StopAtBadRow, StopAtNoRow, Return, history, parserVars, TypeOK
<1>7. ASSUME GetRow
      PROVE  TypeOK'
  <2>1. /\ at = "rows" /\ at' = (IF taken = NoRow THEN at ELSE "built")
        /\ UNCHANGED <<kind, toAdd, ids, fetchResult, calls, blob, regular,
                       regularBefore, producer>>
    BY <1>7
    DEF GetRow, history, GetNextRow, TakeRow, ReturnRow,
        producerOnly
  <2>2. taken # NoRow => delivered' # <<>> /\ taken' = NoRow
    <3>1. ASSUME ReturnRow
          PROVE  delivered' # <<>> /\ taken' = NoRow
      BY <3>1 DEF ReturnRow
    <3>2. taken # NoRow => ReturnRow
      BY <1>7 DEF GetRow, GetNextRow, TakeRow
    <3>3. QED
      BY <3>1, <3>2
  <2>3. QED
    BY <2>1, <2>2 DEF TypeOK
<1>8. ASSUME AddId
      PROVE  TypeOK'
  <2>1. /\ BuildSucceeds(Last(delivered), 1) /\ at = "built" /\ at' = "rows"
        /\ ids' = Append(ids, GetColumn(Last(delivered), 0))
        /\ UNCHANGED <<producer, taken, delivered, kind, toAdd, fetchResult, calls,
                       blob, regular, regularBefore>>
    BY <1>8 DEF AddId, parserVars, history
  <2>2. Last(delivered) \in Seq(Char)
    <3>1. delivered \in Seq(Seq(Char)) /\ delivered # <<>>
      BY <2>1 DEF TypeOK, ParserTypeOK
    <3>2. QED
      BY <3>1, FrontLastProperties DEF NonEmptySeq
  <2>3. GetColumn(Last(delivered), 0) \in Seq(Char)
    <3> DEFINE line == Last(delivered)
    <3> HIDE DEF line
    <3>1. line \in Seq(Char) /\ BuildSucceeds(line, 1) /\ Blank \in Char
      BY <2>1, <2>2, ParserAssumption, FetcherAssumption DEF line
    <3>2. GetColumn(line, 0) \in Seq(Char)
      BY <3>1, OneColumnRow, TrimmedType
    <3>3. QED
      BY <3>2 DEF line
  <2>4. ids' \in Seq(Seq(Char))
    <3> DEFINE id == GetColumn(Last(delivered), 0)
    <3> HIDE DEF id
    <3>1. ids \in Seq(Seq(Char)) /\ id \in Seq(Char) /\ ids' = Append(ids, id)
      BY <2>1, <2>3 DEF TypeOK, id
    <3>2. QED
      BY <3>1, AppendProperties
  <2>5. QED
    BY <2>1, <2>4 DEF TypeOK
<1>9. CASE UNCHANGED vars
  BY <1>9 DEF vars, history, parserVars, TypeOK
<1>10. QED
  BY <1>1, <1>2, <1>3, <1>4, <1>5, <1>6, <1>7, <1>8, <1>9 DEF Next, Work


LEMMA SameWellFormed ==
  ASSUME kind' = kind, blob' = blob
  PROVE  /\ WellFormed(blob)' <=> WellFormed(blob)
         /\ Given(blob)' = Given(blob)
         /\ Lines' = Lines
         /\ GoodIds(blob)' = GoodIds(blob)
BY DEF WellFormed, Given, Lines, GoodIds

LEMMA NextCallInv ==
  ASSUME IInv, [Next]_vars
  PROVE  CallInv'
<1> USE DEF IInv
<1>1. ASSUME FetchFails
      PROVE  CallInv'
  BY <1>1 DEF FetchFails, Return, CallInv, parserVars
<1>2. ASSUME NEW b \in Blobs, Fetch(b)
      PROVE  CallInv'
  <2>1. /\ at = "idle" /\ at' = "adding" /\ toAdd' = ChunksOf(kind, b) /\ blob' = b
        /\ regular' = (regular /\ WellFormed(b)) /\ regularBefore' = regular
        /\ taken' = taken /\ kind' = kind
    BY <1>2 DEF Fetch, parserVars
  <2>2. /\ ChunksOf(kind, b) \in Seq(Chunk)
        /\ IsSuffix(ChunksOf(kind, b), ChunksOf(kind, b))
    BY ChunksType, SuffixItself DEF TypeOK
  <2>3. toAdd' \in Seq(Chunk) /\ blob' \in Blobs /\ IsSuffix(toAdd', ChunksOf(kind', blob'))
    BY <2>1, <2>2, Zenon
  <2>4. WellFormed(blob)' <=> WellFormed(b)
    BY <2>1, Zenon DEF WellFormed, Given
  <2>5. (regular' => regularBefore') /\ (regular' => WellFormed(blob)')
    BY <2>1, <2>4, Zenon
  <2>6. taken' = NoRow
    BY <2>1 DEF CallInv
  <2>7. QED
    BY <2>1, <2>3, <2>5, <2>6 DEF CallInv
<1>3. ASSUME AddChunk
      PROVE  CallInv'
  BY <1>3, SameWellFormed
  DEF AddChunk, history, BeginChunk, consumerOnly, CallInv
<1>4. ASSUME ChunkRefused
      PROVE  CallInv'
  <2>1. /\ at = "adding" /\ at' = "idle"
        /\ regular' = (regularBefore /\ toAdd = ChunksOf(kind, blob))
        /\ UNCHANGED <<toAdd, regularBefore, taken>>
    BY <1>4 DEF ChunkRefused, Return, RefuseChunk, consumerOnly
  <2>2. regular' => regularBefore'
    BY <2>1, Zenon
  <2>3. QED
    BY <2>1, <2>2 DEF CallInv
<1>5. ASSUME AddingChunk
      PROVE  CallInv'
  <2>1. /\ at = "inParser" /\ producer' # "reserve"
        /\ UNCHANGED <<at, toAdd, blob, kind, regular, regularBefore, taken>>
    BY <1>5
    DEF AddingChunk, history, FinishAddCsvChunk, ReserveChunk,
        EnqueueRow, EnqueueFails, KeepRest, consumerOnly
  <2>2. QED
    BY <2>1, SameWellFormed DEF CallInv
<1>6. ASSUME ChunkAdded
      PROVE  CallInv'
  <2>1. /\ at = "inParser" /\ toAdd' = Tail(toAdd)
        /\ at' \in {"adding", "idle"} /\ regular' \in {regular, FALSE}
        /\ UNCHANGED <<taken, kind, blob, regularBefore>>
    BY <1>6 DEF ChunkAdded, Return, parserVars
  <2>2. /\ toAdd \in Seq(Chunk) /\ toAdd # <<>> /\ blob \in Blobs
        /\ IsSuffix(toAdd, ChunksOf(kind, blob))
    BY <2>1 DEF CallInv
  <2>3. Tail(toAdd) \in Seq(Chunk) /\ IsSuffix(Tail(toAdd), ChunksOf(kind, blob))
    BY <2>2, ChunksType, SuffixTail, HeadTailProperties DEF TypeOK
  <2>4. toAdd' \in Seq(Chunk) /\ IsSuffix(toAdd', ChunksOf(kind', blob'))
    BY <2>1, <2>3, Zenon
  <2>5. (WellFormed(blob)' <=> WellFormed(blob)) /\ blob' \in Blobs
    BY <2>1, <2>2, SameWellFormed
  <2>6. at' # "inParser" /\ taken' = NoRow
    BY <2>1 DEF CallInv
  <2>7. (regular' => regularBefore') /\ (regular' => WellFormed(blob)')
    <3>1. regular' => regular
      BY <2>1
    <3>2. regular => regularBefore /\ WellFormed(blob)
      BY <2>1 DEF CallInv
    <3>3. regularBefore' = regularBefore
      BY <2>1
    <3>4. QED
      BY <2>5, <3>1, <3>2, <3>3, Zenon
  <2>8. QED
    BY <2>4, <2>5, <2>6, <2>7 DEF CallInv
<1>7. ASSUME ReadFails
      PROVE  CallInv'
  <2>1. /\ at = "adding" /\ at' = "idle"
        /\ regular' = (regularBefore /\ toAdd = ChunksOf(kind, blob))
        /\ UNCHANGED <<toAdd, regularBefore, taken>>
    BY <1>7 DEF ReadFails, Return, parserVars
  <2>2. regular' => regularBefore'
    BY <2>1, Zenon
  <2>3. QED
    BY <2>1, <2>2 DEF CallInv
<1>8. ASSUME AllAdded \/ AddId \/ StopAtBadRow \/ StopAtNoRow
      PROVE  CallInv'
  <2>1. /\ at' \in {"rows", "idle"} /\ at # "idle" /\ (at' = "idle" => taken' = NoRow)
        /\ UNCHANGED <<toAdd, blob, kind, regular, regularBefore>>
    BY <1>8
    DEF AllAdded, AddId, StopAtBadRow, StopAtNoRow, Return, history, parserVars, TypeOK
  <2>2. QED
    BY <2>1, SameWellFormed DEF CallInv
<1>9. ASSUME GetRow
      PROVE  CallInv'
  <2>1. /\ at = "rows" /\ at' \in {"rows", "built"}
        /\ UNCHANGED <<toAdd, blob, kind, regular, regularBefore>>
    BY <1>9 DEF GetRow, history
  <2>2. QED
    BY <2>1, SameWellFormed DEF CallInv
<1>10. CASE UNCHANGED vars
  BY <1>10, SameWellFormed DEF vars, history, parserVars, CallInv
<1>11. QED
  BY <1>1, <1>2, <1>3, <1>4, <1>5, <1>6, <1>7, <1>8, <1>9, <1>10 DEF Next, Work


--------------------------------------------------------------------------------
\* A parser that has delivered all of its text holds nothing.
LEMMA NothingQueued ==
  ASSUME ParserInv, LinesInv, Clean
  PROVE  /\ rows = <<>> /\ cursor = Len(text) + 1 /\ buffered_data_size = 0
         /\ Rest(text, LineBreak) = <<>>
<1>1. /\ intact /\ taken = NoRow /\ consumed = Len(text)
      /\ text \in Seq(Char) /\ Len(text) \in Nat /\ rows \in Seq(Row)
  BY DEF Clean, ParserInv, ParserTypeOK
<1>2. rows = <<>>
  <2> SUFFICES ASSUME rows # <<>> PROVE FALSE
    OBVIOUS
  <2>1. 1 \in 1..Len(rows)
    BY <1>1, EmptySeq
  <2>2. rows[1] \in Row
    BY <1>1, <2>1, ElementOfSeq
  <2>3. Complete(rows[1]) /\ Start(1) <= rows[1].from
    BY <2>1 DEF ParserInv, RowsInv
  <2>4. QED
    BY <1>1, <2>2, <2>3 DEF Complete, Start, Frontier, Row
<1>3. cursor = Len(text) + 1
  BY <1>1, <1>2, EmptySeq DEF ParserInv, CursorInv, Start, Frontier
<1>4. buffered_data_size = 0
  BY <1>1 DEF ParserInv, CounterInv, BufferedIsExact
<1>5. Rest(text, LineBreak) = <<>>
  <2>1. SubSeq(text, 1, consumed) = text
    BY <1>1, SubSeqFull
  <2>2. Rest(SubSeq(text, 1, consumed), LineBreak) = <<>>
    BY <1>1 DEF LinesInv
  <2>3. QED
    BY <2>1, <2>2, Zenon
<1>6. QED
  BY <1>2, <1>3, <1>4, <1>5

\* A drained parser whose text ends in a line break has delivered all of it.
LEMMA NothingLeft ==
  ASSUME ParserInv, LinesInv, intact, producer = "idle", rows = <<>>, taken = NoRow,
         Rest(text, LineBreak) = <<>>
  PROVE  Clean
<1>1. Len(rows) = 0 /\ cursor = consumed + 1
  BY EmptySeq DEF ParserInv, CursorInv, Start, Frontier
<1>2. text \in Seq(Char) /\ consumed \in 0..Len(text) /\ Len(text) \in Nat
  BY LenProperties DEF ParserInv, ParserTypeOK, CursorInv
<1>3. /\ \A p \in consumed + 1..Len(text) : text[p] # LineBreak
      /\ Rest(SubSeq(text, 1, consumed), LineBreak) = <<>>
  BY <1>1 DEF LinesInv
<1> DEFINE length == Len(text)
<1>4. Rest(SubSeq(text, 1, length), LineBreak) = SubSeq(text, consumed + 1, length)
  <2>1. length \in consumed..Len(text) /\ \A p \in consumed + 1..length : text[p] # LineBreak
    BY <1>2, <1>3
  <2> HIDE DEF length
  <2>2. QED
    BY <1>2, <1>3, <2>1, RestGrows
<1>5. SubSeq(text, 1, length) = text
  BY <1>2, SubSeqFull
<1>6. SubSeq(text, consumed + 1, length) = <<>>
  BY <1>4, <1>5, Zenon
<1>7. Len(SubSeq(text, consumed + 1, length)) = 0
  BY <1>6, EmptySeq
<1>8. consumed = Len(text)
  <2> SUFFICES ASSUME consumed + 1 <= Len(text) PROVE FALSE
    BY <1>2
  <2>1. \A i \in consumed + 1..length : text[i] \in Char
    BY <1>2, ElementOfSeq
  <2>2. Len(SubSeq(text, consumed + 1, length)) = length - (consumed + 1) + 1
    <3>1. consumed + 1 \in Int /\ length \in Int /\ consumed + 1 <= length
      BY <1>2
    <3> HIDE DEF length
    <3>2. QED
      BY <2>1, <3>1, SubSeqProperties
  <2>3. QED
    BY <1>2, <1>7, <2>2
<1>9. QED
  BY <1>8 DEF Clean

\* The last row delivered is the line of the list that is next.
LEMMA DeliveredLine ==
  ASSUME ParserInv, LinesInv, intact, NEW given \in Seq(Char), NEW old \in Seq(Char),
         text = old \o given, Rest(old, LineBreak) = <<>>,
         NEW n \in Nat, Len(delivered) = Len(CompleteLines(old)) + n
  PROVE  /\ n <= Len(CompleteLines(given))
         /\ n > 0 => Last(delivered) = CompleteLines(given)[n]
<1>1. text \in Seq(Char) /\ consumed \in 0..Len(text) /\ Len(text) \in Nat
  BY LenProperties DEF ParserInv, ParserTypeOK, CursorInv
<1> DEFINE head == SubSeq(text, 1, consumed)
           tail == SubSeq(text, consumed + 1, Len(text))
<1>2. head \in Seq(Char) /\ tail \in Seq(Char)
  <2>1. \A i \in 1..Len(text) : text[i] \in Char
    BY <1>1, ElementOfSeq
  <2>2. QED
    BY <1>1, <2>1, SubSeqProperties
<1>3. head \o tail = text
  <2>1. 1 \in 1..Len(text) + 1 /\ consumed \in 1 - 1..Len(text) /\ Len(text) \in consumed..Len(text)
    BY <1>1
  <2>2. head \o tail = SubSeq(text, 1, Len(text))
    BY <1>1, <2>1, ConcatAdjacentSubSeq
  <2>3. QED
    BY <1>1, <2>2, SubSeqFull
<1>4. delivered = CompleteLines(head)
  BY DEF LinesInv
<1> HIDE DEF head, tail
<1>5. PICK more \in Seq(Seq(Char)) : CompleteLines(text) = CompleteLines(head) \o more
  <2>1. \E more \in Seq(Seq(Char)) :
          CompleteLines(head \o tail) = CompleteLines(head) \o more
    BY <1>2, LinesGrow
  <2>2. QED
    BY <1>3, <2>1, Zenon
<1>6. CompleteLines(text) = CompleteLines(old) \o CompleteLines(given)
  BY LinesConcat
<1> DEFINE before == CompleteLines(old)
           lines  == CompleteLines(given)
           Line   == Seq(Char)
<1>7. /\ before \in Seq(Line) /\ lines \in Seq(Line) /\ delivered \in Seq(Line)
      /\ more \in Seq(Line)
  BY <1>2, <1>4, LinesType
<1>8. delivered \o more = before \o lines /\ Len(delivered) = Len(before) + n
  BY <1>4, <1>5, <1>6
<1> HIDE DEF before, lines, Line
<1>9. /\ Len(before) \in Nat /\ Len(lines) \in Nat /\ Len(more) \in Nat
      /\ Len(delivered) + Len(more) = Len(before) + Len(lines)
  <2>1. Len(delivered \o more) = Len(delivered) + Len(more)
    BY <1>7, ConcatProperties
  <2>2. Len(before \o lines) = Len(before) + Len(lines)
    BY <1>7, ConcatProperties
  <2>3. Len(before) \in Nat /\ Len(lines) \in Nat /\ Len(more) \in Nat
    BY <1>7, LenProperties
  <2>4. QED
    BY <1>8, <2>1, <2>2, <2>3, Zenon
<1>10. n <= Len(lines)
  BY <1>8, <1>9
<1>11. ASSUME n > 0
       PROVE  Last(delivered) = lines[n]
  <2> DEFINE i == Len(before) + n
  <2>1. /\ i \in 1..Len(delivered) + Len(more) /\ i <= Len(delivered)
        /\ i \in 1..Len(before) + Len(lines) /\ ~(i <= Len(before)) /\ i - Len(before) = n
    BY <1>8, <1>9, <1>10, <1>11
  <2>2. i = Len(delivered)
    BY <1>8
  <2> HIDE DEF i
  <2>3. (delivered \o more)[i] = delivered[i]
    BY <1>7, <2>1, ConcatProperties
  <2>4. (before \o lines)[i] = lines[n]
    BY <1>7, <2>1, ConcatProperties
  <2>5. delivered[i] = lines[n]
    BY <1>8, <2>3, <2>4, Zenon
  <2>6. QED
    BY <2>2, <2>5 DEF Last
<1>12. QED
  BY <1>10, <1>11 DEF lines


\* The row in hand is the line behind the IDs so far.
LEMMA BuiltLine ==
  ASSUME IInv, regularBefore, at = "built"
  PROVE  /\ Len(ids) + 1 \in 1..Len(Lines)
         /\ Last(delivered) = Lines[Len(ids) + 1]
         /\ BuildSucceeds(Last(delivered), 1) <=> OneColumn(Lines[Len(ids) + 1])
         /\ BuildSucceeds(Last(delivered), 1) =>
              GetColumn(Last(delivered), 0) = RemoveExtraAsciiWhitespace(Lines[Len(ids) + 1])
<1>1. PICK old \in Seq(Char) : Taken(old)
  BY DEF IInv, RowInv
<1>2. /\ Given(blob) \in Seq(Char) /\ Lines \in Seq(Seq(Char)) /\ Len(Lines) \in Nat
      /\ intact /\ ParserInv /\ LinesInv /\ Len(ids) \in Nat
  <2>1. kind \in Kinds /\ blob \in Blobs /\ intact /\ ids \in Seq(Seq(Char))
    BY DEF IInv, TypeOK, CallInv, RowInv
  <2>2. QED
    BY <2>1, GivenType, LenProperties DEF IInv, Lines
<1> DEFINE n == Len(ids) + 1
           given == Given(blob)
<1>3. n <= Len(Lines) /\ Last(delivered) = Lines[n]
  <2>1. /\ n \in Nat /\ n > 0 /\ given \in Seq(Char) /\ text = old \o given
        /\ Rest(old, LineBreak) = <<>> /\ Len(delivered) = Len(CompleteLines(old)) + n
    BY <1>1, <1>2 DEF Taken, Read
  <2> HIDE DEF n, given
  <2>2. n <= Len(CompleteLines(given)) /\ Last(delivered) = CompleteLines(given)[n]
    BY <1>2, <2>1, DeliveredLine
  <2>3. QED
    BY <2>2 DEF Lines, given
<1>4. n \in 1..Len(Lines)
  BY <1>2, <1>3
<1>5. Last(delivered) \in Seq(Char)
  BY <1>2, <1>3, <1>4, ElementOfSeq
<1> DEFINE line == Last(delivered)
<1>6. /\ BuildSucceeds(line, 1) <=> OneColumn(line)
      /\ BuildSucceeds(line, 1) => GetColumn(line, 0) = RemoveExtraAsciiWhitespace(line)
  <2>1. line \in Seq(Char) /\ Blank \in Char
    BY <1>5, ParserAssumption, FetcherAssumption
  <2> HIDE DEF line
  <2>2. QED
    BY <2>1, BuildsOneColumn, OneColumnRow DEF OneColumn
<1>7. QED
  BY <1>3, <1>4, <1>6, Zenon

\* When no row is left, all lines of the list have come out.
LEMMA AllLinesTaken ==
  ASSUME IInv, regularBefore, at = "rows", taken = NoRow, rows = <<>>
  PROVE  Len(ids) = Len(Lines) /\ (WellFormed(blob) => Clean)
<1>1. PICK old \in Seq(Char) : Taken(old)
  BY DEF IInv, RowInv
<1>2. /\ Given(blob) \in Seq(Char) /\ Lines \in Seq(Seq(Char)) /\ Len(Lines) \in Nat
      /\ intact /\ ParserInv /\ LinesInv /\ Len(ids) \in Nat /\ producer = "idle"
  <2>1. /\ kind \in Kinds /\ blob \in Blobs /\ intact /\ ids \in Seq(Seq(Char))
        /\ producer = "idle"
    BY DEF IInv, TypeOK, CallInv, RowInv
  <2>2. QED
    BY <2>1, GivenType, LenProperties DEF IInv, Lines
<1> DEFINE given  == Given(blob)
           before == CompleteLines(old)
<1>3. /\ text = old \o given /\ Rest(old, LineBreak) = <<>>
      /\ Len(delivered) = Len(before) + Len(ids)
  BY <1>1, <1>2 DEF Taken, Read
<1>4. /\ CompleteLines(text) = before \o Lines
      /\ Rest(text, LineBreak) = Rest(given, LineBreak)
  <2>1. given \in Seq(Char) /\ Lines = CompleteLines(given)
    BY <1>2 DEF Lines
  <2> HIDE DEF given
  <2>2. QED
    BY <1>3, <2>1, LinesConcat
<1>5. delivered = before \o Lines
  <2>1. delivered = CompleteLines(text)
    BY <1>2, DrainedLines
  <2>2. QED
    BY <1>4, <2>1
<1>6. Len(ids) = Len(Lines)
  <2> DEFINE Line == Seq(Char)
  <2>1. before \in Seq(Line) /\ Lines \in Seq(Line)
    BY <1>2, LinesType
  <2> HIDE DEF before, Line
  <2>2. Len(before \o Lines) = Len(before) + Len(Lines) /\ Len(before) \in Nat
    BY <2>1, ConcatProperties, LenProperties
  <2>3. Len(before) + Len(Lines) = Len(before) + Len(ids)
    BY <1>3, <1>5, <2>2, Zenon
  <2>4. QED
    BY <1>2, <2>2, <2>3
<1>7. ASSUME WellFormed(blob)
      PROVE  Clean
  <2>1. given = <<>> \/ Last(given) = LineBreak
    BY <1>7 DEF WellFormed
  <2>2. Rest(given, LineBreak) = <<>>
    <3> HIDE DEF given
    <3>1. given \in Seq(Char)
      BY <1>2 DEF given
    <3>2. QED
      BY <2>1, <3>1, NothingBehindBreak
  <2>3. Rest(text, LineBreak) = <<>>
    BY <1>4, <2>2, Zenon
  <2>4. QED
    BY <1>2, <2>3, NothingLeft
<1>8. QED
  BY <1>6, <1>7

\* The IDs so far are the good ones if no line follows, or a bad one.
LEMMA TheseAreGood ==
  ASSUME IdsAreLines, ids \in Seq(Seq(Char)), Len(Lines) \in Nat,
         Len(ids) = Len(Lines) \/ ~OneColumn(Lines[Len(ids) + 1])
  PROVE  ids = GoodIds(blob)
<1> DEFINE n    == Len(ids)
           good == {m \in 0..Len(Lines) : \A i \in 1..m : OneColumn(Lines[i])}
<1>1. n \in Nat /\ n <= Len(Lines) /\ ids = [i \in 1..n |-> ids[i]]
  BY LenProperties DEF IdsAreLines
<1>2. n \in good
  BY <1>1 DEF IdsAreLines
<1>3. ASSUME NEW m \in good
      PROVE  m <= n
  BY <1>1
<1>4. Max(good) = n
  <2>1. \A m \in good : n >= m
    BY <1>1, <1>3
  <2>2. \A x \in good : (\A m \in good : x >= m) => x = n
    BY <1>1, <1>2, <1>3
  <2> HIDE DEF good, n
  <2>3. QED
    BY <1>2, <2>1, <2>2 DEF Max
<1>5. GoodIds(blob) = [i \in 1..Max(good) |-> RemoveExtraAsciiWhitespace(Lines[i])]
  BY Zenon DEF GoodIds, Lines
<1>6. \A i \in 1..n : ids[i] = RemoveExtraAsciiWhitespace(Lines[i])
  BY DEF IdsAreLines
<1> HIDE DEF good, n
<1>7. QED
  BY <1>1, <1>4, <1>5, <1>6


--------------------------------------------------------------------------------
\* If no chunk of the list has gone in, the text is that of the calls before.
LEMMA NothingAdded ==
  ASSUME IInv, regularBefore, at = "adding", toAdd = ChunksOf(kind, blob)
  PROVE  Clean
<1>1. PICK old \in Seq(Char), new \in Seq(Char) : Added(old, new)
  BY DEF IInv, AddInv, Adding
<1>2. intact /\ taken = NoRow /\ Given(blob) \in Seq(Char)
  BY GivenType DEF IInv, AddInv, Adding, CallInv, TypeOK
<1> DEFINE given == Given(blob)
<1>3. given = new \o given /\ text = old \o new /\ Len(old) = consumed
  BY <1>1 DEF Added, Coming, Given
<1>4. new = <<>>
  <2>1. given \in Seq(Char) /\ new \o given = given
    BY <1>2, <1>3
  <2> HIDE DEF given
  <2>2. QED
    BY <2>1, ConcatEqualIffEmpty
<1>5. text = old
  BY <1>3, <1>4, ConcatEmptySeq
<1>6. QED
  BY <1>2, <1>3, <1>5 DEF Clean

LEMMA NextCleanInv ==
  ASSUME IInv, [Next]_vars
  PROVE  CleanInv'
<1> SUFFICES ASSUME at' = "idle", regular'
             PROVE  Clean'
  BY DEF CleanInv
<1>1. ASSUME FetchFails \/ UNCHANGED vars
      PROVE  Clean'
  <2>1. at = "idle" /\ regular /\ UNCHANGED <<intact, taken, consumed, text>>
    BY <1>1 DEF FetchFails, vars, history, parserVars
  <2>2. Clean
    BY <2>1 DEF IInv, CleanInv
  <2>3. QED
    BY <2>1, <2>2 DEF Clean
<1>2. ASSUME ChunkRefused \/ ReadFails
      PROVE  Clean'
  <2>1. /\ at = "adding" /\ regular' = (regularBefore /\ toAdd = ChunksOf(kind, blob))
        /\ UNCHANGED <<intact, taken, consumed, text>>
    BY <1>2
    DEF ChunkRefused, ReadFails, parserVars, RefuseChunk, consumerOnly
  <2>2. regularBefore /\ toAdd = ChunksOf(kind, blob)
    BY <2>1
  <2>3. Clean
    BY <2>1, <2>2, NothingAdded
  <2>4. QED
    BY <2>1, <2>3 DEF Clean
<1>3. ASSUME StopAtBadRow
      PROVE  Clean'
  <2>1. at = "built" /\ regular /\ ~BuildSucceeds(Last(delivered), 1)
    BY <1>3 DEF StopAtBadRow, history
  <2>2. regularBefore /\ WellFormed(blob)
    BY <2>1 DEF IInv, CallInv
  <2>3. Len(ids) + 1 \in 1..Len(Lines) /\ ~OneColumn(Lines[Len(ids) + 1])
    BY <2>1, <2>2, BuiltLine
  <2>4. Lines \in Seq(Seq(Char))
    BY <2>1, GivenType DEF IInv, CallInv, TypeOK, Lines
  <2>5. Lines[Len(ids) + 1] \in ToSet(Lines)
    BY <2>3, <2>4, LenProperties DEF ToSet
  <2>6. QED
    BY <2>2, <2>3, <2>5, Zenon DEF WellFormed, Lines
<1>4. ASSUME StopAtNoRow
      PROVE  Clean'
  <2>1. /\ at = "rows" /\ taken = NoRow /\ rows = <<>> /\ regular
        /\ UNCHANGED <<intact, taken, consumed, text>>
    BY <1>4 DEF StopAtNoRow, history, parserVars
  <2>2. regularBefore /\ WellFormed(blob)
    BY <2>1 DEF IInv, CallInv
  <2>3. Clean
    BY <2>1, <2>2, AllLinesTaken
  <2>4. QED
    BY <2>1, <2>3 DEF Clean
<1>5. ~ChunkAdded
  BY DEF ChunkAdded
<1>6. ~(AddChunk \/ AddingChunk \/ AllAdded \/ GetRow \/ AddId \/ \E b \in Blobs : Fetch(b))
  BY DEF AddChunk, AddingChunk, AllAdded, GetRow, AddId, Fetch
<1>7. QED
  BY <1>1, <1>2, <1>3, <1>4, <1>5, <1>6 DEF Next, Work

LEMMA NextAddInv ==
  ASSUME IInv, [Next]_vars
  PROVE  AddInv'
<1> SUFFICES ASSUME regularBefore', Adding'
             PROVE  /\ intact' /\ ids' = <<>>
                    /\ \E old \in Seq(Char), new \in Seq(Char) : Added(old, new)'
  BY DEF AddInv
<1> DEFINE Ready == /\ regularBefore /\ Adding
                    /\ UNCHANGED <<kind, blob, ids, intact, consumed>>
<1>1. ASSUME Ready
      PROVE  /\ intact' /\ ids' = <<>> /\ Given(blob)' = Given(blob)
             /\ \E old \in Seq(Char), new \in Seq(Char) : Added(old, new)
  BY <1>1, SameWellFormed DEF IInv, AddInv
<1>2. ASSUME Ready, text' = text, Coming' = Coming
      PROVE  \E old \in Seq(Char), new \in Seq(Char) : Added(old, new)'
  <2>1. PICK old \in Seq(Char), new \in Seq(Char) : Added(old, new)
    BY <1>1, <1>2
  <2>2. Added(old, new)'
    BY <1>1, <1>2, <2>1 DEF Added
  <2>3. QED
    BY <2>2
<1>3. ASSUME NEW b \in Blobs, Fetch(b)
      PROVE  /\ intact' /\ ids' = <<>>
             /\ \E old \in Seq(Char), new \in Seq(Char) : Added(old, new)'
  <2>1. /\ at = "idle" /\ at' = "adding" /\ toAdd' = ChunksOf(kind, b) /\ ids' = <<>>
        /\ blob' = b /\ regularBefore' = regular /\ kind' = kind
        /\ UNCHANGED <<text, consumed, intact>>
    BY <1>3 DEF Fetch, parserVars
  <2>2. Clean
    BY <2>1 DEF IInv, CleanInv
  <2>3. text \in Seq(Char) /\ Given(b) \in Seq(Char) /\ <<>> \in Seq(Char)
    BY GivenType, EmptySeq DEF IInv, TypeOK, ParserTypeOK
  <2>4. Given(blob)' = Given(b) /\ Coming' = Given(b)
    BY <2>1, Zenon DEF Given, Coming
  <2> DEFINE given == Given(b)
  <2>5. text = text \o <<>> /\ given = <<>> \o given
    <3>1. given \in Seq(Char)
      BY <2>3
    <3> HIDE DEF given
    <3>2. QED
      BY <2>3, <3>1, ConcatEmptySeq
  <2>6. Added(text, <<>>)'
    <3>1. text' = text \o <<>> /\ Len(text) = consumed'
      BY <2>1, <2>2, <2>5 DEF Clean
    <3>2. Given(blob)' = <<>> \o Coming'
      BY <2>4, <2>5, Zenon
    <3>3. text' = text
      BY <2>1
    <3>4. QED
      BY <3>1, <3>2, <3>3, Zenon DEF Added
  <2>7. \E old \in Seq(Char), new \in Seq(Char) : Added(old, new)'
    <3>1. text' = text
      BY <2>1
    <3>2. QED
      BY <2>3, <2>6, <3>1
  <2>8. QED
    BY <2>1, <2>2, <2>7 DEF Clean
<1>4. ASSUME AddChunk
      PROVE  Ready /\ text' = text /\ Coming' = Coming
  <2>1. /\ at = "adding" /\ producer' = "reserve" /\ at' = "inParser"
        /\ UNCHANGED <<kind, blob, ids, intact, consumed, text, toAdd, regularBefore>>
    BY <1>4 DEF AddChunk, history, BeginChunk, consumerOnly
  <2>2. QED
    BY <2>1 DEF Adding, Coming
<1>5. ASSUME AddingChunk, ~ReserveChunk
      PROVE  Ready /\ text' = text /\ Coming' = Coming
  <2>1. /\ at = "inParser" /\ at' = "inParser"
        /\ UNCHANGED <<kind, blob, ids, toAdd, regularBefore>>
    BY <1>5 DEF AddingChunk, history
  <2>2. CASE EnqueueFails
    BY <2>1, <2>2 DEF EnqueueFails, Adding
  <2>3. CASE EnqueueRow \/ KeepRest
    <3>1. /\ producer = "scan" /\ producer' # "reserve"
          /\ UNCHANGED <<intact, consumed, text>>
      BY <2>3 DEF EnqueueRow, KeepRest, consumerOnly
    <3>2. QED
      BY <2>1, <3>1 DEF Adding, Coming
  <2>4. QED
    BY <1>5, <2>2, <2>3 DEF AddingChunk, FinishAddCsvChunk
<1>6. ASSUME AddingChunk, ReserveChunk
      PROVE  /\ Ready
             /\ \E old \in Seq(Char), new \in Seq(Char) : Added(old, new)'
  <2>1. /\ at = "inParser" /\ at' = "inParser" /\ producer = "reserve"
        /\ producer' = "scan" /\ text' = text \o chunk
        /\ UNCHANGED <<kind, blob, ids, toAdd, regularBefore, intact, consumed>>
    BY <1>6 DEF AddingChunk, history, ReserveChunk, consumerOnly
  <2>2. Ready
    BY <2>1 DEF Adding
  <2>3. PICK old \in Seq(Char), new \in Seq(Char) : Added(old, new)
    BY <1>1, <2>2
  <2>4. chunk = Head(toAdd) /\ toAdd \in Seq(Chunk) /\ toAdd # <<>>
    BY <2>1 DEF IInv, CallInv
  <2>5. /\ chunk \in Seq(Char) /\ FlattenSeq(Tail(toAdd)) \in Seq(Char)
        /\ FlattenSeq(toAdd) = chunk \o FlattenSeq(Tail(toAdd))
    BY <2>4, FlattenTail
  <2> DEFINE rest == FlattenSeq(Tail(toAdd))
  <2>6. Coming = chunk \o rest /\ Coming' = rest
    BY <2>1, <2>5 DEF Coming
  <2>7. /\ new \o chunk \in Seq(Char)
        /\ (old \o new) \o chunk = old \o (new \o chunk)
        /\ new \o (chunk \o rest) = (new \o chunk) \o rest
    <3>1. rest \in Seq(Char)
      BY <2>5
    <3> HIDE DEF rest
    <3>2. new \o chunk \in Seq(Char)
      BY <2>5, ConcatProperties
    <3>3. (old \o new) \o chunk = old \o (new \o chunk)
      BY <2>5, ConcatAssociative
    <3>4. (new \o chunk) \o rest = new \o (chunk \o rest)
      <4>1. new \in Seq(Char) /\ chunk \in Seq(Char)
        BY <2>5
      <4>2. QED
        BY <3>1, <4>1, ConcatAssociative
    <3>5. QED
      BY <3>2, <3>3, <3>4, Zenon
  <2>8. Added(old, new \o chunk)'
    <3>1. text' = old \o (new \o chunk)
      BY <2>1, <2>3, <2>7, Zenon DEF Added
    <3>2. Len(old) = consumed'
      BY <2>1, <2>3 DEF Added
    <3>3. Given(blob)' = (new \o chunk) \o Coming'
      BY <1>1, <2>2, <2>3, <2>6, <2>7, Zenon DEF Added
    <3>4. chunk' = chunk
      BY <1>6 DEF ReserveChunk
    <3>5. QED
      BY <3>1, <3>2, <3>3, <3>4, Zenon DEF Added
  <2>9. \E o \in Seq(Char), n \in Seq(Char) : Added(o, n)'
    <3>1. chunk' = chunk
      BY <1>6 DEF ReserveChunk
    <3>2. QED
      BY <2>7, <2>8, <3>1
  <2>10. QED
    BY <2>2, <2>9
<1>7. ASSUME ChunkAdded
      PROVE  Ready /\ text' = text /\ Coming' = Coming
  <2>1. /\ at = "inParser" /\ producer = "idle" /\ toAdd' = Tail(toAdd)
        /\ (addResult # "Success" => at' = "idle") /\ at' \in {"adding", "idle"}
        /\ UNCHANGED <<kind, blob, ids, regularBefore, intact, consumed, text, producer>>
    BY <1>7 DEF ChunkAdded, Return, parserVars
  <2>2. at' = "adding" /\ addResult = "Success"
    BY <2>1 DEF Adding
  <2>3. QED
    BY <2>1, <2>2 DEF Adding, Coming
<1>8. ASSUME UNCHANGED vars
      PROVE  Ready /\ text' = text /\ Coming' = Coming
  BY <1>8 DEF vars, history, parserVars, Adding, Coming
<1>9. ~(FetchFails \/ ChunkRefused \/ ReadFails \/ AllAdded \/ GetRow \/ AddId
        \/ StopAtBadRow \/ StopAtNoRow)
  BY DEF FetchFails, ChunkRefused, ReadFails, AllAdded, GetRow, AddId, StopAtBadRow,
         StopAtNoRow, Return, Adding
<1>10. QED
  <2> HIDE DEF Ready
  <2>1. QED
    BY <1>1, <1>2, <1>3, <1>4, <1>5, <1>6, <1>7, <1>8, <1>9 DEF Next, Work


LEMMA NextFetcherParser ==
  ASSUME IInv, [Next]_vars
  PROVE  ParserInv' /\ LinesInv'
<1>1. [ParserNext]_(parserVars)
  BY FetcherStepsParser DEF IInv, CallInv
<1>2. QED
  BY <1>1, NextParserInv, NextLinesInv DEF IInv

LEMMA NextRowInv ==
  ASSUME IInv, [Next]_vars
  PROVE  RowInv'
<1> SUFFICES ASSUME regularBefore', at' \in {"rows", "built"}
             PROVE  intact' /\ IdsAreLines' /\ \E old \in Seq(Char) : Taken(old)'
  BY DEF RowInv
<1> DEFINE Ready == /\ regularBefore /\ at \in {"rows", "built"}
                    /\ UNCHANGED <<kind, blob, text, intact>>
<1>1. ASSUME Ready
      PROVE  /\ intact' /\ IdsAreLines
             /\ Given(blob)' = Given(blob) /\ Lines' = Lines
             /\ \E old \in Seq(Char) : Taken(old)
             /\ Len(ids) \in Nat /\ Len(delivered) \in Nat
             /\ \A old \in Seq(Char) : Len(CompleteLines(old)) \in Nat
  <2>1. ids \in Seq(Seq(Char)) /\ delivered \in Seq(Seq(Char))
    BY DEF IInv, TypeOK, ParserTypeOK
  <2>2. Len(ids) \in Nat /\ Len(delivered) \in Nat
    BY <2>1, LenProperties
  <2>3. \A old \in Seq(Char) : Len(CompleteLines(old)) \in Nat
    BY LinesType, LenProperties
  <2>4. QED
    BY <1>1, <2>2, <2>3, SameWellFormed DEF IInv, RowInv
<1>2. ASSUME Ready, ids' = ids,
             Len(delivered') - Len(delivered) = Read' - Read
      PROVE  IdsAreLines' /\ \E old \in Seq(Char) : Taken(old)'
  <2>1. PICK old \in Seq(Char) : Taken(old)
    BY <1>1, <1>2
  <2>2. IdsAreLines'
    BY <1>1, <1>2 DEF IdsAreLines
  <2>3. Len(delivered') = Len(CompleteLines(old)) + Read'
    <3>1. /\ Len(delivered) = Len(CompleteLines(old)) + Read
          /\ Read \in Nat /\ Read' \in Nat /\ Len(CompleteLines(old)) \in Nat
      BY <1>1, <1>2, <2>1 DEF Taken, Read
    <3>2. delivered' \in Seq(Seq(Char))
      BY NextFetcherParser DEF ParserInv, ParserTypeOK
    <3>3. Len(delivered') \in Nat
      BY <3>2, LenProperties
    <3>4. QED
      BY <1>1, <1>2, <3>1, <3>3
  <2>4. Taken(old)'
    BY <1>1, <1>2, <2>1, <2>3 DEF Taken
  <2>5. QED
    BY <2>2, <2>4
<1>3. ASSUME AllAdded
      PROVE  intact' /\ IdsAreLines' /\ \E old \in Seq(Char) : Taken(old)'
  <2>1. /\ at = "adding" /\ at' = "rows" /\ toAdd = <<>>
        /\ UNCHANGED <<kind, blob, text, intact, ids, delivered, regularBefore>>
    BY <1>3 DEF AllAdded, history, parserVars
  <2>2. intact /\ ids = <<>>
    BY <2>1 DEF IInv, AddInv, Adding
  <2>3. PICK old \in Seq(Char), new \in Seq(Char) : Added(old, new)
    BY <2>1 DEF IInv, AddInv, Adding
  <2>4. /\ text = old \o new /\ Len(old) = consumed /\ Given(blob) = new \o <<>>
        /\ Given(blob)' = Given(blob) /\ Lines' = Lines
    <3>1. FlattenSeq(toAdd) = <<>>
      BY <2>1, FlattenProperties
    <3>2. QED
      BY <2>1, <2>3, <3>1, SameWellFormed DEF Added, Coming
  <2>5. text = old \o Given(blob)
    BY <2>4, ConcatEmptySeq
  <2>6. SubSeq(text, 1, consumed) = old
    <3>1. SubSeq(old, 1, Len(old)) = old /\ Len(old) \in Nat
      BY SubSeqFull, LenProperties
    <3>2. SubSeq(old \o new, 1, Len(old)) = old
      <4>1. CASE Len(old) = 0
        <5>1. old = <<>>
          BY <4>1, EmptySeq
        <5>2. SubSeq(old \o new, 1, 0) = <<>>
          BY SubSeqEmpty
        <5>3. QED
          BY <4>1, <5>1, <5>2
      <4>2. CASE Len(old) > 0
        <5>1. 1 \in 1..Len(old) /\ Len(old) \in 1..Len(old)
          BY <3>1, <4>2
        <5>2. SubSeq(old \o new, 1, Len(old)) = SubSeq(old, 1, Len(old))
          BY <5>1, SubSeqOfConcat1
        <5>3. QED
          BY <3>1, <5>2, Zenon
      <4>3. QED
        BY <3>1, <4>1, <4>2
    <3>3. QED
      BY <2>4, <3>2, Zenon
  <2>7. Rest(old, LineBreak) = <<>> /\ delivered = CompleteLines(old)
    BY <2>2, <2>6, Zenon DEF IInv, LinesInv
  <2>8. Read' = 0 /\ Len(ids) = 0
    BY <2>1, <2>2, EmptySeq DEF Read
  <2>9. Len(CompleteLines(old)) \in Nat
    BY LinesType, LenProperties
  <2>10. Taken(old)'
    <3>1. Len(delivered') = Len(CompleteLines(old)) + Read'
      BY <2>1, <2>7, <2>8, <2>9
    <3>2. text' = old \o Given(blob)'
      BY <2>1, <2>4, <2>5, Zenon
    <3>3. QED
      BY <2>7, <3>1, <3>2, Zenon DEF Taken
  <2>11. IdsAreLines'
    <3>1. Len(Lines) \in Nat
      BY <2>1, GivenType DEF IInv, CallInv, TypeOK, Lines
    <3>2. QED
      BY <2>1, <2>4, <2>8, <3>1 DEF IdsAreLines
  <2>12. QED
    BY <2>1, <2>2, <2>10, <2>11
<1>4. ASSUME GetRow
      PROVE  Ready /\ ids' = ids /\ Len(delivered') - Len(delivered) = Read' - Read
  <2>1. /\ at = "rows" /\ at' = (IF taken = NoRow THEN at ELSE "built")
        /\ UNCHANGED <<kind, ids, blob, regularBefore, text, intact>>
    BY <1>4
    DEF GetRow, history, GetNextRow, TakeRow, ReturnRow,
        producerOnly
  <2>2. Ready
    BY <2>1
  <2>3. Len(ids) \in Nat /\ Len(delivered) \in Nat
    BY <1>1, <2>2
  <2>4. CASE TakeRow
    <3>1. at' = at /\ delivered' = delivered
      BY <2>1, <2>4 DEF TakeRow
    <3>2. QED
      BY <2>1, <2>2, <2>3, <3>1 DEF Read
  <2>5. CASE ReturnRow
    <3>1. /\ at' = "built"
          /\ delivered' = Append(delivered, SubSeq(text, taken.from, taken.to - 1))
      BY <2>1, <2>5 DEF ReturnRow
    <3>2. Len(delivered') = Len(delivered) + 1
      <4> DEFINE row == SubSeq(text, taken.from, taken.to - 1)
      <4> HIDE DEF row
      <4>1. delivered \in Seq(Seq(Char)) /\ delivered' = Append(delivered, row)
        BY <3>1 DEF IInv, ParserInv, ParserTypeOK, row
      <4>2. QED
        BY <4>1
    <3>3. QED
      BY <2>1, <2>2, <2>3, <3>1, <3>2 DEF Read
  <2>6. QED
    BY <1>4, <2>4, <2>5 DEF GetRow, GetNextRow
<1>5. ASSUME AddId
      PROVE  /\ Ready /\ IdsAreLines'
             /\ \E old \in Seq(Char) : Taken(old)'
  <2>1. /\ at = "built" /\ at' = "rows" /\ BuildSucceeds(Last(delivered), 1)
        /\ ids' = Append(ids, GetColumn(Last(delivered), 0))
        /\ UNCHANGED <<kind, blob, regularBefore, text, intact, delivered>>
    BY <1>5 DEF AddId, history, parserVars
  <2>2. Ready
    BY <2>1
  <2> DEFINE n  == Len(ids)
             id == GetColumn(Last(delivered), 0)
  <2>3. /\ n + 1 \in 1..Len(Lines) /\ OneColumn(Lines[n + 1])
        /\ id = RemoveExtraAsciiWhitespace(Lines[n + 1])
    BY <2>1, BuiltLine
  <2>4. /\ Len(ids') = n + 1 /\ ids'[n + 1] = id
        /\ \A i \in 1..n : ids'[i] = ids[i]
    <3> HIDE DEF id
    <3>1. ids \in Seq(Seq(Char)) /\ ids' = Append(ids, id)
      BY <2>1 DEF IInv, TypeOK, id
    <3>2. QED
      BY <3>1
  <2>5. IdsAreLines'
    <3>1. Lines' = Lines /\ IdsAreLines /\ n \in Nat
      BY <1>1, <2>2
    <3> HIDE DEF id, n
    <3>2. \A i \in 1..n + 1 : OneColumn(Lines[i]) /\ ids'[i] = RemoveExtraAsciiWhitespace(Lines[i])
      <4>1. \A i \in 1..n + 1 : i = n + 1 \/ i \in 1..n
        BY <3>1
      <4>2. \A i \in 1..n : OneColumn(Lines[i]) /\ ids'[i] = RemoveExtraAsciiWhitespace(Lines[i])
        BY <2>4, <3>1 DEF IdsAreLines, n
      <4>3. QED
        BY <2>3, <2>4, <4>1, <4>2, Zenon
    <3>3. n + 1 <= Len(Lines)
      BY <2>3, <3>1
    <3>4. QED
      BY <2>4, <3>1, <3>2, <3>3, Zenon DEF IdsAreLines
  <2>6. PICK old \in Seq(Char) : Taken(old)
    BY <1>1, <2>2
  <2>7. Read' = Read
    BY <1>1, <2>1, <2>2, <2>4 DEF Read
  <2>8. Taken(old)'
    BY <1>1, <2>1, <2>2, <2>6, <2>7 DEF Taken
  <2>9. QED
    BY <2>2, <2>5, <2>8
<1>6. ASSUME UNCHANGED vars
      PROVE  Ready /\ ids' = ids /\ Len(delivered') - Len(delivered) = Read' - Read
  <2>1. UNCHANGED <<at, ids, kind, blob, text, intact, delivered, regularBefore>>
    BY <1>6 DEF vars, history, parserVars
  <2>2. Ready
    BY <2>1
  <2>3. QED
    BY <1>1, <2>1, <2>2 DEF Read
<1>7. ~(FetchFails \/ AddChunk \/ ChunkRefused \/ AddingChunk \/ ChunkAdded \/ ReadFails
        \/ StopAtBadRow \/ StopAtNoRow \/ \E b \in Blobs : Fetch(b))
  BY DEF FetchFails, AddChunk, ChunkRefused, AddingChunk, ChunkAdded, ReadFails,
         StopAtBadRow, StopAtNoRow, Fetch, Return
<1>8. QED
  <2> HIDE DEF Ready
  <2>1. QED
    BY <1>1, <1>2, <1>3, <1>4, <1>5, <1>6, <1>7 DEF Next, Work

LEMMA NextIdsInv ==
  ASSUME IInv, [Next]_vars
  PROVE  IdsInv'
<1> SUFFICES ASSUME regularBefore', Fetched'
             PROVE  ids' = GoodIds(blob)'
  BY DEF IdsInv
<1>1. at' = "idle" /\ fetchResult' = "Success"
  BY DEF Fetched
<1>2. ids \in Seq(Seq(Char))
  BY DEF IInv, TypeOK
<1>3. ASSUME StopAtBadRow \/ StopAtNoRow
      PROVE  ids' = GoodIds(blob)'
  <2>1. UNCHANGED <<kind, blob, ids, regularBefore>> /\ at \in {"rows", "built"}
    BY <1>3 DEF StopAtBadRow, StopAtNoRow, history
  <2>2. IdsAreLines
    BY <2>1 DEF IInv, RowInv
  <2>3. Len(Lines) \in Nat
    BY <2>1, GivenType DEF IInv, CallInv, TypeOK, Lines
  <2>4. Len(ids) = Len(Lines) \/ ~OneColumn(Lines[Len(ids) + 1])
    BY <1>3, <2>1, BuiltLine, AllLinesTaken DEF StopAtBadRow, StopAtNoRow
  <2>5. ids = GoodIds(blob)
    BY <1>2, <2>2, <2>3, <2>4, TheseAreGood
  <2>6. QED
    BY <2>1, <2>5, SameWellFormed
<1>4. ASSUME UNCHANGED vars
      PROVE  ids' = GoodIds(blob)'
  <2>1. UNCHANGED <<kind, blob, ids, regularBefore, at, fetchResult>>
    BY <1>4 DEF vars, history
  <2>2. ids = GoodIds(blob)
    BY <1>1, <2>1 DEF IInv, IdsInv, Fetched
  <2>3. QED
    BY <2>1, <2>2, SameWellFormed
<1>5. ~(FetchFails \/ ChunkRefused \/ ChunkAdded \/ ReadFails)
  BY <1>1 DEF FetchFails, ChunkRefused, ChunkAdded, ReadFails, Return
<1>6. ~(AddChunk \/ AddingChunk \/ AllAdded \/ GetRow \/ AddId \/ \E b \in Blobs : Fetch(b))
  BY <1>1 DEF AddChunk, AddingChunk, AllAdded, GetRow, AddId, Fetch
<1>7. QED
  BY <1>3, <1>4, <1>5, <1>6 DEF Next, Work

LEMMA NextIInv == IInv /\ [Next]_vars => IInv'
<1> SUFFICES ASSUME IInv, [Next]_vars
             PROVE  IInv'
  OBVIOUS
<1>1. ParserInv' /\ LinesInv' /\ ParserTypeOK'
  BY NextFetcherParser DEF ParserInv
<1>2. QED
  BY <1>1, NextTypeOK, NextCallInv, NextCleanInv, NextAddInv, NextRowInv, NextIdsInv
  DEF IInv

--------------------------------------------------------------------------------
\* In every reachable state the parser is where the phase of the call says, and
\* while every earlier list was regular, so are the IDs of this one.
THEOREM Invariance == Spec => []IInv
<1>1. Init => IInv
  BY InitIInv
<1>2. IInv /\ [Next]_vars => IInv'
  BY NextIInv
<1>3. QED
  BY <1>1, <1>2, PTL DEF Spec

\* The fetcher's variables keep their types, for every set of lists: the parser
\* works only inside AddCsvChunk, and a row is built only when one was delivered.
THEOREM TypeCorrect == Spec => []TypeOK
<1>1. IInv => TypeOK
  BY DEF IInv
<1>2. QED
  BY <1>1, Invariance, PTL

\* While every earlier list was well-formed and taken whole, FetchPublisherIds
\* returns exactly the IDs of its own list, up to the first row that is not one
\* column, and after a well-formed list the parser is as empty as before.
THEOREM FetchesGoodRows == Spec => []GoodRowsAreFetched
<1>1. IInv => GoodRowsAreFetched
  <2> SUFFICES ASSUME IInv, regularBefore, Fetched
               PROVE  /\ ids = GoodIds(blob)
                      /\ regular => /\ rows = <<>> /\ cursor = Len(text) + 1
                                    /\ buffered_data_size = 0
    BY DEF GoodRowsAreFetched
  <2>1. ids = GoodIds(blob)
    BY DEF IInv, IdsInv
  <2>2. regular => Clean
    BY DEF IInv, CleanInv, Fetched
  <2>3. QED
    BY <2>1, <2>2, NothingQueued DEF IInv
<1>2. QED
  BY <1>1, Invariance, PTL

--------------------------------------------------------------------------------
\* An ID that is a column of a list: neither a delimiter nor a line break is in it,
\* and there is nothing to trim.
IsColumn(id) ==
  /\ LineBreak \notin ToSet(id) /\ Delimiter \notin ToSet(id)
  /\ RemoveExtraAsciiWhitespace(id) = id
IdsAreColumns == \A i \in 1..Len(ids) : IsColumn(ids[i])

ColumnsInv == DeliveredInv /\ IdsAreColumns

LEMMA NextColumnsInv ==
  ASSUME IInv, ColumnsInv, [Next]_vars
  PROVE  ColumnsInv'
<1>1. DeliveredInv'
  <2>1. toAdd \in Seq(Chunk)
    BY DEF IInv, CallInv
  <2>2. QED
    BY <2>1, FetcherStepsParser, NextDeliveredInv DEF IInv, ColumnsInv
<1>2. CASE AddId
  <2> DEFINE line == Last(delivered)
             id   == GetColumn(line, 0)
  <2>1. /\ ids \in Seq(Seq(Char)) /\ delivered \in Seq(Seq(Char)) /\ delivered # <<>>
        /\ ids' = Append(ids, id) /\ BuildSucceeds(line, 1)
    BY <1>2 DEF AddId, IInv, TypeOK, ParserTypeOK
  <2>2. line \in Seq(Char) /\ LineBreak \notin ToSet(line)
    <3>1. Len(delivered) \in 1..Len(delivered)
      BY <2>1, EmptySeq, LenProperties
    <3>2. QED
      BY <2>1, <3>1, ElementOfSeq DEF ColumnsInv, DeliveredInv, Last
  <2> HIDE DEF line
  <2>3. /\ id = RemoveExtraAsciiWhitespace(line)
        /\ Delimiter \notin ToSet(line)
    BY <2>1, <2>2, OneColumnRow, BuildsOneColumn, ParserAssumption, FetcherAssumption
  <2>4. IsColumn(id) /\ id \in Seq(Char)
    <3>1. /\ RemoveExtraAsciiWhitespace(id) = id /\ ToSet(id) \subseteq ToSet(line)
          /\ id \in Seq(Char)
      BY <2>2, <2>3, TrimmedOnce, TrimmedType
    <3> HIDE DEF id
    <3>2. QED
      BY <2>2, <2>3, <3>1 DEF IsColumn
  <2> HIDE DEF id
  <2>5. /\ Len(ids') = Len(ids) + 1 /\ Len(ids) \in Nat
        /\ \A i \in 1..Len(ids) : ids'[i] = ids[i]
        /\ ids'[Len(ids) + 1] = id
    <3> DEFINE Line == Seq(Char)
    <3>1. ids \in Seq(Line) /\ id \in Line
      BY <2>1, <2>4
    <3> HIDE DEF Line
    <3>2. QED
      BY <2>1, <3>1, AppendProperties, LenProperties
  <2>6. \A i \in 1..Len(ids) + 1 : i \in 1..Len(ids) \/ i = Len(ids) + 1
    BY <2>5
  <2>7. IdsAreColumns'
    BY <2>4, <2>5, <2>6 DEF ColumnsInv, IdsAreColumns, IsColumn
  <2>8. QED
    BY <1>1, <2>7 DEF ColumnsInv
<1>3. CASE ~AddId
  <2>1. ids' = ids \/ ids' = <<>>
    BY <1>3 DEF Next, Work, vars, FetchFails, Fetch, AddChunk, ChunkRefused, AddingChunk,
       ChunkAdded, ReadFails, AllAdded, GetRow, StopAtBadRow, StopAtNoRow
  <2>2. IdsAreColumns'
    BY <2>1, EmptySeq DEF ColumnsInv, IdsAreColumns, IsColumn
  <2>3. QED
    BY <1>1, <2>2 DEF ColumnsInv
<1>4. QED
  BY <1>2, <1>3

\* Whatever an earlier call has left in the parser, every ID FetchPublisherIds
\* returns is a column of its own: no delimiter, no line break, no blank that
\* reading it back would remove.  This is what the generator takes for granted of
\* the IDs it writes into its mapping (GeneratorAssumption).
THEOREM FetchedIdsAreColumns == Spec => []IdsAreColumns
<1>1. Init => ColumnsInv
  BY EmptySeq DEF Init, ParserInit, ColumnsInv, DeliveredInv, IdsAreColumns
<1>2. IInv /\ ColumnsInv /\ [Next]_vars => ColumnsInv'
  BY NextColumnsInv
<1>3. ColumnsInv => IdsAreColumns
  BY DEF ColumnsInv
<1>4. QED
  BY <1>1, <1>2, <1>3, Invariance, PTL DEF Spec


\* Every call of a fetcher, of the first or of a later list, is a use of the one
\* parser that CsvStreamParser allows; so what is proved about the parser holds
\* across calls: lines in order, a counter that does not leak from call to call.
THEOREM CallsHaveTheParsersPromise ==
  Spec => /\ ImplementsLineStream
          /\ [](BufferedWithinLimit /\ BufferedIsExact /\ NeverUnderflows)
<1>1. Init => ParserInit
  BY DEF Init
<1>2. IInv /\ [Next]_vars => [ParserNext]_parserVars
  BY FetcherStepsParser DEF IInv, CallInv
<1>3. Spec => ParserSpec
  BY <1>1, <1>2, Invariance, PTL DEF Spec, ParserSpec
<1>4. QED
  BY <1>3, ParserImplementsLineStream, CounterStaysWithinLimit, CounterIsExact,
     SubtractionNeverWraps, PTL
================================================================================
