------------------------ MODULE CsvStreamParser_proofs ------------------------
(****************************************************************************)
(* Proofs about CsvStreamParser, for every alphabet, every set of chunks,   *)
(* every limit and every capacity of the queue.  The properties rest on one *)
(* inductive invariant, ParserInv: the row the consumer holds and the rows  *)
(* in the queue are whole lines that follow one another in the text without *)
(* a gap (as long as no TryEnqueue has failed) and never overlap, and the   *)
(* incomplete row starts right behind them.  The counter can then be        *)
(* compared with positions in the text, and no sum over the queue is        *)
(* needed.                                                                  *)
(*                                                                          *)
(* For the parser's users two more invariants of its steps follow: LinesInv,*)
(* what has been delivered is what CompleteLines makes of the text up to    *)
(* there (by the lemmas of CsvRow_proofs), and DeliveredInv.                *)
(****************************************************************************)
EXTENDS CsvStreamParser, CsvRow_proofs

\* r is a line of the text, with its line break.
Complete(r) ==
  /\ r.from <= r.to
  /\ r.to <= Len(text)
  /\ text[r.to] = LineBreak
  /\ \A p \in r.from .. r.to - 1 : text[p] # LineBreak

\* Where the text ends that has left the queue.
Frontier == IF taken = NoRow THEN consumed ELSE taken.to

\* Where row i of the queue starts if nothing was lost before it.
Start(i) == IF i = 1 THEN Frontier + 1 ELSE rows[i - 1].to + 1

TakenInv ==
  taken # NoRow =>
    /\ Complete(taken)
    /\ consumed < taken.from
    /\ intact => taken.from = consumed + 1

RowsInv ==
  \A i \in 1 .. Len(rows) :
    /\ Complete(rows[i])
    /\ Start(i) <= rows[i].from
    /\ intact => rows[i].from = Start(i)

CursorInv ==
  /\ consumed <= Len(text)
  /\ cursor <= Len(text) + 1
  /\ Start(Len(rows) + 1) <= cursor
  /\ intact => cursor = Start(Len(rows) + 1)

CounterInv ==
  /\ BufferedIsExact
  /\ BufferedWithinLimit
  /\ producer = "reserve" =>
       /\ chunk \in Chunk
       /\ buffered_data_size + Len(chunk) <= MaxBufferedDataSize

ParserInv == ParserTypeOK /\ TakenInv /\ RowsInv /\ CursorInv /\ CounterInv

LEMMA StartIsPosition ==
  ASSUME ParserTypeOK, NEW i \in 1 .. Len(rows) + 1
  PROVE  Start(i) \in Nat /\ Start(i) >= 1
<1>1. Frontier \in Nat
  BY DEF Frontier, ParserTypeOK, Row
<1>2. CASE i = 1
  BY <1>1, <1>2 DEF Start
<1>3. CASE i # 1
  <2>1. i - 1 \in 1 .. Len(rows)
    BY <1>3 DEF ParserTypeOK
  <2>2. rows[i - 1] \in Row
    BY <2>1 DEF ParserTypeOK
  <2> QED
    BY <1>3, <2>2 DEF Start, Row
<1> QED
  BY <1>2, <1>3

LEMMA InitParserInv == ParserInit => ParserInv
BY ParserAssumption
DEF ParserInit, ParserInv, ParserTypeOK, TakenInv, RowsInv, CursorInv, CounterInv, Start,
    Frontier, Row, BufferedIsExact, BufferedWithinLimit

LEMMA RefuseChunkStep ==
  ASSUME ParserInv, NEW c \in Chunk, RefuseChunk(c)
  PROVE  ParserInv'
BY ParserAssumption
DEF RefuseChunk, consumerOnly, ParserInv, ParserTypeOK, TakenInv, RowsInv, CursorInv,
    CounterInv, Start, Frontier, Row, Complete, BufferedIsExact,
    BufferedWithinLimit

LEMMA BeginChunkStep ==
  ASSUME ParserInv, NEW c \in Chunk, BeginChunk(c)
  PROVE  ParserInv'
BY ParserAssumption
DEF BeginChunk, Fits, consumerOnly, ParserInv, ParserTypeOK, TakenInv, RowsInv, CursorInv,
    CounterInv, Start, Frontier, Row, Complete, BufferedIsExact,
    BufferedWithinLimit

\* The text only grows at its end: what was a line stays one.
LEMMA GrowingText ==
  ASSUME ParserTypeOK, NEW c \in Seq(Char), text' = text \o c
  PROVE  /\ text' \in Seq(Char)
         /\ Len(text') = Len(text) + Len(c)
         /\ \A p \in 1 .. Len(text) : text'[p] = text[p]
<1>1. text \in Seq(Char)
  BY DEF ParserTypeOK
<1> QED
  BY <1>1, ConcatProperties

LEMMA ReserveChunkStep ==
  ASSUME ParserInv, ReserveChunk
  PROVE  ParserInv'
<1> USE DEF ParserInv
<1>1. /\ producer = "reserve" /\ chunk \in Seq(Char) /\ Len(chunk) \in Nat
      /\ Len(text) \in Nat /\ cursor \in Nat /\ cursor >= 1
      /\ text' = text \o chunk
      /\ UNCHANGED <<cursor, rows, chunk, taken, consumed, delivered, intact>>
  BY DEF ReserveChunk, consumerOnly, ParserTypeOK
<1>2. /\ text' \in Seq(Char)
      /\ Len(text') = Len(text) + Len(chunk)
      /\ \A p \in 1 .. Len(text) : text'[p] = text[p]
  BY <1>1, GrowingText
<1>3. ASSUME NEW r \in Row, r.from >= 1, Complete(r)
      PROVE  Complete(r)'
  <2>1. r.to \in 1 .. Len(text)
    BY <1>3, <1>1 DEF Row, Complete
  <2>2. \A p \in r.from .. r.to - 1 : p \in 1 .. Len(text)
    BY <1>3, <1>1 DEF Row, Complete
  <2> QED
    BY <1>3, <1>1, <1>2, <2>1, <2>2 DEF Row, Complete
<1>4. ParserTypeOK'
  BY <1>1, <1>2 DEF ReserveChunk, ParserTypeOK
<1>5. TakenInv'
  BY <1>1, <1>3 DEF TakenInv, ParserTypeOK, Row
<1>6. RowsInv'
  <2> SUFFICES ASSUME NEW i \in 1 .. Len(rows)
               PROVE  /\ Complete(rows[i])'
                      /\ Start(i) <= rows[i].from
                      /\ intact => rows[i].from = Start(i)
    BY <1>1 DEF RowsInv, Start, Frontier
  <2>1. rows[i] \in Row /\ Start(i) <= rows[i].from /\ Complete(rows[i])
    BY DEF RowsInv, ParserTypeOK
  <2>2. Start(i) \in Nat /\ Start(i) >= 1
    BY StartIsPosition DEF ParserTypeOK
  <2>3. rows[i].from >= 1
    BY <2>1, <2>2 DEF Row
  <2>4. Complete(rows[i])'
    BY <2>1, <2>3, <1>1, <1>3
  <2> QED
    BY <2>1, <2>4 DEF RowsInv
<1>7. CursorInv'
  BY <1>1, <1>2 DEF CursorInv, Start, Frontier, ParserTypeOK
<1>8. CounterInv'
  BY <1>1, <1>2, <1>4
  DEF ReserveChunk, CounterInv, BufferedIsExact, BufferedWithinLimit, ParserTypeOK
<1> QED
  BY <1>4, <1>5, <1>6, <1>7, <1>8

\* A row found by getline is a line of the text.
LEMMA NextRowIsComplete ==
  ASSUME ParserTypeOK, NEW to \in cursor .. Len(text), NextRowEndsAt(to)
  PROVE  /\ [from |-> cursor, to |-> to] \in Row
         /\ Complete([from |-> cursor, to |-> to])
BY DEF ParserTypeOK, NextRowEndsAt, Complete, Row

LEMMA EnqueueRowStep ==
  ASSUME ParserInv, EnqueueRow
  PROVE  ParserInv'
<1> USE DEF ParserInv
<1>1. PICK to \in cursor .. Len(text) :
        /\ NextRowEndsAt(to)
        /\ rows' = Append(rows, [from |-> cursor, to |-> to])
        /\ cursor' = to + 1
  BY DEF EnqueueRow
<1> DEFINE r == [from |-> cursor, to |-> to]
<1>2. r \in Row /\ Complete(r)
  BY <1>1, NextRowIsComplete
<1>3. /\ UNCHANGED <<text, buffered_data_size, producer, chunk, addResult,
                     intact, taken, consumed, delivered>>
      /\ producer = "scan"
  BY DEF EnqueueRow, consumerOnly
<1>4. /\ rows \in Seq(Row) /\ rows' \in Seq(Row)
      /\ Len(rows) \in Nat
      /\ Len(rows') = Len(rows) + 1
      /\ rows'[Len(rows) + 1] = r
      /\ \A i \in 1 .. Len(rows) : rows'[i] = rows[i]
  BY <1>1, <1>2, AppendProperties DEF ParserTypeOK
<1>5. ParserTypeOK'
  BY <1>1, <1>3, <1>4 DEF ParserTypeOK
<1>6. TakenInv'
  BY <1>3 DEF TakenInv, Complete
<1>7. \A i \in 1 .. Len(rows) + 1 : Start(i)' = Start(i)
  BY <1>3, <1>4 DEF Start, Frontier
<1>8. RowsInv'
  <2> SUFFICES ASSUME NEW i \in 1 .. Len(rows')
               PROVE  /\ Complete(rows'[i])
                      /\ Start(i) <= rows'[i].from
                      /\ intact => rows'[i].from = Start(i)
    BY <1>3, <1>4, <1>7 DEF RowsInv, Complete
  <2>1. CASE i \in 1 .. Len(rows)
    BY <2>1, <1>4 DEF RowsInv
  <2>2. CASE i = Len(rows) + 1
    BY <2>2, <1>2, <1>4 DEF CursorInv
  <2> QED
    BY <2>1, <2>2, <1>4
<1>9. CursorInv'
  <2>1. Start(Len(rows) + 1)' = to + 1
    BY <1>4 DEF Start
  <2> QED
    BY <2>1, <1>1, <1>3, <1>4 DEF CursorInv, ParserTypeOK
<1>10. CounterInv'
  BY <1>3 DEF CounterInv, BufferedIsExact, BufferedWithinLimit
<1> QED
  BY <1>5, <1>6, <1>8, <1>9, <1>10

LEMMA EnqueueFailsStep ==
  ASSUME ParserInv, EnqueueFails
  PROVE  ParserInv'
<1> USE DEF ParserInv
<1>1. /\ UNCHANGED <<text, rows, buffered_data_size, chunk, taken, consumed,
                     delivered>>
      /\ cursor' = Len(text) + 1
      /\ producer' = "idle" /\ addResult' = "Failure" /\ intact' = FALSE
  BY DEF EnqueueFails, consumerOnly
<1>2. Start(Len(rows) + 1) <= Len(text) + 1
  <2>1. Len(rows) + 1 \in 1 .. Len(rows) + 1 /\ Len(text) \in Nat
    BY DEF ParserTypeOK
  <2>2. Start(Len(rows) + 1) \in Nat
    BY <2>1, StartIsPosition
  <2> QED
    BY <2>1, <2>2 DEF CursorInv, ParserTypeOK
<1>3. ParserTypeOK'
  <2>1. Len(text) + 1 \in Nat \ {0}
    BY DEF ParserTypeOK
  <2> QED
    BY <1>1, <2>1 DEF ParserTypeOK
<1>4. TakenInv' /\ RowsInv'
  BY <1>1 DEF TakenInv, RowsInv, Start, Frontier, Complete
<1>5. CursorInv'
  BY <1>1, <1>2 DEF CursorInv, Start, Frontier, ParserTypeOK
<1>6. CounterInv'
  BY <1>1 DEF CounterInv, BufferedIsExact, BufferedWithinLimit
<1> QED
  BY <1>3, <1>4, <1>5, <1>6

LEMMA KeepRestStep ==
  ASSUME ParserInv, KeepRest
  PROVE  ParserInv'
BY DEF KeepRest, consumerOnly, ParserInv, ParserTypeOK, TakenInv, RowsInv, CursorInv,
       CounterInv, Start, Frontier, Complete, BufferedIsExact,
       BufferedWithinLimit

LEMMA TakeRowStep ==
  ASSUME ParserInv, TakeRow
  PROVE  ParserInv'
<1> USE DEF ParserInv
<1>1. /\ taken = NoRow /\ rows # <<>> /\ rows \in Seq(Row)
      /\ taken' = Head(rows) /\ rows' = Tail(rows)
      /\ UNCHANGED <<text, cursor, buffered_data_size, producer, chunk,
                     addResult, consumed, delivered, intact>>
  BY DEF TakeRow, producerOnly, ParserTypeOK
<1>2. /\ Len(rows) \in Nat /\ Len(rows) >= 1
      /\ Head(rows) = rows[1] /\ rows[1] \in Row
      /\ Tail(rows) \in Seq(Row)
      /\ Len(Tail(rows)) = Len(rows) - 1
      /\ \A i \in 1 .. Len(rows) - 1 : Tail(rows)[i] = rows[i + 1]
  BY <1>1, HeadTailProperties, EmptySeq
<1>3. taken' # NoRow /\ taken' = rows[1]
  BY <1>1, <1>2, ParserAssumption DEF Row
<1>4. \A i \in 1 .. Len(rows) : Start(i)' = Start(i + 1)
  BY <1>1, <1>2, <1>3 DEF Start, Frontier
<1>5. ParserTypeOK'
  BY <1>1, <1>2 DEF ParserTypeOK
<1>6. TakenInv'
  <2>1. Complete(rows[1]) /\ consumed + 1 <= rows[1].from
        /\ (intact => rows[1].from = consumed + 1)
    BY <1>1, <1>2 DEF RowsInv, Start, Frontier
  <2> QED
    BY <2>1, <1>1, <1>2, <1>3 DEF TakenInv, ParserTypeOK, Row, Complete
<1>7. RowsInv'
  <2> SUFFICES ASSUME NEW i \in 1 .. Len(rows) - 1
               PROVE  /\ Complete(rows[i + 1])
                      /\ Start(i + 1) <= rows[i + 1].from
                      /\ intact => rows[i + 1].from = Start(i + 1)
    BY <1>1, <1>2, <1>4 DEF RowsInv, Complete
  <2> QED
    BY <1>2 DEF RowsInv
<1>8. CursorInv'
  BY <1>1, <1>2, <1>4 DEF CursorInv
<1>9. CounterInv'
  BY <1>1 DEF CounterInv, BufferedIsExact, BufferedWithinLimit
<1> QED
  BY <1>5, <1>6, <1>7, <1>8, <1>9

\* The subtraction of GetNextRow leaves exactly what is behind the row.
LEMMA ReturnRowAccounts ==
  ASSUME ParserInv, taken # NoRow
  PROVE  /\ taken \in Row
         /\ RowBytes(taken) \in Nat
         /\ RowBytes(taken) <= Len(text) - consumed
         /\ buffered_data_size - RowBytes(taken) >= Len(text) - taken.to
         /\ intact => buffered_data_size - RowBytes(taken) = Len(text) - taken.to
<1>1. /\ taken \in Row /\ consumed \in Nat /\ Len(text) \in Nat
      /\ buffered_data_size \in Nat
  BY DEF ParserInv, ParserTypeOK
<1>2. /\ taken.from \in Nat /\ taken.to \in Nat
      /\ taken.from <= taken.to /\ taken.to <= Len(text)
      /\ consumed < taken.from
      /\ intact => taken.from = consumed + 1
  BY <1>1 DEF ParserInv, TakenInv, Complete, Row
<1>3. /\ buffered_data_size >= Len(text) - consumed
      /\ intact => buffered_data_size = Len(text) - consumed
  BY DEF ParserInv, CounterInv, BufferedIsExact
<1>4. RowBytes(taken) = taken.to - taken.from + 1
  BY DEF RowBytes
<1>5. RowBytes(taken) \in Nat /\ RowBytes(taken) <= Len(text) - consumed
  BY <1>1, <1>2, <1>4
<1>6. buffered_data_size - RowBytes(taken) >= Len(text) - taken.to
  BY <1>1, <1>2, <1>3, <1>4
<1>7. intact => buffered_data_size - RowBytes(taken) = Len(text) - taken.to
  BY <1>1, <1>2, <1>3, <1>4
<1> QED
  BY <1>1, <1>5, <1>6, <1>7

LEMMA ReturnRowStep ==
  ASSUME ParserInv, ReturnRow
  PROVE  ParserInv'
<1> USE DEF ParserInv
<1>1. /\ taken # NoRow /\ taken' = NoRow /\ consumed' = taken.to
      /\ buffered_data_size' = buffered_data_size - RowBytes(taken)
      /\ delivered' = Append(delivered, SubSeq(text, taken.from, taken.to - 1))
      /\ UNCHANGED <<text, cursor, rows, producer, chunk, addResult, intact>>
  BY DEF ReturnRow, producerOnly
<1>2. /\ taken \in Row /\ Complete(taken) /\ consumed < taken.from
      /\ Len(text) \in Nat /\ text \in Seq(Char) /\ consumed \in Nat
      /\ buffered_data_size \in Nat
  BY <1>1 DEF ParserTypeOK, TakenInv
<1>3. SubSeq(text, taken.from, taken.to - 1) \in Seq(Char)
  <2>1. \A p \in taken.from .. taken.to - 1 : text[p] \in Char
    BY <1>2 DEF Row, Complete
  <2> QED
    BY <2>1, <1>2, SubSeqProperties DEF Row
<1>4. /\ buffered_data_size' \in Int
      /\ buffered_data_size' >= Len(text) - taken.to
      /\ intact => buffered_data_size' = Len(text) - taken.to
      /\ buffered_data_size' <= buffered_data_size
  BY <1>1, <1>2, ReturnRowAccounts DEF ParserInv
<1>5. ParserTypeOK'
  <2>1. buffered_data_size' \in Nat
    BY <1>2, <1>4 DEF Complete, Row
  <2>2. delivered' \in Seq(Seq(Char))
    BY <1>1, <1>3, AppendProperties DEF ParserTypeOK
  <2>3. consumed' \in Nat
    BY <1>1, <1>2 DEF Row
  <2> QED
    BY <1>1, <2>1, <2>2, <2>3 DEF ParserTypeOK
<1>6. Frontier' = Frontier
  BY <1>1 DEF Frontier
<1>7. TakenInv'
  BY <1>1 DEF TakenInv
<1>8. RowsInv'
  BY <1>1, <1>6 DEF RowsInv, Start, Complete
<1>9. CursorInv'
  BY <1>1, <1>2, <1>6 DEF CursorInv, Start, Complete
<1>10. CounterInv'
  <2>1. BufferedIsExact'
    BY <1>1, <1>4 DEF BufferedIsExact
  <2>2. BufferedWithinLimit'
    BY <1>2, <1>4, ParserAssumption DEF CounterInv, BufferedWithinLimit
  <2>3. (producer = "reserve" =>
           /\ chunk \in Chunk
           /\ buffered_data_size + Len(chunk) <= MaxBufferedDataSize)'
    BY <1>1, <1>2, <1>4, ParserAssumption DEF CounterInv, ParserTypeOK
  <2> QED
    BY <2>1, <2>2, <2>3 DEF CounterInv
<1> QED
  BY <1>5, <1>7, <1>8, <1>9, <1>10

LEMMA NextParserInv == ParserInv /\ [ParserNext]_parserVars => ParserInv'
<1> SUFFICES ASSUME ParserInv, [ParserNext]_parserVars
             PROVE  ParserInv'
  OBVIOUS
<1>1. CASE \E c \in Chunk : RefuseChunk(c) \/ BeginChunk(c)
  BY <1>1, RefuseChunkStep, BeginChunkStep
<1>2. CASE FinishAddCsvChunk
  BY <1>2, ReserveChunkStep, EnqueueRowStep, EnqueueFailsStep, KeepRestStep
  DEF FinishAddCsvChunk
<1>3. CASE GetNextRow
  BY <1>3, TakeRowStep, ReturnRowStep DEF GetNextRow
<1>4. CASE UNCHANGED parserVars
  BY <1>4
  DEF parserVars, ParserInv, ParserTypeOK, TakenInv, RowsInv, CursorInv, CounterInv, Start,
      Frontier, Complete, BufferedIsExact, BufferedWithinLimit
<1> QED
  BY <1>1, <1>2, <1>3, <1>4 DEF ParserNext

LEMMA ParserInvariance == ParserSpec => []ParserInv
BY InitParserInv, NextParserInv, PTL DEF ParserSpec

\* Every variable keeps its type: in particular the unsigned counter
\* buffered_data_size_ never goes below zero, however AddCsvChunk and
\* GetNextRow interleave.
THEOREM ParserTypeCorrect == ParserSpec => []ParserTypeOK
<1>1. ParserInv => ParserTypeOK
  BY DEF ParserInv
<1> QED
  BY <1>1, ParserInvariance, PTL

\* The counter is exact until a TryEnqueue fails, and never too low after it
\* (csv_stream_parser.cc:58, 121).
THEOREM CounterIsExact == ParserSpec => []BufferedIsExact
<1>1. ParserInv => BufferedIsExact
  BY DEF ParserInv, CounterInv
<1> QED
  BY <1>1, ParserInvariance, PTL

\* The parser never buffers more than config_.GetMaxBufferedDataSize(), though
\* the check and the reservation are two steps (csv_stream_parser.cc:53-58).
THEOREM CounterStaysWithinLimit == ParserSpec => []BufferedWithinLimit
<1>1. ParserInv => BufferedWithinLimit
  BY DEF ParserInv, CounterInv
<1> QED
  BY <1>1, ParserInvariance, PTL

\* What GetNextRow subtracts is always there to be subtracted.
THEOREM SubtractionNeverWraps == ParserSpec => []NeverUnderflows
<1>1. ParserInv => NeverUnderflows
  <2> SUFFICES ASSUME ParserInv, taken # NoRow
               PROVE  RowBytes(taken) <= buffered_data_size
    BY DEF NeverUnderflows
  <2> QED
    BY ReturnRowAccounts DEF ParserInv, ParserTypeOK, CounterInv, BufferedIsExact
<1> QED
  BY <1>1, ParserInvariance, PTL

\* Returning a row is delivering the next line.
LEMMA ReturnRowDelivers ==
  ASSUME ParserInv, ReturnRow
  PROVE  Abstract!Deliver
<1>1. /\ taken \in Row /\ Complete(taken) /\ consumed < taken.from
      /\ (intact => taken.from = consumed + 1)
      /\ consumed \in Nat /\ Len(text) \in Nat
  BY DEF ReturnRow, ParserInv, ParserTypeOK, TakenInv
<1>2. /\ taken.from \in consumed + 1 .. Len(text)
      /\ taken.to \in consumed + 1 .. Len(text)
      /\ taken.from <= taken.to
  BY <1>1 DEF Row, Complete
<1>3. Abstract!Closes(taken.from, taken.to)
  BY <1>1 DEF Abstract!Closes, Complete
<1> QED
  BY <1>1, <1>2, <1>3 DEF ReturnRow, producerOnly, Abstract!Deliver

\* The parser implements LineStream: the lines of the accepted text come out
\* whole, in order, none twice, and none missing until a TryEnqueue fails.
THEOREM ParserImplementsLineStream == ParserSpec => ImplementsLineStream
<1>1. ParserInit => Abstract!LInit
  BY DEF ParserInit, Abstract!LInit
<1>2. ParserInv /\ [ParserNext]_parserVars => [Abstract!LNext]_(Abstract!lvars)
  <2> SUFFICES ASSUME ParserInv, [ParserNext]_parserVars
               PROVE  Abstract!LNext \/ UNCHANGED Abstract!lvars
    OBVIOUS
  <2>1. CASE \E c \in Chunk : RefuseChunk(c) \/ BeginChunk(c)
    BY <2>1 DEF RefuseChunk, BeginChunk, consumerOnly, Abstract!lvars
  <2>2. CASE ReserveChunk
    <3>1. chunk \in Chunk
      BY <2>2 DEF ReserveChunk, ParserInv, CounterInv
    <3>2. Abstract!Accept(chunk)
      BY <2>2 DEF ReserveChunk, consumerOnly, Abstract!Accept
    <3> QED
      BY <3>1, <3>2 DEF Abstract!LNext
  <2>3. CASE EnqueueRow \/ KeepRest
    BY <2>3 DEF EnqueueRow, KeepRest, consumerOnly, Abstract!lvars
  <2>4. CASE EnqueueFails
    BY <2>4 DEF EnqueueFails, consumerOnly, Abstract!Break, Abstract!LNext
  <2>5. CASE TakeRow
    BY <2>5 DEF TakeRow, producerOnly, Abstract!lvars
  <2>6. CASE ReturnRow
    BY <2>6, ReturnRowDelivers DEF Abstract!LNext
  <2>7. CASE UNCHANGED parserVars
    BY <2>7 DEF parserVars, Abstract!lvars
  <2> QED
    BY <2>1, <2>2, <2>3, <2>4, <2>5, <2>6, <2>7
    DEF ParserNext, FinishAddCsvChunk, GetNextRow
<1> QED
  BY <1>1, <1>2, ParserInvariance, PTL DEF ParserSpec, ImplementsLineStream, Abstract!LSpec

--------------------------------------------------------------------------------
\* What GetNextRow has returned are the complete lines of the text up to there,
\* and no line break is left behind the rows in the queue.
LinesInv ==
  intact =>
    /\ delivered = CompleteLines(SubSeq(text, 1, consumed))
    /\ Rest(SubSeq(text, 1, consumed), LineBreak) = <<>>
    /\ producer # "scan" => \A p \in cursor..Len(text) : text[p] # LineBreak

\* If getline finds no further row, no line break is left.
LEMMA NoRowNoBreak ==
  ASSUME ParserTypeOK, \A to \in cursor..Len(text) : ~NextRowEndsAt(to)
  PROVE  \A p \in cursor..Len(text) : text[p] # LineBreak
<1> DEFINE n == Len(text) - cursor + 1
           T == {i \in Nat : \A p \in cursor..cursor + i - 1 : text[p] # LineBreak}
<1>1. cursor \in Nat /\ Len(text) \in Nat
  BY DEF ParserTypeOK
<1>2. CASE n \in Nat
  <2>1. 0 \in T
    BY <1>1
  <2>2. ASSUME NEW i \in 1..n, i - 1 \in T
        PROVE  i \in T
    <3>1. cursor + i - 1 \in cursor..Len(text)
      BY <1>1
    <3>2. \A p \in cursor..(cursor + i - 1) - 1 : text[p] # LineBreak
      BY <1>1, <2>2
    <3>3. text[cursor + i - 1] # LineBreak
      BY <3>1, <3>2 DEF NextRowEndsAt
    <3>4. \A p \in cursor..cursor + i - 1 :
            p = cursor + i - 1 \/ p \in cursor..(cursor + i - 1) - 1
      BY <1>1
    <3>5. QED
      BY <3>2, <3>3, <3>4
  <2>3. 0..n \subseteq T
    <3> HIDE DEF n, T
    <3>1. QED
      BY <1>2, <2>1, <2>2, IntervalInduction
  <2>4. n \in 0..n /\ cursor + n - 1 = Len(text)
    BY <1>1, <1>2
  <2>5. n \in T
    BY <2>3, <2>4, Zenon
  <2>6. QED
    BY <2>4, <2>5
<1>3. CASE n \notin Nat
  BY <1>1, <1>3
<1>4. QED
  BY <1>2, <1>3

LEMMA InitLinesInv == ParserInit => LinesInv
<1>1. SubSeq(<<>>, 1, 0) = <<>> /\ Len(<<>>) = 0
  BY EmptySeq, SubSeqEmpty
<1>2. SUFFICES ASSUME ParserInit
               PROVE  /\ delivered = CompleteLines(SubSeq(text, 1, consumed))
                      /\ Rest(SubSeq(text, 1, consumed), LineBreak) = <<>>
                      /\ \A p \in cursor..Len(text) : text[p] # LineBreak
  BY DEF LinesInv
<1>3. text = <<>> /\ cursor = 1 /\ consumed = 0 /\ delivered = <<>>
  BY <1>2 DEF ParserInit
<1>4. SubSeq(text, 1, consumed) = <<>>
  BY <1>1, <1>3, Zenon
<1>5. \A p \in cursor..Len(text) : text[p] # LineBreak
  BY <1>1, <1>3
<1>6. QED
  BY <1>3, <1>4, <1>5, NoTextNoLines, Zenon

LEMMA NextLinesInv ==
  ASSUME ParserInv, LinesInv, [ParserNext]_(parserVars)
  PROVE  LinesInv'
<1> DEFINE Kept == UNCHANGED <<text, consumed, delivered, intact>>
<1>0. /\ text \in Seq(Char) /\ consumed \in 0..Len(text) /\ Len(text) \in Nat
      /\ cursor \in Nat
  BY DEF ParserInv, ParserTypeOK, CursorInv
<1>1. ASSUME NEW c \in Chunk, RefuseChunk(c) \/ BeginChunk(c)
      PROVE  LinesInv'
  <2>1. Kept /\ cursor' = cursor /\ producer = "idle"
    BY <1>1 DEF RefuseChunk, BeginChunk, consumerOnly
  <2>2. QED
    BY <2>1 DEF LinesInv
<1>2. CASE ReserveChunk
  <2>1. /\ text' = text \o chunk /\ chunk \in Seq(Char) /\ producer' = "scan"
        /\ UNCHANGED <<consumed, delivered, intact>>
    BY <1>2 DEF ReserveChunk, consumerOnly, ParserInv, ParserTypeOK
  <2>2. SubSeq(text', 1, consumed) = SubSeq(text, 1, consumed)
    <3>1. SubSeq(text \o chunk, 1, consumed) = SubSeq(text, 1, consumed)
      BY <1>0, <2>1, SubSeqOfConcat1
    <3>2. QED
      BY <2>1, <3>1
  <2>3. QED
    BY <2>1, <2>2, Zenon DEF LinesInv
<1>3. CASE EnqueueRow
  <2>1. Kept /\ producer' = "scan"
    BY <1>3 DEF EnqueueRow, consumerOnly
  <2>2. QED
    BY <2>1 DEF LinesInv
<1>4. CASE EnqueueFails
  BY <1>4 DEF EnqueueFails, LinesInv
<1>5. CASE KeepRest
  <2>1. Kept /\ cursor' = cursor /\ \A p \in cursor..Len(text) : text[p] # LineBreak
    BY <1>5, NoRowNoBreak DEF KeepRest, consumerOnly, ParserInv
  <2>2. QED
    BY <2>1 DEF LinesInv
<1>6. CASE TakeRow
  BY <1>6 DEF TakeRow, producerOnly, LinesInv
<1>7. CASE ReturnRow
  <2>1. /\ taken # NoRow /\ consumed' = taken.to
        /\ delivered' = Append(delivered, SubSeq(text, taken.from, taken.to - 1))
        /\ UNCHANGED <<text, cursor, producer, intact>>
    BY <1>7 DEF ReturnRow, producerOnly
  <2> SUFFICES ASSUME intact
               PROVE  /\ delivered' = CompleteLines(SubSeq(text, 1, taken.to))
                      /\ Rest(SubSeq(text, 1, taken.to), LineBreak) = <<>>
    BY <2>1 DEF LinesInv
  <2>2. /\ taken \in Row /\ Complete(taken) /\ taken.from = consumed + 1
    BY <2>1 DEF ParserInv, ParserTypeOK, TakenInv
  <2>3. /\ taken.to \in consumed + 1..Len(text) /\ text[taken.to] = LineBreak
        /\ \A p \in consumed + 1..taken.to - 1 : text[p] # LineBreak
    BY <1>0, <2>2 DEF Row, Complete
  <2>4. Rest(SubSeq(text, 1, consumed), LineBreak) = <<>>
    BY DEF LinesInv
  <2> DEFINE to == taken.to
  <2>5. /\ CompleteLines(SubSeq(text, 1, to)) =
             Append(CompleteLines(SubSeq(text, 1, consumed)),
                    SubSeq(text, consumed + 1, to - 1))
        /\ Rest(SubSeq(text, 1, to), LineBreak) = <<>>
    <3> HIDE DEF to
    <3>1. /\ to \in consumed + 1..Len(text) /\ text[to] = LineBreak
          /\ \A p \in consumed + 1..to - 1 : text[p] # LineBreak
      BY <2>3 DEF to
    <3>2. QED
      BY <1>0, <2>4, <3>1, NextLine
  <2>6. delivered = CompleteLines(SubSeq(text, 1, consumed))
    BY DEF LinesInv
  <2>7. QED
    BY <2>1, <2>2, <2>5, <2>6, Zenon
<1>8. CASE UNCHANGED parserVars
  BY <1>8 DEF parserVars, LinesInv
<1>9. QED
  BY <1>1, <1>2, <1>3, <1>4, <1>5, <1>6, <1>7, <1>8
  DEF ParserNext, FinishAddCsvChunk, GetNextRow

\* When the queue is drained, every complete line of the text has come out.
LEMMA DrainedLines ==
  ASSUME ParserInv, LinesInv, intact, producer = "idle", rows = <<>>, taken = NoRow
  PROVE  delivered = CompleteLines(text)
<1>1. Len(rows) = 0 /\ cursor = consumed + 1
  BY EmptySeq DEF ParserInv, CursorInv, Start, Frontier
<1>2. text \in Seq(Char) /\ consumed \in 0..Len(text)
  BY DEF ParserInv, ParserTypeOK, CursorInv
<1>3. /\ \A p \in consumed + 1..Len(text) : text[p] # LineBreak
      /\ Rest(SubSeq(text, 1, consumed), LineBreak) = <<>>
      /\ delivered = CompleteLines(SubSeq(text, 1, consumed))
  BY <1>1 DEF LinesInv
<1>4. CompleteLines(text) = CompleteLines(SubSeq(text, 1, consumed))
  BY <1>2, <1>3, NoMoreLines
<1>5. QED
  BY <1>3, <1>4, Zenon

--------------------------------------------------------------------------------
\* A list of chunks as the text they make.
LEMMA FlattenTail ==
  ASSUME NEW s \in Seq(Chunk), s # <<>>
  PROVE  /\ Head(s) \in Seq(Char) /\ Tail(s) \in Seq(Chunk)
         /\ FlattenSeq(Tail(s)) \in Seq(Char)
         /\ FlattenSeq(s) = Head(s) \o FlattenSeq(Tail(s))
<1>1. Head(s) \in Chunk /\ Tail(s) \in Seq(Chunk)
  BY HeadTailProperties
<1>2. s \in Seq(Seq(Char)) /\ Tail(s) \in Seq(Seq(Char)) /\ Head(s) \in Seq(Char)
  BY <1>1, ParserAssumption, SeqMonotonic
<1>3. QED
  BY <1>1, <1>2, FlattenProperties

\* No row that comes out of the parser holds a line break, whatever was lost.
DeliveredInv == \A i \in 1..Len(delivered) : LineBreak \notin ToSet(delivered[i])

LEMMA NextDeliveredInv ==
  ASSUME ParserInv, DeliveredInv, [ParserNext]_(parserVars)
  PROVE  DeliveredInv'
<1>1. CASE ReturnRow
  <2> DEFINE from == taken.from
             to   == taken.to - 1
             line == SubSeq(text, from, to)
  <2>1. taken # NoRow /\ delivered' = Append(delivered, line)
    BY <1>1 DEF ReturnRow
  <2>2. /\ delivered \in Seq(Seq(Char)) /\ text \in Seq(Char)
        /\ from \in Int /\ to \in Int /\ to = to - 1 + 1
        /\ \A p \in from..to : text[p] \in Char /\ text[p] # LineBreak
    <3>1. taken \in Row /\ Complete(taken)
      BY <2>1 DEF ParserInv, ParserTypeOK, TakenInv
    <3>2. /\ taken.from \in Nat /\ taken.to \in Nat /\ taken.to <= Len(text)
          /\ \A p \in taken.from..taken.to - 1 : text[p] # LineBreak
      BY <3>1 DEF Row, Complete
    <3>3. text \in Seq(Char) /\ delivered \in Seq(Seq(Char)) /\ taken.from > 0
      BY <2>1, <3>1 DEF ParserInv, ParserTypeOK, TakenInv, CursorInv, Row
    <3>4. \A p \in taken.from..taken.to - 1 : p \in 1..Len(text)
      BY <3>2, <3>3, LenProperties
    <3>5. \A p \in taken.from..taken.to - 1 : text[p] \in Char
      BY <3>3, <3>4, ElementOfSeq
    <3>6. QED
      BY <3>2, <3>3, <3>5
  <2> HIDE DEF from, to
  <2> DEFINE Good == {c \in Char : c # LineBreak}
  <2>3. \A p \in from..to : text[p] \in Good
    BY <2>2
  <2>4. line \in Seq(Char) /\ line \in Seq(Good)
    <3> HIDE DEF Good
    <3>1. QED
      BY <2>2, <2>3, SubSeqProperties
  <2>5. LineBreak \notin ToSet(line)
    <3> HIDE DEF line
    <3>1. \A i \in DOMAIN line : line[i] \in Good
      <4> HIDE DEF Good
      <4>1. QED
        BY <2>4, ElementOfSeq, LenProperties
    <3>2. QED
      BY <3>1 DEF ToSet
  <2>6. /\ Len(delivered') = Len(delivered) + 1 /\ Len(delivered) \in Nat
        /\ \A i \in 1..Len(delivered) : delivered'[i] = delivered[i]
        /\ delivered'[Len(delivered) + 1] = line
    <3> DEFINE Line == Seq(Char)
    <3>1. delivered \in Seq(Line) /\ line \in Line
      BY <2>2, <2>4
    <3> HIDE DEF line, Line
    <3>2. QED
      BY <2>1, <3>1, AppendProperties, LenProperties
  <2> HIDE DEF line
  <2>7. \A i \in 1..Len(delivered) + 1 : i \in 1..Len(delivered) \/ i = Len(delivered) + 1
    BY <2>6
  <2>8. QED
    BY <2>5, <2>6, <2>7 DEF DeliveredInv
<1>2. CASE ~ReturnRow
  <2>1. delivered' = delivered
    BY <1>2 DEF ParserNext, parserVars, FinishAddCsvChunk, GetNextRow,
       RefuseChunk, BeginChunk, ReserveChunk, EnqueueRow,
       EnqueueFails, KeepRest, TakeRow, consumerOnly,
       producerOnly
  <2>2. QED
    BY <2>1 DEF DeliveredInv
<1>3. QED
  BY <1>1, <1>2
================================================================================
