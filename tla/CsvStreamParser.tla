---------------------------- MODULE CsvStreamParser ----------------------------
(****************************************************************************)
(* src/cc/common/csv_parser/src/csv_stream_parser.cc: the buffer between    *)
(* the thread that downloads a CSV file and the thread that reads its rows. *)
(* One producer thread calls AddCsvChunk and one consumer thread calls      *)
(* HasRow and GetNextRow, with no lock: they share the concurrent queue     *)
(* rows_ and the atomic counter buffered_data_size_ and nothing else, so    *)
(* every access to one of the two is a step of its own here.                *)
(* The parser's users (MatchWorker, PublisherListFetcher) extend this       *)
(* module, so its specification goes by names of its own: ParserInit, ...   *)
(*                                                                          *)
(* The characters that went in are kept in the history variable text.  A    *)
(* row in rows_ is represented by where it lies in text: text[from..to-1]   *)
(* is the row, text[to] its line break, so row.size() + 1 = to - from + 1.  *)
(* rolling_data_ (between calls) and the unread end of current_data (inside *)
(* a call) are text[cursor..Len(text)].                                     *)
(****************************************************************************)
EXTENDS CsvRow

CONSTANTS
  Char,                 \* the alphabet of the file
  Chunk,                \* the chunks the producer may add
  MaxBufferedDataSize,  \* config_.GetMaxBufferedDataSize()
  QueueCapacity,        \* kCsvStreamParserConcurrentQueueCapacity
  TextBound,            \* bound of the model: characters accepted in all
  NoRow                 \* the consumer holds no row

ASSUME ParserAssumption ==
  /\ LineBreak \in Char
  /\ Chunk \subseteq Seq(Char)
  /\ MaxBufferedDataSize \in Nat
  /\ QueueCapacity \in Nat
  /\ TextBound \in Nat
  /\ NoRow \notin [from : Nat, to : Nat]

VARIABLES
  text,                \* history: the characters of all accepted chunks
  cursor,              \* where the first incomplete row starts in text
  rows,                \* rows_: the concurrent queue of complete rows
  buffered_data_size,  \* the atomic counter
  producer,            \* where AddCsvChunk is: "idle", "reserve", "scan"
  chunk,               \* the argument of the latest call of AddCsvChunk
  addResult,           \* what the latest finished AddCsvChunk returned
  taken,               \* the row GetNextRow has dequeued and not yet returned
  consumed,            \* history: end in text of the last row returned
  delivered,           \* history: the rows GetNextRow has returned
  intact               \* history: no TryEnqueue has failed

parserVars == <<text, cursor, rows, buffered_data_size, producer, chunk, addResult,
          taken, consumed, delivered, intact>>
producerOnly == <<text, cursor, producer, chunk, addResult, intact>>
consumerOnly == <<taken, consumed, delivered>>

Row == [from : Nat, to : Nat]

\* Mutations: the line break is not given back; one byte too many is.
RowBytesWithoutBreak(r) == r.to - r.from
RowBytesTooMany(r) == r.to - r.from + 2

\* row.size() + 1, the bytes a row gives back when it is dequeued.
RowBytes(r) == r.to - r.from + 1

\* The next row getline finds in current_data ends at position to.
NextRowEndsAt(to) ==
  /\ to \in cursor .. Len(text)
  /\ text[to] = LineBreak
  /\ \A p \in cursor .. to - 1 : text[p] # LineBreak

ParserInit ==
  /\ text = <<>>
  /\ cursor = 1
  /\ rows = <<>>
  /\ buffered_data_size = 0
  /\ producer = "idle"
  /\ chunk = <<>>
  /\ addResult = "none"
  /\ taken = NoRow
  /\ consumed = 0
  /\ delivered = <<>>
  /\ intact = TRUE

(****************************************************************************)
(* The producer: AddCsvChunk.                                               *)
(****************************************************************************)

\* Mutation: the check forgets what is buffered already.
FitsUnbuffered(c) == Len(c) <= MaxBufferedDataSize

\* The capacity check, an atomic load of the counter.
Fits(c) == Len(c) + buffered_data_size <= MaxBufferedDataSize

RefuseChunk(c) ==
  /\ producer = "idle"
  /\ ~Fits(c)
  /\ chunk' = c
  /\ addResult' = "Retry"
  /\ UNCHANGED <<text, cursor, rows, buffered_data_size, producer, intact>>
  /\ UNCHANGED consumerOnly

BeginChunk(c) ==
  /\ producer = "idle"
  /\ Fits(c)
  /\ Len(text) + Len(c) <= TextBound
  /\ producer' = "reserve"
  /\ chunk' = c
  /\ UNCHANGED <<text, cursor, rows, buffered_data_size, addResult, intact>>
  /\ UNCHANGED consumerOnly

\* buffered_data_size_ += chunk.size(), then current_data takes over
\* rolling_data_ and the chunk: thread-local, so one step with the addition.
ReserveChunk ==
  /\ producer = "reserve"
  /\ buffered_data_size' = buffered_data_size + Len(chunk)
  /\ text' = text \o chunk
  /\ producer' = "scan"
  /\ UNCHANGED <<cursor, rows, chunk, addResult, intact>>
  /\ UNCHANGED consumerOnly

EnqueueRow ==
  /\ producer = "scan"
  /\ Len(rows) < QueueCapacity
  /\ \E to \in cursor .. Len(text) :
       /\ NextRowEndsAt(to)
       /\ rows' = Append(rows, [from |-> cursor, to |-> to])
       /\ cursor' = to + 1
  /\ UNCHANGED <<text, buffered_data_size, producer, chunk, addResult, intact>>
  /\ UNCHANGED consumerOnly

\* TryEnqueue fails: AddCsvChunk returns at once.  rolling_data_ has been
\* moved out and current_data dies with the call, so all the text from cursor
\* on is gone, while the counter keeps the bytes.
EnqueueFails ==
  /\ producer = "scan"
  /\ Len(rows) >= QueueCapacity
  /\ \E to \in cursor .. Len(text) : NextRowEndsAt(to)
  /\ cursor' = Len(text) + 1
  /\ producer' = "idle"
  /\ addResult' = "Failure"
  /\ intact' = FALSE
  /\ UNCHANGED <<text, rows, buffered_data_size, chunk>>
  /\ UNCHANGED consumerOnly

\* Mutation: the rest is not put back into rolling_data_.
KeepNothing ==
  /\ producer = "scan"
  /\ \A to \in cursor .. Len(text) : ~NextRowEndsAt(to)
  /\ cursor' = Len(text) + 1
  /\ producer' = "idle"
  /\ addResult' = "Success"
  /\ UNCHANGED <<text, rows, buffered_data_size, chunk, intact>>
  /\ UNCHANGED consumerOnly

\* Mutation: one row is looked for where the code loops.
KeepRestAtOnce ==
  /\ producer = "scan"
  /\ producer' = "idle"
  /\ addResult' = "Success"
  /\ UNCHANGED <<text, cursor, rows, buffered_data_size, chunk, intact>>
  /\ UNCHANGED consumerOnly

\* No full row is left: the rest goes back to rolling_data_.
KeepRest ==
  /\ producer = "scan"
  /\ \A to \in cursor .. Len(text) : ~NextRowEndsAt(to)
  /\ producer' = "idle"
  /\ addResult' = "Success"
  /\ UNCHANGED <<text, cursor, rows, buffered_data_size, chunk, intact>>
  /\ UNCHANGED consumerOnly

(****************************************************************************)
(* The consumer: HasRow and GetNextRow.  Nobody else dequeues, so the Size  *)
(* check of HasRow still holds at TryDequeue and the two are one step.      *)
(****************************************************************************)

TakeRow ==
  /\ taken = NoRow
  /\ rows # <<>>
  /\ taken' = Head(rows)
  /\ rows' = Tail(rows)
  /\ UNCHANGED <<buffered_data_size, consumed, delivered>>
  /\ UNCHANGED producerOnly

\* buffered_data_size_ -= row.size() + 1, and the row goes to CsvRow::Build.
ReturnRow ==
  /\ taken # NoRow
  /\ buffered_data_size' = buffered_data_size - RowBytes(taken)
  /\ delivered' = Append(delivered, SubSeq(text, taken.from, taken.to - 1))
  /\ consumed' = taken.to
  /\ taken' = NoRow
  /\ UNCHANGED rows
  /\ UNCHANGED producerOnly

FinishAddCsvChunk == ReserveChunk \/ EnqueueRow \/ EnqueueFails \/ KeepRest
GetNextRow == TakeRow \/ ReturnRow

ParserNext ==
  \/ \E c \in Chunk : RefuseChunk(c) \/ BeginChunk(c)
  \/ FinishAddCsvChunk
  \/ GetNextRow

\* A call of AddCsvChunk that has begun runs to its end, and the consumer
\* polls HasRow in a loop (match_worker.cc:182-184): both threads are
\* scheduled.  Nobody has to add another chunk.
ParserFairness == WF_parserVars(FinishAddCsvChunk) /\ WF_parserVars(GetNextRow)

ParserSpec == ParserInit /\ [][ParserNext]_parserVars
FairParserSpec == ParserSpec /\ ParserFairness

--------------------------------------------------------------------------------
ParserTypeOK ==
  /\ text \in Seq(Char)
  /\ cursor \in Nat \ {0}
  /\ rows \in Seq(Row)
  /\ buffered_data_size \in Nat
  /\ producer \in {"idle", "reserve", "scan"}
  /\ chunk \in Seq(Char)
  /\ addResult \in {"none", "Success", "Retry", "Failure"}
  /\ taken \in Row \cup {NoRow}
  /\ consumed \in Nat
  /\ delivered \in Seq(Seq(Char))
  /\ intact \in BOOLEAN

\* The limit is really an upper limit: the load of the check and the addition
\* are two steps, but only the consumer can come between them, and it only
\* makes room (csv_stream_parser.cc:53-58).
BufferedWithinLimit == buffered_data_size <= MaxBufferedDataSize

\* The "best effort accumulator" (csv_stream_parser.h:66) is exact: while no
\* TryEnqueue has failed it counts precisely the characters that went in and
\* have not come out, whatever the two threads are in the middle of; after a
\* failure it still never counts less, so the subtraction cannot wrap.
BufferedIsExact ==
  /\ intact => buffered_data_size = Len(text) - consumed
  /\ buffered_data_size >= Len(text) - consumed

\* The subtraction of GetNextRow never takes the unsigned counter below zero.
NeverUnderflows == taken # NoRow => RowBytes(taken) <= buffered_data_size

\* The parser delivers the lines of the text, in order, none twice and none
\* missing: it implements LineStream.
Abstract == INSTANCE LineStream WITH input <- text, lines <- delivered
ImplementsLineStream == Abstract!LSpec

\* Every line break that was accepted gets its row out, even when no further
\* chunk ever comes (unless the flow failed at a full queue).
LinesAreDelivered ==
  \A p \in 1 .. TextBound :
    p <= Len(text) /\ text[p] = LineBreak ~> consumed >= p \/ ~intact

Refused(c) == addResult = "Retry" /\ chunk = c

\* A refused chunk finds room again once the consumer has drained the queue,
\* unless the incomplete row itself fills the buffer: no bytes leak.
RefusedChunkFindsRoom ==
  \A c \in Chunk :
    Refused(c) ~> \/ Fits(c)
                  \/ Len(text) - cursor + 1 + Len(c) > MaxBufferedDataSize
                  \/ ~intact
================================================================================
