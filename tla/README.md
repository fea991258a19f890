# A verification of the PAIR worker

This directory holds TLA+ specifications of the worker in `src/cc`: the
program that turns a publisher's list of IDs into a list of encrypted IDs, and
matches an advertiser's list against it. The modules are model-checked with TLC
and partly proved with TLAPS. Every definition is a translation of the C++
source; `PROJECT.json` maps each one to its lines.

## 1. The system

One worker process runs `main()` of `worker_runner.cc`. It takes jobs from a
queue shared by all workers and runs one at a time:

* **generate**: `Generator::GeneratePublisherList` fetches the publisher's IDs
  (`GcsPublisherListFetcher`, which parses the blob with `CsvStreamParser`),
  gives each a random UUID (`RandomIdEncryptor`, on the CPU executor) and
  uploads the mapping (`GcsPublisherMappingUploader`).
* **match**: `MatchWorker::ExportMatches` loads that mapping into a
  `MatchTableHashMap`, streams the advertiser's list (`BlobStreamer` ->
  callback -> `CsvStreamParser`), looks every row up and streams the encrypted
  IDs of the matches into a new blob (`BlobStreamer` again).

### Inventory

| Component | State | Operations | Hard behaviour | What makes it correct |
|---|---|---|---|---|
| CSV stream parser (`common/csv_parser`) | row queue, rest of the last chunk, atomic byte counter | `AddCsvChunk`, `HasRow`, `GetNextRow` | two threads without a lock; rows cut by chunks; a full buffer; a full queue | rows out = lines in, in order, once; the counter is exact and within the limit |
| CSV row | none | `Build`, `GetColumn` | empty rows, trailing delimiter, blanks | a row is accepted iff it has the right number of columns |
| Blob streamer, download | streaming context, result, `is_done`, `stop_` | `GetBlobStream`, `Stop` | client, reading task and `Stop` interleave; the end is seen through three variables | every chunk in order, then the result once; the end is always reported |
| Blob streamer, upload | streaming context, result, `is_done` | `PutBlobStream` and the function it returns | bounded context, client fails at any time, the function spins | success = all data stored; otherwise no blob; every call returns |
| Match table | hash map, matched flags, a mutex | `AddElement`, `MarkMatched`, `VisitMatched` | (each operation is atomic) | first value of a key wins |
| Match worker | match table; locals shared with the callback | `ExportMatches` | the callback runs on another thread; upload to settle on every path | success = exactly the matches uploaded |
| ID encryptor | pair queue, used UUIDs, two flags, two contexts | `Encrypt`, `StreamEncryptedIds`, two rescheduling tasks | drain / look at the mark / drain again; bounded queue; `Schedule` may fail | each ID once, each UUID once; ready again after a success |
| Publisher list generator | `pushing_thread_`, locals shared with three threads | `GeneratePublisherList` | four threads, references to locals, joins | complete mapping, which a match job reads back; nothing left running |
| Publisher list fetcher (GCS and local) | one parser for all calls | `FetchPublisherIds` | state left by one job meets the next; a file is added in pieces | a list's IDs, all and only |
| Mapping uploader | none | `UploadIdMapping` | the upload may fail | |
| Worker runner | ten clients; the job in hand | startup, job loop, `StopAllClients` | failures at every step, redelivery, crashes, one job's output read by another | true reports; matches resolve; every job settles; ordered shutdown |
| Email tool (`experimental/random_emails_generator.cc`) | a file and its mutex; the lines picked | modes 1, 2 and 3 | threads share one stream; sampling without repetition; `gcloud` behind a pipe | a complete file; a sample of distinct lines |
| Generation tool (`experimental/generator_main.cc`) | its own executors and clients | `Generate` | a failure at any step of startup or shutdown | success only with a mapping and all stopped |
| Attestation helper, build and Terraform files | none | | | not modelled |

`PROJECT.json` lists each hard spot with its line under "hazards", and the
property that covers it.

The storage client, the job helper, the queue, the executors and the machine
are outside `src/`. They are modelled from how the code calls them and how the
tests play them, and marked external.

## 2. Modules

```
 WorkerRunner ----------- WorkerStartup
   (outcomes of jobs, and which mapping they wrote or read)
 MatchWorker -------+---- PublisherMapping ---- CsvRow, MatchTable
   |                +---- CsvStreamParser ---> implements LineStream
   |                +---- OrderedDelivery <--- implemented by GetBlobStream --+
   |                +---- Upload <------------ implemented by PutBlobStream --+
   |                                                       BlobStreamer ------+
 PublisherListGenerator - RandomIdEncryptor, PublisherMapping
 PublisherListFetcher --- CsvStreamParser, CsvRow
 GeneratorMain ---------- RandomEmailsGenerator - PublisherMapping
```

* **`CsvStreamParser`** keeps the text that went in as a history variable; a
  row in the queue is where it lies in that text, so its bytes and its line
  break are exact without strings. `AddCsvChunk` is `BeginChunk` (the capacity
  check, a load), `ReserveChunk` (the addition), `EnqueueRow` per row,
  `EnqueueFails` and `KeepRest`; `GetNextRow` is `TakeRow` and `ReturnRow` (the
  subtraction). `text[cursor..]` is `rolling_data_` between calls. Its
  specification is `ParserSpec` (`ParserInit`, `ParserNext`): `MatchWorker` and
  `PublisherListFetcher` extend the module, take its steps as parts of theirs and
  name their own specification `Spec`.
* **`LineStream`** is the parser's promise (`csv_stream_parser_interface.h`):
  chunks in, complete lines out, until a call fails completely.
* **`CsvRow`**: `Build` on texts: the `getline` loop at the delimiter, the blank
  written behind a last delimiter, the trimming, the count of columns.
* **`PublisherMapping`**: the mapping's text as `generator.h` writes it and the
  table `match_worker.cc` parses from it, next to each other.
* **`GetBlobStream`**: caller, client, reading task and `Stop`. Each access to
  the streaming context, to `*result` and to `*is_done` is a step.
  **`OrderedDelivery`** is its promise (`get_blob_stream_context.h:25-35`); a
  call that returned a failure never calls back, though the client it started
  streams on.
* **`PutBlobStream`**: `PutBlobStreamFunctor`'s four branches with their spins,
  against a client that takes requests, fails at will and may lag.
  **`Upload`** is its promise (`blob_streamer_interface.h:28-36`).
* **`BlobStreamer`** puts the two together: a behaviour is one of the two
  operations. They share the storage client, which keeps streams apart, and
  `stop_`, which uploads do not read, so they need not be interleaved.
* **`MatchWorker`** composes the detailed parser with `MatchTable` and the two
  promises, so that an export is checked over the parser's real interleavings
  but not over the streamer's (those are covered by the two refinements).
* **`RandomIdEncryptor`** and **`PublisherListGenerator`**: the tasks' steps,
  and a sequence of calls with all four threads. `broken` records what C++
  leaves undefined (a callback touching a dead frame) or ends the process
  (assigning over a joinable thread); nothing happens after it.
* **`PublisherListFetcher`**: a sequence of calls on one fetcher, of either
  kind, over the parser's own steps, on one thread. The two differ in what they
  give the parser (`ChunksOf`) and in how they fail (`ReadFails`).
* **`WorkerStartup`** holds the order of startup and of `StopAllClients` and
  who points to whom; **`WorkerRunner`** is the loop of several workers over
  one queue. A job's work has the outcomes the other modules show: success,
  failure, or the end of the process. A match job reads the mapping in one step
  and stores its list in a later one; `mapping` and `matches` say which
  generation is in the blobs.
* **`RandomEmailsGenerator`** is the tool of a demonstration: mode 1 with its
  threads and the file's mutex, then a run of mode 2 or 3. **`GeneratorMain`**
  adds `generator_main.cc`, run on the list of mode 2, with
  `GeneratePublisherList` as one step.
* The `MC...` modules give constants their values for TLC.
* The `..._proofs` modules hold the theorems (section 4): one for each of
  `CsvStreamParser`, `BlobStreamer`, `MatchWorker`, `PublisherListGenerator`,
  `PublisherListFetcher`, `WorkerRunner` and `GeneratorMain`. **`CsvRow_proofs`**
  holds the lemmas about texts, rows and mappings that the others share.

The operators that follow a `MUTANT` or "mutation" comment are altered forms of
the definition after them. No specification uses them; they show that a
property notices the error they contain.

## 3. Runs

| Run | Bounds | Shows |
|---|---|---|
| `parser` | one ordinary character and the line break; every chunk of at most 2 characters; limit 4, queue 2, 6 characters in all | limit, exact counter, refinement of `LineStream`, lines are delivered, a refused chunk finds room |
| `blob_streamer` | 2 chunks; download: 3 responses; upload: 3 pushes, context of 2 | refinement of `OrderedDelivery` and of `Upload`, the end of a download is reported, `Stop` frees the thread, no blob after a failed push, every spin ends |
| `match_worker` | lists of up to 2 chunks of up to 2 characters and longer ones from 3 chunks; 4 mappings (one with a repeated key, one with a short row, one unterminated); limit 3, queue 1 | uploads settled, function not misused, result read only when final, a success uploads the matches of all rows that were parsed, only an error inside the loop leaves a callback with dead locals, every export ends |
| `generator` | lists of 0, 2 and 3 IDs (one ID twice, one empty, one with a blank), 2 calls, queue of 1 | complete mapping, unique UUIDs, the mapping's text reads back (or, with an ID twice in the list, cannot be parsed at all), ready after success, nothing broken unless something was refused, calls end |
| `fetcher` | both fetchers; 9 blobs, well-formed and not; 4 calls, limit 7, queue 2 | a call returns its own rows up to the first bad one, and leaves the parser clean |
| `worker_runner` | 2 workers, 2 jobs (a generation and a match, or an unknown type and garbage), 2 deliveries, 1 fault | true reports, stored matches resolve against the stored mapping, or the one that was there before the jobs, as long as no delivery of the generation was cut off, readable jobs are reported, all jobs settle, shutdown order |
| `demo_tools` | 3 emails, 2 threads, 3 emails asked for | the file is complete, both ways to a mapping map a sample of the size asked for, nothing is left running after a success, runs end |
| `keeps_error`, `all_matches`, `export_returns`, `busy`, `fetched_ids` | as the run of the same module | disagreements, see section 6 |

Why the bounds are enough: a chunk of two characters puts the line break at
each place relative to a chunk's boundaries, and three chunks make a row span
one completely; limits and queues are small enough to be hit in every
interleaving, and large enough for a second element to be there when the first
is refused. Two calls of the generator, and four of the fetcher, are one more
than it takes for what a call leaves behind to meet the next one. A queue of
one pair and a list of three IDs makes an enqueue fail and the next succeed.
Two workers and two deliveries let a lease run out under a worker that then
reports after the other has taken the job; one fault is enough to cut off
either delivery at any place (a lease may run out without one). Two threads and
three emails make the division leave one over and the threads overlap at each
character; fewer emails than threads take the code's branch of one thread; a
file of fewer lines than are asked for is among the samples.

Every run with deadlock checking off may stop: a stream, an export or the
bounded number of calls comes to its end. The worker loop polls for ever, so
`worker_runner` keeps the check.

### Fairness

* Parser: weak fairness of finishing an `AddCsvChunk` that was begun and of
  `GetNextRow`: a thread inside a call keeps running, and the match worker's
  loop keeps polling. Nobody is assumed to add another chunk.
* `GetBlobStream`: weak fairness of the reading task and of the client's
  callback once it has ended the stream. The client is *not* assumed to go on
  sending or to end; `EndIsReported` begins when it has ended the stream and the
  task is scheduled, in whichever order: the clients of `blob_streamer_test.cc` end
  it before `GetBlobStream` gets to `Schedule`.
* `PutBlobStream`: the thread inside the function, and a client that ends an
  upload which was marked done or cancelled. It need not succeed.
* `MatchWorker`: both threads. `ChunkArrives` and `StreamEnds` belong to the
  callback's thread: the download is taken to end, which `EndIsReported` gives
  when the client ends it.
* `GeneratorMain`: the threads of either process go on. A drawing that finds new
  indices ends with probability one, and is one step per new index.
* `PublisherListGenerator`: four threads of an executor with 16
  (`worker_runner.cc:276`); a task that was scheduled gets run.
* `WorkerRunner`: each `main()` keeps running, the instance restarts its
  program, a lease that is not given back runs out. Faults are bounded, so a
  helper that fails for ever is excluded.

## 4. What is proved

Every safety property of a passing run is also a theorem, for every value of the
constants. Each proof has the same
shape: the named parts of an inductive invariant, one step per action, the
properties as its consequences. The strengthenings were model-checked on the
runs' instances before they were proved; where one says that there is some text
(`AddInv` and `RowInv` of the fetcher), TLC was given the prefixes of `text` to look at.

### The parser

`CsvStreamParser_proofs`, for every alphabet, set of chunks, limit, queue
capacity and text length, from `ParserAssumption` (the limit and the capacity
are natural numbers, chunks are sequences of characters, the line break is a
character):

* `ParserTypeCorrect`: `ParserSpec => []ParserTypeOK`
* `CounterStaysWithinLimit`: `ParserSpec => []BufferedWithinLimit`
* `CounterIsExact`: `ParserSpec => []BufferedIsExact`
* `SubtractionNeverWraps`: the subtraction of `GetNextRow` never takes more
  than the counter holds (the counter is unsigned)
* `ParserImplementsLineStream`: every step is one of `LineStream`, or none

None of these is inductive. The inductive invariant `ParserInv` adds where
everything lies in the text: `RowsInv` (the queued rows are complete lines,
follow one another without a gap from `consumed` to `cursor`, and hold no
line break inside), `TakenInv` (so is the row just dequeued, whose bytes are still
counted), `CursorInv` (what lies from `cursor` on belongs to no row yet) and
`CounterInv` (the
two properties themselves, and that a chunk which has passed the check and is
not added yet still fits). The limit follows since
the consumer only ever lowers the counter between the check and the addition.
The refinement follows from `RowsInv`: the row that is returned starts exactly
at `consumed`.

### Its users, and the texts they write and read

`CsvRow_proofs` says what the recursive definitions compute for every text: that
the lines of a longer text are those of the shorter one and what follows
(`CompleteLines`), what chunks concatenate to, that trimming trims and does so
once (`TrimmedOnce`), that a text of two proper columns builds a row of exactly
these (`BuildsTwoColumns`). This is induction over data, which the library states
with an operator as a parameter. `NatSetInduction` is the same principle about a
*set* of numbers, derived from `WFMin`; recursive functions are compared with it
place by place. `PairsReadBack` is what this comes to for a mapping: the text made
of any pairs of writable keys and values parses to the table that has each pair, or
to no table exactly when a key occurs twice.

The users extend `CsvStreamParser`, so its lemmas are about their parser too. Each
shows that its own steps are steps of `ParserNext` or leave the parser alone, and
has `ParserInv` and the parser's promise from that. `CsvStreamParser_proofs` adds
`LinesInv` for them: what has been delivered is what `CompleteLines` makes of the
text up to `consumed`, at any moment of a concurrent run.

`MatchWorker_proofs`, from `ParserAssumption` and `MatchWorkerAssumption` (lists
consist of chunks, mappings of characters, the blank is a character, and the second
column of a mapping's row is an encrypted ID):

* `TypeCorrect`: `Spec => []TypeOK`
* `UsesTheParser`: the two threads of an export use the parser as
  `CsvStreamParser` lets a producer and a consumer use it
* `ExportHasTheParsersPromise`: hence the parser implements `LineStream`, with an
  exact counter and within its limit, in every export
* `UsesTheUpload`: an export uses the function of `PutBlobStream` as `Upload` asks
* `UploadsAreClosed`: `Spec => []NoUploadLeftOpen`
* `FunctorIsNotMisused`: `Spec => []FunctorNotMisused`
* `StreamIsSettled`: `Spec => []StreamSettledBeforeUse`
* `DanglesOnlyThen`: `Spec => []DanglesOnlyAfterEarlyReturn`
* `SuccessIsExact`: `Spec => []SuccessExportsTheMatches`

`SuccessIsExact` is the main one: whatever the list, the mapping, the chunks, the
limits and the schedule. When `main` completes the upload, `ControlInv` says that
the stream has ended and the queue is empty, `FlowInv` that the text is the whole
list, `LinesInv` that all of its complete lines came out, and `MatchInv` that
those were looked up. None of the four can be spared, and none holds by itself:
the `LinesInv` of a moment needs to know where the rows in the queue lie, and
`MatchInv` has to say what is uploaded *so far*.

`PublisherListFetcher_proofs`, from `ParserAssumption` and `FetcherAssumption`
(the blank is a character, the delimiter is a character of its own, the blobs are texts, the pieces the
fetchers cut them into are among the chunks):

* `TypeCorrect`: `Spec => []TypeOK`
* `FetchesGoodRows`: `Spec => []GoodRowsAreFetched`
* `FetchedIdsAreColumns`: every ID a call returns, whatever earlier calls have
  left in the parser, is a column without delimiter and line break that trimming
  leaves alone
* `CallsHaveTheParsersPromise`: the parser keeps its promise over any number of
  calls on one fetcher

The fetcher's difficulty is the parser it keeps from call to call. `CleanInv` says
that it is empty after regular lists only; `AddInv` and `RowInv` carry that
through the phases of the next call, counting what goes in and comes out from
where the call began. `FetchedIdsAreColumns` is what the generator's assumption
takes for granted of IDs, which is why no run repeats it.

`PublisherListGenerator_proofs`, from `GeneratorAssumption` (the bounds are natural
numbers, lists are sequences of IDs, an ID is a column as above, the text of a UUID
has neither delimiter, line break nor blank, `Unset` is no result and `NoTable` no
table):

* `TypeCorrect`: `Spec => []TypeOK`
* `MappingsAreComplete`: `Spec => []MappingIsComplete`
* `UuidsStayUnique`: `Spec => []UuidsAreUnique`
* `MappingsReadBack`: `Spec => []MappingReadsBack`
* `SuccessLeavesNothing`: `Spec => []ReadyAfterSuccess`
* `BreaksOnlyAfterRefusal`: `Spec => []BreaksOnlyWhenRefused`

`FlowInv` has every ID of the list in exactly one place on its way from `toPush`
through the context, the queue and the responses to `encrypted_pairs`; `UuidInv`
has every UUID in one place at most, and in `used_ids`. Both need `ControlInv`
(which thread can still act, and what each may conclude from the flags) and
`CleanInv` (what a call that is over has left). `RefusedInv` says what is
different once something was refused, and `BreaksOnlyWhenRefused` is its
consequence. `MappingsReadBack` puts together the two programs that never meet:
the pairs the generator uploads are writable (their IDs are columns, their UUIDs
have no separator in them), so `PairsReadBack` says what the match worker parses
from the text made of them.

### The streamer

`BlobStreamer_proofs`, from `BlobStreamerAssumption` (bounds are natural numbers,
`Pending` is no result, `NoBlob` no sequence of data):

* `TypeCorrect`: `Spec => []TypeOK`
* `FailedPushLeavesNoBlob`: `Spec => []NoBlobAfterFailedPush`
* `DownloadDeliversInOrder`: the download implements `OrderedDelivery`
* `UploadKeepsItsPromise`: the upload implements `Upload`

`DownloadInv` says where every chunk is (`sent = received \o responses`) and what
the task may conclude from having seen the mark and then an empty queue;
`UploadInv` that the one call which ends an upload marks or cancels it, never
both, and how far the client has got. The refinements follow step by step.

### The worker

`WorkerRunner_proofs`, for every set of workers and of jobs, all bodies, every
retry limit and number of faults, from `RunnerAssumption` (`None` is no worker,
job or number, the retry limit is a positive and the bound of the faults a
natural number, bodies are functions to the four kinds):

* `TypeCorrect`: `Spec => []TypeOK`
* `StopsInOrder`: `Spec => []DependentsStopFirst`
* `ExitIsClean`: `Spec => []ExitLeavesOnlyTheBlobClient`
* `ReportsAreTrue`: `Spec => []SuccessIsStored`
* `MatchesStayResolvable`: `Spec => []MatchesResolve`
* `NothingReadableGivenUp`: `Spec => []GivenUpOnlyIfCutOff`

The inductive invariant `IInv` adds what a single state does not show.
`StartupInv` ties the place in `StopOrder` to what is running and stopped: what
lies before it is not running, what is stopped lies before it. `ReportInv` says
that a worker about to report a success has stored its job. `DeliveryInv` is an
account of deliveries: the cut-off ones, and the one still in the hands of its
worker, are all there have been as long as a readable job is pending, so that
`RetryLimit` deliveries of a job nobody holds are `RetryLimit` cut-offs.
`LeaseInv` says that a job never cut off is leased to whoever works on it; from
it `MappingInv` gets that a lone generation job stores its mapping once, and
that what a match job has fetched meanwhile is that mapping or the one before.

### The demonstration tools

`GeneratorMain_proofs`, for any number of threads, any emails and any number of
lines asked for, from `EmailsAssumption` (there is a thread, no separator is in an
email or a UUID, `NoThread` is no thread, `NoTable` no table):

* `TypeCorrect`: `Spec => []TypeOK`
* `FileIsComplete`: `Spec => []EmailFileIsComplete`
* `MappingsMapTheSample`: `Spec => []MappingMapsTheSample`

`FileIsComplete` is about a file whose size is known only when the last thread has
ended. `FileInv` says it of every moment: the file, with what the holder of
`file_mutex` has still to write, is a text of whole lines, each an email, and they
are as many as the threads that have had the mutex were given - the quotient for
each, and the remainder too if the last thread is among them. It needs `ThreadInv`
(a thread that waits has all of its lines, and only the holder of the mutex writes).
For the mappings, `SampleInv` has the picked indices distinct and, after a success,
as many as were asked for; `ToolInv` has which components are up, that a success
means they are down again, and that the tool's mapping is one of the list that is
stored. `MappingsMapTheSample` follows with `PairsReadBack`, since different lines
are different keys.

### Model-checked only

* Liveness under fairness, which TLAPS cannot prove: `LinesAreDelivered`,
  `RefusedChunkFindsRoom`, `EndIsReported`, `StopFreesTheThread`,
  `EveryCallReturns`, `ExportEnds`, `CallEnds`, `JobsSettle`, `RunsEnd`. The
  refinements above are of the safety part of the promises.
* That `MatchWorker` over the two promises behaves as over the detailed streamer:
  `UsesTheUpload` and the refinements are the two halves; no theorem joins them.

## 5. Not modelled

* Contents: names of buckets and blobs, attestation data (the attestation
  helper fills in one message), the digits of UUIDs, the encoding of requests
  as protocol buffers.
* A local file longer than the parser's default limit of 1024 bytes
  (`csv_stream_parser_config.h:25`) appears as a refused piece.
* In the tools: the wording of usage messages; integers wider than `int`
  (`num_emails / num_threads` is a `long` put into an `int`); what follows
  `lines[0]` of an empty vector, which the model leaves in `undefined`; a write
  that fails in the middle of a file that could be opened (nobody looks at the
  stream's state, so the rest is missing and "Succeeded" is printed).
* More than one job at a time in one process: `main()` has one thread.
* In `GetBlobStream`, `Schedule` failing after the client's stream was started
  leaves a context nobody reads; what the client then does is not in `src/`.
* `HasRow` is a read of the queue's size and appears as a guard.

## 6. Where code and text disagree

Each has a run that shows it:

1. `match_worker.cc:165-168`: the comment says an error in `get_stream_result`
   is not overwritten; the condition overwrites exactly the errors
   (`keeps_error`).
2. `match_worker.cc:192`: with no match the empty `add_chunk_functor` is
   called, and the process ends (`export_returns`). `WorkerRunner` carries on
   from there: the job comes back, ends the next process too, and is given up
   after the retry limit; the other jobs still settle.
3. `match_worker.h:64-65` promises all matches; a last row without a line break
   is not among them (`all_matches`).
4. ID encryptor, `error_codes.h:27-30`: after a refused `Schedule` it answers
   for ever that an encryption is in progress (`busy`).
5. `publisher_list_fetcher.h:37-38`: the IDs returned may be of an earlier list
   (`fetched_ids`).

Seen while modelling, without a run:

* `csv_stream_parser_interface.h:42-43` speaks of an operation that "can be
  retried"; when one incomplete row fills the buffer, every retry is refused
  and nothing a consumer does makes room.
* `random_id_encryptor.cc:74` does not return after a failed enqueue: the
  result may be overwritten by a success and the context finished twice,
  although `generator.h:170-171` has the flag raised once. In the generator's
  model this is what `BreaksOnlyWhenRefused` excludes as long as nothing is
  refused.
* `worker_runner.cc:356` hides the global `blob_storage_client`, so
  `StopAllClients` never stops it: the exception in
  `ExitLeavesOnlyTheBlobClient`. `ShutdownCpio` comes after the executors it was
  given are stopped: the exception in `DependentsStopFirst`.
* `pair_job_data.proto` says of `publisher_mapping_blob_path` "Only used for
  matching"; a generation job writes to that path (`worker_runner.cc:437`). It
  writes into the bucket named by the metadata blob, while a match job reads
  from `publisher_input_bucket`.
* A generation job that is delivered twice replaces the mapping by one with
  other random IDs; matches exported in between no longer resolve. That is the
  condition in `MatchesResolve`.
* A publisher's list that names an ID twice is generated successfully, and
  every match job on the mapping fails (`match_worker.cc:91`): the condition in
  `MappingReadsBack`.
* `local_publisher_list_fetcher.cc:61` drops the commas of its file, so a line
  `a,b`, which the GCS fetcher refuses, becomes the ID `ab`; and a file that is
  longer than 1024 bytes fails and leaves its beginning to the next call.
* `random_emails_generator.cc`: `fwrite(...) < 0` is never true and the exit code
  in `pclose`'s result is not looked at, so "Succeeded" is printed whatever
  `gcloud` stored (lines 108-117, 148-157), as it is when the file of mode 1 could
  not be opened (line 52); with fewer lines than are asked for the drawing of lines
  91-93 never ends; `sizeof(kAllowedChars)` counts the final NUL, which can be
  drawn (line 43).

## 7. Plan

Modelled in the order of importance; what is left:

1. `MatchWorker` over the detailed streamer for very small lists, so that `Stop`
   meets an export.
2. `RandomIdEncryptor` against an abstract one (a bijection from IDs to fresh
   UUIDs), as the promise the generator needs.
3. Proofs: the refinement of 2.
