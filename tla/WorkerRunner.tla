---------------------------- MODULE WorkerRunner ----------------------------
(***************************************************************************)
(* The worker's main(): startup, the job loop and the exit of a failed     *)
(* startup, for several worker processes that take jobs from one queue.    *)
(* The JobLifecycleHelper and the queue behind it are external and known   *)
(* here by how the loop uses them: a job is leased to the worker that      *)
(* receives it, comes back when the lease runs out before MarkJobCompleted *)
(* has succeeded, and is given up after RetryLimit deliveries.             *)
(* What the generator and the match worker do inside a job has modules of  *)
(* its own (PublisherListGenerator, MatchWorker); here a job's work has    *)
(* the outcomes those modules show: success, failure, or the death of the  *)
(* process.                                                                *)
(***************************************************************************)
EXTENDS WorkerStartup, FiniteSets

CONSTANTS
    Worker,      \* the worker processes
    Job,         \* the jobs users have submitted
    Bodies,      \* the bodies they may have, functions from Job to Body
    RetryLimit,  \* JobLifecycleHelper's retry_limit
    MaxFaults,   \* bound on crashes, failed calls and failed startups
    None         \* no worker, no job

(* What the body of a job may be: a job of one of the two types, JSON of a *)
(* PairJobData with another job_type, or no such JSON.                     *)
Body == {"generate", "match", "other_type", "garbled"}

ASSUME RunnerAssumption ==
    /\ None \notin Worker \union Job \union Nat
    /\ RetryLimit \in Nat \ {0}
    /\ MaxFaults \in Nat
    /\ Bodies \subseteq [Job -> Body]

VARIABLES
    body,        \* body[j]: the body of job j
    deliveries,  \* deliveries[j]: how often PrepareNextJob has returned j
    lease,       \* lease[j]: the worker j is invisible to others for, or None
    status,      \* status[j]: what the job's submitter sees
    stored,      \* the jobs whose output blob has been written
    mapping,     \* which generation of the mapping is in its blob: None,
                 \* 0 for the one from before these jobs, or their count
    matches,     \* matches[j]: the generation job j's match list was made from
    pc,          \* pc[w]: where main() of worker w is
    running,     \* running[w]: the components that have been run
    stopped,     \* stopped[w]: the components StopAllClients has stopped
    at,          \* at[w]: the next place of StartOrder or of StopOrder
    job,         \* job[w]: the job w works on, or None
    job_status,  \* job_status[w]: the status w is going to report
    seen,        \* seen[w]: the generation ExportMatches has fetched
    cutOff,      \* cutOff[j]: deliveries of j that something cut off (history)
    faults       \* the faults so far, against MaxFaults

queue == << deliveries, lease, status >>
proc == << running, stopped, at >>
output == << stored, mapping, matches >>
locals == << job, job_status, seen >>
vars == << body, queue, output, pc, proc, locals, cutOff, faults >>

-----------------------------------------------------------------------------
Init ==
    /\ body \in Bodies
    /\ deliveries = [j \in Job |-> 0]
    /\ lease = [j \in Job |-> None]
    /\ status = [j \in Job |-> "pending"]
    /\ stored = {}
    /\ mapping \in {None, 0}
    /\ matches = [j \in Job |-> None]
    /\ pc = [w \in Worker |-> "startup"]
    /\ running = [w \in Worker |-> {}]
    /\ stopped = [w \in Worker |-> {}]
    /\ at = [w \in Worker |-> 1]
    /\ job = [w \in Worker |-> None]
    /\ job_status = [w \in Worker |-> "SUCCESS"]
    /\ seen = [w \in Worker |-> None]
    /\ cutOff = [j \in Job |-> 0]
    /\ faults = 0

Goto(w, label) == pc' = [pc EXCEPT ![w] = label]

(* An iteration of the loop ends, and its locals with it. *)
Leave(w, label) ==
    /\ job' = [job EXCEPT ![w] = None]
    /\ job_status' = [job_status EXCEPT ![w] = "SUCCESS"]
    /\ seen' = [seen EXCEPT ![w] = None]
    /\ Goto(w, label)

(* Nothing is left of the process. *)
ProcessGone(w) ==
    /\ running' = [running EXCEPT ![w] = {}]
    /\ stopped' = [stopped EXCEPT ![w] = {}]
    /\ at' = [at EXCEPT ![w] = 1]

Fault == faults < MaxFaults /\ faults' = faults + 1

(* The delivery of j that w works on has been cut off.  Counted only while *)
(* it is the latest one: an earlier one was counted when its lease ran out.*)
CutOff(w, j) ==
    cutOff' = IF lease[j] = w THEN [cutOff EXCEPT ![j] = @ + 1] ELSE cutOff

-----------------------------------------------------------------------------
(* The next component is created, initialised and run; after the last one  *)
(* the job loop begins.                                                    *)
StartComponent(w) ==
    /\ pc[w] = "startup"
    /\ running' = [running EXCEPT ![w] = @ \union {StartOrder[at[w]]}]
    /\ at' = [at EXCEPT ![w] = @ + 1]
    /\ Goto(w, IF at[w] = Len(StartOrder) THEN "polling" ELSE "startup")
    /\ UNCHANGED << body, queue, output, stopped, locals, cutOff,
                    faults >>

(* A setting cannot be read, Init() fails or Run() fails. *)
StartFails(w) ==
    /\ pc[w] = "startup"
    /\ Fault
    /\ at' = [at EXCEPT ![w] = 1]
    /\ Goto(w, "stopping")
    /\ UNCHANGED << body, queue, output, running, stopped, locals,
                    cutOff >>

(* The next line of StopAllClients: it stops the client if there is one.   *)
(* ShutdownCpio is called whether or not InitCpio was.                     *)
StopComponent(w) ==
    /\ pc[w] = "stopping"
    /\ at[w] <= Len(StopOrder)
    /\ running' = [running EXCEPT ![w] = @ \ {StopOrder[at[w]]}]
    /\ stopped' = [stopped EXCEPT ![w] = @ \union {StopOrder[at[w]]}]
    /\ at' = [at EXCEPT ![w] = @ + 1]
    /\ UNCHANGED << body, queue, output, pc, locals, cutOff, faults >>

(* exit(EXIT_FAILURE) once StopAllClients has returned. *)
Exit(w) ==
    /\ pc[w] = "stopping"
    /\ at[w] > Len(StopOrder)
    /\ Goto(w, "exited")
    /\ UNCHANGED << body, queue, output, proc, locals, cutOff, faults >>

(* The instance starts the program again, with nothing left of the last    *)
(* run (external).                                                         *)
Restart(w) ==
    /\ pc[w] \in {"exited", "crashed"}
    /\ Goto(w, "startup")
    /\ ProcessGone(w)
    /\ UNCHANGED << body, queue, output, locals, cutOff, faults >>

-----------------------------------------------------------------------------
(* PrepareNextJobSync returns a job and with it the lease (external).  The *)
(* loop starts with job_status SUCCESS and parses the body.                *)
Deliverable(j) == status[j] = "pending" /\ lease[j] = None

ReceiveJob(w, j) ==
    /\ pc[w] = "polling"
    /\ Deliverable(j) /\ deliveries[j] < RetryLimit
    /\ deliveries' = [deliveries EXCEPT ![j] = @ + 1]
    /\ lease' = [lease EXCEPT ![j] = w]
    /\ job' = [job EXCEPT ![w] = j]
    /\ job_status' = [job_status EXCEPT ![w] = "SUCCESS"]
    /\ Goto(w, "processing")
    /\ UNCHANGED << body, status, output, proc, seen, cutOff, faults >>

(* PrepareNextJobSync finds that the next job has been delivered often     *)
(* enough and gives it up instead of returning it (external).              *)
GiveUp(w, j) ==
    /\ pc[w] = "polling"
    /\ Deliverable(j) /\ deliveries[j] >= RetryLimit
    /\ status' = [status EXCEPT ![j] = "given_up"]
    /\ UNCHANGED << body, deliveries, lease, output, pc, proc, locals,
                    cutOff, faults >>

(* PrepareNextJobSync succeeds without a job: the loop sleeps and polls    *)
(* again.  (Sleeping is left out: it is no state others can see.)          *)
NoJob(w) ==
    /\ pc[w] = "polling"
    /\ ~ \E j \in Job : Deliverable(j)
    /\ UNCHANGED vars

(* PrepareNextJobSync fails: the loop tries again. *)
PrepareFails(w) ==
    /\ pc[w] = "polling"
    /\ Fault
    /\ UNCHANGED << body, queue, output, pc, proc, locals, cutOff >>

-----------------------------------------------------------------------------
(* MUTANT: the body is parsed again and again. *)
ParseFailsAgain(w) ==
    /\ pc[w] = "processing" /\ body[job[w]] = "garbled"
    /\ UNCHANGED vars

(* JsonStringToMessage fails: the loop goes on at once, without telling    *)
(* the helper, and the job stays leased.                                   *)
ParseFails(w) ==
    /\ pc[w] = "processing" /\ body[job[w]] = "garbled"
    /\ Leave(w, "polling")
    /\ UNCHANGED << body, queue, output, proc, cutOff, faults >>

(* ExportMatches fetches the mapping; without one it fails.                *)
FetchMapping(w) ==
    /\ pc[w] = "processing" /\ body[job[w]] = "match"
    /\ mapping # None
    /\ seen' = [seen EXCEPT ![w] = mapping]
    /\ Goto(w, "exporting")
    /\ UNCHANGED << body, queue, output, proc, job, job_status, cutOff, faults >>

(* What is left to do can only succeed or fail.                            *)
AtWork(w) ==
    \/ pc[w] = "processing" /\ body[job[w]] = "generate"
    \/ pc[w] = "exporting"

(* The output of a successful job.  A generation replaces what an earlier  *)
(* one has left under the mapping's name by new random IDs.                *)
Store(w) ==
    /\ stored' = stored \union {job[w]}
    /\ IF body[job[w]] = "generate"
       THEN /\ mapping' = IF mapping = None THEN 1 ELSE mapping + 1
            /\ UNCHANGED matches
       ELSE matches' = [matches EXCEPT ![job[w]] = seen[w]] /\ UNCHANGED mapping

(* MUTANT: a generation job that went well is not reported.                *)
WorkSucceedsUnreported(w) ==
    /\ AtWork(w)
    /\ Store(w)
    /\ IF body[job[w]] = "generate" THEN Leave(w, "polling")
       ELSE Goto(w, "marking") /\ UNCHANGED locals
    /\ UNCHANGED << body, queue, proc, cutOff, faults >>

(* GeneratePublisherList or ExportMatches succeeds: the output is stored.  *)
WorkSucceeds(w) ==
    /\ AtWork(w)
    /\ Store(w)
    /\ Goto(w, "marking")
    /\ UNCHANGED << body, queue, proc, locals, cutOff, faults >>

(* MUTANT: the failure is logged only. *)
WorkFailsUnnoticed(w) ==
    /\ AtWork(w)
    /\ Goto(w, "marking")
    /\ UNCHANGED << body, queue, output, proc, locals, cutOff, faults >>

(* The work fails, which a match job also does before it has a mapping.    *)
WorkFails(w) ==
    /\ AtWork(w) \/ (pc[w] = "processing" /\ body[job[w]] = "match")
    /\ job_status' = [job_status EXCEPT ![w] = "FAILURE"]
    /\ Goto(w, "marking")
    /\ UNCHANGED << body, queue, output, proc, job, seen, cutOff, faults >>

(* MUTANT: as after a body that does not parse, the loop just goes on. *)
InvalidTypeSkipped(w) ==
    /\ pc[w] = "processing" /\ body[job[w]] = "other_type"
    /\ Leave(w, "polling")
    /\ UNCHANGED << body, queue, output, proc, cutOff, faults >>

(* MUTANT: the job is reported without a verdict. *)
InvalidTypeUnspecified(w) ==
    /\ pc[w] = "processing" /\ body[job[w]] = "other_type"
    /\ job_status' = [job_status EXCEPT ![w] = "UNSPECIFIED"]
    /\ Goto(w, "marking")
    /\ UNCHANGED << body, queue, output, proc, job, seen, cutOff, faults >>

(* Neither of the two job types. *)
InvalidType(w) ==
    /\ pc[w] = "processing" /\ body[job[w]] = "other_type"
    /\ job_status' = [job_status EXCEPT ![w] = "FAILURE"]
    /\ Goto(w, "marking")
    /\ UNCHANGED << body, queue, output, proc, job, seen, cutOff, faults >>

(* MarkJobCompletedSync succeeds.  The helper takes the status of a job    *)
(* that is pending, from whichever worker (external).                      *)
Mark(w) ==
    /\ pc[w] = "marking"
    /\ status[job[w]] = "pending"
    /\ status' = [status EXCEPT ![job[w]] = job_status[w]]
    /\ lease' = [lease EXCEPT ![job[w]] = None]
    /\ Leave(w, "polling")
    /\ UNCHANGED << body, deliveries, output, proc, cutOff, faults >>

(* It fails, because of a fault or because the job has been settled by     *)
(* another worker: the loop logs that and polls again all the same.        *)
MarkFails(w) ==
    /\ pc[w] = "marking"
    /\ IF status[job[w]] = "pending" THEN Fault ELSE UNCHANGED faults
    /\ CutOff(w, job[w])
    /\ Leave(w, "polling")
    /\ UNCHANGED << body, queue, output, proc >>

-----------------------------------------------------------------------------
(* ExportMatches finds no match and calls an empty std::function (the run  *)
(* of MatchWorker's ExportReturns): nobody catches the exception and the   *)
(* process ends.  Whether that happens is up to the job's lists.           *)
NoMatches(w) ==
    /\ pc[w] = "exporting"
    /\ CutOff(w, job[w])
    /\ Leave(w, "crashed")
    /\ ProcessGone(w)
    /\ UNCHANGED << body, queue, output, faults >>

(* The machine or the process goes away at any moment (external). *)
Crash(w) ==
    /\ pc[w] \notin {"exited", "crashed"}
    /\ Fault
    /\ IF job[w] # None THEN CutOff(w, job[w]) ELSE UNCHANGED cutOff
    /\ Leave(w, "crashed")
    /\ ProcessGone(w)
    /\ UNCHANGED << body, queue, output >>

(* The lease of a job runs out: its worker has left it, or works longer on *)
(* it than the helper extends the lease for (external).                    *)
Expire(j) ==
    /\ lease[j] # None
    /\ LET held == job[lease[j]] = j
       IN cutOff' = IF held THEN [cutOff EXCEPT ![j] = @ + 1] ELSE cutOff
    /\ lease' = [lease EXCEPT ![j] = None]
    /\ UNCHANGED << body, deliveries, status, output, pc, proc, locals, faults >>

-----------------------------------------------------------------------------
Startup(w) == StartComponent(w) \/ StartFails(w)
Stopping(w) == StopComponent(w) \/ Exit(w)
Poll(w) ==
    \/ \E j \in Job : ReceiveJob(w, j) \/ GiveUp(w, j)
    \/ NoJob(w)
    \/ PrepareFails(w)
Process(w) ==
    \/ ParseFails(w)
    \/ FetchMapping(w) \/ NoMatches(w)
    \/ WorkSucceeds(w) \/ WorkFails(w) \/ InvalidType(w)
    \/ Mark(w) \/ MarkFails(w)

(* main() of worker w. *)
Main(w) == Startup(w) \/ Stopping(w) \/ Poll(w) \/ Process(w)

Next ==
    \/ \E w \in Worker : Main(w) \/ Restart(w) \/ Crash(w)
    \/ \E j \in Job : Expire(j)

(* Each main() is a thread that keeps running; the instance restarts its   *)
(* program; a lease that nobody holds on to runs out.                      *)
Fairness ==
    /\ \A w \in Worker : WF_vars(Main(w)) /\ WF_vars(Restart(w))
    /\ \A j \in Job : WF_vars(Expire(j))

Spec == Init /\ [][Next]_vars /\ Fairness
-----------------------------------------------------------------------------
(* Every variable stays within its type: a worker reports SUCCESS or       *)
(* FAILURE and nothing else, works on a job exactly between PrepareNextJob *)
(* and MarkJobCompleted, and no job is delivered more than RetryLimit      *)
(* times.                                                                  *)
TypeOK ==
    /\ body \in [Job -> Body]
    /\ deliveries \in [Job -> 0 .. RetryLimit]
    /\ lease \in [Job -> Worker \union {None}]
    /\ status \in [Job -> {"pending", "SUCCESS", "FAILURE", "given_up"}]
    /\ stored \subseteq Job
    /\ pc \in [Worker -> {"startup", "stopping", "exited", "crashed", "polling",
                          "processing", "exporting", "marking"}]
    /\ mapping \in Nat \union {None}
    /\ matches \in [Job -> Nat \union {None}]
    /\ seen \in [Worker -> Nat \union {None}]
    /\ running \in [Worker -> SUBSET Component]
    /\ stopped \in [Worker -> SUBSET Component]
    /\ at \in [Worker -> 1 .. Len(StartOrder) + 1]
    /\ job_status \in [Worker -> {"SUCCESS", "FAILURE"}]
    /\ cutOff \in [Job -> 0 .. RetryLimit]
    /\ faults \in 0 .. MaxFaults
    /\ \A w \in Worker :
          job[w] \in (IF pc[w] \in {"processing", "exporting", "marking"}
                      THEN Job ELSE {None})

(* StopAllClients takes a component down before the ones it points to: no  *)
(* thread of a client still running finds a stopped client behind its      *)
(* pointer, wherever the startup failed.  Cpio is the exception main()     *)
(* makes: the executors it was given are stopped, then ShutdownCpio is     *)
(* called.                                                                 *)
DependentsStopFirst ==
    \A w \in Worker : \A c \in running[w] \ {"cpio"} :
        PointsTo(c) \intersect stopped[w] = {}

(* A worker whose startup failed exits with nothing left running that      *)
(* StopAllClients is there to stop, the blob storage client excepted.      *)
ExitLeavesOnlyTheBlobClient ==
    \A w \in Worker :
        pc[w] = "exited" => running[w] \subseteq {"blob_storage_client"}

(* A job that is reported as a success has its output in the bucket,       *)
(* whichever of its deliveries, to whichever worker, is the one reported.  *)
SuccessIsStored ==
    \A j \in Job : status[j] = "SUCCESS" => j \in stored

(* A match list that is stored holds IDs of the mapping that is in its     *)
(* blob, or of the one that was there before these jobs, though a worker   *)
(* reads the mapping long before it stores the list: with one generation   *)
(* job, only a delivery of that job that was cut off lets it replace its   *)
(* own mapping under a match list.                                         *)
MatchesResolve ==
    \A g \in Job :
        {j \in Job : body[j] = "generate"} = {g} /\ cutOff[g] = 0 =>
            \A j \in stored \ {g} : matches[j] \in {0, mapping}

(* The loop reports every job it can read: such a job is given up after    *)
(* RetryLimit deliveries only if each of them was cut off, by the death of *)
(* the worker, by a lease that ran out under it or by a failed             *)
(* MarkJobCompleted.  (A garbled job is given up because the loop skips    *)
(* it.)                                                                    *)
GivenUpOnlyIfCutOff ==
    \A j \in Job :
        status[j] = "given_up" /\ body[j] # "garbled" => cutOff[j] = RetryLimit

(* Every job gets an answer in the end, SUCCESS, FAILURE or given up: no   *)
(* job that kills its worker, no body that does not parse and no failed    *)
(* call of the helper keeps the loops from the other jobs for ever.        *)
JobsSettle == \A j \in Job : <>(status[j] # "pending")
=============================================================================
