------------------------- MODULE WorkerRunner_proofs -------------------------
(***************************************************************************)
(* Proofs about WorkerRunner, for any set of workers and of jobs, any      *)
(* bodies, any retry limit and any number of faults.  The inductive        *)
(* invariant IInv adds to the types                                        *)
(*   - how far a startup or StopAllClients has got (StartupInv),           *)
(*   - that a success about to be reported is stored (ReportInv),          *)
(*   - who holds a job: an account of its deliveries (DeliveryInv), in     *)
(*     which each one but the latest was cut off, and the lease it leaves  *)
(*     with its worker as long as none was (LeaseInv),                     *)
(*   - what a lone generation job may have done so far (MappingInv).       *)
(***************************************************************************)
EXTENDS WorkerRunner, TLAPS

Settled(j) == status[j] # "pending"

(* The latest delivery of j is still in the hands of its worker. *)
Held(j) == lease[j] # None /\ job[lease[j]] = j

(* TypeOK but for the bound of cutOff, which DeliveryInv gives. *)
Types ==
    /\ body \in [Job -> Body]
    /\ deliveries \in [Job -> 0 .. RetryLimit]
    /\ lease \in [Job -> Worker \union {None}]
    /\ status \in [Job -> {"pending", "SUCCESS", "FAILURE", "given_up"}]
    /\ stored \subseteq Job
    /\ pc \in [Worker -> {"startup", "stopping", "exited", "crashed", "polling",
                          "processing", "exporting", "marking"}]
    /\ mapping \in Nat \union {None}
    /\ matches \in [Job -> Nat \union {None}]
    /\ seen \in [Worker -> Nat \union {None}]
    /\ job \in [Worker -> Job \union {None}]
    /\ job_status \in [Worker -> {"SUCCESS", "FAILURE"}]
    /\ cutOff \in [Job -> Nat]
    /\ faults \in 0 .. MaxFaults
    /\ \A w \in Worker :
          job[w] # None <=> pc[w] \in {"processing", "exporting", "marking"}

StartupInv ==
    /\ running \in [Worker -> SUBSET Component]
    /\ stopped \in [Worker -> SUBSET Component]
    /\ at \in [Worker -> 1 .. 11]
    /\ \A w \in Worker :
        /\ pc[w] \notin {"stopping", "exited"} => stopped[w] = {}
        /\ pc[w] = "startup" => at[w] <= 10 /\ "blob_streamer" \notin running[w]
        /\ pc[w] \in {"stopping", "exited"} =>
              /\ at[w] <= 9
              /\ "blob_streamer" \notin running[w]
              /\ \A i \in 1 .. 8 :
                    /\ i < at[w] => StopOrder[i] \notin running[w]
                    /\ StopOrder[i] \in stopped[w] => i < at[w]
        /\ pc[w] = "exited" => at[w] = 9

ReportInv ==
    /\ SuccessIsStored
    /\ \A w \in Worker :
          pc[w] = "marking" /\ job_status[w] = "SUCCESS" => job[w] \in stored

DeliveryInv ==
    \A j \in Job :
        /\ cutOff[j] + (IF Held(j) THEN 1 ELSE 0) <= deliveries[j]
        /\ ~ Settled(j) /\ body[j] # "garbled" =>
              cutOff[j] + (IF Held(j) THEN 1 ELSE 0) = deliveries[j]
        /\ status[j] = "given_up" /\ body[j] # "garbled" => cutOff[j] = RetryLimit

LeaseInv ==
    \A j \in Job :
        /\ Settled(j) => lease[j] = None
        /\ \A w \in Worker : job[w] = j /\ cutOff[j] = 0 => lease[j] = w

Lone(g) == {j \in Job : body[j] = "generate"} = {g}

(* The one generation job g, never cut off, has stored its mapping at most *)
(* once, and nothing was made from a mapping but it or the one before.     *)
LoneInv(g) ==
    /\ g \notin stored => mapping \in {None, 0}
    /\ g \in stored =>
          \/ Settled(g)
          \/ \E w \in Worker :
                lease[g] = w /\ job[w] = g /\ pc[w] = "marking"
    /\ \A w \in Worker :
          pc[w] = "exporting" => seen[w] # None /\ seen[w] \in {0, mapping}
    /\ \A j \in stored \ {g} :
          matches[j] # None /\ matches[j] \in {0, mapping}

MappingInv == \A g \in Job : Lone(g) /\ cutOff[g] = 0 => LoneInv(g)

IInv == Types /\ StartupInv /\ ReportInv /\ DeliveryInv /\ LeaseInv /\ MappingInv

-----------------------------------------------------------------------------
(* Startup, StopAllClients and the restart leave all jobs as they are.     *)
Lifecycle(w) ==
    \/ StartComponent(w) \/ StartFails(w) \/ StopComponent(w) \/ Exit(w)
    \/ Restart(w)

Busy == {"processing", "exporting", "marking"}

LEMMA LifecycleFrame ==
  ASSUME Types, NEW w \in Worker, Lifecycle(w)
  PROVE  /\ UNCHANGED << body, queue, output, locals, cutOff >>
         /\ pc' \in [Worker -> {"startup", "stopping", "exited", "crashed",
                                "polling"} \union Busy]
         /\ faults' \in 0 .. MaxFaults
         /\ \A v \in Worker : pc'[v] \in Busy \/ pc[v] \in Busy => pc'[v] = pc[v]
<1> USE DEF Types, Busy, Goto
<1>1. CASE StartComponent(w)
  BY <1>1 DEF StartComponent
<1>2. CASE StartFails(w)
  BY <1>2, RunnerAssumption DEF StartFails, Fault
<1>3. CASE StopComponent(w)
  BY <1>3 DEF StopComponent
<1>4. CASE Exit(w)
  BY <1>4 DEF Exit
<1>5. CASE Restart(w)
  BY <1>5 DEF Restart
<1>6. QED
  BY <1>1, <1>2, <1>3, <1>4, <1>5 DEF Lifecycle

LEMMA TypesStep ==
  ASSUME Types, [Next]_vars
  PROVE  Types'
<1> USE RunnerAssumption
<1>1. CASE UNCHANGED vars
  BY <1>1 DEF Types, vars, queue, output, locals
<1>2. ASSUME NEW w \in Worker, Lifecycle(w) PROVE Types'
  BY <1>2, LifecycleFrame DEF Types, queue, output, locals, Busy
<1>3. ASSUME NEW w \in Worker, NEW j \in Job, ReceiveJob(w, j) PROVE Types'
  BY <1>3 DEF Types, ReceiveJob, Deliverable, Goto, output
<1>4. ASSUME NEW w \in Worker, NEW j \in Job, GiveUp(w, j) PROVE Types'
  BY <1>4 DEF Types, GiveUp, output, locals
<1>5. ASSUME NEW w \in Worker, PrepareFails(w) PROVE Types'
  BY <1>5 DEF Types, PrepareFails, Fault, queue, output, locals
<1>6. ASSUME NEW w \in Worker, ParseFails(w) PROVE Types'
  BY <1>6 DEF Types, ParseFails, Leave, Goto, queue, output
<1>7. ASSUME NEW w \in Worker, FetchMapping(w) PROVE Types'
  BY <1>7 DEF Types, FetchMapping, Goto, queue, output
<1>8. ASSUME NEW w \in Worker, WorkSucceeds(w) PROVE Types'
  <2>1. job[w] \in Job
    BY <1>8 DEF Types, WorkSucceeds, AtWork
  <2>2. mapping' \in Nat \union {None} /\ matches' \in [Job -> Nat \union {None}]
    BY <1>8, <2>1 DEF Types, WorkSucceeds, Store
  <2>3. QED
    BY <1>8, <2>1, <2>2 DEF Types, WorkSucceeds, AtWork, Store, Goto, queue, locals
<1>9. ASSUME NEW w \in Worker, WorkFails(w) PROVE Types'
  BY <1>9 DEF Types, WorkFails, AtWork, Goto, queue, output
<1>10. ASSUME NEW w \in Worker, InvalidType(w) PROVE Types'
  BY <1>10 DEF Types, InvalidType, Goto, queue, output
<1>11. ASSUME NEW w \in Worker, Mark(w) PROVE Types'
  BY <1>11 DEF Types, Mark, Leave, Goto, output
<1>12. ASSUME NEW w \in Worker, MarkFails(w) PROVE Types'
  BY <1>12 DEF Types, MarkFails, Fault, CutOff, Leave, Goto, queue, output
<1>13. ASSUME NEW w \in Worker, NoMatches(w) PROVE Types'
  BY <1>13 DEF Types, NoMatches, CutOff, Leave, Goto, queue, output
<1>14. ASSUME NEW w \in Worker, Crash(w) PROVE Types'
  BY <1>14 DEF Types, Crash, Fault, CutOff, Leave, Goto, queue, output
<1>15. ASSUME NEW j \in Job, Expire(j) PROVE Types'
  BY <1>15 DEF Types, Expire, output, locals
<1>16. ASSUME NEW w \in Worker, NoJob(w) PROVE Types'
  BY <1>1, <1>16 DEF NoJob
<1>17. QED
  BY <1>1, <1>2, <1>3, <1>4, <1>5, <1>6, <1>7, <1>8, <1>9, <1>10, <1>11, <1>12,
     <1>13, <1>14, <1>15, <1>16
     DEF Next, Main, Lifecycle, Startup, Stopping, Poll, Process

-----------------------------------------------------------------------------
(* The steps of the job loop but for the death of the process. *)
JobStep(w) ==
    \/ \E j \in Job : ReceiveJob(w, j) \/ GiveUp(w, j)
    \/ PrepareFails(w) \/ ParseFails(w) \/ FetchMapping(w)
    \/ WorkSucceeds(w) \/ WorkFails(w) \/ InvalidType(w)
    \/ Mark(w) \/ MarkFails(w)

Death(w) == NoMatches(w) \/ Crash(w)

LEMMA NextCases ==
  ASSUME [Next]_vars
  PROVE  \/ UNCHANGED vars
         \/ \E w \in Worker : Lifecycle(w) \/ JobStep(w) \/ Death(w)
         \/ \E j \in Job : Expire(j)
BY DEF Next, Main, Startup, Stopping, Poll, Process, NoJob, Lifecycle, JobStep, Death

LEMMA JobStepFrame ==
  ASSUME Types, NEW w \in Worker, JobStep(w)
  PROVE  /\ UNCHANGED proc
         /\ \A v \in Worker :
               pc'[v] = pc[v] \/ {pc[v], pc'[v]} \subseteq Busy \union {"polling"}
BY DEF Types, Busy, JobStep, ReceiveJob, GiveUp, PrepareFails, ParseFails,
       FetchMapping, WorkSucceeds, WorkFails, InvalidType, Mark, MarkFails, AtWork,
       Goto, Leave

LEMMA Orders ==
  /\ Len(StartOrder) = 10
  /\ \A i \in 1 .. 9 : StartOrder[i] # "blob_streamer"
  /\ \A i \in 1 .. 10 : StartOrder[i] \in Component
  /\ Len(StopOrder) = 8
  /\ \A i \in 1 .. 8 : StopOrder[i] \in Component
  /\ \A i, k \in 1 .. 8 : StopOrder[i] = StopOrder[k] => i = k
<1>1. Len(StartOrder) = 10 /\ Len(StopOrder) = 8
  BY DEF StartOrder, StopOrder
<1>2. \A i \in 1 .. 9 : StartOrder[i] # "blob_streamer"
  BY DEF StartOrder
<1>3. \A i \in 1 .. 10 : StartOrder[i] \in Component
  BY <1>1 DEF Component
<1>4. \A i, k \in 1 .. 8 : StopOrder[i] = StopOrder[k] => i = k
  BY DEF StopOrder
<1>5. \A i \in 1 .. 8 : \E k \in 1 .. 10 : StopOrder[i] = StartOrder[k]
  <2> SUFFICES ASSUME NEW i \in 1 .. 8
               PROVE  \E k \in 1 .. 10 : StopOrder[i] = StartOrder[k]
    OBVIOUS
  <2>1. i = 1 \/ i = 2 \/ i = 3 \/ i = 4 \/ i = 5 \/ i = 6 \/ i = 7 \/ i = 8
    OBVIOUS
  <2>2. /\ StopOrder[1] = StartOrder[8] /\ StopOrder[2] = StartOrder[7]
        /\ StopOrder[3] = StartOrder[6] /\ StopOrder[4] = StartOrder[5]
        /\ StopOrder[5] = StartOrder[3] /\ StopOrder[6] = StartOrder[2]
        /\ StopOrder[7] = StartOrder[1] /\ StopOrder[8] = StartOrder[4]
    BY DEF StartOrder, StopOrder
  <2>3. QED
    BY <2>1, <2>2
<1>6. QED
  BY <1>1, <1>2, <1>3, <1>4, <1>5

LEMMA StartupStep ==
  ASSUME Types, StartupInv, [Next]_vars
  PROVE  StartupInv'
<1> USE DEF StartupInv
<1>1. CASE UNCHANGED vars
  BY <1>1 DEF vars, proc
<1>2. ASSUME NEW w \in Worker, StartComponent(w) PROVE StartupInv'
  BY <1>2, Orders DEF StartComponent, Goto, Types
<1>3. ASSUME NEW w \in Worker, StartFails(w) PROVE StartupInv'
  BY <1>3, Orders DEF StartFails, Goto, Types
<1>4. ASSUME NEW w \in Worker, StopComponent(w) PROVE StartupInv'
  BY <1>4, Orders DEF StopComponent, Types
<1>5. ASSUME NEW w \in Worker, Exit(w) PROVE StartupInv'
  BY <1>5, Orders DEF Exit, Goto, proc, Types
<1>6. ASSUME NEW w \in Worker, Restart(w) PROVE StartupInv'
  BY <1>6 DEF Restart, ProcessGone, Goto, Types
<1>7. ASSUME NEW w \in Worker, JobStep(w) PROVE StartupInv'
  BY <1>7, JobStepFrame DEF proc, Busy
<1>8. ASSUME NEW w \in Worker, Death(w) PROVE StartupInv'
  BY <1>8 DEF Death, NoMatches, Crash, ProcessGone, Leave, Goto, Types
<1>9. ASSUME NEW j \in Job, Expire(j) PROVE StartupInv'
  BY <1>9 DEF Expire, proc
<1>10. QED
  BY <1>1, <1>2, <1>3, <1>4, <1>5, <1>6, <1>7, <1>8, <1>9, NextCases DEF Lifecycle

-----------------------------------------------------------------------------
(* A death leaves the queue and the outputs as they are. *)
LEMMA DeathFrame ==
  ASSUME Types, NEW w \in Worker, Death(w)
  PROVE  /\ UNCHANGED << body, queue, output >>
         /\ cutOff' = cutOff \/ (job[w] # None /\ CutOff(w, job[w]))
         /\ job[w] # None => CutOff(w, job[w])
         /\ Leave(w, "crashed")
BY DEF Types, Death, NoMatches, Crash

LEMMA ReportStep ==
  ASSUME Types, ReportInv, [Next]_vars
  PROVE  ReportInv'
<1> USE DEF ReportInv, SuccessIsStored
<1>1. CASE UNCHANGED vars
  BY <1>1 DEF vars, queue, output, locals
<1>2. ASSUME NEW w \in Worker, Lifecycle(w) PROVE ReportInv'
  BY <1>2, LifecycleFrame DEF queue, output, locals, Busy
<1>3. ASSUME NEW w \in Worker, Death(w) PROVE ReportInv'
  BY <1>3, DeathFrame DEF Leave, Goto, queue, output, Types
<1>4. ASSUME NEW j \in Job, Expire(j) PROVE ReportInv'
  BY <1>4 DEF Expire, output, locals
<1>5. ASSUME NEW w \in Worker, JobStep(w) PROVE ReportInv'
  <2>1. ASSUME NEW j \in Job, ReceiveJob(w, j) \/ GiveUp(w, j) PROVE ReportInv'
    BY <2>1 DEF ReceiveJob, GiveUp, Goto, output, locals, Types
  <2>2. CASE PrepareFails(w) \/ ParseFails(w) \/ FetchMapping(w) \/ MarkFails(w)
    BY <2>2 DEF PrepareFails, ParseFails, FetchMapping, MarkFails, Leave, Goto,
                queue, output, locals, Types
  <2>3. CASE WorkSucceeds(w)
    BY <2>3 DEF WorkSucceeds, Store, Goto, queue, locals, Types
  <2>4. CASE WorkFails(w) \/ InvalidType(w)
    BY <2>4 DEF WorkFails, InvalidType, Goto, queue, output, Types
  <2>5. CASE Mark(w)
    BY <2>5 DEF Mark, Leave, Goto, output, Types
  <2>6. QED
    BY <1>5, <2>1, <2>2, <2>3, <2>4, <2>5 DEF JobStep
<1>6. QED
  BY <1>1, <1>2, <1>3, <1>4, <1>5, NextCases

LEMMA DeliveryStep ==
  ASSUME Types, DeliveryInv, LeaseInv, [Next]_vars
  PROVE  DeliveryInv'
<1> USE RunnerAssumption DEF DeliveryInv, Settled, Held
<1>1. CASE UNCHANGED vars
  BY <1>1 DEF vars, queue, locals
<1>2. ASSUME NEW w \in Worker, Lifecycle(w) PROVE DeliveryInv'
  BY <1>2, LifecycleFrame DEF queue, locals
<1>3. ASSUME NEW w \in Worker, Death(w) PROVE DeliveryInv'
  BY <1>3, DeathFrame DEF CutOff, Leave, queue, Types
<1>4. ASSUME NEW j \in Job, Expire(j) PROVE DeliveryInv'
  BY <1>4 DEF Expire, locals, Types
<1>5. ASSUME NEW w \in Worker, JobStep(w) PROVE DeliveryInv'
  <2>1. ASSUME NEW j \in Job, ReceiveJob(w, j) PROVE DeliveryInv'
    BY <2>1 DEF ReceiveJob, Deliverable, Types
  <2>2. ASSUME NEW j \in Job, GiveUp(w, j) PROVE DeliveryInv'
    BY <2>2 DEF GiveUp, Deliverable, locals, Types
  <2>3. CASE PrepareFails(w) \/ FetchMapping(w) \/ InvalidType(w)
    BY <2>3 DEF PrepareFails, FetchMapping, InvalidType, queue, locals
  <2>4. CASE WorkSucceeds(w) \/ WorkFails(w)
    BY <2>4 DEF WorkSucceeds, WorkFails, queue, locals
  <2>5. CASE ParseFails(w)
    BY <2>5 DEF ParseFails, Leave, queue, Types
  <2>6. CASE Mark(w)
    BY <2>6 DEF Mark, Leave, Types
  <2>7. CASE MarkFails(w)
    BY <2>7 DEF MarkFails, CutOff, Leave, queue, Types
  <2>8. QED
    BY <1>5, <2>1, <2>2, <2>3, <2>4, <2>5, <2>6, <2>7 DEF JobStep
<1>6. QED
  BY <1>1, <1>2, <1>3, <1>4, <1>5, NextCases

LEMMA LeaseStep ==
  ASSUME Types, LeaseInv, [Next]_vars
  PROVE  LeaseInv'
<1> USE RunnerAssumption DEF LeaseInv, Settled
<1>1. CASE UNCHANGED vars
  BY <1>1 DEF vars, queue, locals
<1>2. ASSUME NEW w \in Worker, Lifecycle(w) PROVE LeaseInv'
  BY <1>2, LifecycleFrame DEF queue, locals
<1>3. ASSUME NEW w \in Worker, Death(w) PROVE LeaseInv'
  BY <1>3, DeathFrame DEF CutOff, Leave, queue, Types
<1>4. ASSUME NEW j \in Job, Expire(j) PROVE LeaseInv'
  BY <1>4 DEF Expire, locals, Types
<1>5. ASSUME NEW w \in Worker, JobStep(w) PROVE LeaseInv'
  <2>1. ASSUME NEW j \in Job, ReceiveJob(w, j) PROVE LeaseInv'
    BY <2>1 DEF ReceiveJob, Deliverable, Types
  <2>2. ASSUME NEW j \in Job, GiveUp(w, j) PROVE LeaseInv'
    BY <2>2 DEF GiveUp, Deliverable, locals, Types
  <2>3. CASE PrepareFails(w) \/ FetchMapping(w) \/ InvalidType(w)
    BY <2>3 DEF PrepareFails, FetchMapping, InvalidType, queue, locals
  <2>4. CASE WorkSucceeds(w) \/ WorkFails(w)
    BY <2>4 DEF WorkSucceeds, WorkFails, queue, locals
  <2>5. CASE ParseFails(w)
    BY <2>5 DEF ParseFails, Leave, queue, Types
  <2>6. CASE Mark(w)
    BY <2>6 DEF Mark, Leave, Types
  <2>7. CASE MarkFails(w)
    BY <2>7 DEF MarkFails, CutOff, Leave, queue, Types
  <2>8. QED
    BY <1>5, <2>1, <2>2, <2>3, <2>4, <2>5, <2>6, <2>7 DEF JobStep
<1>6. QED
  BY <1>1, <1>2, <1>3, <1>4, <1>5, NextCases


(* No step changes a body or takes a cut-off back. *)
LEMMA CutOffGrows ==
  ASSUME Types, [Next]_vars
  PROVE  body' = body /\ \A j \in Job : cutOff'[j] = 0 => cutOff[j] = 0
<1>1. CASE UNCHANGED vars
  BY <1>1 DEF vars
<1>2. ASSUME NEW w \in Worker, Lifecycle(w)
      PROVE  body' = body /\ cutOff' = cutOff
  BY <1>2, LifecycleFrame
<1>3. ASSUME NEW w \in Worker, Death(w)
      PROVE  body' = body /\ \A j \in Job : cutOff'[j] = 0 => cutOff[j] = 0
  BY <1>3, DeathFrame DEF CutOff, Types
<1>4. ASSUME NEW j \in Job, Expire(j)
      PROVE  body' = body /\ \A i \in Job : cutOff'[i] = 0 => cutOff[i] = 0
  BY <1>4 DEF Expire, Types
<1>5. ASSUME NEW w \in Worker, JobStep(w)
      PROVE  body' = body /\ \A j \in Job : cutOff'[j] = 0 => cutOff[j] = 0
  BY <1>5 DEF JobStep, ReceiveJob, GiveUp, PrepareFails, ParseFails, FetchMapping,
              WorkSucceeds, WorkFails, InvalidType, Mark, MarkFails, CutOff, Types
<1>6. QED
  BY <1>1, <1>2, <1>3, <1>4, <1>5, NextCases

LEMMA MappingStep ==
  ASSUME Types, LeaseInv, MappingInv, [Next]_vars
  PROVE  MappingInv'
<1> SUFFICES ASSUME NEW g \in Job, Lone(g)', cutOff'[g] = 0
             PROVE  LoneInv(g)'
  BY DEF MappingInv
<1>0. Lone(g) /\ cutOff[g] = 0 /\ LoneInv(g)
  BY CutOffGrows DEF Lone, MappingInv
<1>a. /\ body[g] = "generate"
      /\ \A j \in Job : body[j] = "generate" => j = g
  BY <1>0 DEF Lone
<1>b. /\ Settled(g) => lease[g] = None
      /\ \A w \in Worker : job[w] = g => lease[g] = w
  BY <1>0 DEF LeaseInv
<1> USE RunnerAssumption DEF LoneInv, Settled
<1>1. CASE UNCHANGED vars
  BY <1>0, <1>1 DEF vars, queue, output, locals
<1>2. ASSUME NEW w \in Worker, Lifecycle(w) PROVE LoneInv(g)'
  BY <1>0, <1>2, LifecycleFrame DEF queue, output, locals, Busy
<1>3. ASSUME NEW w \in Worker, Death(w) PROVE LoneInv(g)'
  BY <1>0, <1>3, DeathFrame DEF CutOff, Leave, Goto, queue, output, Types
<1>4. ASSUME NEW j \in Job, Expire(j) PROVE LoneInv(g)'
  BY <1>0, <1>4 DEF Expire, output, locals, Types
<1>5. ASSUME NEW w \in Worker, JobStep(w) PROVE LoneInv(g)'
  <2>1. ASSUME NEW j \in Job, ReceiveJob(w, j) PROVE LoneInv(g)'
    BY <1>0, <2>1 DEF ReceiveJob, Deliverable, Goto, output, Types
  <2>2. ASSUME NEW j \in Job, GiveUp(w, j) PROVE LoneInv(g)'
    BY <1>0, <2>2 DEF GiveUp, output, locals, Types
  <2>3. CASE PrepareFails(w) \/ InvalidType(w)
    BY <1>0, <1>a, <2>3 DEF PrepareFails, InvalidType, Goto, queue, output, locals, Types
  <2>4. CASE FetchMapping(w)
    BY <1>0, <2>4 DEF FetchMapping, Goto, queue, output, Types
  <2>5. CASE WorkSucceeds(w)
    <3>1. job[w] \in Job /\ pc[w] # "marking"
      BY <2>5 DEF WorkSucceeds, AtWork, Types
    <3>2. CASE job[w] = g
      <4>1. lease[g] = w /\ g \notin stored
        BY <1>0, <1>b, <3>1, <3>2
      <4>2. mapping \in {None, 0}
        BY <1>0, <4>1
      <4>3. /\ stored' = stored \union {g} /\ matches' = matches
            /\ lease' = lease /\ job' = job /\ seen' = seen /\ status' = status
            /\ pc' = [pc EXCEPT ![w] = "marking"]
        BY <1>a, <2>5, <3>2 DEF WorkSucceeds, Store, Goto, queue, locals
      <4>4. QED
        BY <1>0, <3>2, <4>1, <4>2, <4>3 DEF Types
    <3>3. CASE job[w] # g
      <4>1. pc[w] = "exporting" /\ mapping' = mapping
        BY <1>a, <2>5, <3>1, <3>3 DEF WorkSucceeds, AtWork, Store
      <4>2. matches' = [matches EXCEPT ![job[w]] = seen[w]]
        BY <1>a, <2>5, <3>1, <3>3 DEF WorkSucceeds, Store
      <4>3. /\ stored' = stored \union {job[w]}
            /\ lease' = lease /\ job' = job /\ seen' = seen /\ status' = status
            /\ pc' = [pc EXCEPT ![w] = "marking"]
        BY <2>5 DEF WorkSucceeds, Store, Goto, queue, locals
      <4>4. QED
        BY <1>0, <3>1, <3>3, <4>1, <4>2, <4>3 DEF Types
    <3>4. QED
      BY <3>2, <3>3
  <2>6. CASE WorkFails(w)
    BY <1>0, <2>6 DEF WorkFails, AtWork, Goto, queue, output, Types
  <2>7. CASE ParseFails(w)
    BY <1>0, <2>7 DEF ParseFails, Leave, Goto, queue, output, Types
  <2>8. CASE Mark(w)
    BY <1>0, <2>8 DEF Mark, Leave, Goto, output, Types
  <2>9. CASE MarkFails(w)
    BY <1>0, <1>b, <2>9 DEF MarkFails, CutOff, Leave, Goto, queue, output, Types
  <2>10. QED
    BY <1>5, <2>1, <2>2, <2>3, <2>4, <2>5, <2>6, <2>7, <2>8, <2>9 DEF JobStep
<1>6. QED
  BY <1>1, <1>2, <1>3, <1>4, <1>5, NextCases

-----------------------------------------------------------------------------
LEMMA InitInv ==
  ASSUME Init
  PROVE  IInv
<1> USE RunnerAssumption DEF Init
<1>1. Types
  BY DEF Types
<1>2. StartupInv
  BY DEF StartupInv
<1>3. ReportInv /\ DeliveryInv /\ LeaseInv
  BY DEF ReportInv, SuccessIsStored, DeliveryInv, LeaseInv, Settled, Held
<1>4. MappingInv
  BY DEF MappingInv, LoneInv, Settled
<1>5. QED
  BY <1>1, <1>2, <1>3, <1>4 DEF IInv

(* The inductive invariant holds in every state of every number of workers *)
(* with any jobs: each step of main(), of the queue and of the crashes     *)
(* preserves it.                                                           *)
THEOREM Invariance == Spec => []IInv
<1>1. Init => IInv
  BY InitInv
<1>2. IInv /\ [Next]_vars => IInv'
  BY TypesStep, StartupStep, ReportStep, DeliveryStep, LeaseStep, MappingStep DEF IInv
<1>3. QED
  BY <1>1, <1>2, PTL DEF Spec

-----------------------------------------------------------------------------
LEMMA TypesImplyTypeOK ==
  ASSUME IInv
  PROVE  TypeOK
<1> USE RunnerAssumption
<1>1. Types /\ StartupInv /\ DeliveryInv
  BY DEF IInv
<1>2. at \in [Worker -> 1 .. Len(StartOrder) + 1]
  BY <1>1, Orders DEF StartupInv
<1>3. cutOff \in [Job -> 0 .. RetryLimit]
  <2>1. ASSUME NEW j \in Job PROVE cutOff[j] \in 0 .. RetryLimit
    BY <1>1 DEF Types, DeliveryInv
  <2>2. QED
    BY <1>1, <2>1 DEF Types
<1>4. \A w \in Worker :
         job[w] \in (IF pc[w] \in {"processing", "exporting", "marking"}
                     THEN Job ELSE {None})
  BY <1>1 DEF Types
<1>5. QED
  BY <1>1, <1>2, <1>3, <1>4 DEF TypeOK, Types, StartupInv

(* Every variable keeps its type: in particular no worker reports anything *)
(* but SUCCESS or FAILURE, and a worker holds a job exactly between        *)
(* PrepareNextJob and MarkJobCompleted.                                    *)
THEOREM TypeCorrect == Spec => []TypeOK
<1>1. IInv => TypeOK
  BY TypesImplyTypeOK
<1>2. QED
  BY <1>1, Invariance, PTL

(* StopAllClients takes a client away from no component that still runs,   *)
(* after a startup that failed at any place.                               *)
THEOREM StopsInOrder == Spec => []DependentsStopFirst
<1>1. ASSUME IInv PROVE DependentsStopFirst
  <2> SUFFICES ASSUME NEW w \in Worker,
                      NEW c \in running[w] \ {"cpio"},
                      NEW d \in PointsTo(c) \intersect stopped[w]
               PROVE  FALSE
    BY DEF DependentsStopFirst
  <2>1. StartupInv /\ c \in Component /\ d \in Component
    BY <1>1 DEF IInv, StartupInv
  <2>2. pc[w] \in {"stopping", "exited"}
    BY <2>1 DEF StartupInv
  <2>3. \A i \in 1 .. 8 : /\ i < at[w] => StopOrder[i] \notin running[w]
                          /\ StopOrder[i] \in stopped[w] => i < at[w]
    BY <2>1, <2>2 DEF StartupInv
  <2>4. at[w] \in Nat
    BY <2>1 DEF StartupInv
  <2>5. CASE c = "job_lifecycle_helper"
    <3>1. d \in {StopOrder[2], StopOrder[3], StopOrder[4], StopOrder[7]}
      BY <2>5 DEF PointsTo, StopOrder
    <3>2. c = StopOrder[1]
      BY <2>5 DEF StopOrder
    <3>3. QED
      BY <2>3, <2>4, <3>1, <3>2
  <2>6. c # "blob_streamer"
    BY <2>1, <2>2 DEF StartupInv
  <2>7. QED
    BY <2>5, <2>6 DEF PointsTo
<1>2. QED
  BY <1>1, Invariance, PTL

(* Whatever startup has done, StopAllClients leaves of it only the blob    *)
(* storage client when the process exits.                                  *)
THEOREM ExitIsClean == Spec => []ExitLeavesOnlyTheBlobClient
<1>1. ASSUME IInv PROVE ExitLeavesOnlyTheBlobClient
  <2> SUFFICES ASSUME NEW w \in Worker, pc[w] = "exited", NEW c \in running[w]
               PROVE  c = "blob_storage_client"
    BY DEF ExitLeavesOnlyTheBlobClient
  <2>1. /\ c \in Component /\ c # "blob_streamer"
        /\ \A i \in 1 .. 8 : StopOrder[i] # c
    BY <1>1 DEF IInv, StartupInv
  <2>2. PICK k \in 1 .. 10 : c = StartOrder[k]
    BY <2>1, Orders DEF Component
  <2>3. /\ StopOrder[1] = StartOrder[8] /\ StopOrder[2] = StartOrder[7]
        /\ StopOrder[3] = StartOrder[6] /\ StopOrder[4] = StartOrder[5]
        /\ StopOrder[5] = StartOrder[3] /\ StopOrder[6] = StartOrder[2]
        /\ StopOrder[7] = StartOrder[1] /\ StopOrder[8] = StartOrder[4]
        /\ StartOrder[9] = "blob_storage_client" /\ StartOrder[10] = "blob_streamer"
    BY DEF StartOrder, StopOrder
  <2>4. \/ k = 1 \/ k = 2 \/ k = 3 \/ k = 4 \/ k = 5
        \/ k = 6 \/ k = 7 \/ k = 8 \/ k = 9 \/ k = 10
    OBVIOUS
  <2>5. QED
    BY <2>1, <2>2, <2>3, <2>4
<1>2. QED
  BY <1>1, Invariance, PTL

(* A job reported as a success has its output stored, however often it was *)
(* delivered and whoever worked on it.                                     *)
THEOREM ReportsAreTrue == Spec => []SuccessIsStored
<1>1. IInv => SuccessIsStored
  BY DEF IInv, ReportInv
<1>2. QED
  BY <1>1, Invariance, PTL

(* With one generation job, only a delivery of it that was cut off can put *)
(* a second mapping of its own under a match list that is stored.          *)
THEOREM MatchesStayResolvable == Spec => []MatchesResolve
<1>1. IInv => MatchesResolve
  BY DEF IInv, MappingInv, LoneInv, Lone, MatchesResolve
<1>2. QED
  BY <1>1, Invariance, PTL

(* A job the loop can read is given up only after RetryLimit deliveries    *)
(* that were all cut off.                                                  *)
THEOREM NothingReadableGivenUp == Spec => []GivenUpOnlyIfCutOff
<1>1. IInv => GivenUpOnlyIfCutOff
  BY DEF IInv, DeliveryInv, GivenUpOnlyIfCutOff
<1>2. QED
  BY <1>1, Invariance, PTL
=============================================================================
