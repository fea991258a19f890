------------------------------ MODULE GeneratorMain ------------------------------
(****************************************************************************)
(* src/cc/experimental/generator_main.cc: one publisher list generation     *)
(* from the command line, on the list RandomEmailsGenerator has uploaded in *)
(* mode 2.  The components are the worker's (WorkerStartup); here main      *)
(* starts and stops them itself.  GeneratePublisherList has a module of its *)
(* own: here it fails, or uploads the mapping of the list's complete rows.  *)
(****************************************************************************)
EXTENDS RandomEmailsGenerator

VARIABLES
  tool,               \* "none", "starting", "generating", "stopping", "exited"
  up,                 \* the components that are running
  generation_result,  \* "none", "Success", "Failure"
  mapping,            \* the mapping in the output bucket
  toolExit            \* what main has returned, or "none"

toolVars == <<tool, up, generation_result, mapping, toolExit>>
vars == <<emailVars, toolVars>>

ToolStartOrder ==
  <<"cpu_async_executor", "io_async_executor", "cpio", "blob_storage_client">>

\* Mutation: one executor is forgotten.
ToolStopOrderWithoutIo ==
  <<"blob_storage_client", "cpio", "cpu_async_executor">>

ToolStopOrder ==
  <<"blob_storage_client", "cpio", "cpu_async_executor", "io_async_executor">>

Init ==
  /\ EmailsInit
  /\ tool = "none"
  /\ up = {}
  /\ generation_result = "none"
  /\ mapping = <<>>
  /\ toolExit = "none"

ToolReturns(code) == tool' = "exited" /\ toolExit' = code

\* main looks at the number of its arguments first.
BeginTool ==
  /\ tool = "none"
  /\ mode = 2 /\ exit = "EXIT_SUCCESS"
  /\ \/ tool' = "starting" /\ UNCHANGED toolExit
     \/ ToolReturns("EXIT_FAILURE")
  /\ UNCHANGED <<emailVars, up, generation_result, mapping>>

\* The next component is initialised and run, or main returns as it is.
Start ==
  /\ tool = "starting"
  /\ \/ /\ up' = up \cup {ToolStartOrder[Cardinality(up) + 1]}
        /\ tool' = IF Cardinality(up') = Len(ToolStartOrder) THEN "generating" ELSE tool
        /\ UNCHANGED toolExit
     \/ ToolReturns("EXIT_FAILURE") /\ UNCHANGED up
  /\ UNCHANGED <<emailVars, generation_result, mapping>>

GeneratePublisherList ==
  /\ tool = "generating"
  /\ tool' = "stopping"
  /\ \/ /\ generation_result' = "Success"
        /\ \E rows \in {CompleteLines(object)} :
             mapping' = MappingText([i \in DOMAIN rows |-> <<GetColumn(rows[i], 0), <<i>> >>])
     \/ generation_result' = "Failure" /\ UNCHANGED mapping
  /\ UNCHANGED <<emailVars, up, toolExit>>

\* The next component is stopped.  If its Stop fails main returns; the result of
\* ShutdownCpio is not looked at.
StopNext ==
  /\ tool = "stopping"
  /\ \E i \in DOMAIN ToolStopOrder :
       /\ ToolStopOrder[i] \in up
       /\ \A k \in 1..(i - 1) : ToolStopOrder[k] \notin up
       /\ \/ up' = up \ {ToolStopOrder[i]} /\ UNCHANGED <<tool, toolExit>>
          \/ /\ ToolStopOrder[i] # "cpio"
             /\ ToolReturns("EXIT_FAILURE")
             /\ UNCHANGED up
  /\ UNCHANGED <<emailVars, generation_result, mapping>>

\* All are stopped, and the generation's result counts.
Report ==
  /\ tool = "stopping"
  /\ Range(ToolStopOrder) \cap up = {}
  /\ ToolReturns(IF generation_result = "Success" THEN "EXIT_SUCCESS" ELSE "EXIT_FAILURE")
  /\ UNCHANGED <<emailVars, up, generation_result, mapping>>

Generate == BeginTool \/ Start \/ GeneratePublisherList \/ StopNext \/ Report

Next == (EmailsNext /\ UNCHANGED toolVars) \/ Generate

\* Each process and each of its threads runs on; that a new index is drawn in
\* the end is a matter of probability one.
Fairness ==
  /\ WF_vars(EmailsNext /\ UNCHANGED toolVars)
  /\ WF_vars(Generate)

Spec == Init /\ [][Next]_vars
FairSpec == Spec /\ Fairness

--------------------------------------------------------------------------------
\* The types; generator_main.cc reports a success only with every component
\* stopped.
TypeOK ==
  /\ mode \in 0..3
  /\ num_emails \in 0..MaxEmails
  /\ main \in {"join", "sample", "undefined", "exited"}
  /\ {exit, toolExit} \subseteq {"none", "EXIT_SUCCESS", "EXIT_FAILURE"}
  /\ opened \in BOOLEAN
  /\ file \in Seq(Email \cup {LineBreak})
  /\ file_mutex \in Thread \cup {NoThread}
  /\ thread \in [Thread -> {"none", "making", "waiting", "writing", "ended"}]
  /\ emails_string \in [Thread -> Seq(Email \cup {LineBreak})]
  /\ picked \in Seq(DOMAIN lines)
  /\ tool \in {"none", "starting", "generating", "stopping", "exited"}
  /\ up \subseteq IF toolExit = "EXIT_SUCCESS" THEN {} ELSE Range(ToolStartOrder)
  /\ generation_result \in {"none", "Success", "Failure"}

\* However the threads overlap, the file they leave has exactly the number of
\* lines asked for, each an email: the division loses none, and the text of one
\* thread does not cut into a line of another.
EmailFileIsComplete ==
  mode = 1 /\ main = "exited" /\ opened =>
    LET made == Getline(file, LineBreak)
    IN  Len(made) = num_emails /\ \A i \in DOMAIN made : made[i] \in GetRandomEmail

\* Mode 3 is "for skipping generator step" (random_emails_generator.cc:161): both
\* ways to a mapping, that one and a list of mode 2 given to generator_main.cc,
\* end, if all was stored and no email was drawn twice, in a mapping that a match
\* job parses into a table of as many of the file's emails as were asked for.
MappingMapsTheSample ==
  /\ exit = "EXIT_SUCCESS" /\ object = Sample /\ IsInjective(lines)
  /\ mode = 3 \/ (mode = 2 /\ toolExit = "EXIT_SUCCESS")
  => LET table == ParsedMapping(IF mode = 3 THEN object ELSE mapping)
     IN  /\ table # NoTable
         /\ Cardinality(DOMAIN table) = num_emails
         /\ DOMAIN table \subseteq Range(lines)

\* A run comes to an end, unless more lines are asked for than there are; and so
\* does the generation.
RunsEnd ==
  /\ main # "exited" ~>
       \/ main \in {"exited", "undefined"}
       \/ mode # 1 /\ num_emails > Len(lines)
  /\ tool # "none" ~> tool = "exited"
================================================================================
