-------------------------- MODULE RandomEmailsGenerator --------------------------
(****************************************************************************)
(* src/cc/experimental/random_emails_generator.cc, the tool that makes the  *)
(* lists of a demonstration (PAIRDEMO.md): one run in mode 1, which writes  *)
(* a file of random emails from many threads, and then one in mode 2 or 3,  *)
(* which pipes a sample of that file's lines to gcloud, as a list or, for   *)
(* skipping the generator, as a mapping.                                    *)
(****************************************************************************)
EXTENDS PublisherMapping

CONSTANTS
  Email,       \* an email, which is one character here
  NumThreads,  \* 30 in the code: the threads, and the emails worth having them
  MaxEmails,   \* bound of the model: emails asked for
  NoThread     \* nobody holds file_mutex

GetRandomEmail == {<<email>> : email \in Email}

\* GenerateUuid in the rows of a mapping: the UUIDs are numbered, and one character.
GenerateUuid == {<<i>> : i \in 1..MaxEmails}

ASSUME EmailsAssumption ==
  /\ NumThreads \in Nat \ {0}
  /\ MaxEmails \in Nat
  \* None is in kAllowedChars or a character of a UUID.
  /\ {LineBreak, Delimiter, Blank} \cap (Email \cup 1..MaxEmails) = {}
  /\ LineBreak # Delimiter
  /\ NoThread \notin 1..NumThreads
  /\ NoTable \notin Tables(GetRandomEmail, GenerateUuid)

Thread == 1..NumThreads

VARIABLES
  mode,           \* of the latest run: 1, 2 or 3
  num_emails,     \* its argument
  main,           \* where it is
  exit,           \* what it has returned, or "none"
  \* mode 1
  opened,         \* the ofstream could be opened
  file,           \* the text of the file
  file_mutex,
  thread,         \* thread[t]: "none", "making", "waiting", "writing", "ended"
  emails_string,  \* emails_string[t]: what t has still to write
  \* modes 2 and 3
  lines,          \* the lines of the file
  picked,         \* the indices picked so far; their set is seen_indices
  object          \* what gcloud has stored

makeVars == <<opened, file, file_mutex, thread, emails_string>>
uploadVars == <<lines, picked, object>>
emailVars == <<mode, num_emails, main, exit, makeVars, uploadVars>>

(****************************************************************************)
(* Mode 1: MakeEmailFile.                                                   *)
(****************************************************************************)

num_threads == IF num_emails < NumThreads THEN 1 ELSE NumThreads

\* The last thread makes the emails the division leaves over.
EmailsForThread(t) ==
  num_emails \div num_threads + IF t = num_threads THEN num_emails % num_threads ELSE 0

EmailsInit ==
  /\ mode = 1
  /\ num_emails \in 0..MaxEmails
  /\ main = "join"
  /\ exit = "none"
  /\ opened \in BOOLEAN
  /\ file = <<>>
  /\ file_mutex = NoThread
  /\ thread = [t \in Thread |-> IF t <= num_threads THEN "making" ELSE "none"]
  /\ emails_string = [t \in Thread |-> <<>>]
  /\ lines = <<>>
  /\ picked = <<>>
  /\ object = <<>>

ThreadGoes(t, from, to) ==
  /\ thread[t] = from
  /\ thread' = [thread EXCEPT ![t] = to]
  /\ UNCHANGED <<mode, num_emails, main, exit, opened, uploadVars>>

MakeEmails(t) ==
  /\ ThreadGoes(t, "making", "waiting")
  /\ \E emails \in TupleOf(GetRandomEmail, EmailsForThread(t)) :
       emails_string' =
         [emails_string EXCEPT ![t] =
           FlattenSeq([i \in DOMAIN emails |-> Append(emails[i], LineBreak)])]
  /\ UNCHANGED <<file, file_mutex>>

\* Mutation: nobody waits for the mutex.
LockNothing(t) ==
  /\ ThreadGoes(t, "waiting", "writing")
  /\ UNCHANGED <<file, file_mutex, emails_string>>

LockFile(t) ==
  /\ ThreadGoes(t, "waiting", "writing")
  /\ file_mutex = NoThread
  /\ file_mutex' = t
  /\ UNCHANGED <<file, emails_string>>

\* file << emails_string.  Into a file that is not open nothing is written, and
\* nobody asks.  (That an open one fails in the middle is left out.)
WriteSome(t) ==
  /\ emails_string[t] # <<>>
  /\ ThreadGoes(t, "writing", "writing")
  /\ file' = IF opened THEN Append(file, Head(emails_string[t])) ELSE file
  /\ emails_string' = [emails_string EXCEPT ![t] = Tail(@)]
  /\ UNCHANGED file_mutex

\* Mutation: the lock is kept.
EndThreadLocked(t) ==
  /\ emails_string[t] = <<>>
  /\ ThreadGoes(t, "writing", "ended")
  /\ UNCHANGED <<file, file_mutex, emails_string>>

\* The scoped_lock goes with the thread.
EndThread(t) ==
  /\ emails_string[t] = <<>>
  /\ ThreadGoes(t, "writing", "ended")
  /\ file_mutex' = NoThread
  /\ UNCHANGED <<file, emails_string>>

Return(code) == main' = "exited" /\ exit' = code

JoinThreads ==
  /\ mode = 1
  /\ main = "join"
  /\ \A t \in Thread : thread[t] \in {"none", "ended"}
  /\ Return("EXIT_SUCCESS")
  /\ UNCHANGED <<mode, num_emails, makeVars, uploadVars>>

(****************************************************************************)
(* Modes 2 and 3: UploadPubOrAdvList and UploadPubMapping.                  *)
(****************************************************************************)

\* Another run, with a bad mode or the wrong number of arguments.
RefuseArguments ==
  /\ mode = 1
  /\ main = "exited"
  /\ mode' \in 0..3
  /\ Return("EXIT_FAILURE")
  /\ UNCHANGED <<num_emails, makeVars, uploadVars>>

\* Another run, on the file of the first.
ReadLines ==
  /\ mode = 1
  /\ main = "exited"
  /\ mode' \in {2, 3}
  /\ num_emails' \in 0..MaxEmails
  /\ lines' = Getline(file, LineBreak)
  /\ main' = "sample"
  /\ exit' = "none"
  /\ UNCHANGED <<makeVars, picked, object>>

\* Mutation: an index may be picked again.
AnyIndex(index) == index \in DOMAIN lines

NewIndex(index) == index \in DOMAIN lines \ Range(picked)

\* One turn of the loop: indices are drawn until one is new.
PickLine ==
  /\ main = "sample"
  /\ Len(picked) < num_emails
  /\ \E index \in DOMAIN lines : NewIndex(index) /\ picked' = Append(picked, index)
  /\ UNCHANGED <<mode, num_emails, main, exit, makeVars, lines, object>>

\* All lines are picked and more are asked for: the drawing never ends.
DrawForEver ==
  /\ main = "sample"
  /\ lines # <<>> /\ Len(picked) < num_emails
  /\ Range(picked) = DOMAIN lines
  /\ UNCHANGED emailVars

\* lines[0] of an empty vector: anything may follow, nothing is followed here.
PickFromNothing ==
  /\ main = "sample"
  /\ lines = <<>> /\ num_emails > 0
  /\ main' = "undefined"
  /\ UNCHANGED <<mode, num_emails, exit, makeVars, uploadVars>>

\* email_csv, or mapping with a new UUID in each row.
Sample ==
  IF mode = 2
  THEN FlattenSeq([i \in DOMAIN picked |-> lines[picked[i]] \o <<LineBreak>>])
  ELSE MappingText([i \in DOMAIN picked |-> <<lines[picked[i]], <<i>> >>])

\* gcloud may store less than the sample, or nothing: fwrite's result is compared
\* with 0 and gcloud's own exit code is not looked at.
PipeToGcloud ==
  /\ main = "sample"
  /\ Len(picked) = num_emails
  /\ \/ Return("EXIT_FAILURE") /\ UNCHANGED object   \* popen failed
     \/ /\ \E n \in 0..Len(Sample) : object' = SubSeq(Sample, 1, n)
        /\ Return("EXIT_SUCCESS") \/ Return("EXIT_FAILURE")   \* pclose failed
  /\ UNCHANGED <<mode, num_emails, makeVars, lines, picked>>

MakeEmailFile ==
  \/ \E t \in Thread : MakeEmails(t) \/ LockFile(t) \/ WriteSome(t) \/ EndThread(t)
  \/ JoinThreads
Upload == PickLine \/ DrawForEver \/ PickFromNothing \/ PipeToGcloud

EmailsNext == MakeEmailFile \/ RefuseArguments \/ ReadLines \/ Upload
================================================================================
