-------------------------- MODULE GeneratorMain_proofs --------------------------
(****************************************************************************)
(* Proofs about GeneratorMain and the RandomEmailsGenerator it extends, for *)
(* any number of threads, any emails and any number of lines asked for.     *)
(* What makes EmailFileIsComplete hold is FileInv: the file, with what the  *)
(* holder of file_mutex has still to write, is at all times a text of whole *)
(* lines, as many as the threads that have had the mutex were given.        *)
(****************************************************************************)
EXTENDS GeneratorMain, CsvRow_proofs, FiniteSetTheorems

Char == Email \cup {LineBreak}

\* TypeOK, as it is used here.
FileTypes ==
  /\ opened \in BOOLEAN
  /\ file \in Seq(Char)
  /\ file_mutex \in Thread \cup {NoThread}
  /\ thread \in [Thread -> {"none", "making", "waiting", "writing", "ended"}]
  /\ emails_string \in [Thread -> Seq(Char)]
SampleTypes ==
  /\ mode \in 0..3
  /\ num_emails \in 0..MaxEmails
  /\ main \in {"join", "sample", "undefined", "exited"}
  /\ exit \in {"none", "EXIT_SUCCESS", "EXIT_FAILURE"}
  /\ lines \in Seq(GetRandomEmail)
  /\ picked \in Seq(DOMAIN lines)
ToolTypes ==
  /\ tool \in {"none", "starting", "generating", "stopping", "exited"}
  /\ toolExit \in {"none", "EXIT_SUCCESS", "EXIT_FAILURE"}
  /\ generation_result \in {"none", "Success", "Failure"}
TypeInv == FileTypes /\ SampleTypes /\ ToolTypes

\* A text of n whole lines, each an email.
EmailText(text, n) ==
  /\ Rest(text, LineBreak) = <<>>
  /\ CompleteLines(text) \in Seq(GetRandomEmail)
  /\ Len(CompleteLines(text)) = n

\* What a thread has still to write belongs to its place, and one thread writes.
ThreadInv ==
  /\ main = "join" => mode = 1
  /\ main # "join" => \A t \in Thread : thread[t] \in {"none", "ended"}
  /\ mode = 1 => \A t \in Thread : thread[t] = "none" <=> t > num_threads
  /\ \A t \in Thread :
       /\ thread[t] = "writing" <=> file_mutex = t
       /\ thread[t] \in {"none", "making", "ended"} => emails_string[t] = <<>>
       /\ thread[t] = "waiting" => EmailText(emails_string[t], EmailsForThread(t))

\* The threads that have had the mutex, what the one that has it still owes, and
\* the lines of a set of threads.
Begun == {t \in Thread : thread[t] \in {"writing", "ended"}}
Owed == IF file_mutex = NoThread THEN <<>> ELSE emails_string[file_mutex]
EmailsFor(threads) ==
  (num_emails \div num_threads) * Cardinality(threads)
    + IF num_threads \in threads THEN num_emails % num_threads ELSE 0

FileInv ==
  /\ ~opened => file = <<>>
  /\ opened /\ mode = 1 => EmailText(file \o Owed, EmailsFor(Begun))

\* A run in mode 2 or 3 that succeeds has picked as many lines as it was asked for.
SampleInv ==
  /\ mode = 1 => lines = <<>> /\ picked = <<>>
  /\ IsInjective(picked)
  /\ main = "sample" => mode \in {2, 3}
  /\ main # "exited" => exit = "none"
  /\ exit = "EXIT_SUCCESS" /\ mode # 1 => Len(picked) = num_emails

\* The mapping the generation makes of a list.
MappingOf(list) ==
  LET rows == CompleteLines(list)
  IN  MappingText([i \in DOMAIN rows |-> <<GetColumn(rows[i], 0), <<i>> >>])

\* The components that run are those begun and not stopped; the list is not
\* touched any more when the tool runs.
Started(k) == {ToolStartOrder[i] : i \in 1..k}
ToolInv ==
  /\ tool # "none" => mode = 2 /\ main = "exited" /\ exit = "EXIT_SUCCESS"
  /\ tool # "exited" => toolExit = "none"
  /\ tool = "none" => up = {}
  /\ tool = "starting" => \E k \in 0..3 : up = Started(k)
  /\ tool \in {"none", "starting", "generating"} => generation_result = "none"
  /\ up \subseteq Started(4)
  /\ toolExit = "EXIT_SUCCESS" => up = {} /\ generation_result = "Success"
  /\ generation_result = "Success" => mapping = MappingOf(object)

IInv == TypeInv /\ ThreadInv /\ FileInv /\ SampleInv /\ ToolInv

--------------------------------------------------------------------------------
\* The division into threads loses no email.
LEMMA Division ==
  ASSUME NEW n \in Nat, NEW k \in Nat \ {0}
  PROVE  n \div k \in Nat /\ n % k \in Nat /\ k * (n \div k) + (n % k) = n
OBVIOUS

LEMMA OneMore ==
  ASSUME NEW q \in Nat, NEW c \in Nat
  PROVE  q * (c + 1) = q * c + q /\ q * c \in Nat
OBVIOUS

LEMMA NumThreadsType ==
  ASSUME SampleTypes
  PROVE  /\ num_emails \in Nat /\ num_threads \in Nat \ {0} /\ num_threads \in Thread
         /\ num_emails \div num_threads \in Nat /\ num_emails % num_threads \in Nat
         /\ num_threads * (num_emails \div num_threads) + (num_emails % num_threads) = num_emails
<1>1. num_emails \in Nat /\ NumThreads \in Nat \ {0}
  BY EmailsAssumption DEF SampleTypes
<1>2. num_threads \in Nat \ {0} /\ num_threads \in Thread
  BY <1>1 DEF num_threads, Thread
<1> DEFINE k == num_threads
<1> HIDE DEF k
<1>3. k \in Nat \ {0}
  BY <1>2 DEF k
<1>4. num_emails \div k \in Nat /\ num_emails % k \in Nat
      /\ k * (num_emails \div k) + (num_emails % k) = num_emails
  BY <1>1, <1>3, Division
<1>5. QED
  BY <1>1, <1>2, <1>4 DEF k

LEMMA EmailsForOneMore ==
  ASSUME SampleTypes, NEW threads \in SUBSET Thread, NEW t \in Thread \ threads
  PROVE  /\ EmailsFor(threads) \in Nat /\ EmailsForThread(t) \in Nat
         /\ EmailsFor(threads \cup {t}) = EmailsFor(threads) + EmailsForThread(t)
<1> DEFINE q == num_emails \div num_threads
           r == num_emails % num_threads
           c == Cardinality(threads)
<1>1. q \in Nat /\ r \in Nat
  BY NumThreadsType
<1>2. IsFiniteSet(threads)
  <2>1. IsFiniteSet(Thread)
    BY EmailsAssumption, FS_Interval DEF Thread
  <2>2. QED
    BY <2>1, FS_Subset
<1>3. c \in Nat /\ Cardinality(threads \cup {t}) = c + 1
  BY <1>2, FS_CardinalityType, FS_AddElement
<1> HIDE DEF q, r, c
<1>4. q * (c + 1) = q * c + q /\ q * c \in Nat
  BY <1>1, <1>3, OneMore
<1>5. /\ EmailsFor(threads) = q * c + IF num_threads \in threads THEN r ELSE 0
      /\ EmailsForThread(t) = q + IF t = num_threads THEN r ELSE 0
      /\ EmailsFor(threads \cup {t}) = q * (c + 1) + IF num_threads \in threads \cup {t} THEN r ELSE 0
  BY <1>3 DEF EmailsFor, EmailsForThread, q, r, c
<1>6. QED
  BY <1>1, <1>4, <1>5

LEMMA EmailsForNobody ==
  ASSUME SampleTypes
  PROVE  EmailsFor({}) = 0
<1>1. Cardinality({}) = 0
  BY FS_EmptySet
<1>2. num_emails \div num_threads \in Nat
  BY NumThreadsType
<1>3. QED
  BY <1>1, <1>2 DEF EmailsFor

LEMMA EmailsForAll ==
  ASSUME SampleTypes
  PROVE  EmailsFor(1..num_threads) = num_emails
<1>1. Cardinality(1..num_threads) = num_threads /\ num_threads \in 1..num_threads
  <2> DEFINE k == num_threads
  <2>1. k \in Nat \ {0}
    BY NumThreadsType
  <2> HIDE DEF k
  <2>2. 1 \in Int /\ k \in Int /\ ~(1 > k) /\ k - 1 + 1 = k
    BY <2>1
  <2>3. Cardinality(1..k) = k
    BY <2>2, FS_Interval
  <2>4. QED
    BY <2>1, <2>3 DEF k
<1> DEFINE q == num_emails \div num_threads
           k == num_threads
<1>2. /\ k * q + (num_emails % k) = num_emails
      /\ q \in Nat /\ k \in Nat
  BY NumThreadsType
<1>3. k * q = q * k
  <2> HIDE DEF k, q
  <2>1. QED
    BY <1>2
<1>4. EmailsFor(1..num_threads) = q * k + (num_emails % k)
  BY <1>1 DEF EmailsFor
<1>5. QED
  <2> HIDE DEF k, q
  <2>1. QED
    BY <1>2, <1>3, <1>4

--------------------------------------------------------------------------------
\* Texts of emails.
LEMMA Characters ==
  /\ LineBreak \in Char /\ LineBreak # Delimiter
  /\ \A email \in Email : email \in Char /\ email \notin {LineBreak, Delimiter, Blank}
  /\ \A i \in 1..MaxEmails : i \notin {LineBreak, Delimiter, Blank}
  /\ MaxEmails \in Nat /\ NoThread \notin Thread
  /\ NoTable \notin Tables(GetRandomEmail, GenerateUuid)
<1>1. {LineBreak, Delimiter, Blank} \cap (Email \cup 1..MaxEmails) = {}
  BY EmailsAssumption, Zenon
<1>2. /\ LineBreak # Delimiter /\ MaxEmails \in Nat /\ NoThread \notin Thread
      /\ NoTable \notin Tables(GetRandomEmail, GenerateUuid)
  BY EmailsAssumption, Zenon DEF Thread
<1>3. \A x \in Email \cup 1..MaxEmails : x \notin {LineBreak, Delimiter, Blank}
  BY <1>1
<1>4. QED
  BY <1>2, <1>3 DEF Char

LEMMA EmailIsLine ==
  GetRandomEmail \subseteq {line \in Seq(Char) : LineBreak \notin ToSet(line)}
<1>1. SUFFICES ASSUME NEW email \in Email
               PROVE  <<email>> \in Seq(Char) /\ LineBreak \notin ToSet(<<email>>)
  BY DEF GetRandomEmail
<1>2. email \in Char /\ email # LineBreak
  BY Characters
<1>3. ToSet(<<email>>) = {email}
  BY DEF ToSet
<1>4. <<email>> \in Seq(Char)
  <2> HIDE DEF Char
  <2>1. QED
    BY <1>2
<1>5. QED
  BY <1>2, <1>3, <1>4

LEMMA NoEmailText == EmailText(<<>>, 0)
<1>1. Rest(<<>>, LineBreak) = <<>> /\ CompleteLines(<<>>) = <<>>
  BY NoTextNoLines
<1>2. QED
  BY <1>1, EmptySeq DEF EmailText

\* Lines that are emails, written one after another.
LEMMA EmailTextOfLines ==
  ASSUME NEW emails \in Seq(GetRandomEmail)
  PROVE  LET text == FlattenSeq([i \in DOMAIN emails |-> Append(emails[i], LineBreak)])
         IN  /\ text \in Seq(Char) /\ CompleteLines(text) = emails
             /\ EmailText(text, Len(emails))
<1> DEFINE L == {line \in Seq(Char) : LineBreak \notin ToSet(line)}
<1>1. emails \in Seq(L) /\ LineBreak \in Char
  <2>1. /\ Len(emails) \in Nat /\ \A i \in 1..Len(emails) : emails[i] \in GetRandomEmail
        /\ emails = [i \in 1..Len(emails) |-> emails[i]]
    BY LenProperties, ElementOfSeq
  <2>2. \A i \in 1..Len(emails) : emails[i] \in L
    BY <2>1, EmailIsLine
  <2> HIDE DEF L
  <2>3. emails \in Seq(L)
    BY <2>1, <2>2, IsASeq
  <2>4. QED
    BY <2>3, Characters
<1>2. LET text == FlattenSeq([i \in DOMAIN emails |-> Append(emails[i], LineBreak)])
      IN  text \in Seq(Char) /\ CompleteLines(text) = emails /\ Rest(text, LineBreak) = <<>>
  BY <1>1, LinesOfText
<1>3. QED
  BY <1>2, Zenon DEF EmailText

LEMMA EmailTextConcat ==
  ASSUME NEW p \in Seq(Char), NEW q \in Seq(Char), NEW m \in Nat, NEW n \in Nat,
         EmailText(p, m), EmailText(q, n)
  PROVE  EmailText(p \o q, m + n)
<1>1. /\ CompleteLines(p \o q) = CompleteLines(p) \o CompleteLines(q)
      /\ Rest(p \o q, LineBreak) = <<>>
  BY LinesConcat DEF EmailText
<1> DEFINE a == CompleteLines(p)
           b == CompleteLines(q)
<1>2. a \in Seq(GetRandomEmail) /\ b \in Seq(GetRandomEmail) /\ Len(a) = m /\ Len(b) = n
  BY DEF EmailText
<1> HIDE DEF a, b
<1>3. a \o b \in Seq(GetRandomEmail) /\ Len(a \o b) = m + n
  BY <1>2, ConcatProperties, LenProperties
<1>4. QED
  BY <1>1, <1>3, Zenon DEF EmailText, a, b

\* A character that is written moves from what is owed to the file.
LEMMA HeadMoves ==
  ASSUME NEW S, NEW p \in Seq(S), NEW q \in Seq(S), q # <<>>
  PROVE  /\ Append(p, Head(q)) \in Seq(S) /\ Tail(q) \in Seq(S)
         /\ Append(p, Head(q)) \o Tail(q) = p \o q
<1>1. Head(q) \in S /\ Tail(q) \in Seq(S) /\ q = <<Head(q)>> \o Tail(q)
  BY HeadTailProperties
<1> DEFINE h == Head(q)
           r == Tail(q)
<1>2. h \in S /\ r \in Seq(S) /\ q = <<h>> \o r
  BY <1>1
<1> HIDE DEF h, r
<1>3. <<h>> \in Seq(S) /\ Append(p, h) = p \o <<h>> /\ Append(p, h) \in Seq(S)
  BY <1>2, AppendIsConcat, AppendProperties
<1>4. (p \o <<h>>) \o r = p \o (<<h>> \o r)
  BY <1>2, <1>3, ConcatAssociative
<1>5. QED
  BY <1>2, <1>3, <1>4, Zenon DEF h, r

--------------------------------------------------------------------------------
\* The threads of mode 1.
ThreadFrame ==
  UNCHANGED <<mode, num_emails, main, exit, opened, uploadVars, toolVars>>

\* What a step of a thread does not touch.
LEMMA ThreadStepKeeps ==
  ASSUME IInv, ThreadFrame
  PROVE  /\ SampleTypes' /\ ToolTypes' /\ SampleInv' /\ ToolInv' /\ opened' \in BOOLEAN
         /\ mode' = mode /\ main' = main /\ opened' = opened
         /\ num_threads' = num_threads
         /\ \A t \in Thread : EmailsForThread(t)' = EmailsForThread(t)
         /\ \A threads : EmailsFor(threads)' = EmailsFor(threads)
<1> USE DEF ThreadFrame, uploadVars, toolVars
<1>1. num_threads' = num_threads /\ num_emails' = num_emails
  BY DEF num_threads
<1>2. /\ \A t \in Thread : EmailsForThread(t)' = EmailsForThread(t)
      /\ \A threads : EmailsFor(threads)' = EmailsFor(threads)
  BY <1>1, Zenon DEF EmailsForThread, EmailsFor
<1>3. SampleTypes' /\ ToolTypes' /\ opened' \in BOOLEAN
  BY DEF IInv, TypeInv, SampleTypes, ToolTypes, FileTypes
<1>4. SampleInv'
  BY DEF IInv, SampleInv
<1>5. ToolInv'
  <2>1. \A k : Started(k)' = Started(k)
    BY Zenon DEF Started
  <2>2. MappingOf(object)' = MappingOf(object)
    BY Zenon DEF MappingOf
  <2>3. QED
    BY <2>1, <2>2 DEF IInv, ToolInv
<1>6. QED
  BY <1>1, <1>2, <1>3, <1>4, <1>5

\* A thread that has its emails, or has still to make them, is one of main's.
LEMMA ThreadIsJoined ==
  ASSUME ThreadInv, NEW t \in Thread, thread[t] \in {"making", "waiting", "writing"}
  PROVE  main = "join" /\ mode = 1 /\ ~(t > num_threads)
BY DEF ThreadInv

LEMMA MakeEmailsStep ==
  ASSUME IInv, NEW t \in Thread, MakeEmails(t), UNCHANGED toolVars
  PROVE  IInv'
<1>1. /\ thread[t] = "making"
      /\ thread' = [thread EXCEPT ![t] = "waiting"]
      /\ ThreadFrame
      /\ UNCHANGED <<file, file_mutex>>
  BY DEF MakeEmails, ThreadGoes, ThreadFrame
<1>2. FileTypes /\ SampleTypes /\ ThreadInv /\ FileInv
  BY DEF IInv, TypeInv
<1> DEFINE n == EmailsForThread(t)
           TextOf(emails) == FlattenSeq([i \in DOMAIN emails |-> Append(emails[i], LineBreak)])
<1>3. n \in Nat
  BY <1>2, EmailsForOneMore
<1>4. PICK emails \in TupleOf(GetRandomEmail, n) :
        emails_string' = [emails_string EXCEPT ![t] = TextOf(emails)]
  BY DEF MakeEmails
<1> DEFINE text == TextOf(emails)
<1>5. text \in Seq(Char) /\ EmailText(text, n)
  <2> HIDE DEF n
  <2>1. emails \in [1..n -> GetRandomEmail]
    BY <1>4 DEF TupleOf
  <2>2. emails \in Seq(GetRandomEmail) /\ Len(emails) = n
    BY <1>3, <2>1, LenProperties
  <2>3. QED
    BY <2>2, EmailTextOfLines
<1> HIDE DEF text, n, TextOf
<1>6. /\ \A u \in Thread : /\ thread'[u] = IF u = t THEN "waiting" ELSE thread[u]
                           /\ emails_string'[u] = IF u = t THEN text ELSE emails_string[u]
      /\ FileTypes'
  BY <1>1, <1>2, <1>4, <1>5 DEF FileTypes, text, ThreadFrame
<1>7. main = "join" /\ mode = 1 /\ ~(t > num_threads)
  BY <1>1, <1>2, ThreadIsJoined
<1>8. /\ SampleTypes' /\ ToolTypes' /\ SampleInv' /\ ToolInv'
      /\ mode' = mode /\ main' = main /\ opened' = opened /\ num_threads' = num_threads
      /\ \A u \in Thread : EmailsForThread(u)' = EmailsForThread(u)
      /\ \A threads : EmailsFor(threads)' = EmailsFor(threads)
  BY <1>1, ThreadStepKeeps
<1>9. ThreadInv'
  <2>1. EmailText(emails_string[t], EmailsForThread(t))'
    BY <1>5, <1>6, <1>8 DEF n, EmailText
  <2>2. ASSUME NEW u \in Thread, u # t
        PROVE  /\ (thread[u] = "writing" <=> file_mutex = u)'
               /\ (thread[u] \in {"none", "making", "ended"} => emails_string[u] = <<>>)'
               /\ (thread[u] = "waiting" => EmailText(emails_string[u], EmailsForThread(u)))'
    BY <1>1, <1>2, <1>6, <1>8, <2>2 DEF ThreadInv, EmailText
  <2>3. file_mutex # t
    BY <1>1, <1>2 DEF ThreadInv
  <2>4. \A u \in Thread : thread'[u] = "none" <=> u > num_threads
    BY <1>1, <1>2, <1>6, <1>7 DEF ThreadInv
  <2>5. QED
    BY <1>1, <1>6, <1>7, <1>8, <2>1, <2>2, <2>3, <2>4 DEF ThreadInv
<1>10. FileInv'
  <2>1. Begun' = Begun
    BY <1>1, <1>6 DEF Begun
  <2>2. Owed' = Owed
    BY <1>1, <1>2, <1>6 DEF Owed, ThreadInv, FileTypes
  <2>3. EmailsFor(Begun)' = EmailsFor(Begun)
    BY <1>8, <2>1 DEF EmailsFor
  <2>4. QED
    BY <1>1, <1>2, <1>8, <2>2, <2>3 DEF FileInv, EmailText
<1>11. QED
  BY <1>6, <1>8, <1>9, <1>10 DEF IInv, TypeInv

\* The mutex is free, so the file is whole, and nothing was owed.
LEMMA LockFileStep ==
  ASSUME IInv, NEW t \in Thread, LockFile(t), UNCHANGED toolVars
  PROVE  IInv'
<1>1. /\ thread[t] = "waiting" /\ file_mutex = NoThread
      /\ thread' = [thread EXCEPT ![t] = "writing"]
      /\ file_mutex' = t
      /\ ThreadFrame
      /\ UNCHANGED <<file, emails_string>>
  BY DEF LockFile, ThreadGoes, ThreadFrame
<1>2. FileTypes /\ SampleTypes /\ ThreadInv /\ FileInv
  BY DEF IInv, TypeInv
<1>3. /\ \A u \in Thread : thread'[u] = IF u = t THEN "writing" ELSE thread[u]
      /\ FileTypes'
  BY <1>1, <1>2 DEF FileTypes, ThreadFrame
<1>4. main = "join" /\ mode = 1 /\ ~(t > num_threads)
  BY <1>1, <1>2, ThreadIsJoined
<1>5. /\ SampleTypes' /\ ToolTypes' /\ SampleInv' /\ ToolInv'
      /\ mode' = mode /\ main' = main /\ opened' = opened /\ num_threads' = num_threads
      /\ \A u \in Thread : EmailsForThread(u)' = EmailsForThread(u)
      /\ \A threads : EmailsFor(threads)' = EmailsFor(threads)
  BY <1>1, ThreadStepKeeps
<1>6. NoThread \notin Thread
  BY Characters
<1>7. ThreadInv'
  <2>1. \A u \in Thread : thread[u] # "writing"
    BY <1>1, <1>2, <1>6 DEF ThreadInv
  <2>2. \A u \in Thread :
          /\ (thread[u] = "writing" <=> file_mutex = u)'
          /\ (thread[u] \in {"none", "making", "ended"} => emails_string[u] = <<>>)'
          /\ (thread[u] = "waiting" => EmailText(emails_string[u], EmailsForThread(u)))'
    BY <1>1, <1>2, <1>3, <1>5, <2>1 DEF ThreadInv, EmailText
  <2>3. \A u \in Thread : thread'[u] = "none" <=> u > num_threads
    BY <1>1, <1>2, <1>3, <1>4 DEF ThreadInv
  <2>4. QED
    BY <1>4, <1>5, <2>2, <2>3 DEF ThreadInv
<1>8. FileInv'
  <2>1. SUFFICES ASSUME opened PROVE EmailText(file \o Owed, EmailsFor(Begun))'
    BY <1>1, <1>2, <1>4, <1>5 DEF FileInv
  <2> DEFINE string == emails_string[t]
             n      == EmailsForThread(t)
             m      == EmailsFor(Begun)
  <2>2. /\ Begun \in SUBSET Thread /\ t \in Thread \ Begun
        /\ Begun' = Begun \cup {t}
    BY <1>1, <1>3 DEF Begun
  <2>3. m \in Nat /\ n \in Nat /\ EmailsFor(Begun \cup {t}) = m + n
    BY <1>2, <2>2, EmailsForOneMore
  <2>4. file \in Seq(Char) /\ string \in Seq(Char) /\ EmailText(string, n)
    BY <1>1, <1>2 DEF FileTypes, ThreadInv
  <2>5. EmailText(file, m)
    <3>1. Owed = <<>> /\ file \o <<>> = file
      BY <1>1, <2>4, ConcatEmptySeq DEF Owed
    <3>2. QED
      BY <1>2, <1>4, <2>1, <3>1 DEF FileInv
  <2>6. Owed' = string
    BY <1>1, <1>6 DEF Owed
  <2>7. EmailsFor(Begun)' = m + n
    BY <1>5, <2>2, <2>3 DEF EmailsFor
  <2> HIDE DEF string, m, n
  <2>8. EmailText(file \o string, m + n)
    BY <2>3, <2>4, <2>5, EmailTextConcat
  <2>9. QED
    BY <1>1, <2>6, <2>7, <2>8 DEF EmailText
<1>9. QED
  BY <1>3, <1>5, <1>7, <1>8 DEF IInv, TypeInv

\* A character goes from what is owed to the file, if that is open.
LEMMA WriteSomeStep ==
  ASSUME IInv, NEW t \in Thread, WriteSome(t), UNCHANGED toolVars
  PROVE  IInv'
<1>1. /\ thread[t] = "writing" /\ emails_string[t] # <<>>
      /\ thread' = [thread EXCEPT ![t] = "writing"]
      /\ file' = IF opened THEN Append(file, Head(emails_string[t])) ELSE file
      /\ emails_string' = [emails_string EXCEPT ![t] = Tail(emails_string[t])]
      /\ ThreadFrame
      /\ UNCHANGED file_mutex
  BY DEF WriteSome, ThreadGoes, ThreadFrame
<1>2. FileTypes /\ SampleTypes /\ ThreadInv /\ FileInv
  BY DEF IInv, TypeInv
<1> DEFINE string == emails_string[t]
<1>3. /\ file \in Seq(Char) /\ string \in Seq(Char) /\ string # <<>>
      /\ Append(file, Head(string)) \in Seq(Char) /\ Tail(string) \in Seq(Char)
      /\ Append(file, Head(string)) \o Tail(string) = file \o string
  <2>1. file \in Seq(Char) /\ string \in Seq(Char) /\ string # <<>>
    BY <1>1, <1>2 DEF FileTypes
  <2> HIDE DEF string
  <2>2. QED
    BY <2>1, HeadMoves
<1> HIDE DEF string
<1>4. /\ thread' = thread
      /\ \A u \in Thread :
           emails_string'[u] = IF u = t THEN Tail(string) ELSE emails_string[u]
      /\ FileTypes'
  BY <1>1, <1>2, <1>3 DEF FileTypes, ThreadFrame, string
<1>5. main = "join" /\ mode = 1 /\ ~(t > num_threads)
  BY <1>1, <1>2, ThreadIsJoined
<1>6. /\ SampleTypes' /\ ToolTypes' /\ SampleInv' /\ ToolInv'
      /\ mode' = mode /\ main' = main /\ opened' = opened /\ num_threads' = num_threads
      /\ \A u \in Thread : EmailsForThread(u)' = EmailsForThread(u)
      /\ \A threads : EmailsFor(threads)' = EmailsFor(threads)
  BY <1>1, ThreadStepKeeps
<1>7. ThreadInv'
  <2>1. \A u \in Thread :
          /\ (thread[u] = "writing" <=> file_mutex = u)'
          /\ (thread[u] \in {"none", "making", "ended"} => emails_string[u] = <<>>)'
          /\ (thread[u] = "waiting" => EmailText(emails_string[u], EmailsForThread(u)))'
    BY <1>1, <1>2, <1>4, <1>6 DEF ThreadInv, EmailText
  <2>2. QED
    BY <1>2, <1>4, <1>6, <2>1 DEF ThreadInv
<1>8. FileInv'
  <2>1. Begun' = Begun
    BY <1>4 DEF Begun
  <2>2. file_mutex = t /\ file_mutex' = t /\ t # NoThread
    BY <1>1, <1>2, Characters DEF ThreadInv
  <2>3. Owed = string /\ Owed' = Tail(string)
    BY <1>4, <2>2 DEF Owed, string
  <2>4. opened => file' \o Owed' = file \o Owed
    BY <1>1, <1>3, <2>3, Zenon DEF string
  <2>5. EmailsFor(Begun)' = EmailsFor(Begun)
    BY <1>6, <2>1 DEF EmailsFor
  <2>6. QED
    BY <1>1, <1>2, <1>6, <2>4, <2>5 DEF FileInv, EmailText
<1>9. QED
  BY <1>4, <1>6, <1>7, <1>8 DEF IInv, TypeInv

\* All is written that was owed.
LEMMA EndThreadStep ==
  ASSUME IInv, NEW t \in Thread, EndThread(t), UNCHANGED toolVars
  PROVE  IInv'
<1>1. /\ thread[t] = "writing" /\ emails_string[t] = <<>>
      /\ thread' = [thread EXCEPT ![t] = "ended"]
      /\ file_mutex' = NoThread
      /\ ThreadFrame
      /\ UNCHANGED <<file, emails_string>>
  BY DEF EndThread, ThreadGoes, ThreadFrame
<1>2. FileTypes /\ SampleTypes /\ ThreadInv /\ FileInv
  BY DEF IInv, TypeInv
<1>3. /\ \A u \in Thread : thread'[u] = IF u = t THEN "ended" ELSE thread[u]
      /\ FileTypes'
  BY <1>1, <1>2 DEF FileTypes, ThreadFrame
<1>4. main = "join" /\ mode = 1 /\ ~(t > num_threads)
  BY <1>1, <1>2, ThreadIsJoined
<1>5. /\ SampleTypes' /\ ToolTypes' /\ SampleInv' /\ ToolInv'
      /\ mode' = mode /\ main' = main /\ opened' = opened /\ num_threads' = num_threads
      /\ \A u \in Thread : EmailsForThread(u)' = EmailsForThread(u)
      /\ \A threads : EmailsFor(threads)' = EmailsFor(threads)
  BY <1>1, ThreadStepKeeps
<1>6. NoThread \notin Thread /\ file_mutex = t
  BY <1>1, <1>2, Characters DEF ThreadInv
<1>7. ThreadInv'
  <2>1. \A u \in Thread : u # t => thread[u] # "writing"
    BY <1>2, <1>6 DEF ThreadInv
  <2>2. \A u \in Thread :
          /\ (thread[u] = "writing" <=> file_mutex = u)'
          /\ (thread[u] \in {"none", "making", "ended"} => emails_string[u] = <<>>)'
          /\ (thread[u] = "waiting" => EmailText(emails_string[u], EmailsForThread(u)))'
    BY <1>1, <1>2, <1>3, <1>5, <1>6, <2>1 DEF ThreadInv, EmailText
  <2>3. \A u \in Thread : thread'[u] = "none" <=> u > num_threads
    BY <1>1, <1>2, <1>3, <1>4 DEF ThreadInv
  <2>4. QED
    BY <1>4, <1>5, <2>2, <2>3 DEF ThreadInv
<1>8. FileInv'
  <2>1. Begun' = Begun
    BY <1>1, <1>3 DEF Begun
  <2>2. Owed = <<>> /\ Owed' = <<>>
    BY <1>1, <1>6 DEF Owed
  <2>3. EmailsFor(Begun)' = EmailsFor(Begun)
    BY <1>5, <2>1 DEF EmailsFor
  <2>4. QED
    BY <1>1, <1>2, <1>5, <2>2, <2>3 DEF FileInv, EmailText
<1>9. QED
  BY <1>3, <1>5, <1>7, <1>8 DEF IInv, TypeInv

--------------------------------------------------------------------------------
\* The steps of main.  The threads have ended, the tool has not begun.
LEMMA ThreadsAtRest ==
  ASSUME IInv, UNCHANGED makeVars, main' # "join",
         \A t \in Thread : thread[t] \in {"none", "ended"},
         mode' = 1 => mode = 1 /\ num_emails' = num_emails
  PROVE  FileTypes' /\ ThreadInv' /\ FileInv'
<1> USE DEF makeVars
<1>1. FileTypes /\ ThreadInv /\ FileInv
  BY DEF IInv, TypeInv
<1>2. FileTypes'
  BY <1>1 DEF FileTypes
<1>3. mode' = 1 => num_threads' = num_threads
  BY DEF num_threads
<1>4. ThreadInv'
  BY <1>1, <1>3 DEF ThreadInv
<1>5. FileInv'
  <2>1. Begun' = Begun /\ Owed' = Owed
    BY DEF Begun, Owed
  <2>2. mode' = 1 => EmailsFor(Begun)' = EmailsFor(Begun)
    <3>1. SUFFICES ASSUME mode' = 1 PROVE EmailsFor(Begun)' = EmailsFor(Begun)
      OBVIOUS
    <3>2. num_threads' = num_threads /\ num_emails' = num_emails
      BY <1>3, <3>1
    <3>3. QED
      BY <2>1, <3>2, Zenon DEF EmailsFor
  <2>3. QED
    BY <1>1, <2>1, <2>2 DEF FileInv, EmailText
<1>6. QED
  BY <1>2, <1>4, <1>5

LEMMA ToolAtRest ==
  ASSUME IInv, tool = "none", UNCHANGED toolVars
  PROVE  ToolTypes' /\ ToolInv'
<1>1. /\ tool' = "none" /\ up' = {} /\ generation_result' = "none" /\ toolExit' = "none"
  BY DEF IInv, ToolInv, toolVars
<1>2. QED
  BY <1>1 DEF ToolTypes, ToolInv

LEMMA JoinThreadsStep ==
  ASSUME IInv, JoinThreads, UNCHANGED toolVars
  PROVE  IInv'
<1>1. /\ mode = 1 /\ main = "join" /\ main' = "exited" /\ exit' = "EXIT_SUCCESS"
      /\ \A t \in Thread : thread[t] \in {"none", "ended"}
      /\ UNCHANGED <<mode, num_emails, makeVars, uploadVars>>
  BY DEF JoinThreads, Return
<1>2. FileTypes' /\ ThreadInv' /\ FileInv'
  BY <1>1, ThreadsAtRest
<1>3. ToolTypes' /\ ToolInv'
  BY <1>1, ToolAtRest DEF IInv, ToolInv
<1>4. SampleTypes' /\ SampleInv'
  BY <1>1 DEF IInv, TypeInv, SampleTypes, SampleInv, uploadVars
<1>5. QED
  BY <1>2, <1>3, <1>4 DEF IInv, TypeInv

LEMMA RefuseArgumentsStep ==
  ASSUME IInv, RefuseArguments, UNCHANGED toolVars
  PROVE  IInv'
<1>1. /\ mode = 1 /\ mode' \in 0..3 /\ main = "exited" /\ main' = "exited"
      /\ exit' = "EXIT_FAILURE"
      /\ UNCHANGED <<num_emails, makeVars, uploadVars>>
  BY DEF RefuseArguments, Return
<1>2. \A t \in Thread : thread[t] \in {"none", "ended"}
  BY <1>1 DEF IInv, ThreadInv
<1>3. FileTypes' /\ ThreadInv' /\ FileInv'
  BY <1>1, <1>2, ThreadsAtRest
<1>4. ToolTypes' /\ ToolInv'
  BY <1>1, ToolAtRest DEF IInv, ToolInv
<1>5. SampleTypes' /\ SampleInv'
  BY <1>1 DEF IInv, TypeInv, SampleTypes, SampleInv, uploadVars
<1>6. QED
  BY <1>3, <1>4, <1>5 DEF IInv, TypeInv

\* The file that the threads have left, as getline reads it.
LEMMA FileRead ==
  ASSUME IInv, mode = 1, main = "exited"
  PROVE  /\ Getline(file, LineBreak) \in Seq(GetRandomEmail)
         /\ opened => Len(Getline(file, LineBreak)) = num_emails
<1>1. /\ FileTypes /\ SampleTypes /\ ThreadInv /\ FileInv
      /\ \A t \in Thread : thread[t] \in {"none", "ended"}
  BY DEF IInv, TypeInv, ThreadInv
<1>2. CASE ~opened
  <2>1. file = <<>>
    BY <1>1, <1>2 DEF FileInv
  <2>2. <<>> \in Seq(Char)
    BY EmptySeq
  <2>3. Rest(<<>>, LineBreak) = <<>> /\ CompleteLines(<<>>) = <<>>
    BY NoTextNoLines
  <2>4. Getline(file, LineBreak) = <<>>
    BY <2>1, <2>2, <2>3, WholeLines
  <2>5. QED
    BY <1>2, <2>4, EmptySeq
<1>3. CASE opened
  <2>1. Owed = <<>>
    BY <1>1 DEF FileTypes, ThreadInv, Owed
  <2>2. file \in Seq(Char) /\ file \o <<>> = file
    BY <1>1, ConcatEmptySeq DEF FileTypes
  <2>3. EmailText(file, EmailsFor(Begun))
    BY <1>1, <1>3, <2>1, <2>2 DEF FileInv
  <2>4. Begun = 1..num_threads
    <3>1. \A t \in Thread : thread[t] = "ended" <=> ~(t > num_threads)
      BY <1>1 DEF ThreadInv
    <3>2. num_threads \in Thread /\ Thread \subseteq Nat
      BY <1>1, NumThreadsType DEF Thread
    <3>3. \A t \in Thread : thread[t] = "ended" <=> t \in 1..num_threads
      BY <3>1, <3>2 DEF Thread
    <3>4. 1..num_threads \subseteq Thread
      BY <3>2, EmailsAssumption DEF Thread
    <3>5. QED
      BY <1>1, <3>3, <3>4 DEF Begun
  <2>5. EmailsFor(Begun) = num_emails
    BY <1>1, <2>4, EmailsForAll
  <2>6. Getline(file, LineBreak) = CompleteLines(file)
    BY <2>2, <2>3, WholeLines DEF EmailText
  <2>7. QED
    BY <2>3, <2>5, <2>6 DEF EmailText
<1>4. QED
  BY <1>2, <1>3

LEMMA ReadLinesStep ==
  ASSUME IInv, ReadLines, UNCHANGED toolVars
  PROVE  IInv'
<1>1. /\ mode = 1 /\ mode' \in {2, 3} /\ main = "exited" /\ main' = "sample"
      /\ exit' = "none" /\ num_emails' \in 0..MaxEmails
      /\ lines' = Getline(file, LineBreak)
      /\ UNCHANGED <<makeVars, picked, object>>
  BY DEF ReadLines
<1>2. \A t \in Thread : thread[t] \in {"none", "ended"}
  BY <1>1 DEF IInv, ThreadInv
<1>3. FileTypes' /\ ThreadInv' /\ FileInv'
  BY <1>1, <1>2, ThreadsAtRest
<1>4. ToolTypes' /\ ToolInv'
  BY <1>1, ToolAtRest DEF IInv, ToolInv
<1>5. lines' \in Seq(GetRandomEmail)
  BY <1>1, FileRead
<1>6. picked = <<>> /\ <<>> \in Seq(DOMAIN lines')
  BY <1>1, EmptySeq DEF IInv, SampleInv
<1>7. SampleTypes' /\ SampleInv'
  BY <1>1, <1>5, <1>6 DEF IInv, TypeInv, SampleTypes, SampleInv
<1>8. QED
  BY <1>3, <1>4, <1>7 DEF IInv, TypeInv

\* In modes 2 and 3 the file is not touched any more.
LEMMA SamplingKeeps ==
  ASSUME IInv, main = "sample", main' # "join", UNCHANGED toolVars,
         UNCHANGED <<mode, num_emails, makeVars>>
  PROVE  /\ FileTypes' /\ ThreadInv' /\ FileInv' /\ ToolTypes' /\ ToolInv'
         /\ mode \in {2, 3} /\ exit = "none"
<1>1. \A t \in Thread : thread[t] \in {"none", "ended"}
  BY DEF IInv, ThreadInv
<1>2. tool = "none" /\ mode \in {2, 3} /\ exit = "none"
  BY DEF IInv, ToolInv, SampleInv
<1>3. QED
  BY <1>1, <1>2, ThreadsAtRest, ToolAtRest

LEMMA PickLineStep ==
  ASSUME IInv, PickLine, UNCHANGED toolVars
  PROVE  IInv'
<1>1. /\ main = "sample"
      /\ UNCHANGED <<mode, num_emails, main, exit, makeVars, lines, object>>
  BY DEF PickLine
<1>2. PICK index \in DOMAIN lines \ Range(picked) : picked' = Append(picked, index)
  BY DEF PickLine, NewIndex
<1>3. /\ FileTypes' /\ ThreadInv' /\ FileInv' /\ ToolTypes' /\ ToolInv'
      /\ mode \in {2, 3} /\ exit = "none"
  BY <1>1, SamplingKeeps
<1>4. picked \in Seq(DOMAIN lines) /\ IsInjective(picked)
  BY DEF IInv, TypeInv, SampleTypes, SampleInv
<1>5. picked' \in Seq(DOMAIN lines)
  <2> DEFINE D == DOMAIN lines
  <2> HIDE DEF D
  <2>1. picked \in Seq(D) /\ index \in D
    BY <1>2, <1>4 DEF D
  <2>2. QED
    BY <1>2, <2>1, AppendProperties DEF D
<1>6. IsInjective(picked')
  <2>1. /\ Len(picked) \in Nat /\ DOMAIN picked = 1..Len(picked)
        /\ DOMAIN picked' = 1..Len(picked) + 1
        /\ \A i \in 1..Len(picked) : picked'[i] = picked[i]
        /\ picked'[Len(picked) + 1] = index
    BY <1>2, <1>4, <1>5, LenProperties, AppendProperties
  <2>2. \A i \in 1..Len(picked) : picked[i] # index
    BY <1>2, <2>1 DEF Range
  <2>3. ASSUME NEW i \in DOMAIN picked', NEW j \in DOMAIN picked', picked'[i] = picked'[j]
        PROVE  i = j
    <3>1. (i \in 1..Len(picked) \/ i = Len(picked) + 1) /\ (j \in 1..Len(picked) \/ j = Len(picked) + 1)
      BY <2>1
    <3>2. CASE i \in 1..Len(picked) /\ j \in 1..Len(picked)
      BY <1>4, <2>1, <2>3, <3>2 DEF IsInjective
    <3>3. CASE i = Len(picked) + 1 \/ j = Len(picked) + 1
      BY <2>1, <2>2, <2>3, <3>1, <3>3
    <3>4. QED
      BY <3>1, <3>2, <3>3
  <2>4. QED
    BY <2>3 DEF IsInjective
<1>7. SampleTypes' /\ SampleInv'
  BY <1>1, <1>3, <1>5, <1>6 DEF IInv, TypeInv, SampleTypes, SampleInv
<1>8. QED
  BY <1>3, <1>7 DEF IInv, TypeInv

LEMMA PickFromNothingStep ==
  ASSUME IInv, PickFromNothing, UNCHANGED toolVars
  PROVE  IInv'
<1>1. /\ main = "sample" /\ main' = "undefined"
      /\ UNCHANGED <<mode, num_emails, exit, makeVars, uploadVars>>
  BY DEF PickFromNothing
<1>2. /\ FileTypes' /\ ThreadInv' /\ FileInv' /\ ToolTypes' /\ ToolInv'
      /\ mode \in {2, 3} /\ exit = "none"
  BY <1>1, SamplingKeeps
<1>3. SampleTypes' /\ SampleInv'
  BY <1>1, <1>2 DEF IInv, TypeInv, SampleTypes, SampleInv, uploadVars
<1>4. QED
  BY <1>2, <1>3 DEF IInv, TypeInv

LEMMA PipeToGcloudStep ==
  ASSUME IInv, PipeToGcloud, UNCHANGED toolVars
  PROVE  IInv'
<1>1. /\ main = "sample" /\ main' = "exited" /\ exit' \in {"EXIT_SUCCESS", "EXIT_FAILURE"}
      /\ Len(picked) = num_emails
      /\ UNCHANGED <<mode, num_emails, makeVars, lines, picked>>
  BY DEF PipeToGcloud, Return
<1>2. /\ FileTypes' /\ ThreadInv' /\ FileInv' /\ ToolTypes' /\ ToolInv'
      /\ mode \in {2, 3} /\ exit = "none"
  BY <1>1, SamplingKeeps
<1>3. SampleTypes' /\ SampleInv'
  BY <1>1, <1>2 DEF IInv, TypeInv, SampleTypes, SampleInv
<1>4. QED
  BY <1>2, <1>3 DEF IInv, TypeInv

--------------------------------------------------------------------------------
\* The steps of the tool.
LEMMA StartedComponents ==
  /\ Started(0) = {} /\ Cardinality(Started(0)) = 0
  /\ \A k \in 0..3 : /\ Cardinality(Started(k)) = k /\ Cardinality(Started(k + 1)) = k + 1
                     /\ Started(k + 1) = Started(k) \cup {ToolStartOrder[k + 1]}
                     /\ Started(k + 1) \subseteq Started(4)
  /\ Started(4) = Range(ToolStartOrder) /\ Started(4) = Range(ToolStopOrder)
  /\ Len(ToolStartOrder) = 4
<1>1. /\ Started(0) = {}
      /\ \A k \in 0..3 : Started(k + 1) = Started(k) \cup {ToolStartOrder[k + 1]}
  <2>1. \A k \in 0..3 : 1..(k + 1) = 1..k \cup {k + 1}
    OBVIOUS
  <2>2. 1..0 = {}
    OBVIOUS
  <2>3. QED
    BY <2>1, <2>2 DEF Started
<1>2. /\ Started(1) = {"cpu_async_executor"}
      /\ Started(2) = {"cpu_async_executor", "io_async_executor"}
      /\ Started(3) = {"cpu_async_executor", "io_async_executor", "cpio"}
      /\ Started(4) = {"cpu_async_executor", "io_async_executor", "cpio", "blob_storage_client"}
  <2>1. /\ ToolStartOrder[1] = "cpu_async_executor" /\ ToolStartOrder[2] = "io_async_executor"
        /\ ToolStartOrder[3] = "cpio" /\ ToolStartOrder[4] = "blob_storage_client"
    BY DEF ToolStartOrder
  <2>2. /\ Started(0 + 1) = Started(0) \cup {ToolStartOrder[0 + 1]}
        /\ Started(1 + 1) = Started(1) \cup {ToolStartOrder[1 + 1]}
        /\ Started(2 + 1) = Started(2) \cup {ToolStartOrder[2 + 1]}
        /\ Started(3 + 1) = Started(3) \cup {ToolStartOrder[3 + 1]}
    BY <1>1
  <2>3. 0 + 1 = 1 /\ 1 + 1 = 2 /\ 2 + 1 = 3 /\ 3 + 1 = 4
    OBVIOUS
  <2>4. QED
    BY <1>1, <2>1, <2>2, <2>3
<1>3. /\ Cardinality(Started(0)) = 0 /\ IsFiniteSet(Started(0))
      /\ Cardinality(Started(1)) = 1 /\ IsFiniteSet(Started(1))
      /\ Cardinality(Started(2)) = 2 /\ IsFiniteSet(Started(2))
      /\ Cardinality(Started(3)) = 3 /\ IsFiniteSet(Started(3))
      /\ Cardinality(Started(4)) = 4
  <2>1. Cardinality(Started(0)) = 0 /\ IsFiniteSet(Started(0))
    BY <1>1, FS_EmptySet
  <2>2. /\ Started(1) = Started(0) \cup {"cpu_async_executor"}
        /\ "cpu_async_executor" \notin Started(0)
        /\ Started(2) = Started(1) \cup {"io_async_executor"}
        /\ "io_async_executor" \notin Started(1)
        /\ Started(3) = Started(2) \cup {"cpio"} /\ "cpio" \notin Started(2)
        /\ Started(4) = Started(3) \cup {"blob_storage_client"}
        /\ "blob_storage_client" \notin Started(3)
    BY <1>1, <1>2
  <2>3. IsFiniteSet(Started(1)) /\ Cardinality(Started(1)) = 0 + 1
    BY <2>1, <2>2, FS_AddElement
  <2>4. IsFiniteSet(Started(2)) /\ Cardinality(Started(2)) = 0 + 1 + 1
    BY <2>2, <2>3, FS_AddElement
  <2>5. IsFiniteSet(Started(3)) /\ Cardinality(Started(3)) = 0 + 1 + 1 + 1
    BY <2>2, <2>4, FS_AddElement
  <2>6. Cardinality(Started(4)) = 0 + 1 + 1 + 1 + 1
    <3> DEFINE three == Started(3)
               x     == "blob_storage_client"
    <3>1. IsFiniteSet(three) /\ x \notin three /\ Started(4) = three \cup {x}
      BY <2>2, <2>5
    <3> HIDE DEF three, x
    <3>2. Cardinality(three \cup {x}) = Cardinality(three) + 1
      BY <3>1, FS_AddElement
    <3>3. QED
      BY <2>5, <3>1, <3>2 DEF three
  <2>7. QED
    BY <2>1, <2>3, <2>4, <2>5, <2>6
<1>4. \A k \in 0..3 : k = 0 \/ k = 1 \/ k = 2 \/ k = 3
  OBVIOUS
<1>5. ASSUME NEW k \in 0..3
      PROVE  /\ Cardinality(Started(k)) = k /\ Cardinality(Started(k + 1)) = k + 1
             /\ Started(k + 1) \subseteq Started(4)
  BY <1>2, <1>3, <1>4
<1>6. Len(ToolStartOrder) = 4 /\ Len(ToolStopOrder) = 4
  BY DEF ToolStartOrder, ToolStopOrder
<1>7. Started(4) = Range(ToolStartOrder)
  <2>1. DOMAIN ToolStartOrder = 1..4
    BY DEF ToolStartOrder
  <2>2. QED
    BY <2>1 DEF Started, Range
<1>8. Started(4) = Range(ToolStopOrder)
  <2>1. DOMAIN ToolStopOrder = 1..4
    BY DEF ToolStopOrder
  <2>2. /\ ToolStopOrder[1] = "blob_storage_client" /\ ToolStopOrder[2] = "cpio"
        /\ ToolStopOrder[3] = "cpu_async_executor" /\ ToolStopOrder[4] = "io_async_executor"
    BY DEF ToolStopOrder
  <2>3. \A k \in 1..4 : k = 1 \/ k = 2 \/ k = 3 \/ k = 4
    OBVIOUS
  <2>4. Range(ToolStopOrder) =
          {ToolStopOrder[1], ToolStopOrder[2], ToolStopOrder[3], ToolStopOrder[4]}
    <3> HIDE DEF ToolStopOrder
    <3>1. QED
      BY <2>1, <2>3 DEF Range
  <2>5. QED
    BY <1>2, <2>2, <2>4
<1>9. QED
  BY <1>1, <1>3, <1>5, <1>6, <1>7, <1>8

LEMMA EmailsUntouched ==
  ASSUME IInv, UNCHANGED emailVars
  PROVE  FileTypes' /\ SampleTypes' /\ ThreadInv' /\ FileInv' /\ SampleInv'
<1> USE DEF emailVars, makeVars, uploadVars
<1>1. num_threads' = num_threads
  BY DEF num_threads
<1>2. FileTypes' /\ SampleTypes'
  BY DEF IInv, TypeInv, FileTypes, SampleTypes
<1>3. SampleInv'
  BY DEF IInv, SampleInv
<1>4. \A t \in Thread : EmailsForThread(t)' = EmailsForThread(t)
  BY <1>1 DEF EmailsForThread
<1>5. ThreadInv'
  BY <1>1, <1>4 DEF IInv, ThreadInv, EmailText
<1>6. FileInv'
  <2>1. Begun' = Begun /\ Owed' = Owed
    BY DEF Begun, Owed
  <2>2. EmailsFor(Begun)' = EmailsFor(Begun)
    BY <1>1, <2>1, Zenon DEF EmailsFor
  <2>3. QED
    BY <2>1, <2>2 DEF IInv, FileInv, EmailText
<1>7. QED
  BY <1>2, <1>3, <1>5, <1>6

LEMMA ToolStep ==
  ASSUME IInv, Generate
  PROVE  IInv'
<1>1. UNCHANGED emailVars
  BY DEF Generate, BeginTool, Start, GeneratePublisherList, StopNext, Report
<1>2. /\ FileTypes' /\ SampleTypes' /\ ThreadInv' /\ FileInv' /\ SampleInv'
      /\ mode' = mode /\ main' = main /\ exit' = exit /\ object' = object
  BY <1>1, EmailsUntouched DEF emailVars, uploadVars
<1>3. ToolTypes /\ ToolInv /\ SampleInv
  BY DEF IInv, TypeInv
<1>4. /\ MappingOf(object)' = MappingOf(object)
      /\ \A k : Started(k)' = Started(k)
  <2>1. \A k : Started(k)' = Started(k)
    BY Zenon DEF Started
  <2>2. MappingOf(object)' = MappingOf(object)
    BY <1>2, Zenon DEF MappingOf
  <2>3. QED
    BY <2>1, <2>2
<1>5. CASE BeginTool
  <2>1. /\ tool = "none" /\ mode = 2 /\ exit = "EXIT_SUCCESS"
        /\ \/ tool' = "starting" /\ toolExit' = toolExit
           \/ tool' = "exited" /\ toolExit' = "EXIT_FAILURE"
        /\ UNCHANGED <<up, generation_result, mapping>>
    BY <1>5 DEF BeginTool, ToolReturns
  <2>2. main = "exited" /\ up = Started(0) /\ 0 \in 0..3
    BY <1>3, <2>1, StartedComponents DEF SampleInv, ToolInv
  <2>3. QED
    BY <1>2, <1>3, <1>4, <2>1, <2>2 DEF ToolTypes, ToolInv, IInv, TypeInv
<1>6. CASE Start
  <2>1. /\ tool = "starting"
        /\ \/ /\ up' = up \cup {ToolStartOrder[Cardinality(up) + 1]}
              /\ tool' = IF Cardinality(up') = Len(ToolStartOrder) THEN "generating" ELSE tool
              /\ toolExit' = toolExit
           \/ tool' = "exited" /\ toolExit' = "EXIT_FAILURE" /\ up' = up
        /\ UNCHANGED <<generation_result, mapping>>
    BY <1>6 DEF Start, ToolReturns
  <2>2. PICK k \in 0..3 : up = Started(k)
    BY <1>3, <2>1 DEF ToolInv
  <2>3. /\ Cardinality(up) = k
        /\ up \cup {ToolStartOrder[k + 1]} = Started(k + 1)
        /\ Cardinality(Started(k + 1)) = k + 1
        /\ Started(k + 1) \subseteq Started(4)
        /\ Len(ToolStartOrder) = 4
    BY <2>2, StartedComponents
  <2>4. CASE up' = Started(k + 1) /\ toolExit' = toolExit
             /\ tool' = IF k + 1 = 4 THEN "generating" ELSE "starting"
    <3>1. k + 1 # 4 => k + 1 \in 0..3
      OBVIOUS
    <3>2. QED
      BY <1>2, <1>3, <1>4, <2>1, <2>3, <2>4, <3>1 DEF ToolTypes, ToolInv, IInv, TypeInv
  <2>5. CASE tool' = "exited" /\ toolExit' = "EXIT_FAILURE" /\ up' = up
    BY <1>2, <1>3, <1>4, <2>1, <2>5 DEF ToolTypes, ToolInv, IInv, TypeInv
  <2>6. QED
    BY <2>1, <2>3, <2>4, <2>5
<1>7. CASE GeneratePublisherList
  <2>1. /\ tool = "generating" /\ tool' = "stopping"
        /\ \/ generation_result' = "Success" /\ mapping' = MappingOf(object)
           \/ generation_result' = "Failure"
        /\ UNCHANGED <<up, toolExit>>
    BY <1>7, Zenon DEF GeneratePublisherList, MappingOf
  <2>2. QED
    BY <1>2, <1>3, <1>4, <2>1 DEF ToolTypes, ToolInv, IInv, TypeInv
<1>8. CASE StopNext
  <2>1. /\ tool = "stopping" /\ up' \subseteq up
        /\ \/ tool' = tool /\ toolExit' = toolExit
           \/ tool' = "exited" /\ toolExit' = "EXIT_FAILURE"
        /\ UNCHANGED <<generation_result, mapping>>
    BY <1>8 DEF StopNext, ToolReturns
  <2>2. QED
    BY <1>2, <1>3, <1>4, <2>1 DEF ToolTypes, ToolInv, IInv, TypeInv
<1>9. CASE Report
  <2>1. /\ tool = "stopping" /\ tool' = "exited" /\ Range(ToolStopOrder) \cap up = {}
        /\ toolExit' = IF generation_result = "Success" THEN "EXIT_SUCCESS" ELSE "EXIT_FAILURE"
        /\ UNCHANGED <<up, generation_result, mapping>>
    BY <1>9 DEF Report, ToolReturns
  <2>2. up = {}
    BY <1>3, <2>1, StartedComponents DEF ToolInv
  <2>3. QED
    BY <1>2, <1>3, <1>4, <2>1, <2>2 DEF ToolTypes, ToolInv, IInv, TypeInv
<1>10. QED
  BY <1>5, <1>6, <1>7, <1>8, <1>9 DEF Generate

--------------------------------------------------------------------------------
\* The invariant is inductive: for any number of threads, whatever emails they
\* make, however many lines are asked for and whichever call fails.
THEOREM Invariance == Spec => []IInv
<1>1. Init => IInv
  <2>1. SUFFICES ASSUME Init PROVE IInv
    OBVIOUS
  <2>2. /\ mode = 1 /\ num_emails \in 0..MaxEmails /\ main = "join" /\ exit = "none"
        /\ opened \in BOOLEAN /\ file = <<>> /\ file_mutex = NoThread
        /\ thread = [t \in Thread |-> IF t <= num_threads THEN "making" ELSE "none"]
        /\ emails_string = [t \in Thread |-> <<>>]
        /\ lines = <<>> /\ picked = <<>> /\ object = <<>>
        /\ tool = "none" /\ up = {} /\ generation_result = "none" /\ mapping = <<>>
        /\ toolExit = "none"
    BY <2>1 DEF Init, EmailsInit
  <2>3. SampleTypes /\ ToolTypes /\ SampleInv
    <3>1. <<>> \in Seq(GetRandomEmail) /\ <<>> \in Seq(DOMAIN lines)
      BY EmptySeq
    <3>2. IsInjective(<<>>)
      BY DEF IsInjective
    <3>3. QED
      BY <2>2, <3>1, <3>2 DEF SampleTypes, ToolTypes, SampleInv
  <2>4. FileTypes
    <3>1. <<>> \in Seq(Char)
      BY EmptySeq
    <3> HIDE DEF Char
    <3>2. QED
      BY <2>2, <3>1 DEF FileTypes
  <2>5. num_threads \in Nat /\ Thread \subseteq Nat /\ NoThread \notin Thread
    BY <2>3, NumThreadsType, Characters DEF Thread
  <2>6. ThreadInv
    BY <2>2, <2>5 DEF ThreadInv
  <2>7. FileInv
    <3>1. Begun = {} /\ Owed = <<>>
      BY <2>2 DEF Begun, Owed
    <3>2. EmailsFor(Begun) = 0
      BY <2>3, <3>1, EmailsForNobody
    <3>3. <<>> \o <<>> = <<>>
      OBVIOUS
    <3>4. QED
      BY <2>2, <3>1, <3>2, <3>3, NoEmailText DEF FileInv
  <2>8. ToolInv
    BY <2>2 DEF ToolInv
  <2>9. QED
    BY <2>3, <2>4, <2>6, <2>7, <2>8 DEF IInv, TypeInv
<1>2. IInv /\ [Next]_vars => IInv'
  <2>1. ASSUME IInv, EmailsNext, UNCHANGED toolVars
        PROVE  IInv'
    <3>1. ASSUME NEW t \in Thread,
                 MakeEmails(t) \/ LockFile(t) \/ WriteSome(t) \/ EndThread(t)
          PROVE  IInv'
      BY <2>1, <3>1, MakeEmailsStep, LockFileStep, WriteSomeStep, EndThreadStep
    <3>2. CASE JoinThreads \/ RefuseArguments \/ ReadLines
      BY <2>1, <3>2, JoinThreadsStep, RefuseArgumentsStep, ReadLinesStep
    <3>3. CASE PickLine \/ PickFromNothing \/ PipeToGcloud
      BY <2>1, <3>3, PickLineStep, PickFromNothingStep, PipeToGcloudStep
    <3>4. CASE DrawForEver
      <4>1. UNCHANGED <<emailVars, toolVars>>
        BY <2>1, <3>4 DEF DrawForEver
      <4>2. FileTypes' /\ SampleTypes' /\ ThreadInv' /\ FileInv' /\ SampleInv'
        BY <2>1, <4>1, EmailsUntouched
      <4>3. tool = "none"
        BY <2>1, <3>4 DEF DrawForEver, IInv, ToolInv
      <4>4. QED
        BY <2>1, <4>2, <4>3, ToolAtRest DEF IInv, TypeInv
    <3>5. QED
      BY <2>1, <3>1, <3>2, <3>3, <3>4 DEF EmailsNext, MakeEmailFile, Upload
  <2>2. ASSUME IInv, UNCHANGED vars
        PROVE  IInv'
    <3>1. FileTypes' /\ SampleTypes' /\ ThreadInv' /\ FileInv' /\ SampleInv'
      BY <2>2, EmailsUntouched DEF vars
    <3>2. ToolTypes' /\ ToolInv'
      <4>1. object' = object
        BY <2>2 DEF vars, emailVars, uploadVars
      <4>2. MappingOf(object)' = MappingOf(object) /\ \A k : Started(k)' = Started(k)
        BY <4>1, Zenon DEF MappingOf, Started
      <4>3. QED
        BY <2>2, <4>2 DEF vars, emailVars, toolVars, IInv, TypeInv, ToolTypes, ToolInv
    <3>3. QED
      BY <3>1, <3>2 DEF IInv, TypeInv
  <2>3. QED
    BY <2>1, <2>2, ToolStep DEF Next
<1>3. QED
  BY <1>1, <1>2, PTL DEF Spec

\* Every variable of the two tools holds what its C++ type allows, and
\* generator_main.cc reports a success only with every component stopped.
THEOREM TypeCorrect == Spec => []TypeOK
<1>1. IInv => TypeOK
  <2>1. SUFFICES ASSUME IInv PROVE TypeOK
    OBVIOUS
  <2>2. up \subseteq IF toolExit = "EXIT_SUCCESS" THEN {} ELSE Range(ToolStartOrder)
    BY <2>1, StartedComponents DEF IInv, ToolInv
  <2>3. QED
    BY <2>1, <2>2 DEF IInv, TypeInv, FileTypes, SampleTypes, ToolTypes, TypeOK, Char
<1>2. QED
  BY <1>1, Invariance, PTL

\* The file has the lines asked for, however the threads have overlapped.
THEOREM FileIsComplete == Spec => []EmailFileIsComplete
<1>1. IInv => EmailFileIsComplete
  <2>1. SUFFICES ASSUME IInv, mode = 1, main = "exited", opened
                 PROVE  LET made == Getline(file, LineBreak)
                        IN  /\ Len(made) = num_emails
                            /\ \A i \in DOMAIN made : made[i] \in GetRandomEmail
    BY DEF EmailFileIsComplete
  <2> DEFINE made == Getline(file, LineBreak)
  <2>2. made \in Seq(GetRandomEmail) /\ Len(made) = num_emails
    BY <2>1, FileRead
  <2> HIDE DEF made
  <2>3. QED
    BY <2>2, LenProperties, ElementOfSeq DEF made
<1>2. QED
  BY <1>1, Invariance, PTL

--------------------------------------------------------------------------------
\* What a match job reads of a sample.  The rows of its mapping:
Sampled == [i \in DOMAIN picked |-> <<lines[picked[i]], <<i>> >>]
Text == Char \cup {Delimiter, Blank} \cup 1..MaxEmails

LEMMA SampleIsWritable == Writable(Text, GetRandomEmail, GenerateUuid)
<1>1. /\ LineBreak \in Text /\ Delimiter \in Text /\ LineBreak # Delimiter
      /\ \A email \in Email : email \in Text /\ email \notin {LineBreak, Delimiter, Blank}
      /\ \A i \in 1..MaxEmails : i \in Text /\ i \notin {LineBreak, Delimiter, Blank}
      /\ NoTable \notin Tables(GetRandomEmail, GenerateUuid)
  BY Characters, Zenon DEF Text
<1> HIDE DEF Text
<1>2. \A email \in Email : <<email>> \in Field(Text) \ {<<>>}
  BY <1>1, CharacterIsField
<1>3. \A i \in 1..MaxEmails : <<i>> \in Field(Text) \ {<<>>}
  BY <1>1, CharacterIsField
<1>4. GetRandomEmail \subseteq Field(Text)
  BY <1>2, Zenon DEF GetRandomEmail
<1>5. GenerateUuid \subseteq Field(Text) \ {<<>>}
  BY <1>3, Zenon DEF GenerateUuid
<1>6. QED
  BY <1>1, <1>4, <1>5, Zenon DEF Writable

\* A line of the file is the column that the generator fetches.
LEMMA EmailIsColumn ==
  ASSUME NEW line \in GetRandomEmail
  PROVE  GetColumn(line, 0) = line
<1>1. PICK email \in Email : line = <<email>>
  BY DEF GetRandomEmail
<1>2. email \in Text /\ email \notin {LineBreak, Delimiter, Blank} /\ Blank \in Text
  BY Characters DEF Text
<1>3. RemoveExtraAsciiWhitespace(<<email>>) = <<email>>
  BY <1>2, TrimmedCharacter
<1>4. <<email>> \in Seq(Text) /\ <<email>> # <<>> /\ ToSet(<<email>>) = {email}
  <2> HIDE DEF Text
  <2>1. QED
    BY <1>2 DEF ToSet
<1>5. BuildSucceeds(<<email>>, 1)
  BY <1>2, <1>4, BuildsOneColumn
<1>6. GetColumn(<<email>>, 0) = RemoveExtraAsciiWhitespace(<<email>>)
  BY <1>2, <1>4, <1>5, OneColumnRow
<1>7. QED
  BY <1>1, <1>3, <1>6

LEMMA SampledType ==
  ASSUME IInv, exit = "EXIT_SUCCESS", mode # 1
  PROVE  /\ Len(picked) = num_emails /\ num_emails \in Nat /\ num_emails <= MaxEmails
         /\ DOMAIN picked = 1..num_emails /\ DOMAIN Sampled = 1..num_emails
         /\ Len(Sampled) = num_emails
         /\ \A i \in 1..num_emails :
              /\ picked[i] \in DOMAIN lines /\ lines[picked[i]] \in GetRandomEmail
              /\ Sampled[i] = <<lines[picked[i]], <<i>> >>
         /\ Sampled \in Seq(GetRandomEmail \X GenerateUuid)
<1>1. /\ Len(picked) = num_emails /\ num_emails \in Nat /\ num_emails <= MaxEmails
      /\ picked \in Seq(DOMAIN lines) /\ lines \in Seq(GetRandomEmail)
  BY Characters DEF IInv, TypeInv, SampleTypes, SampleInv
<1>2. /\ DOMAIN picked = 1..num_emails
      /\ \A i \in 1..num_emails : picked[i] \in DOMAIN lines
      /\ \A j \in DOMAIN lines : lines[j] \in GetRandomEmail
  <2> DEFINE D == DOMAIN lines
  <2>1. /\ DOMAIN lines = 1..Len(lines) /\ DOMAIN picked = 1..num_emails
    BY <1>1, LenProperties
  <2>2. \A j \in DOMAIN lines : lines[j] \in GetRandomEmail
    BY <1>1, <2>1, ElementOfSeq
  <2> HIDE DEF D
  <2>3. \A i \in 1..num_emails : picked[i] \in D
    BY <1>1, ElementOfSeq DEF D
  <2>4. QED
    BY <2>1, <2>2, <2>3 DEF D
<1>3. Sampled = [i \in 1..num_emails |-> <<lines[picked[i]], <<i>> >>]
  BY <1>2, Zenon DEF Sampled
<1>4. \A i \in 1..num_emails : <<i>> \in GenerateUuid
  BY <1>1, Characters DEF GenerateUuid
<1>5. \A i \in 1..num_emails : <<lines[picked[i]], <<i>> >> \in GetRandomEmail \X GenerateUuid
  BY <1>2, <1>4
<1> DEFINE Row == GetRandomEmail \X GenerateUuid
<1> HIDE DEF Row
<1>6. Sampled \in Seq(Row) /\ Len(Sampled) = num_emails /\ DOMAIN Sampled = 1..num_emails
  <2>1. \A i \in 1..num_emails : <<lines[picked[i]], <<i>> >> \in Row
    BY <1>5 DEF Row
  <2>2. [i \in 1..num_emails |-> <<lines[picked[i]], <<i>> >>] \in Seq(Row)
    BY <1>1, <2>1, IsASeq
  <2>3. DOMAIN Sampled = 1..num_emails
    BY <1>3
  <2>4. QED
    BY <1>1, <1>3, <2>2, <2>3, LenProperties
<1>7. QED
  BY <1>1, <1>2, <1>3, <1>6 DEF Row

\* Both ways to a mapping write these rows.
LEMMA MappingOfSample ==
  ASSUME IInv, exit = "EXIT_SUCCESS", object = Sample
  PROVE  /\ mode = 3 => object = MappingText(Sampled)
         /\ mode = 2 => MappingOf(object) = MappingText(Sampled)
<1>1. ASSUME mode = 3
      PROVE  object = MappingText(Sampled)
  <2>1. mode # 2
    BY <1>1
  <2>2. QED
    BY <2>1, Zenon DEF Sample, Sampled
<1>2. ASSUME mode = 2
      PROVE  MappingOf(object) = MappingText(Sampled)
  <2> DEFINE n == num_emails
             chosen == [i \in 1..n |-> lines[picked[i]]]
  <2>1. /\ n \in Nat /\ DOMAIN picked = 1..n /\ DOMAIN Sampled = 1..n
        /\ \A i \in 1..n : /\ lines[picked[i]] \in GetRandomEmail
                           /\ Sampled[i] = <<lines[picked[i]], <<i>> >>
    BY <1>2, SampledType
  <2>2. chosen \in Seq(GetRandomEmail) /\ DOMAIN chosen = 1..n
    BY <2>1, IsASeq
  <2>3. object = FlattenSeq([i \in DOMAIN chosen |-> Append(chosen[i], LineBreak)])
    <3>1. \A i \in 1..n : lines[picked[i]] \o <<LineBreak>> = Append(chosen[i], LineBreak)
      <4>1. ASSUME NEW i \in 1..n
            PROVE  lines[picked[i]] \o <<LineBreak>> = Append(lines[picked[i]], LineBreak)
        <5> DEFINE line == lines[picked[i]]
        <5>1. line \in Seq(Char) /\ LineBreak \in Char
          BY <2>1, EmailIsLine, Characters
        <5> HIDE DEF line, Char
        <5>2. Append(line, LineBreak) = line \o <<LineBreak>>
          BY <5>1, AppendIsConcat
        <5>3. QED
          BY <5>2 DEF line
      <4>2. QED
        BY <4>1
    <3> DEFINE ended   == [i \in DOMAIN picked |-> lines[picked[i]] \o <<LineBreak>>]
               written == [i \in DOMAIN chosen |-> Append(chosen[i], LineBreak)]
    <3> HIDE DEF chosen
    <3>2. ended = written
      BY <2>1, <2>2, <3>1
    <3>3. object = FlattenSeq(ended)
      BY <1>2, Zenon DEF Sample
    <3> HIDE DEF ended, written
    <3>4. object = FlattenSeq(written)
      BY <3>2, <3>3
    <3>5. QED
      BY <3>4 DEF written
  <2>4. CompleteLines(object) = chosen
    <3> HIDE DEF chosen
    <3>1. QED
      BY <2>2, <2>3, EmailTextOfLines, Zenon
  <2>5. \A i \in 1..n : <<GetColumn(chosen[i], 0), <<i>> >> = Sampled[i]
    BY <2>1, EmailIsColumn
  <2>6. Sampled = [i \in 1..n |-> Sampled[i]]
    BY <2>1, Zenon DEF Sampled
  <2> DEFINE rows == [i \in DOMAIN chosen |-> <<GetColumn(chosen[i], 0), <<i>> >>]
  <2>7. rows = Sampled
    <3> HIDE DEF chosen
    <3>1. QED
      BY <2>2, <2>5, <2>6
  <2>8. MappingOf(object) = MappingText(rows)
    <3> HIDE DEF chosen
    <3>1. QED
      BY <2>4, Zenon DEF MappingOf
  <2> HIDE DEF rows
  <2>9. QED
    BY <2>7, <2>8, Zenon
<1>3. QED
  BY <1>1, <1>2

\* As many keys as there are indices of different lines.
LEMMA KeysOfSample ==
  ASSUME IInv, exit = "EXIT_SUCCESS", mode # 1, IsInjective(lines)
  PROVE  LET keys == {Sampled[i][1] : i \in 1..num_emails}
         IN  /\ DistinctKeys(Sampled, num_emails)
             /\ Cardinality(keys) = num_emails
             /\ keys \subseteq Range(lines)
<1> DEFINE n == num_emails
           keys == {Sampled[i][1] : i \in 1..n}
           key == [i \in 1..n |-> lines[picked[i]]]
<1>1. /\ n \in Nat /\ DOMAIN picked = 1..n
      /\ \A i \in 1..n : picked[i] \in DOMAIN lines /\ Sampled[i] = <<lines[picked[i]], <<i>> >>
  BY SampledType
<1>2. \A i \in 1..n : Sampled[i][1] = key[i] /\ key[i] = lines[picked[i]]
  BY <1>1
<1>3. IsInjective(picked)
  BY DEF IInv, SampleInv
<1> HIDE DEF key, n
<1>4. \A i, j \in 1..n : key[i] = key[j] => i = j
  BY <1>1, <1>2, <1>3 DEF IsInjective
<1>5. DistinctKeys(Sampled, n)
  BY <1>2, <1>4 DEF DistinctKeys
<1>6. keys \subseteq Range(lines)
  BY <1>1, <1>2 DEF Range
<1>7. Cardinality(keys) = n
  <2>1. key \in [1..n -> keys] /\ DOMAIN key = 1..n
    BY <1>2 DEF key
  <2>2. key \in Surjection(1..n, keys)
    BY <1>2, <2>1 DEF Surjection
  <2>3. key \in Injection(1..n, keys)
    BY <1>4, <2>1 DEF Injection, IsInjective
  <2>4. IsFiniteSet(1..n) /\ Cardinality(1..n) = n
    BY <1>1, FS_Interval
  <2> HIDE DEF keys
  <2>5. QED
    BY <2>2, <2>3, <2>4, FS_Surjection
<1>8. QED
  BY <1>5, <1>6, <1>7 DEF n

\* Written by either tool, and stored whole, a sample of any size is read by a
\* match job as a table of as many of the file's emails as were asked for.
THEOREM MappingsMapTheSample == Spec => []MappingMapsTheSample
<1>1. IInv => MappingMapsTheSample
  <2> DEFINE text  == IF mode = 3 THEN object ELSE mapping
             table == ParsedMapping(text)
  <2>1. SUFFICES ASSUME IInv, exit = "EXIT_SUCCESS", object = Sample, IsInjective(lines),
                        mode = 3 \/ (mode = 2 /\ toolExit = "EXIT_SUCCESS")
                 PROVE  /\ table # NoTable
                        /\ Cardinality(DOMAIN table) = num_emails
                        /\ DOMAIN table \subseteq Range(lines)
    BY Zenon DEF MappingMapsTheSample
  <2>2. text = MappingText(Sampled)
    BY <2>1, MappingOfSample DEF IInv, ToolInv
  <2>3. Sampled \in Seq(GetRandomEmail \X GenerateUuid) /\ Len(Sampled) = num_emails
    BY <2>1, SampledType
  <2> DEFINE rows == Sampled
             keys == {rows[i][1] : i \in 1..num_emails}
  <2>4. /\ DistinctKeys(rows, num_emails) /\ Cardinality(keys) = num_emails
        /\ keys \subseteq Range(lines)
    BY <2>1, KeysOfSample
  <2> HIDE DEF rows
  <2>5. ReadsAs(rows, ParsedMapping(MappingText(rows)))
    BY <2>3, SampleIsWritable, PairsReadBack DEF rows
  <2>6. ParsedMapping(MappingText(rows)) = table
    BY <2>2, Zenon DEF rows
  <2> HIDE DEF table, text
  <2>7. ReadsAs(rows, table) /\ Len(rows) = num_emails
    BY <2>3, <2>5, <2>6 DEF rows
  <2>8. table # NoTable /\ DOMAIN table = keys
    BY <2>4, <2>7, Zenon DEF ReadsAs
  <2>9. QED
    BY <2>4, <2>8, Zenon
<1>2. QED
  BY <1>1, Invariance, PTL
================================================================================
