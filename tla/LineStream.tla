------------------------------ MODULE LineStream ------------------------------
(****************************************************************************)
(* What CsvStreamParser promises to the two threads that use it             *)
(* (csv_stream_parser_interface.h:24-33): chunks of a file go in, in order, *)
(* and the complete lines of that file come out, in order, each one once.   *)
(* A line is handed out without its line break; what follows the last line  *)
(* break stays inside.  The promise is void once a call has failed          *)
(* completely ("Failure if the current flow failed completely"): from then  *)
(* on text may be skipped, but what comes out is still in order and still   *)
(* free of line breaks.                                                     *)
(****************************************************************************)
EXTENDS Integers, Sequences

CONSTANTS
  Chunk,      \* the chunks a caller may pass to AddCsvChunk
  LineBreak   \* the character that ends a line

VARIABLES
  input,      \* every character accepted so far
  consumed,   \* how much of input has been handed out
  lines,      \* the lines handed out, in the order they were
  intact      \* FALSE once a call has failed completely

lvars == <<input, consumed, lines, intact>>

\* input[from .. to] is the end of a line and the line break that closes it.
Closes(from, to) ==
  /\ input[to] = LineBreak
  /\ \A p \in from .. to - 1 : input[p] # LineBreak

LInit ==
  /\ input = <<>>
  /\ consumed = 0
  /\ lines = <<>>
  /\ intact = TRUE

Accept(c) ==
  /\ input' = input \o c
  /\ UNCHANGED <<consumed, lines, intact>>

Deliver ==
  \E from, to \in consumed + 1 .. Len(input) :
    /\ from <= to
    /\ Closes(from, to)
    /\ intact => from = consumed + 1
    /\ lines' = Append(lines, SubSeq(input, from, to - 1))
    /\ consumed' = to
    /\ UNCHANGED <<input, intact>>

Break ==
  /\ intact' = FALSE
  /\ UNCHANGED <<input, consumed, lines>>

LNext == Deliver \/ Break \/ \E c \in Chunk : Accept(c)

LSpec == LInit /\ [][LNext]_lvars
================================================================================
