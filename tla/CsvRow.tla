-------------------------------- MODULE CsvRow --------------------------------
(****************************************************************************)
(* src/cc/common/csv_parser/src/csv_row.cc: what Build makes of the text    *)
(* between two line breaks, and the getline loops of this code, on which it *)
(* rests.  Texts are sequences of characters.  Whitespace is one character, *)
(* Blank; every parser of the program asks for it to be removed.            *)
(****************************************************************************)
EXTENDS Integers, SequencesExt

CONSTANTS
  LineBreak,   \* kDefaultCsvLineBreak
  Delimiter,   \* kDefaultCsvRowDelimiter
  Blank        \* ASCII whitespace other than the line break

\* What lies before, between and behind the separators of s: a separator opens
\* a new piece, any other character goes to the end of the latest one.
Pieces(s, sep) ==
  LET pieces[n \in 0..Len(s)] ==
        IF n = 0 THEN << <<>> >>
        ELSE LET before == pieces[n - 1]
             IN  IF s[n] = sep THEN Append(before, <<>>)
                 ELSE Append(Front(before), Append(Last(before), s[n]))
  IN  pieces[Len(s)]

\* while (getline(stream, piece, sep)): no piece behind a last separator.
Getline(s, sep) ==
  IF s = <<>> \/ Last(s) = sep THEN Front(Pieces(s, sep)) ELSE Pieces(s, sep)

\* The lines of a text that end in a line break, and all its lines.
CompleteLines(s) == Front(Pieces(s, LineBreak))
AllLines(s) == Getline(s, LineBreak)

\* Of each run of blanks the first one stays, if a word stands on either side.
RemoveExtraAsciiWhitespace(col) ==
  LET Stays(i) == \/ col[i] # Blank
                  \/ /\ i > 1 /\ col[i - 1] # Blank
                     /\ \E j \in i..Len(col) : col[j] # Blank
      kept[n \in 0..Len(col)] ==
        IF n = 0 THEN <<>>
        ELSE IF Stays(n) THEN Append(kept[n - 1], col[n]) ELSE kept[n - 1]
  IN  kept[Len(col)]

Trimmed(columns) ==
  [i \in DOMAIN columns |-> RemoveExtraAsciiWhitespace(columns[i])]

\* Mutation: a delimiter at the end opens no column.
ColumnsBeforeDelimiters(csv_row) == Trimmed(Getline(csv_row, Delimiter))

\* The columns Build finds.  A blank put behind a last delimiter makes getline
\* see an empty column there.
Columns(csv_row) ==
  Trimmed(Getline(IF csv_row # <<>> /\ Last(csv_row) = Delimiter
                  THEN Append(csv_row, Blank) ELSE csv_row, Delimiter))

BuildSucceeds(csv_row, num_cols) == Len(Columns(csv_row)) = num_cols

\* GetColumn of a row that was built with enough columns.
GetColumn(csv_row, index) == Columns(csv_row)[index + 1]
================================================================================
