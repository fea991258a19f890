---------------------------- MODULE PublisherMapping ----------------------------
(****************************************************************************)
(* The publisher's mapping as text, from the one that writes it to the one  *)
(* that reads it: generator.h makes a row of each pair <<ID, encrypted ID>>,*)
(* match_worker.cc parses the rows into its match table.                    *)
(****************************************************************************)
EXTENDS CsvRow, MatchTable

CONSTANT NoTable   \* the mapping could not be parsed

\* The tables a mapping of these keys and values can be parsed to.
Tables(Keys, Values) ==
  UNION {[keys -> [value : Values, is_matched : {FALSE}]] : keys \in SUBSET Keys}

MappingRow(pair) == pair[1] \o <<Delimiter>> \o pair[2]

\* Mutation: the rows are separated by line breaks, not ended by them.
MappingTextUnterminated(pairs) ==
  FlattenSeq([i \in DOMAIN pairs |->
    IF i = 1 THEN MappingRow(pairs[i]) ELSE <<LineBreak>> \o MappingRow(pairs[i])])

MappingText(pairs) ==
  FlattenSeq([i \in DOMAIN pairs |-> Append(MappingRow(pairs[i]), LineBreak)])

\* ParseBlobResponseIntoMatchTable: one AddElement per row; a row that has not
\* two columns, or a key that is there already, fails the whole export.  A last
\* row without a line break stays in the parser.
ParsedMapping(mapping) ==
  LET lines == CompleteLines(mapping)
      table[n \in 0..Len(lines)] ==
        IF n = 0 THEN EmptyTable
        ELSE LET before == table[n - 1]
                 key    == GetColumn(lines[n], 0)
             IN  IF /\ before # NoTable
                    /\ BuildSucceeds(lines[n], 2)
                    /\ CanAddElement(before, key)
                 THEN AddElement(before, key, GetColumn(lines[n], 1))
                 ELSE NoTable
  IN  table[Len(lines)]
================================================================================
