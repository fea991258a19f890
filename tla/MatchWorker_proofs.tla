--------------------------- MODULE MatchWorker_proofs ---------------------------
(****************************************************************************)
(* Proofs about MatchWorker, for every list, every way of cutting it into   *)
(* chunks, every mapping, every size of the buffer and of the queue and     *)
(* every schedule of the two threads.                                       *)
(*                                                                          *)
(* The inductive invariant IInv relates the four things that share an       *)
(* export:                                                                  *)
(*   ParserInv   where the rows in the queue lie in the text;               *)
(*   LinesInv    what has come out are the complete lines of the text up    *)
(*               to there, the ones CompleteLines computes;                 *)
(*   FlowInv     what has gone in and what is still to come are the list;   *)
(*   ControlInv  what each thread may conclude about the other;             *)
(*   UploadInv   when the upload is open;                                   *)
(*   MatchInv    the upload and the marks in the table are the matches of   *)
(*               the rows main is done with.                                *)
(* When main completes the upload, ControlInv says that the stream ended    *)
(* and the queue is empty, FlowInv that the text is the list, LinesInv that *)
(* all its complete lines came out, and MatchInv that they were matched:    *)
(* that is SuccessExportsTheMatches.                                        *)
(*                                                                          *)
(* The first part is about the recursive functions the promise is written   *)
(* with: what one more row adds to ParsedMapping and MatchesOf, by the      *)
(* inductions of CsvRow_proofs.                                             *)
(****************************************************************************)
EXTENDS MatchWorker, CsvStreamParser_proofs

Element == [value : EncryptedId, is_matched : BOOLEAN]

\* t is a table of encrypted IDs; none has been matched yet.
TypedTable(t) ==
  /\ t = [key \in DOMAIN t |-> t[key]]
  /\ \A key \in DOMAIN t : t[key] \in Element
Unmarked(t) == \A key \in DOMAIN t : t[key].is_matched = FALSE

\* What the next row adds to a table.
AddRow(t, line) ==
  IF /\ t # NoTable
     /\ BuildSucceeds(line, 2)
     /\ CanAddElement(t, GetColumn(line, 0))
  THEN AddElement(t, GetColumn(line, 0), GetColumn(line, 1))
  ELSE NoTable

\* The mapping, if it could be parsed, makes a table of encrypted IDs.
LEMMA FetchedTablesAreTyped ==
  ASSUME NEW mapping \in Mappings, ParsedMapping(mapping) # NoTable
  PROVE  TypedTable(ParsedMapping(mapping)) /\ Unmarked(ParsedMapping(mapping))
<1> DEFINE lines == CompleteLines(mapping)
           Body(f) == [n \in 0..Len(lines) |->
                         IF n = 0 THEN EmptyTable ELSE AddRow(f[n - 1], lines[n])]
           table == CHOOSE f : f = Body(f)
           Keys == {GetColumn(lines[n], 0) : n \in 1..Len(lines)}
           Fresh == [value : EncryptedId, is_matched : {FALSE}]
           A == {NoTable} \cup UNION {[K -> Fresh] : K \in SUBSET Keys}
           D == [x \in A \X (1..Len(lines)) |-> AddRow(x[1], lines[x[2]])]
<1>1. lines \in Seq(Seq(Char)) /\ Len(lines) \in Nat
  <2>1. Pieces(mapping, LineBreak) \in NonEmptySeq(Seq(Char))
    BY MatchWorkerAssumption, PiecesProperties
  <2>2. Front(Pieces(mapping, LineBreak)) \in Seq(Seq(Char))
    BY <2>1, FrontLastProperties
  <2>3. QED
    BY <2>2, LenProperties DEF CompleteLines
<1>2. ParsedMapping(mapping) = table[Len(lines)]
  BY Zenon DEF ParsedMapping, AddRow
<1>3. \A n \in 1..Len(lines) :
        BuildSucceeds(lines[n], 2) => GetColumn(lines[n], 1) \in EncryptedId
  <2> HIDE DEF lines
  <2>1. \A n \in 1..Len(lines) : lines[n] \in ToSet(lines)
    BY <1>1 DEF ToSet
  <2>2. QED
    BY <2>1, MatchWorkerAssumption DEF lines
<1>4. EmptyTable \in A
  <2>1. EmptyTable \in [{} -> Fresh] /\ {} \in SUBSET Keys
    BY DEF EmptyTable
  <2> HIDE DEF Keys, Fresh
  <2>2. QED
    BY <2>1
<1>5. ASSUME NEW t \in A, NEW n \in 1..Len(lines)
      PROVE  AddRow(t, lines[n]) \in A
  <2> DEFINE key   == GetColumn(lines[n], 0)
             value == GetColumn(lines[n], 1)
  <2>1. CASE /\ t # NoTable
             /\ BuildSucceeds(lines[n], 2)
             /\ CanAddElement(t, key)
    <3>1. PICK K \in SUBSET Keys : t \in [K -> Fresh]
      BY <2>1
    <3>2. key \in Keys /\ value \in EncryptedId
      BY <1>3, <2>1
    <3>3. K \cup {key} \in SUBSET Keys
      BY <3>2
    <3> HIDE DEF Keys, key, value, lines
    <3>4. AddElement(t, key, value) \in [K \cup {key} -> Fresh]
      BY <3>1, <3>2 DEF AddElement
    <3>5. AddRow(t, lines[n]) = AddElement(t, key, value)
      BY <2>1 DEF AddRow, key, value
    <3> HIDE DEF Fresh
    <3>6. QED
      BY <3>3, <3>4, <3>5
  <2>2. CASE ~ /\ t # NoTable
               /\ BuildSucceeds(lines[n], 2)
               /\ CanAddElement(t, key)
    <3>1. AddRow(t, lines[n]) = NoTable
      BY <2>2, Zenon DEF AddRow
    <3>2. QED
      BY <3>1
  <2>3. QED
    BY <2>1, <2>2
<1>6. \A n \in 1..Len(lines) : n - 1 \in 0..Len(lines)
  BY <1>1
<1>7. Steps(D, A, Len(lines))
  <2> HIDE DEF A, lines
  <2>1. QED
    BY <1>5 DEF Steps
<1>8. PICK f \in [0..Len(lines) -> A] :
        f[0] = EmptyTable /\ \A n \in 1..Len(lines) : f[n] = D[<<f[n - 1], n>>]
  <2> DEFINE length == Len(lines)
  <2> HIDE DEF A, D, length
  <2>1. length \in Nat /\ Steps(D, A, length)
    BY <1>1, <1>7 DEF length
  <2>2. \E f \in [0..length -> A] :
          f[0] = EmptyTable /\ \A n \in 1..length : f[n] = D[<<f[n - 1], n>>]
    BY <1>4, <2>1, RecursionDefines
  <2>3. QED
    BY <2>2 DEF length
<1>9. \A n \in 1..Len(lines) : f[n] = AddRow(f[n - 1], lines[n])
  <2> HIDE DEF A, lines
  <2>1. QED
    BY <1>6, <1>8
<1>10. f = Body(f)
  <2> HIDE DEF A, D, lines
  <2>1. QED
    BY <1>1, <1>8, <1>9
<1>11. table = Body(table)
  <2> HIDE DEF Body
  <2>1. QED
    BY <1>10
<1>12. /\ table[0] = EmptyTable
       /\ \A n \in 1..Len(lines) : table[n] = AddRow(table[n - 1], lines[n])
  <2> HIDE DEF table, lines
  <2>1. QED
    BY <1>1, <1>11
<1>13. table[Len(lines)] = f[Len(lines)]
  <2> DEFINE length == Len(lines)
  <2> HIDE DEF table, A, D, length
  <2>1. /\ length \in Nat
        /\ \A n \in 1..length : table[n - 1] = f[n - 1] => table[n] = f[n]
    BY <1>1, <1>9, <1>12 DEF length
  <2>2. table[0] = f[0]
    BY <1>8, <1>12
  <2> HIDE DEF table
  <2>3. table[length] = f[length]
    BY <2>1, <2>2, RecursionAgrees
  <2>4. QED
    BY <2>3 DEF length
<1>14. ParsedMapping(mapping) \in A
  <2> HIDE DEF table, A, lines
  <2>1. QED
    BY <1>1, <1>2, <1>13
<1>15. PICK K \in SUBSET Keys : ParsedMapping(mapping) \in [K -> Fresh]
  BY <1>14
<1>16. QED
  BY <1>15 DEF TypedTable, Unmarked, Element

\* What the next line adds to the matches.
AddMatch(t, ids, line) ==
  LET id == RemoveExtraAsciiWhitespace(line)
  IN  IF HasElement(t, id) THEN Append(ids, GetValue(t, id)) ELSE ids

\* MatchesOf, with the table said.
MatchesIn(t, lines) ==
  LET matches[n \in 0..Len(lines)] ==
        IF n = 0 THEN <<>> ELSE AddMatch(t, matches[n - 1], lines[n])
  IN  matches[Len(lines)]

LEMMA AddMatchType ==
  ASSUME NEW t, TypedTable(t), NEW ids \in Seq(EncryptedId), NEW line
  PROVE  AddMatch(t, ids, line) \in Seq(EncryptedId)
<1> DEFINE id == RemoveExtraAsciiWhitespace(line)
<1>1. CASE HasElement(t, id)
  <2>1. GetValue(t, id) \in EncryptedId
    BY <1>1 DEF HasElement, GetValue, TypedTable, Element
  <2> HIDE DEF id
  <2>2. Append(ids, GetValue(t, id)) \in Seq(EncryptedId)
    BY <2>1, AppendProperties
  <2>3. QED
    BY <1>1, <2>2 DEF AddMatch, id
<1>2. CASE ~HasElement(t, id)
  BY <1>2 DEF AddMatch
<1>3. QED
  BY <1>1, <1>2

\* The function MatchesIn is defined with.
LEMMA MatchesDefined ==
  ASSUME NEW t, TypedTable(t), NEW S, NEW lines \in Seq(S)
  PROVE  \E g : /\ g \in [0..Len(lines) -> Seq(EncryptedId)]
                /\ g[0] = <<>>
                /\ \A n \in 1..Len(lines) : g[n] = AddMatch(t, g[n - 1], lines[n])
                /\ MatchesIn(t, lines) = g[Len(lines)]
<1> DEFINE length == Len(lines)
           A == Seq(EncryptedId)
           D == [x \in A \X (1..length) |-> AddMatch(t, x[1], lines[x[2]])]
           Body(f) == [n \in 0..Len(lines) |->
                         IF n = 0 THEN <<>> ELSE AddMatch(t, f[n - 1], lines[n])]
           matches == CHOOSE f : f = Body(f)
<1>1. length \in Nat /\ <<>> \in A
  BY LenProperties, EmptySeq
<1>2. Steps(D, A, length)
  BY AddMatchType DEF Steps
<1>3. PICK g \in [0..length -> A] :
        g[0] = <<>> /\ \A n \in 1..length : g[n] = D[<<g[n - 1], n>>]
  <2> HIDE DEF A, D, length
  <2>1. QED
    BY <1>1, <1>2, RecursionDefines
<1>4. \A n \in 1..length : g[n] = AddMatch(t, g[n - 1], lines[n])
  <2> HIDE DEF A, length
  <2>1. \A n \in 1..length : n - 1 \in 0..length
    BY <1>1
  <2>2. QED
    BY <1>3, <2>1
<1>5. g = Body(g)
  <2> HIDE DEF A, D
  <2>1. QED
    BY <1>1, <1>3, <1>4
<1>6. MatchesIn(t, lines) = matches[length]
  BY Zenon DEF MatchesIn
<1>7. matches = Body(matches)
  <2> HIDE DEF Body
  <2>1. QED
    BY <1>5
<1>8. /\ matches[0] = <<>>
      /\ \A n \in 1..length : matches[n] = AddMatch(t, matches[n - 1], lines[n])
  <2> HIDE DEF matches
  <2>1. QED
    BY <1>1, <1>7
<1>9. matches[length] = g[length]
  <2> HIDE DEF matches, A, D, length
  <2>1. matches[0] = g[0] /\ \A n \in 1..length : matches[n - 1] = g[n - 1] => matches[n] = g[n]
    BY <1>3, <1>4, <1>8
  <2>2. QED
    BY <1>1, <2>1, RecursionAgrees
<1>10. QED
  <2> HIDE DEF matches, D
  <2>1. QED
    BY <1>3, <1>4, <1>6, <1>9

LEMMA MatchesProperties ==
  ASSUME NEW t, TypedTable(t), NEW S
  PROVE  /\ MatchesIn(t, <<>>) = <<>>
         /\ \A lines \in Seq(S) :
              /\ MatchesIn(t, lines) \in Seq(EncryptedId)
              /\ \A line \in S :
                   MatchesIn(t, Append(lines, line)) = AddMatch(t, MatchesIn(t, lines), line)
<1> DEFINE Defines(g, lines) ==
             /\ g \in [0..Len(lines) -> Seq(EncryptedId)]
             /\ g[0] = <<>>
             /\ \A n \in 1..Len(lines) : g[n] = AddMatch(t, g[n - 1], lines[n])
             /\ MatchesIn(t, lines) = g[Len(lines)]
<1>1. \A lines \in Seq(S) : \E g : Defines(g, lines)
  BY MatchesDefined
<1>2. MatchesIn(t, <<>>) = <<>>
  <2>1. <<>> \in Seq(S) /\ Len(<<>>) = 0
    BY EmptySeq
  <2>2. QED
    BY <1>1, <2>1
<1>3. ASSUME NEW lines \in Seq(S)
      PROVE  MatchesIn(t, lines) \in Seq(EncryptedId)
  <2>1. Len(lines) \in 0..Len(lines)
    BY LenProperties
  <2>2. QED
    BY <1>1, <2>1
<1>4. ASSUME NEW lines \in Seq(S), NEW line \in S
      PROVE  MatchesIn(t, Append(lines, line)) = AddMatch(t, MatchesIn(t, lines), line)
  <2> DEFINE more == Append(lines, line)
  <2>1. /\ more \in Seq(S) /\ Len(lines) \in Nat /\ Len(more) = Len(lines) + 1
        /\ \A i \in 1..Len(lines) : more[i] = lines[i]
        /\ more[Len(lines) + 1] = line
    BY AppendProperties, LenProperties
  <2>2. PICK p : Defines(p, lines)
    BY <1>1
  <2> HIDE DEF more
  <2>3. PICK q : Defines(q, more)
    <3> HIDE DEF Defines
    <3>1. QED
      BY <1>1, <2>1
  <2>4. ASSUME NEW n \in 1..Len(lines), p[n - 1] = q[n - 1]
        PROVE  p[n] = q[n]
    <3>1. n \in 1..Len(more) /\ more[n] = lines[n]
      BY <2>1
    <3>2. p[n] = AddMatch(t, p[n - 1], lines[n]) /\ q[n] = AddMatch(t, q[n - 1], more[n])
      BY <2>2, <2>3, <3>1
    <3>3. QED
      BY <2>4, <3>1, <3>2, Zenon
  <2>5. p[Len(lines)] = q[Len(lines)]
    <3>1. p[0] = q[0]
      BY <2>2, <2>3
    <3>2. QED
      BY <2>1, <2>4, <3>1, RecursionAgrees
  <2>6. q[Len(lines) + 1] = AddMatch(t, q[Len(lines)], line)
    <3>1. Len(lines) + 1 \in 1..Len(more) /\ (Len(lines) + 1) - 1 = Len(lines)
      BY <2>1
    <3>2. q[Len(lines) + 1] = AddMatch(t, q[(Len(lines) + 1) - 1], more[Len(lines) + 1])
      BY <2>3, <3>1
    <3>3. QED
      BY <2>1, <3>1, <3>2
  <2>7. MatchesIn(t, more) = AddMatch(t, MatchesIn(t, lines), line)
    BY <2>1, <2>2, <2>3, <2>5, <2>6
  <2>8. QED
    BY <2>7 DEF more
<1>5. QED
  BY <1>2, <1>3, <1>4

--------------------------------------------------------------------------------
MarkedValues(t) == {pair[2] : pair \in VisitMatched(t)}

LEMMA MarkedValue ==
  ASSUME NEW t, NEW v
  PROVE  v \in MarkedValues(t) <=>
           \E k \in DOMAIN t : t[k].is_matched /\ v = t[k].value
<1>1. \A k : <<k, t[k].value>>[2] = t[k].value
  OBVIOUS
<1>2. v \in MarkedValues(t) <=>
        \E k \in DOMAIN t : t[k].is_matched /\ v = <<k, t[k].value>>[2]
  BY Zenon DEF MarkedValues, VisitMatched
<1>3. QED
  BY <1>1, <1>2, Zenon

\* Marking an element changes what has been matched, and nothing else.
LEMMA MarkMatchedProperties ==
  ASSUME NEW t, TypedTable(t), NEW key, HasElement(t, key)
  PROVE  LET marked == MarkMatched(t, key)
         IN  /\ TypedTable(marked) /\ DOMAIN marked = DOMAIN t
             /\ \A k \in DOMAIN t : marked[k].value = t[k].value
             /\ MarkedValues(marked) = MarkedValues(t) \cup {GetValue(t, key)}
<1> DEFINE marked == MarkMatched(t, key)
<1>1. marked = [t EXCEPT ![key].is_matched = TRUE]
  BY DEF MarkMatched
<1>2. /\ DOMAIN marked = DOMAIN t
      /\ marked = [k \in DOMAIN marked |-> marked[k]]
  BY <1>1 DEF TypedTable
<1>3. \A k \in DOMAIN t :
        /\ k # key => marked[k] = t[k]
        /\ k = key => marked[k] = [t[k] EXCEPT !.is_matched = TRUE]
  BY <1>1 DEF TypedTable, HasElement
<1>4. \A k \in DOMAIN t :
        /\ marked[k] \in Element
        /\ marked[k].value = t[k].value
        /\ k = key => marked[k].is_matched = TRUE
  <2> HIDE DEF marked
  <2>1. QED
    BY <1>3 DEF TypedTable, Element
<1>5. MarkedValues(marked) = MarkedValues(t) \cup {GetValue(t, key)}
  <2> HIDE DEF marked
  <2>1. key \in DOMAIN t /\ GetValue(t, key) = t[key].value
    BY DEF HasElement, GetValue
  <2>2. \A v : v \in MarkedValues(marked) <=>
               \E k \in DOMAIN t : marked[k].is_matched /\ v = marked[k].value
    BY <1>2, MarkedValue
  <2>3. \A v : v \in MarkedValues(t) <=>
               \E k \in DOMAIN t : t[k].is_matched /\ v = t[k].value
    BY MarkedValue
  <2>4. ASSUME NEW v, v \in MarkedValues(marked)
        PROVE  v \in MarkedValues(t) \/ v = GetValue(t, key)
    <3>1. PICK k \in DOMAIN t : marked[k].is_matched /\ v = marked[k].value
      BY <2>2, <2>4
    <3>2. CASE k = key
      BY <1>4, <2>1, <3>1, <3>2
    <3>3. CASE k # key
      <4>1. t[k].is_matched /\ v = t[k].value
        BY <1>3, <3>1, <3>3, Zenon
      <4>2. QED
        BY <2>3, <4>1, Zenon
    <3>4. QED
      BY <3>2, <3>3
  <2>5. ASSUME NEW v, v \in MarkedValues(t)
        PROVE  v \in MarkedValues(marked)
    <3>1. PICK k \in DOMAIN t : t[k].is_matched /\ v = t[k].value
      BY <2>3, <2>5, Zenon
    <3>2. marked[k].is_matched
      BY <1>3, <1>4, <3>1, Zenon
    <3>3. v = marked[k].value
      BY <1>4, <3>1, Zenon
    <3>4. QED
      BY <2>2, <3>2, <3>3, Zenon
  <2>6. GetValue(t, key) \in MarkedValues(marked)
    <3>1. marked[key].is_matched /\ GetValue(t, key) = marked[key].value
      BY <1>4, <2>1, Zenon
    <3>2. QED
      BY <2>1, <2>2, <3>1, Zenon
  <2>7. QED
    BY <2>4, <2>5, <2>6
<1>6. QED
  <2> HIDE DEF marked
  <2>1. TypedTable(marked)
    BY <1>2, <1>4 DEF TypedTable
  <2>2. QED
    BY <1>2, <1>4, <1>5, <2>1 DEF marked

LEMMA MarkKeepsMatches ==
  ASSUME NEW t, TypedTable(t), NEW key, HasElement(t, key), NEW S, NEW lines \in Seq(S)
  PROVE  MatchesIn(MarkMatched(t, key), lines) = MatchesIn(t, lines)
<1> DEFINE marked == MarkMatched(t, key)
           Q == {s \in Seq(S) : MatchesIn(marked, s) = MatchesIn(t, s)}
<1>1. /\ TypedTable(marked) /\ DOMAIN marked = DOMAIN t
      /\ \A k \in DOMAIN t : marked[k].value = t[k].value
  BY MarkMatchedProperties
<1> HIDE DEF marked
<1>2. <<>> \in Q
  BY <1>1, EmptySeq, MatchesProperties
<1>3. ASSUME NEW s \in Seq(S), NEW line \in S, s \in Q
      PROVE  Append(s, line) \in Q
  <2>1. \A ids : AddMatch(marked, ids, line) = AddMatch(t, ids, line)
    BY <1>1 DEF AddMatch, HasElement, GetValue
  <2>2. Append(s, line) \in Seq(S)
    BY AppendProperties
  <2>3. /\ MatchesIn(marked, Append(s, line)) = AddMatch(marked, MatchesIn(marked, s), line)
        /\ MatchesIn(t, Append(s, line)) = AddMatch(t, MatchesIn(t, s), line)
    BY <1>1, MatchesProperties
  <2>4. QED
    BY <1>3, <2>1, <2>2, <2>3
<1>4. Seq(S) \subseteq Q
  <2> HIDE DEF Q
  <2>1. QED
    BY <1>2, <1>3, SeqInduction
<1>5. QED
  BY <1>4 DEF marked

LEMMA ToSetProperties ==
  ASSUME NEW S
  PROVE  /\ ToSet(<<>>) = {}
         /\ \A s \in Seq(S), e \in S : ToSet(Append(s, e)) = ToSet(s) \cup {e}
<1>1. ToSet(<<>>) = {}
  BY DEF ToSet
<1>2. ASSUME NEW s \in Seq(S), NEW e \in S
      PROVE  ToSet(Append(s, e)) = ToSet(s) \cup {e}
  <2> DEFINE t == Append(s, e)
  <2>1. /\ Len(s) \in Nat /\ DOMAIN t = 1..Len(s) + 1 /\ DOMAIN s = 1..Len(s)
        /\ \A i \in 1..Len(s) : t[i] = s[i]
        /\ t[Len(s) + 1] = e
    BY AppendProperties, LenProperties
  <2> HIDE DEF t
  <2>2. ToSet(t) = ToSet(s) \cup {e}
    <3>1. \A i : i \in 1..Len(s) + 1 <=> i \in 1..Len(s) \/ i = Len(s) + 1
      BY <2>1
    <3>2. QED
      BY <2>1, <3>1 DEF ToSet
  <2>3. QED
    BY <2>2 DEF t
<1>3. QED
  BY <1>1, <1>2

--------------------------------------------------------------------------------
\* What each of the two threads knows of the other from where it is.
ControlInv ==
  /\ main \in {"fetch", "startStream"} => task = "none" /\ delivered = <<>>
  /\ main = "getting" <=> taken # NoRow
  /\ main = "row" => delivered # <<>>
  /\ main = "checkResult" \/ lastPass => all_advertiser_ids_received
  /\ main = "complete" => lastPass /\ rows = <<>>
  /\ main = "crashed" => all_advertiser_ids_received
  /\ main = "returned" <=> exportResult # "none"
  /\ exportResult = "Success" => all_advertiser_ids_received
  /\ lastPass => Successful(get_stream_result)
  /\ producer # "idle" => task = "adding" \/ dangling
  /\ task = "adding" /\ producer = "idle" => addResult # "none"
  /\ task \in {"none", "waiting", "adding"} => ~Successful(get_stream_result)
  /\ Successful(get_stream_result) => streamOutcome = "Success" /\ toCome = <<>>
  /\ task = "ending" \/ all_advertiser_ids_received => get_stream_result # "Default"
  /\ all_advertiser_ids_received <=> task = "ended" /\ ~dangling
  /\ dangling => task = "ended" /\ Returned

\* The function is bound while the upload has begun, and main ends the upload
\* before it returns.
UploadInv ==
  /\ main \in {"fetch", "startStream"} => add_chunk_functor = "empty"
  /\ add_chunk_functor = "empty" <=> verdict = "none"
  /\ verdict = "none" => accepted = <<>>
  /\ add_chunk_functor = "bound" => (verdict = "open" <=> ~Returned)

\* No chunk has been refused or cut off so far.
Smooth ==
  /\ ~lost /\ ~dangling
  /\ task = "adding" /\ producer = "idle" => addResult = "Success"

\* As long as that is so, every chunk is in the text or on its way there.
FlowInv ==
  /\ toCome \in Seq(Chunk)
  /\ Smooth =>
       /\ intact
       /\ text \o (IF producer = "reserve" THEN chunk ELSE <<>>) \o FlattenSeq(toCome)
            = FlattenSeq(file)

\* The rows main is done with have been looked up, uploaded and marked.
Seen == IF main = "row" THEN Front(delivered) ELSE delivered

MatchInv ==
  /\ TypedTable(match_table)
  /\ ~Returned =>
       /\ accepted = MatchesIn(match_table, Seen)
       /\ MarkedValues(match_table) = ToSet(accepted)

IInv ==
  /\ TypeOK /\ ParserInv /\ LinesInv
  /\ ControlInv /\ UploadInv /\ FlowInv /\ MatchInv /\ SuccessExportsTheMatches

--------------------------------------------------------------------------------
\* Every step of the two threads is one of the parser, or none.
LEMMA ParserSteps ==
  ASSUME toCome \in Seq(Chunk), [Next]_vars
  PROVE  [ParserNext]_(parserVars)
<1>1. CASE UNCHANGED parserVars
  BY <1>1 DEF parserVars, parserVars
<1>2. CASE TakeNextRow \/ ReturnNextRow
  BY <1>2 DEF TakeNextRow, ReturnNextRow, ParserNext, GetNextRow
<1>3. CASE ChunkArrives
  <2>1. Head(toCome) \in Chunk
    BY <1>3, HeadTailProperties DEF ChunkArrives
  <2>2. QED
    BY <1>3, <2>1 DEF ChunkArrives, ParserNext
<1>4. CASE AddingChunk
  BY <1>4 DEF AddingChunk, ParserNext
<1>5. CASE UNCHANGED vars
  BY <1>5 DEF vars, parserVars, parserVars
<1>6. CASE /\ Next
           /\ ~(TakeNextRow \/ ReturnNextRow \/ ChunkArrives \/ AddingChunk)
  <2>1. UNCHANGED parserVars
    BY <1>6
    DEF Next, Main, Callback, FetchMapping, StartStream, TestReceived, NoMoreRows,
        BadRow, UnmatchedRow, StartUpload, PushMatch, StreamFailed,
        StreamSucceeded, CompleteUpload, CallEmptyFunctor, ChunkAdded, StreamEnds,
        AllReceived, CallbackAfterReturn
  <2>2. QED
    BY <1>1, <2>1
<1>7. QED
  BY <1>2, <1>3, <1>4, <1>5, <1>6

LEMMA InitControl == Init => ControlInv /\ UploadInv
BY DEF Init, ControlInv, UploadInv, Returned, Successful, ParserInit,
       Uploading!UInit

LEMMA MainControl ==
  ASSUME TypeOK, ControlInv, UploadInv, Main
  PROVE  ControlInv' /\ UploadInv'
<1> USE DEF ControlInv, UploadInv, Returned, Successful, TypeOK
<1>1. CASE FetchMapping
  <2>1. /\ main = "fetch"
        /\ UNCHANGED <<rows, taken, delivered, producer, addResult, lastPass,
                       add_chunk_functor, verdict, accepted>>
        /\ UNCHANGED taskVars
        /\ \/ main' = "startStream" /\ exportResult' = exportResult
           \/ main' = "returned" /\ exportResult' = "Failure"
    BY <1>1 DEF FetchMapping, Return, parserVars, uploadVars
  <2> HIDE DEF TypeOK
  <2>2. ControlInv'
    BY <2>1 DEF taskVars
  <2>3. UploadInv'
    BY <2>1
  <2>4. QED
    BY <2>2, <2>3
<1>2. CASE StartStream
  <2>1. /\ main = "startStream"
        /\ UNCHANGED <<rows, taken, delivered, producer, addResult, lastPass,
                       add_chunk_functor, verdict, accepted, toCome, streamOutcome,
                       get_stream_result, all_advertiser_ids_received, dangling>>
        /\ \/ main' = "loop" /\ exportResult' = exportResult /\ task' = "waiting"
           \/ main' = "returned" /\ exportResult' = "Failure" /\ task' = task
    BY <1>2 DEF StartStream, Return, parserVars, uploadVars
  <2> HIDE DEF TypeOK
  <2>2. ControlInv'
    BY <2>1
  <2>3. UploadInv'
    BY <2>1
  <2>4. QED
    BY <2>2, <2>3
<1>3. CASE TestReceived
  BY <1>3 DEF TestReceived, MainGoes, parserVars, uploadVars, taskVars
<1>4. CASE NoMoreRows
  BY <1>4 DEF NoMoreRows, MainGoes, parserVars, uploadVars, taskVars
<1>5. CASE TakeNextRow
  <2>1. /\ taken = NoRow /\ rows # <<>> /\ taken' = Head(rows)
        /\ main = "rows" /\ main' = "getting"
        /\ UNCHANGED <<delivered, producer, addResult, exportResult, lastPass,
                       add_chunk_functor>>
        /\ UNCHANGED uploadVars /\ UNCHANGED taskVars
    BY <1>5 DEF TakeNextRow, MainGoes, TakeRow, producerOnly
  <2>2. taken' # NoRow
    <3>1. Head(rows) \in Row
      BY <2>1, HeadTailProperties DEF ParserTypeOK
    <3>2. QED
      BY <2>1, <3>1, ParserAssumption DEF Row
  <2> HIDE DEF TypeOK
  <2>3. QED
    BY <2>1, <2>2 DEF uploadVars, taskVars
<1>6. CASE ReturnNextRow
  BY <1>6 DEF ReturnNextRow, MainGoes, ReturnRow, producerOnly, uploadVars, taskVars
<1>7. CASE BadRow
  BY <1>7 DEF BadRow, CancelUploadIfStarted, Uploading!Abort, Return, parserVars,
              uploadVars, taskVars
<1>8. CASE UnmatchedRow
  BY <1>8 DEF UnmatchedRow, MainGoes, parserVars, uploadVars, taskVars
<1>9. CASE StartUpload
  BY <1>9 DEF StartUpload, Uploading!Open, Return, parserVars, uploadVars, taskVars
<1>10. CASE PushMatch
  BY <1>10 DEF PushMatch, Uploading!Push, Uploading!Abort, Return, parserVars, taskVars
<1>11. CASE StreamFailed
  BY <1>11 DEF StreamFailed, CancelUploadIfStarted, Uploading!Abort, Return,
               parserVars, uploadVars, taskVars
<1>12. CASE StreamSucceeded
  BY <1>12 DEF StreamSucceeded, MainGoes, parserVars, uploadVars, taskVars
<1>13. CASE CompleteUpload
  BY <1>13 DEF CompleteUpload, Uploading!Commit, Uploading!Abort, Return,
               parserVars, taskVars
<1>14. CASE CallEmptyFunctor
  BY <1>14 DEF CallEmptyFunctor, MainGoes, parserVars, uploadVars, taskVars
<1>15. QED
  BY <1>1, <1>2, <1>3, <1>4, <1>5, <1>6, <1>7, <1>8, <1>9, <1>10, <1>11, <1>12,
     <1>13, <1>14 DEF Main

LEMMA CallbackControl ==
  ASSUME TypeOK, ControlInv, UploadInv, Callback
  PROVE  ControlInv' /\ UploadInv'
<1> USE DEF ControlInv, UploadInv, Returned, Successful, TypeOK, mainOnly,
            uploadVars, exportVars
<1>1. CASE ChunkArrives
  BY <1>1 DEF ChunkArrives, BeginChunk, RefuseChunk, consumerOnly
<1>2. CASE AddingChunk
  BY <1>2 DEF AddingChunk, FinishAddCsvChunk, ReserveChunk,
              EnqueueRow, EnqueueFails, KeepRest,
              consumerOnly, taskVars
<1>3. CASE ChunkAdded
  BY <1>3 DEF ChunkAdded, parserVars
<1>4. CASE StreamEnds
  BY <1>4 DEF StreamEnds, FinalStreamResult, parserVars
<1>5. CASE AllReceived
  BY <1>5 DEF AllReceived, parserVars
<1>6. CASE CallbackAfterReturn
  BY <1>6 DEF CallbackAfterReturn, parserVars
<1>7. QED
  BY <1>1, <1>2, <1>3, <1>4, <1>5, <1>6 DEF Callback

--------------------------------------------------------------------------------
LEMMA EncryptedType ==
  ASSUME TypedTable(match_table), Matched
  PROVE  Encrypted \in EncryptedId
<1> DEFINE id == plaintext_id
<1>1. HasElement(match_table, id)
  BY DEF Matched
<1> HIDE DEF id
<1>2. GetValue(match_table, id) \in EncryptedId
  BY <1>1 DEF HasElement, GetValue, TypedTable, Element
<1>3. QED
  BY <1>2 DEF Encrypted, id

\* Every step is one of the upload, or none.
LEMMA UploadSteps ==
  ASSUME ControlInv, UploadInv, TypedTable(match_table), [Next]_vars
  PROVE  [Uploading!UNext]_(Uploading!uvars)
<1>1. CASE UNCHANGED uploadVars
  BY <1>1 DEF uploadVars, Uploading!uvars
<1>2. CASE StartUpload
  <2>1. CASE Uploading!Open(Encrypted)
    <3>1. Encrypted \in EncryptedId
      BY <1>2, EncryptedType DEF StartUpload
    <3>2. QED
      BY <2>1, <3>1 DEF Uploading!UNext
  <2>2. CASE UNCHANGED uploadVars
    BY <1>1, <2>2
  <2>3. QED
    BY <1>2, <2>1, <2>2 DEF StartUpload
<1>3. CASE PushMatch
  <2>1. CASE Uploading!Push(Encrypted)
    <3>1. Encrypted \in EncryptedId
      BY <1>3, EncryptedType DEF PushMatch
    <3>2. QED
      BY <2>1, <3>1 DEF Uploading!UNext
  <2>2. CASE Uploading!Abort
    BY <2>2 DEF Uploading!UNext
  <2>3. QED
    BY <1>3, <2>1, <2>2 DEF PushMatch
<1>4. CASE BadRow \/ StreamFailed
  BY <1>1, <1>4 DEF BadRow, StreamFailed, CancelUploadIfStarted, Uploading!UNext
<1>5. CASE CompleteUpload
  BY <1>5 DEF CompleteUpload, Uploading!UNext
<1>6. CASE UNCHANGED vars
  BY <1>1, <1>6 DEF vars
<1>7. CASE /\ Next
           /\ ~(StartUpload \/ PushMatch \/ BadRow \/ StreamFailed \/ CompleteUpload)
  <2>1. UNCHANGED uploadVars
    BY <1>7
    DEF Next, Main, Callback, mainOnly, MainGoes, FetchMapping, StartStream,
        TestReceived, NoMoreRows, TakeNextRow, ReturnNextRow, UnmatchedRow,
        StreamSucceeded, CallEmptyFunctor, ChunkArrives, AddingChunk, ChunkAdded,
        StreamEnds, AllReceived, CallbackAfterReturn
  <2>2. QED
    BY <1>1, <2>1
<1>8. QED
  BY <1>2, <1>3, <1>4, <1>5, <1>6, <1>7

LEMMA UploadTypes ==
  ASSUME accepted \in Seq(EncryptedId), blob \in Seq(EncryptedId) \cup {NoBlob},
         verdict \in {"none", "open", "Success", "Failure"},
         [Uploading!UNext]_(Uploading!uvars)
  PROVE  /\ accepted' \in Seq(EncryptedId)
         /\ blob' \in Seq(EncryptedId) \cup {NoBlob}
         /\ verdict' \in {"none", "open", "Success", "Failure"}
<1>1. ASSUME NEW d \in EncryptedId, Uploading!Open(d)
      PROVE  accepted' \in Seq(EncryptedId)
  BY <1>1 DEF Uploading!Open
<1>2. ASSUME NEW d \in EncryptedId, Uploading!Push(d)
      PROVE  accepted' \in Seq(EncryptedId)
  BY <1>2, AppendProperties DEF Uploading!Push
<1>3. QED
  BY <1>1, <1>2 DEF Uploading!UNext, Uploading!uvars, Uploading!Open,
                    Uploading!Push, Uploading!Commit, Uploading!Abort

\* The variables only main writes, and those only the callback writes.
MainTypes ==
  /\ main \in {"fetch", "startStream", "loop", "rows", "getting", "row",
               "checkResult", "complete", "returned", "crashed"}
  /\ lastPass \in BOOLEAN
  /\ add_chunk_functor \in {"empty", "bound"}
  /\ exportResult \in {"none", "Success", "Failure"}

CallbackTypes ==
  /\ get_stream_result \in {"Success", "Retry", "Failure", "StreamError", "Default"}
  /\ all_advertiser_ids_received \in BOOLEAN
  /\ streamOutcome \in {"none", "Success", "StreamError"}
  /\ lost \in BOOLEAN /\ dangling \in BOOLEAN

LEMMA MainTypesStep ==
  ASSUME MainTypes, [Next]_vars
  PROVE  MainTypes'
<1>1. CASE UNCHANGED <<main, lastPass, add_chunk_functor, exportResult>>
  BY <1>1 DEF MainTypes
<1>2. CASE Main
  BY <1>2
  DEF Main, MainTypes, Return, MainGoes, FetchMapping, StartStream, TestReceived,
      NoMoreRows, TakeNextRow, ReturnNextRow, BadRow, UnmatchedRow, StartUpload,
      PushMatch, StreamFailed, StreamSucceeded, CompleteUpload, CallEmptyFunctor
<1>3. CASE Callback
  BY <1>1, <1>3
  DEF Callback, mainOnly, exportVars, ChunkArrives, AddingChunk, ChunkAdded,
      StreamEnds, AllReceived, CallbackAfterReturn
<1>4. CASE UNCHANGED vars
  BY <1>1, <1>4 DEF vars, exportVars
<1>5. QED
  BY <1>2, <1>3, <1>4 DEF Next

LEMMA CallbackTypesStep ==
  ASSUME CallbackTypes, ControlInv, ParserTypeOK, [Next]_vars
  PROVE  CallbackTypes'
<1>1. CASE UNCHANGED <<streamOutcome, get_stream_result,
                       all_advertiser_ids_received, lost, dangling>>
  BY <1>1 DEF CallbackTypes
<1>2. CASE Main
  BY <1>1, <1>2
  DEF Main, MainGoes, taskVars, FetchMapping, StartStream, TestReceived,
      NoMoreRows, TakeNextRow, ReturnNextRow, BadRow, UnmatchedRow, StartUpload,
      PushMatch, StreamFailed, StreamSucceeded, CompleteUpload, CallEmptyFunctor
<1>3. CASE ChunkArrives \/ AddingChunk
  BY <1>1, <1>3 DEF ChunkArrives, AddingChunk, taskVars
<1>4. CASE ChunkAdded
  <2>1. addResult \in {"Success", "Retry", "Failure"}
    BY <1>4 DEF ChunkAdded, ControlInv, ParserTypeOK
  <2>2. QED
    BY <1>4, <2>1 DEF ChunkAdded, CallbackTypes
<1>5. CASE StreamEnds
  BY <1>5 DEF StreamEnds, FinalStreamResult, CallbackTypes
<1>6. CASE AllReceived \/ CallbackAfterReturn
  BY <1>6 DEF AllReceived, CallbackAfterReturn, CallbackTypes
<1>7. CASE UNCHANGED vars
  BY <1>1, <1>7 DEF vars, taskVars
<1>8. QED
  BY <1>2, <1>3, <1>4, <1>5, <1>6, <1>7 DEF Next, Callback

LEMMA TaskSteps ==
  ASSUME task \in {"none", "waiting", "adding", "ending", "ended"}, [Next]_vars
  PROVE  /\ task' \in {"none", "waiting", "adding", "ending", "ended"}
         /\ file' = file
         /\ \/ toCome' = toCome
            \/ toCome # <<>> /\ toCome' = Tail(toCome)
<1>1. CASE Main
  BY <1>1
  DEF Main, MainGoes, taskVars, FetchMapping, StartStream, TestReceived,
      NoMoreRows, TakeNextRow, ReturnNextRow, BadRow, UnmatchedRow, StartUpload,
      PushMatch, StreamFailed, StreamSucceeded, CompleteUpload, CallEmptyFunctor
<1>2. CASE Callback
  BY <1>2
  DEF Callback, mainOnly, taskVars, ChunkArrives, AddingChunk, ChunkAdded,
      StreamEnds, AllReceived, CallbackAfterReturn
<1>3. CASE UNCHANGED vars
  BY <1>3 DEF vars, taskVars
<1>4. QED
  BY <1>1, <1>2, <1>3 DEF Next

LEMMA TypesMakeTypeOK ==
  TypeOK <=>
    /\ ParserTypeOK /\ MainTypes /\ CallbackTypes
    /\ accepted \in Seq(EncryptedId)
    /\ blob \in Seq(EncryptedId) \cup {NoBlob}
    /\ verdict \in {"none", "open", "Success", "Failure"}
    /\ file \in Files /\ IsSuffix(toCome, file)
    /\ task \in {"none", "waiting", "adding", "ending", "ended"}
    /\ all_advertiser_ids_received => get_stream_result # "Default"
BY DEF TypeOK, MainTypes, CallbackTypes

--------------------------------------------------------------------------------
LEMMA InitFlow == Init => FlowInv
<1> SUFFICES ASSUME Init PROVE FlowInv
  OBVIOUS
<1>1. toCome = file /\ file \in Seq(Chunk) /\ text = <<>> /\ producer = "idle" /\ intact
  BY MatchWorkerAssumption DEF Init, ParserInit
<1>2. FlattenSeq(file) \in Seq(Char)
  BY <1>1, MatchWorkerAssumption, ParserAssumption, SeqMonotonic, FlattenProperties
<1> DEFINE f == FlattenSeq(file)
<1>3. (<<>> \o <<>>) \o f = f
  <2> HIDE DEF f
  <2>1. f \in Seq(Char)
    BY <1>2 DEF f
  <2>2. QED
    BY <2>1
<1>4. text \o (IF producer = "reserve" THEN chunk ELSE <<>>) = <<>> \o <<>>
  BY <1>1
<1>5. QED
  BY <1>1, <1>3, <1>4, Zenon DEF FlowInv

LEMMA FlowStep ==
  ASSUME FlowInv, ControlInv, ParserTypeOK, [Next]_vars
  PROVE  FlowInv'
<1> DEFINE Onward == IF producer = "reserve" THEN chunk ELSE <<>>
           Kept == UNCHANGED <<text, producer, chunk, addResult, intact, toCome,
                               file, lost, dangling>>
           Goes == \/ task' = task
                   \/ /\ task \in {"none", "waiting", "ending"}
                      /\ task' \in {"none", "waiting", "ending", "ended"}
<1>1. Kept /\ Goes => FlowInv'
  <2>1. SUFFICES ASSUME Kept, Goes PROVE FlowInv'
    OBVIOUS
  <2>2. Smooth' => Smooth
    BY <2>1 DEF Smooth
  <2>3. QED
    BY <2>1, <2>2, Zenon DEF FlowInv
<1> HIDE DEF Goes
<1>2. CASE Main
  <2>1. CASE TakeNextRow \/ ReturnNextRow
    <3>1. Kept /\ task' = task
      BY <2>1 DEF TakeNextRow, ReturnNextRow, TakeRow, ReturnRow,
                  producerOnly, MainGoes, taskVars
    <3> HIDE DEF Kept
    <3>2. QED
      BY <1>1, <3>1 DEF Goes
  <2>2. CASE StartStream
    <3>1. Kept /\ task = "none" /\ task' \in {"none", "waiting"}
      BY <2>2 DEF StartStream, parserVars, ControlInv
    <3> HIDE DEF Kept
    <3>2. QED
      BY <1>1, <3>1 DEF Goes
  <2>3. CASE Main /\ ~(TakeNextRow \/ ReturnNextRow \/ StartStream)
    <3>1. Kept /\ task' = task
      BY <2>3
      DEF Main, MainGoes, parserVars, taskVars, FetchMapping, TestReceived,
          NoMoreRows, BadRow, UnmatchedRow, StartUpload, PushMatch, StreamFailed,
          StreamSucceeded, CompleteUpload, CallEmptyFunctor
    <3> HIDE DEF Kept
    <3>2. QED
      BY <1>1, <3>1 DEF Goes
  <2>4. QED
    BY <1>2, <2>1, <2>2, <2>3
<1>3. CASE ChunkArrives
  <2>1. /\ task = "waiting" /\ task' = "adding" /\ toCome # <<>>
        /\ toCome' = Tail(toCome)
        /\ UNCHANGED <<file, lost, dangling>>
    BY <1>3 DEF ChunkArrives, mainOnly
  <2>2. /\ Tail(toCome) \in Seq(Chunk) /\ Head(toCome) \in Seq(Char)
        /\ FlattenSeq(Tail(toCome)) \in Seq(Char)
        /\ FlattenSeq(toCome) = Head(toCome) \o FlattenSeq(Tail(toCome))
    BY <2>1, FlattenTail DEF FlowInv
  <2>3. CASE RefuseChunk(Head(toCome))
    <3>1. producer' = "idle" /\ addResult' = "Retry"
      BY <2>3 DEF RefuseChunk
    <3>2. QED
      BY <2>1, <2>2, <3>1 DEF FlowInv, Smooth
  <2>4. CASE BeginChunk(Head(toCome))
    <3> SUFFICES ASSUME Smooth'
                 PROVE  /\ intact'
                        /\ text' \o Onward' \o FlattenSeq(toCome') = FlattenSeq(file')
      BY <2>1, <2>2 DEF FlowInv
    <3>1. /\ producer = "idle" /\ producer' = "reserve" /\ chunk' = Head(toCome)
          /\ UNCHANGED <<text, intact>>
      BY <2>4 DEF BeginChunk, consumerOnly
    <3>2. intact /\ text \o Onward \o FlattenSeq(toCome) = FlattenSeq(file)
      BY <2>1 DEF FlowInv, Smooth
    <3> DEFINE head == Head(toCome)
               tail == FlattenSeq(Tail(toCome))
    <3>3. text \o head \o tail = text \o <<>> \o (head \o tail)
      <4>1. text \in Seq(Char) /\ head \in Seq(Char) /\ tail \in Seq(Char)
        BY <2>2 DEF ParserTypeOK
      <4> HIDE DEF head, tail
      <4>2. text \o <<>> = text
        BY <4>1, ConcatEmptySeq
      <4>3. QED
        BY <4>1, <4>2, ConcatAssociative
    <3>4. Onward = <<>> /\ Onward' = head
      BY <3>1
    <3>5. text' \o Onward' \o FlattenSeq(toCome') = text \o head \o tail
      BY <2>1, <3>1, <3>4, Zenon
    <3>6. text \o <<>> \o (head \o tail) = FlattenSeq(file)
      BY <2>2, <3>2, <3>4, Zenon
    <3>7. QED
      BY <2>1, <3>1, <3>2, <3>3, <3>5, <3>6, Zenon
  <2>5. QED
    BY <1>3, <2>3, <2>4 DEF ChunkArrives
<1>4. CASE AddingChunk
  <2>1. task = "adding" /\ UNCHANGED <<task, toCome, file, lost, dangling>>
    BY <1>4 DEF AddingChunk, mainOnly, taskVars
  <2>2. CASE ReserveChunk
    <3>1. /\ producer = "reserve" /\ producer' = "scan" /\ text' = text \o chunk
          /\ intact' = intact
      BY <2>2 DEF ReserveChunk
    <3>2. text \o Onward = text \o chunk /\ text' \o Onward' = text \o chunk
      <4>1. (text \o chunk) \o <<>> = text \o chunk
        BY ConcatProperties, ConcatEmptySeq DEF ParserTypeOK
      <4>2. QED
        BY <3>1, <4>1
    <3>3. Smooth' => Smooth
      BY <2>1, <3>1 DEF Smooth
    <3>4. QED
      BY <2>1, <3>1, <3>2, <3>3, Zenon DEF FlowInv
  <2>3. CASE EnqueueRow
    <3>1. /\ producer = "scan"
          /\ UNCHANGED <<text, producer, chunk, addResult, intact>>
      BY <2>3 DEF EnqueueRow
    <3>2. Kept /\ task' = task
      BY <2>1, <3>1
    <3> HIDE DEF Kept
    <3>3. QED
      BY <1>1, <3>2 DEF Goes
  <2>4. CASE EnqueueFails
    <3>1. producer' = "idle" /\ addResult' = "Failure"
      BY <2>4 DEF EnqueueFails
    <3>2. QED
      BY <2>1, <3>1 DEF FlowInv, Smooth
  <2>5. CASE KeepRest
    <3>1. producer = "scan" /\ producer' = "idle" /\ UNCHANGED <<text, intact>>
      BY <2>5 DEF KeepRest
    <3>2. Onward = <<>> /\ Onward' = <<>> /\ (Smooth' => Smooth)
      BY <2>1, <3>1 DEF Smooth
    <3>3. QED
      BY <2>1, <3>1, <3>2, Zenon DEF FlowInv
  <2>6. QED
    BY <1>4, <2>2, <2>3, <2>4, <2>5 DEF AddingChunk, FinishAddCsvChunk
<1>5. CASE ChunkAdded
  <2>1. /\ task = "adding" /\ producer = "idle"
        /\ IF Successful(addResult) THEN lost' = lost ELSE lost' = TRUE
        /\ UNCHANGED <<text, producer, chunk, intact, toCome, file, dangling>>
    BY <1>5 DEF ChunkAdded, parserVars, mainOnly
  <2>2. Smooth' => Smooth
    BY <2>1 DEF Smooth, Successful
  <2>3. QED
    BY <2>1, <2>2, Zenon DEF FlowInv
<1>6. CASE StreamEnds \/ AllReceived
  <2>1. Kept /\ task \in {"waiting", "ending"} /\ task' \in {"ending", "ended"}
    BY <1>6 DEF StreamEnds, AllReceived, parserVars, mainOnly
  <2> HIDE DEF Kept
  <2>2. QED
    BY <1>1, <2>1 DEF Goes
<1>7. CASE CallbackAfterReturn
  <2>1. dangling' = TRUE /\ toCome' = toCome
    BY <1>7 DEF CallbackAfterReturn
  <2>2. ~Smooth'
    BY <2>1 DEF Smooth
  <2>3. QED
    BY <2>1, <2>2, Zenon DEF FlowInv
<1>8. CASE UNCHANGED vars
  <2>1. Kept /\ task' = task
    BY <1>8 DEF vars, parserVars, taskVars
  <2> HIDE DEF Kept
  <2>2. QED
    BY <1>1, <2>1 DEF Goes
<1>9. QED
  BY <1>2, <1>3, <1>4, <1>5, <1>6, <1>7, <1>8 DEF Next, Callback

--------------------------------------------------------------------------------
\* What the row that came out last adds to the matches.
LEMMA RowMatches ==
  ASSUME ParserTypeOK, delivered # <<>>, ValidRow, NEW t, TypedTable(t)
  PROVE  MatchesIn(t, delivered) =
           IF HasElement(t, plaintext_id)
           THEN Append(MatchesIn(t, Front(delivered)), GetValue(t, plaintext_id))
           ELSE MatchesIn(t, Front(delivered))
<1> DEFINE seen == Front(delivered)
           line == Last(delivered)
<1>1. delivered \in NonEmptySeq(Seq(Char))
  BY DEF ParserTypeOK, NonEmptySeq
<1>2. /\ seen \in Seq(Seq(Char)) /\ line \in Seq(Char)
      /\ delivered = Append(seen, line)
  BY <1>1, FrontLastProperties
<1>3. plaintext_id = RemoveExtraAsciiWhitespace(line)
  BY <1>2, OneColumnRow, ParserAssumption, MatchWorkerAssumption DEF plaintext_id, ValidRow, row
<1>4. MatchesIn(t, delivered) = AddMatch(t, MatchesIn(t, seen), line)
  <2> HIDE DEF seen, line
  <2>1. MatchesIn(t, Append(seen, line)) = AddMatch(t, MatchesIn(t, seen), line)
    BY <1>2, MatchesProperties
  <2>2. QED
    BY <1>2, <2>1, Zenon
<1>5. QED
  BY <1>3, <1>4, Zenon DEF AddMatch

\* A match is uploaded and marked: the table and the upload still agree.
LEMMA MatchedRow ==
  ASSUME ParserTypeOK, accepted \in Seq(EncryptedId), MatchInv,
         delivered # <<>>, main = "row", Matched,
         match_table' = MarkMatched(match_table, plaintext_id),
         accepted' = Append(accepted, Encrypted),
         delivered' = delivered, main' = "rows"
  PROVE  MatchInv'
<1> DEFINE id == plaintext_id
           ids == MatchesIn(match_table, Front(delivered))
<1>1. HasElement(match_table, id) /\ TypedTable(match_table) /\ ValidRow
  BY DEF Matched, MatchInv
<1>2. accepted = ids /\ MarkedValues(match_table) = ToSet(accepted)
  BY DEF MatchInv, Returned, Seen
<1>3. Encrypted = GetValue(match_table, id) /\ Encrypted \in EncryptedId
  BY <1>1, EncryptedType DEF Encrypted
<1>4. MatchesIn(match_table, delivered) = Append(ids, Encrypted)
  BY <1>1, <1>3, RowMatches
<1> HIDE DEF id, ids
<1>5. /\ TypedTable(match_table')
      /\ MarkedValues(match_table') = MarkedValues(match_table) \cup {Encrypted}
  BY <1>1, <1>3, MarkMatchedProperties DEF id
<1>6. MatchesIn(match_table', delivered) = MatchesIn(match_table, delivered)
  <2>1. delivered \in Seq(Seq(Char)) /\ match_table' = MarkMatched(match_table, id)
    BY DEF ParserTypeOK, id
  <2>2. QED
    BY <1>1, <2>1, MarkKeepsMatches
<1>7. ToSet(accepted') = ToSet(accepted) \cup {Encrypted}
  BY <1>3, ToSetProperties
<1>8. Seen' = delivered
  BY DEF Seen
<1>9. accepted' = MatchesIn(match_table', Seen')
  BY <1>2, <1>4, <1>6, <1>8, Zenon
<1>10. MarkedValues(match_table') = ToSet(accepted')
  BY <1>2, <1>5, <1>7, Zenon
<1>11. QED
  BY <1>5, <1>9, <1>10, Zenon DEF MatchInv

LEMMA TableStep ==
  ASSUME TypedTable(match_table), [Next]_vars
  PROVE  TypedTable(match_table')
<1>1. CASE UNCHANGED match_table
  BY <1>1
<1>2. CASE FetchMapping
  <2>1. PICK t \in FetchedTables :
          match_table' = match_table \/ (t # NoTable /\ match_table' = t)
    BY <1>2 DEF FetchMapping
  <2>2. CASE t # NoTable /\ match_table' = t
    <3>1. PICK mapping \in Mappings : t = ParsedMapping(mapping)
      BY <2>2 DEF FetchedTables
    <3>2. QED
      BY <2>2, <3>1, FetchedTablesAreTyped
  <2>3. QED
    BY <1>1, <2>1, <2>2
<1>3. CASE StartUpload \/ PushMatch
  <2> DEFINE id == plaintext_id
  <2>1. match_table' = MarkMatched(match_table, id) /\ HasElement(match_table, id)
    BY <1>3 DEF StartUpload, PushMatch, Matched
  <2> HIDE DEF id
  <2>2. QED
    BY <2>1, MarkMatchedProperties
<1>4. CASE UNCHANGED vars
  BY <1>1, <1>4 DEF vars, exportVars
<1>5. CASE Next /\ ~(FetchMapping \/ StartUpload \/ PushMatch)
  <2>1. UNCHANGED match_table
    BY <1>5
    DEF Next, Main, Callback, mainOnly, exportVars, MainGoes, StartStream,
        TestReceived, NoMoreRows, TakeNextRow, ReturnNextRow, BadRow, UnmatchedRow,
        StreamFailed, StreamSucceeded, CompleteUpload, CallEmptyFunctor,
        ChunkArrives, AddingChunk, ChunkAdded, StreamEnds, AllReceived,
        CallbackAfterReturn
  <2>2. QED
    BY <1>1, <2>1
<1>6. QED
  BY <1>2, <1>3, <1>4, <1>5

LEMMA NothingMarked ==
  ASSUME NEW t, Unmarked(t)
  PROVE  MarkedValues(t) = {}
<1>1. \A v : v \notin MarkedValues(t)
  BY MarkedValue DEF Unmarked
<1>2. QED
  BY <1>1

LEMMA MatchStep ==
  ASSUME TypeOK, MatchInv, ControlInv, UploadInv, [Next]_vars
  PROVE  MatchInv'
<1> DEFINE Kept == /\ UNCHANGED <<match_table, accepted, Seen>>
                   /\ Returned => Returned'
<1>0. ParserTypeOK /\ accepted \in Seq(EncryptedId)
  BY DEF TypeOK
<1> HIDE DEF TypeOK
<1>1. TypedTable(match_table')
  BY TableStep DEF MatchInv
<1>2. CASE Returned'
  BY <1>1, <1>2 DEF MatchInv
<1>3. CASE Kept
  BY <1>1, <1>3, Zenon DEF MatchInv
<1> HIDE DEF Kept
<1>4. ASSUME FetchMapping, ~Returned'
      PROVE  MatchInv'
  <2>1. PICK t \in FetchedTables : t # NoTable /\ match_table' = t
    BY <1>4 DEF FetchMapping, Return, Returned
  <2>2. PICK mapping \in Mappings : t = ParsedMapping(mapping)
    BY <2>1 DEF FetchedTables
  <2>3. MarkedValues(match_table') = {}
    BY <2>1, <2>2, FetchedTablesAreTyped, NothingMarked
  <2>4. accepted' = <<>> /\ delivered' = <<>> /\ main' # "row"
    BY <1>4 DEF FetchMapping, Return, parserVars, uploadVars, ControlInv, UploadInv
  <2>5. ToSet(<<>>) = {} /\ MatchesIn(match_table', <<>>) = <<>>
    BY <1>1, ToSetProperties, MatchesProperties
  <2>6. Seen' = <<>>
    BY <2>4 DEF Seen
  <2>7. QED
    BY <1>1, <2>3, <2>4, <2>5, <2>6, Zenon DEF MatchInv
<1>5. CASE ReturnNextRow
  <2>1. /\ main = "getting" /\ main' = "row" /\ taken # NoRow
        /\ delivered' = Append(delivered, SubSeq(text, taken.from, taken.to - 1))
        /\ UNCHANGED <<match_table, accepted>>
    BY <1>5 DEF ReturnNextRow, MainGoes, ReturnRow, uploadVars
  <2> DEFINE line == SubSeq(text, taken.from, taken.to - 1)
             S == Seq(Char) \cup {line}
  <2>2. delivered \in Seq(S) /\ line \in S
    <3>1. delivered \in Seq(Seq(Char)) /\ Seq(Char) \subseteq S
      BY <1>0 DEF ParserTypeOK
    <3> HIDE DEF S
    <3>2. delivered \in Seq(S)
      BY <3>1, SeqMonotonic
    <3>3. QED
      BY <3>2 DEF S
  <2>3. Front(Append(delivered, line)) = delivered
    <3> HIDE DEF line, S
    <3>1. QED
      BY <2>2, FrontLastAppend
  <2>4. Seen' = delivered /\ Seen = delivered
    BY <2>1, <2>3 DEF Seen
  <2>5. Kept
    BY <2>1, <2>4 DEF Kept, Returned
  <2>6. QED
    BY <1>3, <2>5
<1>6. CASE UnmatchedRow
  <2>1. /\ main = "row" /\ main' = "rows" /\ delivered # <<>>
        /\ ValidRow /\ ~HasElement(match_table, plaintext_id)
        /\ UNCHANGED <<match_table, accepted, delivered>>
    BY <1>6 DEF UnmatchedRow, MainGoes, parserVars, uploadVars, Matched, ControlInv
  <2>2. MatchesIn(match_table, delivered) = MatchesIn(match_table, Front(delivered))
    BY <1>0, <2>1, RowMatches DEF MatchInv
  <2>3. Seen = Front(delivered) /\ Seen' = delivered /\ ~Returned
    BY <2>1 DEF Seen, Returned
  <2>4. QED
    BY <1>1, <2>1, <2>2, <2>3, Zenon DEF MatchInv
<1>7. ASSUME StartUpload \/ PushMatch, ~Returned'
      PROVE  MatchInv'
  <2>1. /\ main = "row" /\ main' = "rows" /\ delivered # <<>> /\ Matched
        /\ match_table' = MarkMatched(match_table, plaintext_id)
        /\ delivered' = delivered
    BY <1>7 DEF StartUpload, PushMatch, parserVars, Return, Returned, ControlInv
  <2>2. accepted' = Append(accepted, Encrypted)
    <3>1. CASE StartUpload
      <4>1. accepted = <<>> /\ accepted' = <<Encrypted>>
        BY <1>7, <3>1 DEF StartUpload, Uploading!Open, Return, Returned, UploadInv
      <4>2. Append(<<>>, Encrypted) = <<Encrypted>>
        OBVIOUS
      <4>3. QED
        BY <4>1, <4>2, Zenon
    <3>2. CASE PushMatch
      BY <1>7, <3>2 DEF PushMatch, Uploading!Push, Return, Returned
    <3>3. QED
      BY <1>7, <3>1, <3>2
  <2>3. QED
    BY <1>0, <2>1, <2>2, MatchedRow
<1>8. CASE BadRow \/ StreamFailed \/ CompleteUpload \/ CallEmptyFunctor
  <2>1. Returned'
    BY <1>8 DEF BadRow, StreamFailed, CompleteUpload, CallEmptyFunctor, MainGoes,
                Return, Returned
  <2>2. QED
    BY <1>2, <2>1
<1>9. CASE StartStream \/ TestReceived \/ NoMoreRows \/ TakeNextRow \/ StreamSucceeded
  <2>1. /\ UNCHANGED <<match_table, accepted, delivered>>
        /\ main # "row" /\ main' # "row" /\ ~Returned
    BY <1>9 DEF StartStream, TestReceived, NoMoreRows, TakeNextRow, StreamSucceeded,
                MainGoes, Return, TakeRow, parserVars, uploadVars, Returned
  <2>2. Kept
    BY <2>1 DEF Kept, Seen
  <2>3. QED
    BY <1>3, <2>2
<1>10. CASE Callback \/ UNCHANGED vars
  <2>1. UNCHANGED <<match_table, accepted, delivered, main>>
    BY <1>10
    DEF Callback, mainOnly, exportVars, uploadVars, parserVars, vars,
        ChunkArrives, AddingChunk, ChunkAdded, StreamEnds, AllReceived,
        CallbackAfterReturn, BeginChunk, RefuseChunk,
        FinishAddCsvChunk, ReserveChunk, EnqueueRow,
        EnqueueFails, KeepRest, consumerOnly
  <2>2. Kept
    BY <2>1 DEF Kept, Seen, Returned
  <2>3. QED
    BY <1>3, <2>2
<1>11. QED
  BY <1>2, <1>4, <1>5, <1>6, <1>7, <1>8, <1>9, <1>10 DEF Next, Main

--------------------------------------------------------------------------------
\* When main completes the upload, all of the list has been matched.
LEMMA CompleteMeansAll ==
  ASSUME TypeOK, ParserInv, LinesInv, ControlInv, FlowInv, MatchInv,
         main = "complete", ~lost
  PROVE  /\ streamOutcome = "Success"
         /\ accepted = MatchesIn(match_table, CompleteLines(FlattenSeq(file)))
         /\ MarkedValues(match_table) = ToSet(accepted)
<1>1. /\ lastPass /\ rows = <<>> /\ taken = NoRow
      /\ all_advertiser_ids_received /\ task = "ended" /\ ~dangling
      /\ producer = "idle" /\ Successful(get_stream_result)
      /\ streamOutcome = "Success" /\ toCome = <<>>
  <2> HIDE DEF TypeOK
  <2>1. QED
    BY DEF ControlInv
<1>2. intact /\ text \o <<>> \o FlattenSeq(toCome) = FlattenSeq(file)
  BY <1>1 DEF FlowInv, Smooth
<1>3. text = FlattenSeq(file)
  <2>1. text \in Seq(Char)
    BY DEF TypeOK, ParserTypeOK
  <2>2. FlattenSeq(toCome) = <<>>
    BY <1>1, FlattenProperties
  <2>3. (text \o <<>>) \o <<>> = text
    BY <2>1, ConcatEmptySeq
  <2>4. QED
    BY <1>2, <2>2, <2>3, Zenon
<1>4. delivered = CompleteLines(text)
  BY <1>1, <1>2, DrainedLines
<1>5. accepted = MatchesIn(match_table, delivered) /\ MarkedValues(match_table) = ToSet(accepted)
  BY DEF MatchInv, Seen, Returned
<1>6. QED
  BY <1>1, <1>3, <1>4, <1>5, Zenon

LEMMA SuccessStep ==
  ASSUME TypeOK, ParserInv, LinesInv, ControlInv, FlowInv, MatchInv,
         SuccessExportsTheMatches, [Next]_vars
  PROVE  SuccessExportsTheMatches'
<1> HIDE DEF TypeOK
<1>1. CASE exportResult' # "Success"
  BY <1>1 DEF SuccessExportsTheMatches
<1>2. CASE UNCHANGED vars
  <2>1. UNCHANGED <<exportResult, lost, streamOutcome, blob, file, match_table>>
    BY <1>2 DEF vars, exportVars, taskVars, uploadVars
  <2>2. \A lines : MatchesOf(lines)' = MatchesOf(lines)
    BY <2>1, Zenon DEF MatchesOf
  <2>3. QED
    BY <2>1, <2>2, Zenon DEF SuccessExportsTheMatches
<1>3. CASE CompleteUpload
  <2> SUFFICES ASSUME exportResult' = "Success", ~lost'
               PROVE  SuccessExportsTheMatches'
    BY DEF SuccessExportsTheMatches
  <2>1. /\ main = "complete" /\ blob' = accepted
        /\ UNCHANGED <<match_table, file, lost, streamOutcome>>
    BY <1>3 DEF CompleteUpload, Uploading!Commit, Return, taskVars
  <2> DEFINE lines == CompleteLines(FlattenSeq(file))
  <2>2. /\ streamOutcome = "Success"
        /\ accepted = MatchesIn(match_table, lines)
        /\ MarkedValues(match_table) = ToSet(accepted)
    BY <2>1, CompleteMeansAll
  <2>3. MatchesOf(CompleteLines(FlattenSeq(file)))' = MatchesIn(match_table, lines)
    BY <2>1, Zenon DEF MatchesOf, MatchesIn, AddMatch
  <2>4. {pair[2] : pair \in VisitMatched(match_table)}' = MarkedValues(match_table)
    BY <2>1, Zenon DEF MarkedValues
  <2>5. QED
    BY <2>1, <2>2, <2>3, <2>4, Zenon DEF SuccessExportsTheMatches
<1>4. CASE Main /\ ~CompleteUpload
  <2>1. ~Returned
    BY <1>4
    DEF Main, Returned, MainGoes, FetchMapping, StartStream, TestReceived,
        NoMoreRows, TakeNextRow, ReturnNextRow, BadRow, UnmatchedRow, StartUpload,
        PushMatch, StreamFailed, StreamSucceeded, CallEmptyFunctor
  <2>2. exportResult = "none"
    BY <2>1 DEF ControlInv, Returned
  <2>3. exportResult' # "Success"
    BY <1>4, <2>2
    DEF Main, Return, MainGoes, FetchMapping, StartStream, TestReceived,
        NoMoreRows, TakeNextRow, ReturnNextRow, BadRow, UnmatchedRow, StartUpload,
        PushMatch, StreamFailed, StreamSucceeded, CallEmptyFunctor
  <2>4. QED
    BY <1>1, <2>3
<1>5. ASSUME Callback, exportResult' = "Success"
      PROVE  FALSE
  <2>1. exportResult = "Success"
    BY <1>5 DEF Callback, mainOnly, exportVars, ChunkArrives, AddingChunk,
                ChunkAdded, StreamEnds, AllReceived, CallbackAfterReturn
  <2>2. Returned /\ task = "ended"
    BY <2>1 DEF ControlInv, Returned
  <2>3. QED
    BY <1>5, <2>2 DEF Callback, ChunkArrives, AddingChunk, ChunkAdded, StreamEnds,
                      AllReceived, CallbackAfterReturn
<1>6. QED
  BY <1>1, <1>2, <1>3, <1>4, <1>5 DEF Next

--------------------------------------------------------------------------------
LEMMA ControlStep ==
  ASSUME TypeOK, ControlInv, UploadInv, [Next]_vars
  PROVE  ControlInv' /\ UploadInv'
<1>1. CASE UNCHANGED vars
  <2>1. /\ UNCHANGED <<main, task, delivered, taken, all_advertiser_ids_received,
                       lastPass, rows, exportResult, get_stream_result, producer,
                       dangling, addResult, streamOutcome, toCome>>
        /\ UNCHANGED <<add_chunk_functor, verdict, accepted>>
    BY <1>1 DEF vars, parserVars, uploadVars, exportVars, taskVars
  <2> HIDE DEF TypeOK
  <2>2. Returned' = Returned
    BY <2>1 DEF Returned
  <2>3. UploadInv'
    BY <2>1, <2>2 DEF UploadInv
  <2>4. ControlInv'
    BY <2>1, <2>2 DEF ControlInv, Successful
  <2>5. QED
    BY <2>3, <2>4
<1>2. QED
  BY <1>1, MainControl, CallbackControl DEF Next

LEMMA TypeStep ==
  ASSUME TypeOK, ControlInv, UploadInv, TypedTable(match_table), ControlInv',
         ParserTypeOK', toCome \in Seq(Chunk), [Next]_vars
  PROVE  TypeOK'
<1>1. /\ ParserTypeOK /\ MainTypes /\ CallbackTypes
      /\ accepted \in Seq(EncryptedId)
      /\ blob \in Seq(EncryptedId) \cup {NoBlob}
      /\ verdict \in {"none", "open", "Success", "Failure"}
      /\ file \in Files /\ IsSuffix(toCome, file)
      /\ task \in {"none", "waiting", "adding", "ending", "ended"}
  BY TypesMakeTypeOK
<1> HIDE DEF TypeOK
<1>2. MainTypes' /\ CallbackTypes'
  BY <1>1, MainTypesStep, CallbackTypesStep
<1>3. /\ accepted' \in Seq(EncryptedId)
      /\ blob' \in Seq(EncryptedId) \cup {NoBlob}
      /\ verdict' \in {"none", "open", "Success", "Failure"}
  BY <1>1, UploadSteps, UploadTypes
<1>4. /\ task' \in {"none", "waiting", "adding", "ending", "ended"}
      /\ file' = file
      /\ \/ toCome' = toCome
         \/ toCome # <<>> /\ toCome' = Tail(toCome)
  <2>1. task \in {"none", "waiting", "adding", "ending", "ended"}
    BY <1>1
  <2>2. QED
    BY <2>1, TaskSteps, Zenon
<1>5. IsSuffix(toCome', file)
  <2>1. file \in Seq(Chunk)
    BY <1>1, MatchWorkerAssumption
  <2>2. QED
    BY <1>1, <1>4, <2>1, SuffixTail
<1>6. all_advertiser_ids_received' => get_stream_result' # "Default"
  BY DEF ControlInv
<1>7. file' \in Files /\ IsSuffix(toCome', file')
  BY <1>1, <1>4, <1>5
<1>8. ParserTypeOK'
  OBVIOUS
<1>9. QED
  BY <1>2, <1>3, <1>4, <1>6, <1>7, <1>8 DEF TypeOK, MainTypes, CallbackTypes

--------------------------------------------------------------------------------
LEMMA InitIInv == Init => IInv
<1> SUFFICES ASSUME Init PROVE IInv
  OBVIOUS
<1>1. ParserInit /\ Uploading!UInit /\ file \in Files /\ toCome = file
  BY DEF Init
<1>2. ParserInv /\ LinesInv
  BY <1>1, InitParserInv, InitLinesInv
<1>3. ControlInv /\ UploadInv /\ FlowInv
  BY InitControl, InitFlow
<1>4. TypeOK
  <2>1. file \in Seq(Chunk)
    BY <1>1, MatchWorkerAssumption
  <2>2. IsSuffix(toCome, file)
    BY <1>1, <2>1, SuffixItself
  <2>3. accepted \in Seq(EncryptedId) /\ blob = NoBlob /\ verdict = "none"
    BY <1>1, EmptySeq DEF Uploading!UInit
  <2>4. QED
    BY <1>1, <1>2, <2>2, <2>3
    DEF Init, ParserInv, TypeOK
<1>5. MatchInv
  <2>1. match_table = EmptyTable /\ accepted = <<>> /\ Seen = <<>>
    BY DEF Init, ParserInit, Uploading!UInit, Seen
  <2>2. TypedTable(match_table) /\ Unmarked(match_table)
    BY <2>1 DEF TypedTable, Unmarked, EmptyTable
  <2>3. MarkedValues(match_table) = {}
    BY <2>2, NothingMarked
  <2>4. MatchesIn(match_table, <<>>) = <<>> /\ ToSet(<<>>) = {}
    BY <2>2, MatchesProperties, ToSetProperties
  <2>5. QED
    BY <2>1, <2>2, <2>3, <2>4, Zenon DEF MatchInv
<1>6. SuccessExportsTheMatches
  BY DEF Init, SuccessExportsTheMatches
<1>7. QED
  BY <1>2, <1>3, <1>4, <1>5, <1>6 DEF IInv

LEMMA NextIInv == IInv /\ [Next]_vars => IInv'
<1> SUFFICES ASSUME IInv, [Next]_vars PROVE IInv'
  OBVIOUS
<1>1. /\ TypeOK /\ ParserInv /\ LinesInv /\ ControlInv /\ UploadInv /\ FlowInv
      /\ MatchInv /\ SuccessExportsTheMatches
      /\ ParserTypeOK /\ toCome \in Seq(Chunk) /\ TypedTable(match_table)
  BY DEF IInv, ParserInv, FlowInv, MatchInv
<1> HIDE DEF TypeOK
<1>2. [ParserNext]_(parserVars)
  BY <1>1, ParserSteps
<1>3. ParserInv' /\ LinesInv'
  BY <1>1, <1>2, NextParserInv, NextLinesInv
<1>4. ControlInv' /\ UploadInv'
  BY <1>1, ControlStep
<1>5. FlowInv' /\ MatchInv' /\ SuccessExportsTheMatches'
  BY <1>1, FlowStep, MatchStep, SuccessStep
<1>6. TypeOK'
  <2>1. ParserTypeOK'
    BY <1>3 DEF ParserInv
  <2>2. QED
    BY <1>1, <1>4, <2>1, TypeStep
<1>7. QED
  BY <1>3, <1>4, <1>5, <1>6 DEF IInv

\* The invariant behind the theorems of this module.
THEOREM Invariance == Spec => []IInv
BY InitIInv, NextIInv, PTL DEF Spec

\* Every variable of an export, the parser's and the upload's included, keeps
\* its type, and get_stream_result has been assigned once the flag is up.
THEOREM TypeCorrect == Spec => []TypeOK
BY Invariance, PTL DEF IInv

\* The parser of an export is one of CsvStreamParser: whatever the two threads
\* of ExportMatches do, they use it as that module lets a producer and a
\* consumer use it.
THEOREM UsesTheParser == Spec => ParserSpec
<1>1. Init => ParserInit
  BY DEF Init
<1>2. IInv /\ [Next]_vars => [ParserNext]_(parserVars)
  BY ParserSteps DEF IInv, FlowInv
<1>3. QED
  BY <1>1, <1>2, Invariance, PTL DEF Spec, ParserSpec

\* So an export gets what CsvStreamParser promises: the lines of the advertiser's
\* list whole and in order, from a buffer that stays within its limit and whose
\* counter neither leaks nor wraps.
THEOREM ExportHasTheParsersPromise ==
  Spec => /\ ImplementsLineStream
          /\ [](BufferedWithinLimit /\ BufferedIsExact /\ NeverUnderflows)
BY UsesTheParser, ParserImplementsLineStream, CounterStaysWithinLimit,
   CounterIsExact, SubtractionNeverWraps, PTL

\* ExportMatches calls the function PutBlobStream gave it as that asks: data
\* while the upload is open, and one call that ends it.
THEOREM UsesTheUpload == Spec => Uploading!USpec
<1>1. Init => Uploading!UInit
  BY DEF Init
<1>2. IInv /\ [Next]_vars => [Uploading!UNext]_(Uploading!uvars)
  BY UploadSteps DEF IInv, MatchInv
<1>3. QED
  BY <1>1, <1>2, Invariance, PTL DEF Spec, Uploading!USpec

\* However ExportMatches ends, the upload it started is completed or cancelled.
THEOREM UploadsAreClosed == Spec => []NoUploadLeftOpen
<1>1. IInv => NoUploadLeftOpen
  BY DEF IInv, TypeOK, UploadInv, NoUploadLeftOpen
<1>2. QED
  BY <1>1, Invariance, PTL

\* The function is not called again after the call that ended the upload.
THEOREM FunctorIsNotMisused == Spec => []FunctorNotMisused
<1>1. IInv => FunctorNotMisused
  BY DEF IInv, UploadInv, FunctorNotMisused
<1>2. QED
  BY <1>1, Invariance, PTL

\* main uses the result of the stream, and parses for the last time, only when
\* the callback has made its last write.
THEOREM StreamIsSettled == Spec => []StreamSettledBeforeUse
<1>1. IInv => StreamSettledBeforeUse
  BY DEF IInv, ControlInv, StreamSettledBeforeUse
<1>2. QED
  BY <1>1, Invariance, PTL

\* Only an export that failed inside its loop leaves a callback to use the
\* locals of a call that has returned.
THEOREM DanglesOnlyThen == Spec => []DanglesOnlyAfterEarlyReturn
<1>1. IInv => DanglesOnlyAfterEarlyReturn
  BY DEF IInv, TypeOK, ControlInv, Returned, DanglesOnlyAfterEarlyReturn
<1>2. QED
  BY <1>1, Invariance, PTL

\* A successful export, if the parser took every chunk, has uploaded exactly
\* the encrypted IDs of the complete lines of the list that match, in order,
\* and the table has marked those and no others: for every list, chunking,
\* mapping, size of the buffer and schedule of the two threads.
THEOREM SuccessIsExact == Spec => []SuccessExportsTheMatches
BY Invariance, PTL DEF IInv
================================================================================
