----------------------------- MODULE CsvRow_proofs -----------------------------
(****************************************************************************)
(* What the recursive definitions of this project compute, for every text:  *)
(* the pieces and lines of CsvRow, the concatenation of chunks, and the     *)
(* table PublisherMapping parses a mapping to, whatever its keys and values *)
(* are (PairsReadBack).  The proofs are by induction over the length, or    *)
(* over the part of the text that has been read.  Induction is used in the form NatSetInduction,      *)
(* about a set of numbers instead of a predicate, which the library's       *)
(* WFMin yields: a first-order fact that the provers can instantiate.       *)
(****************************************************************************)
EXTENDS PublisherMapping, SequenceTheorems, WellFoundedInduction, TLAPS

LEMMA NatSetInduction ==
  ASSUME NEW S, 0 \in S, \A n \in Nat : n \in S => n + 1 \in S
  PROVE  Nat \subseteq S
<1> DEFINE R == OpToRel(<, Nat)
           T == Nat \ S
<1>1. SUFFICES ASSUME T # {} PROVE FALSE
  OBVIOUS
<1>2. IsWellFoundedOn(R, Nat) /\ T \subseteq Nat
  BY NatLessThanWellFounded
<1>3. PICK x \in T : \A y \in T : <<y, x>> \notin R
  <2> HIDE DEF R, T
  <2>1. QED
    BY <1>1, <1>2, WFMin
<1>4. \A y \in Nat : y < x => <<y, x>> \in R
  BY <1>3 DEF OpToRel
<1>5. x \in Nat /\ x # 0
  BY <1>3
<1>6. x - 1 \in Nat /\ x - 1 < x /\ (x - 1) + 1 = x
  BY <1>5
<1>7. x - 1 \notin T
  BY <1>3, <1>4, <1>6
<1>8. QED
  BY <1>3, <1>6, <1>7

LEMMA IntervalInduction ==
  ASSUME NEW n \in Nat, NEW S, 0 \in S, \A i \in 1..n : i - 1 \in S => i \in S
  PROVE  0..n \subseteq S
<1> DEFINE T == {i \in Nat : i <= n => i \in S}
<1>1. 0 \in T
  OBVIOUS
<1>2. \A i \in Nat : i \in T => i + 1 \in T
  <2>1. SUFFICES ASSUME NEW i \in Nat, i \in T, i + 1 <= n PROVE i + 1 \in S
    OBVIOUS
  <2>2. i \in S /\ i + 1 \in 1..n /\ (i + 1) - 1 = i
    BY <2>1
  <2>3. QED
    BY <2>2
<1>3. Nat \subseteq T
  <2> HIDE DEF T
  <2>1. QED
    BY <1>1, <1>2, NatSetInduction
<1>4. QED
  BY <1>3

LEMMA SeqInduction ==
  ASSUME NEW S, NEW Q, <<>> \in Q,
         \A t \in Seq(S), e \in S : t \in Q => Append(t, e) \in Q
  PROVE  Seq(S) \subseteq Q
<1> SUFFICES ASSUME NEW s \in Seq(S) PROVE s \in Q
  OBVIOUS
<1> DEFINE T == {n \in 0..Len(s) : SubSeq(s, 1, n) \in Q}
<1>2. Len(s) \in Nat
  BY LenProperties
<1>3. 0 \in T
  <2>1. SubSeq(s, 1, 0) = <<>>
    BY SubSeqEmpty
  <2>2. 0 \in 0..Len(s)
    BY <1>2
  <2>3. QED
    BY <2>1, <2>2, Zenon
<1>4. \A n \in 1..Len(s) : n - 1 \in T => n \in T
  <2>1. SUFFICES ASSUME NEW n \in 1..Len(s), SubSeq(s, 1, n - 1) \in Q
                 PROVE  SubSeq(s, 1, n) \in Q
    BY <1>2
  <2>2. /\ SubSeq(s, 1, n - 1) \in Seq(S) /\ s[n] \in S
        /\ SubSeq(s, 1, n) = Append(SubSeq(s, 1, n - 1), s[n])
    BY SubSeqProperties, ElementOfSeq, SubSeqRecursiveSecond
  <2>3. QED
    BY <2>1, <2>2
<1>5. 0..Len(s) \subseteq T
  <2> HIDE DEF T
  <2>1. QED
    BY <1>2, <1>3, <1>4, IntervalInduction
<1>6. SubSeq(s, 1, Len(s)) = s /\ Len(s) \in 0..Len(s)
  BY <1>2, SubSeqFull
<1>7. QED
  BY <1>2, <1>5, <1>6

\* A function is defined on 0..n by its value at 0 and by how each of its values
\* follows from the one before.
Steps(D, A, n) == \A a \in A, i \in 1..n : D[<<a, i>>] \in A

LEMMA RecursionDefines ==
  ASSUME NEW A, NEW base \in A, NEW n \in Nat, NEW D, Steps(D, A, n)
  PROVE  \E f \in [0..n -> A] :
           f[0] = base /\ \A i \in 1..n : f[i] = D[<<f[i - 1], i>>]
<1> DEFINE Defined(f, m) ==
             f[0] = base /\ \A i \in 1..m : f[i] = D[<<f[i - 1], i>>]
           T == {m \in 0..n : \E f \in [0..m -> A] : Defined(f, m)}
<1> USE DEF Steps
<1>1. 0 \in T
  <2> DEFINE f == [i \in 0..0 |-> base]
  <2>1. f \in [0..0 -> A] /\ Defined(f, 0)
    OBVIOUS
  <2>2. 0 \in 0..n
    OBVIOUS
  <2> HIDE DEF f, Defined
  <2>3. QED
    BY <2>1, <2>2
<1>2. \A m \in 1..n : m - 1 \in T => m \in T
  <2> SUFFICES ASSUME NEW m \in 1..n, m - 1 \in T PROVE m \in T
    OBVIOUS
  <2>1. PICK f \in [0..m - 1 -> A] : Defined(f, m - 1)
    OBVIOUS
  <2> DEFINE g == [i \in 0..m |-> IF i = m THEN D[<<f[m - 1], m>>] ELSE f[i]]
  <2>2. f[m - 1] \in A /\ D[<<f[m - 1], m>>] \in A
    OBVIOUS
  <2>3. g \in [0..m -> A]
    BY <2>2
  <2>4. \A i \in 0..m - 1 : g[i] = f[i]
    OBVIOUS
  <2>5. g[m] = D[<<f[m - 1], m>>]
    OBVIOUS
  <2>6. Defined(g, m)
    <3> HIDE DEF g
    <3>1. \A i \in 1..m - 1 : i \in 0..m - 1 /\ i - 1 \in 0..m - 1
      OBVIOUS
    <3>2. g[0] = base /\ \A i \in 1..m - 1 : g[i] = D[<<g[i - 1], i>>]
      BY <2>1, <2>4, <3>1
    <3>3. m - 1 \in 0..m - 1 /\ \A i \in 1..m : i = m \/ i \in 1..m - 1
      OBVIOUS
    <3>4. g[m] = D[<<g[m - 1], m>>]
      BY <2>4, <2>5, <3>3
    <3>5. QED
      BY <3>2, <3>3, <3>4
  <2> HIDE DEF g, Defined
  <2>7. QED
    BY <2>3, <2>6
<1>3. 0..n \subseteq T
  <2> HIDE DEF T
  <2>1. QED
    BY <1>1, <1>2, IntervalInduction
<1>4. n \in T
  BY <1>3
<1>5. QED
  BY <1>4

\* Two functions that start and go on in the same way are the same.
LEMMA RecursionAgrees ==
  ASSUME NEW n \in Nat, NEW f, NEW g, f[0] = g[0],
         \A i \in 1..n : f[i - 1] = g[i - 1] => f[i] = g[i]
  PROVE  f[n] = g[n]
<1> DEFINE T == {i \in 0..n : f[i] = g[i]}
<1>1. 0 \in T /\ \A i \in 1..n : i - 1 \in T => i \in T
  OBVIOUS
<1>2. 0..n \subseteq T
  <2> HIDE DEF T
  <2>1. QED
    BY <1>1, IntervalInduction
<1>3. QED
  BY <1>2

--------------------------------------------------------------------------------
\* What Pieces does with the next character.
AddChar(pieces, sep, char) ==
  IF char = sep THEN Append(pieces, <<>>)
  ELSE Append(Front(pieces), Append(Last(pieces), char))

NonEmptySeq(S) == Seq(S) \ {<<>>}

LEMMA FrontLastProperties ==
  ASSUME NEW S, NEW s \in NonEmptySeq(S)
  PROVE  /\ Len(s) \in Nat \ {0}
         /\ Front(s) \in Seq(S) /\ Len(Front(s)) = Len(s) - 1
         /\ \A i \in 1..Len(s) - 1 : Front(s)[i] = s[i]
         /\ Last(s) \in S
         /\ s = Append(Front(s), Last(s))
<1>1. s \in Seq(S) /\ Len(s) \in Nat \ {0}
  BY EmptySeq DEF NonEmptySeq
<1>2. \A i \in 1..Len(s) - 1 : s[i] \in S
  BY <1>1, ElementOfSeq
<1>3. /\ Front(s) \in Seq(S) /\ Len(Front(s)) = Len(s) - 1
      /\ \A i \in 1..Len(s) - 1 : Front(s)[i] = s[i]
  <2> DEFINE n == Len(s) - 1
  <2>1. n \in Nat /\ 1 \in Int /\ n = n - 1 + 1 /\ \A i \in 1..n : s[i] \in S
    BY <1>1, <1>2
  <2> HIDE DEF n
  <2>2. /\ SubSeq(s, 1, n) \in Seq(S)
        /\ Len(SubSeq(s, 1, n)) = IF 1 <= n THEN n - 1 + 1 ELSE 0
        /\ \A i \in 1..n - 1 + 1 : SubSeq(s, 1, n)[i] = s[1 + i - 1]
    BY <2>1, SubSeqProperties
  <2>3. \A i \in 1..n : SubSeq(s, 1, n)[i] = s[i]
    BY <2>1, <2>2
  <2> DEFINE front == SubSeq(s, 1, n)
  <2>4. front \in Seq(S) /\ Len(front) = n /\ \A i \in 1..n : front[i] = s[i]
    BY <2>1, <2>2, <2>3
  <2>5. Front(s) = front
    BY Zenon DEF Front, n
  <2> HIDE DEF front
  <2>6. QED
    BY <2>4, <2>5 DEF n
<1>4. Last(s) \in S
  BY <1>1, ElementOfSeq DEF Last
<1>5. s = Append(Front(s), Last(s))
  <2> DEFINE t == Append(Front(s), Last(s))
  <2>1. /\ t \in Seq(S) /\ Len(t) = Len(Front(s)) + 1
        /\ t[Len(Front(s)) + 1] = Last(s)
        /\ \A i \in 1..Len(Front(s)) : t[i] = Front(s)[i]
    BY <1>3, <1>4, AppendProperties
  <2>2. t \in Seq(S) /\ Len(t) = Len(s) /\ \A i \in 1..Len(s) : t[i] = s[i]
    <3> HIDE DEF t
    <3>1. QED
      BY <1>1, <1>3, <2>1 DEF Last
  <2> HIDE DEF t
  <2>3. t = s
    BY <1>1, <2>2, SeqEqual
  <2>4. QED
    BY <2>3 DEF t
<1>6. QED
  BY <1>1, <1>3, <1>4, <1>5

LEMMA FrontLastAppend ==
  ASSUME NEW S, NEW s \in Seq(S), NEW e \in S
  PROVE  /\ Append(s, e) \in NonEmptySeq(S)
         /\ Front(Append(s, e)) = s
         /\ Last(Append(s, e)) = e
<1>1. /\ Append(s, e) \in Seq(S) /\ Append(s, e) # <<>> /\ Len(s) \in Nat
      /\ Len(Append(s, e)) = Len(s) + 1
      /\ Append(s, e)[Len(s) + 1] = e
      /\ \A i \in 1..Len(s) : Append(s, e)[i] = s[i]
  BY AppendProperties, LenProperties
<1>2. Append(s, e) \in NonEmptySeq(S) /\ Last(Append(s, e)) = e
  BY <1>1 DEF NonEmptySeq, Last
<1>3. Front(Append(s, e)) = s
  <2> DEFINE t == Append(s, e)
  <2>1. /\ Front(t) \in Seq(S) /\ Len(Front(t)) = Len(t) - 1
        /\ \A i \in 1..Len(t) - 1 : Front(t)[i] = t[i]
    BY <1>2, FrontLastProperties
  <2>2. Len(Front(t)) = Len(s) /\ \A i \in 1..Len(s) : Front(t)[i] = s[i]
    BY <1>1, <2>1
  <2> HIDE DEF t
  <2>3. Front(t) = s
    BY <2>1, <2>2, SeqEqual
  <2>4. QED
    BY <2>3 DEF t
<1>4. QED
  BY <1>2, <1>3

LEMMA AddCharType ==
  ASSUME NEW S, NEW pieces \in NonEmptySeq(Seq(S)), NEW sep, NEW char \in S
  PROVE  AddChar(pieces, sep, char) \in NonEmptySeq(Seq(S))
<1>1. pieces \in Seq(Seq(S)) /\ <<>> \in Seq(S)
  BY EmptySeq DEF NonEmptySeq
<1>2. Append(pieces, <<>>) \in NonEmptySeq(Seq(S))
  BY <1>1, FrontLastAppend
<1>3. Append(Last(pieces), char) \in Seq(S) /\ Front(pieces) \in Seq(Seq(S))
  BY FrontLastProperties, AppendProperties
<1>4. Append(Front(pieces), Append(Last(pieces), char)) \in NonEmptySeq(Seq(S))
  BY <1>3, FrontLastAppend
<1>5. QED
  BY <1>2, <1>4 DEF AddChar

\* The function Pieces is defined with.
LEMMA PiecesDefined ==
  ASSUME NEW S, NEW s \in Seq(S), NEW sep
  PROVE  \E p : /\ p \in [0..Len(s) -> NonEmptySeq(Seq(S))]
                /\ p[0] = << <<>> >>
                /\ \A n \in 1..Len(s) : p[n] = AddChar(p[n - 1], sep, s[n])
                /\ Pieces(s, sep) = p[Len(s)]
<1> DEFINE A == NonEmptySeq(Seq(S))
           D == [x \in A \X (1..Len(s)) |-> AddChar(x[1], sep, s[x[2]])]
           Body(p) == [n \in 0..Len(s) |->
                         IF n = 0 THEN << <<>> >> ELSE AddChar(p[n - 1], sep, s[n])]
           pieces == CHOOSE p : p = Body(p)
<1>1. Len(s) \in Nat /\ \A n \in 1..Len(s) : s[n] \in S
  BY LenProperties, ElementOfSeq
<1>2. << <<>> >> \in A
  BY EmptySeq, FrontLastAppend DEF NonEmptySeq
<1>3. \A p \in A, n \in 1..Len(s) : AddChar(p, sep, s[n]) \in A
  BY <1>1, AddCharType
<1>4. Steps(D, A, Len(s))
  BY <1>3 DEF Steps
<1>5. PICK f \in [0..Len(s) -> A] :
        f[0] = << <<>> >> /\ \A n \in 1..Len(s) : f[n] = D[<<f[n - 1], n>>]
  <2> DEFINE n == Len(s)
             base == << <<>> >>
  <2> HIDE DEF A, D, n, base
  <2>1. n \in Nat /\ base \in A /\ Steps(D, A, n)
    BY <1>1, <1>2, <1>4 DEF n, base
  <2>2. \E f \in [0..n -> A] : f[0] = base /\ \A i \in 1..n : f[i] = D[<<f[i - 1], i>>]
    BY <2>1, RecursionDefines
  <2>3. QED
    BY <2>2 DEF n, base
<1>6. \A n \in 1..Len(s) : n - 1 \in 0..Len(s) /\ f[n - 1] \in A
  BY <1>1
<1>7. f = Body(f)
  <2>1. \A n \in 1..Len(s) : f[n] = AddChar(f[n - 1], sep, s[n])
    BY <1>5, <1>6
  <2> HIDE DEF A, D
  <2>2. QED
    BY <1>1, <1>5, <2>1
<1>8. Pieces(s, sep) = pieces[Len(s)]
  BY Zenon DEF Pieces, AddChar
<1>9. pieces = Body(pieces)
  <2> HIDE DEF Body
  <2>1. QED
    BY <1>7
<1>10. ASSUME NEW p, p = Body(p)
       PROVE  p[0] = << <<>> >> /\ \A n \in 1..Len(s) : p[n] = AddChar(p[n - 1], sep, s[n])
  <2>1. /\ Body(p)[0] = << <<>> >>
        /\ \A n \in 1..Len(s) : Body(p)[n] = AddChar(p[n - 1], sep, s[n])
    BY <1>1
  <2> HIDE DEF Body
  <2>2. QED
    BY <1>10, <2>1
<1>11. /\ pieces[0] = f[0]
       /\ \A n \in 1..Len(s) : pieces[n - 1] = f[n - 1] => pieces[n] = f[n]
  <2> HIDE DEF Body, pieces
  <2>1. QED
    BY <1>7, <1>9, <1>10
<1>12. pieces[Len(s)] = f[Len(s)]
  <2> HIDE DEF pieces
  <2>1. QED
    BY <1>1, <1>11, RecursionAgrees
<1>13. f \in [0..Len(s) -> NonEmptySeq(Seq(S))]
  OBVIOUS
<1>14. QED
  <2> HIDE DEF Body, pieces
  <2>1. QED
    BY <1>7, <1>8, <1>10, <1>12, <1>13

LEMMA PiecesProperties ==
  ASSUME NEW S, NEW sep
  PROVE  /\ Pieces(<<>>, sep) = << <<>> >>
         /\ \A s \in Seq(S) :
              /\ Pieces(s, sep) \in NonEmptySeq(Seq(S))
              /\ \A char \in S :
                   Pieces(Append(s, char), sep) = AddChar(Pieces(s, sep), sep, char)
<1> DEFINE Defines(p, s) == /\ p[0] = << <<>> >>
                            /\ \A n \in 1..Len(s) : p[n] = AddChar(p[n - 1], sep, s[n])
                            /\ Pieces(s, sep) = p[Len(s)]
<1>0. \A s \in Seq(S) : \E p : Defines(p, s)
  BY PiecesDefined
<1>1. Pieces(<<>>, sep) = << <<>> >>
  <2>1. <<>> \in Seq(S) /\ Len(<<>>) = 0
    BY EmptySeq
  <2>2. QED
    BY <2>1, PiecesDefined
<1>2. ASSUME NEW s \in Seq(S)
      PROVE  Pieces(s, sep) \in NonEmptySeq(Seq(S))
  <2>1. Len(s) \in 0..Len(s)
    BY LenProperties
  <2>2. QED
    BY <2>1, PiecesDefined
<1>3. ASSUME NEW s \in Seq(S), NEW char \in S
      PROVE  Pieces(Append(s, char), sep) = AddChar(Pieces(s, sep), sep, char)
  <2> DEFINE t == Append(s, char)
  <2>1. /\ t \in Seq(S) /\ Len(s) \in Nat /\ Len(t) = Len(s) + 1
        /\ \A i \in 1..Len(s) : t[i] = s[i]
        /\ t[Len(s) + 1] = char
    BY AppendProperties, LenProperties
  <2>2. PICK p : Defines(p, s)
    BY <1>0
  <2> HIDE DEF t
  <2>3. PICK q : Defines(q, t)
    <3> HIDE DEF Defines
    <3>1. QED
      BY <1>0, <2>1
  <2>4. \A n \in 1..Len(s) : p[n - 1] = q[n - 1] => p[n] = q[n]
    BY <2>1, <2>2, <2>3
  <2>5. p[Len(s)] = q[Len(s)]
    <3>1. p[0] = q[0]
      BY <2>1, <2>2, <2>3
    <3>2. QED
      BY <2>1, <2>4, <3>1, RecursionAgrees
  <2>6. q[Len(s) + 1] = AddChar(q[Len(s)], sep, char)
    <3>1. Len(s) + 1 \in 1..Len(t) /\ (Len(s) + 1) - 1 = Len(s)
      BY <2>1
    <3>2. q[Len(s) + 1] = AddChar(q[(Len(s) + 1) - 1], sep, t[Len(s) + 1])
      BY <2>3, <3>1
    <3>3. QED
      BY <2>1, <3>1, <3>2
  <2>7. Pieces(t, sep) = AddChar(Pieces(s, sep), sep, char)
    BY <2>1, <2>2, <2>3, <2>5, <2>6
  <2>8. QED
    BY <2>7 DEF t
<1>4. QED
  BY <1>1, <1>2, <1>3

\* What stands behind the last separator.
Rest(s, sep) == Last(Pieces(s, sep))

\* A character that is no separator goes to the rest; a separator closes it.
LEMMA NextChar ==
  ASSUME NEW S, NEW s \in Seq(S), NEW sep, NEW char \in S
  PROVE  LET t == Append(s, char)
         IN  /\ char # sep => /\ Front(Pieces(t, sep)) = Front(Pieces(s, sep))
                              /\ Rest(t, sep) = Append(Rest(s, sep), char)
             /\ char = sep => /\ Front(Pieces(t, sep)) = Append(Front(Pieces(s, sep)), Rest(s, sep))
                              /\ Rest(t, sep) = <<>>
<1> DEFINE t == Append(s, char)
           P == Pieces(s, sep)
<1>1. P \in NonEmptySeq(Seq(S)) /\ Pieces(t, sep) = AddChar(P, sep, char)
  BY PiecesProperties
<1>2. /\ P \in Seq(Seq(S)) /\ Front(P) \in Seq(Seq(S)) /\ Last(P) \in Seq(S)
      /\ P = Append(Front(P), Last(P))
  BY <1>1, FrontLastProperties DEF NonEmptySeq
<1>3. CASE char = sep
  <2>1. Pieces(t, sep) = Append(P, <<>>) /\ <<>> \in Seq(S)
    BY <1>1, <1>3, EmptySeq DEF AddChar
  <2>2. Front(Pieces(t, sep)) = P /\ Last(Pieces(t, sep)) = <<>>
    BY <1>2, <2>1, FrontLastAppend
  <2> HIDE DEF P, t
  <2>3. QED
    BY <1>2, <1>3, <2>2 DEF Rest, P, t
<1>4. CASE char # sep
  <2> DEFINE front == Front(P)
             last  == Append(Last(P), char)
  <2>1. /\ Pieces(t, sep) = Append(front, last)
        /\ front \in Seq(Seq(S)) /\ last \in Seq(S)
    BY <1>1, <1>2, <1>4, AppendProperties DEF AddChar
  <2> HIDE DEF P, t, front, last
  <2>2. Front(Pieces(t, sep)) = front /\ Last(Pieces(t, sep)) = last
    BY <2>1, FrontLastAppend
  <2>3. QED
    BY <1>4, <2>2 DEF Rest, P, t, front, last
<1>5. QED
  BY <1>3, <1>4

--------------------------------------------------------------------------------
LEMMA SubSeqGrows ==
  ASSUME NEW S, NEW s \in Seq(S), NEW m \in Nat \ {0}, NEW n \in m..Len(s)
  PROVE  /\ SubSeq(s, m, n - 1) \in Seq(S)
         /\ s[n] \in S
         /\ SubSeq(s, m, n) = Append(SubSeq(s, m, n - 1), s[n])
<1>1. Len(s) \in Nat /\ m \in 1..Len(s) /\ n \in 1..Len(s)
  BY LenProperties
<1>2. s[n] \in S /\ \A i \in m..n - 1 : s[i] \in S
  BY <1>1, ElementOfSeq
<1>3. SubSeq(s, m, n - 1) \in Seq(S)
  BY <1>1, <1>2, SubSeqProperties
<1>4. SubSeq(s, m, n) = SubSeq(s, m, n - 1) \o <<s[n]>>
  BY <1>1, SubSeqRecursiveSecond
<1>5. QED
  BY <1>2, <1>3, <1>4, AppendIsConcat

\* As long as no separator comes, the pieces stay and the rest grows.
LEMMA RestGrows ==
  ASSUME NEW S, NEW text \in Seq(S), NEW sep, NEW from \in 0..Len(text),
         NEW to \in from..Len(text),
         \A p \in from + 1..to : text[p] # sep,
         Rest(SubSeq(text, 1, from), sep) = <<>>
  PROVE  /\ Front(Pieces(SubSeq(text, 1, to), sep)) = Front(Pieces(SubSeq(text, 1, from), sep))
         /\ Rest(SubSeq(text, 1, to), sep) = SubSeq(text, from + 1, to)
<1> DEFINE Read(i) == SubSeq(text, 1, from + i)
           Line(i) == SubSeq(text, from + 1, from + i)
           Good(i) == /\ Front(Pieces(Read(i), sep)) = Front(Pieces(Read(0), sep))
                      /\ Rest(Read(i), sep) = Line(i)
           T == {i \in 0..to - from : Good(i)}
<1>1. from \in Nat /\ to \in Nat /\ to - from \in Nat /\ Len(text) \in Nat
  BY LenProperties
<1>2. Good(0)
  <2>1. Line(0) = <<>>
    BY <1>1, SubSeqEmpty
  <2>2. from + 0 = from
    BY <1>1
  <2>3. QED
    BY <2>1, <2>2, Zenon
<1>3. ASSUME NEW i \in 1..to - from, Good(i - 1)
      PROVE  Good(i)
  <2>1. /\ from + i \in 1..Len(text) /\ from + i \in from + 1..to
        /\ from + (i - 1) = (from + i) - 1 /\ from + 1 \in Nat \ {0}
        /\ from + i \in from + 1..Len(text) /\ 1 \in Nat \ {0}
    BY <1>1
  <2> DEFINE char == text[from + i]
  <2>2. /\ Read(i - 1) \in Seq(S) /\ char \in S
        /\ Read(i) = Append(Read(i - 1), char)
    BY <2>1, SubSeqGrows
  <2>3. Line(i) = Append(Line(i - 1), char)
    BY <2>1, SubSeqGrows
  <2>4. char # sep
    BY <2>1
  <2> HIDE DEF Read, Line, char
  <2>5. /\ Front(Pieces(Read(i), sep)) = Front(Pieces(Read(i - 1), sep))
        /\ Rest(Read(i), sep) = Append(Rest(Read(i - 1), sep), char)
    BY <2>2, <2>4, NextChar
  <2>6. QED
    BY <1>3, <2>3, <2>5
<1>4. 0..to - from \subseteq T
  <2> HIDE DEF Good
  <2>1. 0 \in T /\ \A i \in 1..to - from : i - 1 \in T => i \in T
    BY <1>1, <1>2, <1>3
  <2> HIDE DEF T
  <2>2. QED
    BY <1>1, <2>1, IntervalInduction
<1>5. Good(to - from)
  <2>1. to - from \in 0..to - from
    BY <1>1
  <2> HIDE DEF Good
  <2>2. QED
    BY <1>4, <2>1
<1>6. from + (to - from) = to /\ from + 0 = from
  BY <1>1
<1>7. QED
  BY <1>5, <1>6, Zenon

\* The line from one line break to the next is the next complete line.
LEMMA NextLine ==
  ASSUME NEW S, NEW text \in Seq(S), NEW from \in 0..Len(text),
         NEW to \in from + 1..Len(text), text[to] = LineBreak,
         \A p \in from + 1..to - 1 : text[p] # LineBreak,
         Rest(SubSeq(text, 1, from), LineBreak) = <<>>
  PROVE  /\ CompleteLines(SubSeq(text, 1, to)) =
              Append(CompleteLines(SubSeq(text, 1, from)), SubSeq(text, from + 1, to - 1))
         /\ Rest(SubSeq(text, 1, to), LineBreak) = <<>>
<1>1. /\ to \in 1..Len(text) /\ to - 1 \in from..Len(text)
      /\ 1 \in Nat \ {0}
  BY LenProperties
<1>2. /\ SubSeq(text, 1, to - 1) \in Seq(S) /\ text[to] \in S
      /\ SubSeq(text, 1, to) = Append(SubSeq(text, 1, to - 1), text[to])
  BY <1>1, SubSeqGrows
<1>3. /\ Front(Pieces(SubSeq(text, 1, to - 1), LineBreak)) =
           Front(Pieces(SubSeq(text, 1, from), LineBreak))
      /\ Rest(SubSeq(text, 1, to - 1), LineBreak) = SubSeq(text, from + 1, to - 1)
  BY <1>1, RestGrows
<1> DEFINE before == SubSeq(text, 1, to - 1)
           char   == text[to]
<1> HIDE DEF before, char
<1>4. /\ Front(Pieces(Append(before, char), LineBreak)) =
           Append(Front(Pieces(before, LineBreak)), Rest(before, LineBreak))
      /\ Rest(Append(before, char), LineBreak) = <<>>
  <2>1. before \in Seq(S) /\ char \in S /\ char = LineBreak
    BY <1>2 DEF before, char
  <2>2. QED
    BY <2>1, NextChar
<1>5. QED
  BY <1>2, <1>3, <1>4, Zenon DEF CompleteLines, before, char

\* Behind the last line break there is no complete line.
LEMMA NoMoreLines ==
  ASSUME NEW S, NEW text \in Seq(S), NEW from \in 0..Len(text),
         \A p \in from + 1..Len(text) : text[p] # LineBreak,
         Rest(SubSeq(text, 1, from), LineBreak) = <<>>
  PROVE  CompleteLines(text) = CompleteLines(SubSeq(text, 1, from))
<1>1. Len(text) \in from..Len(text)
  BY LenProperties
<1>2. SubSeq(text, 1, Len(text)) = text
  BY SubSeqFull
<1>3. Front(Pieces(SubSeq(text, 1, Len(text)), LineBreak)) =
        Front(Pieces(SubSeq(text, 1, from), LineBreak))
  BY <1>1, RestGrows
<1>4. QED
  BY <1>2, <1>3, Zenon DEF CompleteLines

LEMMA NoTextNoLines ==
  /\ CompleteLines(<<>>) = <<>>
  /\ Rest(<<>>, LineBreak) = <<>>
<1>1. Pieces(<<>>, LineBreak) = Append(<<>>, <<>>)
  BY PiecesProperties
<1>2. <<>> \in Seq({}) /\ <<>> \in Seq(Seq({}))
  BY EmptySeq
<1>3. QED
  BY <1>1, <1>2, FrontLastAppend DEF CompleteLines, Rest

--------------------------------------------------------------------------------
\* One more piece for each separator: a text without one is a single piece.
LEMMA OnePiece ==
  ASSUME NEW S, NEW s \in Seq(S), NEW sep
  PROVE  /\ Len(Pieces(s, sep)) = 1 => Pieces(s, sep) = <<s>>
         /\ s # <<>> /\ Last(s) = sep => Len(Pieces(s, sep)) > 1
         /\ \A char \in S : Len(Pieces(Append(s, char), sep)) =
              IF char = sep THEN Len(Pieces(s, sep)) + 1 ELSE Len(Pieces(s, sep))
         /\ Len(Pieces(s, sep)) \in Nat
<1>1. \A t \in Seq(S) : Len(Pieces(t, sep)) \in Nat \ {0}
  BY PiecesProperties, FrontLastProperties
<1>2. ASSUME NEW t \in Seq(S), NEW char \in S
      PROVE  Len(Pieces(Append(t, char), sep)) =
               IF char = sep THEN Len(Pieces(t, sep)) + 1 ELSE Len(Pieces(t, sep))
  <2> DEFINE P == Pieces(t, sep)
  <2>1. P \in NonEmptySeq(Seq(S)) /\ Pieces(Append(t, char), sep) = AddChar(P, sep, char)
    BY PiecesProperties
  <2>2. /\ P \in Seq(Seq(S)) /\ <<>> \in Seq(S) /\ Len(P) \in Nat
        /\ Front(P) \in Seq(Seq(S)) /\ Len(Front(P)) = Len(P) - 1
        /\ Append(Last(P), char) \in Seq(S)
    BY <2>1, FrontLastProperties, EmptySeq, AppendProperties DEF NonEmptySeq
  <2>3. Len(Append(P, <<>>)) = Len(P) + 1
    BY <2>2, AppendProperties
  <2> DEFINE front == Front(P)
             last  == Append(Last(P), char)
  <2>4. Len(Append(front, last)) = Len(front) + 1
    <3>1. front \in Seq(Seq(S)) /\ last \in Seq(S)
      BY <2>2
    <3> HIDE DEF front, last
    <3>2. QED
      BY <3>1, AppendProperties
  <2>5. QED
    BY <2>1, <2>2, <2>3, <2>4 DEF AddChar
<1>3. s \in {t \in Seq(S) : Len(Pieces(t, sep)) = 1 => Pieces(t, sep) = <<t>>}
  <2> DEFINE Q == {t \in Seq(S) : Len(Pieces(t, sep)) = 1 => Pieces(t, sep) = <<t>>}
  <2>1. <<>> \in Q
    BY EmptySeq, PiecesProperties
  <2>2. ASSUME NEW t \in Seq(S), NEW char \in S, t \in Q
        PROVE  Append(t, char) \in Q
    <3>1. Append(t, char) \in Seq(S)
      BY AppendProperties
    <3>2. SUFFICES ASSUME Len(Pieces(Append(t, char), sep)) = 1
                   PROVE  Pieces(Append(t, char), sep) = <<Append(t, char)>>
      BY <3>1
    <3>3. char # sep /\ Len(Pieces(t, sep)) = 1
      <4> DEFINE before == Len(Pieces(t, sep))
                 after  == Len(Pieces(Append(t, char), sep))
      <4>1. /\ before \in Nat \ {0} /\ after = 1
            /\ after = IF char = sep THEN before + 1 ELSE before
        BY <1>1, <1>2, <3>2
      <4> HIDE DEF before, after
      <4>2. char # sep /\ before = 1
        BY <4>1
      <4>3. QED
        BY <4>2 DEF before
    <3>4. Pieces(t, sep) = <<t>>
      BY <2>2, <3>3
    <3>5. Pieces(Append(t, char), sep) = Append(Front(<<t>>), Append(Last(<<t>>), char))
      BY <3>3, <3>4, PiecesProperties DEF AddChar
    <3>6. <<t>> = Append(<<>>, t) /\ <<>> \in Seq(Seq(S))
      BY EmptySeq
    <3>7. Front(<<t>>) = <<>> /\ Last(<<t>>) = t
      BY <3>6, FrontLastAppend
    <3>8. Append(<<>>, Append(t, char)) = <<Append(t, char)>>
      OBVIOUS
    <3>9. QED
      BY <3>5, <3>7, <3>8, Zenon
  <2> HIDE DEF Q
  <2>3. Seq(S) \subseteq Q
    BY <2>1, <2>2, SeqInduction
  <2>4. QED
    BY <2>3 DEF Q
<1>4. ASSUME s # <<>>, Last(s) = sep
      PROVE  Len(Pieces(s, sep)) > 1
  <2>1. Front(s) \in Seq(S) /\ Last(s) \in S /\ s = Append(Front(s), Last(s))
    BY <1>4, FrontLastProperties DEF NonEmptySeq
  <2> DEFINE front  == Front(s)
             before == Len(Pieces(front, sep))
  <2>2. before \in Nat \ {0} /\ Len(Pieces(Append(front, sep), sep)) = before + 1
    <3> HIDE DEF front
    <3>1. front \in Seq(S) /\ sep \in S
      BY <1>4, <2>1 DEF front
    <3>2. QED
      BY <1>1, <1>2, <3>1
  <2>3. s = Append(front, sep)
    BY <1>4, <2>1
  <2> HIDE DEF front, before
  <2>4. QED
    BY <2>2, <2>3
<1>5. QED
  BY <1>1, <1>2, <1>3, <1>4

\* A row that Build accepts as one column is that column.
LEMMA OneColumnRow ==
  ASSUME NEW S, NEW line \in Seq(S), Blank \in S, BuildSucceeds(line, 1)
  PROVE  /\ GetColumn(line, 0) = RemoveExtraAsciiWhitespace(line)
         /\ line # <<>> /\ Len(Pieces(line, Delimiter)) = 1
<1> DEFINE padded == line # <<>> /\ Last(line) = Delimiter
           built  == IF padded THEN Append(line, Blank) ELSE line
           got    == Getline(built, Delimiter)
<1>1. /\ Columns(line) = [i \in DOMAIN got |-> RemoveExtraAsciiWhitespace(got[i])]
      /\ Len(Columns(line)) = 1
  BY DEF Columns, Trimmed, BuildSucceeds
<1>2. /\ Pieces(built, Delimiter) \in NonEmptySeq(Seq(S))
      /\ Front(Pieces(built, Delimiter)) \in Seq(Seq(S))
      /\ Len(Front(Pieces(built, Delimiter))) = Len(Pieces(built, Delimiter)) - 1
  <2>1. built \in Seq(S)
    BY AppendProperties
  <2> HIDE DEF built
  <2>2. QED
    BY <2>1, PiecesProperties, FrontLastProperties
<1>3. got \in Seq(Seq(S)) /\ Len(got) = 1
  <2>1. got \in Seq(Seq(S))
    BY <1>2 DEF Getline, NonEmptySeq
  <2> HIDE DEF got
  <2>2. DOMAIN got = 1..Len(got) /\ Len(got) \in Nat
    BY <2>1, LenProperties
  <2>3. QED
    BY <1>1, <2>1, <2>2
<1>4. Len(got) = IF built = <<>> \/ Last(built) = Delimiter
                 THEN Len(Pieces(built, Delimiter)) - 1 ELSE Len(Pieces(built, Delimiter))
  <2> HIDE DEF built
  <2>1. QED
    BY <1>2 DEF Getline
<1>5. ~padded
  <2> SUFFICES ASSUME padded PROVE FALSE
    OBVIOUS
  <2> DEFINE before == Len(Pieces(line, Delimiter))
             after  == Len(Pieces(built, Delimiter))
  <2>1. built = Append(line, Blank) /\ built # <<>> /\ Last(built) = Blank
    BY FrontLastAppend DEF NonEmptySeq
  <2>2. before \in Nat /\ before > 1
    BY OnePiece
  <2>3. after = IF Blank = Delimiter THEN before + 1 ELSE before
    <3>1. Len(Pieces(Append(line, Blank), Delimiter)) =
            IF Blank = Delimiter THEN before + 1 ELSE before
      BY OnePiece
    <3> HIDE DEF built, before
    <3>2. QED
      BY <2>1, <3>1
  <2> HIDE DEF built, before, after, got
  <2>4. Len(got) = IF Blank = Delimiter THEN after - 1 ELSE after
    BY <1>4, <2>1 DEF after
  <2>5. after \in Nat /\ after > 1 /\ (Blank = Delimiter => after > 2)
    BY <2>2, <2>3
  <2>6. 1 = IF Blank = Delimiter THEN after - 1 ELSE after
    BY <1>3, <2>4, Zenon
  <2>7. QED
    BY <2>5, <2>6
<1>6. got = Pieces(line, Delimiter) /\ line # <<>>
  <2>1. built = line
    BY <1>5
  <2>2. line # <<>>
    <3> SUFFICES ASSUME line = <<>> PROVE FALSE
      OBVIOUS
    <3>1. Len(Pieces(<<>>, Delimiter)) = 1
      BY PiecesProperties
    <3> HIDE DEF built, got
    <3>2. QED
      BY <1>3, <1>4, <2>1, <3>1
  <2>3. QED
    BY <1>5, <2>1, <2>2, Zenon DEF Getline
<1>7. got = <<line>>
  <2>1. Len(Pieces(line, Delimiter)) = 1
    BY <1>3, <1>6
  <2>2. QED
    BY <1>6, <2>1, OnePiece
<1>8. Columns(line)[1] = RemoveExtraAsciiWhitespace(line)
  <2> HIDE DEF got
  <2>1. 1 \in DOMAIN got /\ got[1] = line
    BY <1>7
  <2>2. QED
    BY <1>1, <2>1
<1>9. Len(Pieces(line, Delimiter)) = 1
  BY <1>3, <1>6
<1>10. QED
  BY <1>6, <1>8, <1>9 DEF GetColumn

--------------------------------------------------------------------------------
LEMMA FlattenDefined ==
  ASSUME NEW S, NEW s \in Seq(Seq(S))
  PROVE  \E g : /\ g \in [0..Len(s) -> Seq(S)]
                /\ g[0] = <<>>
                /\ \A n \in 1..Len(s) : g[n] = g[n - 1] \o s[n]
                /\ FlattenSeq(s) = g[Len(s)]
<1> DEFINE A == Seq(S)
           D == [x \in A \X (1..Len(s)) |-> x[1] \o s[x[2]]]
           Body(f) == [n \in 1..Len(s) |-> IF n = 1 THEN s[n] ELSE f[n - 1] \o s[n]]
           flatten == CHOOSE f : f = Body(f)
<1>1. Len(s) \in Nat /\ \A n \in 1..Len(s) : s[n] \in A
  BY LenProperties, ElementOfSeq
<1>2. <<>> \in A
  BY EmptySeq
<1>3. Steps(D, A, Len(s))
  BY <1>1, ConcatProperties DEF Steps
<1>4. PICK g \in [0..Len(s) -> A] :
        g[0] = <<>> /\ \A n \in 1..Len(s) : g[n] = D[<<g[n - 1], n>>]
  <2> DEFINE n == Len(s)
  <2> HIDE DEF A, D, n
  <2>1. n \in Nat /\ <<>> \in A /\ Steps(D, A, n)
    BY <1>1, <1>2, <1>3 DEF n
  <2>2. \E g \in [0..n -> A] : g[0] = <<>> /\ \A i \in 1..n : g[i] = D[<<g[i - 1], i>>]
    BY <2>1, RecursionDefines
  <2>3. QED
    BY <2>2 DEF n
<1>5. \A n \in 1..Len(s) : n - 1 \in 0..Len(s) /\ g[n - 1] \in A
  <2> HIDE DEF A, D
  <2>1. \A n \in 1..Len(s) : n - 1 \in 0..Len(s)
    BY <1>1
  <2>2. QED
    BY <2>1
<1>6. \A n \in 1..Len(s) : g[n] = g[n - 1] \o s[n]
  BY <1>4, <1>5
<1>7. CASE Len(s) = 0
  <2>1. FlattenSeq(s) = <<>>
    BY <1>7, EmptySeq DEF FlattenSeq
  <2>2. QED
    BY <1>4, <1>6, <1>7, <2>1
<1>8. CASE Len(s) # 0
  <2>1. g[1] = s[1]
    <3>1. 1 \in 1..Len(s) /\ 1 - 1 = 0
      BY <1>1, <1>8
    <3>2. g[1] = g[0] \o s[1] /\ s[1] \in A
      BY <1>1, <1>6, <3>1
    <3>3. QED
      BY <1>4, <3>2, ConcatEmptySeq
  <2> DEFINE f == [n \in 1..Len(s) |-> g[n]]
  <2>2. f = Body(f)
    <3>1. \A n \in 1..Len(s) : n = 1 \/ n - 1 \in 1..Len(s)
      BY <1>1
    <3>2. \A n \in 1..Len(s) : g[n] = IF n = 1 THEN s[n] ELSE f[n - 1] \o s[n]
      <4> HIDE DEF A, D
      <4>1. QED
        BY <1>6, <2>1, <3>1
    <3> HIDE DEF A, D
    <3>3. QED
      BY <3>2, Zenon
  <2>3. FlattenSeq(s) = flatten[Len(s)]
    BY <1>8, Zenon DEF FlattenSeq
  <2>4. flatten = Body(flatten)
    <3> HIDE DEF Body
    <3>1. QED
      BY <2>2
  <2>5. \A n \in 1..Len(s) :
          flatten[n] = IF n = 1 THEN s[n] ELSE flatten[n - 1] \o s[n]
    <3> HIDE DEF flatten
    <3>1. QED
      BY <2>4, Zenon
  <2> DEFINE T == {n \in 0..Len(s) : n = 0 \/ flatten[n] = g[n]}
  <2>6. 0 \in T
    BY <1>1
  <2>7. ASSUME NEW n \in 1..Len(s), n - 1 \in T
        PROVE  n \in T
    <3> HIDE DEF flatten, A, D
    <3>1. CASE n = 1
      BY <1>1, <2>1, <2>5, <3>1
    <3>2. CASE n # 1
      <4>1. flatten[n - 1] = g[n - 1]
        BY <1>1, <2>7, <3>2
      <4>2. flatten[n] = flatten[n - 1] \o s[n] /\ g[n] = g[n - 1] \o s[n]
        BY <1>6, <2>5, <3>2
      <4>3. flatten[n] = g[n]
        BY <4>1, <4>2, Zenon
      <4>4. QED
        BY <1>1, <4>3
    <3>3. QED
      BY <3>1, <3>2
  <2>8. flatten[Len(s)] = g[Len(s)]
    <3> HIDE DEF T
    <3>1. 0..Len(s) \subseteq T
      BY <1>1, <2>6, <2>7, IntervalInduction
    <3>2. Len(s) \in T
      BY <1>1, <3>1
    <3> HIDE DEF flatten
    <3>3. QED
      BY <1>8, <3>2 DEF T
  <2> HIDE DEF D, flatten
  <2>9. QED
    BY <1>4, <1>6, <2>3, <2>8
<1>9. QED
  BY <1>7, <1>8

\* The chunks one after another.
LEMMA FlattenProperties ==
  ASSUME NEW S
  PROVE  /\ FlattenSeq(<<>>) = <<>>
         /\ \A s \in Seq(Seq(S)) :
              /\ FlattenSeq(s) \in Seq(S)
              /\ \A e \in Seq(S) : FlattenSeq(Append(s, e)) = FlattenSeq(s) \o e
              /\ s # <<>> => FlattenSeq(s) = Head(s) \o FlattenSeq(Tail(s))
<1> DEFINE Defines(g, s) == /\ g \in [0..Len(s) -> Seq(S)]
                            /\ g[0] = <<>>
                            /\ \A n \in 1..Len(s) : g[n] = g[n - 1] \o s[n]
                            /\ FlattenSeq(s) = g[Len(s)]
<1>1. \A s \in Seq(Seq(S)) : \E g : Defines(g, s)
  BY FlattenDefined
<1>2. FlattenSeq(<<>>) = <<>>
  BY EmptySeq DEF FlattenSeq
<1>3. ASSUME NEW s \in Seq(Seq(S))
      PROVE  FlattenSeq(s) \in Seq(S)
  <2>1. Len(s) \in 0..Len(s)
    BY LenProperties
  <2>2. QED
    BY <1>1, <2>1
<1>4. ASSUME NEW s \in Seq(Seq(S)), NEW e \in Seq(S)
      PROVE  FlattenSeq(Append(s, e)) = FlattenSeq(s) \o e
  <2> DEFINE t == Append(s, e)
  <2>1. /\ t \in Seq(Seq(S)) /\ Len(s) \in Nat /\ Len(t) = Len(s) + 1
        /\ \A i \in 1..Len(s) : t[i] = s[i]
        /\ t[Len(s) + 1] = e
    BY AppendProperties, LenProperties
  <2>2. PICK p : Defines(p, s)
    BY <1>1
  <2> HIDE DEF t
  <2>3. PICK q : Defines(q, t)
    <3> HIDE DEF Defines
    <3>1. QED
      BY <1>1, <2>1
  <2>4. ASSUME NEW n \in 1..Len(s), p[n - 1] = q[n - 1]
        PROVE  p[n] = q[n]
    <3>1. n \in 1..Len(t) /\ t[n] = s[n]
      BY <2>1
    <3>2. p[n] = p[n - 1] \o s[n] /\ q[n] = q[n - 1] \o t[n]
      BY <2>2, <2>3, <3>1
    <3>3. QED
      BY <2>4, <3>1, <3>2, Zenon
  <2>5. p[Len(s)] = q[Len(s)]
    <3>1. p[0] = q[0]
      BY <2>2, <2>3
    <3>2. QED
      BY <2>1, <2>4, <3>1, RecursionAgrees
  <2>6. q[Len(s) + 1] = q[Len(s)] \o e
    <3>1. Len(s) + 1 \in 1..Len(t) /\ (Len(s) + 1) - 1 = Len(s)
      BY <2>1
    <3>2. q[Len(s) + 1] = q[(Len(s) + 1) - 1] \o t[Len(s) + 1]
      BY <2>3, <3>1
    <3>3. QED
      BY <2>1, <3>1, <3>2
  <2>7. FlattenSeq(t) = FlattenSeq(s) \o e
    BY <2>1, <2>2, <2>3, <2>5, <2>6
  <2>8. QED
    BY <2>7 DEF t
<1> DEFINE Q == {s \in Seq(Seq(S)) : s # <<>> => FlattenSeq(s) = Head(s) \o FlattenSeq(Tail(s))}
<1>5. ASSUME NEW s \in Seq(Seq(S)), NEW e \in Seq(S), s \in Q
      PROVE  Append(s, e) \in Q
  <2> DEFINE t == Append(s, e)
  <2>1. t \in Seq(Seq(S)) /\ FlattenSeq(t) = FlattenSeq(s) \o e
    BY <1>4, AppendProperties
  <2>2. /\ Head(t) = IF s = <<>> THEN e ELSE Head(s)
        /\ Tail(t) = IF s = <<>> THEN <<>> ELSE Append(Tail(s), e)
    BY HeadTailAppend
  <2>3. CASE s = <<>>
    <3>1. FlattenSeq(t) = e /\ Head(t) = e /\ FlattenSeq(Tail(t)) = <<>>
      BY <1>2, <2>1, <2>2, <2>3, ConcatEmptySeq
    <3> HIDE DEF t
    <3>2. QED
      BY <2>1, <3>1, ConcatEmptySeq DEF t
  <2>4. CASE s # <<>>
    <3>1. Head(s) \in Seq(S) /\ Tail(s) \in Seq(Seq(S))
      BY <2>4, HeadTailProperties
    <3>2. FlattenSeq(s) = Head(s) \o FlattenSeq(Tail(s))
      BY <1>5, <2>4
    <3>3. FlattenSeq(Tail(t)) = FlattenSeq(Tail(s)) \o e
      BY <1>4, <2>2, <2>4, <3>1
    <3> DEFINE head == Head(s)
               tail == FlattenSeq(Tail(s))
    <3>4. (head \o tail) \o e = head \o (tail \o e)
      <4>1. head \in Seq(S) /\ tail \in Seq(S)
        BY <1>3, <3>1
      <4> HIDE DEF head, tail
      <4>2. QED
        BY <4>1, ConcatAssociative
    <3> HIDE DEF t
    <3>5. FlattenSeq(t) = Head(t) \o FlattenSeq(Tail(t))
      BY <2>1, <2>2, <2>4, <3>2, <3>3, <3>4, Zenon
    <3>6. QED
      BY <2>1, <3>5 DEF t
  <2>5. QED
    BY <2>3, <2>4
<1>6. Seq(Seq(S)) \subseteq Q
  <2>1. <<>> \in Q
    BY EmptySeq
  <2> HIDE DEF Q
  <2>2. QED
    BY <1>5, <2>1, SeqInduction
<1>7. QED
  BY <1>2, <1>3, <1>4, <1>6

--------------------------------------------------------------------------------
LEMMA PrefixElements ==
  ASSUME NEW S, NEW s \in Seq(S), NEW t \in Seq(S)
  PROVE  IsPrefix(s, t) <=> Len(s) <= Len(t) /\ \A i \in 1..Len(s) : s[i] = t[i]
<1>1. Len(s) \in Nat /\ Len(t) \in Nat
  BY LenProperties
<1>2. SubSeq(s, 1, Len(s)) = s
  BY SubSeqFull
<1> SUFFICES ASSUME Len(s) <= Len(t)
             PROVE  s = SubSeq(t, 1, Len(s)) <=> \A i \in 1..Len(s) : s[i] = t[i]
  BY <1>2 DEF IsPrefix
<1> DEFINE n == Len(s)
           u == SubSeq(t, 1, n)
<1>3. u \in Seq(S) /\ Len(u) = n /\ \A i \in 1..n : u[i] = t[i]
  <2>1. n \in Nat /\ \A i \in 1..n : t[i] \in S
    BY <1>1, ElementOfSeq
  <2> HIDE DEF n
  <2>2. /\ u \in Seq(S) /\ Len(u) = IF 1 <= n THEN n - 1 + 1 ELSE 0
        /\ \A i \in 1..n - 1 + 1 : u[i] = t[1 + i - 1]
    BY <2>1, SubSeqProperties
  <2> HIDE DEF u
  <2>3. QED
    BY <2>1, <2>2
<1> HIDE DEF u
<1>4. QED
  BY <1>3, SeqEqual DEF u

LEMMA ReverseElements ==
  ASSUME NEW S, NEW s \in Seq(S)
  PROVE  /\ Reverse(s) \in Seq(S) /\ Len(Reverse(s)) = Len(s)
         /\ \A i \in 1..Len(s) : Reverse(s)[i] = s[Len(s) - i + 1]
<1>1. Len(s) \in Nat /\ \A i \in 1..Len(s) : (Len(s) - i) + 1 \in 1..Len(s)
  BY LenProperties
<1>2. Reverse(s) \in [1..Len(s) -> S]
  BY <1>1, ElementOfSeq DEF Reverse
<1>3. QED
  BY <1>1, <1>2, IsASeq, LenProperties DEF Reverse

LEMMA SuffixTail ==
  ASSUME NEW S, NEW s \in Seq(S), NEW t \in Seq(S), s # <<>>, IsSuffix(s, t)
  PROVE  IsSuffix(Tail(s), t)
<1> DEFINE u == Tail(s)
           n == Len(s)
<1>1. /\ u \in Seq(S) /\ n \in Nat /\ n > 0 /\ Len(u) = n - 1
      /\ \A i \in 1..n - 1 : u[i] = s[i + 1]
  BY HeadTailProperties, LenProperties, EmptySeq
<1>2. Len(t) \in Nat
  BY LenProperties
<1> HIDE DEF u, n
<1>3. /\ Reverse(s) \in Seq(S) /\ Reverse(t) \in Seq(S) /\ Reverse(u) \in Seq(S)
      /\ Len(Reverse(s)) = n /\ Len(Reverse(t)) = Len(t) /\ Len(Reverse(u)) = n - 1
      /\ \A i \in 1..n : Reverse(s)[i] = s[n - i + 1]
      /\ \A i \in 1..n - 1 : Reverse(u)[i] = u[(n - 1) - i + 1]
  <2>1. \A i \in 1..Len(s) : Reverse(s)[i] = s[Len(s) - i + 1]
    BY ReverseElements
  <2>2. \A i \in 1..Len(u) : Reverse(u)[i] = u[Len(u) - i + 1]
    BY <1>1, ReverseElements
  <2>3. QED
    BY <1>1, <2>1, <2>2, ReverseElements DEF n
<1>4. n <= Len(t) /\ \A i \in 1..n : Reverse(s)[i] = Reverse(t)[i]
  <2> DEFINE a == Reverse(s)
             b == Reverse(t)
  <2>1. a \in Seq(S) /\ b \in Seq(S) /\ IsPrefix(a, b)
    BY <1>3 DEF IsSuffix
  <2> HIDE DEF a, b
  <2>2. Len(a) <= Len(b) /\ \A i \in 1..Len(a) : a[i] = b[i]
    BY <2>1, PrefixElements
  <2>3. QED
    BY <1>3, <2>2 DEF a, b
<1>5. \A i \in 1..n - 1 : Reverse(u)[i] = Reverse(t)[i]
  <2> SUFFICES ASSUME NEW i \in 1..n - 1 PROVE Reverse(u)[i] = Reverse(t)[i]
    OBVIOUS
  <2>1. (n - 1) - i + 1 \in 1..n - 1 /\ ((n - 1) - i + 1) + 1 = n - i + 1 /\ i \in 1..n
    BY <1>1
  <2>2. Reverse(u)[i] = s[n - i + 1]
    BY <1>1, <1>3, <2>1
  <2>3. QED
    BY <1>3, <1>4, <2>1, <2>2
<1>6. IsPrefix(Reverse(u), Reverse(t))
  <2> DEFINE a == Reverse(u)
             b == Reverse(t)
  <2>1. a \in Seq(S) /\ b \in Seq(S) /\ Len(a) <= Len(b) /\ \A i \in 1..Len(a) : a[i] = b[i]
    BY <1>1, <1>2, <1>3, <1>4, <1>5
  <2> HIDE DEF a, b
  <2>2. IsPrefix(a, b)
    BY <2>1, PrefixElements
  <2>3. QED
    BY <2>2 DEF a, b
<1>7. QED
  BY <1>6 DEF IsSuffix, u

LEMMA SuffixItself ==
  ASSUME NEW S, NEW s \in Seq(S)
  PROVE  IsSuffix(s, s)
BY ReverseElements, LenProperties DEF IsSuffix, IsPrefix

--------------------------------------------------------------------------------
\* What is left of a column when blanks are removed consists of its characters.
\* The function RemoveExtraAsciiWhitespace is defined with.
StaysIn(col, i) ==
  \/ col[i] # Blank
  \/ i > 1 /\ col[i - 1] # Blank /\ \E j \in i..Len(col) : col[j] # Blank
Keep(col, kept, n) == IF StaysIn(col, n) THEN Append(kept, col[n]) ELSE kept

LEMMA TrimmedDefined ==
  ASSUME NEW S, NEW col \in Seq(S)
  PROVE  \E kept : /\ kept \in [0..Len(col) -> Seq(S)]
                   /\ kept[0] = <<>>
                   /\ \A n \in 1..Len(col) : kept[n] = Keep(col, kept[n - 1], n)
                   /\ RemoveExtraAsciiWhitespace(col) = kept[Len(col)]
<1> DEFINE A == Seq(S)
           D == [x \in A \X (1..Len(col)) |-> Keep(col, x[1], x[2])]
           Body(f) == [n \in 0..Len(col) |->
                         IF n = 0 THEN <<>> ELSE Keep(col, f[n - 1], n)]
           kept == CHOOSE f : f = Body(f)
<1>1. Len(col) \in Nat /\ <<>> \in A /\ \A n \in 1..Len(col) : col[n] \in S
  BY LenProperties, EmptySeq, ElementOfSeq
<1>2. Steps(D, A, Len(col))
  <2>1. ASSUME NEW s \in A, NEW n \in 1..Len(col)
        PROVE  Keep(col, s, n) \in A
    BY <1>1, AppendProperties DEF Keep
  <2> HIDE DEF A
  <2>2. QED
    BY <2>1 DEF Steps
<1>3. PICK g \in [0..Len(col) -> A] :
        g[0] = <<>> /\ \A n \in 1..Len(col) : g[n] = D[<<g[n - 1], n>>]
  <2> DEFINE length == Len(col)
  <2> HIDE DEF A, D, length
  <2>1. length \in Nat /\ Steps(D, A, length)
    BY <1>1, <1>2 DEF length
  <2>2. \E g \in [0..length -> A] :
          g[0] = <<>> /\ \A n \in 1..length : g[n] = D[<<g[n - 1], n>>]
    BY <1>1, <2>1, RecursionDefines
  <2>3. QED
    BY <2>2 DEF length
<1>4. \A n \in 1..Len(col) : g[n] = Keep(col, g[n - 1], n)
  <2> HIDE DEF A
  <2>1. \A n \in 1..Len(col) : n - 1 \in 0..Len(col)
    BY <1>1
  <2>2. QED
    BY <1>3, <2>1
<1>5. g = Body(g)
  <2> HIDE DEF A, D
  <2>1. QED
    BY <1>1, <1>3, <1>4
<1>6. RemoveExtraAsciiWhitespace(col) = kept[Len(col)]
  BY Zenon DEF RemoveExtraAsciiWhitespace, Keep, StaysIn
<1>7. kept = Body(kept)
  <2> HIDE DEF Body
  <2>1. QED
    BY <1>5
<1>8. kept[0] = <<>> /\ \A n \in 1..Len(col) : kept[n] = Keep(col, kept[n - 1], n)
  <2> HIDE DEF kept
  <2>1. QED
    BY <1>1, <1>7
<1>9. kept[Len(col)] = g[Len(col)]
  <2> DEFINE length == Len(col)
  <2> HIDE DEF kept, A, D, length
  <2>1. length \in Nat /\ \A n \in 1..length : kept[n - 1] = g[n - 1] => kept[n] = g[n]
    BY <1>1, <1>4, <1>8 DEF length
  <2>2. kept[0] = g[0]
    BY <1>3, <1>8
  <2>3. kept[length] = g[length]
    BY <2>1, <2>2, RecursionAgrees
  <2>4. QED
    BY <2>3 DEF length
<1>10. g \in [0..Len(col) -> Seq(S)]
  OBVIOUS
<1>11. QED
  <2> HIDE DEF kept, D, A
  <2>1. QED
    BY <1>3, <1>4, <1>6, <1>9, <1>10

LEMMA TrimmedType ==
  ASSUME NEW S, NEW col \in Seq(S)
  PROVE  RemoveExtraAsciiWhitespace(col) \in Seq(S)
<1>1. Len(col) \in 0..Len(col)
  BY LenProperties
<1>2. QED
  BY <1>1, TrimmedDefined

\* One character that is no blank stays as it is.
LEMMA TrimmedCharacter ==
  ASSUME NEW S, NEW char \in S, char # Blank
  PROVE  RemoveExtraAsciiWhitespace(<<char>>) = <<char>>
<1> DEFINE col == <<char>>
<1>1. col \in Seq(S) /\ Len(col) = 1 /\ col[1] = char
  OBVIOUS
<1> HIDE DEF col
<1>2. PICK kept : /\ kept[0] = <<>>
                  /\ \A n \in 1..Len(col) : kept[n] = Keep(col, kept[n - 1], n)
                  /\ RemoveExtraAsciiWhitespace(col) = kept[Len(col)]
  BY <1>1, TrimmedDefined
<1>3. kept[1] = Keep(col, kept[0], 1)
  <2>1. 1 \in 1..Len(col) /\ 1 - 1 = 0
    BY <1>1
  <2>2. QED
    BY <1>2, <2>1
<1>4. Keep(col, <<>>, 1) = Append(<<>>, char)
  BY <1>1 DEF Keep, StaysIn
<1>5. QED
  BY <1>1, <1>2, <1>3, <1>4 DEF col

LEMMA AppendedElements ==
  ASSUME NEW S, NEW s \in Seq(S), NEW e \in S
  PROVE  ToSet(Append(s, e)) = ToSet(s) \cup {e}
<1>1. /\ DOMAIN s = 1..Len(s) /\ Len(s) \in Nat
      /\ DOMAIN Append(s, e) = 1..Len(s) + 1
      /\ \A i \in 1..Len(s) : Append(s, e)[i] = s[i]
      /\ Append(s, e)[Len(s) + 1] = e
  BY AppendProperties, LenProperties
<1> DEFINE t == Append(s, e)
<1> HIDE DEF t
<1>2. 1..Len(s) + 1 = 1..Len(s) \cup {Len(s) + 1}
  BY <1>1
<1>3. QED
  BY <1>1, <1>2 DEF ToSet

LEMMA SinglePiece ==
  ASSUME NEW S, NEW s \in Seq(S), NEW sep
  PROVE  Len(Pieces(s, sep)) = 1 <=> sep \notin ToSet(s)
<1> DEFINE Q == {t \in Seq(S) : Len(Pieces(t, sep)) = 1 <=> sep \notin ToSet(t)}
<1>1. <<>> \in Q
  <2>1. Len(Pieces(<<>>, sep)) = 1
    BY PiecesProperties
  <2>2. ToSet(<<>>) = {}
    BY DEF ToSet
  <2>3. QED
    BY <2>1, <2>2, EmptySeq
<1>2. ASSUME NEW t \in Seq(S), NEW char \in S, t \in Q
      PROVE  Append(t, char) \in Q
  <2>1. Append(t, char) \in Seq(S)
    BY AppendProperties
  <2>2. ToSet(Append(t, char)) = ToSet(t) \cup {char}
    BY AppendedElements
  <2> DEFINE before == Len(Pieces(t, sep))
             after  == Len(Pieces(Append(t, char), sep))
  <2>3. /\ before \in Nat \ {0}
        /\ after = IF char = sep THEN before + 1 ELSE before
    <3>1. Pieces(t, sep) \in NonEmptySeq(Seq(S))
      BY PiecesProperties
    <3>2. before \in Nat \ {0}
      BY <3>1, FrontLastProperties
    <3>3. after = IF char = sep THEN before + 1 ELSE before
      BY OnePiece
    <3>4. QED
      BY <3>2, <3>3
  <2>4. before = 1 <=> sep \notin ToSet(t)
    BY <1>2
  <2>5. after = 1 <=> sep \notin ToSet(Append(t, char))
    <3> HIDE DEF before, after
    <3>1. QED
      BY <2>2, <2>3, <2>4
  <2>6. QED
    BY <2>1, <2>5
<1>3. Seq(S) \subseteq Q
  <2> HIDE DEF Q
  <2>1. QED
    BY <1>1, <1>2, SeqInduction
<1>4. QED
  BY <1>3

\* Build accepts exactly the lines that have a character and no delimiter.
LEMMA BuildsOneColumn ==
  ASSUME NEW S, NEW line \in Seq(S), Blank \in S
  PROVE  BuildSucceeds(line, 1) <=> line # <<>> /\ Delimiter \notin ToSet(line)
<1>1. ASSUME BuildSucceeds(line, 1)
      PROVE  line # <<>> /\ Delimiter \notin ToSet(line)
  BY <1>1, OneColumnRow, SinglePiece
<1>2. ASSUME line # <<>>, Delimiter \notin ToSet(line)
      PROVE  BuildSucceeds(line, 1)
  <2>1. Last(line) # Delimiter
    <3>1. Len(line) \in DOMAIN line
      BY <1>2, EmptySeq, LenProperties
    <3>2. QED
      BY <1>2, <3>1 DEF Last, ToSet
  <2>2. Pieces(line, Delimiter) = <<line>>
    BY <1>2, SinglePiece, OnePiece
  <2>3. Columns(line) = Trimmed(<<line>>)
    BY <1>2, <2>1, <2>2, Zenon DEF Columns, Getline
  <2> DEFINE column == RemoveExtraAsciiWhitespace(line)
  <2>4. Trimmed(<<line>>) = [i \in 1..1 |-> column]
    <3> HIDE DEF column
    <3>1. DOMAIN <<line>> = 1..1 /\ \A i \in 1..1 : <<line>>[i] = line
      OBVIOUS
    <3>2. \A i \in 1..1 : RemoveExtraAsciiWhitespace(<<line>>[i]) = column
      BY <3>1 DEF column
    <3>3. QED
      BY <3>1, <3>2 DEF Trimmed
  <2>5. Len([i \in 1..1 |-> column]) = 1
    <3> HIDE DEF column
    <3>1. QED
      OBVIOUS
  <2>6. QED
    BY <2>3, <2>4, <2>5, Zenon DEF BuildSucceeds
<1>3. QED
  BY <1>1, <1>2


--------------------------------------------------------------------------------
LEMMA LinesType ==
  ASSUME NEW S, NEW s \in Seq(S)
  PROVE  CompleteLines(s) \in Seq(Seq(S)) /\ Rest(s, LineBreak) \in Seq(S)
<1>1. Pieces(s, LineBreak) \in NonEmptySeq(Seq(S))
  BY PiecesProperties
<1>2. QED
  BY <1>1, FrontLastProperties DEF CompleteLines, Rest

LEMMA NextCharOfLines ==
  ASSUME NEW S, NEW s \in Seq(S), NEW char \in S
  PROVE  /\ char # LineBreak =>
              /\ CompleteLines(Append(s, char)) = CompleteLines(s)
              /\ Rest(Append(s, char), LineBreak) = Append(Rest(s, LineBreak), char)
         /\ char = LineBreak =>
              /\ CompleteLines(Append(s, char)) = Append(CompleteLines(s), Rest(s, LineBreak))
              /\ Rest(Append(s, char), LineBreak) = <<>>
BY NextChar DEF CompleteLines

LEMMA ConcatAppend ==
  ASSUME NEW S, NEW s \in Seq(S), NEW t \in Seq(S), NEW e \in S
  PROVE  s \o Append(t, e) = Append(s \o t, e)
<1>1. <<e>> \in Seq(S) /\ s \o t \in Seq(S)
  BY ConcatProperties
<1>2. /\ Append(t, e) = t \o <<e>>
      /\ Append(s \o t, e) = (s \o t) \o <<e>>
  BY <1>1, AppendIsConcat
<1>3. (s \o t) \o <<e>> = s \o (t \o <<e>>)
  BY <1>1, ConcatAssociative
<1>4. QED
  BY <1>2, <1>3, Zenon

\* A text that goes on has the lines it had before, and perhaps more.
LEMMA LinesGrow ==
  ASSUME NEW S, NEW p \in Seq(S), NEW q \in Seq(S)
  PROVE  \E more \in Seq(Seq(S)) :
           CompleteLines(p \o q) = CompleteLines(p) \o more
<1> DEFINE More(t) == \E more \in Seq(Seq(S)) :
                        CompleteLines(p \o t) = CompleteLines(p) \o more
           Q == {t \in Seq(S) : More(t)}
<1>1. ASSUME NEW t \in Seq(S)
      PROVE  CompleteLines(t) \in Seq(Seq(S)) /\ Rest(t, LineBreak) \in Seq(S)
  BY LinesType
<1>2. <<>> \in Q
  <2>1. CompleteLines(p \o <<>>) = CompleteLines(p) \o <<>>
    BY <1>1, ConcatEmptySeq
  <2>2. QED
    BY <2>1, EmptySeq
<1>3. ASSUME NEW t \in Seq(S), NEW char \in S, t \in Q
      PROVE  Append(t, char) \in Q
  <2>1. p \o t \in Seq(S) /\ Append(t, char) \in Seq(S)
    BY ConcatProperties, AppendProperties
  <2>2. p \o Append(t, char) = Append(p \o t, char)
    BY ConcatAppend
  <2>3. PICK more \in Seq(Seq(S)) : CompleteLines(p \o t) = CompleteLines(p) \o more
    BY <1>3
  <2> DEFINE lines == CompleteLines(p)
             rest  == Rest(p \o t, LineBreak)
  <2>4. lines \in Seq(Seq(S)) /\ rest \in Seq(S)
    BY <1>1, <2>1
  <2>5. \/ CompleteLines(Append(p \o t, char)) = lines \o more
        \/ CompleteLines(Append(p \o t, char)) = Append(lines \o more, rest)
    BY <2>1, <2>3, NextCharOfLines, Zenon
  <2>6. lines \o Append(more, rest) = Append(lines \o more, rest)
    <3> DEFINE Line == Seq(S)
    <3> HIDE DEF lines, rest, Line
    <3>1. lines \in Seq(Line) /\ more \in Seq(Line) /\ rest \in Line
      BY <2>3, <2>4 DEF Line
    <3>2. QED
      BY <3>1, ConcatAppend
  <2>7. Append(more, rest) \in Seq(Seq(S))
    <3> HIDE DEF rest
    <3>1. QED
      BY <2>4, AppendProperties
  <2>8. More(Append(t, char))
    BY <2>2, <2>5, <2>6, <2>7
  <2>9. QED
    BY <2>1, <2>8
<1>4. Seq(S) \subseteq Q
  <2> HIDE DEF Q
  <2>1. QED
    BY <1>2, <1>3, SeqInduction
<1>5. QED
  BY <1>4

\* Behind a line break the lines of a text are counted afresh.
LEMMA LinesConcat ==
  ASSUME NEW S, NEW p \in Seq(S), NEW q \in Seq(S), Rest(p, LineBreak) = <<>>
  PROVE  /\ CompleteLines(p \o q) = CompleteLines(p) \o CompleteLines(q)
         /\ Rest(p \o q, LineBreak) = Rest(q, LineBreak)
<1> DEFINE Same(t) == /\ CompleteLines(p \o t) = CompleteLines(p) \o CompleteLines(t)
                      /\ Rest(p \o t, LineBreak) = Rest(t, LineBreak)
           Q == {t \in Seq(S) : Same(t)}
<1>1. ASSUME NEW t \in Seq(S)
      PROVE  CompleteLines(t) \in Seq(Seq(S)) /\ Rest(t, LineBreak) \in Seq(S)
  BY LinesType
<1>2. <<>> \in Q
  <2>1. p \o <<>> = p /\ CompleteLines(p) \o <<>> = CompleteLines(p)
    BY <1>1, ConcatEmptySeq
  <2>2. Same(<<>>)
    BY <2>1, NoTextNoLines, Zenon
  <2>3. QED
    BY <2>2, EmptySeq
<1>3. ASSUME NEW t \in Seq(S), NEW char \in S, t \in Q
      PROVE  Append(t, char) \in Q
  <2>1. p \o t \in Seq(S) /\ Append(t, char) \in Seq(S)
    BY ConcatProperties, AppendProperties
  <2>2. p \o Append(t, char) = Append(p \o t, char)
    BY ConcatAppend
  <2> DEFINE lines == CompleteLines(p)
             more  == CompleteLines(t)
             rest  == Rest(t, LineBreak)
  <2>3. /\ CompleteLines(p \o t) = lines \o more
        /\ Rest(p \o t, LineBreak) = rest
    BY <1>3
  <2>4. lines \in Seq(Seq(S)) /\ more \in Seq(Seq(S)) /\ rest \in Seq(S)
    BY <1>1
  <2>5. lines \o Append(more, rest) = Append(lines \o more, rest)
    <3> DEFINE Line == Seq(S)
    <3> HIDE DEF lines, more, rest, Line
    <3>1. lines \in Seq(Line) /\ more \in Seq(Line) /\ rest \in Line
      BY <2>4 DEF Line
    <3>2. QED
      BY <3>1, ConcatAppend
  <2>6. CASE char = LineBreak
    <3>1. /\ CompleteLines(Append(p \o t, char)) = Append(CompleteLines(p \o t), Rest(p \o t, LineBreak))
          /\ Rest(Append(p \o t, char), LineBreak) = <<>>
      BY <2>1, <2>6, NextCharOfLines, Zenon
    <3>2. /\ CompleteLines(Append(t, char)) = Append(more, rest)
          /\ Rest(Append(t, char), LineBreak) = <<>>
      BY <2>6, NextCharOfLines, Zenon
    <3>3. Same(Append(t, char))
      BY <2>2, <2>3, <2>5, <3>1, <3>2, Zenon
    <3>4. QED
      BY <2>1, <3>3
  <2>7. CASE char # LineBreak
    <3>1. /\ CompleteLines(Append(p \o t, char)) = CompleteLines(p \o t)
          /\ Rest(Append(p \o t, char), LineBreak) = Append(Rest(p \o t, LineBreak), char)
      BY <2>1, <2>7, NextCharOfLines, Zenon
    <3>2. /\ CompleteLines(Append(t, char)) = more
          /\ Rest(Append(t, char), LineBreak) = Append(rest, char)
      BY <2>7, NextCharOfLines, Zenon
    <3>3. Same(Append(t, char))
      BY <2>2, <2>3, <3>1, <3>2, Zenon
    <3>4. QED
      BY <2>1, <3>3
  <2>8. QED
    BY <2>6, <2>7
<1>4. Seq(S) \subseteq Q
  <2> HIDE DEF Q
  <2>1. QED
    BY <1>2, <1>3, SeqInduction
<1>5. QED
  BY <1>4

\* Nothing stands behind a last line break.
LEMMA NothingBehindBreak ==
  ASSUME NEW S, NEW s \in Seq(S), s = <<>> \/ Last(s) = LineBreak
  PROVE  Rest(s, LineBreak) = <<>>
<1>1. CASE s = <<>>
  BY <1>1, NoTextNoLines, Zenon
<1>2. CASE s # <<>>
  <2>1. /\ Front(s) \in Seq(S) /\ Last(s) \in S /\ s = Append(Front(s), Last(s))
        /\ Last(s) = LineBreak
    BY <1>2, FrontLastProperties DEF NonEmptySeq
  <2> DEFINE front == Front(s)
             last  == Last(s)
  <2>2. Rest(Append(front, last), LineBreak) = <<>>
    <3> HIDE DEF front, last
    <3>1. front \in Seq(S) /\ last \in S /\ last = LineBreak
      BY <2>1 DEF front, last
    <3>2. QED
      BY <3>1, NextChar
  <2>3. QED
    BY <2>1, <2>2, Zenon
<1>3. QED
  BY <1>1, <1>2

\* If there is nothing behind the last line break, getline reads the same lines.
LEMMA WholeLines ==
  ASSUME NEW S, NEW s \in Seq(S), Rest(s, LineBreak) = <<>>
  PROVE  Getline(s, LineBreak) = CompleteLines(s)
<1>1. ASSUME s # <<>>, Last(s) # LineBreak PROVE FALSE
  <2> DEFINE front == Front(s)
             last  == Last(s)
  <2>1. front \in Seq(S) /\ last \in S /\ s = Append(front, last) /\ last # LineBreak
    BY <1>1, FrontLastProperties DEF NonEmptySeq
  <2> HIDE DEF front, last
  <2>2. Rest(s, LineBreak) = Append(Rest(front, LineBreak), last)
    BY <2>1, NextCharOfLines
  <2>3. Rest(front, LineBreak) \in Seq(S)
    BY <2>1, LinesType
  <2> DEFINE rest == Rest(front, LineBreak)
  <2> HIDE DEF rest
  <2>4. Append(rest, last) # <<>>
    BY <2>1, <2>3 DEF rest
  <2>5. QED
    BY <2>2, <2>4 DEF rest
<1>2. QED
  BY <1>1, Zenon DEF Getline, CompleteLines
--------------------------------------------------------------------------------
\* What is written a line at a time is read back as those lines.
LEMMA LinesOfText ==
  ASSUME NEW S, LineBreak \in S,
         NEW lines \in Seq({line \in Seq(S) : LineBreak \notin ToSet(line)})
  PROVE  LET text == FlattenSeq([i \in DOMAIN lines |-> Append(lines[i], LineBreak)])
         IN  text \in Seq(S) /\ CompleteLines(text) = lines /\ Rest(text, LineBreak) = <<>>
<1> DEFINE L == {line \in Seq(S) : LineBreak \notin ToSet(line)}
           Ended(t) == [i \in DOMAIN t |-> Append(t[i], LineBreak)]
           Read(t) == /\ Ended(t) \in Seq(Seq(S))
                      /\ FlattenSeq(Ended(t)) \in Seq(S)
                      /\ CompleteLines(FlattenSeq(Ended(t))) = t
                      /\ Rest(FlattenSeq(Ended(t)), LineBreak) = <<>>
           Q == {t \in Seq(L) : Read(t)}
<1>1. <<>> \in Q
  <2>1. Ended(<<>>) = <<>>
    OBVIOUS
  <2>2. <<>> \in Seq(S) /\ <<>> \in Seq(L) /\ <<>> \in Seq(Seq(S))
    BY EmptySeq
  <2>3. FlattenSeq(<<>>) = <<>>
    BY FlattenProperties
  <2> HIDE DEF L, Ended
  <2>4. QED
    BY <2>1, <2>2, <2>3, NoTextNoLines
<1>2. ASSUME NEW t \in Seq(L), NEW line \in L, t \in Q
      PROVE  Append(t, line) \in Q
  <2> DEFINE next == Append(line, LineBreak)
             text == FlattenSeq(Ended(t))
  <2>1. /\ line \in Seq(S) /\ LineBreak \notin ToSet(line)
        /\ next \in Seq(S)
    BY AppendProperties
  <2>2. Read(t)
    BY <1>2
  <2>3. Append(t, line) \in Seq(L)
    <3> HIDE DEF L
    <3>1. QED
      BY AppendProperties
  <2>4. Ended(Append(t, line)) = Append(Ended(t), next)
    <3> DEFINE u == Append(t, line)
    <3>1. /\ DOMAIN u = 1..Len(t) + 1 /\ DOMAIN t = 1..Len(t) /\ Len(t) \in Nat
          /\ \A i \in 1..Len(t) : u[i] = t[i]
          /\ u[Len(t) + 1] = line
      <4> HIDE DEF L
      <4>1. QED
        BY AppendProperties, LenProperties
    <3>2. /\ Len(Ended(t)) = Len(t)
          /\ \A i \in 1..Len(t) : Ended(t)[i] = Append(t[i], LineBreak)
      <4> DEFINE ended == Ended(t)
      <4>1. DOMAIN ended = 1..Len(t) /\ ended \in Seq(Seq(S))
        BY <2>2, <3>1
      <4>2. DOMAIN ended = 1..Len(ended) /\ Len(ended) \in Nat
        <5> HIDE DEF ended
        <5>1. QED
          BY <4>1, LenProperties
      <4>3. Len(ended) = Len(t)
        <5> HIDE DEF ended
        <5>1. QED
          BY <3>1, <4>1, <4>2
      <4>4. \A i \in 1..Len(t) : ended[i] = Append(t[i], LineBreak)
        BY <3>1
      <4>5. QED
        BY <4>3, <4>4
    <3> DEFINE more == Append(Ended(t), next)
    <3>3. /\ more \in Seq(Seq(S)) /\ Len(more) = Len(t) + 1
          /\ \A i \in 1..Len(t) : more[i] = Append(t[i], LineBreak)
          /\ more[Len(t) + 1] = next
      <4> DEFINE ended == Ended(t)
                 Line  == Seq(S)
      <4>1. ended \in Seq(Line) /\ next \in Line
        BY <2>1, <2>2
      <4> HIDE DEF ended, next, Line
      <4>2. /\ Append(ended, next) \in Seq(Line)
            /\ Len(Append(ended, next)) = Len(ended) + 1
            /\ \A i \in 1..Len(ended) : Append(ended, next)[i] = ended[i]
            /\ Append(ended, next)[Len(ended) + 1] = next
        BY <4>1, AppendProperties
      <4>3. QED
        BY <3>2, <4>2 DEF ended, Line
    <3>4. DOMAIN more = 1..Len(t) + 1 /\ more = [i \in DOMAIN more |-> more[i]]
      <4> HIDE DEF more
      <4>1. QED
        BY <3>3, LenProperties
    <3>5. \A i \in 1..Len(t) + 1 : i \in 1..Len(t) \/ i = Len(t) + 1
      BY <3>1
    <3>6. \A i \in 1..Len(t) + 1 : more[i] = Append(u[i], LineBreak)
      <4> HIDE DEF more, u
      <4>1. QED
        BY <3>1, <3>3, <3>5
    <3> HIDE DEF more, u
    <3>7. Ended(u) = more
      BY <3>1, <3>4, <3>6
    <3>8. QED
      BY <3>7, Zenon DEF more, u
  <2>5. FlattenSeq(Append(Ended(t), next)) = text \o next
    <3> DEFINE ended == Ended(t)
    <3> HIDE DEF ended, next
    <3>1. ended \in Seq(Seq(S)) /\ next \in Seq(S)
      BY <2>1, <2>2 DEF ended
    <3>2. FlattenSeq(Append(ended, next)) = FlattenSeq(ended) \o next
      BY <3>1, FlattenProperties
    <3>3. QED
      BY <3>2, Zenon DEF ended
  <2>6. CompleteLines(next) = <<line>> /\ Rest(next, LineBreak) = <<>>
    <3>1. Pieces(line, LineBreak) = <<line>>
      BY <2>1, SinglePiece, OnePiece
    <3>2. <<line>> = Append(<<>>, line) /\ <<>> \in Seq(Seq(S))
      BY EmptySeq
    <3>3. CompleteLines(line) = <<>> /\ Rest(line, LineBreak) = line
      BY <2>1, <3>1, <3>2, FrontLastAppend DEF CompleteLines, Rest
    <3>4. QED
      BY <2>1, <3>2, <3>3, NextCharOfLines
  <2>7. /\ CompleteLines(text \o next) = t \o <<line>>
        /\ Rest(text \o next, LineBreak) = <<>>
        /\ text \o next \in Seq(S)
    <3>1. text \in Seq(S) /\ Rest(text, LineBreak) = <<>> /\ CompleteLines(text) = t
      BY <2>2
    <3> HIDE DEF text, next
    <3>2. QED
      BY <2>1, <2>6, <3>1, LinesConcat, ConcatProperties
  <2>8. t \o <<line>> = Append(t, line)
    <3> HIDE DEF L
    <3>1. QED
      BY AppendIsConcat
  <2>9. Append(Ended(t), next) \in Seq(Seq(S))
    <3> DEFINE ended == Ended(t)
               Line  == Seq(S)
    <3>1. ended \in Seq(Line) /\ next \in Line
      BY <2>1, <2>2
    <3> HIDE DEF ended, next, Line
    <3>2. Append(ended, next) \in Seq(Line)
      BY <3>1, AppendProperties
    <3>3. QED
      BY <3>2, Zenon DEF ended, Line
  <2>10. Read(Append(t, line))
    <3> HIDE DEF Ended, next, L
    <3>1. QED
      BY <2>4, <2>5, <2>7, <2>8, <2>9, Zenon
  <2> HIDE DEF Read, L
  <2>11. QED
    BY <2>3, <2>10
<1>3. Seq(L) \subseteq Q
  <2> HIDE DEF Q, L
  <2>1. QED
    BY <1>1, <1>2, SeqInduction
<1>4. lines \in Q
  <2> HIDE DEF Q
  <2>1. QED
    BY <1>3
<1>5. QED
  BY <1>4


\* A piece that holds no separator opens no further one.
LEMMA RestConcat ==
  ASSUME NEW S, NEW p \in Seq(S), NEW sep, NEW q \in Seq(S), sep \notin ToSet(q)
  PROVE  /\ Front(Pieces(p \o q, sep)) = Front(Pieces(p, sep))
         /\ Rest(p \o q, sep) = Rest(p, sep) \o q
<1> DEFINE Same(t) == /\ Front(Pieces(p \o t, sep)) = Front(Pieces(p, sep))
                      /\ Rest(p \o t, sep) = Rest(p, sep) \o t
           Q == {t \in Seq(S) : sep \in ToSet(t) \/ Same(t)}
<1>1. Rest(p, sep) \in Seq(S)
  BY PiecesProperties, FrontLastProperties DEF Rest
<1>2. <<>> \in Q
  <2>1. p \o <<>> = p /\ Rest(p, sep) \o <<>> = Rest(p, sep)
    BY <1>1, ConcatEmptySeq
  <2>2. QED
    BY <2>1, EmptySeq
<1>3. ASSUME NEW t \in Seq(S), NEW char \in S, t \in Q
      PROVE  Append(t, char) \in Q
  <2>1. Append(t, char) \in Seq(S) /\ p \o t \in Seq(S)
    BY AppendProperties, ConcatProperties
  <2>2. SUFFICES ASSUME sep \notin ToSet(Append(t, char)) PROVE Same(Append(t, char))
    BY <2>1
  <2>3. char # sep /\ sep \notin ToSet(t)
    BY <2>2, AppendedElements
  <2>4. Same(t)
    BY <1>3, <2>3
  <2>5. p \o Append(t, char) = Append(p \o t, char)
    BY ConcatAppend
  <2> DEFINE all  == p \o t
             rest == Rest(p, sep)
  <2>6. /\ Front(Pieces(Append(all, char), sep)) = Front(Pieces(all, sep))
        /\ Rest(Append(all, char), sep) = Append(Rest(all, sep), char)
    <3> HIDE DEF all
    <3>1. all \in Seq(S)
      BY <2>1 DEF all
    <3>2. QED
      BY <2>3, <3>1, NextChar
  <2>7. rest \o Append(t, char) = Append(rest \o t, char)
    <3> HIDE DEF rest
    <3>1. rest \in Seq(S)
      BY <1>1 DEF rest
    <3>2. QED
      BY <3>1, ConcatAppend
  <2>8. QED
    BY <2>4, <2>5, <2>6, <2>7, Zenon
<1>4. Seq(S) \subseteq Q
  <2> HIDE DEF Q
  <2>1. QED
    BY <1>2, <1>3, SeqInduction
<1>5. QED
  BY <1>4

LEMMA ShortSequences ==
  ASSUME NEW S, NEW x \in S, NEW y \in S
  PROVE  /\ Front(<<x>>) = <<>> /\ Last(<<x>>) = x
         /\ Append(<<x>>, y) = <<x, y>>
<1>1. <<x>> = Append(<<>>, x) /\ <<>> \in Seq(S)
  BY EmptySeq
<1>2. Front(<<x>>) = <<>> /\ Last(<<x>>) = x
  BY <1>1, FrontLastAppend
<1>3. Append(<<x>>, y) = <<x, y>>
  <2> DEFINE s == Append(<<x>>, y)
             t == <<x, y>>
  <2>1. /\ s \in Seq(S) /\ Len(s) = 2 /\ s[1] = x /\ s[2] = y
        /\ t \in Seq(S) /\ Len(t) = 2 /\ t[1] = x /\ t[2] = y
    OBVIOUS
  <2> HIDE DEF s, t
  <2>2. \A i \in 1..2 : s[i] = t[i]
    BY <2>1
  <2>3. s = t
    BY <2>1, <2>2, SeqEqual
  <2>4. QED
    BY <2>3 DEF s, t
<1>4. QED
  BY <1>2, <1>3

\* A delimiter between two columns separates them.
LEMMA TwoColumns ==
  ASSUME NEW S, NEW first \in Seq(S), NEW second \in Seq(S), Delimiter \in S,
         Delimiter \notin ToSet(first), Delimiter \notin ToSet(second), second # <<>>
  PROVE  Columns(first \o <<Delimiter>> \o second) = Trimmed(<<first, second>>)
<1> DEFINE head == Append(first, Delimiter)
           row  == head \o second
<1>1. /\ first \o <<Delimiter>> = head /\ head \in Seq(S) /\ row \in Seq(S)
  BY AppendIsConcat, AppendProperties, ConcatProperties
<1>2. Front(Pieces(head, Delimiter)) = <<first>> /\ Rest(head, Delimiter) = <<>>
  <2>1. Pieces(first, Delimiter) = <<first>>
    BY SinglePiece, OnePiece
  <2>2. <<first>> = Append(<<>>, first) /\ <<>> \in Seq(Seq(S))
    BY EmptySeq
  <2>3. Front(<<first>>) = <<>> /\ Last(<<first>>) = first
    <3> DEFINE T == Seq(S)
    <3> HIDE DEF T
    <3>1. first \in T
      BY DEF T
    <3>2. QED
      BY <3>1, ShortSequences
  <2>4. Front(Pieces(first, Delimiter)) = <<>> /\ Rest(first, Delimiter) = first
    BY <2>1, <2>3, Zenon DEF Rest
  <2>5. /\ Front(Pieces(head, Delimiter)) = Append(Front(Pieces(first, Delimiter)), Rest(first, Delimiter))
        /\ Rest(head, Delimiter) = <<>>
    BY NextChar
  <2>6. QED
    BY <2>2, <2>4, <2>5, Zenon
<1>3. Front(Pieces(row, Delimiter)) = <<first>> /\ Rest(row, Delimiter) = second
  <2> HIDE DEF head
  <2>1. <<>> \o second = second
    BY ConcatEmptySeq
  <2>2. /\ Front(Pieces(row, Delimiter)) = Front(Pieces(head, Delimiter))
        /\ Rest(row, Delimiter) = Rest(head, Delimiter) \o second
    BY <1>1, RestConcat
  <2>3. QED
    BY <1>2, <2>1, <2>2, Zenon
<1>4. Pieces(row, Delimiter) = <<first, second>>
  <2> HIDE DEF row
  <2>1. Pieces(row, Delimiter) = Append(Front(Pieces(row, Delimiter)), Last(Pieces(row, Delimiter)))
    BY <1>1, PiecesProperties, FrontLastProperties
  <2>2. Append(<<first>>, second) = <<first, second>>
    <3> DEFINE T == Seq(S)
    <3> HIDE DEF T
    <3>1. first \in T /\ second \in T
      BY DEF T
    <3>2. QED
      BY <3>1, ShortSequences
  <2>3. QED
    BY <1>3, <2>1, <2>2, Zenon DEF Rest
<1>5. row # <<>> /\ Last(row) # Delimiter
  <2>1. Len(second) \in Nat \ {0} /\ second[Len(second)] # Delimiter
    <3>1. Len(second) \in DOMAIN second /\ Len(second) \in Nat \ {0}
      BY EmptySeq, LenProperties
    <3>2. QED
      BY <3>1 DEF ToSet
  <2> HIDE DEF head
  <2>2. Len(head) \in Nat /\ Len(row) = Len(head) + Len(second)
    BY <1>1, ConcatProperties, LenProperties
  <2>3. Len(row) \in 1..Len(row) /\ ~(Len(row) <= Len(head)) /\ Len(row) - Len(head) = Len(second)
    BY <2>1, <2>2
  <2>4. row[Len(row)] = second[Len(second)]
    BY <1>1, <2>3, ConcatProperties
  <2> HIDE DEF row
  <2>5. row # <<>>
    BY <1>1, <2>1, <2>2, EmptySeq
  <2>6. QED
    BY <2>1, <2>4, <2>5 DEF Last
<1>6. Columns(row) = Trimmed(<<first, second>>)
  <2> HIDE DEF row
  <2>1. QED
    BY <1>4, <1>5, Zenon DEF Columns, Getline
<1>7. QED
  BY <1>1, <1>6, Zenon

LEMMA BuildsTwoColumns ==
  ASSUME NEW S, NEW first \in Seq(S), NEW second \in Seq(S), Delimiter \in S,
         Delimiter \notin ToSet(first), Delimiter \notin ToSet(second), second # <<>>,
         RemoveExtraAsciiWhitespace(first) = first,
         RemoveExtraAsciiWhitespace(second) = second
  PROVE  /\ BuildSucceeds(first \o <<Delimiter>> \o second, 2)
         /\ GetColumn(first \o <<Delimiter>> \o second, 0) = first
         /\ GetColumn(first \o <<Delimiter>> \o second, 1) = second
<1> DEFINE row == first \o <<Delimiter>> \o second
<1>1. Trimmed(<<first, second>>) = <<first, second>>
  <2>1. DOMAIN <<first, second>> = 1..2
    OBVIOUS
  <2>2. \A i \in 1..2 : RemoveExtraAsciiWhitespace(<<first, second>>[i]) = <<first, second>>[i]
    <3>1. <<first, second>>[1] = first /\ <<first, second>>[2] = second
      OBVIOUS
    <3>2. \A i \in 1..2 : i = 1 \/ i = 2
      OBVIOUS
    <3>3. QED
      BY <3>1, <3>2
  <2> DEFINE pair == <<first, second>>
  <2>3. pair = [i \in 1..2 |-> pair[i]]
    OBVIOUS
  <2> HIDE DEF pair
  <2>4. Trimmed(pair) = pair
    BY <2>1, <2>2, <2>3 DEF Trimmed, pair
  <2>5. QED
    BY <2>4 DEF pair
<1>2. Columns(row) = <<first, second>>
  BY <1>1, TwoColumns, Zenon
<1> HIDE DEF row
<1>3. BuildSucceeds(row, 2) /\ GetColumn(row, 0) = first /\ GetColumn(row, 1) = second
  <2>1. Len(Columns(row)) = 2 /\ Columns(row)[1] = first /\ Columns(row)[2] = second
    BY <1>2
  <2>2. 0 + 1 = 1 /\ 1 + 1 = 2
    OBVIOUS
  <2>3. QED
    BY <2>1, <2>2 DEF BuildSucceeds, GetColumn
<1>4. QED
  BY <1>3 DEF row

--------------------------------------------------------------------------------
\* What the trimming leaves has nothing to trim.
NoExtraBlank(s) ==
  \A i \in 1..Len(s) : s[i] = Blank => i > 1 /\ i < Len(s) /\ s[i - 1] # Blank

LEMMA NoExtraStays ==
  ASSUME NEW S, NEW s \in Seq(S), NoExtraBlank(s)
  PROVE  RemoveExtraAsciiWhitespace(s) = s
<1>1. PICK kept : /\ kept[0] = <<>>
                  /\ \A n \in 1..Len(s) : kept[n] = Keep(s, kept[n - 1], n)
                  /\ RemoveExtraAsciiWhitespace(s) = kept[Len(s)]
  BY TrimmedDefined
<1>2. Len(s) \in Nat
  BY LenProperties
<1>3. ASSUME NEW n \in 1..Len(s)
      PROVE  StaysIn(s, n)
  <2>1. SUFFICES ASSUME s[n] = Blank
                 PROVE  n > 1 /\ s[n - 1] # Blank /\ \E j \in n..Len(s) : s[j] # Blank
    BY DEF StaysIn
  <2>2. n > 1 /\ n < Len(s) /\ s[n - 1] # Blank
    BY <2>1 DEF NoExtraBlank
  <2>3. n + 1 \in 1..Len(s) /\ n + 1 \in n..Len(s) /\ (n + 1) - 1 = n
    BY <1>2, <2>2
  <2>4. s[n + 1] # Blank
    BY <2>1, <2>3 DEF NoExtraBlank
  <2>5. QED
    BY <2>2, <2>3, <2>4
<1> DEFINE T == {n \in 0..Len(s) : kept[n] = SubSeq(s, 1, n)}
<1>4. 0 \in T
  <2>1. SubSeq(s, 1, 0) = <<>> /\ 0 \in 0..Len(s)
    BY <1>2, SubSeqEmpty
  <2>2. QED
    BY <1>1, <2>1, Zenon
<1>5. ASSUME NEW n \in 1..Len(s), n - 1 \in T
      PROVE  n \in T
  <2>1. SubSeq(s, 1, n) = Append(SubSeq(s, 1, n - 1), s[n])
    <3>1. 1 \in Nat \ {0} /\ n \in 1..Len(s)
      OBVIOUS
    <3>2. QED
      BY <3>1, SubSeqGrows
  <2>2. kept[n] = Append(kept[n - 1], s[n]) /\ kept[n - 1] = SubSeq(s, 1, n - 1)
    BY <1>1, <1>3, <1>5 DEF Keep
  <2>3. n \in 0..Len(s)
    BY <1>2
  <2>4. QED
    BY <2>1, <2>2, <2>3, Zenon
<1>6. 0..Len(s) \subseteq T
  <2> HIDE DEF T
  <2>1. QED
    BY <1>2, <1>4, <1>5, IntervalInduction
<1>7. kept[Len(s)] = SubSeq(s, 1, Len(s))
  BY <1>2, <1>6
<1>8. QED
  BY <1>1, <1>7, SubSeqFull, Zenon

LEMMA TrimmedHasNoExtra ==
  ASSUME NEW S, NEW col \in Seq(S)
  PROVE  NoExtraBlank(RemoveExtraAsciiWhitespace(col))
<1>1. PICK kept : /\ kept \in [0..Len(col) -> Seq(S)]
                  /\ kept[0] = <<>>
                  /\ \A n \in 1..Len(col) : kept[n] = Keep(col, kept[n - 1], n)
                  /\ RemoveExtraAsciiWhitespace(col) = kept[Len(col)]
  BY TrimmedDefined
<1>2. Len(col) \in Nat /\ \A n \in 1..Len(col) : col[n] \in S
  BY LenProperties, ElementOfSeq
<1> DEFINE Good(k, n) ==
             /\ \A i \in 1..Len(k) : k[i] = Blank => i > 1 /\ k[i - 1] # Blank
             /\ k # <<>> /\ k[Len(k)] = Blank => \E j \in n + 1..Len(col) : col[j] # Blank
             /\ n > 0 /\ col[n] # Blank => k # <<>> /\ k[Len(k)] = col[n]
           T == {n \in 0..Len(col) : Good(kept[n], n)}
<1>3. 0 \in T
  <2>1. Good(<<>>, 0)
    OBVIOUS
  <2> HIDE DEF Good
  <2>2. QED
    BY <1>1, <1>2, <2>1
<1>4. ASSUME NEW n \in 1..Len(col), n - 1 \in T
      PROVE  n \in T
  <2> DEFINE k == kept[n - 1]
  <2>1. /\ Good(k, n - 1) /\ k \in Seq(S) /\ Len(k) \in Nat /\ n - 1 \in Nat
        /\ kept[n] = Keep(col, k, n) /\ n \in 0..Len(col) /\ col[n] \in S
    <3>1. n - 1 \in 0..Len(col) /\ n \in 0..Len(col) /\ n - 1 \in Nat
      BY <1>2
    <3>2. k \in Seq(S)
      BY <1>1, <3>1
    <3>3. Good(k, n - 1)
      BY <1>4
    <3>4. kept[n] = Keep(col, k, n)
      BY <1>1
    <3> HIDE DEF k, Good
    <3>5. QED
      BY <1>2, <3>1, <3>2, <3>3, <3>4, LenProperties
  <2> HIDE DEF k
  <2>2. CASE StaysIn(col, n)
    <3> DEFINE l == Append(k, col[n])
    <3>1. /\ Len(l) = Len(k) + 1 /\ l # <<>> /\ l[Len(k) + 1] = col[n]
          /\ \A i \in 1..Len(k) : l[i] = k[i]
      BY <2>1, AppendProperties
    <3>2. kept[n] = l
      BY <2>1, <2>2 DEF Keep
    <3> HIDE DEF l
    <3>3. ASSUME col[n] = Blank
          PROVE  /\ Len(k) > 0 /\ k[Len(k)] # Blank
                 /\ \E j \in n + 1..Len(col) : col[j] # Blank
      <4>1. /\ n > 1 /\ col[n - 1] # Blank
            /\ \E j \in n..Len(col) : col[j] # Blank
        BY <2>2, <3>3 DEF StaysIn
      <4>2. PICK j \in n..Len(col) : col[j] # Blank
        BY <4>1
      <4>3. j \in n + 1..Len(col)
        BY <1>2, <3>3, <4>2
      <4>4. k # <<>> /\ k[Len(k)] = col[n - 1]
        BY <2>1, <4>1
      <4>5. Len(k) > 0
        BY <2>1, <4>4, EmptySeq
      <4>6. QED
        BY <4>1, <4>2, <4>3, <4>4, <4>5
    <3>4. ASSUME NEW i \in 1..Len(l), l[i] = Blank
          PROVE  i > 1 /\ l[i - 1] # Blank
      <4>1. CASE i \in 1..Len(k)
        <5>1. i > 1 /\ k[i - 1] # Blank /\ i - 1 \in 1..Len(k)
          BY <2>1, <3>1, <3>4, <4>1
        <5>2. QED
          BY <3>1, <5>1
      <4>2. CASE i = Len(k) + 1
        <5>1. Len(k) > 0 /\ k[Len(k)] # Blank
          BY <3>1, <3>3, <3>4, <4>2
        <5>2. i > 1 /\ i - 1 = Len(k) /\ Len(k) \in 1..Len(k)
          BY <2>1, <4>2, <5>1
        <5>3. QED
          BY <3>1, <5>1, <5>2
      <4>3. QED
        BY <2>1, <3>1, <4>1, <4>2
    <3>5. l[Len(l)] = Blank => \E j \in n + 1..Len(col) : col[j] # Blank
      BY <3>1, <3>3
    <3>6. l # <<>> /\ l[Len(l)] = col[n]
      BY <3>1
    <3>7. Good(l, n)
      BY <3>4, <3>5, <3>6
    <3> HIDE DEF Good
    <3>8. QED
      BY <2>1, <3>2, <3>7
  <2>3. CASE ~StaysIn(col, n)
    <3>1. kept[n] = k /\ col[n] = Blank
      BY <2>1, <2>3 DEF Keep, StaysIn
    <3>2. ASSUME k # <<>>, k[Len(k)] = Blank
          PROVE  \E j \in n + 1..Len(col) : col[j] # Blank
      <4>1. PICK j \in (n - 1) + 1..Len(col) : col[j] # Blank
        BY <2>1, <3>2
      <4>2. j \in n + 1..Len(col)
        BY <1>2, <3>1, <4>1
      <4>3. QED
        BY <4>1, <4>2
    <3>3. Good(k, n)
      BY <2>1, <3>1, <3>2
    <3> HIDE DEF Good
    <3>4. QED
      BY <2>1, <3>1, <3>3
  <2>4. QED
    BY <2>2, <2>3
<1>5. 0..Len(col) \subseteq T
  <2> HIDE DEF T
  <2>1. QED
    BY <1>2, <1>3, <1>4, IntervalInduction
<1> DEFINE all == kept[Len(col)]
<1>6. Good(all, Len(col)) /\ all \in Seq(S) /\ Len(all) \in Nat
  <2>1. Len(col) \in 0..Len(col)
    BY <1>2
  <2>2. Good(all, Len(col)) /\ all \in Seq(S)
    BY <1>1, <1>5, <2>1
  <2> HIDE DEF all, Good
  <2>3. QED
    BY <2>2, LenProperties
<1> HIDE DEF all
<1>7. all # <<>> => all[Len(all)] # Blank
  BY <1>2, <1>6
<1>8. NoExtraBlank(all)
  <2>1. SUFFICES ASSUME NEW i \in 1..Len(all), all[i] = Blank
                 PROVE  i > 1 /\ i < Len(all) /\ all[i - 1] # Blank
    BY DEF NoExtraBlank
  <2>2. all # <<>>
    BY <1>6, EmptySeq
  <2>3. i # Len(all)
    BY <1>7, <2>1, <2>2
  <2>4. QED
    BY <1>6, <2>1, <2>3
<1>9. QED
  BY <1>1, <1>8 DEF all

\* A trimmed column is left as it is, and has no character the column had not.
LEMMA TrimmedOnce ==
  ASSUME NEW S, NEW col \in Seq(S)
  PROVE  LET trimmed == RemoveExtraAsciiWhitespace(col)
         IN  /\ RemoveExtraAsciiWhitespace(trimmed) = trimmed
             /\ ToSet(trimmed) \subseteq ToSet(col)
<1> DEFINE trimmed == RemoveExtraAsciiWhitespace(col)
<1>1. trimmed \in Seq(S) /\ NoExtraBlank(trimmed)
  BY TrimmedType, TrimmedHasNoExtra
<1>2. RemoveExtraAsciiWhitespace(trimmed) = trimmed
  <2> HIDE DEF trimmed
  <2>1. QED
    BY <1>1, NoExtraStays
<1>3. ToSet(trimmed) \subseteq ToSet(col)
  <2> DEFINE E == ToSet(col)
  <2>1. col \in Seq(E)
    <3>1. Len(col) \in Nat /\ col = [i \in 1..Len(col) |-> col[i]] /\ DOMAIN col = 1..Len(col)
      BY LenProperties
    <3>2. \A i \in 1..Len(col) : col[i] \in E
      BY <3>1 DEF ToSet
    <3> HIDE DEF E
    <3>3. QED
      BY <3>1, <3>2, IsASeq
  <2> HIDE DEF E
  <2>2. trimmed \in Seq(E)
    BY <2>1, TrimmedType
  <2> HIDE DEF trimmed
  <2>3. ToSet(trimmed) \subseteq E
    BY <2>2, ElementOfSeq, LenProperties DEF ToSet
  <2>4. QED
    BY <2>3 DEF E
<1>4. QED
  BY <1>2, <1>3

--------------------------------------------------------------------------------
\* A mapping as text (PublisherMapping).  A field is a text that is a column as it
\* stands; the keys and the values of a mapping are fields.
Field(S) == {text \in Seq(S) : /\ LineBreak \notin ToSet(text)
                               /\ Delimiter \notin ToSet(text)
                               /\ RemoveExtraAsciiWhitespace(text) = text}
Writable(S, Keys, Values) ==
  /\ LineBreak \in S /\ Delimiter \in S /\ LineBreak # Delimiter
  /\ Keys \subseteq Field(S) /\ Values \subseteq Field(S) \ {<<>>}
  /\ NoTable \notin Tables(Keys, Values)

\* A character that is no separator is a field.
LEMMA CharacterIsField ==
  ASSUME NEW S, NEW char \in S, char \notin {LineBreak, Delimiter, Blank}
  PROVE  <<char>> \in Field(S) \ {<<>>}
<1>1. RemoveExtraAsciiWhitespace(<<char>>) = <<char>>
  BY TrimmedCharacter
<1>2. ToSet(<<char>>) = {char} /\ <<char>> \in Seq(S) /\ <<char>> # <<>>
  BY DEF ToSet
<1>3. QED
  BY <1>1, <1>2 DEF Field

\* A row of a mapping is a line, and is built of its key and its value.
LEMMA RowOfPair ==
  ASSUME NEW S, NEW Keys, NEW Values, Writable(S, Keys, Values),
         NEW key \in Keys, NEW value \in Values
  PROVE  LET row == key \o <<Delimiter>> \o value
         IN  /\ row \in Seq(S) /\ LineBreak \notin ToSet(row)
             /\ BuildSucceeds(row, 2)
             /\ GetColumn(row, 0) = key /\ GetColumn(row, 1) = value
<1> DEFINE head == Append(key, Delimiter)
           row  == head \o value
<1>1. /\ key \in Seq(S) /\ value \in Seq(S) /\ value # <<>>
      /\ LineBreak \notin ToSet(key) /\ Delimiter \notin ToSet(key)
      /\ LineBreak \notin ToSet(value) /\ Delimiter \notin ToSet(value)
      /\ RemoveExtraAsciiWhitespace(key) = key
      /\ RemoveExtraAsciiWhitespace(value) = value
      /\ Delimiter \in S /\ LineBreak # Delimiter
  BY DEF Writable, Field
<1>2. key \o <<Delimiter>> = head /\ head \in Seq(S) /\ row \in Seq(S)
  BY <1>1, AppendIsConcat, AppendProperties, ConcatProperties
<1>3. LineBreak \notin ToSet(row)
  <2>1. LineBreak \notin ToSet(head)
    <3>1. ToSet(head) = ToSet(key) \cup {Delimiter}
      BY <1>1, AppendedElements
    <3>2. QED
      BY <1>1, <3>1
  <2> HIDE DEF head
  <2>2. /\ Len(head) \in Nat /\ DOMAIN head = 1..Len(head)
        /\ Len(value) \in Nat /\ DOMAIN value = 1..Len(value)
        /\ DOMAIN row = 1..Len(head) + Len(value)
    BY <1>1, <1>2, ConcatProperties, LenProperties
  <2>3. \A i \in 1..Len(head) + Len(value) :
          row[i] = IF i <= Len(head) THEN head[i] ELSE value[i - Len(head)]
    BY <1>1, <1>2, ConcatProperties
  <2> HIDE DEF row
  <2>4. \A i \in DOMAIN row : row[i] # LineBreak
    <3>1. SUFFICES ASSUME NEW i \in 1..Len(head) + Len(value) PROVE row[i] # LineBreak
      BY <2>2
    <3>2. CASE i <= Len(head)
      BY <2>1, <2>2, <2>3, <3>2 DEF ToSet
    <3>3. CASE ~(i <= Len(head))
      <4>1. i - Len(head) \in 1..Len(value) /\ row[i] = value[i - Len(head)]
        BY <2>2, <2>3, <3>3
      <4>2. QED
        BY <1>1, <2>2, <4>1 DEF ToSet
    <3>4. QED
      BY <3>2, <3>3
  <2>5. QED
    BY <2>4 DEF ToSet
<1>4. /\ BuildSucceeds(key \o <<Delimiter>> \o value, 2)
      /\ GetColumn(key \o <<Delimiter>> \o value, 0) = key
      /\ GetColumn(key \o <<Delimiter>> \o value, 1) = value
  BY <1>1, BuildsTwoColumns, Zenon
<1>5. QED
  <2> HIDE DEF head
  <2>1. QED
    BY <1>2, <1>3, <1>4, Zenon

LEMMA RowOfMapping ==
  ASSUME NEW S, NEW Keys, NEW Values, Writable(S, Keys, Values),
         NEW pair \in Keys \X Values
  PROVE  LET row == MappingRow(pair)
         IN  /\ row \in Seq(S) /\ LineBreak \notin ToSet(row)
             /\ BuildSucceeds(row, 2)
             /\ GetColumn(row, 0) = pair[1] /\ GetColumn(row, 1) = pair[2]
<1> DEFINE key   == pair[1]
           value == pair[2]
<1>1. key \in Keys /\ value \in Values
  OBVIOUS
<1>2. MappingRow(pair) = key \o <<Delimiter>> \o value
  BY Zenon DEF MappingRow
<1> HIDE DEF key, value
<1>3. LET row == key \o <<Delimiter>> \o value
      IN  /\ row \in Seq(S) /\ LineBreak \notin ToSet(row)
          /\ BuildSucceeds(row, 2)
          /\ GetColumn(row, 0) = key /\ GetColumn(row, 1) = value
  BY <1>1, RowOfPair
<1>4. QED
  BY <1>2, <1>3, Zenon DEF key, value

\* One row more, as ParsedMapping reads it, and what that means for a pair.
ReadRow(before, line) ==
  IF /\ before # NoTable
     /\ BuildSucceeds(line, 2)
     /\ CanAddElement(before, GetColumn(line, 0))
  THEN AddElement(before, GetColumn(line, 0), GetColumn(line, 1))
  ELSE NoTable
AddPair(before, pair) ==
  IF before # NoTable /\ CanAddElement(before, pair[1])
  THEN AddElement(before, pair[1], pair[2])
  ELSE NoTable

TableOf(keys, Values) == [keys -> [value : Values, is_matched : {FALSE}]]

LEMMA ATable ==
  ASSUME NEW S, NEW Keys, NEW Values, Writable(S, Keys, Values),
         NEW keys \in SUBSET Keys, NEW table \in TableOf(keys, Values)
  PROVE  table # NoTable /\ DOMAIN table = keys /\ table \in Tables(Keys, Values)
<1>1. \A k \in SUBSET Keys : NoTable \notin TableOf(k, Values)
  BY Zenon DEF Writable, Tables, TableOf
<1>2. DOMAIN table = keys
  BY DEF TableOf
<1>3. QED
  BY <1>1, <1>2 DEF Tables, TableOf

\* What AddElement leaves of a table of these keys and values.
PairAdded(table, keys, Values, key, value) ==
  /\ AddElement(table, key, value) \in TableOf(keys \cup {key}, Values)
  /\ AddElement(table, key, value)[key] = [value |-> value, is_matched |-> FALSE]
  /\ \A k \in keys : k # key => AddElement(table, key, value)[k] = table[k]

LEMMA AddedElement ==
  ASSUME NEW Values, NEW keys, NEW table \in TableOf(keys, Values),
         NEW key, NEW value \in Values
  PROVE  PairAdded(table, keys, Values, key, value)
<1> DEFINE new == [value |-> value, is_matched |-> FALSE]
           R == [value : Values, is_matched : {FALSE}]
<1>1. new \in R
  OBVIOUS
<1>2. table \in [keys -> R] /\ DOMAIN table = keys
  BY DEF TableOf
<1>3. AddElement(table, key, value) =
        [k \in keys \cup {key} |-> IF k = key THEN new ELSE table[k]]
  BY <1>2, Zenon DEF AddElement
<1>4. TableOf(keys \cup {key}, Values) = [keys \cup {key} -> R]
  BY Zenon DEF TableOf
<1> HIDE DEF new, R
<1>5. QED
  BY <1>1, <1>2, <1>3, <1>4 DEF new, PairAdded

LEMMA AddPairType ==
  ASSUME NEW S, NEW Keys, NEW Values, Writable(S, Keys, Values),
         NEW before \in Tables(Keys, Values) \cup {NoTable}, NEW pair \in Keys \X Values
  PROVE  AddPair(before, pair) \in Tables(Keys, Values) \cup {NoTable}
<1>1. CASE before = NoTable
  BY <1>1 DEF AddPair
<1>2. CASE before # NoTable
  <2>1. PICK keys \in SUBSET Keys : before \in TableOf(keys, Values)
    BY <1>2 DEF Tables, TableOf
  <2>2. AddElement(before, pair[1], pair[2]) \in TableOf(keys \cup {pair[1]}, Values)
    <3> DEFINE key   == pair[1]
               value == pair[2]
    <3>1. value \in Values
      OBVIOUS
    <3> HIDE DEF key, value
    <3>2. AddElement(before, key, value) \in TableOf(keys \cup {key}, Values)
      BY <2>1, <3>1, AddedElement DEF PairAdded
    <3>3. QED
      BY <3>2 DEF key, value
  <2>3. keys \cup {pair[1]} \in SUBSET Keys
    OBVIOUS
  <2>4. AddElement(before, pair[1], pair[2]) \in Tables(Keys, Values)
    BY <2>2, <2>3, ATable
  <2>5. QED
    BY <2>4 DEF AddPair
<1>3. QED
  BY <1>1, <1>2

LEMMA LinesOfMapping ==
  ASSUME NEW S, NEW Keys, NEW Values, Writable(S, Keys, Values),
         NEW pairs \in Seq(Keys \X Values)
  PROVE  LET lines == CompleteLines(MappingText(pairs))
         IN  /\ Len(lines) = Len(pairs)
             /\ \A i \in 1..Len(pairs) :
                  lines[i] = MappingRow(pairs[i])
<1> DEFINE Line(i) == MappingRow(pairs[i])
           lines   == [i \in 1..Len(pairs) |-> Line(i)]
           L       == {line \in Seq(S) : LineBreak \notin ToSet(line)}
<1>1. /\ Len(pairs) \in Nat /\ DOMAIN pairs = 1..Len(pairs)
      /\ \A i \in 1..Len(pairs) : pairs[i] \in Keys \X Values
  BY LenProperties, ElementOfSeq
<1>2. \A i \in 1..Len(pairs) : Line(i) \in L
  BY <1>1, RowOfMapping
<1>3. lines \in Seq(L) /\ Len(lines) = Len(pairs) /\ DOMAIN lines = 1..Len(pairs)
  <2> HIDE DEF L, Line
  <2>1. lines \in Seq(L) /\ DOMAIN lines = 1..Len(pairs)
    BY <1>1, <1>2, IsASeq
  <2> HIDE DEF lines
  <2>2. QED
    BY <1>1, <2>1, LenProperties
<1>5. MappingText(pairs) =
        FlattenSeq([i \in DOMAIN lines |-> Append(lines[i], LineBreak)])
  <2> DEFINE rows  == [i \in DOMAIN pairs |-> Append(MappingRow(pairs[i]), LineBreak)]
             ended == [i \in DOMAIN lines |-> Append(lines[i], LineBreak)]
  <2>1. \A i \in 1..Len(pairs) : lines[i] = MappingRow(pairs[i])
    OBVIOUS
  <2>2. rows = ended
    <3> HIDE DEF lines
    <3>1. QED
      BY <1>1, <1>3, <2>1
  <2>3. MappingText(pairs) = FlattenSeq(rows)
    BY Zenon DEF MappingText
  <2> HIDE DEF rows, lines
  <2>4. QED
    BY <2>2, <2>3, Zenon
<1>6. CompleteLines(MappingText(pairs)) = lines
  <2> HIDE DEF lines
  <2>1. LineBreak \in S
    BY DEF Writable
  <2>2. CompleteLines(FlattenSeq([i \in DOMAIN lines |-> Append(lines[i], LineBreak)])) = lines
    BY <1>3, <2>1, LinesOfText
  <2>3. QED
    BY <1>5, <2>2, Zenon
<1>7. \A i \in 1..Len(pairs) : lines[i] = Line(i)
  OBVIOUS
<1>8. QED
  <2> HIDE DEF lines, Line
  <2>1. QED
    BY <1>3, <1>6, <1>7, Zenon DEF Line

\* ParsedMapping adds the pairs to the table, one after another.
LEMMA MappingParses ==
  ASSUME NEW S, NEW Keys, NEW Values, Writable(S, Keys, Values),
         NEW pairs \in Seq(Keys \X Values)
  PROVE  \E t : /\ t[0] = EmptyTable
                /\ \A n \in 1..Len(pairs) : t[n] = AddPair(t[n - 1], pairs[n])
                /\ ParsedMapping(MappingText(pairs)) = t[Len(pairs)]
<1> DEFINE text  == MappingText(pairs)
           lines == CompleteLines(text)
           A     == Tables(Keys, Values) \cup {NoTable}
           D     == [x \in A \X (1..Len(pairs)) |-> AddPair(x[1], pairs[x[2]])]
           Body(f) == [n \in 0..Len(lines) |->
                         IF n = 0 THEN EmptyTable ELSE ReadRow(f[n - 1], lines[n])]
           table == CHOOSE f : f = Body(f)
<1>1. Len(pairs) \in Nat /\ \A n \in 1..Len(pairs) : pairs[n] \in Keys \X Values
  BY LenProperties, ElementOfSeq
<1>2. /\ Len(lines) = Len(pairs)
      /\ \A n \in 1..Len(pairs) : \A before :
           ReadRow(before, lines[n]) = AddPair(before, pairs[n])
  <2>1. /\ Len(lines) = Len(pairs)
        /\ \A n \in 1..Len(pairs) :
             lines[n] = MappingRow(pairs[n])
    BY LinesOfMapping
  <2> HIDE DEF lines
  <2>2. ASSUME NEW n \in 1..Len(pairs), NEW before
        PROVE  ReadRow(before, lines[n]) = AddPair(before, pairs[n])
    <3> DEFINE line == lines[n]
               pair == pairs[n]
    <3>1. /\ BuildSucceeds(line, 2)
          /\ GetColumn(line, 0) = pair[1] /\ GetColumn(line, 1) = pair[2]
      <4>1. pair \in Keys \X Values /\ line = MappingRow(pair)
        BY <1>1, <2>1
      <4> HIDE DEF pair, line
      <4>2. QED
        BY <4>1, RowOfMapping
    <3> HIDE DEF line, pair
    <3>2. ReadRow(before, line) = AddPair(before, pair)
      BY <3>1 DEF ReadRow, AddPair
    <3>3. QED
      BY <3>2 DEF line, pair
  <2>3. QED
    BY <2>1, <2>2
<1>3. EmptyTable \in A
  <2>1. EmptyTable \in TableOf({}, Values)
    BY DEF EmptyTable, TableOf
  <2>2. QED
    BY <2>1, ATable
<1>4. Steps(D, A, Len(pairs))
  BY <1>1, AddPairType DEF Steps
<1>5. PICK g \in [0..Len(pairs) -> A] :
        g[0] = EmptyTable /\ \A n \in 1..Len(pairs) : g[n] = D[<<g[n - 1], n>>]
  <2> DEFINE length == Len(pairs)
  <2> HIDE DEF A, D, length
  <2>1. length \in Nat /\ Steps(D, A, length)
    BY <1>1, <1>4 DEF length
  <2>2. \E g \in [0..length -> A] :
          g[0] = EmptyTable /\ \A n \in 1..length : g[n] = D[<<g[n - 1], n>>]
    BY <1>3, <2>1, RecursionDefines
  <2>3. QED
    BY <2>2 DEF length
<1>6. \A n \in 1..Len(pairs) : g[n] = AddPair(g[n - 1], pairs[n])
  <2> HIDE DEF A
  <2>1. \A n \in 1..Len(pairs) : n - 1 \in 0..Len(pairs)
    BY <1>1
  <2>2. QED
    BY <1>5, <2>1
<1>7. g = Body(g)
  <2> HIDE DEF A, D, lines
  <2>1. \A n \in 1..Len(pairs) : g[n] = ReadRow(g[n - 1], lines[n])
    BY <1>2, <1>6
  <2>2. QED
    BY <1>1, <1>2, <1>5, <2>1
<1>8. ParsedMapping(text) = table[Len(lines)]
  BY Zenon DEF ParsedMapping, ReadRow
<1>9. table = Body(table)
  <2> HIDE DEF Body
  <2>1. QED
    BY <1>7
<1>10. table[0] = EmptyTable /\ \A n \in 1..Len(pairs) : table[n] = ReadRow(table[n - 1], lines[n])
  <2> HIDE DEF table, lines
  <2>1. \A n \in 0..Len(lines) :
          table[n] = IF n = 0 THEN EmptyTable ELSE ReadRow(table[n - 1], lines[n])
    BY <1>9
  <2>2. \A n \in 1..Len(pairs) : n \in 0..Len(lines) /\ n # 0
    BY <1>1, <1>2
  <2>3. 0 \in 0..Len(lines)
    BY <1>1, <1>2
  <2>4. QED
    BY <2>1, <2>2, <2>3
<1> HIDE DEF table, lines, text
<1>11. \A n \in 1..Len(pairs) : table[n] = AddPair(table[n - 1], pairs[n])
  BY <1>2, <1>10
<1>12. ParsedMapping(text) = table[Len(pairs)]
  BY <1>2, <1>8
<1>13. QED
  BY <1>10, <1>11, <1>12 DEF text

DistinctKeys(pairs, n) == \A i, j \in 1..n : pairs[i][1] = pairs[j][1] => i = j

\* After n pairs the table has exactly their keys, each with its own value, unless
\* one of the keys was there before.
Holds(table, pairs, Values, n) ==
  /\ DistinctKeys(pairs, n) =>
       /\ table \in TableOf({pairs[i][1] : i \in 1..n}, Values)
       /\ \A i \in 1..n :
            table[pairs[i][1]] = [value |-> pairs[i][2], is_matched |-> FALSE]
  /\ ~DistinctKeys(pairs, n) => table = NoTable

LEMMA TableAfter ==
  ASSUME NEW S, NEW Keys, NEW Values, Writable(S, Keys, Values),
         NEW pairs \in Seq(Keys \X Values), NEW t, t[0] = EmptyTable,
         \A n \in 1..Len(pairs) : t[n] = AddPair(t[n - 1], pairs[n])
  PROVE  \A n \in 0..Len(pairs) : Holds(t[n], pairs, Values, n)
<1> DEFINE KeysOf(n) == {pairs[i][1] : i \in 1..n}
           Entry(i) == [value |-> pairs[i][2], is_matched |-> FALSE]
           Good(n) == /\ DistinctKeys(pairs, n) =>
                           /\ t[n] \in TableOf(KeysOf(n), Values)
                           /\ \A i \in 1..n : t[n][pairs[i][1]] = Entry(i)
                      /\ ~DistinctKeys(pairs, n) => t[n] = NoTable
           T == {n \in 0..Len(pairs) : Good(n)}
<1>1. Len(pairs) \in Nat /\ \A n \in 1..Len(pairs) : pairs[n] \in Keys \X Values
  BY LenProperties, ElementOfSeq
<1>2. 0 \in T
  <2>1. EmptyTable \in TableOf({}, Values)
    BY DEF EmptyTable, TableOf
  <2>2. KeysOf(0) = {} /\ DistinctKeys(pairs, 0)
    BY DEF DistinctKeys
  <2>3. 0 \in 0..Len(pairs) /\ ~(\E i : i \in 1..0)
    BY <1>1
  <2>4. t[0] \in TableOf(KeysOf(0), Values)
    <3> HIDE DEF KeysOf
    <3>1. QED
      BY <2>1, <2>2
  <2>5. Good(0)
    <3> HIDE DEF KeysOf, Entry
    <3>1. QED
      BY <2>2, <2>3, <2>4
  <2> HIDE DEF Good
  <2>6. QED
    BY <2>3, <2>5
<1>3. ASSUME NEW n \in 1..Len(pairs), n - 1 \in T
      PROVE  n \in T
  <2> DEFINE pair == pairs[n]
             before == t[n - 1]
  <2>1. /\ Good(n - 1) /\ t[n] = AddPair(before, pair) /\ pair \in Keys \X Values
        /\ \A i \in 1..n : i \in 1..n - 1 \/ i = n
        /\ \A i \in 1..n - 1 : i \in 1..n /\ i # n
    BY <1>1, <1>3
  <2>2. KeysOf(n) = KeysOf(n - 1) \cup {pair[1]} /\ KeysOf(n - 1) \in SUBSET Keys
    <3>1. \A i \in 1..n - 1 : pairs[i][1] \in Keys
      BY <1>1
    <3>2. QED
      BY <2>1, <3>1
  <2>3. CASE ~DistinctKeys(pairs, n - 1)
    <3>1. t[n] = NoTable
      BY <2>1, <2>3 DEF AddPair
    <3>2. ~DistinctKeys(pairs, n)
      BY <2>1, <2>3 DEF DistinctKeys
    <3>3. QED
      BY <1>1, <3>1, <3>2
  <2>4. CASE DistinctKeys(pairs, n - 1)
    <3>1. /\ before \in TableOf(KeysOf(n - 1), Values)
          /\ \A i \in 1..n - 1 : before[pairs[i][1]] = Entry(i)
      BY <2>1, <2>4
    <3>2. before # NoTable /\ DOMAIN before = KeysOf(n - 1)
      <4> HIDE DEF before, KeysOf
      <4>1. QED
        BY <2>2, <3>1, ATable
    <3>3. DistinctKeys(pairs, n) <=> pair[1] \notin KeysOf(n - 1)
      <4>1. ASSUME pair[1] \in KeysOf(n - 1) PROVE ~DistinctKeys(pairs, n)
        <5>1. PICK i \in 1..n - 1 : pair[1] = pairs[i][1]
          BY <4>1
        <5>2. i \in 1..n /\ n \in 1..n /\ i # n
          BY <2>1
        <5>3. QED
          BY <5>1, <5>2 DEF DistinctKeys
      <4>2. ASSUME pair[1] \notin KeysOf(n - 1), NEW i \in 1..n, NEW j \in 1..n,
                   pairs[i][1] = pairs[j][1]
            PROVE  i = j
        <5>1. \A k \in 1..n - 1 : pairs[k][1] # pairs[n][1]
          BY <4>2
        <5>2. CASE i \in 1..n - 1 /\ j \in 1..n - 1
          BY <2>4, <4>2, <5>2 DEF DistinctKeys
        <5>3. CASE i = n \/ j = n
          BY <2>1, <4>2, <5>1, <5>3
        <5>4. QED
          BY <2>1, <5>2, <5>3
      <4>3. ASSUME pair[1] \notin KeysOf(n - 1) PROVE DistinctKeys(pairs, n)
        <5> HIDE DEF pair, KeysOf
        <5>1. QED
          BY <4>2, <4>3 DEF DistinctKeys
      <4>4. QED
        BY <4>1, <4>3
    <3>4. CASE pair[1] \in KeysOf(n - 1)
      <4>1. t[n] = NoTable
        BY <2>1, <3>2, <3>4 DEF AddPair, CanAddElement
      <4>2. QED
        BY <1>1, <3>3, <3>4, <4>1
    <3>5. CASE pair[1] \notin KeysOf(n - 1)
      <4> DEFINE more == AddElement(before, pair[1], pair[2])
      <4>1. t[n] = more
        BY <2>1, <3>2, <3>5 DEF AddPair, CanAddElement
      <4>2. /\ more \in TableOf(KeysOf(n - 1) \cup {pair[1]}, Values)
            /\ more[pair[1]] = [value |-> pair[2], is_matched |-> FALSE]
            /\ \A k \in KeysOf(n - 1) : k # pair[1] => more[k] = before[k]
        <5> DEFINE keys == KeysOf(n - 1)
               key  == pair[1]
               value == pair[2]
        <5>1. before \in TableOf(keys, Values) /\ value \in Values
          BY <2>1, <3>1
        <5> HIDE DEF keys, before, key, value
        <5>2. /\ AddElement(before, key, value) \in TableOf(keys \cup {key}, Values)
              /\ AddElement(before, key, value)[key] = [value |-> value, is_matched |-> FALSE]
              /\ \A k \in keys : k # key => AddElement(before, key, value)[k] = before[k]
          <6>1. PairAdded(before, keys, Values, key, value)
            BY <5>1, AddedElement
          <6>2. QED
            BY <6>1, Zenon DEF PairAdded
        <5>3. QED
          BY <5>2, Zenon DEF keys, key, value
      <4> HIDE DEF more
      <4>3. ASSUME NEW i \in 1..n
            PROVE  more[pairs[i][1]] = Entry(i)
        <5>1. CASE i = n
          BY <4>2, <5>1
        <5>2. CASE i \in 1..n - 1
          <6>1. pairs[i][1] \in KeysOf(n - 1) /\ pairs[i][1] # pair[1]
            BY <3>5, <5>2
          <6> HIDE DEF Entry, before, KeysOf
          <6>2. QED
            BY <3>1, <4>2, <5>2, <6>1
        <5>3. QED
          BY <2>1, <5>1, <5>2
      <4>4. t[n] \in TableOf(KeysOf(n), Values) /\ \A i \in 1..n : t[n][pairs[i][1]] = Entry(i)
        <5> HIDE DEF KeysOf, Entry
        <5>1. QED
          BY <2>2, <4>1, <4>2, <4>3
      <4>5. QED
        <5> HIDE DEF KeysOf, Entry
        <5>1. QED
          BY <1>1, <3>3, <3>5, <4>4
    <3>6. QED
      BY <3>4, <3>5
  <2>5. QED
    BY <2>3, <2>4
<1>4. 0..Len(pairs) \subseteq T
  <2> HIDE DEF T
  <2>1. QED
    BY <1>1, <1>2, <1>3, IntervalInduction
<1>5. QED
  BY <1>4 DEF Holds

\* The table of the pairs: none, if a key is there twice.
ReadsAs(pairs, table) ==
  /\ DistinctKeys(pairs, Len(pairs)) =>
       /\ table # NoTable
       /\ DOMAIN table = {pairs[i][1] : i \in 1..Len(pairs)}
       /\ \A i \in 1..Len(pairs) :
            table[pairs[i][1]] = [value |-> pairs[i][2], is_matched |-> FALSE]
       /\ table = [key \in DOMAIN table |-> table[key]]
  /\ ~DistinctKeys(pairs, Len(pairs)) => table = NoTable

\* The text of the pairs is read back as the table of the pairs.
LEMMA PairsReadBack ==
  ASSUME NEW S, NEW Keys, NEW Values, Writable(S, Keys, Values),
         NEW pairs \in Seq(Keys \X Values)
  PROVE  ReadsAs(pairs, ParsedMapping(MappingText(pairs)))
<1> DEFINE n == Len(pairs)
           keys == {pairs[i][1] : i \in 1..n}
           table == ParsedMapping(MappingText(pairs))
<1>1. n \in Nat /\ \A i \in 1..n : pairs[i] \in Keys \X Values
  BY LenProperties, ElementOfSeq
<1>2. PICK t : /\ t[0] = EmptyTable
               /\ \A i \in 1..n : t[i] = AddPair(t[i - 1], pairs[i])
               /\ table = t[n]
  BY MappingParses
<1>3. /\ DistinctKeys(pairs, n) =>
           /\ table \in TableOf(keys, Values)
           /\ \A i \in 1..n : table[pairs[i][1]] = [value |-> pairs[i][2], is_matched |-> FALSE]
      /\ ~DistinctKeys(pairs, n) => table = NoTable
  <2>1. n \in 0..n
    BY <1>1
  <2> HIDE DEF table
  <2>2. Holds(t[n], pairs, Values, n)
    BY <1>2, <2>1, TableAfter
  <2>3. QED
    BY <1>2, <2>2, Zenon DEF Holds
<1>4. keys \in SUBSET Keys
  BY <1>1
<1> HIDE DEF table, keys, n
<1>5. ASSUME table \in TableOf(keys, Values)
      PROVE  /\ table # NoTable /\ DOMAIN table = keys
             /\ table = [key \in DOMAIN table |-> table[key]]
  <2>1. table # NoTable /\ DOMAIN table = keys
    BY <1>4, <1>5, ATable
  <2>2. table = [key \in DOMAIN table |-> table[key]]
    BY <1>5 DEF TableOf
  <2>3. QED
    BY <2>1, <2>2
<1>6. QED
  BY <1>3, <1>5, Zenon DEF ReadsAs, table, keys, n
================================================================================
