--------------------------- MODULE UhmReaderProofs ----------------------------
(* Proofs about UhmReader, for every recording, damaged file and fault: the   *)
(* reader keeps its place, what was recorded loads as it was, no message is   *)
(* put together from parts, and passes over the lines are passes over pairs.  *)
(*                                                                            *)
(* The parser looks for the next line of some kind, which is a minimum; that  *)
(* there is one is induction, and is had from the library's theorem that sets *)
(* of finite sets have minimal elements.                                      *)
EXTENDS UhmReader, FiniteSetTheorems, SequenceTheorems, WellFoundedInduction,
        TLAPS

-------------------------------------------------------------------------------
(* The next line of a kind.                                                   *)

\* A set of numbers has a least one: the shortest interval 1 .. x.
LEMMA MinExists ==
    ASSUME NEW S \in SUBSET Nat, S # {}
    PROVE  \E x \in S : \A y \in S : x <= y
<1> DEFINE T == {1 .. x : x \in S}
<1>1. IsWellFoundedOn(StrictSubsetOrdering(Nat), FiniteSubsetsOf(Nat))
  BY FS_StrictSubsetOrderingWellFounded
<1>2. T \subseteq FiniteSubsetsOf(Nat) /\ T # {}
  <2>1. ASSUME NEW x \in S PROVE 1 .. x \in FiniteSubsetsOf(Nat)
    BY FS_Interval DEF FiniteSubsetsOf
  <2>2. QED BY <2>1
<1>3. PICK t \in T : \A u \in T : ~ (<<u, t>> \in StrictSubsetOrdering(Nat))
  BY <1>1, <1>2, WFMin, Zenon
<1>4. PICK x \in S : t = 1 .. x
  BY <1>3
<1>5. ASSUME NEW y \in S PROVE x <= y
  <2>1. ~ (<<1 .. y, 1 .. x>> \in StrictSubsetOrdering(Nat))
    BY <1>3, <1>4
  <2>2. CASE y < x
    <3>1. 1 .. y \subseteq 1 .. x /\ x \in 1 .. x /\ x \notin 1 .. y /\ 1 .. x \subseteq Nat
      BY <2>2
    <3>2. QED BY <2>1, <3>1 DEF StrictSubsetOrdering
  <2>3. QED BY <2>2
<1>6. QED BY <1>5

\* Min finds it.
LEMMA MinIsLeast ==
    ASSUME NEW S \in SUBSET Nat, S # {}
    PROVE  Min(S) \in S /\ \A y \in S : Min(S) <= y
BY MinExists DEF Min

\* A least element is the minimum.
LEMMA LeastIsMin ==
    ASSUME NEW S \in SUBSET Nat, NEW x \in S, \A y \in S : x <= y
    PROVE  Min(S) = x
<1> DEFINE m == Min(S)
<1>1. m \in S /\ m <= x
  BY MinIsLeast
<1>2. x <= m /\ x \in Nat /\ m \in Nat
  BY <1>1
<1> HIDE DEF m
<1>3. m = x
  BY <1>1, <1>2
<1>4. QED BY <1>3 DEF m

\* A run of lines of one direction ends at the first other line, at or behind
\* its start.
LEMMA StopIs ==
    ASSUME NEW lines \in Seq(Line), NEW d, NEW i \in 1 .. Len(lines) + 1
    PROVE  /\ Stop(lines, d, i) \in i .. Len(lines) + 1
           /\ \/ Stop(lines, d, i) = Len(lines) + 1
              \/ lines[Stop(lines, d, i)].mark # d
           /\ \A k \in i .. Stop(lines, d, i) - 1 : lines[k].mark = d
<1> DEFINE S == {k \in i .. Len(lines) + 1 : k > Len(lines) \/ lines[k].mark # d}
<1>1. S \in SUBSET Nat /\ Len(lines) + 1 \in S
  OBVIOUS
<1>2. Min(S) \in S /\ \A y \in S : Min(S) <= y
  BY <1>1, MinIsLeast
<1>3. Stop(lines, d, i) = Min(S)
  BY DEF Stop
<1> DEFINE m == Min(S)
<1> HIDE DEF m
<1>4. m \in S /\ \A y \in S : m <= y
  BY <1>2 DEF m
<1>5. ASSUME NEW k \in i .. m - 1 PROVE lines[k].mark = d
  <2>1. k \notin S /\ k \in i .. Len(lines) + 1
    BY <1>4
  <2>2. QED BY <2>1
<1>6. QED
  BY <1>3, <1>4, <1>5 DEF m

-------------------------------------------------------------------------------
(* The parser.                                                                *)

\* What Finished() finds in a line.
LEMMA FinishedIs ==
    ASSUME NEW lines, NEW k, Finished(lines, k).ok
    PROVE  /\ k > Len(lines) \/ lines[k] = End
           /\ Finished(lines, k) =
                 [ok |-> TRUE, next |-> IF k > Len(lines) THEN k ELSE k + 1,
                  headers |-> <<>>, body |-> <<>>]
BY DEF Finished, Failed

LEMMA FinishedType ==
    ASSUME NEW lines, NEW k \in Nat
    PROVE  Finished(lines, k) \in
              [ok : BOOLEAN, next : Int, headers : {<<>>}, body : {<<>>}]
<1>1. CASE k > Len(lines) \/ lines[k] = End
  <2>1. Finished(lines, k).ok
    BY <1>1 DEF Finished, Failed
  <2>2. PICK n \in Int : n = IF k > Len(lines) THEN k ELSE k + 1
    <3>1. k \in Int /\ k + 1 \in Int
      OBVIOUS
    <3>2. QED BY <3>1
  <2>3. Finished(lines, k) = [ok |-> TRUE, next |-> n, headers |-> <<>>, body |-> <<>>]
    BY <2>1, <2>2, FinishedIs
  <2>4. QED BY <2>3
<1>2. CASE ~(k > Len(lines) \/ lines[k] = End)
  BY <1>2 DEF Finished, Failed
<1>3. QED BY <1>1, <1>2

\* Texts of one length are equal when they are text by text.
LEMMA SameTexts ==
    ASSUME NEW s \in Seq(Text), NEW t \in Seq(Text), NEW l,
           Len(s) = l, Len(t) = l,
           \A j \in 1 .. l : s[j] = t[j]
    PROVE  s = t
  BY SeqEqual

\* Texts() of lines is a sequence of texts.
LEMMA TextsType ==
    ASSUME NEW lines \in Seq(Line), NEW i \in 1 .. Len(lines) + 1,
           NEW k \in i .. Len(lines) + 1
    PROVE  /\ Texts(lines, i, k) \in Seq(Text)
           /\ Len(Texts(lines, i, k)) = k - i
           /\ \A j \in 1 .. k - i : Texts(lines, i, k)[j] = lines[i + j - 1].text
<1>1. ASSUME NEW j \in 1 .. k - i PROVE lines[i + j - 1].text \in Text
  <2>1. i + j - 1 \in 1 .. Len(lines)
    OBVIOUS
  <2>2. lines[i + j - 1] \in Line
    BY <2>1, ElementOfSeq
  <2>3. QED BY <2>2 DEF Line
<1>2. k - i \in Nat
  OBVIOUS
<1>3. QED
  BY <1>1, <1>2 DEF Texts

\* A block is headers up to line i and, behind a blank line, a body up to
\* line k, which ends the lines or the block.  Headers end behind a colon.
LEMMA ParsedIs ==
    ASSUME NEW lines \in Seq(Line), NEW d, NEW start \in 1 .. Len(lines) + 1,
           trace_to_soup_message_headers_and_body(lines, d, start).ok
    PROVE  LET parsed == trace_to_soup_message_headers_and_body(lines, d, start)
           IN  \E i \in start .. Len(lines) + 1 : \E k \in i .. Len(lines) + 1 :
                  /\ i = start \/ Colon(lines[i - 1].text)
                  /\ k > Len(lines) \/ lines[k] = End
                  /\ parsed.next = IF k > Len(lines) THEN k ELSE k + 1
                  /\ parsed.headers = Texts(lines, start, i)
                  /\ \/ k = i /\ parsed.body = <<>>
                     \/ /\ i < k
                        /\ lines[i].text = Blank
                        /\ \A j \in i .. k - 1 : lines[j].mark = d
                        /\ parsed.body = Texts(lines, i + 1, k)
<1> DEFINE starts == {start} \cup
                     {j + 1 : j \in {k \in start .. Len(lines) : Colon(lines[k].text)}}
           Ends(k) == k > Len(lines) \/ lines[k].mark # d \/ lines[k].text = Blank
           S == {k \in starts : Ends(k)}
           i == Min(S)
           block == IF i <= Len(lines) /\ lines[i].mark = d THEN body(lines, d, i + 1)
                    ELSE Finished(lines, i)
           parsed == trace_to_soup_message_headers_and_body(lines, d, start)
<1>1. parsed = IF (\A k \in starts : ~Ends(k)) \/
                  \E k \in start .. i - 1 : Class[lines[k].text] = "url"
               THEN Failed
               ELSE [block EXCEPT !.headers = Texts(lines, start, i)]
  BY DEF trace_to_soup_message_headers_and_body
<1>2. S # {} /\ parsed = [block EXCEPT !.headers = Texts(lines, start, i)]
  <2> DEFINE fails == (\A k \in starts : ~Ends(k)) \/
                      \E k \in start .. i - 1 : Class[lines[k].text] = "url"
  <2>1. fails => ~parsed.ok
    <3> HIDE DEF starts, Ends, i, block, parsed
    <3>1. QED BY <1>1 DEF Failed
  <2>2. ~fails
    BY <2>1
  <2>3. parsed = [block EXCEPT !.headers = Texts(lines, start, i)]
    <3> HIDE DEF starts, Ends, i, block, parsed
    <3>1. QED BY <1>1, <2>2
  <2>4. \E k \in starts : Ends(k)
    BY <2>2
  <2> HIDE DEF fails, starts, Ends, block, parsed
  <2>5. QED BY <2>3, <2>4
<1>3. starts \subseteq start .. Len(lines) + 1
  OBVIOUS
<1>4. i \in S
  <2>1. S \in SUBSET Nat
    BY <1>3
  <2>2. QED BY <1>2, <2>1, MinIsLeast
<1>5. PICK e \in start .. Len(lines) + 1 :
         e = i /\ Ends(e) /\ (e = start \/ Colon(lines[e - 1].text))
  <2> HIDE DEF i
  <2>1. i \in starts /\ Ends(i)
    BY <1>4
  <2>2. i \in start .. Len(lines) + 1
    BY <1>3, <2>1
  <2>3. i = start \/ Colon(lines[i - 1].text)
    BY <2>1
  <2>4. QED BY <2>1, <2>2, <2>3
<1> HIDE DEF S, i, starts
<1>6. CASE e <= Len(lines) /\ lines[e].mark = d
  <2> DEFINE k == Stop(lines, d, e + 1)
  <2>1. lines[e].text = Blank
    BY <1>5, <1>6
  <2>2. k \in e + 1 .. Len(lines) + 1
    BY <1>6, StopIs
  <2>3. block = [Finished(lines, k) EXCEPT !.body = Texts(lines, e + 1, k)]
    BY <1>5, <1>6 DEF body
  <2>4. Finished(lines, k).ok
    <3>1. CASE k > Len(lines)
      BY <3>1 DEF Finished, Failed
    <3>2. CASE ~(k > Len(lines)) /\ lines[k] = End
      BY <3>2 DEF Finished, Failed
    <3>3. CASE ~(k > Len(lines)) /\ lines[k] # End
      BY <1>2, <2>3, <3>3 DEF Finished, Failed
    <3>4. QED BY <3>1, <3>2, <3>3
  <2>5. \A j \in e .. k - 1 : lines[j].mark = d
    <3>1. \A j \in e + 1 .. k - 1 : lines[j].mark = d
      BY <1>6, StopIs
    <3> HIDE DEF k
    <3>2. QED BY <1>6, <2>2, <3>1
  <2> HIDE DEF k
  <2>6. /\ parsed.headers = Texts(lines, start, e)
        /\ parsed.body = Texts(lines, e + 1, k)
        /\ parsed.next = IF k > Len(lines) THEN k ELSE k + 1
        /\ k > Len(lines) \/ lines[k] = End
    BY <1>2, <1>5, <2>3, <2>4, FinishedIs
  <2>7. e < k /\ k \in e .. Len(lines) + 1
    BY <2>2
  <2>8. QED BY <1>5, <2>1, <2>5, <2>6, <2>7
<1>7. CASE ~(e <= Len(lines) /\ lines[e].mark = d)
  <2>1. block = Finished(lines, e)
    BY <1>5, <1>7
  <2>2. Finished(lines, e).ok
    <3>1. CASE e > Len(lines)
      BY <3>1 DEF Finished, Failed
    <3>2. CASE ~(e > Len(lines)) /\ lines[e] = End
      BY <3>2 DEF Finished, Failed
    <3>3. CASE ~(e > Len(lines)) /\ lines[e] # End
      BY <1>2, <2>1, <3>3 DEF Finished, Failed
    <3>4. QED BY <3>1, <3>2, <3>3
  <2>3. /\ parsed.headers = Texts(lines, start, e)
        /\ parsed.body = <<>>
        /\ parsed.next = IF e > Len(lines) THEN e ELSE e + 1
        /\ e > Len(lines) \/ lines[e] = End
    BY <1>2, <1>5, <2>1, <2>2, FinishedIs
  <2>4. e \in e .. Len(lines) + 1
    BY <1>5
  <2>5. QED BY <1>5, <2>3, <2>4
<1>8. QED BY <1>6, <1>7
-------------------------------------------------------------------------------
(* The end of the file.                                                       *)

\* Lines with one more, the one that ends a block.
LEMMA MoreIs ==
    ASSUME NEW lines \in Seq(Line)
    PROVE  /\ Append(lines, End) \in Seq(Line)
           /\ Len(Append(lines, End)) = Len(lines) + 1
           /\ \A k \in 1 .. Len(lines) : Append(lines, End)[k] = lines[k]
           /\ Append(lines, End)[Len(lines) + 1] = End
           /\ End.mark \notin {">", "<"} /\ End.text = Blank /\ ~Colon(Blank)
<1>1. End \in Line
  BY ReaderAssumption DEF End, Line, Mark
<1>2. End.mark \notin {">", "<"} /\ End.text = Blank
  BY Zenon DEF End
<1>3. ~Colon(Blank)
  BY ReaderAssumption DEF Colon
<1> HIDE DEF End
<1>4. /\ Append(lines, End) \in Seq(Line)
      /\ Len(Append(lines, End)) = Len(lines) + 1
      /\ \A k \in 1 .. Len(lines) : Append(lines, End)[k] = lines[k]
      /\ Append(lines, End)[Len(lines) + 1] = End
  BY <1>1, AppendProperties
<1>5. QED BY <1>2, <1>3, <1>4

\* A run of lines of one direction ends at the line that was added, at last.
LEMMA StopOfMore ==
    ASSUME NEW lines \in Seq(Line), NEW d \in {">", "<"},
           NEW i \in 1 .. Len(lines) + 1
    PROVE  Stop(Append(lines, End), d, i) = Stop(lines, d, i)
<1> DEFINE more == Append(lines, End)
           m == Stop(lines, d, i)
           T == {k \in i .. Len(more) + 1 : k > Len(more) \/ more[k].mark # d}
<1>1. /\ more \in Seq(Line) /\ Len(more) = Len(lines) + 1
      /\ \A k \in 1 .. Len(lines) : more[k] = lines[k]
      /\ more[Len(lines) + 1].mark \notin {">", "<"}
      /\ Len(lines) \in Nat
  BY MoreIs
<1>2. /\ m \in i .. Len(lines) + 1
      /\ m = Len(lines) + 1 \/ lines[m].mark # d
      /\ \A k \in i .. m - 1 : lines[k].mark = d
  BY StopIs
<1>3. Stop(more, d, i) = Min(T)
  BY DEF Stop
<1> HIDE DEF more, m
<1>4. T \in SUBSET Nat
  BY <1>1
<1>5. m \in T
  <2>1. m \in i .. Len(more) + 1 /\ m \in 1 .. Len(lines) + 1
    BY <1>1, <1>2
  <2>2. CASE m = Len(lines) + 1
    BY <1>1, <2>1, <2>2
  <2>3. CASE m # Len(lines) + 1
    <3>1. m \in 1 .. Len(lines) /\ lines[m].mark # d
      BY <1>1, <1>2, <2>1, <2>3
    <3>2. QED BY <1>1, <2>1, <3>1
  <2>4. QED BY <2>2, <2>3
<1>6. ASSUME NEW y \in T PROVE m <= y
  <2>1. SUFFICES ASSUME y < m PROVE FALSE
    BY <1>1, <1>2
  <2>2. y \in i .. m - 1 /\ y \in 1 .. Len(lines)
    BY <1>1, <1>2, <2>1
  <2>3. more[y].mark = d /\ ~(y > Len(more))
    BY <1>1, <1>2, <2>2
  <2>4. QED BY <2>3
<1>7. Min(T) = m
  BY <1>4, <1>5, <1>6, LeastIsMin
<1>8. QED BY <1>3, <1>7 DEF more, m

\* A block ends with the lines as it does with the line that was added.
LEMMA FinishedOfMore ==
    ASSUME NEW lines \in Seq(Line), NEW k \in 1 .. Len(lines) + 1
    PROVE  LET a == Finished(lines, k)
               b == Finished(Append(lines, End), k)
           IN  \/ b = a
               \/ /\ a = [ok |-> TRUE, next |-> k, headers |-> <<>>, body |-> <<>>]
                  /\ b = [ok |-> TRUE, next |-> k + 1, headers |-> <<>>,
                          body |-> <<>>]
                  /\ k = Len(lines) + 1
<1> DEFINE more == Append(lines, End)
<1>1. /\ more \in Seq(Line) /\ Len(more) = Len(lines) + 1
      /\ \A j \in 1 .. Len(lines) : more[j] = lines[j]
      /\ more[Len(lines) + 1] = End
      /\ Len(lines) \in Nat
  BY MoreIs
<1> HIDE DEF more
<1>2. CASE k = Len(lines) + 1
  <2>1. k > Len(lines) /\ ~(k > Len(more)) /\ more[k] = End
    BY <1>1, <1>2
  <2>2. QED BY <1>2, <2>1 DEF Finished, Failed, more
<1>3. CASE k # Len(lines) + 1
  <2>1. ~(k > Len(lines)) /\ ~(k > Len(more)) /\ more[k] = lines[k]
    BY <1>1, <1>3
  <2>2. Finished(more, k) = Finished(lines, k)
    BY <2>1 DEF Finished
  <2>3. QED BY <2>2 DEF more
<1>4. QED BY <1>2, <1>3

\* Texts() of lines do not depend on what follows them.
LEMMA TextsOfMore ==
    ASSUME NEW lines \in Seq(Line), NEW i \in 1 .. Len(lines) + 1,
           NEW k \in i .. Len(lines) + 1
    PROVE  Texts(Append(lines, End), i, k) = Texts(lines, i, k)
<1> DEFINE more == Append(lines, End)
<1>1. \A j \in 1 .. Len(lines) : more[j] = lines[j]
  BY MoreIs
<1> HIDE DEF more
<1>2. \A j \in 1 .. k - i : i + j - 1 \in 1 .. Len(lines)
  OBVIOUS
<1>3. \A j \in 1 .. k - i : more[i + j - 1] = lines[i + j - 1]
  BY <1>1, <1>2
<1>4. Texts(more, i, k) = Texts(lines, i, k)
  BY <1>3 DEF Texts
<1>5. QED BY <1>4 DEF more

\* A half is parsed in the same way whether its last block has the line that
\* ends it or the lines end there; all that differs is what follows.
LEMMA BlockOfMore ==
    ASSUME NEW lines \in Seq(Line), NEW d \in {">", "<"},
           NEW start \in 1 .. Len(lines) + 1
    PROVE  LET a == trace_to_soup_message_headers_and_body(lines, d, start)
               b == trace_to_soup_message_headers_and_body(Append(lines, End), d, start)
           IN  /\ b.ok = a.ok /\ b.headers = a.headers /\ b.body = a.body
               /\ \/ b.next = a.next
                  \/ a.next = Len(lines) + 1 /\ b.next = Len(lines) + 2
<1> DEFINE more == Append(lines, End)
           starts(l) == {start} \cup
                        {j + 1 : j \in {k \in start .. Len(l) : Colon(l[k].text)}}
           Ends(l, k) == k > Len(l) \/ l[k].mark # d \/ l[k].text = Blank
           i(l) == Min({k \in starts(l) : Ends(l, k)})
           block(l) == IF i(l) <= Len(l) /\ l[i(l)].mark = d
                       THEN body(l, d, i(l) + 1) ELSE Finished(l, i(l))
           fails(l) == (\A k \in starts(l) : ~Ends(l, k)) \/
                       \E k \in start .. i(l) - 1 : Class[l[k].text] = "url"
           parsed(l) == trace_to_soup_message_headers_and_body(l, d, start)
<1>1. \A l : parsed(l) = IF fails(l) THEN Failed
                         ELSE [block(l) EXCEPT !.headers = Texts(l, start, i(l))]
  BY DEF trace_to_soup_message_headers_and_body
<1>2. /\ more \in Seq(Line) /\ Len(more) = Len(lines) + 1
      /\ \A k \in 1 .. Len(lines) : more[k] = lines[k]
      /\ more[Len(lines) + 1] = End
      /\ End.mark \notin {">", "<"} /\ End.text = Blank /\ ~Colon(Blank)
      /\ Len(lines) \in Nat
  BY MoreIs
<1> HIDE DEF more
<1>3. starts(more) = starts(lines)
  <2>1. {k \in start .. Len(more) : Colon(more[k].text)} =
           {k \in start .. Len(lines) : Colon(lines[k].text)}
    <3>1. ASSUME NEW k \in start .. Len(more), Colon(more[k].text)
          PROVE  k \in start .. Len(lines) /\ Colon(lines[k].text)
      <4>1. k # Len(lines) + 1
        BY <1>2, <3>1
      <4>2. k \in start .. Len(lines) /\ k \in 1 .. Len(lines)
        BY <1>2, <4>1
      <4>3. QED BY <1>2, <3>1, <4>2
    <3>2. ASSUME NEW k \in start .. Len(lines), Colon(lines[k].text)
          PROVE  k \in start .. Len(more) /\ Colon(more[k].text)
      <4>1. k \in 1 .. Len(lines) /\ k \in start .. Len(more)
        BY <1>2
      <4>2. QED BY <1>2, <3>2, <4>1
    <3>3. QED BY <3>1, <3>2
  <2>2. QED BY <2>1
<1>4. starts(lines) \subseteq start .. Len(lines) + 1
  BY <1>2
<1>5. \A k \in starts(lines) : Ends(more, k) <=> Ends(lines, k)
  <2>1. ASSUME NEW k \in start .. Len(lines) + 1
        PROVE  Ends(more, k) <=> Ends(lines, k)
    <3>1. CASE k = Len(lines) + 1
      <4>1. k > Len(lines) /\ more[k].text = Blank
        BY <1>2, <3>1
      <4>2. QED BY <4>1
    <3>2. CASE k # Len(lines) + 1
      <4>1. k \in 1 .. Len(lines) /\ ~(k > Len(lines)) /\ ~(k > Len(more))
        BY <1>2, <3>2
      <4>2. more[k] = lines[k]
        BY <1>2, <4>1
      <4>3. QED BY <4>1, <4>2
    <3>3. QED BY <3>1, <3>2
  <2>2. QED BY <1>4, <2>1
<1>6. {k \in starts(more) : Ends(more, k)} = {k \in starts(lines) : Ends(lines, k)}
  <2> HIDE DEF starts, Ends
  <2>1. QED BY <1>3, <1>5
<1>7. PICK e : e = i(lines)
  OBVIOUS
<1>8. i(more) = e
  BY <1>6, <1>7
<1>9. CASE \A k \in starts(lines) : ~Ends(lines, k)
  <2>1. \A k \in starts(more) : ~Ends(more, k)
    <3> HIDE DEF starts, Ends
    <3>1. QED BY <1>3, <1>5, <1>9
  <2>2. fails(lines) /\ fails(more)
    BY <1>9, <2>1
  <2>3. parsed(lines) = Failed /\ parsed(more) = Failed
    <3> HIDE DEF fails, block, i, parsed
    <3>1. QED BY <1>1, <2>2
  <2>4. QED BY <2>3 DEF more
<1>10. CASE ~(\A k \in starts(lines) : ~Ends(lines, k))
  <2>1. e \in start .. Len(lines) + 1 /\ Ends(lines, e)
    <3> DEFINE S == {k \in starts(lines) : Ends(lines, k)}
    <3>1. S # {} /\ S \subseteq start .. Len(lines) + 1
      <4> HIDE DEF starts, Ends
      <4>1. QED BY <1>4, <1>10
    <3>2. S \in SUBSET Nat
      BY <3>1
    <3>3. e = Min(S)
      BY <1>7
    <3> HIDE DEF S
    <3>4. e \in S
      BY <3>1, <3>2, <3>3, MinIsLeast
    <3>5. QED BY <3>1, <3>4 DEF S
  <2>2. fails(more) <=> fails(lines)
    <3>1. ~(\A k \in starts(more) : ~Ends(more, k))
      <4> HIDE DEF starts, Ends
      <4>1. QED BY <1>3, <1>5, <1>10
    <3>2. \A k \in start .. e - 1 : more[k] = lines[k]
      <4>1. \A k \in start .. e - 1 : k \in 1 .. Len(lines)
        BY <1>2, <2>1
      <4>2. QED BY <1>2, <4>1
    <3> HIDE DEF starts, Ends, i
    <3>3. fails(more) <=> \E k \in start .. e - 1 : Class[more[k].text] = "url"
      BY <1>8, <3>1
    <3>4. fails(lines) <=> \E k \in start .. e - 1 : Class[lines[k].text] = "url"
      BY <1>7, <1>10
    <3>5. QED BY <3>2, <3>3, <3>4
  <2>3. Texts(more, start, e) = Texts(lines, start, e)
    BY <2>1, TextsOfMore DEF more
  <2>4. /\ block(more).ok = block(lines).ok
        /\ block(more).body = block(lines).body
        /\ block(more).headers = block(lines).headers
        /\ \/ block(more).next = block(lines).next
           \/ /\ block(lines).next = Len(lines) + 1
              /\ block(more).next = Len(lines) + 2
        /\ block(lines) \in [ok : BOOLEAN, next : Int, headers : {<<>>}, body : Seq(Text)]
        /\ block(more) \in [ok : BOOLEAN, next : Int, headers : {<<>>}, body : Seq(Text)]
    <3>1. CASE e <= Len(lines) /\ lines[e].mark = d
      <4> DEFINE stop == Stop(lines, d, e + 1)
      <4>1. e + 1 \in 1 .. Len(lines) + 1
        BY <1>2, <2>1, <3>1
      <4>2. /\ stop \in e + 1 .. Len(lines) + 1 /\ Stop(more, d, e + 1) = stop
        BY <4>1, StopIs, StopOfMore DEF more
      <4>3. stop \in 1 .. Len(lines) + 1
        BY <4>1, <4>2
      <4> HIDE DEF stop
      <4>4. /\ Texts(more, e + 1, stop) = Texts(lines, e + 1, stop)
            /\ Texts(lines, e + 1, stop) \in Seq(Text)
        BY <4>1, <4>2, TextsOfMore, TextsType DEF more
      <4>5. block(lines) = [Finished(lines, stop) EXCEPT
                               !.body = Texts(lines, e + 1, stop)]
        BY <1>7, <3>1 DEF body, stop
      <4>6. e <= Len(more) /\ more[e].mark = d
        <5>1. e \in 1 .. Len(lines)
          BY <1>2, <2>1, <3>1
        <5>2. QED BY <1>2, <3>1, <5>1
      <4>7. block(more) = [Finished(more, stop) EXCEPT
                              !.body = Texts(lines, e + 1, stop)]
        BY <1>8, <4>2, <4>4, <4>6 DEF body
      <4>8. \/ Finished(more, stop) = Finished(lines, stop)
            \/ /\ Finished(lines, stop) = [ok |-> TRUE, next |-> stop,
                                           headers |-> <<>>, body |-> <<>>]
               /\ Finished(more, stop) = [ok |-> TRUE, next |-> stop + 1,
                                          headers |-> <<>>, body |-> <<>>]
               /\ stop = Len(lines) + 1
        BY <4>3, FinishedOfMore DEF more
      <4>9. Finished(lines, stop) \in
               [ok : BOOLEAN, next : Int, headers : {<<>>}, body : {<<>>}]
        BY <4>3, FinishedType
      <4> HIDE DEF block
      <4>10. PICK texts \in Seq(Text) : texts = Texts(lines, e + 1, stop)
        BY <4>4
      <4>11. PICK a, b : a = Finished(lines, stop) /\ b = Finished(more, stop)
        OBVIOUS
      <4>12. /\ block(lines) = [a EXCEPT !.body = texts]
             /\ block(more) = [b EXCEPT !.body = texts]
        BY <4>5, <4>7, <4>10, <4>11
      <4>13. /\ a \in [ok : BOOLEAN, next : Int, headers : {<<>>}, body : {<<>>}]
             /\ \/ b = a
                \/ /\ a = [ok |-> TRUE, next |-> stop, headers |-> <<>>, body |-> <<>>]
                   /\ b = [ok |-> TRUE, next |-> stop + 1, headers |-> <<>>,
                           body |-> <<>>]
                   /\ stop = Len(lines) + 1
        BY <4>8, <4>9, <4>11
      <4>14. b \in [ok : BOOLEAN, next : Int, headers : {<<>>}, body : {<<>>}]
        <5>1. PICK n \in Int : n = stop + 1
          BY <4>3
        <5>2. \/ b = a
              \/ b = [ok |-> TRUE, next |-> n, headers |-> <<>>, body |-> <<>>]
          BY <4>13, <5>1
        <5>3. CASE b = a
          BY <4>13, <5>3
        <5>4. CASE b = [ok |-> TRUE, next |-> n, headers |-> <<>>, body |-> <<>>]
          BY <5>4
        <5>5. QED BY <5>2, <5>3, <5>4
      <4>15. /\ block(lines) = [ok |-> a.ok, next |-> a.next, headers |-> <<>>,
                                body |-> texts]
             /\ block(more) = [ok |-> b.ok, next |-> b.next, headers |-> <<>>,
                               body |-> texts]
             /\ a.ok \in BOOLEAN /\ a.next \in Int
             /\ b.ok \in BOOLEAN /\ b.next \in Int
        BY <4>12, <4>13, <4>14
      <4>16. /\ b.ok = a.ok
             /\ \/ b.next = a.next
                \/ a.next = Len(lines) + 1 /\ b.next = Len(lines) + 2
        <5>1. CASE b = a
          BY <5>1
        <5>2. CASE b # a
          <6>1. /\ a.ok = TRUE /\ a.next = stop /\ b.ok = TRUE
                /\ b.next = stop + 1 /\ stop = Len(lines) + 1
            BY <4>13, <5>2
          <6>2. Len(lines) + 1 + 1 = Len(lines) + 2
            OBVIOUS
          <6>3. QED BY <6>1, <6>2
        <5>3. QED BY <5>1, <5>2
      <4>17. QED BY <4>15, <4>16
    <3>2. CASE ~(e <= Len(lines) /\ lines[e].mark = d)
      <4>1. ~(e <= Len(more) /\ more[e].mark = d)
        <5>1. CASE e = Len(lines) + 1
          BY <1>2, <5>1
        <5>2. CASE e # Len(lines) + 1
          <6>1. e \in 1 .. Len(lines)
            BY <1>2, <2>1, <5>2
          <6>2. QED BY <1>2, <3>2, <6>1
        <5>3. QED BY <5>1, <5>2
      <4>2. block(lines) = Finished(lines, e) /\ block(more) = Finished(more, e)
        BY <1>7, <1>8, <3>2, <4>1
      <4>3. e \in 1 .. Len(lines) + 1
        BY <2>1
      <4>4. \/ Finished(more, e) = Finished(lines, e)
            \/ /\ Finished(lines, e) = [ok |-> TRUE, next |-> e,
                                        headers |-> <<>>, body |-> <<>>]
               /\ Finished(more, e) = [ok |-> TRUE, next |-> e + 1,
                                       headers |-> <<>>, body |-> <<>>]
               /\ e = Len(lines) + 1
        BY <4>3, FinishedOfMore DEF more
      <4>5. Finished(lines, e) \in
               [ok : BOOLEAN, next : Int, headers : {<<>>}, body : {<<>>}]
        BY <4>3, FinishedType
      <4>6. <<>> \in Seq(Text)
        OBVIOUS
      <4> HIDE DEF block
      <4>7. PICK a, b : a = Finished(lines, e) /\ b = Finished(more, e)
        OBVIOUS
      <4>8. /\ block(lines) = a /\ block(more) = b
            /\ a \in [ok : BOOLEAN, next : Int, headers : {<<>>}, body : {<<>>}]
            /\ \/ b = a
               \/ /\ a = [ok |-> TRUE, next |-> e, headers |-> <<>>, body |-> <<>>]
                  /\ b = [ok |-> TRUE, next |-> e + 1, headers |-> <<>>,
                          body |-> <<>>]
                  /\ e = Len(lines) + 1
        BY <4>2, <4>4, <4>5, <4>7
      <4>9. b \in [ok : BOOLEAN, next : Int, headers : {<<>>}, body : {<<>>}]
        <5>1. PICK n \in Int : n = e + 1
          BY <4>3
        <5>2. \/ b = a
              \/ b = [ok |-> TRUE, next |-> n, headers |-> <<>>, body |-> <<>>]
          BY <4>8, <5>1
        <5>3. CASE b = a
          BY <4>8, <5>3
        <5>4. CASE b = [ok |-> TRUE, next |-> n, headers |-> <<>>, body |-> <<>>]
          BY <5>4
        <5>5. QED BY <5>2, <5>3, <5>4
      <4>10. /\ b.ok = a.ok /\ b.headers = a.headers /\ b.body = a.body
             /\ \/ b.next = a.next
                \/ a.next = Len(lines) + 1 /\ b.next = Len(lines) + 2
        <5>1. CASE b = a
          BY <5>1
        <5>2. CASE b # a
          <6>1. /\ a.ok = TRUE /\ a.next = e /\ a.headers = <<>> /\ a.body = <<>>
                /\ b.ok = TRUE /\ b.next = e + 1 /\ b.headers = <<>>
                /\ b.body = <<>> /\ e = Len(lines) + 1
            BY <4>8, <5>2
          <6>2. Len(lines) + 1 + 1 = Len(lines) + 2
            OBVIOUS
          <6>3. QED BY <6>1, <6>2
        <5>3. QED BY <5>1, <5>2
      <4>11. {a, b} \subseteq [ok : BOOLEAN, next : Int, headers : {<<>>},
                               body : Seq(Text)]
        BY <4>6, <4>8, <4>9
      <4>12. QED BY <4>8, <4>10, <4>11
    <3>3. QED BY <3>1, <3>2
  <2>5. CASE fails(lines)
    <3> HIDE DEF fails, block, i, parsed, starts, Ends
    <3>1. parsed(lines) = Failed /\ parsed(more) = Failed
      BY <1>1, <2>2, <2>5
    <3>2. QED BY <3>1 DEF more, parsed
  <2>6. CASE ~fails(lines)
    <3> HIDE DEF fails, block, i, parsed, starts, Ends
    <3>1. /\ parsed(lines) = [block(lines) EXCEPT !.headers = Texts(lines, start, e)]
          /\ parsed(more) = [block(more) EXCEPT !.headers = Texts(lines, start, e)]
      BY <1>1, <1>7, <1>8, <2>2, <2>3, <2>6
    <3>2. /\ parsed(more).ok = parsed(lines).ok
          /\ parsed(more).headers = parsed(lines).headers
          /\ parsed(more).body = parsed(lines).body
          /\ \/ parsed(more).next = parsed(lines).next
             \/ /\ parsed(lines).next = Len(lines) + 1
                /\ parsed(more).next = Len(lines) + 2
      BY <2>4, <3>1
    <3>3. QED BY <3>2 DEF more, parsed
  <2>7. QED BY <2>5, <2>6
<1>11. QED BY <1>9, <1>10

\* The end of a file is as good as the line that ends a block: what
\* trace_to_soup_message() makes of any lines, those of a file that is cut off
\* within its last block among them, is what it makes of them with that line.
THEOREM EndOfFileEndsBlock ==
    ASSUME NEW lines \in Seq(Line)
    PROVE  trace_to_soup_message(Append(lines, End)) = trace_to_soup_message(lines)
<1> DEFINE more == Append(lines, End)
           sent(l) == trace_to_soup_message_headers_and_body(l, ">", 2)
           received(l) ==
              trace_to_soup_message_headers_and_body(l, "<", sent(l).next + 1)
           good(l) == /\ StartsWith(l, 1, ">", {"request"})
                      /\ sent(l).ok
                      /\ StartsWith(l, sent(l).next, "<", {"status", "no_status"})
                      /\ received(l).ok
<1>1. \A l : trace_to_soup_message(l) =
                IF good(l)
                THEN [request |-> HalfOf(l, 1, sent(l)),
                      response |-> HalfOf(l, sent(l).next, received(l))]
                ELSE None
  BY DEF trace_to_soup_message
<1>2. /\ more \in Seq(Line) /\ Len(more) = Len(lines) + 1
      /\ \A k \in 1 .. Len(lines) : more[k] = lines[k]
      /\ more[Len(lines) + 1].mark \notin {">", "<"}
      /\ Len(lines) \in Nat
  BY MoreIs
<1> HIDE DEF more
<1>3. ASSUME NEW k \in Nat \ {0}, NEW d \in {">", "<"}, NEW classes
      PROVE  StartsWith(more, k, d, classes) <=> StartsWith(lines, k, d, classes)
  <2>1. CASE k \in 1 .. Len(lines)
    <3>1. more[k] = lines[k] /\ k <= Len(lines) /\ k <= Len(more)
      BY <1>2, <2>1
    <3>2. QED BY <3>1 DEF StartsWith
  <2>2. CASE k = Len(lines) + 1
    <3>1. ~(k <= Len(lines)) /\ more[k].mark # d
      BY <1>2, <2>2
    <3>2. QED BY <3>1 DEF StartsWith
  <2>3. CASE k > Len(lines) + 1
    <3>1. ~(k <= Len(lines)) /\ ~(k <= Len(more))
      BY <1>2, <2>3
    <3>2. QED BY <3>1 DEF StartsWith
  <2>4. QED BY <1>2, <2>1, <2>2, <2>3
<1>4. CASE ~StartsWith(lines, 1, ">", {"request"})
  <2>1. ~StartsWith(more, 1, ">", {"request"})
    BY <1>3, <1>4
  <2>2. ~good(lines) /\ ~good(more)
    BY <1>4, <2>1
  <2> HIDE DEF good, sent, received
  <2>3. QED BY <1>1, <2>2 DEF more
<1>5. CASE StartsWith(lines, 1, ">", {"request"})
  <2>1. 2 \in 1 .. Len(lines) + 1
    BY <1>2, <1>5 DEF StartsWith
  <2>2. /\ sent(more).ok = sent(lines).ok
        /\ sent(more).headers = sent(lines).headers
        /\ sent(more).body = sent(lines).body
        /\ \/ sent(more).next = sent(lines).next
           \/ /\ sent(lines).next = Len(lines) + 1
              /\ sent(more).next = Len(lines) + 2
    BY <2>1, BlockOfMore DEF more
  <2>3. CASE ~sent(lines).ok
    <3>1. ~good(lines) /\ ~good(more)
      BY <2>2, <2>3
    <3> HIDE DEF good, sent, received
    <3>2. QED BY <1>1, <3>1 DEF more
  <2>4. CASE sent(lines).ok
    <3>1. sent(lines).next \in Nat \ {0}
      <4>1. \E i \in 2 .. Len(lines) + 1 : \E k \in i .. Len(lines) + 1 :
               sent(lines).next = IF k > Len(lines) THEN k ELSE k + 1
        BY <2>1, <2>4, ParsedIs
      <4> HIDE DEF sent
      <4>2. QED BY <4>1
    <3>2. CASE sent(lines).next > Len(lines)
      <4> HIDE DEF sent
      <4>1. ~StartsWith(lines, sent(lines).next, "<", {"status", "no_status"})
        BY <1>2, <3>1, <3>2 DEF StartsWith
      <4>2. /\ sent(more).next \in Nat \ {0}
            /\ sent(more).next > Len(lines)
        BY <1>2, <2>2, <3>1, <3>2
      <4>3. ~StartsWith(lines, sent(more).next, "<", {"status", "no_status"})
        BY <1>2, <4>2 DEF StartsWith
      <4>4. ~StartsWith(more, sent(more).next, "<", {"status", "no_status"})
        BY <1>3, <4>2, <4>3
      <4>5. ~good(lines) /\ ~good(more)
        BY <4>1, <4>4
      <4> HIDE DEF good, received
      <4>6. QED BY <1>1, <4>5 DEF more
    <3>3. CASE ~(sent(lines).next > Len(lines))
      <4>1. PICK n : n = sent(lines).next
        OBVIOUS
      <4>2. sent(more).next = n /\ n \in 1 .. Len(lines) /\ n + 1 \in 1 .. Len(lines) + 1
        <5> HIDE DEF sent
        <5>1. QED BY <1>2, <2>2, <3>1, <3>3, <4>1
      <4>3. /\ received(more).ok = received(lines).ok
            /\ received(more).headers = received(lines).headers
            /\ received(more).body = received(lines).body
        <5>1. /\ received(more) = trace_to_soup_message_headers_and_body(more, "<", n + 1)
              /\ received(lines) = trace_to_soup_message_headers_and_body(lines, "<", n + 1)
          BY <4>1, <4>2
        <5> HIDE DEF received
        <5>2. QED BY <4>2, <5>1, BlockOfMore DEF more
      <4>4. good(more) <=> good(lines)
        <5>1. /\ StartsWith(more, 1, ">", {"request"})
              /\ StartsWith(more, n, "<", {"status", "no_status"}) <=>
                    StartsWith(lines, n, "<", {"status", "no_status"})
          BY <1>3, <1>5, <4>2
        <5> HIDE DEF sent, received
        <5>2. QED BY <1>5, <2>2, <4>1, <4>2, <4>3, <5>1
      <4>5. /\ HalfOf(more, 1, sent(more)) = HalfOf(lines, 1, sent(lines))
            /\ HalfOf(more, n, received(more)) = HalfOf(lines, n, received(lines))
        <5>1. more[1] = lines[1] /\ more[n] = lines[n]
          BY <1>2, <2>1, <4>2
        <5> HIDE DEF sent, received
        <5>2. QED BY <2>2, <4>3, <5>1 DEF HalfOf
      <4> HIDE DEF good, sent, received
      <4>6. QED BY <1>1, <4>1, <4>2, <4>4, <4>5 DEF more
    <3>4. QED BY <3>2, <3>3
  <2>5. QED BY <2>3, <2>4
<1>6. QED BY <1>4, <1>5
-------------------------------------------------------------------------------
(* Blocks.                                                                    *)

\* The texts of a half: its start, its headers, then a blank and the body.
LEMMA TextsOfIs ==
    ASSUME NEW h \in Half
    PROVE  /\ TextsOf(h) \in Seq(Text)
           /\ Len(TextsOf(h)) = 1 + Len(h.headers)
                                  + (IF h.body = <<>> THEN 0 ELSE 1 + Len(h.body))
           /\ TextsOf(h)[1] = h.start
           /\ \A k \in 1 .. Len(h.headers) : TextsOf(h)[1 + k] = h.headers[k]
           /\ h.body # <<>> =>
                 /\ TextsOf(h)[2 + Len(h.headers)] = Blank
                 /\ \A k \in 1 .. Len(h.body) :
                       TextsOf(h)[2 + Len(h.headers) + k] = h.body[k]
<1> DEFINE n == Len(h.headers)
           head == <<h.start>> \o h.headers
           tail == IF h.body = <<>> THEN <<>> ELSE <<Blank>> \o h.body
<1>1. /\ h.start \in Text /\ h.headers \in Seq(Text) /\ h.body \in Seq(Text)
      /\ n \in Nat /\ Len(h.body) \in Nat /\ Blank \in Text
  BY ReaderAssumption DEF Half
<1>2. /\ head \in Seq(Text) /\ Len(head) = 1 + n
      /\ head[1] = h.start
      /\ \A k \in 1 .. n : head[1 + k] = h.headers[k]
  <2>1. /\ head \in Seq(Text) /\ Len(head) = 1 + n
        /\ \A k \in 1 .. 1 + n : head[k] = IF k <= 1 THEN <<h.start>>[k]
                                           ELSE h.headers[k - 1]
    BY <1>1, <<h.start>> \in Seq(Text), Len(<<h.start>>) = 1, ConcatProperties
  <2>2. QED BY <1>1, <2>1
<1>3. /\ tail \in Seq(Text)
      /\ Len(tail) = IF h.body = <<>> THEN 0 ELSE 1 + Len(h.body)
      /\ h.body # <<>> => tail[1] = Blank /\ \A k \in 1 .. Len(h.body) :
                                                tail[1 + k] = h.body[k]
  <2>1. CASE h.body = <<>>
    BY <2>1
  <2>2. CASE h.body # <<>>
    <3>1. /\ tail \in Seq(Text) /\ Len(tail) = 1 + Len(h.body)
          /\ \A k \in 1 .. 1 + Len(h.body) : tail[k] = IF k <= 1 THEN <<Blank>>[k]
                                                       ELSE h.body[k - 1]
      BY <1>1, <2>2, <<Blank>> \in Seq(Text), Len(<<Blank>>) = 1, ConcatProperties
    <3>2. QED BY <1>1, <2>2, <3>1
  <2>3. QED BY <2>1, <2>2
<1>4. TextsOf(h) = head \o tail
  BY DEF TextsOf
<1> HIDE DEF head, tail, n
<1>5. /\ TextsOf(h) \in Seq(Text) /\ Len(TextsOf(h)) = Len(head) + Len(tail)
      /\ \A k \in 1 .. Len(head) + Len(tail) :
            TextsOf(h)[k] = IF k <= Len(head) THEN head[k] ELSE tail[k - Len(head)]
  BY <1>2, <1>3, <1>4, ConcatProperties
<1> DEFINE texts == TextsOf(h)
           m == Len(head)
<1>6. /\ m = 1 + n /\ Len(tail) \in Nat
      /\ \A k \in 1 .. m : texts[k] = head[k]
      /\ \A k \in 1 .. Len(tail) : texts[m + k] = tail[k]
  <2>1. m = 1 + n /\ Len(tail) \in Nat
    BY <1>1, <1>2, <1>3
  <2> HIDE DEF m, texts
  <2>2. ASSUME NEW k \in 1 .. m PROVE texts[k] = head[k]
    BY <1>1, <1>5, <2>1 DEF m, texts
  <2>3. ASSUME NEW k \in 1 .. Len(tail) PROVE texts[m + k] = tail[k]
    <3>1. m + k \in 1 .. m + Len(tail) /\ ~(m + k <= m) /\ m + k - m = k
      BY <1>1, <2>1
    <3>2. QED BY <1>5, <3>1 DEF m, texts
  <2>4. QED BY <2>1, <2>2, <2>3
<1> HIDE DEF m
<1>7. /\ Len(TextsOf(h)) = 1 + n + (IF h.body = <<>> THEN 0 ELSE 1 + Len(h.body))
      /\ TextsOf(h)[1] = h.start
  <2>1. 1 \in 1 .. m
    BY <1>1, <1>6
  <2>2. texts[1] = h.start
    BY <1>2, <1>6, <2>1
  <2>3. Len(texts) = m + Len(tail)
    BY <1>5 DEF m
  <2>4. QED BY <1>3, <1>6, <2>2, <2>3
<1>8. \A k \in 1 .. n : TextsOf(h)[1 + k] = h.headers[k]
  BY <1>1, <1>2, <1>6
<1>9. ASSUME h.body # <<>>
      PROVE  /\ TextsOf(h)[2 + n] = Blank
             /\ \A k \in 1 .. Len(h.body) : TextsOf(h)[2 + n + k] = h.body[k]
  <2>1. \A k \in 1 .. 1 + Len(h.body) : TextsOf(h)[1 + n + k] = tail[k]
    BY <1>1, <1>2, <1>3, <1>5, <1>9
  <2>2. ASSUME NEW k \in 1 .. Len(h.body) PROVE TextsOf(h)[2 + n + k] = h.body[k]
    <3>1. 1 + k \in 1 .. 1 + Len(h.body) /\ 1 + n + (1 + k) = 2 + n + k
      BY <1>1
    <3>2. TextsOf(h)[1 + n + (1 + k)] = tail[1 + k]
      BY <2>1, <3>1
    <3>3. QED BY <1>3, <1>9, <3>1, <3>2
  <2>3. 1 \in 1 .. 1 + Len(h.body) /\ 1 + n + 1 = 2 + n
    BY <1>1
  <2>4. QED BY <1>3, <1>9, <2>1, <2>2, <2>3
<1>10. QED BY <1>5, <1>7, <1>8, <1>9 DEF n

\* The lines of a pair.
LEMMA PairLinesAre ==
    ASSUME NEW p \in Pair
    PROVE  /\ p.request \in Seq(Line) /\ p.response \in Seq(Line)
           /\ Len(p.request) \in Nat /\ Len(p.response) \in Nat
           /\ PairLines(p) \in Seq(Line)
           /\ Len(PairLines(p)) = Len(p.request) + Len(p.response) + 2
           /\ \A k \in 1 .. Len(p.request) : PairLines(p)[k] = p.request[k]
           /\ PairLines(p)[Len(p.request) + 1] = End
           /\ \A k \in 1 .. Len(p.response) :
                 PairLines(p)[Len(p.request) + 1 + k] = p.response[k]
           /\ PairLines(p)[Len(p.request) + Len(p.response) + 2] = End
<1> DEFINE a == Len(p.request)
           b == Len(p.response)
           l1 == p.request \o <<End>>
           l2 == l1 \o p.response
           lines == PairLines(p)
<1>1. /\ p.request \in Seq(Line) /\ p.response \in Seq(Line)
      /\ a \in Nat /\ b \in Nat
  BY DEF Pair
<1>2. End \in Line
  BY ReaderAssumption DEF End, Line, Mark
<1>3. <<End>> \in Seq(Line) /\ Len(<<End>>) = 1 /\ <<End>>[1] = End
  BY <1>2
<1>4. /\ l1 \in Seq(Line) /\ Len(l1) = a + 1
      /\ \A k \in 1 .. a : l1[k] = p.request[k]
      /\ l1[a + 1] = End
  <2>1. /\ l1 \in Seq(Line) /\ Len(l1) = a + 1
        /\ \A k \in 1 .. a + 1 : l1[k] = IF k <= a THEN p.request[k] ELSE <<End>>[k - a]
    BY <1>1, <1>3, ConcatProperties
  <2> HIDE DEF l1, a
  <2>2. QED BY <1>1, <1>3, <2>1
<1> HIDE DEF l1
<1>5. /\ l2 \in Seq(Line) /\ Len(l2) = a + 1 + b
      /\ \A k \in 1 .. a + 1 : l2[k] = l1[k]
      /\ \A k \in 1 .. b : l2[a + 1 + k] = p.response[k]
  <2>1. /\ l2 \in Seq(Line) /\ Len(l2) = Len(l1) + b
        /\ \A k \in 1 .. Len(l1) + b :
              l2[k] = IF k <= Len(l1) THEN l1[k] ELSE p.response[k - Len(l1)]
    BY <1>1, <1>4, ConcatProperties
  <2> HIDE DEF l2, a, b
  <2>2. QED BY <1>1, <1>4, <2>1
<1> HIDE DEF l2
<1>6. lines = l2 \o <<End>>
  BY DEF PairLines, l1, l2
<1>7. /\ lines \in Seq(Line) /\ Len(lines) = a + b + 2
      /\ \A k \in 1 .. a + 1 + b : lines[k] = l2[k]
      /\ lines[a + b + 2] = End
  <2> DEFINE l3 == l2 \o <<End>>
  <2>1. l2 \in Seq(Line) /\ <<End>> \in Seq(Line) /\ Len(<<End>>) = 1
    BY <1>3, <1>5
  <2>2. /\ l3 \in Seq(Line) /\ Len(l3) = Len(l2) + 1
        /\ \A k \in 1 .. Len(l2) + 1 :
              l3[k] = IF k <= Len(l2) THEN l2[k] ELSE <<End>>[k - Len(l2)]
    BY <2>1, ConcatProperties
  <2> HIDE DEF lines, a, b, l3
  <2>3. /\ l3 \in Seq(Line) /\ Len(l3) = a + b + 2
        /\ \A k \in 1 .. a + 1 + b : l3[k] = l2[k]
        /\ l3[a + b + 2] = End
    BY <1>1, <1>3, <1>5, <2>2
  <2>4. QED BY <1>6, <2>3 DEF l3
<1>8. /\ \A k \in 1 .. a : lines[k] = p.request[k]
      /\ lines[a + 1] = End
      /\ \A k \in 1 .. b : lines[a + 1 + k] = p.response[k]
  <2> HIDE DEF lines, a, b
  <2>1. QED BY <1>1, <1>4, <1>5, <1>7
<1>9. QED
  BY <1>1, <1>7, <1>8

\* No line within a block is one that ends it.
Unended(p) ==
    /\ p \in Pair
    /\ \A k \in DOMAIN p.request : p.request[k] # End
    /\ \A k \in DOMAIN p.response : p.response[k] # End

\* Only the two lines behind the blocks of a pair are ends.
LEMMA EndsAre ==
    ASSUME NEW p, Unended(p), NEW k \in 1 .. Len(PairLines(p))
    PROVE  PairLines(p)[k] = End <=> k \in {Len(p.request) + 1, Len(PairLines(p))}
<1> DEFINE a == Len(p.request)
           b == Len(p.response)
           lines == PairLines(p)
<1>1. p \in Pair
  BY DEF Unended
<1>2. /\ a \in Nat /\ b \in Nat /\ Len(lines) = a + b + 2
      /\ \A j \in 1 .. a : lines[j] = p.request[j]
      /\ lines[a + 1] = End
      /\ \A j \in 1 .. b : lines[a + 1 + j] = p.response[j]
      /\ lines[a + b + 2] = End
  BY <1>1, PairLinesAre
<1>3. /\ \A j \in 1 .. a : p.request[j] # End
      /\ \A j \in 1 .. b : p.response[j] # End
  BY <1>1, PairLinesAre DEF Unended
<1> HIDE DEF a, b, lines
<1>4. k \in 1 .. a + b + 2
  BY <1>2 DEF lines
<1>5. CASE k \in 1 .. a
  BY <1>2, <1>3, <1>5 DEF a, lines
<1>6. CASE k \in a + 2 .. a + b + 1
  <2>1. k - a - 1 \in 1 .. b /\ k = a + 1 + (k - a - 1)
    BY <1>2, <1>6
  <2>2. lines[k] # End
    BY <1>2, <1>3, <2>1
  <2>3. k # a + 1 /\ k # a + b + 2
    BY <1>2, <1>6
  <2>4. QED BY <1>2, <2>2, <2>3 DEF a, lines
<1>7. CASE k \in {a + 1, a + b + 2}
  BY <1>2, <1>7 DEF a, lines
<1>8. QED BY <1>2, <1>4, <1>5, <1>6, <1>7

-------------------------------------------------------------------------------
(* A message is made of whole blocks.                                         *)

\* If headers and body were taken from the lines of a block b, which are those
\* behind line o, and up to its end, then nothing of it was left out.
LEMMA BlockIsWhole ==
    ASSUME NEW lines \in Seq(Line), NEW b \in Seq(Line), NEW o \in Nat,
           b # <<>>, o + Len(b) <= Len(lines),
           \A j \in 1 .. Len(b) : lines[o + j] = b[j],
           NEW i \in o + 2 .. o + Len(b) + 1, NEW h \in Half,
           h.start = b[1].text,
           h.headers = Texts(lines, o + 2, i),
           \/ i = o + Len(b) + 1 /\ h.body = <<>>
           \/ /\ i < o + Len(b) + 1
              /\ lines[i].text = Blank
              /\ h.body = Texts(lines, i + 1, o + Len(b) + 1)
    PROVE  IsWhole(b, h)
<1> DEFINE k == o + Len(b) + 1
           n == i - (o + 2)
           l == Len(b)
           texts == Texts(b, 1, l + 1)
<1>1. l \in Nat \ {0} /\ n \in Nat /\ i = o + 2 + n /\ k \in i .. Len(lines) + 1
  OBVIOUS
<1>2. texts \in Seq(Text) /\ Len(texts) = l /\ \A j \in 1 .. l : texts[j] = b[j].text
  <2>1. 1 \in 1 .. l + 1 /\ l + 1 \in 1 .. l + 1
    BY <1>1
  <2> DEFINE past == l + 1
             first == 1
  <2> HIDE DEF past, first
  <2>2. /\ Texts(b, first, past) \in Seq(Text)
        /\ Len(Texts(b, first, past)) = past - first
        /\ \A j \in 1 .. past - first :
              Texts(b, first, past)[j] = b[first + j - 1].text
    BY <2>1, TextsType DEF past, first
  <2>3. l + 1 - 1 = l /\ \A j \in 1 .. l : 1 + j - 1 = j
    BY <1>1
  <2>4. QED BY <2>2, <2>3 DEF past, first
<1>3. Len(h.headers) = n /\ \A j \in 1 .. n : h.headers[j] = texts[1 + j]
  <2>1. /\ o + 2 \in 1 .. Len(lines) + 1 /\ i \in o + 2 .. Len(lines) + 1
    BY <1>1
  <2> DEFINE first == o + 2
  <2> HIDE DEF first
  <2>2. /\ Len(Texts(lines, first, i)) = i - first
        /\ \A j \in 1 .. i - first :
              Texts(lines, first, i)[j] = lines[first + j - 1].text
    BY <2>1, TextsType DEF first
  <2>3. Len(h.headers) = n /\ \A j \in 1 .. n : h.headers[j] = lines[o + 2 + j - 1].text
    BY <2>2 DEF first
  <2>4. ASSUME NEW j \in 1 .. n PROVE h.headers[j] = texts[1 + j]
    <3>1. 1 + j \in 1 .. l /\ o + 2 + j - 1 = o + (1 + j)
      BY <1>1
    <3>2. h.headers[j] = lines[o + (1 + j)].text
      BY <2>3, <3>1
    <3>3. lines[o + (1 + j)] = b[1 + j]
      BY <3>1
    <3>4. texts[1 + j] = b[1 + j].text
      BY <1>2, <3>1
    <3> HIDE DEF texts, n, l, k
    <3>5. QED BY <3>2, <3>3, <3>4
  <2>5. QED BY <2>3, <2>4
<1>4. 1 \in 1 .. l /\ texts[1] = h.start
  BY <1>1, <1>2
<1>5. /\ TextsOf(h) \in Seq(Text)
      /\ Len(TextsOf(h)) = 1 + n + (IF h.body = <<>> THEN 0 ELSE 1 + Len(h.body))
      /\ TextsOf(h)[1] = h.start
      /\ \A j \in 1 .. n : TextsOf(h)[1 + j] = h.headers[j]
      /\ h.body # <<>> => /\ TextsOf(h)[2 + n] = Blank
                          /\ \A j \in 1 .. Len(h.body) : TextsOf(h)[2 + n + j] = h.body[j]
  BY <1>3, TextsOfIs
<1>6. \A j \in 1 .. 1 + n : TextsOf(h)[j] = texts[j]
  <2>1. ASSUME NEW j \in 1 .. 1 + n PROVE TextsOf(h)[j] = texts[j]
    <3>1. CASE j = 1
      BY <1>4, <1>5, <3>1
    <3>2. CASE j # 1
      <4>1. j - 1 \in 1 .. n /\ j = 1 + (j - 1)
        BY <1>1, <3>2
      <4>2. QED BY <1>3, <1>5, <4>1
    <3>3. QED BY <3>1, <3>2
  <2>2. QED BY <2>1
<1> HIDE DEF texts, n, l, k
<1>7. CASE i = k /\ h.body = <<>>
  <2>1. 1 + n = l
    BY <1>1, <1>7 DEF k, l
  <2>2. texts \in Seq(Text) /\ Len(texts) = l
    BY <1>2
  <2>3. TextsOf(h) \in Seq(Text) /\ Len(TextsOf(h)) = l
    BY <1>1, <1>5, <1>7, <2>1
  <2>4. \A j \in 1 .. l : texts[j] = TextsOf(h)[j]
    BY <1>6, <2>1
  <2>5. texts = TextsOf(h)
    BY <2>2, <2>3, <2>4, SameTexts
  <2>6. QED BY <2>5 DEF IsWhole, texts, l
<1>8. CASE i < k /\ lines[i].text = Blank /\ h.body = Texts(lines, i + 1, k)
  <2>1. l = 2 + n + (k - (i + 1)) /\ k - (i + 1) \in Nat /\ 2 + n \in 1 .. l
    BY <1>1, <1>8 DEF k, l
  <2>2. texts[2 + n] = Blank
    <3>1. i = o + (2 + n)
      BY <1>1
    <3>2. lines[o + (2 + n)] = b[2 + n]
      BY <2>1 DEF l
    <3>3. QED BY <1>2, <1>8, <2>1, <3>1, <3>2
  <2>3. /\ Len(h.body) = k - (i + 1)
        /\ \A j \in 1 .. k - (i + 1) : h.body[j] = lines[i + 1 + j - 1].text
    <3> DEFINE first == i + 1
    <3>1. first \in 1 .. Len(lines) + 1 /\ k \in first .. Len(lines) + 1
      BY <1>1, <1>8
    <3> HIDE DEF first
    <3>2. /\ Len(Texts(lines, first, k)) = k - first
          /\ \A j \in 1 .. k - first :
                Texts(lines, first, k)[j] = lines[first + j - 1].text
      BY <3>1, TextsType
    <3>3. h.body = Texts(lines, first, k)
      BY <1>8 DEF first
    <3>4. /\ Len(h.body) = k - first
          /\ \A j \in 1 .. k - first : h.body[j] = lines[first + j - 1].text
      BY <3>2, <3>3
    <3>5. QED BY <3>4 DEF first
  <2>4. \A j \in 1 .. k - (i + 1) : h.body[j] = texts[2 + n + j]
    <3>1. ASSUME NEW j \in 1 .. k - (i + 1) PROVE h.body[j] = texts[2 + n + j]
      <4>1. j \in Nat /\ j >= 1 /\ j <= k - (i + 1)
        BY <2>1
      <4>2. 2 + n + j <= l
        BY <1>1, <2>1, <4>1
      <4>3. 2 + n + j \in 1 .. l /\ i + 1 + j - 1 = o + (2 + n + j)
        BY <1>1, <4>1, <4>2
      <4>4. lines[o + (2 + n + j)] = b[2 + n + j]
        BY <4>3 DEF l
      <4>5. h.body[j] = lines[i + 1 + j - 1].text
        BY <2>3
      <4>6. texts[2 + n + j] = b[2 + n + j].text
        BY <1>2, <4>3
      <4>7. QED BY <4>3, <4>4, <4>5, <4>6
    <3>2. QED BY <3>1
  <2>5. CASE h.body = <<>>
    <3>1. k - (i + 1) = 0 /\ l = 2 + n
      BY <2>1, <2>3, <2>5
    <3> DEFINE whole == TextsOf(h) \o <<Blank>>
    <3>2. Len(TextsOf(h)) = 1 + n
      BY <1>1, <1>5, <2>5
    <3>3. <<Blank>> \in Seq(Text) /\ Len(<<Blank>>) = 1
      BY ReaderAssumption
    <3>4. /\ whole \in Seq(Text) /\ Len(whole) = 1 + n + 1
          /\ \A j \in 1 .. 1 + n + 1 :
                whole[j] = IF j <= 1 + n THEN TextsOf(h)[j] ELSE <<Blank>>[j - (1 + n)]
      BY <1>5, <3>2, <3>3, ConcatProperties
    <3>5. ASSUME NEW j \in 1 .. l PROVE texts[j] = whole[j]
      <4>1. CASE j \in 1 .. 1 + n
        BY <1>1, <1>6, <3>1, <3>4, <4>1
      <4>2. CASE j = 2 + n
        <5>1. j \in 1 .. 1 + n + 1 /\ ~(j <= 1 + n) /\ j - (1 + n) = 1
          BY <1>1, <4>2
        <5>2. whole[j] = <<Blank>>[1]
          BY <3>4, <5>1
        <5>3. <<Blank>>[1] = Blank
          OBVIOUS
        <5>4. QED BY <2>2, <4>2, <5>2, <5>3
      <4> HIDE DEF whole
      <4>3. j \in 1 .. 1 + n \/ j = 2 + n
        BY <1>1, <3>1
      <4>4. QED BY <4>1, <4>2, <4>3
    <3>6. Len(whole) = l
      BY <1>1, <3>1, <3>4
    <3> HIDE DEF whole
    <3>7. texts \in Seq(Text) /\ Len(texts) = l /\ whole \in Seq(Text)
      BY <1>2, <3>4
    <3>8. texts = whole
      BY <3>5, <3>6, <3>7, SameTexts
    <3>9. QED BY <2>5, <3>8 DEF IsWhole, texts, whole, l
  <2>6. CASE h.body # <<>>
    <3>1. Len(TextsOf(h)) = l
      BY <1>1, <1>5, <2>1, <2>3, <2>6
    <3>2. ASSUME NEW j \in 1 .. l PROVE texts[j] = TextsOf(h)[j]
      <4>1. CASE j \in 1 .. 1 + n
        BY <1>6, <4>1
      <4>2. CASE j = 2 + n
        BY <1>5, <2>2, <2>6, <4>2
      <4>3. CASE j > 2 + n
        <5>1. j - (2 + n) \in 1 .. k - (i + 1) /\ j = 2 + n + (j - (2 + n))
          BY <1>1, <2>1, <4>3
        <5>2. h.body[j - (2 + n)] = texts[j]
          BY <2>4, <5>1
        <5>3. TextsOf(h)[j] = h.body[j - (2 + n)]
          BY <1>5, <2>3, <2>6, <5>1
        <5>4. QED BY <5>2, <5>3
      <4>4. QED BY <1>1, <4>1, <4>2, <4>3
    <3>3. /\ texts \in Seq(Text) /\ Len(texts) = l
          /\ TextsOf(h) \in Seq(Text)
      BY <1>2, <1>5
    <3>4. texts = TextsOf(h)
      BY <3>1, <3>2, <3>3, SameTexts
    <3>5. QED BY <3>4 DEF IsWhole, texts, l
  <2>7. QED BY <2>5, <2>6
<1>9. QED BY <1>7, <1>8 DEF k

\* What a successful parse of headers and body gives.
LEMMA ParsedType ==
    ASSUME NEW lines \in Seq(Line), NEW d, NEW start \in 1 .. Len(lines) + 1,
           trace_to_soup_message_headers_and_body(lines, d, start).ok
    PROVE  LET parsed == trace_to_soup_message_headers_and_body(lines, d, start)
           IN  /\ parsed.headers \in Seq(Text) /\ parsed.body \in Seq(Text)
               /\ parsed.next \in start .. Len(lines) + 1
<1> DEFINE parsed == trace_to_soup_message_headers_and_body(lines, d, start)
<1>1. PICK i \in start .. Len(lines) + 1 : \E k \in i .. Len(lines) + 1 :
         /\ k > Len(lines) \/ lines[k] = End
         /\ parsed.next = IF k > Len(lines) THEN k ELSE k + 1
         /\ parsed.headers = Texts(lines, start, i)
         /\ \/ k = i /\ parsed.body = <<>>
            \/ i < k /\ parsed.body = Texts(lines, i + 1, k)
  BY ParsedIs
<1>2. PICK k \in i .. Len(lines) + 1 :
         /\ parsed.next = IF k > Len(lines) THEN k ELSE k + 1
         /\ parsed.headers = Texts(lines, start, i)
         /\ \/ k = i /\ parsed.body = <<>>
            \/ i < k /\ parsed.body = Texts(lines, i + 1, k)
  BY <1>1
<1> HIDE DEF parsed
<1>3. parsed.headers \in Seq(Text)
  BY <1>2, TextsType
<1>4. parsed.body \in Seq(Text)
  <2>1. CASE k = i /\ parsed.body = <<>>
    BY <2>1
  <2>2. CASE i < k /\ parsed.body = Texts(lines, i + 1, k)
    <3> DEFINE second == i + 1
    <3>1. second \in 1 .. Len(lines) + 1 /\ k \in second .. Len(lines) + 1
      BY <2>2
    <3> HIDE DEF second
    <3>2. Texts(lines, second, k) \in Seq(Text)
      BY <3>1, TextsType
    <3>3. QED BY <2>2, <3>2 DEF second
  <2>3. QED BY <1>2, <2>1, <2>2
<1>5. parsed.next \in start .. Len(lines) + 1
  BY <1>2
<1>6. QED BY <1>3, <1>4, <1>5 DEF parsed

\* What a successful parse of a pair gives, and that each part is parsed.
LEMMA ParsedParts ==
    ASSUME NEW lines \in Seq(Line), trace_to_soup_message(lines) # None
    PROVE  LET sent == trace_to_soup_message_headers_and_body(lines, ">", 2)
               received == trace_to_soup_message_headers_and_body(lines, "<", sent.next + 1)
           IN  /\ StartsWith(lines, 1, ">", {"request"})
               /\ sent.ok /\ 2 \in 1 .. Len(lines) + 1
               /\ StartsWith(lines, sent.next, "<", {"status", "no_status"})
               /\ received.ok /\ sent.next \in 2 .. Len(lines)
               /\ trace_to_soup_message(lines) \in Message
               /\ trace_to_soup_message(lines) =
                     [request |-> HalfOf(lines, 1, sent),
                      response |-> HalfOf(lines, sent.next, received)]
<1> DEFINE sent == trace_to_soup_message_headers_and_body(lines, ">", 2)
           received == trace_to_soup_message_headers_and_body(lines, "<", sent.next + 1)
<1>1. /\ StartsWith(lines, 1, ">", {"request"})
      /\ sent.ok
      /\ StartsWith(lines, sent.next, "<", {"status", "no_status"})
      /\ received.ok
      /\ trace_to_soup_message(lines) =
            [request |-> HalfOf(lines, 1, sent),
             response |-> HalfOf(lines, sent.next, received)]
  BY DEF trace_to_soup_message
<1>2. 1 <= Len(lines) /\ sent.next <= Len(lines)
  BY <1>1 DEF StartsWith
<1>3. 2 \in 1 .. Len(lines) + 1
  BY <1>2
<1>4. /\ sent.headers \in Seq(Text) /\ sent.body \in Seq(Text)
      /\ sent.next \in 2 .. Len(lines) + 1
  BY <1>1, <1>3, ParsedType
<1> HIDE DEF sent
<1>5. sent.next \in 2 .. Len(lines) /\ sent.next + 1 \in 1 .. Len(lines) + 1
  BY <1>2, <1>4
<1>6. received.headers \in Seq(Text) /\ received.body \in Seq(Text)
  BY <1>1, <1>5, ParsedType
<1> HIDE DEF received
<1>7. lines[1].text \in Text /\ lines[sent.next].text \in Text
  <2>1. lines[1] \in Line /\ lines[sent.next] \in Line
    BY <1>2, <1>5, ElementOfSeq
  <2>2. QED BY <2>1 DEF Line
<1>8. trace_to_soup_message(lines) \in Message
  BY <1>1, <1>4, <1>6, <1>7 DEF Message, Half, HalfOf
<1>9. QED BY <1>1, <1>3, <1>5, <1>8 DEF sent, received

\* trace_to_soup_message() returns a message or NULL.
LEMMA MessageType ==
    ASSUME NEW lines \in Seq(Line)
    PROVE  trace_to_soup_message(lines) \in Message \cup {None}
<1>1. CASE trace_to_soup_message(lines) # None
  BY <1>1, ParsedParts
<1>2. QED BY <1>1

\* A pair of any lines that trace_to_soup_message() takes for a message is one:
\* each of its lines is in the message, and the message has no other line, so
\* the parser ends where the pair does.
THEOREM ParsedIsWhole ==
    ASSUME NEW p, Unended(p), Parsed(p) # None
    PROVE  /\ Parsed(p) \in Message
           /\ IsWhole(p.request, Parsed(p).request)
           /\ IsWhole(p.response, Parsed(p).response)
<1> DEFINE lines == PairLines(p)
           a == Len(p.request)
           b == Len(p.response)
           sent == trace_to_soup_message_headers_and_body(lines, ">", 2)
           received == trace_to_soup_message_headers_and_body(lines, "<", sent.next + 1)
           m == Parsed(p)
<1>1. /\ p.request \in Seq(Line) /\ p.response \in Seq(Line)
      /\ a \in Nat /\ b \in Nat
      /\ lines \in Seq(Line) /\ Len(lines) = a + b + 2
      /\ \A k \in 1 .. a : lines[k] = p.request[k]
      /\ lines[a + 1] = End
      /\ \A k \in 1 .. b : lines[a + 1 + k] = p.response[k]
      /\ lines[a + b + 2] = End
  BY PairLinesAre DEF Unended
<1>2. \A k \in 1 .. Len(lines) : lines[k] = End <=> k \in {a + 1, Len(lines)}
  BY EndsAre
<1>3. m = trace_to_soup_message(lines) /\ m # None
  BY DEF Parsed
<1> HIDE DEF lines, m
<1>4. /\ StartsWith(lines, 1, ">", {"request"})
      /\ sent.ok /\ 2 \in 1 .. Len(lines) + 1
      /\ StartsWith(lines, sent.next, "<", {"status", "no_status"})
      /\ received.ok /\ sent.next \in 2 .. Len(lines)
      /\ m \in Message
      /\ m = [request |-> HalfOf(lines, 1, sent),
              response |-> HalfOf(lines, sent.next, received)]
  BY <1>1, <1>3, ParsedParts
<1> HIDE DEF a, b
<1>5. End.mark = " " /\ End.text = Blank /\ ~Colon(Blank)
  BY ReaderAssumption DEF End, Colon

\* The request.
<1>6. PICK i \in 2 .. Len(lines) + 1, k \in 2 .. Len(lines) + 1 :
         /\ i <= k
         /\ k > Len(lines) \/ lines[k] = End
         /\ sent.next = IF k > Len(lines) THEN k ELSE k + 1
         /\ sent.headers = Texts(lines, 2, i)
         /\ \/ k = i /\ sent.body = <<>>
            \/ /\ i < k
               /\ lines[i].text = Blank
               /\ sent.body = Texts(lines, i + 1, k)
  <2>1. \E i \in 2 .. Len(lines) + 1 : \E k \in i .. Len(lines) + 1 :
           /\ i = 2 \/ Colon(lines[i - 1].text)
           /\ k > Len(lines) \/ lines[k] = End
           /\ sent.next = IF k > Len(lines) THEN k ELSE k + 1
           /\ sent.headers = Texts(lines, 2, i)
           /\ \/ k = i /\ sent.body = <<>>
              \/ /\ i < k
                 /\ lines[i].text = Blank
                 /\ \A j \in i .. k - 1 : lines[j].mark = ">"
                 /\ sent.body = Texts(lines, i + 1, k)
    <3>1. lines \in Seq(Line) /\ 2 \in 1 .. Len(lines) + 1 /\ sent.ok
      BY <1>1, <1>4
    <3>2. QED BY <3>1, ParsedIs
  <2> HIDE DEF sent
  <2>2. QED BY <2>1
<1> HIDE DEF sent
<1>7. k = a + 1 /\ sent.next = a + 2 /\ a >= 1
  <2>1. k <= Len(lines) /\ lines[k] = End /\ k # Len(lines)
    BY <1>1, <1>4, <1>6
  <2>2. k = a + 1
    BY <1>2, <1>6, <2>1
  <2>3. QED BY <1>1, <1>6, <2>1, <2>2
<1>8. IsWhole(p.request, m.request)
  <2>1. m.request = [start |-> lines[1].text, headers |-> sent.headers,
                     body |-> sent.body]
    BY <1>4 DEF HalfOf
  <2>2. m.request \in Half
    BY <1>4 DEF Message
  <2> DEFINE o == 0
  <2>3. /\ o \in Nat /\ o + 2 = 2 /\ o + a + 1 = a + 1
        /\ p.request # <<>> /\ o + a <= Len(lines)
        /\ \A j \in 1 .. a : lines[o + j] = p.request[j]
        /\ lines[1] = p.request[1]
    <3>1. p.request # <<>>
      BY <1>7 DEF a
    <3>2. \A j \in 1 .. a : lines[o + j] = p.request[j]
      <4>1. \A j \in 1 .. a : o + j = j
        BY <1>1
      <4>2. QED BY <1>1, <4>1
    <3>3. lines[1] = p.request[1]
      <4>1. 1 \in 1 .. a
        BY <1>1, <1>7
      <4>2. QED BY <1>1, <4>1
    <3>4. /\ o \in Nat /\ o + 2 = 2 /\ o + a + 1 = a + 1
          /\ o + a <= Len(lines)
      BY <1>1
    <3>5. QED BY <3>1, <3>2, <3>3, <3>4
  <2> HIDE DEF o
  <2>4. k = o + a + 1 /\ i \in o + 2 .. o + a + 1
    BY <1>1, <1>6, <1>7, <2>3
  <2>5. /\ m.request.start = p.request[1].text
        /\ m.request.headers = Texts(lines, o + 2, i)
        /\ \/ i = o + a + 1 /\ m.request.body = <<>>
           \/ /\ i < o + a + 1
              /\ lines[i].text = Blank
              /\ m.request.body = Texts(lines, i + 1, o + a + 1)
    BY <1>6, <2>1, <2>3, <2>4
  <2>6. QED
    BY <1>1, <2>2, <2>3, <2>4, <2>5, BlockIsWhole DEF a

\* The response.
<1>9. lines[a + 2].mark = "<" /\ a + 2 <= Len(lines)
  BY <1>4, <1>7 DEF StartsWith
<1>10. b >= 1
  <2>1. a + 2 # Len(lines)
    BY <1>1, <1>5, <1>9
  <2>2. QED BY <1>1, <1>9, <2>1
<1>11. PICK s \in a + 3 .. Len(lines) + 1, t \in a + 3 .. Len(lines) + 1 :
         /\ s <= t
         /\ s = a + 3 \/ Colon(lines[s - 1].text)
         /\ t > Len(lines) \/ lines[t] = End
         /\ received.headers = Texts(lines, a + 3, s)
         /\ \/ t = s /\ received.body = <<>>
            \/ /\ s < t
               /\ lines[s].text = Blank
               /\ \A j \in s .. t - 1 : lines[j].mark = "<"
               /\ received.body = Texts(lines, s + 1, t)
  <2> DEFINE start == sent.next + 1
  <2>1. start = a + 3 /\ start \in 1 .. Len(lines) + 1
    BY <1>1, <1>7, <1>9
  <2> HIDE DEF start
  <2>2. received = trace_to_soup_message_headers_and_body(lines, "<", start)
    BY DEF start
  <2>3. \E s \in start .. Len(lines) + 1 : \E t \in s .. Len(lines) + 1 :
           /\ s = start \/ Colon(lines[s - 1].text)
           /\ t > Len(lines) \/ lines[t] = End
           /\ received.next = IF t > Len(lines) THEN t ELSE t + 1
           /\ received.headers = Texts(lines, start, s)
           /\ \/ t = s /\ received.body = <<>>
              \/ /\ s < t
                 /\ lines[s].text = Blank
                 /\ \A j \in s .. t - 1 : lines[j].mark = "<"
                 /\ received.body = Texts(lines, s + 1, t)
    <3>1. lines \in Seq(Line) /\ start \in 1 .. Len(lines) + 1
      BY <1>1, <2>1
    <3>2. trace_to_soup_message_headers_and_body(lines, "<", start).ok
      BY <1>4, <2>2
    <3> HIDE DEF received
    <3>3. QED BY <2>2, <3>1, <3>2, ParsedIs
  <2> HIDE DEF received
  <2>4. QED BY <2>1, <2>3
<1> HIDE DEF received
<1>12. t = a + b + 2
  <2>1. t # Len(lines) + 1
    <3>1. SUFFICES ASSUME t = Len(lines) + 1 PROVE FALSE
      OBVIOUS
    <3>2. CASE t = s
      <4>1. s # a + 3
        BY <1>1, <1>10, <3>1, <3>2
      <4>2. s - 1 = Len(lines) /\ Len(lines) = a + b + 2
        BY <1>1, <3>1, <3>2
      <4>3. Colon(lines[s - 1].text)
        BY <1>11, <4>1
      <4>4. Colon(lines[a + b + 2].text)
        BY <4>2, <4>3
      <4>5. QED BY <1>1, <1>5, <4>4
    <3>3. CASE s < t
      <4>1. Len(lines) \in Nat /\ a \in Nat
        BY <1>1
      <4>2. Len(lines) \in s .. t - 1
        BY <3>1, <3>3, <4>1
      <4>3. lines[Len(lines)].mark = "<"
        BY <1>11, <3>3, <4>2
      <4>4. QED BY <1>1, <1>5, <4>3
    <3>4. QED BY <1>11, <3>2, <3>3
  <2>2. t \in 1 .. Len(lines) /\ lines[t] = End /\ t > a + 1
    BY <1>1, <1>11, <2>1
  <2>3. QED BY <1>1, <1>2, <2>2
<1>13. IsWhole(p.response, m.response)
  <2> DEFINE o == a + 1
  <2>1. m.response = [start |-> lines[a + 2].text, headers |-> received.headers,
                      body |-> received.body]
    BY <1>4, <1>7 DEF HalfOf
  <2>2. m.response \in Half
    BY <1>4 DEF Message
  <2>3. /\ o \in Nat /\ o + 2 = a + 3 /\ o + b + 1 = a + b + 2
        /\ p.response # <<>> /\ o + b <= Len(lines)
        /\ \A j \in 1 .. b : lines[o + j] = p.response[j]
        /\ lines[a + 2] = p.response[1]
    <3>1. 1 \in 1 .. b /\ a + 1 + 1 = a + 2
      BY <1>1, <1>10
    <3>2. lines[a + 2] = p.response[1]
      BY <1>1, <3>1
    <3>3. p.response # <<>>
      BY <1>10 DEF b
    <3>4. \A j \in 1 .. b : lines[a + 1 + j] = p.response[j]
      BY <1>1
    <3>5. /\ o \in Nat /\ o + 2 = a + 3 /\ o + b + 1 = a + b + 2
          /\ o + b <= Len(lines)
      BY <1>1
    <3>6. QED BY <3>2, <3>3, <3>4, <3>5
  <2> HIDE DEF o
  <2>4. s \in o + 2 .. o + b + 1 /\ t = o + b + 1
    BY <1>1, <1>11, <1>12, <2>3
  <2>5. /\ m.response.start = p.response[1].text
        /\ m.response.headers = Texts(lines, o + 2, s)
        /\ \/ s = o + b + 1 /\ m.response.body = <<>>
           \/ /\ s < o + b + 1
              /\ lines[s].text = Blank
              /\ m.response.body = Texts(lines, s + 1, o + b + 1)
    BY <1>11, <2>1, <2>3, <2>4
  <2>6. QED
    BY <1>1, <2>2, <2>3, <2>4, <2>5, BlockIsWhole DEF b
<1>14. QED BY <1>4, <1>8, <1>13 DEF m
-------------------------------------------------------------------------------
(* What was printed is parsed.                                                *)

\* The lines SoupLogger prints of a half.
LEMMA PrintedBlock ==
    ASSUME NEW h \in Half, NEW d \in {">", "<"}
    PROVE  /\ soup_logger_print(d, h) \in Seq(Line)
           /\ Len(soup_logger_print(d, h)) = Len(TextsOf(h))
           /\ \A k \in 1 .. Len(TextsOf(h)) :
                 soup_logger_print(d, h)[k] = [mark |-> d, text |-> TextsOf(h)[k]]
           /\ \A k \in DOMAIN soup_logger_print(d, h) :
                 soup_logger_print(d, h)[k] # End
<1>1. TextsOf(h) \in Seq(Text)
  BY TextsOfIs
<1> DEFINE texts == TextsOf(h)
           n == Len(texts)
<1>2. /\ n \in Nat /\ DOMAIN texts = 1 .. n
      /\ \A k \in 1 .. n : texts[k] \in Text
  BY <1>1
<1>3. soup_logger_print(d, h) = [k \in 1 .. n |-> [mark |-> d, text |-> texts[k]]]
  BY <1>2 DEF soup_logger_print, Marked
<1> HIDE DEF texts, n
<1>4. \A k \in 1 .. n : [mark |-> d, text |-> texts[k]] \in Line
  BY <1>2 DEF Line, Mark
<1>5. soup_logger_print(d, h) \in Seq(Line) /\ Len(soup_logger_print(d, h)) = n
  BY <1>2, <1>3, <1>4
<1>6. ASSUME NEW k \in 1 .. n PROVE soup_logger_print(d, h)[k] # End
  <2>1. soup_logger_print(d, h)[k].mark = d
    BY <1>3
  <2>2. End.mark = " " /\ d # " "
    BY DEF End
  <2>3. QED BY <2>1, <2>2
<1>7. QED BY <1>3, <1>5, <1>6 DEF texts, n

\* The lines behind line o are those of h, and an end.
PrintedAt(lines, d, h, o) ==
    LET l == Len(TextsOf(h))
    IN  /\ o + l + 1 <= Len(lines)
        /\ \A j \in 1 .. l : lines[o + j] = [mark |-> d, text |-> TextsOf(h)[j]]
        /\ lines[o + l + 1] = End

Headed(h) == \A k \in DOMAIN h.headers : Class[h.headers[k]] = "header"

\* What was printed of a half is parsed as that half.
LEMMA PrintedIsParsed ==
    ASSUME NEW lines \in Seq(Line), NEW d \in {">", "<"}, NEW h \in Half,
           Headed(h), NEW o \in Nat, PrintedAt(lines, d, h, o)
    PROVE  LET parsed == trace_to_soup_message_headers_and_body(lines, d, o + 2)
           IN  /\ parsed.ok /\ parsed.next = o + Len(TextsOf(h)) + 2
               /\ parsed.headers = h.headers /\ parsed.body = h.body
<1> DEFINE l == Len(TextsOf(h))
           n == Len(h.headers)
           b == Len(h.body)
           start == o + 2
           i0 == o + 2 + n
           starts == {start} \cup
                     {j + 1 : j \in {k \in start .. Len(lines) : Colon(lines[k].text)}}
           Ends(k) == k > Len(lines) \/ lines[k].mark # d \/ lines[k].text = Blank
           S == {k \in starts : Ends(k)}
           texts == TextsOf(h)
<1>1. /\ h.headers \in Seq(Text) /\ h.body \in Seq(Text)
      /\ n \in Nat /\ b \in Nat /\ l \in Nat
      /\ h.body = <<>> => l = 1 + n
      /\ h.body # <<>> => l = 2 + n + b /\ b # 0
  <2>1. h.headers \in Seq(Text) /\ h.body \in Seq(Text)
    BY DEF Half
  <2>2. l = 1 + n + (IF h.body = <<>> THEN 0 ELSE 1 + b)
    BY TextsOfIs
  <2>3. n \in Nat /\ b \in Nat /\ (h.body # <<>> => b # 0)
    BY <2>1
  <2> HIDE DEF l, n, b
  <2>4. QED BY <2>1, <2>2, <2>3
<1>2. Class[Blank] = "words" /\ End.mark = " " /\ End.text = Blank /\ d # " "
  BY ReaderAssumption DEF End
<1>3. /\ o + l + 1 <= Len(lines)
      /\ \A j \in 1 .. l : lines[o + j] = [mark |-> d, text |-> texts[j]]
      /\ lines[o + l + 1] = End
  BY DEF PrintedAt
<1> HIDE DEF l
<1>4. /\ n \in Nat /\ b \in Nat /\ l \in Nat /\ Len(lines) \in Nat
      /\ h.body = <<>> => l = 1 + n
      /\ h.body # <<>> => l = 2 + n + b /\ b # 0
      /\ o + l + 1 <= Len(lines)
  <2>1. Len(lines) \in Nat
    OBVIOUS
  <2>2. o + l + 1 <= Len(lines)
    BY <1>3
  <2>3. QED BY <1>1, <2>1, <2>2
<1>5. \A j \in 1 .. n : /\ texts[1 + j] = h.headers[j]
                        /\ Class[h.headers[j]] = "header"
  <2>1. \A j \in 1 .. n : texts[1 + j] = h.headers[j]
    BY TextsOfIs
  <2>2. DOMAIN h.headers = 1 .. n
    BY <1>1
  <2>3. QED BY <2>1, <2>2 DEF Headed
<1> HIDE DEF texts, n, b
<1>6. ASSUME NEW y \in start .. i0 - 1
      PROVE  /\ y <= Len(lines)
             /\ lines[y].mark = d
             /\ lines[y].text = h.headers[y - start + 1]
             /\ Class[lines[y].text] = "header"
  <2>1. y - start + 1 \in 1 .. n /\ y - o \in 1 .. l /\ y = o + (y - o)
        /\ y - o = 1 + (y - start + 1)
    BY <1>4
  <2>2. lines[y] = [mark |-> d, text |-> texts[y - o]]
    BY <1>3, <2>1
  <2>3. texts[y - o] = h.headers[y - start + 1]
    BY <1>5, <2>1
  <2>4. y <= Len(lines)
    BY <1>4
  <2>5. QED BY <1>5, <2>1, <2>2, <2>3, <2>4
<1>7. i0 \in start .. Len(lines) /\ i0 \in Nat
  BY <1>4
<1>8. i0 \in starts
  <2>1. CASE n = 0
    BY <2>1
  <2>2. CASE n # 0
    <3>1. i0 - 1 \in start .. i0 - 1 /\ i0 - 1 \in start .. Len(lines)
      BY <1>4, <1>7, <2>2
    <3>2. Colon(lines[i0 - 1].text)
      BY <1>6, <3>1 DEF Colon
    <3>3. i0 = (i0 - 1) + 1
      BY <1>7
    <3> HIDE DEF i0, start
    <3>4. QED BY <3>1, <3>2, <3>3
  <2>3. QED BY <2>1, <2>2
<1>9. /\ h.body = <<>> => i0 = o + l + 1 /\ lines[i0] = End
      /\ h.body # <<>> => lines[i0] = [mark |-> d, text |-> Blank]
  <2>1. CASE h.body = <<>>
    <3>1. i0 = o + l + 1
      BY <1>4, <2>1
    <3>2. QED BY <1>3, <2>1, <3>1
  <2>2. CASE h.body # <<>>
    <3>1. 2 + n \in 1 .. l /\ i0 = o + (2 + n)
      BY <1>4, <2>2
    <3>2. texts[2 + n] = Blank
      BY <2>2, TextsOfIs DEF texts, n
    <3>3. QED BY <1>3, <2>2, <3>1, <3>2
  <2>3. QED BY <2>1, <2>2
<1>10. Ends(i0)
  <2> HIDE DEF i0
  <2>1. CASE h.body = <<>>
    BY <1>2, <1>9, <2>1
  <2>2. CASE h.body # <<>>
    BY <1>9, <2>2
  <2>3. QED BY <2>1, <2>2
<1>11. ASSUME NEW y \in S PROVE i0 <= y
  <2>1. y \in starts /\ Ends(y)
    OBVIOUS
  <2>2. y \in start .. Len(lines) + 1
    BY <1>7, <2>1
  <2>3. ASSUME y < i0 PROVE FALSE
    <3>1. y \in start .. i0 - 1
      BY <1>7, <2>2, <2>3
    <3>2. y <= Len(lines) /\ lines[y].mark = d /\ Class[lines[y].text] = "header"
      BY <1>6, <3>1
    <3>3. lines[y].text # Blank
      BY <1>2, <3>2
    <3>4. y \in Nat
      BY <3>1
    <3> HIDE DEF i0, start, starts
    <3>5. QED BY <1>4, <2>1, <3>2, <3>3, <3>4
  <2>4. QED BY <1>7, <2>2, <2>3
<1>12. Min(S) = i0
  <2>1. S \in SUBSET Nat
    BY <1>4
  <2>2. i0 \in S
    BY <1>8, <1>10
  <2> HIDE DEF S, i0
  <2>3. QED BY <1>11, <2>1, <2>2, LeastIsMin
<1>13. Texts(lines, start, i0) = h.headers
  <2>1. start \in 1 .. Len(lines) + 1 /\ i0 \in start .. Len(lines) + 1 /\ i0 - start = n
    BY <1>4, <1>7
  <2>2. ASSUME NEW j \in 1 .. n PROVE lines[start + j - 1].text = h.headers[j]
    <3>1. start + j - 1 \in start .. i0 - 1 /\ start + j - 1 - start + 1 = j
      BY <1>4
    <3>2. QED BY <1>6, <3>1
  <2> HIDE DEF start, i0
  <2>3. /\ Texts(lines, start, i0) \in Seq(Text)
        /\ Len(Texts(lines, start, i0)) = n
        /\ \A j \in 1 .. n : Texts(lines, start, i0)[j] = h.headers[j]
    BY <2>1, <2>2, TextsType
  <2>4. QED BY <1>1, <2>3, SameTexts DEF n
<1> DEFINE i == Min(S)
           block == IF i <= Len(lines) /\ lines[i].mark = d THEN body(lines, d, i + 1)
                    ELSE Finished(lines, i)
           parsed == trace_to_soup_message_headers_and_body(lines, d, start)
           fails == (\A k \in starts : ~Ends(k)) \/
                    \E k \in start .. i - 1 : Class[lines[k].text] = "url"
<1>14. parsed = IF fails THEN Failed
                ELSE [block EXCEPT !.headers = Texts(lines, start, i)]
  BY DEF trace_to_soup_message_headers_and_body
<1>15. ~fails
  <2>1. ~\A k \in starts : ~Ends(k)
    <3> HIDE DEF starts, i0
    <3>1. QED BY <1>8, <1>10
  <2>2. \A k \in start .. i0 - 1 : Class[lines[k].text] # "url"
    BY <1>6
  <2> HIDE DEF i0, start, starts, S
  <2>3. QED BY <1>12, <2>1, <2>2
<1>16. parsed = [block EXCEPT !.headers = h.headers]
  <2> HIDE DEF parsed, fails, block, i0, start, S
  <2>1. QED BY <1>12, <1>13, <1>14, <1>15
<1>17. CASE h.body = <<>>
  <2>1. block = Finished(lines, i0)
    <3> HIDE DEF i0, S
    <3>1. QED BY <1>2, <1>9, <1>12, <1>17
  <2>2. Finished(lines, i0) = [ok |-> TRUE, next |-> i0 + 1, headers |-> <<>>,
                               body |-> <<>>]
    <3>1. ~(i0 > Len(lines)) /\ lines[i0] = End
      BY <1>7, <1>9, <1>17
    <3> HIDE DEF i0
    <3>2. QED BY <3>1 DEF Finished, Failed
  <2>3. i0 + 1 = o + l + 2
    BY <1>4, <1>17
  <2> HIDE DEF block, parsed, i0
  <2>4. block = [ok |-> TRUE, next |-> o + l + 2, headers |-> <<>>, body |-> <<>>]
    BY <2>1, <2>2, <2>3
  <2>5. /\ parsed.ok /\ parsed.next = o + l + 2
        /\ parsed.headers = h.headers /\ parsed.body = h.body
    BY <1>16, <1>17, <2>4
  <2>6. QED BY <2>5 DEF parsed, l
<1>18. CASE h.body # <<>>
  <2> DEFINE stop == o + l + 1
             from == i0 + 1
             T == {k \in from .. Len(lines) + 1 : k > Len(lines) \/ lines[k].mark # d}
  <2>1. b \in Nat \ {0} /\ stop = from + b /\ from \in Nat /\ stop \in from .. Len(lines)
        /\ from = o + (3 + n)
    BY <1>4, <1>18
  <2>2. ASSUME NEW y \in from .. stop - 1
        PROVE  lines[y].mark = d /\ lines[y].text = h.body[y - from + 1]
    <3>1. /\ y \in Nat /\ y >= o + 2 + n + 1 /\ y <= o + l /\ l = 2 + n + b
      BY <1>4, <1>18
    <3>2. y - from + 1 \in 1 .. b /\ y - o \in 1 .. l /\ y = o + (y - o)
          /\ y - o = 2 + n + (y - from + 1)
      BY <1>4, <3>1
    <3>3. lines[y] = [mark |-> d, text |-> texts[y - o]]
      BY <1>3, <3>2
    <3>4. \A j \in 1 .. b : texts[2 + n + j] = h.body[j]
      BY <1>18, TextsOfIs DEF texts, n, b
    <3>5. QED BY <3>2, <3>3, <3>4
  <2>3. Stop(lines, d, from) = stop
    <3>1. T \in SUBSET Nat /\ stop \in T
      <4> HIDE DEF from
      <4>1. lines[stop].mark # d
        BY <1>2, <1>3
      <4>2. stop \in from .. Len(lines) + 1 /\ lines[stop].mark # d
        BY <1>4, <2>1, <4>1
      <4>3. QED BY <1>4, <2>1, <4>2
    <3>2. ASSUME NEW y \in T PROVE stop <= y
      <4>1. y \in from .. Len(lines) + 1 /\ (y > Len(lines) \/ lines[y].mark # d)
        OBVIOUS
      <4>2. ASSUME y < stop PROVE FALSE
        <5> HIDE DEF stop, from, T
        <5>1. y \in from .. stop - 1
          BY <1>4, <2>1, <4>1, <4>2
        <5>2. lines[y].mark = d
          BY <2>2, <5>1
        <5>3. y <= Len(lines)
          BY <1>4, <2>1, <5>1
        <5>4. QED BY <1>4, <2>1, <4>1, <5>1, <5>2, <5>3
      <4> HIDE DEF stop, from, T
      <4>3. QED BY <1>4, <2>1, <4>1, <4>2
    <3>3. Stop(lines, d, from) = Min(T)
      BY DEF Stop
    <3> HIDE DEF T, stop, from
    <3>4. QED BY <3>1, <3>2, <3>3, LeastIsMin
  <2>4. Texts(lines, from, stop) = h.body
    <3>1. from \in 1 .. Len(lines) + 1 /\ stop \in from .. Len(lines) + 1 /\ stop - from = b
      BY <1>4, <2>1
    <3>2. ASSUME NEW j \in 1 .. b PROVE lines[from + j - 1].text = h.body[j]
      <4> DEFINE y == from + j - 1
      <4>1. y \in from .. stop - 1 /\ y - from + 1 = j
        BY <1>4, <2>1
      <4> HIDE DEF y
      <4>2. lines[y].text = h.body[y - from + 1]
        BY <2>2, <4>1
      <4>3. QED BY <4>1, <4>2 DEF y
    <3> HIDE DEF from, stop
    <3>3. /\ Texts(lines, from, stop) \in Seq(Text)
          /\ Len(Texts(lines, from, stop)) = b
          /\ \A j \in 1 .. b : Texts(lines, from, stop)[j] = h.body[j]
      BY <3>1, <3>2, TextsType
    <3>4. QED BY <1>1, <3>3, SameTexts DEF b
  <2>5. block = body(lines, d, from)
    <3>1. i0 <= Len(lines) /\ lines[i0].mark = d
      BY <1>7, <1>9, <1>18
    <3> HIDE DEF i0, S
    <3>2. QED BY <1>12, <3>1
  <2>6. body(lines, d, from) = [Finished(lines, stop) EXCEPT !.body = h.body]
    <3> HIDE DEF from, stop
    <3>1. QED BY <2>3, <2>4 DEF body
  <2>7. Finished(lines, stop) = [ok |-> TRUE, next |-> stop + 1, headers |-> <<>>,
                                 body |-> <<>>]
    <3>1. ~(stop > Len(lines)) /\ lines[stop] = End
      BY <1>4, <1>3
    <3> HIDE DEF stop
    <3>2. QED BY <3>1 DEF Finished, Failed
  <2>8. stop + 1 = o + l + 2
    BY <1>4
  <2> HIDE DEF stop, from, block, parsed
  <2>9. block.ok /\ block.next = o + l + 2 /\ block.body = h.body
        /\ DOMAIN block = {"ok", "next", "headers", "body"}
    BY <2>5, <2>6, <2>7, <2>8
  <2>10. /\ parsed.ok /\ parsed.next = o + l + 2
         /\ parsed.headers = h.headers /\ parsed.body = h.body
    BY <1>16, <2>9
  <2>11. QED BY <2>10 DEF parsed, l
<1>19. QED BY <1>17, <1>18

\* What SoupLogger prints of a message, trace_to_soup_message() reads: the same
\* message, with each header and each line of both bodies, whatever they are.
THEOREM PrintedPair ==
    ASSUME NEW m \in Printable, NEW p,
           p = [request |-> soup_logger_print(">", m.request),
                response |-> soup_logger_print("<", m.response)]
    PROVE  Unended(p) /\ Parsed(p) = m
<1> DEFINE lines == PairLines(p)
           a == Len(TextsOf(m.request))
           b == Len(TextsOf(m.response))
           sent == trace_to_soup_message_headers_and_body(lines, ">", 2)
           received == trace_to_soup_message_headers_and_body(lines, "<", sent.next + 1)
<1>1. /\ m \in Message /\ m.request \in Half /\ m.response \in Half
      /\ Headed(m.request) /\ Headed(m.response)
      /\ Class[m.request.start] = "request"
      /\ Class[m.response.start] \in {"status", "no_status"}
  BY DEF Printable, Message, Headed
<1>2. /\ p.request \in Seq(Line) /\ Len(p.request) = a
      /\ \A k \in 1 .. a : p.request[k] = [mark |-> ">", text |-> TextsOf(m.request)[k]]
      /\ \A k \in DOMAIN p.request : p.request[k] # End
  <2>1. p.request = soup_logger_print(">", m.request)
    OBVIOUS
  <2>2. QED BY <1>1, <2>1, PrintedBlock
<1>3. /\ p.response \in Seq(Line) /\ Len(p.response) = b
      /\ \A k \in 1 .. b : p.response[k] = [mark |-> "<", text |-> TextsOf(m.response)[k]]
      /\ \A k \in DOMAIN p.response : p.response[k] # End
  <2>1. p.response = soup_logger_print("<", m.response)
    OBVIOUS
  <2>2. QED BY <1>1, <2>1, PrintedBlock
<1>4. p \in Pair
  BY <1>2, <1>3 DEF Pair
<1>5. Unended(p)
  BY <1>2, <1>3, <1>4 DEF Unended
<1>6. /\ a \in Nat \ {0} /\ b \in Nat \ {0}
      /\ TextsOf(m.request)[1] = m.request.start
      /\ TextsOf(m.response)[1] = m.response.start
  <2>1. TextsOf(m.request) \in Seq(Text) /\ TextsOf(m.response) \in Seq(Text)
    BY <1>1, TextsOfIs
  <2>2. \A h \in Half : Len(h.headers) \in Nat /\ Len(h.body) \in Nat
    BY DEF Half
  <2>3. ASSUME NEW h \in Half PROVE Len(TextsOf(h)) >= 1
    <3>1. Len(TextsOf(h)) = 1 + Len(h.headers)
                              + (IF h.body = <<>> THEN 0 ELSE 1 + Len(h.body))
      BY TextsOfIs
    <3> DEFINE l == Len(TextsOf(h))
               x == Len(h.headers)
               y == Len(h.body)
    <3>2. x \in Nat /\ y \in Nat
      BY <2>2
    <3>3. l = 1 + x + (IF h.body = <<>> THEN 0 ELSE 1 + y)
      BY <3>1
    <3> HIDE DEF l, x, y
    <3>4. l >= 1
      BY <3>2, <3>3
    <3>5. QED BY <3>4 DEF l
  <2>4. a >= 1 /\ b >= 1
    BY <1>1, <2>3
  <2>5. a \in Nat /\ b \in Nat
    BY <2>1
  <2> HIDE DEF a, b
  <2>6. /\ TextsOf(m.request)[1] = m.request.start
        /\ TextsOf(m.response)[1] = m.response.start
    BY <1>1, TextsOfIs
  <2>7. a \in Nat \ {0} /\ b \in Nat \ {0}
    BY <2>4, <2>5
  <2>8. QED BY <2>6, <2>7
<1> HIDE DEF a, b
<1>7. /\ lines \in Seq(Line) /\ Len(lines) = a + b + 2
      /\ \A k \in 1 .. a : lines[k] = p.request[k]
      /\ lines[a + 1] = End
      /\ \A k \in 1 .. b : lines[a + 1 + k] = p.response[k]
      /\ lines[a + b + 2] = End
  BY <1>2, <1>3, <1>4, PairLinesAre
<1> HIDE DEF lines
<1>8. PrintedAt(lines, ">", m.request, 0)
  <2>1. /\ 0 + a + 1 <= Len(lines) /\ 0 + a + 1 = a + 1
        /\ \A j \in 1 .. a : 0 + j = j
    BY <1>6, <1>7
  <2>2. \A j \in 1 .. a : lines[0 + j] = [mark |-> ">", text |-> TextsOf(m.request)[j]]
    BY <1>2, <1>7, <2>1
  <2>3. lines[0 + a + 1] = End
    BY <1>7, <2>1
  <2>4. QED BY <2>1, <2>2, <2>3 DEF PrintedAt, a
<1>9. PrintedAt(lines, "<", m.response, a + 1)
  <2>1. a + 1 + b + 1 <= Len(lines) /\ a + 1 + b + 1 = a + b + 2
    BY <1>6, <1>7
  <2>2. \A j \in 1 .. b : lines[a + 1 + j] = [mark |-> "<", text |-> TextsOf(m.response)[j]]
    BY <1>3, <1>7
  <2>3. lines[a + 1 + b + 1] = End
    BY <1>7, <2>1
  <2>4. QED BY <2>1, <2>2, <2>3 DEF PrintedAt, b
<1>10. /\ sent.ok /\ sent.next = a + 2
       /\ sent.headers = m.request.headers /\ sent.body = m.request.body
  <2> DEFINE o == 0
             parsed == trace_to_soup_message_headers_and_body(lines, ">", o + 2)
  <2>1. o \in Nat /\ o + 2 = 2 /\ o + a + 2 = a + 2 /\ PrintedAt(lines, ">", m.request, o)
    BY <1>6, <1>8
  <2> HIDE DEF o
  <2>2. /\ parsed.ok /\ parsed.next = o + a + 2
        /\ parsed.headers = m.request.headers /\ parsed.body = m.request.body
    BY <1>1, <1>7, <2>1, PrintedIsParsed DEF a
  <2>3. QED BY <2>1, <2>2
<1> HIDE DEF sent
<1>11. /\ received.ok
       /\ received.headers = m.response.headers /\ received.body = m.response.body
  <2> DEFINE o == a + 1
             parsed == trace_to_soup_message_headers_and_body(lines, "<", o + 2)
  <2>1. o \in Nat /\ sent.next + 1 = o + 2 /\ PrintedAt(lines, "<", m.response, o)
    BY <1>6, <1>9, <1>10
  <2> HIDE DEF o
  <2>2. parsed.ok /\ parsed.headers = m.response.headers
        /\ parsed.body = m.response.body
    BY <1>1, <1>7, <2>1, PrintedIsParsed
  <2>3. QED BY <2>1, <2>2
<1> HIDE DEF received
<1>12. /\ 1 <= Len(lines) /\ a + 2 <= Len(lines)
       /\ lines[1] = [mark |-> ">", text |-> m.request.start]
       /\ lines[a + 2] = [mark |-> "<", text |-> m.response.start]
  <2>1. 1 \in 1 .. a /\ 1 \in 1 .. b /\ a + 2 = a + 1 + 1
    BY <1>6
  <2>2. lines[1] = p.request[1] /\ lines[a + 2] = p.response[1]
    BY <1>7, <2>1
  <2>3. 1 <= Len(lines) /\ a + 2 <= Len(lines)
    BY <1>6, <1>7
  <2>4. QED BY <1>2, <1>3, <1>6, <2>1, <2>2, <2>3
<1>13. /\ StartsWith(lines, 1, ">", {"request"})
       /\ StartsWith(lines, sent.next, "<", {"status", "no_status"})
  BY <1>1, <1>10, <1>12 DEF StartsWith
<1>14. trace_to_soup_message(lines) =
          [request |-> HalfOf(lines, 1, sent),
           response |-> HalfOf(lines, sent.next, received)]
  BY <1>10, <1>11, <1>13 DEF trace_to_soup_message, sent, received
<1>15. HalfOf(lines, 1, sent) = m.request
  <2>1. HalfOf(lines, 1, sent) = [start |-> m.request.start,
                                  headers |-> m.request.headers,
                                  body |-> m.request.body]
    BY <1>10, <1>12 DEF HalfOf
  <2>2. QED BY <1>1, <2>1 DEF Half
<1>16. HalfOf(lines, sent.next, received) = m.response
  <2>1. HalfOf(lines, sent.next, received) = [start |-> m.response.start,
                                              headers |-> m.response.headers,
                                              body |-> m.response.body]
    BY <1>10, <1>11, <1>12 DEF HalfOf
  <2>2. QED BY <1>1, <2>1 DEF Half
<1>17. Parsed(p) = m
  BY <1>1, <1>14, <1>15, <1>16 DEF Parsed, Message, lines
<1>18. QED BY <1>5, <1>17
-------------------------------------------------------------------------------
(* Places.                                                                    *)

\* What the file is, which no step changes.
FileGiven ==
    /\ file \in Files
    /\ recorded # None => recorded \in Recording /\ file = Printed(recorded)

\* A file is a sequence of pairs, none of whose lines is an end.
LEMMA FilesAre ==
    ASSUME NEW f \in Files
    PROVE  f \in Seq(Pair) /\ \A i \in DOMAIN f : Unended(f[i])
<1>1. CASE f \in Damaged
  <2>1. f \in Seq(Pair)
    BY <1>1, ReaderAssumption
  <2>2. ASSUME NEW i \in DOMAIN f PROVE Unended(f[i])
    <3>1. f[i] \in Pair
      BY <2>1
    <3>2. \A l \in {"request", "response"} : \A k \in DOMAIN f[i][l] : f[i][l][k] # End
      BY <1>1, ReaderAssumption
    <3>3. QED BY <3>1, <3>2 DEF Unended
  <2>3. QED BY <2>1, <2>2
<1>2. CASE \E ms \in Recording : f = Printed(ms)
  <2>1. PICK ms \in Recording : f = Printed(ms)
    BY <1>2
  <2>2. ms \in Seq(Printable)
    BY ReaderAssumption
  <2>3. /\ DOMAIN f = 1 .. Len(ms) /\ Len(ms) \in Nat
        /\ \A i \in 1 .. Len(ms) :
              f[i] = [request |-> soup_logger_print(">", ms[i].request),
                      response |-> soup_logger_print("<", ms[i].response)]
    BY <2>1, <2>2 DEF Printed
  <2>4. ASSUME NEW i \in 1 .. Len(ms) PROVE Unended(f[i])
    BY <2>2, <2>3, PrintedPair
  <2>5. \A i \in 1 .. Len(ms) : f[i] \in Pair
    BY <2>4 DEF Unended
  <2>6. f = [i \in 1 .. Len(ms) |-> f[i]]
    BY <2>1, <2>3 DEF Printed
  <2>7. f \in Seq(Pair)
    BY <2>3, <2>5, <2>6
  <2>8. QED BY <2>3, <2>4, <2>7
<1>3. QED BY <1>1, <1>2 DEF Files

\* A place of the file.
LEMMA PlacesAre ==
    ASSUME FileGiven, NEW u \in Places(file)
    PROVE  /\ u \in Place /\ u.pair \in Nat /\ u.line \in Nat
           /\ u.pair \in 1 .. Len(file) + 1 /\ Len(file) \in Nat
           /\ EOF(u) <=> u.pair = Len(file) + 1
           /\ EOF(u) => u.line = 1
           /\ ~EOF(u) => /\ u.pair \in DOMAIN file
                         /\ Unended(file[u.pair])
                         /\ Lines(u.pair) = PairLines(file[u.pair])
                         /\ u.line \in 1 .. Len(Lines(u.pair))
<1>1. /\ file \in Seq(Pair) /\ Len(file) \in Nat /\ DOMAIN file = 1 .. Len(file)
      /\ \A i \in DOMAIN file : Unended(file[i])
  BY FilesAre DEF FileGiven
<1>2. u \in Place /\ u.pair \in Nat \ {0} /\ u.line \in Nat \ {0}
  BY DEF Places, Place
<1>3. \/ u.pair \in DOMAIN file /\ u.line <= Len(PairLines(file[u.pair]))
      \/ u.pair = Len(file) + 1 /\ u.line = 1
  BY DEF Places
<1>4. CASE u.pair \in DOMAIN file /\ u.line <= Len(PairLines(file[u.pair]))
  <2>1. ~EOF(u) /\ u.pair # Len(file) + 1
    BY <1>1, <1>2, <1>4 DEF EOF
  <2>2. Lines(u.pair) = PairLines(file[u.pair])
    BY <1>4 DEF Lines
  <2>3. Unended(file[u.pair]) /\ file[u.pair] \in Pair
    BY <1>1, <1>4 DEF Unended
  <2>4. Len(Lines(u.pair)) \in Nat
    BY <2>2, <2>3, PairLinesAre
  <2>5. u.line \in 1 .. Len(Lines(u.pair))
    BY <1>2, <1>4, <2>2, <2>4
  <2>6. u.pair \in 1 .. Len(file) + 1
    BY <1>1, <1>4
  <2>7. QED BY <1>1, <1>2, <1>4, <2>1, <2>2, <2>3, <2>5, <2>6
<1>5. CASE u.pair = Len(file) + 1 /\ u.line = 1
  BY <1>1, <1>2, <1>5 DEF EOF
<1>6. QED BY <1>3, <1>4, <1>5

\* The lengths of a pair.
LEMMA PairLengths ==
    ASSUME NEW p, Unended(p)
    PROVE  /\ Len(p.request) \in Nat /\ Len(PairLines(p)) \in Nat
           /\ Len(PairLines(p)) >= Len(p.request) + 2
           /\ PairLines(p) \in Seq(Line)
<1> DEFINE a == Len(p.request)
           b == Len(p.response)
           n == Len(PairLines(p))
<1>1. /\ a \in Nat /\ b \in Nat /\ n = a + b + 2
      /\ PairLines(p) \in Seq(Line)
  BY PairLinesAre DEF Unended
<1> HIDE DEF a, b, n
<1>2. n \in Nat /\ n >= a + 2
  BY <1>1
<1>3. QED BY <1>1, <1>2 DEF a, n

\* How many blocks end before a place.
LEMMA BlocksAre ==
    ASSUME FileGiven, NEW u \in Places(file)
    PROVE  /\ Blocks(u) \in Nat
           /\ InResponse(u) => Blocks(u) = 2 * u.pair - 1
           /\ ~InResponse(u) => Blocks(u) = 2 * u.pair - 2
           /\ EOF(u) => ~InResponse(u)
           /\ Blocks(u) <= 2 * Len(file)
           /\ u.line = 1 => ~InResponse(u)
<1>1. /\ u.pair \in Nat /\ u.pair \in 1 .. Len(file) + 1 /\ Len(file) \in Nat
      /\ EOF(u) <=> u.pair = Len(file) + 1
      /\ ~EOF(u) => Unended(file[u.pair])
  BY PlacesAre
<1>2. EOF(u) => ~InResponse(u)
  BY DEF InResponse
<1>3. Blocks(u) = 2 * (u.pair - 1) + (IF InResponse(u) THEN 1 ELSE 0)
  BY DEF Blocks
<1>4. u.line = 1 => ~InResponse(u)
  <2>1. SUFFICES ASSUME u.line = 1, InResponse(u) PROVE FALSE
    OBVIOUS
  <2>2. ~EOF(u) /\ 1 > Len(file[u.pair].request) + 1
    BY <2>1 DEF InResponse
  <2>3. Len(file[u.pair].request) \in Nat
    BY <1>1, <2>2, PairLengths
  <2>4. QED BY <2>2, <2>3
<1> DEFINE n == u.pair
           m == Len(file)
<1>5. /\ InResponse(u) => Blocks(u) = 2 * (n - 1) + 1
      /\ ~InResponse(u) => Blocks(u) = 2 * (n - 1)
      /\ n \in Nat /\ n >= 1 /\ n <= m + 1 /\ m \in Nat
      /\ InResponse(u) => n <= m
  BY <1>1, <1>2, <1>3
<1> HIDE DEF n, m
<1>6. /\ Blocks(u) \in Nat /\ Blocks(u) <= 2 * m
      /\ InResponse(u) => Blocks(u) = 2 * n - 1
      /\ ~InResponse(u) => Blocks(u) = 2 * n - 2
  BY <1>5
<1>7. QED BY <1>2, <1>4, <1>6 DEF n, m

\* The line at a place, and the place behind it.
LEMMA Follows ==
    ASSUME FileGiven, NEW u \in Places(file), ~EOF(u)
    PROVE  /\ Following(u) \in Places(file)
           /\ Lines(u.pair)[u.line] \in Line
           /\ \/ /\ u.line < Len(Lines(u.pair))
                 /\ Following(u).pair = u.pair
                 /\ Following(u).line = u.line + 1
              \/ /\ u.line = Len(Lines(u.pair))
                 /\ Following(u).pair = u.pair + 1
                 /\ Following(u).line = 1
           /\ Lines(u.pair)[u.line] # End => Blocks(Following(u)) = Blocks(u)
           /\ Lines(u.pair)[u.line] = End =>
                 /\ Blocks(Following(u)) = Blocks(u) + 1
                 /\ \/ Following(u).line = 1
                    \/ Lines(Following(u).pair)[Following(u).line - 1] = End
<1> DEFINE p == file[u.pair]
           v == Following(u)
           i == u.pair
           k == u.line
           a == Len(p.request)
           n == Len(PairLines(p))
<1>1. /\ u \in Place /\ i \in DOMAIN file /\ Unended(p)
      /\ Lines(i) = PairLines(p) /\ k \in 1 .. n
      /\ i \in 1 .. Len(file) + 1 /\ Len(file) \in Nat /\ i # Len(file) + 1
  BY PlacesAre
<1>2. a \in Nat /\ n \in Nat /\ n >= a + 2 /\ PairLines(p) \in Seq(Line)
  BY <1>1, PairLengths
<1>3. Lines(i)[k] \in Line
  BY <1>1, <1>2, ElementOfSeq
<1>4. Lines(i)[k] = End <=> k = a + 1 \/ k = n
  BY <1>1, EndsAre
<1>5. u = [pair |-> i, line |-> k]
  BY <1>1 DEF Place
<1>6. InResponse(u) <=> k > a + 1
  BY DEF InResponse
<1>7. file \in Seq(Pair)
  BY FilesAre DEF FileGiven
<1> HIDE DEF a, n, p
<1>8. CASE k < n
  <2>1. v = [pair |-> i, line |-> k + 1]
    <3>1. v = [u EXCEPT !.line = @ + 1]
      BY <1>1, <1>8 DEF Following, n
    <3>2. QED BY <1>5, <3>1
  <2>2. v.pair = i /\ v.line = k + 1 /\ v \in Place
    BY <1>1, <1>2, <2>1 DEF Place
  <2> HIDE DEF v, i, k
  <2>3. v \in Places(file)
    BY <1>1, <1>2, <1>8, <2>2 DEF Places, n, p, i
  <2>4. ~EOF(v)
    BY <1>1, <1>7, <2>2 DEF EOF, i
  <2>5. InResponse(v) <=> k + 1 > a + 1
    BY <2>2, <2>4 DEF InResponse, a, p, i
  <2>6. /\ Blocks(v) = 2 * (i - 1) + (IF InResponse(v) THEN 1 ELSE 0)
        /\ Blocks(u) = 2 * (i - 1) + (IF InResponse(u) THEN 1 ELSE 0)
    BY <2>2 DEF Blocks, i
  <2>7. CASE k = a + 1
    <3>1. InResponse(v) /\ ~InResponse(u) /\ Lines(i)[k] = End
      BY <1>2, <1>4, <1>6, <2>5, <2>7
    <3>2. Blocks(v) = Blocks(u) + 1
      BY <1>1, <2>6, <3>1
    <3>3. Lines(v.pair)[v.line - 1] = End
      <4>1. v.line - 1 = k
        BY <1>1, <2>2
      <4>2. QED BY <2>2, <3>1, <4>1
    <3>4. QED BY <1>1, <1>3, <1>8, <2>2, <2>3, <3>1, <3>2, <3>3 DEF v, i, k, n
  <2>8. CASE k # a + 1
    <3>1. (InResponse(v) <=> InResponse(u)) /\ Lines(i)[k] # End
      BY <1>1, <1>2, <1>4, <1>6, <1>8, <2>5, <2>8
    <3>2. Blocks(v) = Blocks(u)
      BY <2>6, <3>1
    <3>3. QED BY <1>1, <1>3, <1>8, <2>2, <2>3, <3>1, <3>2 DEF v, i, k, n
  <2>9. QED BY <2>7, <2>8
<1>9. CASE k = n
  <2>1. v = [pair |-> i + 1, line |-> 1]
    BY <1>1, <1>2, <1>9 DEF Following, n
  <2>2. v.pair = i + 1 /\ v.line = 1 /\ v \in Place
    BY <1>1, <2>1 DEF Place
  <2> HIDE DEF v, i, k
  <2>3. v \in Places(file)
    <3>1. i + 1 = Len(file) + 1 \/ i + 1 \in 1 .. Len(file)
      BY <1>1
    <3>2. CASE i + 1 = Len(file) + 1
      BY <2>2, <3>2 DEF Places
    <3>3. CASE i + 1 \in 1 .. Len(file)
      <4>1. i + 1 \in DOMAIN file /\ Unended(file[i + 1])
        BY <1>7, <3>3, FilesAre DEF FileGiven
      <4>2. 1 <= Len(PairLines(file[i + 1]))
        <5> DEFINE x == Len(PairLines(file[i + 1]))
                   y == Len(file[i + 1].request)
        <5>1. x \in Nat /\ y \in Nat /\ x >= y + 2
          BY <4>1, PairLengths
        <5> HIDE DEF x, y
        <5>2. 1 <= x
          BY <5>1
        <5>3. QED BY <5>2 DEF x
      <4>3. QED BY <2>2, <4>1, <4>2 DEF Places
    <3>4. QED BY <3>1, <3>2, <3>3
  <2>4. ~InResponse(v) /\ InResponse(u)
    <3>1. ~InResponse(v)
      BY <2>2, <2>3, BlocksAre
    <3>2. QED BY <1>1, <1>2, <1>6, <1>9, <3>1
  <2>5. /\ Blocks(v) = 2 * (i + 1 - 1)
        /\ Blocks(u) = 2 * (i - 1) + 1
    <3>1. /\ Blocks(v) = 2 * (i + 1 - 1) + 0
          /\ Blocks(u) = 2 * (i - 1) + 1
      <4>1. /\ Blocks(v) = 2 * (v.pair - 1) + (IF InResponse(v) THEN 1 ELSE 0)
            /\ Blocks(u) = 2 * (i - 1) + (IF InResponse(u) THEN 1 ELSE 0)
        BY DEF Blocks, i
      <4>2. QED BY <1>1, <2>2, <2>4, <4>1
    <3>2. QED BY <1>1, <3>1
  <2>6. Blocks(v) = Blocks(u) + 1
    BY <1>1, <2>5
  <2>7. Lines(i)[k] = End
    BY <1>4, <1>9
  <2>8. QED BY <1>1, <1>3, <1>9, <2>2, <2>3, <2>6, <2>7 DEF v, i, k, n
<1>10. QED BY <1>1, <1>2, <1>8, <1>9

\* Appending to the second of two sequences appends to both.
LEMMA ConcatAppend ==
    ASSUME NEW S, NEW s \in Seq(S), NEW t \in Seq(S), NEW e \in S
    PROVE  s \o Append(t, e) = Append(s \o t, e)
<1>1. Append(t, e) = t \o <<e>> /\ <<e>> \in Seq(S)
  BY AppendIsConcat
<1>2. s \o t \in Seq(S)
  BY ConcatProperties
<1>3. Append(s \o t, e) = (s \o t) \o <<e>>
  BY <1>2, AppendIsConcat
<1>4. (s \o t) \o <<e>> = s \o (t \o <<e>>)
  BY <1>1, ConcatAssociative
<1>5. QED BY <1>1, <1>3, <1>4

\* What was read grows by the line that is read.
LEMMA BetweenFollows ==
    ASSUME FileGiven, NEW b \in Places(file), NEW u \in Places(file), ~EOF(u),
           \/ u.pair = b.pair /\ b.line <= u.line
           \/ u.pair = b.pair + 1 /\ u.line < Len(Lines(u.pair))
    PROVE  /\ Between(b, Following(u)) =
                 Append(Between(b, u), Lines(u.pair)[u.line])
           /\ b.pair = Following(u).pair => b.line <= Following(u).line
<1> DEFINE v == Following(u)
           L == Lines(u.pair)
           k == u.line
<1>1. /\ v \in Places(file) /\ L[k] \in Line
      /\ \/ k < Len(L) /\ v.pair = u.pair /\ v.line = k + 1
         \/ k = Len(L) /\ v.pair = u.pair + 1 /\ v.line = 1
  BY Follows
<1>2. /\ L \in Seq(Line) /\ Len(L) \in Nat /\ k \in 1 .. Len(L)
      /\ u.pair \in Nat /\ b.pair \in Nat /\ b.line \in Nat /\ b.line >= 1
  <2>1. /\ Unended(file[u.pair]) /\ L = PairLines(file[u.pair])
        /\ k \in 1 .. Len(L) /\ u.pair \in Nat
    BY PlacesAre
  <2>2. b.pair \in Nat /\ b.line \in Nat /\ b.line >= 1
    BY PlacesAre DEF Place
  <2>3. QED BY <2>1, <2>2, PairLengths
<1>3. ASSUME NEW m \in 1 .. k
      PROVE  SubSeq(L, m, k) = Append(SubSeq(L, m, k - 1), L[k])
  <2>1. m \in 1 .. Len(L) /\ k \in m .. Len(L)
    BY <1>2
  <2> HIDE DEF L, k
  <2>2. SubSeq(L, m, k) = SubSeq(L, m, k - 1) \o <<L[k]>>
    BY <1>2, <2>1, SubSeqRecursiveSecond
  <2>3. \A i \in m .. k - 1 : L[i] \in Line
    BY <1>2, <2>1, ElementOfSeq
  <2>4. SubSeq(L, m, k - 1) \in Seq(Line)
    BY <1>2, <2>1, <2>3, SubSeqProperties
  <2>5. QED BY <1>1, <2>2, <2>4, AppendIsConcat
<1> HIDE DEF v
<1>4. CASE u.pair = b.pair /\ b.line <= u.line
  <2>1. Between(b, u) = SubSeq(L, b.line, k - 1)
    BY <1>4 DEF Between
  <2>2. SubSeq(L, b.line, k) = Append(SubSeq(L, b.line, k - 1), L[k])
    <3>1. b.line \in 1 .. k
      BY <1>2, <1>4
    <3>2. QED BY <1>3, <3>1
  <2>3. CASE v.pair = u.pair /\ v.line = k + 1
    <3>1. v.line - 1 = k
      BY <1>2, <2>3
    <3>2. Between(b, v) = SubSeq(L, b.line, k)
      BY <1>4, <2>3, <3>1 DEF Between
    <3>3. b.line <= v.line
      BY <1>2, <1>4, <2>3
    <3>4. QED BY <2>1, <2>2, <3>2, <3>3 DEF v
  <2>4. CASE k = Len(L) /\ v.pair = u.pair + 1 /\ v.line = 1
    <3>1. v.pair # b.pair
      BY <1>2, <1>4, <2>4
    <3>2. SubSeq(Lines(v.pair), 1, 1 - 1) = <<>>
      BY SubSeqEmpty
    <3>3. Between(b, v) = SubSeq(L, b.line, k) \o <<>>
      BY <1>4, <2>4, <3>1, <3>2 DEF Between
    <3>4. SubSeq(L, b.line, k) \in Seq(Line)
      <4>1. \A i \in b.line .. k : L[i] \in Line
        BY <1>2, ElementOfSeq
      <4>2. QED BY <1>2, <4>1, SubSeqProperties
    <3>5. Between(b, v) = SubSeq(L, b.line, k)
      BY <3>3, <3>4, ConcatEmptySeq
    <3>6. QED BY <2>1, <2>2, <3>1, <3>5 DEF v
  <2>5. QED BY <1>1, <2>3, <2>4
<1>5. CASE u.pair = b.pair + 1 /\ u.line < Len(Lines(u.pair))
  <2> DEFINE B == SubSeq(Lines(b.pair), b.line, Len(Lines(b.pair)))
  <2>1. v.pair = u.pair /\ v.line - 1 = k /\ u.pair # b.pair
    BY <1>1, <1>2, <1>5
  <2>2. /\ Between(b, u) = B \o SubSeq(L, 1, k - 1)
        /\ Between(b, v) = B \o SubSeq(L, 1, k)
    BY <2>1 DEF Between
  <2>3. SubSeq(L, 1, k) = Append(SubSeq(L, 1, k - 1), L[k])
    <3>1. 1 \in 1 .. k
      BY <1>2
    <3>2. QED BY <1>3, <3>1
  <2>4. SubSeq(L, 1, k - 1) \in Seq(Line)
    <3>1. \A i \in 1 .. k - 1 : L[i] \in Line
      BY <1>2, ElementOfSeq
    <3>2. QED BY <1>2, <3>1, SubSeqProperties
  <2>5. B \in Seq(Line)
    <3>1. Lines(b.pair) \in Seq(Line)
      <4>1. CASE EOF(b)
        BY <4>1 DEF Lines, EOF
      <4>2. CASE ~EOF(b)
        <5>1. Unended(file[b.pair]) /\ Lines(b.pair) = PairLines(file[b.pair])
          BY <4>2, PlacesAre
        <5>2. QED BY <5>1, PairLengths
      <4>3. QED BY <4>1, <4>2
    <3>2. \A i \in b.line .. Len(Lines(b.pair)) : Lines(b.pair)[i] \in Line
      BY <1>2, <3>1, ElementOfSeq
    <3>3. Len(Lines(b.pair)) \in Int /\ b.line \in Int
      BY <1>2, <3>1
    <3>4. QED BY <3>2, <3>3, SubSeqProperties
  <2> HIDE DEF B, L, k
  <2>6. B \o Append(SubSeq(L, 1, k - 1), L[k]) = Append(B \o SubSeq(L, 1, k - 1), L[k])
    <3> DEFINE t == SubSeq(L, 1, k - 1)
               e == L[k]
    <3>1. t \in Seq(Line) /\ e \in Line
      BY <1>1, <2>4
    <3> HIDE DEF t, e
    <3>2. B \o Append(t, e) = Append(B \o t, e)
      BY <2>5, <3>1, ConcatAppend
    <3>3. QED BY <3>2 DEF t, e
  <2>7. Between(b, v) = Append(Between(b, u), L[k])
    BY <2>2, <2>3, <2>6
  <2>8. b.pair # v.pair
    BY <2>1
  <2>9. QED BY <2>7, <2>8 DEF v, L, k
<1>6. QED BY <1>4, <1>5
-------------------------------------------------------------------------------
(* Where a pass is when it reads, and when it is done.                        *)

Inv == InPlace /\ FileGiven

\* While a pass reads, at most one of its two blocks has ended.
LEMMA WhileReading ==
    ASSUME Inv, half \in {1, 2}, ~EOF(unread)
    PROVE  /\ half = 1 + Blocks(unread) - Blocks(begun)
           /\ \/ unread.pair = begun.pair /\ begun.line <= unread.line
              \/ unread.pair = begun.pair + 1 /\ unread.line < Len(Lines(unread.pair))
<1>1. /\ unread \in Places(file) /\ begun \in Places(file) /\ FileGiven
      /\ half = 1 + (Blocks(unread) - Blocks(begun))
      /\ begun.pair = unread.pair => begun.line <= unread.line
  BY DEF Inv, InPlace, TypeOK, PassInPlace
<1> DEFINE bu == Blocks(unread)
           bb == Blocks(begun)
           up == unread.pair
           bp == begun.pair
<1>2. /\ bu \in Nat /\ bb \in Nat /\ up \in Nat /\ bp \in Nat
      /\ bb = 2 * bp - 1 \/ bb = 2 * bp - 2
      /\ InResponse(unread) => bu = 2 * up - 1
      /\ ~InResponse(unread) => bu = 2 * up - 2
  BY <1>1, BlocksAre, PlacesAre
<1> HIDE DEF bu, bb, up, bp
<1>3. half = 1 + bu - bb /\ (bu - bb = 0 \/ bu - bb = 1)
  BY <1>1, <1>2 DEF bu, bb
<1>4. up = bp \/ (up = bp + 1 /\ ~InResponse(unread))
  BY <1>2, <1>3
<1>5. ASSUME ~InResponse(unread) PROVE unread.line < Len(Lines(unread.pair))
  <2> DEFINE p == file[unread.pair]
             a == Len(p.request)
             n == Len(PairLines(p))
             k == unread.line
  <2>1. /\ Unended(p) /\ Lines(unread.pair) = PairLines(p) /\ k \in 1 .. n
    BY <1>1, PlacesAre
  <2>2. a \in Nat /\ n \in Nat /\ n >= a + 2
    BY <2>1, PairLengths
  <2>3. ~(k > a + 1)
    BY <1>5 DEF InResponse
  <2> HIDE DEF a, n, k
  <2>4. k < n
    BY <2>1, <2>2, <2>3
  <2>5. QED BY <2>1, <2>4 DEF k, n
<1>6. QED BY <1>1, <1>3, <1>4, <1>5 DEF bu, bb, up, bp

\* When it is done it has read two blocks, or what there was left.
LEMMA PassDone ==
    ASSUME Inv, half = 3
    PROVE  /\ EOF(begun) => unread = begun /\ current_message = <<>>
           /\ ~EOF(begun) =>
                 /\ unread.pair = begun.pair + 1
                 /\ ~InResponse(begun) => unread.line = 1
                 /\ InResponse(begun) => InResponse(unread) \/ EOF(unread)
                 /\ current_message # <<>>
                 /\ current_message[1] = Lines(begun.pair)[begun.line]
                 /\ begun.line = 1 => current_message = Lines(begun.pair)
<1>1. /\ unread \in Places(file) /\ begun \in Places(file) /\ FileGiven
      /\ \/ half = 1 + (Blocks(unread) - Blocks(begun))
         \/ EOF(unread) /\ half > 1 + (Blocks(unread) - Blocks(begun))
      /\ unread.line = 1 \/ Lines(unread.pair)[unread.line - 1] = End
      /\ current_message = Between(begun, unread)
  BY DEF Inv, InPlace, TypeOK, PassInPlace
<1> DEFINE bu == Blocks(unread)
           bb == Blocks(begun)
           up == unread.pair
           bp == begun.pair
           m == Len(file)
<1>2. /\ bu \in Nat /\ bb \in Nat /\ up \in Nat /\ bp \in Nat /\ m \in Nat
      /\ InResponse(begun) => bb = 2 * bp - 1
      /\ ~InResponse(begun) => bb = 2 * bp - 2
      /\ InResponse(unread) => bu = 2 * up - 1
      /\ ~InResponse(unread) => bu = 2 * up - 2
      /\ EOF(unread) => ~InResponse(unread) /\ unread.line = 1
      /\ EOF(begun) => ~InResponse(begun) /\ begun.line = 1
      /\ bu <= 2 * m /\ bp <= m + 1 /\ up <= m + 1
      /\ EOF(unread) <=> up = m + 1
      /\ EOF(begun) <=> bp = m + 1
      /\ begun.line = 1 => ~InResponse(begun)
  BY <1>1, BlocksAre, PlacesAre
<1>3. bu - bb = 2 \/ (EOF(unread) /\ bu - bb < 2)
  <2> HIDE DEF bu, bb
  <2>1. half = 1 + (bu - bb) \/ (EOF(unread) /\ half > 1 + (bu - bb))
    BY <1>1 DEF bu, bb
  <2>2. QED BY <1>2, <2>1
<1> HIDE DEF bu, bb, up, bp, m
<1>4. CASE EOF(begun)
  <2>1. EOF(unread) /\ up = bp
    BY <1>2, <1>3, <1>4
  <2>2. unread.pair = begun.pair /\ unread.line = 1 /\ begun.line = 1
    BY <1>2, <1>4, <2>1 DEF up, bp
  <2>3. unread = begun
    <3>1. unread \in Place /\ begun \in Place
      BY <1>1, PlacesAre
    <3>2. QED BY <2>2, <3>1 DEF Place
  <2>4. current_message = SubSeq(Lines(begun.pair), 1, 1 - 1)
    BY <1>1, <2>2 DEF Between
  <2>5. QED BY <1>4, <2>3, <2>4, SubSeqEmpty
<1>5. CASE ~EOF(begun)
  <2>1. bp <= m
    BY <1>2, <1>5
  <2>2. up = bp + 1
    <3>1. CASE EOF(unread)
      BY <1>2, <1>3, <2>1, <3>1
    <3>2. CASE ~EOF(unread)
      BY <1>2, <1>3, <2>1, <3>2
    <3>3. QED BY <3>1, <3>2
  <2>3. ASSUME ~InResponse(begun) PROVE unread.line = 1
    <3>1. CASE EOF(unread)
      BY <1>2, <3>1
    <3>2. CASE ~EOF(unread)
      <4> DEFINE p == file[unread.pair]
                 a == Len(p.request)
                 n == Len(PairLines(p))
                 k == unread.line
      <4>1. ~InResponse(unread)
        BY <1>2, <1>3, <2>3, <3>2
      <4>2. Unended(p) /\ Lines(unread.pair) = PairLines(p) /\ k \in 1 .. n
        BY <1>1, <3>2, PlacesAre
      <4>3. a \in Nat /\ n \in Nat /\ n >= a + 2
        BY <4>2, PairLengths
      <4>4. ~(k > a + 1)
        BY <3>2, <4>1 DEF InResponse
      <4> HIDE DEF a, n, k
      <4>5. ASSUME k # 1 PROVE FALSE
        <5>1. k - 1 \in 1 .. n /\ k - 1 # a + 1 /\ k - 1 # n
          BY <4>2, <4>3, <4>4, <4>5
        <5>2. PairLines(p)[k - 1] # End
          BY <4>2, <5>1, EndsAre DEF a, n
        <5>3. QED BY <1>1, <4>2, <4>5, <5>2 DEF k
      <4>6. QED BY <4>5 DEF k
    <3>3. QED BY <3>1, <3>2
  <2>4. ASSUME InResponse(begun) PROVE InResponse(unread) \/ EOF(unread)
    BY <1>2, <1>3, <2>2, <2>4
  <2> DEFINE L == Lines(begun.pair)
             k == begun.line
             R == SubSeq(Lines(unread.pair), 1, unread.line - 1)
  <2>5. L \in Seq(Line) /\ Len(L) \in Nat /\ k \in 1 .. Len(L)
    <3>1. /\ Unended(file[begun.pair]) /\ L = PairLines(file[begun.pair])
          /\ k \in 1 .. Len(L)
      BY <1>1, <1>5, PlacesAre
    <3>2. QED BY <3>1, PairLengths
  <2>6. current_message = SubSeq(L, k, Len(L)) \o R
    <3>1. unread.pair # begun.pair
      BY <1>2, <2>2 DEF up, bp
    <3>2. QED BY <1>1, <3>1 DEF Between
  <2>7. R \in Seq(Line)
    <3>1. CASE EOF(unread)
      <4>1. R = SubSeq(Lines(unread.pair), 1, 1 - 1)
        BY <1>2, <3>1
      <4>2. SubSeq(Lines(unread.pair), 1, 1 - 1) = <<>>
        BY SubSeqEmpty
      <4> HIDE DEF R
      <4>3. QED BY <4>1, <4>2
    <3>2. CASE ~EOF(unread)
      <4> DEFINE M == Lines(unread.pair)
                 j == unread.line
      <4>1. Unended(file[unread.pair]) /\ M = PairLines(file[unread.pair])
            /\ j \in 1 .. Len(M)
        BY <1>1, <3>2, PlacesAre
      <4>2. M \in Seq(Line) /\ Len(M) \in Nat
        BY <4>1, PairLengths
      <4> HIDE DEF M, j
      <4>3. \A i \in 1 .. j - 1 : M[i] \in Line
        BY <4>1, <4>2, ElementOfSeq
      <4>4. j - 1 \in Int
        BY <4>1
      <4>5. SubSeq(M, 1, j - 1) \in Seq(Line)
        BY <4>3, <4>4, SubSeqProperties
      <4>6. QED BY <4>5 DEF M, j
    <3>3. QED BY <3>1, <3>2
  <2>8. /\ SubSeq(L, k, Len(L)) \in Seq(Line)
        /\ Len(SubSeq(L, k, Len(L))) >= 1 /\ Len(SubSeq(L, k, Len(L))) \in Nat
        /\ SubSeq(L, k, Len(L))[1] = L[k]
    <3> HIDE DEF L, k
    <3>1. \A i \in k .. Len(L) : L[i] \in Line
      BY <2>5, ElementOfSeq
    <3>2. /\ SubSeq(L, k, Len(L)) \in Seq(Line)
          /\ Len(SubSeq(L, k, Len(L))) = IF k <= Len(L) THEN Len(L) - k + 1 ELSE 0
          /\ \A i \in 1 .. Len(L) - k + 1 : SubSeq(L, k, Len(L))[i] = L[k + i - 1]
      BY <2>5, <3>1, SubSeqProperties
    <3>3. 1 \in 1 .. Len(L) - k + 1 /\ k + 1 - 1 = k
      BY <2>5
    <3>4. SubSeq(L, k, Len(L))[1] = L[k]
      BY <3>2, <3>3
    <3>5. QED BY <2>5, <3>2, <3>4
  <2>9. current_message # <<>> /\ current_message[1] = L[k]
    <3> DEFINE Q == SubSeq(L, k, Len(L))
    <3> HIDE DEF L, k, R, Q
    <3>1. Q \in Seq(Line) /\ Len(Q) >= 1 /\ Len(Q) \in Nat /\ Q[1] = L[k]
          /\ current_message = Q \o R
      BY <2>6, <2>8 DEF Q
    <3>2. /\ Q \o R \in Seq(Line)
          /\ Len(Q \o R) = Len(Q) + Len(R)
          /\ \A i \in 1 .. Len(Q) + Len(R) :
                (Q \o R)[i] = IF i <= Len(Q) THEN Q[i] ELSE R[i - Len(Q)]
      BY <2>7, <3>1, ConcatProperties
    <3>3. Len(R) \in Nat
      BY <2>7
    <3>4. 1 \in 1 .. Len(Q) + Len(R)
      BY <3>1, <3>3
    <3>5. QED BY <3>1, <3>2, <3>3, <3>4
  <2>10. ASSUME begun.line = 1 PROVE current_message = L
    <3>1. unread.line = 1
      BY <1>2, <2>3, <2>10
    <3>2. R = <<>>
      <4>1. R = SubSeq(Lines(unread.pair), 1, 1 - 1)
        BY <3>1
      <4>2. SubSeq(Lines(unread.pair), 1, 1 - 1) = <<>>
        BY SubSeqEmpty
      <4> HIDE DEF R
      <4>3. QED BY <4>1, <4>2
    <3>3. SubSeq(L, 1, Len(L)) = L
      BY <2>5, SubSeqFull
    <3>4. current_message = L \o <<>>
      BY <2>6, <2>10, <3>2, <3>3
    <3>5. QED BY <2>5, <3>4, ConcatEmptySeq
  <2>11. unread.pair = begun.pair + 1
    BY <2>2 DEF up, bp
  <2>12. QED BY <1>5, <2>3, <2>4, <2>9, <2>10, <2>11
<1>6. QED BY <1>4, <1>5

\* The file stays, so the places of a step's end are places of its beginning.
LEMMA SamePlaces ==
    ASSUME file' = file
    PROVE  /\ Places(file)' = Places(file)
           /\ Lines(unread.pair)' = Lines(unread'.pair)
           /\ Between(begun, unread)' = Between(begun', unread')
           /\ Blocks(unread)' = Blocks(unread') /\ Blocks(begun)' = Blocks(begun')
           /\ EOF(unread)' = EOF(unread') /\ EOF(begun)' = EOF(begun')
           /\ InResponse(begun)' = InResponse(begun')
           /\ InResponse(failure)' = InResponse(failure')
<1>1. Places(file)' = Places(file)
  OBVIOUS
<1>2. /\ Lines(unread.pair)' = Lines(unread'.pair)
      /\ Between(begun, unread)' = Between(begun', unread')
  BY DEF Lines, Between
<1>3. /\ EOF(unread)' = EOF(unread') /\ EOF(begun)' = EOF(begun')
      /\ InResponse(begun)' = InResponse(begun')
      /\ InResponse(failure)' = InResponse(failure')
  BY DEF EOF, InResponse
<1>4. Blocks(unread)' = Blocks(unread') /\ Blocks(begun)' = Blocks(begun')
  BY DEF Blocks, EOF, InResponse
<1>5. QED BY <1>1, <1>2, <1>3, <1>4
-------------------------------------------------------------------------------
(* A step leaves the reader in place.                                         *)

\* What is to be shown of a step, without primes on operators.
LEMMA StillInPlace ==
    ASSUME Inv, TypeOK', file' = file, recorded' = recorded,
           half' = 0 => begun' = unread' /\ ~skipped',
           half' # 0 => result' = "none",
           begun'.pair = unread'.pair => begun'.line <= unread'.line,
           current_message' = Between(begun', unread'),
           half' # 0 => \/ half' = 1 + (Blocks(unread') - Blocks(begun'))
                        \/ /\ EOF(unread')
                           /\ half' > 1 + (Blocks(unread') - Blocks(begun')),
           half' = 3 => \/ unread'.line = 1
                        \/ Lines(unread'.pair)[unread'.line - 1] = End,
           framing' \in {"aligned", "mended"} => begun'.line = 1,
           framing' = "lost" => InResponse(begun') \/ EOF(begun')
    PROVE  Inv'
<1>1. FileGiven'
  <2>1. FileGiven
    BY DEF Inv
  <2>2. QED BY <2>1 DEF FileGiven
<1>2. /\ Between(begun, unread)' = Between(begun', unread')
      /\ Blocks(unread)' = Blocks(unread') /\ Blocks(begun)' = Blocks(begun')
      /\ EOF(unread)' = EOF(unread') /\ EOF(begun)' = EOF(begun')
      /\ InResponse(begun)' = InResponse(begun')
      /\ Lines(unread.pair)' = Lines(unread'.pair)
  BY SamePlaces
<1>3. PassInPlace'
  BY <1>2 DEF PassInPlace
<1>4. QED BY <1>1, <1>3 DEF Inv, InPlace

\* The framing depends on the line a read failed at and on this pass.
LEMMA FramingIs ==
    framing = IF failure = None THEN "aligned"
              ELSE IF InResponse(failure) THEN "lost"
              ELSE IF begun = failure /\ failure.line # 1 THEN "half"
              ELSE "mended"
BY DEF framing

\* The same after a step.
LEMMA FramingWillBe ==
    ASSUME file' = file
    PROVE  framing' = IF failure' = None THEN "aligned"
                      ELSE IF InResponse(failure') THEN "lost"
                      ELSE IF begun' = failure' /\ failure'.line # 1 THEN "half"
                      ELSE "mended"
BY SamePlaces DEF framing

\* Where a pass begins it has read nothing.
LEMMA NothingRead ==
    ASSUME NEW u \in Place
    PROVE  Between(u, u) = <<>>
<1>1. Between(u, u) = SubSeq(Lines(u.pair), u.line, u.line - 1)
  BY DEF Between
<1>2. u.line \in Int /\ u.line - 1 \in Int /\ u.line - 1 < u.line
  BY DEF Place
<1>3. SubSeq(Lines(u.pair), u.line, u.line - 1) = <<>>
  BY <1>2, SubSeqEmpty
<1>4. QED BY <1>1, <1>3

\* A pass ends with a pair, unless a read failed in a response.
LEMMA DoneInPlace ==
    ASSUME Inv, half = 3
    PROVE  /\ framing = "lost" => InResponse(unread) \/ EOF(unread)
           /\ framing # "lost" => ~InResponse(begun) /\ unread.line = 1
<1>1. /\ unread \in Places(file) /\ begun \in Places(file) /\ FileGiven
      /\ framing \in {"aligned", "mended"} => begun.line = 1
      /\ framing = "lost" => InResponse(begun) \/ EOF(begun)
  BY DEF Inv, InPlace, TypeOK, PassInPlace
<1>2. /\ EOF(begun) => begun.line = 1
      /\ begun.line = 1 => ~InResponse(begun)
  BY <1>1, PlacesAre, BlocksAre
<1>3. framing # "lost" => ~InResponse(begun)
  BY <1>1, <1>2, FramingIs
<1>4. /\ EOF(begun) => unread = begun
      /\ ~EOF(begun) =>
            /\ ~InResponse(begun) => unread.line = 1
            /\ InResponse(begun) => InResponse(unread) \/ EOF(unread)
  BY PassDone
<1>5. QED BY <1>1, <1>2, <1>3, <1>4

\* load_file_iteration() begins a pass where the stream is.
LEMMA load_file_iteration_in_place ==
    ASSUME Inv, load_file_iteration
    PROVE  Inv'
<1>1. /\ recorded' = recorded /\ file' = file /\ unread' = unread /\ begun' = unread
      /\ current_message' = <<>> /\ half' = 1 /\ skipped' = FALSE /\ result' = "none"
      /\ loaded' = loaded /\ failure' = failure /\ aborted' = aborted /\ half = 0
  BY DEF load_file_iteration, new_pass
<1>2. TypeOK /\ PassInPlace /\ FileGiven
  BY DEF Inv, InPlace
<1>3. begun = unread /\ unread \in Places(file)
  BY <1>1, <1>2 DEF TypeOK, PassInPlace
<1>4. unread \in Place /\ unread.line \in Nat /\ Blocks(unread) \in Nat
  BY <1>2, <1>3, PlacesAre, BlocksAre
<1>5. TypeOK'
  <2>1. half' \in 0 .. 3 /\ current_message' \in Seq(Line)
    BY <1>1
  <2>2. {unread', begun'} \subseteq Places(file)
    BY <1>1, <1>3
  <2>3. QED BY <1>1, <1>2, <2>1, <2>2 DEF TypeOK
<1>6. current_message' = Between(begun', unread')
  BY <1>1, <1>4, NothingRead
<1>7. /\ begun'.pair = unread'.pair => begun'.line <= unread'.line
      /\ half' = 1 + (Blocks(unread') - Blocks(begun'))
  BY <1>1, <1>4
<1>8. framing' = framing
  BY <1>1, <1>3, FramingIs, FramingWillBe
<1>9. /\ framing \in {"aligned", "mended"} => begun.line = 1
      /\ framing = "lost" => InResponse(begun) \/ EOF(begun)
  BY <1>2 DEF PassInPlace
<1>10. QED BY <1>1, <1>3, <1>5, <1>6, <1>7, <1>8, <1>9, StillInPlace

\* load_message_half() reads one line, or none at the end of the file.
LEMMA load_message_half_in_place ==
    ASSUME Inv, load_message_half
    PROVE  Inv'
<1>1. /\ recorded' = recorded /\ file' = file /\ begun' = begun /\ skipped' = skipped
      /\ result' = result /\ loaded' = loaded /\ failure' = failure
      /\ aborted' = aborted /\ half \in {1, 2}
  BY DEF load_message_half
<1>2. TypeOK /\ PassInPlace /\ FileGiven
  BY DEF Inv, InPlace
<1>3. /\ begun \in Places(file) /\ unread \in Places(file) /\ current_message \in Seq(Line)
      /\ result = "none" /\ current_message = Between(begun, unread)
      /\ begun.pair = unread.pair => begun.line <= unread.line
      /\ \/ half = 1 + (Blocks(unread) - Blocks(begun))
         \/ EOF(unread) /\ half > 1 + (Blocks(unread) - Blocks(begun))
  BY <1>1, <1>2 DEF TypeOK, PassInPlace
<1>4. /\ framing' \in {"aligned", "mended"} => begun'.line = 1
      /\ framing' = "lost" => InResponse(begun') \/ EOF(begun')
  <2>1. framing' = framing
    BY <1>1, FramingIs, FramingWillBe
  <2>2. QED BY <1>1, <1>2, <2>1 DEF PassInPlace
<1> DEFINE bb == Blocks(begun)
<1>5. bb \in Nat /\ Blocks(unread) \in Nat
  BY <1>2, <1>3, BlocksAre
<1>6. CASE EOF(unread)
  <2>1. unread' = unread /\ current_message' = current_message /\ half' = half + 1
    BY <1>6 DEF load_message_half, after_half
  <2>2. TypeOK'
    <3>1. half' \in 0 .. 3
      BY <1>1, <2>1
    <3>2. QED BY <1>1, <1>2, <2>1, <3>1 DEF TypeOK
  <2>3. half' > 1 + (Blocks(unread') - Blocks(begun')) /\ EOF(unread')
    <3> DEFINE bu == Blocks(unread)
    <3> HIDE DEF bb, bu
    <3>1. half + 1 > 1 + (bu - bb)
      BY <1>1, <1>3, <1>5 DEF bu, bb
    <3>2. QED BY <1>1, <1>6, <2>1, <3>1 DEF bu, bb
  <2>4. unread'.line = 1
    BY <1>2, <1>3, <1>6, <2>1, PlacesAre
  <2>5. half' # 0
    BY <1>1, <2>1
  <2>6. QED BY <1>1, <1>3, <1>4, <2>1, <2>2, <2>3, <2>4, <2>5, StillInPlace
<1>7. CASE ~EOF(unread)
  <2> DEFINE line == Lines(unread.pair)[unread.line]
  <2>1. /\ unread' = Following(unread)
        /\ current_message' = Append(current_message, line)
        /\ half' = IF line = End THEN half + 1 ELSE half
    BY <1>7 DEF load_message_half, reached_eom
  <2>2. /\ Following(unread) \in Places(file) /\ line \in Line
        /\ line # End => Blocks(Following(unread)) = Blocks(unread)
        /\ line = End => /\ Blocks(Following(unread)) = Blocks(unread) + 1
                         /\ \/ Following(unread).line = 1
                            \/ Lines(Following(unread).pair)[Following(unread).line - 1] = End
    BY <1>2, <1>3, <1>7, Follows
  <2>3. /\ half = 1 + Blocks(unread) - Blocks(begun)
        /\ \/ unread.pair = begun.pair /\ begun.line <= unread.line
           \/ unread.pair = begun.pair + 1 /\ unread.line < Len(Lines(unread.pair))
    BY <1>1, <1>7, WhileReading
  <2>4. /\ Between(begun, Following(unread)) = Append(Between(begun, unread), line)
        /\ begun.pair = Following(unread).pair => begun.line <= Following(unread).line
    BY <1>2, <1>3, <1>7, <2>3, BetweenFollows
  <2> HIDE DEF line
  <2>5. TypeOK'
    <3>1. half' \in 0 .. 3
      BY <1>1, <2>1
    <3>2. current_message' \in Seq(Line)
      BY <1>3, <2>1, <2>2
    <3>3. {unread', begun'} \subseteq Places(file)
      BY <1>1, <1>3, <2>1, <2>2
    <3>4. QED BY <1>1, <1>2, <3>1, <3>2, <3>3 DEF TypeOK
  <2>6. half' = 1 + (Blocks(unread') - Blocks(begun'))
    <3> DEFINE bu == Blocks(unread)
               bf == Blocks(Following(unread))
    <3> HIDE DEF bb, bu, bf
    <3>1. half = 1 + bu - bb /\ half \in Nat /\ bu \in Nat /\ bb \in Nat
      BY <1>1, <1>5, <2>3 DEF bu, bb
    <3>2. /\ line # End => bf = bu /\ half' = half
          /\ line = End => bf = bu + 1 /\ half' = half + 1
      BY <2>1, <2>2 DEF bu, bf
    <3>3. half' = 1 + (bf - bb)
      BY <3>1, <3>2
    <3>4. QED BY <1>1, <2>1, <3>3 DEF bf, bb
  <2>7. half' = 3 => unread'.line = 1 \/ Lines(unread'.pair)[unread'.line - 1] = End
    <3>1. half' = 3 => line = End
      BY <1>1, <2>1
    <3>2. QED BY <2>1, <2>2, <3>1
  <2>8. half' # 0
    BY <1>1, <2>1
  <2>9. QED BY <1>1, <1>3, <1>4, <2>1, <2>4, <2>5, <2>6, <2>7, <2>8, StillInPlace
<1>8. QED BY <1>6, <1>7

\* A read that fails leaves the stream before the line it failed at.
LEMMA load_message_half_fails_in_place ==
    ASSUME Inv, load_message_half_fails
    PROVE  Inv'
<1>1. /\ recorded' = recorded /\ file' = file /\ unread' = unread /\ begun' = unread
      /\ current_message' = <<>> /\ half' = 0 /\ skipped' = FALSE
      /\ result' = "error" /\ loaded' = loaded /\ failure' = unread
      /\ aborted' = aborted /\ failure = None /\ half \in {1, 2}
  BY DEF load_message_half_fails, return, MayFail
<1>2. TypeOK /\ PassInPlace /\ FileGiven /\ unread \in Places(file)
  BY DEF Inv, InPlace, TypeOK
<1>3. unread \in Place /\ unread.line \in Nat
  BY <1>2, PlacesAre
<1>4. TypeOK'
  <2>1. half' \in 0 .. 3 /\ current_message' \in Seq(Line)
    BY <1>1
  <2>2. {unread', begun'} \subseteq Places(file) /\ failure' \in Places(file)
    BY <1>1, <1>2
  <2>3. QED BY <1>1, <1>2, <2>1, <2>2 DEF TypeOK
<1>5. current_message' = Between(begun', unread')
  BY <1>1, <1>3, NothingRead
<1>6. /\ half' = 0 /\ half' # 3 /\ begun' = unread' /\ ~skipped'
      /\ begun'.pair = unread'.pair => begun'.line <= unread'.line
  BY <1>1, <1>3
<1>7. framing' = IF InResponse(unread) THEN "lost"
                 ELSE IF unread.line # 1 THEN "half" ELSE "mended"
  <2>1. unread # None
    BY <1>3, ReaderAssumption
  <2>2. QED BY <1>1, <2>1, FramingWillBe
<1>8. /\ framing' \in {"aligned", "mended"} => begun'.line = 1
      /\ framing' = "lost" => InResponse(begun') \/ EOF(begun')
  BY <1>1, <1>7
<1>9. QED BY <1>1, <1>4, <1>5, <1>6, <1>8, StillInPlace

\* The assertion stops the process where it is.
LEMMA load_file_iteration_asserts_in_place ==
    ASSUME Inv, load_file_iteration_asserts
    PROVE  Inv'
<1>1. /\ recorded' = recorded /\ file' = file /\ unread' = unread /\ begun' = begun
      /\ current_message' = current_message /\ half' = half /\ skipped' = skipped
      /\ result' = result /\ loaded' = loaded /\ failure' = failure
      /\ aborted' = "load_file_iteration"
  BY DEF load_file_iteration_asserts, streamVars
<1>2. TypeOK /\ PassInPlace /\ FileGiven
  BY DEF Inv, InPlace
<1>3. TypeOK'
  BY <1>1, <1>2 DEF TypeOK
<1>4. framing' = framing
  BY <1>1, FramingIs, FramingWillBe
<1>5. QED BY <1>1, <1>2, <1>3, <1>4, StillInPlace DEF PassInPlace

\* What the end of a pass does to the stream, whatever it returns.
LEMMA DoneIs ==
    ASSUME Inv, load_file_iteration_done
    PROVE  /\ recorded' = recorded /\ file' = file /\ unread' = unread
           /\ failure' = failure /\ aborted' = aborted /\ half = 3
           /\ begun' = unread /\ current_message' = <<>> /\ half' \in {0, 1}
           /\ framing' = IF framing = "half" THEN "mended" ELSE framing
<1>1. /\ recorded' = recorded /\ file' = file /\ unread' = unread
      /\ failure' = failure /\ aborted' = aborted /\ half = 3
      /\ begun' = unread /\ current_message' = <<>> /\ half' \in {0, 1}
  BY DEF load_file_iteration_done, new_pass, return
<1>2. framing # "lost" => unread.line = 1
  BY <1>1, DoneInPlace
<1>3. framing' = IF framing = "half" THEN "mended" ELSE framing
  BY <1>1, <1>2, FramingIs, FramingWillBe
<1>4. QED BY <1>1, <1>3

\* The end of a pass is the beginning of the next one.
LEMMA load_file_iteration_done_in_place ==
    ASSUME Inv, load_file_iteration_done
    PROVE  Inv'
<1>1. /\ recorded' = recorded /\ file' = file /\ unread' = unread
      /\ failure' = failure /\ aborted' = aborted /\ half = 3
      /\ begun' = unread /\ current_message' = <<>> /\ half' \in {0, 1}
      /\ framing' = IF framing = "half" THEN "mended" ELSE framing
  BY DoneIs
<1>2. TypeOK /\ PassInPlace /\ FileGiven /\ unread \in Places(file) /\ result = "none"
  BY <1>1 DEF Inv, InPlace, TypeOK, PassInPlace
<1>3. unread \in Place /\ unread.line \in Nat /\ Blocks(unread) \in Nat
  BY <1>2, PlacesAre, BlocksAre
<1>4. /\ half' = 0 => ~skipped'
      /\ half' # 0 => result' = "none"
      /\ skipped' \in BOOLEAN
      /\ result' \in {"none", "message", "null"}
      /\ loaded' \in Seq(Message)
  <2>1. message \in Message \cup {None} /\ loaded \in Seq(Message)
    BY <1>2, MessageType DEF TypeOK, message
  <2>2. loaded' = loaded \/ (message # None /\ loaded' = Append(loaded, message))
    BY DEF load_file_iteration_done
  <2>3. loaded' \in Seq(Message)
    BY <2>1, <2>2
  <2>4. \/ half' = 1 /\ skipped' = TRUE /\ result' = result
        \/ half' = 0 /\ skipped' = FALSE /\ result' \in {"message", "null"}
    BY DEF load_file_iteration_done, new_pass, return
  <2>5. CASE half' = 1 /\ skipped' = TRUE /\ result' = result
    BY <1>2, <2>3, <2>5
  <2>6. CASE half' = 0 /\ skipped' = FALSE /\ result' \in {"message", "null"}
    <3>1. ~skipped' /\ skipped' \in BOOLEAN /\ ~(half' # 0)
      BY <2>6
    <3>2. result' \in {"none", "message", "null"}
      BY <2>6
    <3>3. QED BY <2>3, <3>1, <3>2
  <2>7. QED BY <2>4, <2>5, <2>6
<1>5. TypeOK'
  <2>1. half' \in 0 .. 3 /\ current_message' \in Seq(Line)
    BY <1>1
  <2>2. {unread', begun'} \subseteq Places(file)
    BY <1>1, <1>2
  <2>3. QED BY <1>1, <1>2, <1>4, <2>1, <2>2 DEF TypeOK
<1>6. current_message' = Between(begun', unread')
  BY <1>1, <1>3, NothingRead
<1>7. /\ begun' = unread' /\ half' # 3
      /\ begun'.pair = unread'.pair => begun'.line <= unread'.line
      /\ half' # 0 => half' = 1 + (Blocks(unread') - Blocks(begun'))
  BY <1>1, <1>3
<1>8. /\ framing' \in {"aligned", "mended"} => begun'.line = 1
      /\ framing' = "lost" => InResponse(begun') \/ EOF(begun')
  BY <1>1, DoneInPlace
<1>9. QED BY <1>1, <1>4, <1>5, <1>6, <1>7, <1>8, StillInPlace

\* No step leaves the invariant.
LEMMA NextInPlace ==
    ASSUME Inv, [Next]_vars
    PROVE  Inv'
<1>1. CASE UNCHANGED vars
  <2>1. /\ recorded' = recorded /\ file' = file /\ unread' = unread /\ begun' = begun
        /\ current_message' = current_message /\ half' = half /\ skipped' = skipped
        /\ result' = result /\ loaded' = loaded /\ failure' = failure
        /\ aborted' = aborted
    BY <1>1 DEF vars, streamVars
  <2>2. TypeOK /\ PassInPlace
    BY DEF Inv, InPlace
  <2>3. TypeOK'
    BY <2>1, <2>2 DEF TypeOK
  <2>4. framing' = framing
    BY <2>1, FramingIs, FramingWillBe
  <2>5. QED BY <2>1, <2>2, <2>3, <2>4, StillInPlace DEF PassInPlace
<1>2. CASE Next
  BY <1>1, <1>2, load_file_iteration_in_place, load_message_half_in_place,
     load_message_half_fails_in_place, load_file_iteration_asserts_in_place,
     load_file_iteration_done_in_place DEF Next, Idle
<1>3. QED BY <1>1, <1>2

\* The stream begins with its first line.
LEMMA InitInPlace ==
    ASSUME Init
    PROVE  Inv
<1>1. /\ unread = [pair |-> 1, line |-> 1] /\ begun = unread
      /\ current_message = <<>> /\ half = 0 /\ skipped = FALSE /\ result = "none"
      /\ loaded = <<>> /\ failure = None /\ aborted = "no"
  BY DEF Init
<1>2. FileGiven /\ recorded \in Recording \cup {None}
  BY DEF Init, FileGiven, Files
<1>3. file \in Seq(Pair) /\ \A i \in DOMAIN file : Unended(file[i])
  BY <1>2, FilesAre DEF FileGiven
<1>4. unread \in Place /\ unread.pair = 1 /\ unread.line = 1
  BY <1>1 DEF Place
<1>5. unread \in Places(file)
  <2>1. CASE Len(file) = 0
    BY <1>3, <1>4, <2>1 DEF Places
  <2>2. CASE Len(file) # 0
    <3>1. 1 \in DOMAIN file
      BY <1>3, <2>2
    <3>2. 1 <= Len(PairLines(file[1]))
      <4> DEFINE x == Len(PairLines(file[1]))
                 y == Len(file[1].request)
      <4>1. x \in Nat /\ y \in Nat /\ x >= y + 2
        BY <1>3, <3>1, PairLengths
      <4> HIDE DEF x, y
      <4>2. 1 <= x
        BY <4>1
      <4>3. QED BY <4>2 DEF x
    <3>3. QED BY <1>4, <3>1, <3>2 DEF Places
  <2>3. QED BY <2>1, <2>2
<1>6. TypeOK
  <2>1. half \in 0 .. 3 /\ current_message \in Seq(Line) /\ loaded \in Seq(Message)
    BY <1>1
  <2>2. {unread, begun} \subseteq Places(file)
    BY <1>1, <1>5
  <2>3. QED BY <1>1, <1>2, <1>3, <2>1, <2>2 DEF TypeOK
<1>7. current_message = Between(begun, unread)
  BY <1>1, <1>4, NothingRead
<1>8. framing = "aligned" /\ begun.pair = unread.pair /\ begun.line = 1 /\ unread.line = 1
  BY <1>1, <1>4, FramingIs
<1>9. PassInPlace
  BY <1>1, <1>7, <1>8 DEF PassInPlace
<1>10. QED BY <1>2, <1>6, <1>9 DEF Inv, InPlace

\* Inv is an invariant.
LEMMA AlwaysInPlace == Spec => []Inv
<1>1. Init => Inv
  BY InitInPlace
<1>2. Inv /\ [Next]_vars => Inv'
  BY NextInPlace
<1>3. QED BY <1>1, <1>2, PTL DEF Spec

\* The reader is always where its variables say: current_message is what
\* load_message_half() read since load_file_iteration() began this pass, and
\* half counts the blocks of it.  Passes begin with a pair until a read fails,
\* again behind a request it failed in, and never again when it failed in a
\* response.
THEOREM ReaderInPlace == Spec => []InPlace
<1>1. Inv => InPlace
  BY DEF Inv
<1>2. QED BY <1>1, AlwaysInPlace, PTL
-------------------------------------------------------------------------------
(* What a pass makes a message of.                                            *)

\* It is the pair the pass began with, or, where Plain(file) and it began
\* within one, nothing.
LEMMA PassMessage ==
    ASSUME Inv, half = 3, ~EOF(begun)
    PROVE  /\ begun.pair \in DOMAIN file /\ Unended(file[begun.pair])
           /\ framing \in {"aligned", "mended"} => message = Parsed(file[begun.pair])
           /\ framing \in {"half", "lost"} /\ Plain(file) => message = None
<1>1. /\ begun \in Places(file) /\ FileGiven
      /\ framing \in {"aligned", "mended"} => begun.line = 1
      /\ framing = "lost" => InResponse(begun)
  BY DEF Inv, InPlace, TypeOK, PassInPlace
<1>2. /\ begun.pair \in DOMAIN file /\ Unended(file[begun.pair])
      /\ Lines(begun.pair) = PairLines(file[begun.pair])
      /\ begun.line \in 1 .. Len(PairLines(file[begun.pair]))
  BY <1>1, PlacesAre
<1>3. /\ current_message[1] = PairLines(file[begun.pair])[begun.line]
      /\ begun.line = 1 => current_message = PairLines(file[begun.pair])
  BY <1>2, PassDone
<1>4. framing \in {"aligned", "mended"} => message = Parsed(file[begun.pair])
  BY <1>1, <1>3 DEF message, Parsed
<1>5. ASSUME framing \in {"half", "lost"}, Plain(file)
      PROVE  message = None
  <2> DEFINE lines == PairLines(file[begun.pair])
             k == begun.line
  <2>1. k # 1
    <3>1. CASE framing = "half"
      BY <3>1, FramingIs
    <3>2. CASE framing = "lost"
      BY <1>1, <3>2, BlocksAre
    <3>3. QED BY <1>5, <3>1, <3>2
  <2>2. Len(lines) \in Nat
    BY <1>2, PairLengths
  <2>3. k \in 2 .. Len(lines) /\ k <= Len(lines)
    <3> HIDE DEF lines, k
    <3>1. k \in 1 .. Len(lines)
      BY <1>2 DEF lines, k
    <3>2. QED BY <2>1, <2>2, <3>1
  <2>4. ~StartsWith(lines, k, ">", {"request"})
    BY <1>2, <1>5, <2>3 DEF Plain
  <2>5. ~(lines[k].mark = ">" /\ Class[lines[k].text] \in {"request"})
    BY <2>3, <2>4 DEF StartsWith
  <2>6. ~StartsWith(current_message, 1, ">", {"request"})
    BY <1>3, <2>5 DEF StartsWith
  <2>7. QED BY <2>6 DEF message, trace_to_soup_message
<1>6. QED BY <1>2, <1>4, <1>5

\* The lines of the messages ms are all those of pairs of the file.
AreWhole(ms) ==
    \A n \in DOMAIN ms : \E i \in DOMAIN file :
        /\ IsWhole(file[i].request, ms[n].request)
        /\ IsWhole(file[i].response, ms[n].response)

\* No step returns anything else than a whole pair.
LEMMA NextIsWhole ==
    ASSUME Inv, LoadedIsWhole, [Next]_vars
    PROVE  LoadedIsWhole'
<1>1. SUFFICES ASSUME failure' = None \/ Plain(file')
               PROVE  AreWhole(loaded)'
  BY DEF LoadedIsWhole, AreWhole
<1>2. file' = file
  BY DEF Next, vars, streamVars, load_file_iteration, load_message_half,
         load_message_half_fails, load_file_iteration_asserts,
         load_file_iteration_done, Idle
<1>3. failure = None \/ Plain(file)
  <2>1. failure' = failure \/ (failure = None /\ failure' = unread)
    BY DEF Next, vars, streamVars, load_file_iteration, load_message_half,
           load_message_half_fails, MayFail, load_file_iteration_asserts,
           load_file_iteration_done, Idle
  <2>2. Plain(file') => Plain(file)
    BY <1>2
  <2>3. QED BY <1>1, <2>1, <2>2
<1>4. AreWhole(loaded)
  BY <1>3 DEF LoadedIsWhole, AreWhole
<1>5. loaded' = loaded \/ (/\ half = 3 /\ current_message # <<>> /\ message # None
                           /\ loaded' = Append(loaded, message))
  BY DEF Next, vars, streamVars, load_file_iteration, load_message_half,
         load_message_half_fails, load_file_iteration_asserts,
         load_file_iteration_done, Idle
<1>6. AreWhole(loaded') => AreWhole(loaded)'
  BY <1>2 DEF AreWhole
<1>7. CASE loaded' = loaded
  BY <1>4, <1>6, <1>7
<1>8. CASE /\ half = 3 /\ current_message # <<>> /\ message # None
           /\ loaded' = Append(loaded, message)
  <2>1. ~EOF(begun)
    BY <1>8, PassDone
  <2> DEFINE p == file[begun.pair]
  <2>2. /\ begun.pair \in DOMAIN file /\ Unended(p) /\ message = Parsed(p)
    <3>1. framing \in {"aligned", "half", "lost", "mended"}
      BY DEF framing
    <3>2. failure = None => framing = "aligned"
      BY FramingIs
    <3>3. QED BY <1>3, <1>8, <2>1, <3>1, <3>2, PassMessage
  <2>3. IsWhole(p.request, message.request) /\ IsWhole(p.response, message.response)
    BY <1>8, <2>2, ParsedIsWhole
  <2>4. loaded \in Seq(Message) /\ Len(loaded) \in Nat
    BY DEF Inv, InPlace, TypeOK
  <2>5. ASSUME NEW n \in DOMAIN Append(loaded, message)
        PROVE  \E i \in DOMAIN file :
                  /\ IsWhole(file[i].request, Append(loaded, message)[n].request)
                  /\ IsWhole(file[i].response, Append(loaded, message)[n].response)
    <3>1. CASE n \in DOMAIN loaded
      <4>1. Append(loaded, message)[n] = loaded[n]
        BY <2>4, <3>1
      <4>2. QED BY <1>4, <3>1, <4>1 DEF AreWhole
    <3>2. CASE n \notin DOMAIN loaded
      <4>1. Append(loaded, message)[n] = message
        BY <2>4, <3>2
      <4>2. QED BY <2>2, <2>3, <4>1
    <3>3. QED BY <3>1, <3>2
  <2>6. AreWhole(loaded')
    BY <1>8, <2>5 DEF AreWhole
  <2>7. QED BY <1>6, <2>6
<1>9. QED BY <1>5, <1>7, <1>8

\* However a file is damaged, and whatever line a read fails at, each message
\* that load_file_iteration() returns is one pair of the file with all its
\* lines: trace_to_soup_message() refuses what is put together from two pairs
\* or from a part of one.
THEOREM LoadedMessagesAreWhole == Spec => []LoadedIsWhole
<1>1. Init => LoadedIsWhole
  BY DEF Init, LoadedIsWhole
<1>2. Inv /\ LoadedIsWhole /\ [Next]_vars => LoadedIsWhole'
  BY NextIsWhole
<1>3. QED BY <1>1, <1>2, AlwaysInPlace, PTL DEF Spec
-------------------------------------------------------------------------------
(* What was recorded is what is played.                                       *)

\* The first j of a sequence.
LEMMA FirstOnes ==
    ASSUME NEW S, NEW rs \in Seq(S), NEW j \in 0 .. Len(rs)
    PROVE  /\ DOMAIN SubSeq(rs, 1, j) = 1 .. j
           /\ \A i \in 1 .. j : SubSeq(rs, 1, j)[i] = rs[i]
<1>1. \A i \in 1 .. j : rs[i] \in S
  BY ElementOfSeq
<1>2. /\ SubSeq(rs, 1, j) \in Seq(S)
      /\ Len(SubSeq(rs, 1, j)) = IF 1 <= j THEN j - 1 + 1 ELSE 0
      /\ \A i \in 1 .. j - 1 + 1 : SubSeq(rs, 1, j)[i] = rs[1 + i - 1]
  BY <1>1, SubSeqProperties
<1>3. j - 1 + 1 = j /\ j \in Nat /\ \A i \in 1 .. j : 1 + i - 1 = i
  OBVIOUS
<1>4. Len(SubSeq(rs, 1, j)) = j
  BY <1>2, <1>3
<1>5. DOMAIN SubSeq(rs, 1, j) = 1 .. j
  BY <1>2, <1>4
<1>6. QED BY <1>2, <1>3, <1>5

\* Before the first message nothing is played.
LEMMA PlaysNone ==
    ASSUME NEW rs \in Seq(Printable)
    PROVE  Plays(<<>>, SubSeq(rs, 1, 0))
<1>1. DOMAIN SubSeq(rs, 1, 0) = {} /\ DOMAIN <<>> = {}
  <2>1. DOMAIN SubSeq(rs, 1, 0) = 1 .. 0
    BY FirstOnes
  <2>2. QED BY <2>1
<1>2. <<>> \in [{} -> {}]
  OBVIOUS
<1>3. QED BY <1>1, <1>2 DEF Plays

\* A message without a status is passed over.
LEMMA PlaysSkip ==
    ASSUME NEW rs \in Seq(Printable), NEW ms, NEW k \in 1 .. Len(rs),
           NoStatus(rs[k]), Plays(ms, SubSeq(rs, 1, k - 1))
    PROVE  Plays(ms, SubSeq(rs, 1, k))
<1> DEFINE old == SubSeq(rs, 1, k - 1)
           new == SubSeq(rs, 1, k)
<1>1. /\ DOMAIN old = 1 .. k - 1 /\ \A i \in 1 .. k - 1 : old[i] = rs[i]
      /\ DOMAIN new = 1 .. k /\ \A i \in 1 .. k : new[i] = rs[i]
  <2>1. k - 1 \in 0 .. Len(rs) /\ k \in 0 .. Len(rs)
    OBVIOUS
  <2>2. QED BY <2>1, FirstOnes
<1> HIDE DEF old, new
<1>2. Plays(ms, old)
  BY DEF old
<1>3. PICK place \in [DOMAIN ms -> DOMAIN old] :
          /\ \A n \in DOMAIN ms : ms[n] = old[place[n]]
          /\ \A n, j \in DOMAIN ms : n < j => place[n] < place[j]
          /\ \A i \in DOMAIN old :
                ~NoStatus(old[i]) <=> \E n \in DOMAIN ms : place[n] = i
  BY <1>2 DEF Plays
<1>4. /\ place \in [DOMAIN ms -> 1 .. k - 1]
      /\ \A n \in DOMAIN ms : ms[n] = old[place[n]]
      /\ \A n, j \in DOMAIN ms : n < j => place[n] < place[j]
      /\ \A i \in 1 .. k - 1 :
            ~NoStatus(old[i]) <=> \E n \in DOMAIN ms : place[n] = i
  BY <1>1, <1>3
<1>5. /\ \A i \in 1 .. k - 1 : i \in 1 .. k /\ i # k
      /\ \A i \in 1 .. k : i # k => i \in 1 .. k - 1
      /\ k \in 1 .. k
  OBVIOUS
<1>6. place \in [DOMAIN ms -> 1 .. k]
  BY <1>4, <1>5
<1>7. \A n \in DOMAIN ms : ms[n] = new[place[n]]
  BY <1>1, <1>4, <1>5
<1>8. ASSUME NEW i \in 1 .. k
      PROVE  ~NoStatus(new[i]) <=> \E n \in DOMAIN ms : place[n] = i
  <2>1. CASE i = k
    <3>1. NoStatus(new[i])
      BY <1>1, <1>5, <2>1
    <3>2. \A n \in DOMAIN ms : place[n] # k
      BY <1>4, <1>5
    <3>3. QED BY <2>1, <3>1, <3>2
  <2>2. CASE i # k
    <3>1. i \in 1 .. k - 1 /\ new[i] = old[i]
      BY <1>1, <1>5, <2>2
    <3>2. QED BY <1>4, <3>1
  <2>3. QED BY <2>1, <2>2
<1>9. Plays(ms, new)
  <2>1. place \in [DOMAIN ms -> DOMAIN new]
    BY <1>1, <1>6
  <2>2. \A i \in DOMAIN new :
           ~NoStatus(new[i]) <=> \E n \in DOMAIN ms : place[n] = i
    BY <1>1, <1>8
  <2>3. QED BY <1>4, <1>7, <2>1, <2>2 DEF Plays
<1>10. QED BY <1>9 DEF new

\* One with a status is played.
LEMMA PlaysOne ==
    ASSUME NEW rs \in Seq(Printable), NEW ms \in Seq(Message), NEW k \in 1 .. Len(rs),
           ~NoStatus(rs[k]), Plays(ms, SubSeq(rs, 1, k - 1))
    PROVE  Plays(Append(ms, rs[k]), SubSeq(rs, 1, k))
<1> DEFINE old == SubSeq(rs, 1, k - 1)
           new == SubSeq(rs, 1, k)
           ns == Append(ms, rs[k])
           l == Len(ms)
<1>1. /\ DOMAIN old = 1 .. k - 1 /\ \A i \in 1 .. k - 1 : old[i] = rs[i]
      /\ DOMAIN new = 1 .. k /\ \A i \in 1 .. k : new[i] = rs[i]
  <2>1. k - 1 \in 0 .. Len(rs) /\ k \in 0 .. Len(rs)
    OBVIOUS
  <2>2. QED BY <2>1, FirstOnes
<1>2. /\ l \in Nat /\ DOMAIN ms = 1 .. l /\ DOMAIN ns = 1 .. l + 1
      /\ \A n \in 1 .. l : ns[n] = ms[n]
      /\ ns[l + 1] = rs[k]
  OBVIOUS
<1> HIDE DEF old, new, ns, l
<1>3. Plays(ms, old)
  BY DEF old
<1>4. PICK was \in [DOMAIN ms -> DOMAIN old] :
          /\ \A n \in DOMAIN ms : ms[n] = old[was[n]]
          /\ \A n, j \in DOMAIN ms : n < j => was[n] < was[j]
          /\ \A i \in DOMAIN old :
                ~NoStatus(old[i]) <=> \E n \in DOMAIN ms : was[n] = i
  BY <1>3 DEF Plays
<1>5. /\ was \in [1 .. l -> 1 .. k - 1]
      /\ \A n \in 1 .. l : ms[n] = old[was[n]]
      /\ \A n, j \in 1 .. l : n < j => was[n] < was[j]
      /\ \A i \in 1 .. k - 1 :
            ~NoStatus(old[i]) <=> \E n \in 1 .. l : was[n] = i
  BY <1>1, <1>2, <1>4
<1> DEFINE place == [n \in 1 .. l + 1 |-> IF n = l + 1 THEN k ELSE was[n]]
<1>6. /\ \A i \in 1 .. k - 1 : i \in 1 .. k /\ i < k /\ i # k
      /\ \A i \in 1 .. k : i # k => i \in 1 .. k - 1
      /\ k \in 1 .. k /\ l + 1 \in 1 .. l + 1
      /\ \A n \in 1 .. l : n \in 1 .. l + 1 /\ n # l + 1 /\ ~(l + 1 < n)
      /\ \A n \in 1 .. l + 1 : n # l + 1 => n \in 1 .. l
      /\ ~(l + 1 < l + 1)
  BY <1>2
<1>7. /\ \A n \in 1 .. l : place[n] = was[n] /\ was[n] \in 1 .. k - 1
      /\ place[l + 1] = k
  BY <1>5, <1>6
<1>8. place \in [1 .. l + 1 -> 1 .. k]
  BY <1>5, <1>6
<1> HIDE DEF place
<1>9. ASSUME NEW n \in 1 .. l + 1
      PROVE  ns[n] = new[place[n]]
  <2>1. CASE n = l + 1
    BY <1>1, <1>2, <1>6, <1>7, <2>1
  <2>2. CASE n # l + 1
    <3>1. n \in 1 .. l /\ was[n] \in 1 .. k - 1 /\ place[n] = was[n]
      BY <1>6, <1>7, <2>2
    <3>2. new[was[n]] = rs[was[n]] /\ old[was[n]] = rs[was[n]]
      BY <1>1, <1>6, <3>1
    <3>3. QED BY <1>2, <1>5, <3>1, <3>2
  <2>3. QED BY <2>1, <2>2
<1>10. \A n, j \in 1 .. l + 1 : n < j => place[n] < place[j]
  BY <1>5, <1>6, <1>7
<1>11. ASSUME NEW i \in 1 .. k
      PROVE  ~NoStatus(new[i]) <=> \E n \in 1 .. l + 1 : place[n] = i
  <2>1. CASE i = k
    <3>1. ~NoStatus(new[i])
      BY <1>1, <1>6, <2>1
    <3>2. QED BY <1>6, <1>7, <2>1, <3>1
  <2>2. CASE i # k
    <3>1. i \in 1 .. k - 1 /\ new[i] = old[i]
      BY <1>1, <1>6, <2>2
    <3>2. (\E n \in 1 .. l + 1 : place[n] = i) <=> \E n \in 1 .. l : was[n] = i
      BY <1>6, <1>7, <2>2
    <3>3. QED BY <1>5, <3>1, <3>2
  <2>3. QED BY <2>1, <2>2
<1>12. Plays(ns, new)
  <2>1. place \in [DOMAIN ns -> DOMAIN new]
    BY <1>1, <1>2, <1>8
  <2>2. /\ \A n \in DOMAIN ns : ns[n] = new[place[n]]
        /\ \A n, j \in DOMAIN ns : n < j => place[n] < place[j]
    BY <1>2, <1>9, <1>10
  <2>3. \A i \in DOMAIN new :
           ~NoStatus(new[i]) <=> \E n \in DOMAIN ns : place[n] = i
    BY <1>1, <1>2, <1>11
  <2>4. QED BY <2>1, <2>2, <2>3 DEF Plays
<1>13. QED BY <1>12 DEF new, ns

\* RecordedMessagesLoad without what SubSeq hides from the provers.
Played(ms, r, b) ==
    /\ Plays(ms, SubSeq(recorded, 1, b.pair - 1))
    /\ r = "null" => b.pair > Len(recorded)

\* The pairs of a file SoupLogger printed are the messages.
LEMMA RecordedPairs ==
    ASSUME FileGiven, recorded # None
    PROVE  /\ recorded \in Seq(Printable)
           /\ Len(file) = Len(recorded)
           /\ \A i \in 1 .. Len(recorded) : Parsed(file[i]) = recorded[i]
<1>1. recorded \in Seq(Printable) /\ file = Printed(recorded)
  BY ReaderAssumption DEF FileGiven
<1>2. /\ file \in Seq(Pair) /\ DOMAIN file = 1 .. Len(recorded)
      /\ \A i \in 1 .. Len(recorded) :
            file[i] = [request |-> soup_logger_print(">", recorded[i].request),
                       response |-> soup_logger_print("<", recorded[i].response)]
  BY <1>1, FilesAre DEF FileGiven, Printed
<1>3. Len(file) = Len(recorded)
  BY <1>1, <1>2
<1>4. \A i \in 1 .. Len(recorded) : recorded[i] \in Printable
  BY <1>1, ElementOfSeq
<1>5. \A i \in 1 .. Len(recorded) : Parsed(file[i]) = recorded[i]
  BY <1>2, <1>4, PrintedPair
<1>6. QED BY <1>1, <1>3, <1>5

\* The end of a pass plays the message of its pair, unless it has no status.
LEMMA DonePlays ==
    ASSUME Inv, load_file_iteration_done, recorded # None, failure = None,
           Played(loaded, result, begun)
    PROVE  Played(loaded', result', begun')
<1>1. half = 3 /\ begun' = unread /\ begun \in Places(file) /\ FileGiven
      /\ framing = "aligned" /\ loaded \in Seq(Message) /\ result = "none"
  BY FramingIs DEF load_file_iteration_done, new_pass, return, Inv, InPlace, TypeOK,
     PassInPlace
<1> DEFINE k == begun.pair
           m == Len(recorded)
<1>2. /\ recorded \in Seq(Printable) /\ m \in Nat
      /\ Len(file) = m
      /\ \A i \in 1 .. m : Parsed(file[i]) = recorded[i] /\ recorded[i] \in Message
  <2>1. /\ recorded \in Seq(Printable) /\ m \in Nat /\ Len(file) = m
        /\ \A i \in 1 .. m : Parsed(file[i]) = recorded[i]
    BY <1>1, RecordedPairs
  <2>2. \A i \in 1 .. m : recorded[i] \in Printable
    BY <2>1, ElementOfSeq
  <2>3. QED BY <2>1, <2>2 DEF Printable
<1>3. k \in Nat /\ (EOF(begun) <=> k = m + 1) /\ k \in 1 .. m + 1
  BY <1>1, <1>2, PlacesAre
<1> HIDE DEF k, m
<1>4. CASE EOF(begun)
  <2>1. unread = begun /\ current_message = <<>>
    BY <1>1, <1>4, PassDone
  <2>2. result' = "null" /\ loaded' = loaded
    BY <2>1 DEF load_file_iteration_done
  <2>3. k > m
    BY <1>2, <1>3, <1>4
  <2>4. QED BY <1>1, <2>1, <2>2, <2>3 DEF Played, k, m
<1>5. CASE ~EOF(begun)
  <2>1. unread.pair = k + 1 /\ current_message # <<>>
    BY <1>1, <1>5, PassDone DEF k
  <2>2. k \in 1 .. m
    BY <1>2, <1>3, <1>5
  <2>3. message = recorded[k] /\ message \in Message /\ message # None
    <3>1. message = Parsed(file[k])
      BY <1>1, <1>5, PassMessage DEF k
    <3>2. message = recorded[k] /\ message \in Message
      BY <1>2, <2>2, <3>1
    <3>3. QED BY <3>2, ReaderAssumption
  <2>4. begun'.pair - 1 = k
    BY <1>1, <1>3, <2>1
  <2>5. Plays(loaded, SubSeq(recorded, 1, k - 1))
    BY DEF Played, k
  <2>6. result' # "null" /\ Plays(loaded', SubSeq(recorded, 1, k))
    <3>1. CASE NoStatus(message)
      <4>1. result' = result /\ loaded' = loaded
        BY <2>1, <2>3, <3>1 DEF load_file_iteration_done, again
      <4>2. Plays(loaded, SubSeq(recorded, 1, k))
        BY <1>2, <2>2, <2>3, <2>5, <3>1, PlaysSkip DEF m
      <4>3. QED BY <1>1, <4>1, <4>2
    <3>2. CASE ~NoStatus(message)
      <4>1. result' = "message" /\ loaded' = Append(loaded, message)
        BY <2>1, <2>3, <3>2 DEF load_file_iteration_done, again
      <4>2. Plays(Append(loaded, recorded[k]), SubSeq(recorded, 1, k))
        BY <1>1, <1>2, <2>2, <2>3, <2>5, <3>2, PlaysOne DEF m
      <4>3. QED BY <2>3, <4>1, <4>2
    <3>3. QED BY <3>1, <3>2
  <2>7. QED BY <2>4, <2>6 DEF Played
<1>6. QED BY <1>4, <1>5

\* No step plays anything else.
LEMMA NextPlays ==
    ASSUME Inv, RecordedMessagesLoad, [Next]_vars
    PROVE  RecordedMessagesLoad'
<1>1. SUFFICES ASSUME recorded' # None, failure' = None
               PROVE  Played(loaded, result, begun)'
  BY DEF RecordedMessagesLoad, Played
<1>2. /\ recorded' = recorded
      /\ failure' = failure \/ (failure = None /\ failure' = unread)
  BY DEF Next, vars, streamVars, load_file_iteration, load_message_half,
         load_message_half_fails, MayFail, load_file_iteration_asserts,
         load_file_iteration_done, Idle
<1>3. failure = None /\ recorded # None /\ unread # None
  <2>1. unread \in Place
    BY PlacesAre DEF Inv, InPlace, TypeOK
  <2>2. unread # None
    BY <2>1, ReaderAssumption
  <2>3. QED BY <1>1, <1>2, <2>2
<1>4. Played(loaded, result, begun)
  BY <1>3 DEF RecordedMessagesLoad, Played
<1>5. Played(loaded', result', begun') => Played(loaded, result, begun)'
  BY <1>2 DEF Played
<1>6. CASE load_file_iteration
  <2>1. begun' = begun /\ loaded' = loaded /\ result' = "none"
    BY <1>6 DEF load_file_iteration, new_pass, Inv, InPlace, PassInPlace
  <2>2. QED BY <1>4, <1>5, <2>1 DEF Played
<1>7. CASE UNCHANGED <<begun, loaded, result>>
  BY <1>4, <1>5, <1>7 DEF Played
<1>8. CASE load_file_iteration_done
  BY <1>3, <1>4, <1>5, <1>8, DonePlays
<1>9. ~load_message_half_fails
  BY <1>1, <1>3 DEF load_message_half_fails
<1>10. QED
  BY <1>6, <1>7, <1>8, <1>9 DEF Next, vars, streamVars, load_message_half,
     load_file_iteration_asserts, Idle

\* What was recorded is what is played: of a file that SoupLogger printed,
\* whatever is in the bodies, load_file_iteration() returns the messages that
\* have a status, as they were and in order, and none only at its end.
THEOREM RecordedMessagesAreLoaded == Spec => []RecordedMessagesLoad
<1>1. Init => RecordedMessagesLoad
  <2>1. SUFFICES ASSUME Init, recorded # None
                 PROVE  Played(loaded, result, begun)
    BY DEF RecordedMessagesLoad, Played
  <2>2. recorded \in Seq(Printable)
    BY <2>1, InitInPlace, RecordedPairs DEF Inv
  <2>3. loaded = <<>> /\ begun.pair - 1 = 0 /\ result = "none"
    BY <2>1 DEF Init
  <2>4. QED BY <2>2, <2>3, PlaysNone DEF Played
<1>2. Inv /\ RecordedMessagesLoad /\ [Next]_vars => RecordedMessagesLoad'
  BY NextPlays
<1>3. QED BY <1>1, <1>2, AlwaysInPlace, PTL DEF Spec
-------------------------------------------------------------------------------
(* The stream of pairs.                                                       *)

StreamAt(pos, how, passed) ==
    [s \in {Stream} |-> [file |-> file, pos |-> pos, framing |-> how,
                         skipped |-> passed]]

StreamAfter(pos, how, passed) ==
    [streams[Stream] EXCEPT !.pos = pos, !.framing = how, !.skipped = passed]

\* The stream of pairs before and after a step.
LEMMA StreamsAre ==
    /\ streams = StreamAt(begun.pair, framing, skipped)
    /\ file' = file => streams' = StreamAt(begun'.pair, framing', skipped')
BY DEF streams, StreamAt

\* Its fields.
LEMMA StreamIs ==
    /\ streams[Stream].file = file /\ streams[Stream].pos = begun.pair
    /\ streams[Stream].framing = framing /\ streams[Stream].skipped = skipped
BY DEF streams

\* Updates of the one stream.
LEMMA StreamChanges ==
    ASSUME NEW how, NEW passed
    PROVE  /\ [streams EXCEPT ![Stream].skipped = passed] =
                 StreamAt(begun.pair, framing, passed)
           /\ [streams EXCEPT ![Stream].framing = how] =
                 StreamAt(begun.pair, how, skipped)
<1> DEFINE R == [file |-> file, pos |-> begun.pair, framing |-> framing,
                 skipped |-> skipped]
<1>1. streams = [s \in {Stream} |-> R]
  BY DEF streams
<1>2. [R EXCEPT !.skipped = passed] =
          [file |-> file, pos |-> begun.pair, framing |-> framing, skipped |-> passed]
  OBVIOUS
<1>3. [R EXCEPT !.framing = how] =
          [file |-> file, pos |-> begun.pair, framing |-> how, skipped |-> skipped]
  OBVIOUS
<1> HIDE DEF R
<1>4. /\ [streams EXCEPT ![Stream].skipped = passed] =
            [s \in {Stream} |-> [R EXCEPT !.skipped = passed]]
      /\ [streams EXCEPT ![Stream].framing = how] =
            [s \in {Stream} |-> [R EXCEPT !.framing = how]]
  BY <1>1
<1>5. QED BY <1>2, <1>3, <1>4 DEF StreamAt

\* The stream behind a pair.
LEMMA StreamAdvances ==
    ASSUME NEW pos, NEW how, NEW passed
    PROVE  [streams EXCEPT ![Stream] = StreamAfter(pos, how, passed)] =
               StreamAt(pos, how, passed)
<1> DEFINE R == [file |-> file, pos |-> begun.pair, framing |-> framing,
                 skipped |-> skipped]
           R1 == [file |-> file, pos |-> pos, framing |-> framing, skipped |-> skipped]
           R2 == [file |-> file, pos |-> pos, framing |-> how, skipped |-> skipped]
           R3 == [file |-> file, pos |-> pos, framing |-> how, skipped |-> passed]
<1>1. streams = [s \in {Stream} |-> R] /\ streams[Stream] = R
  BY DEF streams
<1>2. [R EXCEPT !.pos = pos] = R1
  OBVIOUS
<1>3. [R1 EXCEPT !.framing = how] = R2
  OBVIOUS
<1>4. [R2 EXCEPT !.skipped = passed] = R3
  OBVIOUS
<1> HIDE DEF R, R1, R2, R3
<1>5. [R EXCEPT !.pos = pos, !.framing = how, !.skipped = passed] = R3
  BY <1>2, <1>3, <1>4
<1>6. StreamAfter(pos, how, passed) = R3
  BY <1>1, <1>5 DEF StreamAfter
<1>7. [streams EXCEPT ![Stream] = R3] = [s \in {Stream} |-> R3]
  BY <1>1
<1>8. [s \in {Stream} |-> R3] = StreamAt(pos, how, passed)
  BY DEF R3, StreamAt
<1>9. QED BY <1>6, <1>7, <1>8

\* Both are at the end at the same time.
LEMMA AtEndIs ==
    ASSUME FileGiven, begun \in Places(file)
    PROVE  Pairs!AtEnd(Stream) <=> EOF(begun)
<1>1. file \in Files /\ DOMAIN file = 1 .. Len(file) /\ Len(file) \in Nat
  BY FilesAre DEF FileGiven
<1>2. [f \in Files |-> Contents(f)][file] = Contents(file)
  BY <1>1
<1>3. Len(Contents(file)) = Len(file)
  BY <1>1 DEF Contents
<1>4. QED BY <1>2, <1>3, StreamIs DEF Pairs!AtEnd, EOF

\* The pair that is read, as UhmServer has it, is what the pass makes of it.
LEMMA PairAtIs ==
    ASSUME Inv, half = 3, ~EOF(begun), failure = None \/ Plain(file)
    PROVE  Pairs!PairAt(Stream) =
               IF message = None THEN "malformed"
               ELSE IF NoStatus(message) THEN "status_none" ELSE "request"
<1>1. file \in Files
  BY DEF Inv, FileGiven
<1>2. [f \in Files |-> Contents(f)][file] = Contents(file)
  BY <1>1
<1>3. Pairs!PairAt(Stream) = IF framing \in {"half", "lost"} THEN "malformed"
                             ELSE Contents(file)[begun.pair]
  BY <1>2, StreamIs DEF Pairs!PairAt
<1>4. /\ begun.pair \in DOMAIN file
      /\ framing \in {"aligned", "mended"} => message = Parsed(file[begun.pair])
      /\ framing \in {"half", "lost"} /\ Plain(file) => message = None
  BY PassMessage
<1>5. /\ framing \in {"aligned", "half", "lost", "mended"}
      /\ failure = None => framing = "aligned"
  BY DEF framing
<1>6. Contents(file)[begun.pair] =
          IF Parsed(file[begun.pair]) = None THEN "malformed"
          ELSE IF NoStatus(Parsed(file[begun.pair])) THEN "status_none" ELSE "request"
  BY <1>4 DEF Contents
<1>7. QED BY <1>3, <1>4, <1>5, <1>6

\* The end of a pass is one pass of UhmServer's over a pair, or the end of it.
LEMMA DoneReadsPair ==
    ASSUME Inv, load_file_iteration_done, failure = None \/ Plain(file)
    PROVE  \E r \in Pairs!Results(Stream) : Pairs!load_file_iteration(Stream, r) /\ Gives(r)
<1>1. /\ file' = file /\ half = 3 /\ begun' = unread
      /\ framing' = IF framing = "half" THEN "mended" ELSE framing
  BY DoneIs
<1>2. FileGiven /\ begun \in Places(file) /\ begun.pair \in Nat /\ result = "none"
  BY <1>1, PlacesAre DEF Inv, InPlace, TypeOK, PassInPlace
<1>3. streams' = StreamAt(unread.pair, framing', skipped')
  BY <1>1, StreamsAre
<1>4. Pairs!AtEnd(Stream) <=> EOF(begun)
  BY <1>2, AtEndIs
<1>5. CASE EOF(begun)
  <2> DEFINE r == Pairs!Result("null", 0)
  <2>1. unread = begun /\ current_message = <<>>
    BY <1>1, <1>5, PassDone
  <2>2. result' = "null" /\ skipped' = FALSE /\ loaded' = loaded
    BY <2>1 DEF load_file_iteration_done, return
  <2>3. framing' = framing
    <3>1. framing = "half" => begun.line # 1
      BY FramingIs
    <3>2. begun.line = 1
      BY <1>2, <1>5, PlacesAre
    <3>3. QED BY <1>1, <3>1, <3>2
  <2>4. streams' = [streams EXCEPT ![Stream].skipped = FALSE]
    BY <1>3, <2>1, <2>2, <2>3, StreamChanges
  <2>5. r \in Pairs!Results(Stream)
    BY DEF Pairs!Results
  <2>6. Pairs!load_file_iteration(Stream, r)
    BY <1>4, <1>5, <2>4 DEF Pairs!load_file_iteration
  <2>7. r.kind = "null"
    BY DEF Pairs!Result
  <2> HIDE DEF r
  <2>8. Gives(r)
    BY <2>2, <2>7 DEF Gives
  <2>9. QED BY <2>5, <2>6, <2>8
<1>6. CASE ~EOF(begun)
  <2> DEFINE k == begun.pair
             at == Pairs!PairAt(Stream)
  <2>1. /\ unread.pair = k + 1 /\ current_message # <<>>
        /\ message # None => message = Parsed(file[k])
    <3>1. /\ framing \in {"aligned", "mended"} => message = Parsed(file[k])
          /\ framing \in {"half", "lost"} /\ Plain(file) => message = None
      BY <1>1, <1>6, PassMessage
    <3>2. /\ framing \in {"aligned", "half", "lost", "mended"}
          /\ failure = None => framing = "aligned"
      BY DEF framing
    <3>3. QED BY <1>1, <1>6, <3>1, <3>2, PassDone
  <2>2. at = IF message = None THEN "malformed"
             ELSE IF NoStatus(message) THEN "status_none" ELSE "request"
    BY <1>1, <1>6, PairAtIs
  <2> HIDE DEF at
  <2>3. skipped' = (at = "status_none")
    <3>1. again <=> at = "status_none"
      BY <2>2 DEF again
    <3>2. (skipped' = TRUE /\ again) \/ (skipped' = FALSE /\ ~again)
      <4>1. \/ again /\ skipped' = TRUE
            \/ ~again /\ return
            \/ message = None /\ return
        BY <2>1 DEF load_file_iteration_done
      <4>2. message = None => ~again
        BY DEF again
      <4>3. return => skipped' = FALSE
        BY DEF return
      <4>4. QED BY <4>1, <4>2, <4>3
    <3>3. QED BY <3>1, <3>2
  <2>4. streams' = [streams EXCEPT ![Stream] = Pairs!Advanced(Stream)]
    <3>1. Pairs!Advanced(Stream) =
              [streams[Stream] EXCEPT !.pos = k + 1, !.framing = framing',
                                      !.skipped = skipped']
      BY <1>1, <2>3, StreamIs DEF Pairs!Advanced, at
    <3> DEFINE A == Pairs!Advanced(Stream)
    <3>2. A = StreamAfter(k + 1, framing', skipped')
      BY <3>1 DEF StreamAfter
    <3> HIDE DEF A
    <3>3. [streams EXCEPT ![Stream] = StreamAfter(k + 1, framing', skipped')] =
              StreamAt(k + 1, framing', skipped')
      BY StreamAdvances
    <3>4. streams' = [streams EXCEPT ![Stream] = A]
      BY <1>3, <2>1, <3>2, <3>3
    <3>5. QED BY <3>4 DEF A
  <2>5. ASSUME NEW r \in Pairs!Results(Stream),
               \/ at = "status_none" /\ r = Pairs!NoResult
               \/ at = "malformed" /\ r = Pairs!Result("null", k)
               \/ at = "request" /\ r = Pairs!Result("message", k)
        PROVE  Pairs!load_file_iteration(Stream, r)
    BY <1>4, <1>6, <2>4, <2>5, StreamIs DEF Pairs!load_file_iteration, at
  <2>6. /\ Pairs!NoResult \in Pairs!Results(Stream)
        /\ Pairs!Result("null", k) \in Pairs!Results(Stream)
        /\ Pairs!Result("message", k) \in Pairs!Results(Stream)
    BY StreamIs DEF Pairs!Results
  <2>7. CASE message = None
    <3> DEFINE r == Pairs!Result("null", k)
    <3>1. result' = "null" /\ loaded' = loaded /\ at = "malformed"
      BY <2>2, <2>7 DEF load_file_iteration_done, again
    <3>2. r.kind = "null" /\ r \in Pairs!Results(Stream)
      BY <2>6 DEF Pairs!Result
    <3>3. Pairs!load_file_iteration(Stream, r)
      BY <2>5, <3>1, <3>2
    <3> HIDE DEF r
    <3>4. Gives(r)
      BY <3>1, <3>2 DEF Gives
    <3>5. QED BY <3>2, <3>3, <3>4
  <2>8. CASE message # None /\ NoStatus(message)
    <3> DEFINE r == Pairs!NoResult
    <3>1. result' = "none" /\ skipped' /\ at = "status_none"
      BY <1>2, <2>1, <2>2, <2>8 DEF load_file_iteration_done, again
    <3>2. r.kind = "none" /\ r \in Pairs!Results(Stream)
      BY <2>6 DEF Pairs!NoResult
    <3>3. Pairs!load_file_iteration(Stream, r)
      BY <2>5, <3>1, <3>2
    <3> HIDE DEF r
    <3>4. Gives(r)
      BY <3>1, <3>2 DEF Gives
    <3>5. QED BY <3>2, <3>3, <3>4
  <2>9. CASE message # None /\ ~NoStatus(message)
    <3> DEFINE r == Pairs!Result("message", k)
    <3>1. /\ result' = "message" /\ loaded' = Append(loaded, message)
          /\ at = "request" /\ message = Parsed(file[k])
      BY <2>1, <2>2, <2>9 DEF load_file_iteration_done, again
    <3>2. r.kind = "message" /\ r.pos = k /\ r \in Pairs!Results(Stream)
      BY <2>6 DEF Pairs!Result
    <3>3. Pairs!load_file_iteration(Stream, r)
      BY <2>5, <3>1, <3>2
    <3> HIDE DEF r
    <3>4. Gives(r)
      BY <3>1, <3>2 DEF Gives
    <3>5. QED BY <3>2, <3>3, <3>4
  <2>10. QED BY <2>7, <2>8, <2>9
<1>7. QED BY <1>5, <1>6

\* A read fails before the stream leaves the pair the pass began with.
LEMMA FailsInPair ==
    ASSUME Inv, half \in {1, 2}, failure = None
    PROVE  unread.pair = begun.pair
<1>1. /\ unread \in Places(file) /\ begun \in Places(file) /\ FileGiven
      /\ begun.line = 1
      /\ \/ half = 1 + (Blocks(unread) - Blocks(begun))
         \/ EOF(unread) /\ half > 1 + (Blocks(unread) - Blocks(begun))
  BY FramingIs DEF Inv, InPlace, TypeOK, PassInPlace
<1> DEFINE bu == Blocks(unread)
           bb == Blocks(begun)
           up == unread.pair
           bp == begun.pair
           m == Len(file)
<1>2. /\ bu \in Nat /\ bb \in Nat /\ up \in Nat /\ bp \in Nat /\ m \in Nat
      /\ bb = 2 * bp - 2
      /\ bu = 2 * up - 1 \/ bu = 2 * up - 2
      /\ EOF(unread) => bu = 2 * up - 2
      /\ bp <= m + 1
      /\ EOF(unread) <=> up = m + 1
  <2>1. /\ bu \in Nat /\ bb \in Nat
        /\ ~InResponse(begun) /\ bb = 2 * bp - 2
        /\ bu = 2 * up - 1 \/ bu = 2 * up - 2
        /\ EOF(unread) => bu = 2 * up - 2
    BY <1>1, BlocksAre
  <2>2. /\ up \in Nat /\ bp \in Nat /\ m \in Nat /\ bp \in 1 .. m + 1
        /\ EOF(unread) <=> up = m + 1
    BY <1>1, PlacesAre
  <2> HIDE DEF bu, bb, up, bp, m
  <2>3. QED BY <2>1, <2>2
<1>3. CASE EOF(unread)
  <2>1. bu - bb < 2 /\ bu = 2 * up - 2 /\ up = m + 1
    <3> HIDE DEF bu, bb, up, m
    <3>1. half = 1 + (bu - bb) \/ half > 1 + (bu - bb)
      BY <1>1 DEF bu, bb
    <3>2. QED BY <1>2, <1>3, <3>1
  <2> HIDE DEF bu, bb, up, bp, m
  <2>2. up = bp
    BY <1>2, <2>1
  <2>3. QED BY <2>2 DEF up, bp
<1>4. CASE ~EOF(unread)
  <2>1. half = 1 + bu - bb /\ (up = bp \/ up = bp + 1)
    BY <1>4, WhileReading
  <2> HIDE DEF bu, bb, up, bp, m
  <2>2. up = bp
    BY <1>2, <2>1
  <2>3. QED BY <2>2 DEF up, bp
<1>5. QED BY <1>3, <1>4

\* A read that fails is one that fails in UhmServer.
LEMMA FailReadsPair ==
    ASSUME Inv, load_message_half_fails
    PROVE  \E r \in Pairs!Results(Stream) : Pairs!load_file_iteration(Stream, r) /\ Gives(r)
<1> DEFINE r == Pairs!Result("error", 0)
<1>1. /\ file' = file /\ begun' = unread /\ skipped' = FALSE /\ result' = "error"
      /\ loaded' = loaded /\ failure' = unread /\ failure = None /\ half \in {1, 2}
      /\ ~skipped /\ "read" \in Faults
  BY DEF load_message_half_fails, return, MayFail
<1>2. skipped = FALSE /\ unread \in Place
  BY <1>1, PlacesAre DEF Inv, InPlace, TypeOK
<1>3. unread.pair = begun.pair
  BY <1>1, FailsInPair
<1>4. framing = "aligned" /\ framing' \in Pairs!AfterError
  <2>1. unread # None
    BY <1>2, ReaderAssumption
  <2>2. QED BY <1>1, <2>1, FramingIs, FramingWillBe DEF Pairs!AfterError
<1>5. streams' = [streams EXCEPT ![Stream].framing = framing']
  BY <1>1, <1>2, <1>3, StreamsAre, StreamChanges
<1>6. Pairs!ReadMayFail(Stream) /\ ~streams[Stream].skipped
  BY <1>1, <1>4, StreamIs DEF Pairs!ReadMayFail
<1>7. Pairs!load_file_iteration(Stream, r)
  BY <1>4, <1>5, <1>6 DEF Pairs!load_file_iteration
<1>8. r \in Pairs!Results(Stream)
  BY DEF Pairs!Results
<1>9. r.kind = "error"
  BY DEF Pairs!Result
<1> HIDE DEF r
<1>10. Gives(r)
  BY <1>1, <1>9 DEF Gives
<1>11. QED BY <1>7, <1>8, <1>10

\* So is one that fails the postcondition.
LEMMA AssertReadsPair ==
    ASSUME Inv, load_file_iteration_asserts
    PROVE  Pairs!load_file_iteration_asserts(Stream)
<1>1. /\ file' = file /\ begun' = begun /\ skipped' = skipped /\ failure' = failure
      /\ aborted' = "load_file_iteration" /\ failure = None
      /\ skipped /\ "read" \in Faults
  BY DEF load_file_iteration_asserts, MayFail, streamVars
<1>2. framing = "aligned" /\ framing' = framing
  BY <1>1, FramingIs, FramingWillBe
<1>3. streams' = streams
  BY <1>1, <1>2, StreamsAre
<1>4. Pairs!ReadMayFail(Stream) /\ streams[Stream].skipped
  BY <1>1, <1>2, StreamIs DEF Pairs!ReadMayFail
<1>5. Pairs!Abort("load_file_iteration")
  BY <1>1, <1>3 DEF Pairs!Abort, Pairs!traceVars, Pairs!appVars, Pairs!handlerVars,
     Pairs!clientVars, Pairs!threadVars, Stream
<1>6. QED BY <1>4, <1>5 DEF Pairs!load_file_iteration_asserts

\* No other step is seen in UhmServer.
LEMMA WithinPass ==
    ASSUME Inv, [Next]_vars, ~PassEnds
    PROVE  streams' = streams
<1>1. half # 3 /\ failure' = failure /\ aborted' = aborted
  BY DEF PassEnds
<1>2. ASSUME file' = file, begun' = begun, skipped' = skipped
      PROVE  streams' = streams
  <2>1. framing' = framing
    BY <1>1, <1>2, FramingIs, FramingWillBe
  <2>2. QED BY <1>2, <2>1, StreamsAre
<1>3. CASE load_file_iteration
  <2>1. half = 0 /\ file' = file /\ begun' = unread /\ skipped' = FALSE
    BY <1>3 DEF load_file_iteration, new_pass
  <2>2. begun = unread /\ skipped = FALSE
    BY <2>1 DEF Inv, InPlace, TypeOK, PassInPlace
  <2>3. QED BY <1>2, <2>1, <2>2
<1>4. CASE load_message_half
  BY <1>2, <1>4 DEF load_message_half
<1>5. CASE UNCHANGED vars
  BY <1>2, <1>5 DEF vars, streamVars
<1>6. ~load_message_half_fails
  <2>1. unread # None
    <3>1. unread \in Place
      BY PlacesAre DEF Inv, InPlace, TypeOK
    <3>2. QED BY <3>1, ReaderAssumption
  <2>2. QED BY <1>1, <2>1 DEF load_message_half_fails, MayFail
<1>7. ~load_file_iteration_asserts
  BY <1>1 DEF load_file_iteration_asserts, MayFail
<1>8. ~load_file_iteration_done
  BY <1>1 DEF load_file_iteration_done
<1>9. QED BY <1>3, <1>4, <1>5, <1>6, <1>7, <1>8 DEF Next, Idle

\* A step that ends a pass is an end of it, or one of the two of a failed read.
LEMMA PassEnding ==
    ASSUME Inv, [Next]_vars, PassEnds, ~UNCHANGED vars
    PROVE  \/ load_file_iteration_done
           \/ load_message_half_fails
           \/ load_file_iteration_asserts
<1>1. load_file_iteration \/ load_message_half => half # 3
  BY DEF load_file_iteration, load_message_half
<1>2. load_file_iteration \/ load_message_half =>
          failure' = failure /\ aborted' = aborted
  BY DEF load_file_iteration, load_message_half
<1>3. QED BY <1>1, <1>2 DEF Next, Idle, PassEnds

\* UhmServer may read the file a pair at a time: each pass of
\* load_file_iteration() over the lines, with a read that fails at any of them,
\* is a pass over the pairs that gives the same result and leaves the stream at
\* the same place, framed alike; no other step is seen there.
THEOREM ReaderReadsPairs == Spec => PassesReadPairs
<1> DEFINE A == failure = None \/ Plain(file) =>
                   IF PassEnds
                   THEN \/ Pairs!load_file_iteration_asserts(Stream)
                        \/ \E r \in Pairs!Results(Stream) :
                              Pairs!load_file_iteration(Stream, r) /\ Gives(r)
                   ELSE streams' = streams
<1>1. Inv /\ [Next]_vars => [A]_vars
  <2>1. SUFFICES ASSUME Inv, [Next]_vars, ~UNCHANGED vars,
                        failure = None \/ Plain(file)
                 PROVE  IF PassEnds
                        THEN \/ Pairs!load_file_iteration_asserts(Stream)
                             \/ \E r \in Pairs!Results(Stream) :
                                   Pairs!load_file_iteration(Stream, r) /\ Gives(r)
                        ELSE streams' = streams
    OBVIOUS
  <2>2. CASE PassEnds
    <3>1. CASE load_file_iteration_done
      BY <2>1, <2>2, <3>1, DoneReadsPair
    <3>2. CASE load_message_half_fails
      BY <2>2, <2>1, <3>2, FailReadsPair
    <3>3. CASE load_file_iteration_asserts
      BY <2>2, <2>1, <3>3, AssertReadsPair
    <3>4. QED BY <2>1, <2>2, <3>1, <3>2, <3>3, PassEnding
  <2>3. CASE ~PassEnds
    BY <2>1, <2>3, WithinPass
  <2>4. QED BY <2>2, <2>3
<1>2. QED BY <1>1, AlwaysInPlace, PTL DEF Spec, PassesReadPairs
===============================================================================
