-------------------------- MODULE UhmCompareProofs ----------------------------
(***************************************************************************)
(* Theorems about UhmCompare, for any messages, of any length, and any     *)
(* filters.                                                                *)
(***************************************************************************)
EXTENDS UhmCompare, FiniteSetTheorems, SequenceTheorems,
        WellFoundedInduction, TLAPS

LEMMA QueryElement ==
    ASSUME NEW q \in Query, NEW i \in 1 .. Len(q)
    PROVE  /\ q[i].name \in Name
           /\ q[i].value \in Value \cup {None}
           /\ q[i] = [name |-> q[i].name, value |-> q[i].value]
<1>1. q[i] \in [name : Name, value : Value \cup {None}]
  BY ElementOfSeq DEF Query
<1>2. QED
  BY <1>1

\* A nonempty set of positions in a query has a last one.
LEMMA LastPosition ==
    ASSUME NEW q \in Query, NEW S \in SUBSET (1 .. Len(q)), S # {}
    PROVE  \E i \in S : \A j \in S : j <= i
<1> DEFINE D == {Len(q) - i : i \in S}
<1>1. Len(q) \in Nat
  BY DEF Query
<1>2. D \subseteq Nat /\ D # {}
  <2>1. ASSUME NEW i \in S PROVE Len(q) - i \in Nat
    <3>1. i \in 1 .. Len(q)
      OBVIOUS
    <3>2. QED
      BY <1>1, <3>1
  <2>2. QED
    BY <2>1
<1>3. PICK d \in D : \A e \in D : <<e, d>> \notin OpToRel(<, Nat)
  <2> HIDE DEF D
  <2> QED
    BY <1>2, NatLessThanWellFounded, WFMin
<1>4. PICK i \in S : d = Len(q) - i
  BY <1>3
<1>5. ASSUME NEW j \in S PROVE j <= i
  <2>1. Len(q) - j \in D
    OBVIOUS
  <2>2. ~(Len(q) - j < d)
    BY <1>2, <1>3, <2>1 DEF OpToRel
  <2>3. QED
    BY <1>1, <1>4, <2>2
<1>6. QED
  BY <1>5

\* What the table has for a name is what the query gives.
LEMMA DecodedIsGiven ==
    ASSUME NEW q \in Query, NEW n \in Name, NEW v \in Value
    PROVE  Gives(q, n, v) <=>
              n \in DOMAIN soup_form_decode(q) /\ soup_form_decode(q)[n] = v
<1> DEFINE At == {i \in Decoded(q) : q[i].name = n}
           IsLast(i) == /\ i \in Decoded(q)
                        /\ q[i].name = n
                        /\ \A j \in Decoded(q) : q[j].name = n => j <= i
<1>1. Len(q) \in Nat /\ Decoded(q) \subseteq 1 .. Len(q)
  BY DEF Query, Decoded
<1>2. n \in DOMAIN soup_form_decode(q) <=> At # {}
  BY DEF soup_form_decode
<1>3. ASSUME At # {} PROVE \E i : IsLast(i)
  <2>1. At \in SUBSET (1 .. Len(q))
    BY <1>1
  <2>2. PICK i \in At : \A j \in At : j <= i
    BY <1>3, <2>1, LastPosition
  <2>3. QED
    BY <2>2
<1>4. ASSUME NEW i, NEW k, IsLast(i), IsLast(k) PROVE i = k
  BY <1>1, <1>4
<1>5. ASSUME NEW i, IsLast(i)
      PROVE  /\ n \in DOMAIN soup_form_decode(q)
             /\ soup_form_decode(q)[n] = q[i].value
  <2>1. n \in {q[k].name : k \in Decoded(q)}
    BY <1>5
  <2>2. soup_form_decode(q)[n] =
            q[CHOOSE k \in Decoded(q) :
                 /\ q[k].name = n
                 /\ \A j \in Decoded(q) : q[j].name = n => j <= k].value
    BY <2>1 DEF soup_form_decode
  <2>3. (CHOOSE k \in Decoded(q) :
                 /\ q[k].name = n
                 /\ \A j \in Decoded(q) : q[j].name = n => j <= k) = i
    BY <1>4, <1>5
  <2>4. QED
    BY <1>2, <1>5, <2>2, <2>3
<1>6. ASSUME NEW i, IsLast(i) PROVE Gives(q, n, q[i].value)
  <2>1. i \in 1 .. Len(q)
    BY <1>1, <1>6
  <2>2. q[i] = [name |-> n, value |-> q[i].value]
    BY <1>6, <2>1, QueryElement
  <2>3. ASSUME NEW j \in i + 1 .. Len(q), q[j].name = n PROVE q[j].value = None
    <3>1. j \in 1 .. Len(q) /\ ~(j <= i)
      BY <1>1, <2>1, <2>3
    <3>2. QED
      BY <1>6, <2>3, <3>1 DEF Decoded
  <2>4. QED
    BY <2>1, <2>2, <2>3 DEF Gives
<1>7. ASSUME Gives(q, n, v) PROVE \E i : IsLast(i) /\ q[i].value = v
  <2>1. PICK i \in 1 .. Len(q) :
           /\ q[i] = [name |-> n, value |-> v]
           /\ \A j \in i + 1 .. Len(q) : q[j].name = n => q[j].value = None
    BY <1>7 DEF Gives
  <2>2. v # None
    BY CompareAssumption
  <2>3. i \in Decoded(q) /\ q[i].name = n /\ q[i].value = v
    BY <2>1, <2>2 DEF Decoded
  <2>4. ASSUME NEW j \in Decoded(q), q[j].name = n PROVE j <= i
    <3>1. j \in 1 .. Len(q) /\ q[j].value # None
      BY <2>4 DEF Decoded
    <3>2. QED
      BY <1>1, <2>1, <2>4, <3>1
  <2>5. QED
    BY <2>3, <2>4
<1>8. QED
  BY <1>2, <1>3, <1>5, <1>6, <1>7

\* The tables are finite, and have values.
LEMMA DecodedTable ==
    ASSUME NEW q \in Query
    PROVE  /\ IsFiniteSet(DOMAIN soup_form_decode(q))
           /\ DOMAIN soup_form_decode(q) \subseteq Name
           /\ \A n \in DOMAIN soup_form_decode(q) :
                 soup_form_decode(q)[n] \in Value
<1>1. Len(q) \in Nat
  BY DEF Query
<1> DEFINE N == {q[i].name : i \in 1 .. Len(q)}
           f == [i \in 1 .. Len(q) |-> q[i].name]
<1>2. IsFiniteSet(N)
  <2>1. f \in Surjection(1 .. Len(q), N)
    BY DEF Surjection
  <2>2. IsFiniteSet(1 .. Len(q))
    BY <1>1, FS_Interval
  <2>3. QED
    BY <2>1, <2>2, FS_Surjection
<1>3. DOMAIN soup_form_decode(q) \in SUBSET N
  BY DEF soup_form_decode, Decoded
<1>4. N \subseteq Name
  BY QueryElement
<1>5. ASSUME NEW n \in DOMAIN soup_form_decode(q)
      PROVE  soup_form_decode(q)[n] \in Value
  <2>1. n \in Name
    BY <1>3, <1>4
  <2> DEFINE At == {i \in Decoded(q) : q[i].name = n}
  <2>2. At # {} /\ At \in SUBSET (1 .. Len(q))
    BY <1>5 DEF soup_form_decode, Decoded
  <2>3. PICK i \in At : \A j \in At : j <= i
    BY <2>2, LastPosition
  <2>4. q[i].value \in Value
    BY <2>2, <2>3, QueryElement DEF Decoded
  <2>5. Gives(q, n, q[i].value)
    <3>1. i \in 1 .. Len(q)
      BY <2>2
    <3>2. q[i] = [name |-> n, value |-> q[i].value]
      BY <3>1, QueryElement
    <3>3. ASSUME NEW j \in i + 1 .. Len(q), q[j].name = n
          PROVE  q[j].value = None
      <4>1. j \in 1 .. Len(q) /\ ~(j <= i)
        BY <1>1, <3>1, <3>3
      <4>2. QED
        BY <2>3, <3>3, <4>1 DEF Decoded
    <3>4. QED
      BY <3>1, <3>2, <3>3 DEF Gives
  <2>6. QED
    BY <2>1, <2>4, <2>5, DecodedIsGiven
<1>6. QED
  BY <1>2, <1>3, <1>4, <1>5, FS_Subset
-------------------------------------------------------------------------------
(* As many parameters, and those of one message in the other, are the same *)
(* parameters.                                                             *)

LEMMA SameParameters ==
    ASSUME NEW e, NEW a,
           IsFiniteSet(DOMAIN e), IsFiniteSet(DOMAIN a),
           \A n \in DOMAIN e : e[n] # None,
           \A n \in DOMAIN a : a[n] # None
    PROVE  same_parameters(e, a)
              <=> DOMAIN e = DOMAIN a /\ \A n \in DOMAIN e : e[n] = a[n]
<1>1. ASSUME same_parameters(e, a)
      PROVE  DOMAIN e = DOMAIN a /\ \A n \in DOMAIN e : e[n] = a[n]
  <2>1. \A n \in DOMAIN e : n \in DOMAIN a /\ e[n] = a[n]
    BY <1>1 DEF same_parameters, g_hash_table_lookup
  <2>2. DOMAIN e \in SUBSET DOMAIN a
    BY <2>1
  <2>3. DOMAIN e = DOMAIN a
    BY <1>1, <2>2, FS_Subset DEF same_parameters
  <2>4. QED
    BY <2>1, <2>3
<1>2. ASSUME DOMAIN e = DOMAIN a, \A n \in DOMAIN e : e[n] = a[n]
      PROVE  same_parameters(e, a)
  BY <1>2 DEF same_parameters, g_hash_table_lookup
<1>3. QED
  BY <1>1, <1>2

\* The code's test accepts the messages that agree but for the filter's names,
\* also when one of them lacks such a parameter: the check for its presence
\* (2287-2288) never fails.
LEMMA FilterComparesTheRest ==
    ASSUME NEW e \in Message, NEW a \in Message, NEW names,
           e.query \in Query, a.query \in Query
    PROVE  compare_messages_ignore_parameter_values_cb(e, a, names)
              <=> SameBut(e, a, names)
<1> DEFINE E == soup_form_decode(e.query)
           A == soup_form_decode(a.query)
           e1 == g_hash_table_remove(E, names)
           a1 == g_hash_table_remove(A, names)
           Same == DOMAIN e1 = DOMAIN a1 /\ \A n \in DOMAIN e1 : e1[n] = a1[n]
           Alike == \A n \in Name \ names, v \in Value :
                        Gives(e.query, n, v) <=> Gives(a.query, n, v)
<1>1. /\ IsFiniteSet(DOMAIN E) /\ DOMAIN E \subseteq Name
      /\ IsFiniteSet(DOMAIN A) /\ DOMAIN A \subseteq Name
      /\ \A n \in DOMAIN E : E[n] \in Value
      /\ \A n \in DOMAIN A : A[n] \in Value
  BY DecodedTable
<1>2. /\ DOMAIN e1 = DOMAIN E \ names /\ \A n \in DOMAIN e1 : e1[n] = E[n]
      /\ DOMAIN a1 = DOMAIN A \ names /\ \A n \in DOMAIN a1 : a1[n] = A[n]
  BY DEF g_hash_table_remove
<1>3. /\ \A n \in Name, v \in Value :
            Gives(e.query, n, v) <=> n \in DOMAIN E /\ E[n] = v
      /\ \A n \in Name, v \in Value :
            Gives(a.query, n, v) <=> n \in DOMAIN A /\ A[n] = v
  BY DecodedIsGiven
<1>4. same_parameters(e1, a1) <=> Same
  <2>1. IsFiniteSet(DOMAIN e1) /\ IsFiniteSet(DOMAIN a1)
    BY <1>1, <1>2, FS_Subset
  <2>2. /\ \A n \in DOMAIN e1 : e1[n] # None
        /\ \A n \in DOMAIN a1 : a1[n] # None
    BY <1>1, <1>2, CompareAssumption
  <2> HIDE DEF e1, a1
  <2>3. QED
    BY <2>1, <2>2, SameParameters
<1>5. Same <=> Alike
  <2> HIDE DEF e1, a1, E, A
  <2>1. ASSUME Same, NEW n \in Name \ names, NEW v \in Value
        PROVE  Gives(e.query, n, v) <=> Gives(a.query, n, v)
    BY <1>2, <1>3, <2>1
  <2>2. ASSUME Alike PROVE Same
    <3>1. ASSUME NEW n \in DOMAIN e1 PROVE n \in DOMAIN a1 /\ e1[n] = a1[n]
      BY <1>1, <1>2, <1>3, <2>2
    <3>2. ASSUME NEW n \in DOMAIN a1 PROVE n \in DOMAIN e1
      BY <1>1, <1>2, <1>3, <2>2
    <3>3. QED
      BY <3>1, <3>2
  <2>3. QED
    BY <2>1, <2>2
<1>6. compare_messages_ignore_parameter_values_cb(e, a, names)
        <=> parts_equal(e, a) /\ same_parameters(e1, a1)
  BY DEF compare_messages_ignore_parameter_values_cb, presence_differs
<1>7. QED
  <2> HIDE DEF e1, a1, E, A
  <2>1. SameBut(e, a, names) <=> parts_equal(e, a) /\ Alike
    BY DEF SameBut, parts_equal
  <2>2. QED
    BY <1>4, <1>5, <1>6, <2>1
-------------------------------------------------------------------------------
LEMMA CurrentNext == ComparisonIsCurrent /\ [Next]_vars => ComparisonIsCurrent'
<1> SUFFICES ASSUME ComparisonIsCurrent, [Next]_vars PROVE ComparisonIsCurrent'
  OBVIOUS
<1>1. ASSUME NEW e \in Message, NEW a \in Message, NEW response,
             ~Crashes(e, a), Compared(e, a, response), UNCHANGED filters
      PROVE  ComparisonIsCurrent'
  <2>1. /\ compared'.expected = e /\ compared'.actual = a
        /\ compared'.equal = compare_incoming_message(e, a)
    BY <1>1 DEF Compared
  <2>2. compare_incoming_message(e, a)' <=> compare_incoming_message(e, a)
    BY <1>1
    DEF compare_incoming_message, compare_messages_ignore_parameter_values_cb,
        real_compare_messages
  <2>3. ~Crashes(e, a)'
    BY <1>1 DEF Crashes
  <2>4. QED
    BY <2>1, <2>2, <2>3
    DEF ComparisonIsCurrent, Crashes, compare_incoming_message
<1>2. CASE Compare
  <2>1. PICK e \in Message, a \in Message :
           \/ server_process_message(e, a)
           \/ uhm_server_received_message_chunk(e, a)
           \/ soup_form_decode_crashes(e, a)
    BY <1>2 DEF Compare
  <2>2. CASE server_process_message(e, a)
    BY <1>1, <2>2 DEF server_process_message
  <2>3. CASE uhm_server_received_message_chunk(e, a)
    BY <1>1, <2>3 DEF uhm_server_received_message_chunk
  <2>4. CASE soup_form_decode_crashes(e, a)
    BY <2>4 DEF soup_form_decode_crashes, Ready, ComparisonIsCurrent
  <2>5. QED
    BY <2>1, <2>2, <2>3, <2>4
<1>3. CASE returns
  BY <1>3 DEF returns, ComparisonIsCurrent
<1>4. CASE Application
  <2>1. compared = NoComparison /\ compared' = compared
    BY <1>4
    DEF Application, uhm_server_filter_ignore_parameter_values,
        uhm_server_compare_messages_remove_filter, uhm_server_run, Ready
  <2>2. QED
    BY <2>1 DEF ComparisonIsCurrent, NoComparison
<1>5. CASE UNCHANGED vars
  BY <1>5
  DEF vars, ComparisonIsCurrent, Crashes, compare_incoming_message,
      compare_messages_ignore_parameter_values_cb, real_compare_messages
<1>6. QED
  BY <1>2, <1>3, <1>4, <1>5 DEF Next, Dead

\* Whatever filters are installed and removed, and whatever is compared on
\* whichever side, the verdict in use is that of the filters there are.
THEOREM ComparisonStaysCurrent == Spec => []ComparisonIsCurrent
<1>1. Init => ComparisonIsCurrent
  BY DEF Init, ComparisonIsCurrent
<1>2. QED
  BY <1>1, CurrentNext, PTL DEF Spec

LEMMA ComparedQueries ==
    ASSUME ComparisonIsCurrent, IsCompared, filters # <<>>
    PROVE  /\ compared.expected \in Message /\ compared.actual \in Message
           /\ compared.equal <=>
                compare_messages_ignore_parameter_values_cb(
                    compared.expected, compared.actual, filters[1].names)
           /\ parts_equal(compared.expected, compared.actual) =>
                compared.expected.query \in Query /\ compared.actual.query \in Query
<1>1. compared # NoComparison
  BY DEF IsCompared, NoComparison
<1>2. /\ compared.expected \in Message /\ compared.actual \in Message
      /\ ~Crashes(compared.expected, compared.actual)
      /\ compared.equal <=>
            compare_incoming_message(compared.expected, compared.actual)
  BY <1>1 DEF ComparisonIsCurrent
<1>3. /\ compared.expected.query \in Query \cup {None}
      /\ compared.actual.query \in Query \cup {None}
  BY <1>2, CompareAssumption
<1>4. QED
  BY <1>2, <1>3 DEF Crashes, compare_incoming_message

\* A filter ignores the values of its parameters and nothing else, for any
\* queries and any names, where the queries have the same of these parameters.
THEOREM FiltersIgnoreValuesOnly == Spec => []FiltersIgnoreValues
<1>1. ComparisonIsCurrent => FiltersIgnoreValues
  <2> SUFFICES ASSUME ComparisonIsCurrent, IsCompared, filters # <<>>
               PROVE  /\ compared.equal =>
                            SameBut(compared.expected, compared.actual,
                                    filters[1].names)
                      /\ /\ SameBut(compared.expected, compared.actual,
                                    filters[1].names)
                         /\ SamePresence(compared.expected, compared.actual,
                                         filters[1].names)
                         => compared.equal
    BY DEF FiltersIgnoreValues
  <2>1. CASE parts_equal(compared.expected, compared.actual)
    BY <2>1, ComparedQueries, FilterComparesTheRest
  <2>2. CASE ~parts_equal(compared.expected, compared.actual)
    BY <2>2, ComparedQueries
    DEF compare_messages_ignore_parameter_values_cb, SameBut, parts_equal
  <2>3. QED
    BY <2>1, <2>2
<1>2. QED
  BY <1>1, ComparisonStaysCurrent, PTL

\* Installing a filter never makes a match fail.
THEOREM FiltersOnlyForgive == Spec => []FiltersForgive
<1>1. ComparisonIsCurrent => FiltersForgive
  <2> SUFFICES ASSUME ComparisonIsCurrent, IsCompared,
                      real_compare_messages(compared.expected, compared.actual)
               PROVE  compared.equal
    BY DEF FiltersForgive
  <2>1. CASE filters = <<>>
    <3>1. compared # NoComparison
      BY DEF IsCompared, NoComparison
    <3>2. QED
      BY <2>1, <3>1 DEF ComparisonIsCurrent, compare_incoming_message
  <2>2. CASE filters # <<>>
    <3>1. /\ compared.expected.query = compared.actual.query
          /\ parts_equal(compared.expected, compared.actual)
      BY DEF real_compare_messages
    <3>2. SameBut(compared.expected, compared.actual, filters[1].names)
      BY <3>1 DEF SameBut, parts_equal
    <3>3. QED
      BY <2>2, <3>1, <3>2, ComparedQueries, FilterComparesTheRest
  <2>3. QED
    BY <2>1, <2>2
<1>2. QED
  BY <1>1, ComparisonStaysCurrent, PTL

\* It does not matter which of the two messages is taken for the recorded one.
THEOREM ComparingIsSymmetric == Spec => []DirectionDoesNotMatter
<1>1. ComparisonIsCurrent => DirectionDoesNotMatter
  <2> SUFFICES ASSUME ComparisonIsCurrent, IsCompared
               PROVE  compared.equal <=>
                         compare_incoming_message(compared.actual,
                                                  compared.expected)
    BY DEF DirectionDoesNotMatter
  <2> DEFINE e == compared.expected
             a == compared.actual
  <2>1. parts_equal(e, a) <=> parts_equal(a, e)
    BY DEF parts_equal
  <2>2. CASE filters = <<>>
    <3>1. compared # NoComparison
      BY DEF IsCompared, NoComparison
    <3>2. QED
      BY <2>1, <2>2, <3>1
      DEF ComparisonIsCurrent, compare_incoming_message, real_compare_messages
  <2>3. CASE filters # <<>> /\ parts_equal(e, a)
    <3>1. SameBut(e, a, filters[1].names) <=> SameBut(a, e, filters[1].names)
      BY DEF SameBut
    <3>2. QED
      BY <2>3, <3>1, ComparedQueries, FilterComparesTheRest
      DEF compare_incoming_message
  <2>4. CASE filters # <<>> /\ ~parts_equal(e, a)
    BY <2>1, <2>4, ComparedQueries
    DEF compare_incoming_message, compare_messages_ignore_parameter_values_cb
  <2>5. QED
    BY <2>2, <2>3, <2>4
<1>2. QED
  BY <1>1, ComparisonStaysCurrent, PTL
-------------------------------------------------------------------------------
(* Types, and the answer that is sent.                                     *)

LEMMA ResponseType ==
    ASSUME NEW m \in Message
    PROVE  /\ m.response.location \in Location \cup {None}
           /\ m.response.length \in Nat /\ m.response.size \in Nat
  BY CompareAssumption DEF Response

LEMMA AnswerType ==
    ASSUME NEW m \in Message, port \in Port
    PROVE  answer(m.response) \in Answer
<1>1. rewritten(m.response.location) \in Location \cup {None}
  BY ResponseType DEF rewritten, Location
<1>2. Max2(m.response.size, m.response.length) \in Nat
  BY ResponseType DEF Max2
<1>3. QED
  BY <1>1, <1>2, ResponseType DEF answer, Answer

LEMMA VerdictType ==
    ASSUME NEW e, NEW a
    PROVE  compare_incoming_message(e, a) \in BOOLEAN
  BY
  DEF compare_incoming_message, real_compare_messages, parts_equal,
      compare_messages_ignore_parameter_values_cb, same_parameters

LEMMA ComparedType ==
    ASSUME TypeOK, NEW e \in Message, NEW a \in Message,
           NEW response \in {e.response, None}, Compared(e, a, response)
    PROVE  /\ compared'.expected = e /\ compared'.actual = a
           /\ compared'.equal \in BOOLEAN
           /\ compared'.answer \in Answer \cup {None}
           /\ compared'.answer # None => compared'.answer = answer(response)
                                         /\ response # None
<1>1. port \in Port
  BY DEF TypeOK
<1>2. response # None => answer(response) \in Answer
  BY <1>1, AnswerType
<1>3. QED
  BY <1>2, VerdictType DEF Compared

LEMMA CompareTypeInit == Init => TypeOK
<1> SUFFICES ASSUME Init PROVE TypeOK
  OBVIOUS
<1>1. <<>> \in Seq(Filter)
  BY EmptySeq
<1>2. 1 \in 1 .. MaxFilters + 1
  BY CompareAssumption
<1>3. QED
  BY <1>1, <1>2 DEF Init, TypeOK, NoComparison

LEMMA FilterListType ==
    ASSUME TypeOK
    PROVE  /\ \A names \in SUBSET Name :
                 uhm_server_filter_ignore_parameter_values(names) =>
                     filters' \in Seq(Filter)
           /\ \A id \in 1 .. MaxFilters :
                 uhm_server_compare_messages_remove_filter(id) =>
                     filters' \in Seq(Filter)
<1>1. filters \in Seq(Filter) /\ Len(filters) \in Nat /\ filter_id \in Nat
  BY CompareAssumption DEF TypeOK
<1>2. ASSUME NEW names \in SUBSET Name,
             uhm_server_filter_ignore_parameter_values(names)
      PROVE  filters' \in Seq(Filter)
  <2>1. [id |-> filter_id, names |-> names] \in Filter
    BY <1>1 DEF Filter
  <2>2. QED
    BY <1>1, <1>2, <2>1, AppendProperties
    DEF uhm_server_filter_ignore_parameter_values
<1>3. ASSUME NEW id \in 1 .. MaxFilters,
             uhm_server_compare_messages_remove_filter(id)
      PROVE  filters' \in Seq(Filter)
  <2>1. PICK i \in 1 .. Len(filters) :
            filters' = SubSeq(filters, 1, i - 1)
                       \o SubSeq(filters, i + 1, Len(filters))
    BY <1>3 DEF uhm_server_compare_messages_remove_filter
  <2>2. SubSeq(filters, 1, i - 1) \in Seq(Filter)
    BY <1>1, SubSeqProperties
  <2>3. SubSeq(filters, i + 1, Len(filters)) \in Seq(Filter)
    BY <1>1, SubSeqProperties
  <2>4. QED
    BY <2>1, <2>2, <2>3, ConcatProperties
<1>4. QED
  BY <1>2, <1>3

\* The types, and that an answer can be followed, hold together: the port
\* stays while an answer is in use.
LEMMA FollowedNext ==
    ASSUME TypeOK, AnswerCanBeFollowed, [Next]_vars
    PROVE  TypeOK' /\ AnswerCanBeFollowed'
<1>1. ASSUME NEW e \in Message, NEW a \in Message, server_process_message(e, a)
      PROVE  TypeOK' /\ AnswerCanBeFollowed'
  <2>1. /\ Compared(e, a, e.response)
        /\ UNCHANGED <<filters, filter_id, port, aborted>>
    BY <1>1 DEF server_process_message
  <2>2. TypeOK'
    BY <2>1, ComparedType DEF TypeOK
  <2>3. ASSUME compared'.answer # None
        PROVE  /\ compared'.answer = answer(e.response)
               /\ compared'.expected = e
    BY <2>1, <2>3, ComparedType
  <2>4. Max2(e.response.size, e.response.length) >= e.response.size
        /\ Max2(e.response.size, e.response.length) >= e.response.length
    BY ResponseType DEF Max2
  <2>5. ASSUME e.response.location # None, e.response.location.absolute
        PROVE  rewritten(e.response.location).port = port
    BY <2>5, ResponseType DEF rewritten, Location
  <2>6. AnswerCanBeFollowed'
    BY <2>1, <2>3, <2>4, <2>5 DEF AnswerCanBeFollowed, answer
  <2>7. QED
    BY <2>2, <2>6
<1>2. ASSUME NEW e \in Message, NEW a \in Message,
             uhm_server_received_message_chunk(e, a)
      PROVE  TypeOK' /\ AnswerCanBeFollowed'
  <2>1. /\ Compared(a, e, None)
        /\ UNCHANGED <<filters, filter_id, port, aborted>>
    BY <1>2 DEF uhm_server_received_message_chunk
  <2>2. TypeOK'
    BY <2>1, ComparedType DEF TypeOK
  <2>3. compared'.answer = None
    BY <2>1, ComparedType
  <2>4. QED
    BY <2>2, <2>3 DEF AnswerCanBeFollowed
<1>3. CASE returns
  BY <1>3 DEF returns, TypeOK, AnswerCanBeFollowed, NoComparison
<1>4. ASSUME NEW e, NEW a, soup_form_decode_crashes(e, a)
      PROVE  TypeOK' /\ AnswerCanBeFollowed'
  BY <1>4 DEF soup_form_decode_crashes, TypeOK, AnswerCanBeFollowed
<1>5. CASE Application
  <2>1. compared = NoComparison /\ UNCHANGED <<compared, aborted>>
    BY <1>5
    DEF Application, Ready, uhm_server_filter_ignore_parameter_values,
        uhm_server_compare_messages_remove_filter, uhm_server_run
  <2>2. AnswerCanBeFollowed'
    BY <2>1 DEF AnswerCanBeFollowed, NoComparison
  <2>3. /\ filters' \in Seq(Filter)
        /\ filter_id' \in 1 .. MaxFilters + 1
        /\ port' \in Port
    <3>1. ASSUME NEW names \in SUBSET Name,
                 uhm_server_filter_ignore_parameter_values(names)
          PROVE  /\ filters' \in Seq(Filter)
                 /\ filter_id' \in 1 .. MaxFilters + 1
                 /\ port' \in Port
      <4>1. filters' \in Seq(Filter)
        BY <3>1, FilterListType
      <4>2. filter_id' \in 1 .. MaxFilters + 1 /\ port' \in Port
        BY <3>1, CompareAssumption
        DEF uhm_server_filter_ignore_parameter_values, TypeOK
      <4>3. QED
        BY <4>1, <4>2
    <3>2. ASSUME NEW id \in 1 .. MaxFilters,
                 uhm_server_compare_messages_remove_filter(id)
          PROVE  /\ filters' \in Seq(Filter)
                 /\ filter_id' \in 1 .. MaxFilters + 1
                 /\ port' \in Port
      <4>1. filters' \in Seq(Filter)
        BY <3>2, FilterListType
      <4>2. filter_id' \in 1 .. MaxFilters + 1 /\ port' \in Port
        BY <3>2 DEF uhm_server_compare_messages_remove_filter, TypeOK
      <4>3. QED
        BY <4>1, <4>2
    <3>3. ASSUME NEW p \in Port, uhm_server_run(p)
          PROVE  /\ filters' \in Seq(Filter)
                 /\ filter_id' \in 1 .. MaxFilters + 1
                 /\ port' \in Port
      BY <3>3 DEF uhm_server_run, TypeOK
    <3>4. QED
      BY <1>5, <3>1, <3>2, <3>3 DEF Application
  <2>4. QED
    BY <2>1, <2>2, <2>3 DEF TypeOK
<1>6. CASE UNCHANGED vars
  BY <1>6 DEF vars, TypeOK, AnswerCanBeFollowed
<1>7. QED
  BY <1>1, <1>2, <1>3, <1>4, <1>5, <1>6 DEF Next, Compare, Dead

\* Filters come and go in a well-formed list, and every comparison is one of
\* two messages with a verdict and, at most, an answer.
THEOREM CompareTypeCorrect == Spec => []TypeOK
<1>1. Init => TypeOK /\ AnswerCanBeFollowed
  BY CompareTypeInit DEF Init, AnswerCanBeFollowed, NoComparison
<1>2. TypeOK /\ AnswerCanBeFollowed /\ [Next]_vars
          => TypeOK' /\ AnswerCanBeFollowed'
  BY FollowedNext
<1>3. QED
  BY <1>1, <1>2, PTL DEF Spec

\* Whatever port the server has got in this run, and however short the trace
\* is cut, an answer leads back to the server and is as long as it says.
THEOREM AnswersCanBeFollowed == Spec => []AnswerCanBeFollowed
<1>1. Init => TypeOK /\ AnswerCanBeFollowed
  BY CompareTypeInit DEF Init, AnswerCanBeFollowed, NoComparison
<1>2. TypeOK /\ AnswerCanBeFollowed /\ [Next]_vars
          => TypeOK' /\ AnswerCanBeFollowed'
  BY FollowedNext
<1>3. QED
  BY <1>1, <1>2, PTL DEF Spec
===============================================================================
