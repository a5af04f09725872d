--------------------------- MODULE UhmResolverProofs ---------------------------
(***************************************************************************)
(* Theorems about UhmResolver, for any clients, names and addresses.       *)
(***************************************************************************)
EXTENDS UhmResolver, SequenceTheorems, TLAPS

-------------------------------------------------------------------------------
(* What is in a sequence, and what a visit finds.                          *)

LEMMA ElementsAppend ==
    ASSUME NEW S, NEW s \in Seq(S), NEW e \in S
    PROVE  /\ Append(s, e) \in Seq(S)
           /\ Len(Append(s, e)) = Len(s) + 1 /\ Len(s) \in Nat
           /\ \A i \in 1 .. Len(s) : Append(s, e)[i] = s[i]
           /\ Append(s, e)[Len(s) + 1] = e
           /\ Elements(Append(s, e)) = Elements(s) \cup {e}
<1>1. /\ Append(s, e) \in Seq(S)
      /\ Len(Append(s, e)) = Len(s) + 1 /\ Len(s) \in Nat
      /\ \A i \in 1 .. Len(s) : Append(s, e)[i] = s[i]
      /\ Append(s, e)[Len(s) + 1] = e
  OBVIOUS
<1> DEFINE t == Append(s, e)
<1> HIDE DEF t
<1>2. \A x : x \in Elements(t) <=> x \in Elements(s) \cup {e}
  BY <1>1 DEF Elements, t
<1>3. QED
  BY <1>1, <1>2 DEF t

LEMMA ElementsNone == Elements(<<>>) = {} /\ Len(<<>>) = 0
  BY DEF Elements

LEMMA ElementsTail ==
    ASSUME NEW S, NEW s \in Seq(S), s # <<>>
    PROVE  /\ Head(s) \in S
           /\ Tail(s) \in Seq(S)
           /\ Elements(s) \subseteq Elements(Tail(s)) \cup {Head(s)}
<1>1. /\ Head(s) \in S /\ Head(s) = s[1]
      /\ Tail(s) \in Seq(S)
      /\ Len(Tail(s)) = Len(s) - 1 /\ Len(s) \in Nat \ {0}
      /\ \A i \in 1 .. Len(Tail(s)) : Tail(s)[i] = s[i + 1]
  BY HeadTailProperties, EmptySeq
<1> DEFINE t == Tail(s)
<1> HIDE DEF t
<1>2. ASSUME NEW i \in 1 .. Len(s), s[i] # Head(s)
      PROVE  s[i] \in Elements(t)
  <2>1. i - 1 \in 1 .. Len(t) /\ t[i - 1] = s[i]
    BY <1>1, <1>2 DEF t
  <2>2. QED
    BY <2>1 DEF Elements
<1>3. QED
  BY <1>1, <1>2 DEF Elements, t

\* With no record visited, or none there, nothing is found.
LEMMA AnswerNone ==
    ASSUME NEW l, NEW records
    PROVE  AnswerOf(l, records, 0, <<>>)
<1>1. WantedIn(l, records, 0) = {}
  BY DEF WantedIn
<1>2. 1 .. Len(<<>>) = {}
  OBVIOUS
<1> DEFINE place == [n \in {} |-> 0]
<1>3. place \in [1 .. Len(<<>>) -> WantedIn(l, records, 0)]
  BY <1>2
<1>4. QED
  BY <1>1, <1>2, <1>3 DEF AnswerOf

LEMMA NoneAnswers ==
    ASSUME NEW S, NEW l, NEW records, NEW found \in Seq(S),
           AnswerOf(l, records, 0, found)
    PROVE  found = <<>>
<1>1. WantedIn(l, records, 0) = {}
  BY DEF WantedIn
<1>2. PICK place \in [1 .. Len(found) -> {}] : TRUE
  BY <1>1 DEF AnswerOf
<1>3. Len(found) \in Nat /\ ~(1 \in 1 .. Len(found))
  BY <1>2
<1>4. Len(found) = 0
  BY <1>3
<1>5. QED
  BY <1>4, EmptySeq

\* Records that come after those visited do not matter.
LEMMA AnswerKept ==
    ASSUME NEW l, NEW records, NEW more, NEW k \in Nat, NEW found,
           \A j \in 1 .. k : more[j] = records[j],
           AnswerOf(l, records, k, found)
    PROVE  AnswerOf(l, more, k, found)
<1>1. WantedIn(l, more, k) = WantedIn(l, records, k)
  BY DEF WantedIn
<1>2. PICK place \in [1 .. Len(found) -> WantedIn(l, records, k)] :
         /\ \A m, n \in 1 .. Len(found) : m < n => place[m] < place[n]
         /\ \A j \in WantedIn(l, records, k) :
               \E n \in 1 .. Len(found) : place[n] = j
         /\ \A n \in 1 .. Len(found) : found[n] = Value(l, records[place[n]])
  BY DEF AnswerOf
<1>3. \A n \in 1 .. Len(found) : place[n] \in 1 .. k
  BY <1>2 DEF WantedIn
<1>4. \A n \in 1 .. Len(found) : found[n] = Value(l, more[place[n]])
  BY <1>2, <1>3
<1>5. QED
  BY <1>1, <1>2, <1>4 DEF AnswerOf

\* A visit of one more record.
LEMMA AnswerNext ==
    ASSUME NEW S, NEW l, NEW records, NEW k \in Nat, NEW found \in Seq(S),
           AnswerOf(l, records, k, found)
    PROVE  /\ ~Wanted(l, records[k + 1]) => AnswerOf(l, records, k + 1, found)
           /\ Wanted(l, records[k + 1]) /\ Value(l, records[k + 1]) \in S =>
                 AnswerOf(l, records, k + 1,
                          Append(found, Value(l, records[k + 1])))
<1> DEFINE r == records[k + 1]
           W == WantedIn(l, records, k)
           len == Len(found)
<1>1. PICK place \in [1 .. len -> W] :
         /\ \A m, n \in 1 .. len : m < n => place[m] < place[n]
         /\ \A j \in W : \E n \in 1 .. len : place[n] = j
         /\ \A n \in 1 .. len : found[n] = Value(l, records[place[n]])
  BY DEF AnswerOf
<1>2. W \subseteq 1 .. k /\ len \in Nat
  BY DEF WantedIn
<1>3. CASE ~Wanted(l, r)
  <2>1. WantedIn(l, records, k + 1) = W
    BY <1>3 DEF WantedIn
  <2>2. QED
    BY <1>1, <1>3, <2>1 DEF AnswerOf
<1>4. CASE Wanted(l, r) /\ Value(l, r) \in S
  <2>1. WantedIn(l, records, k + 1) = W \cup {k + 1}
    BY <1>4 DEF WantedIn
  <2> DEFINE further == [n \in 1 .. len + 1 |->
                            IF n <= len THEN place[n] ELSE k + 1]
             longer == Append(found, Value(l, r))
  <2>2. /\ Len(longer) = len + 1
        /\ \A n \in 1 .. len : longer[n] = found[n]
        /\ longer[len + 1] = Value(l, r)
    <3> DEFINE e == Value(l, r)
    <3> HIDE DEF e
    <3>1. e \in S
      BY <1>4 DEF e
    <3>2. QED
      BY <3>1 DEF e
  <2> HIDE DEF W, longer
  <2>3. further \in [1 .. len + 1 -> W \cup {k + 1}]
    BY <1>1, <1>2
  <2>4. \A m, n \in 1 .. len + 1 : m < n => further[m] < further[n]
    <3> SUFFICES ASSUME NEW m \in 1 .. len + 1, NEW n \in 1 .. len + 1, m < n
                 PROVE  further[m] < further[n]
      OBVIOUS
    <3>1. m \in 1 .. len /\ further[m] = place[m] /\ place[m] \in 1 .. k
      <4>1. m \in 1 .. len /\ m <= len
        BY <1>2
      <4>2. place[m] \in W
        BY <1>1, <4>1
      <4>3. QED
        BY <1>2, <4>1, <4>2
    <3>2. CASE n \in 1 .. len
      BY <1>1, <1>2, <3>1, <3>2
    <3>3. CASE n = len + 1
      BY <1>2, <3>1, <3>3
    <3>4. QED
      BY <1>2, <3>2, <3>3
  <2>5. \A j \in W \cup {k + 1} : \E n \in 1 .. len + 1 : further[n] = j
    <3>1. ASSUME NEW j \in W PROVE \E n \in 1 .. len + 1 : further[n] = j
      <4>1. PICK n \in 1 .. len : place[n] = j
        BY <1>1
      <4>2. n \in 1 .. len + 1 /\ further[n] = j
        BY <1>2, <4>1
      <4>3. QED
        BY <4>2
    <3>2. len + 1 \in 1 .. len + 1 /\ further[len + 1] = k + 1
      BY <1>2
    <3>3. QED
      BY <3>1, <3>2
  <2>6. \A n \in 1 .. len + 1 : longer[n] = Value(l, records[further[n]])
    <3>1. ASSUME NEW n \in 1 .. len
          PROVE  longer[n] = Value(l, records[further[n]])
      <4>1. further[n] = place[n]
        BY <1>2
      <4>2. QED
        BY <1>1, <2>2, <4>1
    <3>2. longer[len + 1] = Value(l, records[further[len + 1]])
      <4>1. further[len + 1] = k + 1
        BY <1>2
      <4>2. QED
        BY <2>2, <4>1
    <3>3. \A n \in 1 .. len + 1 : n \in 1 .. len \/ n = len + 1
      BY <1>2
    <3> HIDE DEF further
    <3>4. QED
      BY <3>1, <3>2, <3>3
  <2> HIDE DEF further
  <2>7. AnswerOf(l, records, k + 1, longer)
    <3>1. /\ further \in [1 .. Len(longer) -> WantedIn(l, records, k + 1)]
          /\ \A m, n \in 1 .. Len(longer) : m < n => further[m] < further[n]
          /\ \A j \in WantedIn(l, records, k + 1) :
                \E n \in 1 .. Len(longer) : further[n] = j
          /\ \A n \in 1 .. Len(longer) :
                longer[n] = Value(l, records[further[n]])
      BY <2>1, <2>2, <2>3, <2>4, <2>5, <2>6
    <3>2. QED
      BY <3>1 DEF AnswerOf
  <2>8. QED
    BY <1>4, <2>7 DEF longer
<1>5. QED
  BY <1>3, <1>4

\* The value of a wanted record is in the answer.
LEMMA AnswerHas ==
    ASSUME NEW l, NEW records, NEW k, NEW found, NEW j \in 1 .. k,
           AnswerOf(l, records, k, found), Wanted(l, records[j])
    PROVE  Value(l, records[j]) \in Elements(found)
<1>1. j \in WantedIn(l, records, k)
  BY DEF WantedIn
<1>2. PICK n \in 1 .. Len(found) : found[n] = Value(l, records[j])
  BY <1>1 DEF AnswerOf
<1>3. QED
  BY <1>2 DEF Elements
-------------------------------------------------------------------------------
(* The inductive invariant, lookup by lookup.                              *)

ResolverInv ==
    TypeOK /\ Coherent /\ StoppedServerIsForgotten /\ ExpectedNamesAreFound

Fine(l) ==
    /\ l.step = "walking" => Walks(l)
    /\ l.due = "nothing" => l.found = <<>>
    /\ l.step \in {"task", "done"} /\ l.due \in Local =>
          l.due \in Elements(l.found)

LEMMA InvByLookup ==
    ResolverInv <=>
        TypeOK /\ ServerNames /\ \A c \in Client : Fine(lookup[c])
  BY
  DEF ResolverInv, Coherent, StoppedServerIsForgotten, ExpectedNamesAreFound,
      Fine

LEMMA InvByLookupNext ==
    ResolverInv' <=>
        TypeOK' /\ ServerNames' /\ \A c \in Client : Fine(lookup[c])'
  BY
  DEF ResolverInv, Coherent, StoppedServerIsForgotten, ExpectedNamesAreFound,
      Fine

LEMMA ParsedType ==
    ASSUME NEW a \in Addr
    PROVE  Parsed(a) \in Found
  BY DEF Parsed, Found

LEMMA RecordTypes ==
    ASSUME TypeOK, NEW l \in Lookup, l.resolver \in Object,
           l.name \in Host \cup Service
    PROVE  /\ l.name \in Host => Records(l) \in Seq(A)
           /\ l.name \in Service => Records(l) \in Seq(SRV)
           /\ Len(Records(l)) \in Nat
           /\ \A j \in 1 .. Len(Records(l)) :
                 Value(l, Records(l)[j]) \in Found
<1>1. CASE l.name \in Host
  <2>1. Records(l) = fake_A[l.resolver] /\ l.name \notin Service
    BY <1>1, ResolverAssumption DEF Records
  <2>2. Records(l) \in Seq(A)
    BY <2>1 DEF TypeOK
  <2>3. \A j \in 1 .. Len(Records(l)) : Records(l)[j] \in A
    BY <2>2
  <2>4. \A j \in 1 .. Len(Records(l)) :
           Value(l, Records(l)[j]) \in Found
    BY <1>1, <2>3, ParsedType DEF Value, A
  <2>5. QED
    BY <1>1, <2>1, <2>2, <2>4
<1>2. CASE l.name \in Service
  <2>1. Records(l) = fake_SRV[l.resolver] /\ l.name \notin Host
    BY <1>2, ResolverAssumption DEF Records
  <2>2. Records(l) \in Seq(SRV)
    BY <2>1 DEF TypeOK
  <2>3. \A j \in 1 .. Len(Records(l)) : Records(l)[j] \in SRV
    BY <2>2
  <2>4. \A j \in 1 .. Len(Records(l)) : Value(l, Records(l)[j]) \in Found
    BY <2>1, <2>3 DEF Value, SRV, Found
  <2>5. QED
    BY <1>2, <2>1, <2>2, <2>4
<1>3. QED
  BY <1>1, <1>2

\* Records that are added under a loop.
LEMMA FineKept ==
    ASSUME TypeOK, NEW l \in Lookup, Fine(l),
           l.step = "walking" =>
              /\ Len(Records(l)) <= Len(Records(l)')
              /\ Len(Records(l)') \in Nat
              /\ \A j \in 1 .. Len(Records(l)) : Records(l)'[j] = Records(l)[j]
              /\ l.due = "nothing" => l.resolver # resolver' /\ Empty(l.resolver)'
              /\ l.due \in Local =>
                    /\ resolver' = resolver /\ address' = address
                    /\ Elements(fake_A[resolver])
                          \subseteq Elements(fake_A'[resolver])
    PROVE  Fine(l)'
<1> SUFFICES ASSUME l.step = "walking" PROVE Walks(l)'
  BY DEF Fine
<1>1. Walks(l)
  BY DEF Fine
<1>2. Len(Records(l)) \in Nat /\ l.visited \in Nat
  BY <1>1, RecordTypes DEF Walks, Lookup
<1>3. ~l.freed =>
         /\ l.visited <= Len(Records(l)')
         /\ AnswerOf(l, Records(l)', l.visited, l.found)
  <2> SUFFICES ASSUME ~l.freed
               PROVE  /\ l.visited <= Len(Records(l)')
                      /\ AnswerOf(l, Records(l)', l.visited, l.found)
    OBVIOUS
  <2>1. l.visited <= Len(Records(l)) /\ AnswerOf(l, Records(l), l.visited, l.found)
    BY <1>1 DEF Walks
  <2>2. l.visited <= Len(Records(l)')
    BY <1>2, <2>1
  <2>3. \A j \in 1 .. l.visited : Records(l)'[j] = Records(l)[j]
    BY <1>2, <2>1
  <2>4. QED
    BY <1>2, <2>1, <2>2, <2>3, AnswerKept
<1>4. l.due \in Local => Recorded(l.name)'
  BY <1>1 DEF Walks, Recorded
<1>5. QED
  BY <1>1, <1>3, <1>4 DEF Walks

\* The loop of a lookup whose records are reset.
LEMMA FineReset ==
    ASSUME TypeOK, NEW l \in Lookup, Fine(l), l.step = "walking",
           NEW b \in BOOLEAN, ~b => ~l.freed /\ l.visited = 0,
           Len(Records(l)') \in Nat,
           NEW m \in Lookup, m = [l EXCEPT !.freed = b, !.due = None]
    PROVE  Fine(m)'
<1>1. /\ m.step = "walking" /\ m.resolver = l.resolver /\ m.name = l.name
      /\ m.freed = b /\ m.due = None /\ m.found = l.found
      /\ m.visited = l.visited /\ m.flags = l.flags
  BY DEF Lookup
<1>2. None \notin Local /\ None # "nothing"
  BY ResolverAssumption
<1>3. Walks(l)
  BY DEF Fine
<1>4. Records(m)' = Records(l)'
  BY <1>1 DEF Records
<1>5. ~b => m.visited <= Len(Records(m)') /\ AnswerOf(m, Records(m)', m.visited, m.found)
  <2> SUFFICES ASSUME ~b
               PROVE  /\ m.visited <= Len(Records(m)')
                      /\ AnswerOf(m, Records(m)', m.visited, m.found)
    OBVIOUS
  <2>1. l.visited = 0 /\ AnswerOf(l, Records(l), 0, l.found)
    BY <1>3 DEF Walks
  <2>2. l.found = <<>>
    BY <2>1, NoneAnswers DEF Lookup
  <2>3. AnswerOf(m, Records(m)', 0, <<>>)
    BY AnswerNone
  <2>4. QED
    BY <1>1, <1>4, <2>1, <2>2, <2>3
<1>6. Walks(m)'
  BY <1>1, <1>2, <1>3, <1>5 DEF Walks
<1>7. QED
  BY <1>1, <1>2, <1>6 DEF Fine
-------------------------------------------------------------------------------
(* The application's steps.                                                *)

LEMMA InvInit == Init => ResolverInv
<1> SUFFICES ASSUME Init PROVE ResolverInv
  OBVIOUS
<1>1. <<>> \in Seq(A) /\ <<>> \in Seq(SRV) /\ <<>> \in Seq(Host)
      /\ <<>> \in Seq(Found)
  BY EmptySeq
<1>2. NoLookup \in Lookup
  BY <1>1 DEF NoLookup, Lookup, Flags
<1>3. TypeOK
  BY <1>1, <1>2 DEF Init, TypeOK
<1>4. \A c \in Client : Fine(lookup[c])
  BY ResolverAssumption DEF Init, Fine, NoLookup
<1>5. ServerNames
  BY DEF Init, ServerNames
<1>6. QED
  BY <1>3, <1>4, <1>5, InvByLookup

LEMMA RunInv == ResolverInv /\ uhm_server_run => ResolverInv'
<1> SUFFICES ASSUME ResolverInv, uhm_server_run PROVE ResolverInv'
  OBVIOUS
<1>1. TypeOK /\ ServerNames /\ \A c \in Client : Fine(lookup[c])
  BY InvByLookup
<1>2. PICK v \in Object :
         /\ \A c \in Client : lookup[c].resolver # v
         /\ resolver' = v /\ default_resolver' = v
         /\ fake_A' = [fake_A EXCEPT ![v] = <<>>]
         /\ fake_SRV' = [fake_SRV EXCEPT ![v] = <<>>]
  BY DEF uhm_server_run, g_resolver_set_default
<1>3. /\ resolver = None /\ address' \in Local
      /\ applying' = expected_domain_names
      /\ UNCHANGED <<expected_domain_names, lookup, aborted>>
  BY DEF uhm_server_run
<1>4. <<>> \in Seq(A) /\ <<>> \in Seq(SRV)
  BY EmptySeq
<1>5. TypeOK'
  BY <1>1, <1>2, <1>3, <1>4 DEF TypeOK
<1>6. ServerNames'
  BY <1>2, <1>3, ResolverAssumption DEF ServerNames
<1>7. ASSUME NEW c \in Client PROVE Fine(lookup[c])'
  <2>1. PICK l \in Lookup : l = lookup[c]
    BY <1>1 DEF TypeOK
  <2>2. Fine(l)
    BY <1>1, <2>1
  <2>3. l.step = "walking" =>
           /\ l.resolver \in Object /\ l.resolver # v
           /\ Walks(l)
    BY <1>2, <2>1, <2>2 DEF Fine, Walks
  <2>4. l.step = "walking" =>
           /\ Records(l)' = Records(l)
           /\ Len(Records(l)) \in Nat
           /\ Empty(l.resolver) => Empty(l.resolver)'
    <3> SUFFICES ASSUME l.step = "walking"
                 PROVE  /\ Records(l)' = Records(l)
                        /\ Len(Records(l)) \in Nat
                        /\ Empty(l.resolver) => Empty(l.resolver)'
      OBVIOUS
    <3>1. /\ fake_A'[l.resolver] = fake_A[l.resolver]
          /\ fake_SRV'[l.resolver] = fake_SRV[l.resolver]
      BY <1>1, <1>2, <2>3 DEF TypeOK
    <3>2. Len(Records(l)) \in Nat
      BY <1>1, <2>3, RecordTypes DEF Walks
    <3>3. QED
      BY <3>1, <3>2 DEF Records, Empty
  <2>5. l.step = "walking" => l.due \notin Local
    BY <1>3, <2>3, ResolverAssumption DEF Walks
  <2>6. Fine(l)'
    BY <1>1, <1>2, <2>2, <2>3, <2>4, <2>5, FineKept DEF Walks
  <2>7. lookup'[c] = l
    BY <1>3, <2>1
  <2>8. QED
    BY <2>6, <2>7
<1>8. QED
  BY <1>5, <1>6, <1>7, InvByLookupNext

\* Records that are added to the resolver of the server.
LEMMA AddedFine ==
    ASSUME TypeOK, ServerNames, resolver # None,
           NEW a, NEW s,
           \/ /\ a \in A /\ UNCHANGED fake_SRV
              /\ fake_A' = [fake_A EXCEPT ![resolver] = Append(@, a)]
           \/ /\ s \in SRV /\ UNCHANGED fake_A
              /\ fake_SRV' = [fake_SRV EXCEPT ![resolver] = Append(@, s)],
           UNCHANGED <<resolver, address, lookup>>,
           NEW c \in Client, Fine(lookup[c])
    PROVE  Fine(lookup[c])'
<1>1. PICK l \in Lookup : l = lookup[c]
  BY DEF TypeOK
<1>2. Fine(l) /\ resolver \in Object
  BY <1>1 DEF TypeOK
<1>3. ASSUME l.step = "walking"
      PROVE  /\ Len(Records(l)) <= Len(Records(l)')
             /\ Len(Records(l)') \in Nat
             /\ \A j \in 1 .. Len(Records(l)) : Records(l)'[j] = Records(l)[j]
             /\ l.due = "nothing" => l.resolver # resolver' /\ Empty(l.resolver)'
             /\ l.due \in Local =>
                   /\ resolver' = resolver /\ address' = address
                   /\ Elements(fake_A[resolver])
                         \subseteq Elements(fake_A'[resolver])
  <2>1. Walks(l)
    BY <1>2, <1>3 DEF Fine
  <2>2. l.resolver \in Object /\ Len(Records(l)) \in Nat
    BY <2>1, RecordTypes DEF Walks
  <2>3. l.due = "nothing" => l.resolver # resolver' /\ Empty(l.resolver)'
    <3>1. l.due = "nothing" => l.resolver # resolver /\ Empty(l.resolver)
      BY <2>1 DEF Walks
    <3>2. l.resolver # resolver =>
             /\ fake_A'[l.resolver] = fake_A[l.resolver]
             /\ fake_SRV'[l.resolver] = fake_SRV[l.resolver]
      BY <2>2 DEF TypeOK
    <3>3. QED
      BY <3>1, <3>2 DEF Empty
  <2>4. CASE a \in A /\ UNCHANGED fake_SRV
             /\ fake_A' = [fake_A EXCEPT ![resolver] = Append(@, a)]
    <3>1. /\ \A v \in Object : fake_A'[v] = IF v = resolver
                                           THEN Append(fake_A[v], a)
                                           ELSE fake_A[v]
          /\ \A v \in Object : fake_A[v] \in Seq(A)
      BY <2>4 DEF TypeOK
    <3>2. \A v \in Object :
             /\ Len(fake_A[v]) <= Len(fake_A'[v]) /\ Len(fake_A'[v]) \in Nat
             /\ \A j \in 1 .. Len(fake_A[v]) : fake_A'[v][j] = fake_A[v][j]
             /\ Elements(fake_A[v]) \subseteq Elements(fake_A'[v])
      <4> SUFFICES ASSUME NEW v \in Object
                   PROVE
             /\ Len(fake_A[v]) <= Len(fake_A'[v]) /\ Len(fake_A'[v]) \in Nat
             /\ \A j \in 1 .. Len(fake_A[v]) : fake_A'[v][j] = fake_A[v][j]
             /\ Elements(fake_A[v]) \subseteq Elements(fake_A'[v])
        OBVIOUS
      <4>1. PICK t \in Seq(A) : t = fake_A[v]
        BY <3>1
      <4>2. fake_A'[v] = t \/ fake_A'[v] = Append(t, a)
        BY <3>1, <4>1
      <4>3. /\ Len(Append(t, a)) = Len(t) + 1 /\ Len(t) \in Nat
            /\ \A j \in 1 .. Len(t) : Append(t, a)[j] = t[j]
            /\ Elements(t) \subseteq Elements(Append(t, a))
        BY <2>4, ElementsAppend
      <4>4. CASE fake_A'[v] = t
        BY <4>1, <4>3, <4>4
      <4>5. CASE fake_A'[v] = Append(t, a)
        BY <4>1, <4>3, <4>5
      <4>6. QED
        BY <4>2, <4>4, <4>5
    <3>3. CASE l.name \in Service
      <4>1. Records(l)' = Records(l)
        BY <2>4, <3>3 DEF Records
      <4>2. QED
        BY <1>2, <2>2, <2>3, <3>2, <4>1
    <3>4. CASE l.name \notin Service
      <4>1. Records(l) = fake_A[l.resolver] /\ Records(l)' = fake_A'[l.resolver]
        BY <3>4 DEF Records
      <4>2. QED
        BY <1>2, <2>2, <2>3, <3>2, <4>1
    <3>5. QED
      BY <3>3, <3>4
  <2>5. CASE s \in SRV /\ UNCHANGED fake_A
             /\ fake_SRV' = [fake_SRV EXCEPT ![resolver] = Append(@, s)]
    <3>1. /\ \A v \in Object : fake_SRV'[v] = IF v = resolver
                                             THEN Append(fake_SRV[v], s)
                                             ELSE fake_SRV[v]
          /\ \A v \in Object : fake_SRV[v] \in Seq(SRV)
      BY <2>5 DEF TypeOK
    <3>2. \A v \in Object :
             /\ Len(fake_SRV[v]) <= Len(fake_SRV'[v]) /\ Len(fake_SRV'[v]) \in Nat
             /\ \A j \in 1 .. Len(fake_SRV[v]) : fake_SRV'[v][j] = fake_SRV[v][j]
      <4> SUFFICES ASSUME NEW v \in Object
                   PROVE
             /\ Len(fake_SRV[v]) <= Len(fake_SRV'[v]) /\ Len(fake_SRV'[v]) \in Nat
             /\ \A j \in 1 .. Len(fake_SRV[v]) : fake_SRV'[v][j] = fake_SRV[v][j]
        OBVIOUS
      <4>1. PICK t \in Seq(SRV) : t = fake_SRV[v]
        BY <3>1
      <4>2. fake_SRV'[v] = t \/ fake_SRV'[v] = Append(t, s)
        BY <3>1, <4>1
      <4>3. /\ Len(Append(t, s)) = Len(t) + 1 /\ Len(t) \in Nat
            /\ \A j \in 1 .. Len(t) : Append(t, s)[j] = t[j]
        BY <2>5, ElementsAppend
      <4>4. CASE fake_SRV'[v] = t
        BY <4>1, <4>3, <4>4
      <4>5. CASE fake_SRV'[v] = Append(t, s)
        BY <4>1, <4>3, <4>5
      <4>6. QED
        BY <4>2, <4>4, <4>5
    <3>3. CASE l.name \in Service
      <4>1. Records(l) = fake_SRV[l.resolver] /\ Records(l)' = fake_SRV'[l.resolver]
        BY <3>3 DEF Records
      <4>2. QED
        BY <2>2, <2>3, <2>5, <3>2, <4>1
    <3>4. CASE l.name \notin Service
      <4>1. Records(l)' = Records(l)
        BY <2>5, <3>4 DEF Records
      <4>2. QED
        BY <2>2, <2>3, <2>5, <4>1
    <3>5. QED
      BY <3>3, <3>4
  <2>6. QED
    BY <2>4, <2>5
<1>4. Fine(l)'
  BY <1>2, <1>3, FineKept
<1>5. lookup'[c] = l
  BY <1>1
<1>6. QED
  BY <1>4, <1>5

\* Records that are added, with the types and the names.
LEMMA AddARecord ==
    ASSUME ResolverInv, resolver # None, NEW a \in A,
           fake_A' = [fake_A EXCEPT ![resolver] = Append(@, a)],
           applying' \in Seq(Host),
           Elements(applying) \subseteq
              Elements(applying') \cup
                 (IF a.addr = address THEN {a.key} ELSE {}),
           UNCHANGED <<serverVars, fake_SRV, lookup, aborted>>
    PROVE  ResolverInv'
<1>1. TypeOK /\ ServerNames /\ \A c \in Client : Fine(lookup[c])
  BY InvByLookup
<1>2. UNCHANGED <<resolver, address, default_resolver, expected_domain_names>>
  BY DEF serverVars
<1>3. /\ resolver \in Object
      /\ fake_A[resolver] \in Seq(A)
      /\ fake_A'[resolver] = Append(fake_A[resolver], a)
  BY <1>1 DEF TypeOK
<1>4. Append(fake_A[resolver], a) \in Seq(A)
      /\ Elements(fake_A'[resolver]) = Elements(fake_A[resolver]) \cup {a}
  <2>1. PICK s \in Seq(A) : s = fake_A[resolver]
    BY <1>3
  <2>2. Append(s, a) \in Seq(A) /\ Elements(Append(s, a)) = Elements(s) \cup {a}
    BY ElementsAppend
  <2>3. QED
    BY <1>3, <2>1, <2>2
<1>5. TypeOK'
  BY <1>1, <1>2, <1>3, <1>4 DEF TypeOK
<1>6. ServerNames'
  <2> SUFFICES ASSUME NEW n \in Elements(expected_domain_names),
                      n \notin Elements(applying')
               PROVE  Recorded(n)'
    BY <1>1, <1>2 DEF ServerNames
  <2>1. Recorded(n) \/ (a.addr = address /\ n = a.key)
    BY <1>1 DEF ServerNames
  <2>2. a = [key |-> a.key, addr |-> a.addr]
    BY DEF A
  <2>3. QED
    BY <1>2, <1>4, <2>1, <2>2 DEF Recorded
<1>7. \A c \in Client : Fine(lookup[c])'
  <2>1. UNCHANGED <<resolver, address, lookup>>
    BY <1>2
  <2>2. QED
    BY <1>1, <2>1, AddedFine
<1>8. QED
  BY <1>5, <1>6, <1>7, InvByLookupNext

LEMMA ApplyInv == ResolverInv /\ apply_expected_domain_names => ResolverInv'
<1> SUFFICES ASSUME ResolverInv, apply_expected_domain_names PROVE ResolverInv'
  OBVIOUS
<1>1. /\ TypeOK /\ ServerNames /\ applying # <<>>
      /\ applying' = Tail(applying)
  BY InvByLookup DEF apply_expected_domain_names
<1>2. resolver # None /\ address \in Local
  BY <1>1 DEF ServerNames
<1>3. /\ Head(applying) \in Host /\ Tail(applying) \in Seq(Host)
      /\ Elements(applying) \subseteq
            Elements(Tail(applying)) \cup {Head(applying)}
  BY <1>1, ElementsTail DEF TypeOK
<1>4. PICK a \in A : a = [key |-> Head(applying), addr |-> address]
  BY <1>2, <1>3, ResolverAssumption DEF A
<1>5. a.addr = address /\ a.key = Head(applying)
  BY <1>4
<1>6. QED
  BY <1>1, <1>2, <1>3, <1>4, <1>5, AddARecord DEF apply_expected_domain_names

LEMMA AddAInv ==
    ASSUME ResolverInv, NEW h \in Host, NEW x \in Addr, uhm_resolver_add_A(h, x)
    PROVE  ResolverInv'
<1>1. PICK a \in A : a = [key |-> h, addr |-> x]
  BY DEF A
<1>2. applying' = applying /\ applying \in Seq(Host)
  BY DEF uhm_resolver_add_A, ResolverInv, TypeOK
<1>3. QED
  BY <1>1, <1>2, AddARecord DEF uhm_resolver_add_A

LEMMA AddSRVInv ==
    ASSUME ResolverInv, NEW n \in Service, NEW t \in Target,
           uhm_resolver_add_SRV(n, t)
    PROVE  ResolverInv'
<1>1. TypeOK /\ ServerNames /\ \A c \in Client : Fine(lookup[c])
  BY InvByLookup
<1>2. /\ UNCHANGED <<resolver, address, default_resolver, expected_domain_names,
                     applying, fake_A, lookup, aborted>>
      /\ resolver # None
  BY DEF uhm_resolver_add_SRV, serverVars
<1>3. PICK s \in SRV : s = [key |-> n, srv |-> t]
  BY DEF SRV
<1>4. fake_SRV' = [fake_SRV EXCEPT ![resolver] = Append(@, s)]
  BY <1>3 DEF uhm_resolver_add_SRV
<1>5. Append(fake_SRV[resolver], s) \in Seq(SRV)
  <2>1. fake_SRV[resolver] \in Seq(SRV)
    BY <1>1, <1>2 DEF TypeOK
  <2>2. QED
    BY <2>1
<1>6. TypeOK'
  BY <1>1, <1>2, <1>4, <1>5 DEF TypeOK
<1>7. ServerNames'
  BY <1>1, <1>2 DEF ServerNames, Recorded
<1>8. \A c \in Client : Fine(lookup[c])'
  <2>1. UNCHANGED <<resolver, address, lookup>> /\ UNCHANGED fake_A
    BY <1>2
  <2>2. QED
    BY <1>1, <1>2, <1>4, <2>1, AddedFine
<1>9. QED
  BY <1>6, <1>7, <1>8, InvByLookupNext

\* A reset, by a stop (the resolver goes) or by new names (it stays).
LEMMA ResetFine ==
    ASSUME TypeOK, ServerNames, resolver # None, uhm_resolver_reset(resolver),
           resolver' \in {resolver, None}, NEW c \in Client, Fine(lookup[c])
    PROVE  Fine(lookup[c])' /\ lookup'[c] \in Lookup
<1> DEFINE v == resolver
<1>1. PICK l \in Lookup : l = lookup[c]
  BY DEF TypeOK
<1>2. Fine(l) /\ v \in Object
  BY <1>1 DEF TypeOK
<1>3. /\ fake_A'[v] = <<>> /\ fake_SRV'[v] = <<>>
      /\ \A w \in Object \ {v} :
            fake_A'[w] = fake_A[w] /\ fake_SRV'[w] = fake_SRV[w]
  BY <1>2 DEF uhm_resolver_reset, TypeOK
<1>4. CASE l.step = "walking" /\ l.resolver = v
  <2>1. PICK b \in BOOLEAN : b <=> l.freed \/ l.visited > 0
    OBVIOUS
  <2>2. lookup'[c] = [l EXCEPT !.freed = b, !.due = None]
    <3>1. Holds(c, v) <=> l.visited > 0
      BY <1>1, <1>4 DEF Holds
    <3>2. lookup'[c] = [l EXCEPT !.freed = @ \/ Holds(c, v), !.due = None]
      BY <1>1, <1>4 DEF uhm_resolver_reset
    <3>3. (l.freed \/ Holds(c, v)) = b
      BY <2>1, <3>1 DEF Lookup
    <3>4. QED
      BY <3>2, <3>3
  <2>3. PICK m \in Lookup : m = [l EXCEPT !.freed = b, !.due = None]
    BY DEF Lookup
  <2>4. ~b => ~l.freed /\ l.visited = 0
    BY <2>1 DEF Lookup
  <2>5. Len(Records(l)') \in Nat
    BY <1>3, <1>4 DEF Records
  <2>6. Fine(m)'
    BY <1>2, <1>4, <2>3, <2>4, <2>5, FineReset
  <2>7. lookup'[c] = m
    BY <2>2, <2>3
  <2>8. QED
    BY <2>6, <2>7
<1>5. CASE ~(l.step = "walking" /\ l.resolver = v)
  <2>1. lookup'[c] = l
    BY <1>1, <1>5 DEF uhm_resolver_reset
  <2>2. ASSUME l.step = "walking"
        PROVE  /\ Records(l)' = Records(l) /\ Len(Records(l)) \in Nat
               /\ l.due = "nothing" => l.resolver # resolver' /\ Empty(l.resolver)'
               /\ l.due \notin Local
    <3>1. Walks(l)
      BY <1>2, <2>2 DEF Fine
    <3>2. /\ fake_A'[l.resolver] = fake_A[l.resolver]
          /\ fake_SRV'[l.resolver] = fake_SRV[l.resolver]
          /\ l.resolver \in Object
      BY <1>3, <1>5, <2>2, <3>1 DEF Walks
    <3>3. Len(Records(l)) \in Nat
      BY <3>1, RecordTypes DEF Walks
    <3>4. QED
      BY <1>5, <2>2, <3>1, <3>2, <3>3, ResolverAssumption
      DEF Walks, Records, Empty
  <2>3. Fine(l)'
    BY <1>2, <2>2, FineKept
  <2>4. QED
    BY <2>1, <2>3
<1>6. QED
  BY <1>4, <1>5

LEMMA ResetTypes ==
    ASSUME TypeOK, ServerNames, resolver # None, uhm_resolver_reset(resolver),
           resolver' \in {resolver, None}, \A c \in Client : Fine(lookup[c])
    PROVE  /\ fake_A' \in [Object -> Seq(A)]
           /\ fake_SRV' \in [Object -> Seq(SRV)]
           /\ lookup' \in [Client -> Lookup]
           /\ \A c \in Client : Fine(lookup[c])'
           /\ fake_A'[resolver] = <<>> /\ fake_SRV'[resolver] = <<>>
<1>1. <<>> \in Seq(A) /\ <<>> \in Seq(SRV)
  BY EmptySeq
<1>2. \A c \in Client : Fine(lookup[c])' /\ lookup'[c] \in Lookup
  BY ResetFine
<1>3. lookup' = [c \in Client |-> lookup'[c]]
  BY DEF uhm_resolver_reset
<1>4. QED
  BY <1>1, <1>2, <1>3 DEF uhm_resolver_reset, TypeOK

LEMMA StopInv == ResolverInv /\ uhm_server_stop => ResolverInv'
<1> SUFFICES ASSUME ResolverInv, uhm_server_stop PROVE ResolverInv'
  OBVIOUS
<1>1. TypeOK /\ ServerNames /\ \A c \in Client : Fine(lookup[c])
  BY InvByLookup
<1>2. /\ resolver # None /\ resolver' = None /\ address' = None
      /\ applying = <<>>
      /\ uhm_resolver_reset(resolver)
      /\ UNCHANGED <<default_resolver, expected_domain_names, applying, aborted>>
  BY DEF uhm_server_stop, empties, Idle
<1>3. /\ fake_A' \in [Object -> Seq(A)]
      /\ fake_SRV' \in [Object -> Seq(SRV)]
      /\ lookup' \in [Client -> Lookup]
      /\ \A c \in Client : Fine(lookup[c])'
      /\ fake_A'[resolver] = <<>> /\ fake_SRV'[resolver] = <<>>
  BY <1>1, <1>2, ResetTypes
<1>4. TypeOK'
  BY <1>1, <1>2, <1>3 DEF TypeOK
<1>5. ServerNames'
  BY <1>1, <1>2, <1>3 DEF ServerNames, Empty
<1>6. QED
  BY <1>3, <1>4, <1>5, InvByLookupNext

LEMMA SetNamesInv ==
    ASSUME ResolverInv, NEW names \in DomainNames,
           uhm_server_set_expected_domain_names(names)
    PROVE  ResolverInv'
<1>1. TypeOK /\ ServerNames /\ \A c \in Client : Fine(lookup[c])
  BY InvByLookup
<1>2. /\ expected_domain_names' = names /\ names \in Seq(Host)
      /\ UNCHANGED <<resolver, address, default_resolver, aborted>>
  BY ResolverAssumption DEF uhm_server_set_expected_domain_names
<1>3. CASE resolver = None
  <2>1. UNCHANGED <<fake_A, fake_SRV, lookup, applying>>
    BY <1>3 DEF uhm_server_set_expected_domain_names, recordVars
  <2>2. TypeOK' /\ ServerNames'
    BY <1>1, <1>2, <1>3, <2>1 DEF TypeOK, ServerNames, Empty
  <2>3. ASSUME NEW c \in Client PROVE Fine(lookup[c])'
    <3>1. PICK l \in Lookup : l = lookup[c]
      BY <1>1 DEF TypeOK
    <3>2. Fine(l)
      BY <1>1, <3>1
    <3>3. l.step = "walking" => Walks(l) /\ Len(Records(l)) \in Nat
      BY <1>1, <3>2, RecordTypes DEF Fine, Walks
    <3>4. Records(l)' = Records(l) /\ (Empty(l.resolver) <=> Empty(l.resolver)')
      BY <2>1 DEF Records, Empty
    <3>5. Fine(l)'
      BY <1>1, <1>2, <2>1, <3>2, <3>3, <3>4, FineKept DEF Walks
    <3>6. QED
      BY <2>1, <3>1, <3>5
  <2>4. QED
    BY <2>2, <2>3, InvByLookupNext
<1>4. CASE resolver # None
  <2>1. uhm_resolver_reset(resolver) /\ applying' = names
    BY <1>4 DEF uhm_server_set_expected_domain_names
  <2>2. /\ fake_A' \in [Object -> Seq(A)]
        /\ fake_SRV' \in [Object -> Seq(SRV)]
        /\ lookup' \in [Client -> Lookup]
        /\ \A c \in Client : Fine(lookup[c])'
    BY <1>1, <1>2, <1>4, <2>1, ResetTypes
  <2>3. TypeOK'
    BY <1>1, <1>2, <2>1, <2>2 DEF TypeOK
  <2>4. ServerNames'
    BY <1>1, <1>2, <1>4, <2>1 DEF ServerNames
  <2>5. QED
    BY <2>2, <2>3, <2>4, InvByLookupNext
<1>5. QED
  BY <1>3, <1>4
-------------------------------------------------------------------------------
(* The clients' steps.                                                     *)

\* One lookup goes on, and nothing else changes.
LEMMA LookupStep ==
    ASSUME ResolverInv, NEW c \in Client, NEW m \in Lookup,
           lookup' = [lookup EXCEPT ![c] = m], Fine(m),
           UNCHANGED <<serverVars, applying, recordVars, aborted>>
    PROVE  ResolverInv'
<1>1. TypeOK /\ ServerNames /\ \A d \in Client : Fine(lookup[d])
  BY InvByLookup
<1>2. UNCHANGED <<resolver, address, default_resolver, expected_domain_names,
                  applying, fake_A, fake_SRV, aborted>>
  BY DEF serverVars, recordVars
<1>3. TypeOK'
  BY <1>1, <1>2 DEF TypeOK
<1>4. ServerNames'
  BY <1>1, <1>2 DEF ServerNames, Recorded, Empty
<1>5. ASSUME NEW d \in Client PROVE Fine(lookup[d])'
  <2>1. PICK l \in Lookup : l = lookup'[d]
    BY <1>3 DEF TypeOK
  <2>2. Fine(l)
    BY <1>1, <2>1 DEF TypeOK
  <2>3. l.step = "walking" => Walks(l) /\ Len(Records(l)) \in Nat
    BY <1>1, <2>2, RecordTypes DEF Fine, Walks
  <2>4. Records(l)' = Records(l) /\ (Empty(l.resolver) <=> Empty(l.resolver)')
    BY <1>2 DEF Records, Empty
  <2>5. Fine(l)'
    BY <1>1, <1>2, <2>2, <2>3, <2>4, FineKept DEF Walks
  <2>6. QED
    BY <2>1, <2>5
<1>6. QED
  BY <1>3, <1>4, <1>5, InvByLookupNext

LEMMA BeginInv ==
    ASSUME ResolverInv, NEW c \in Client, NEW n \in Host \cup Service,
           NEW flags \in Flags, NEW async \in BOOLEAN, Begin(c, n, flags, async)
    PROVE  ResolverInv'
<1>1. TypeOK /\ ServerNames
  BY InvByLookup
<1> DEFINE due == IF applying = <<>> THEN Due(n, flags) ELSE None
           m == [NoLookup EXCEPT !.step = "walking",
                                 !.resolver = default_resolver,
                                 !.name = n,
                                 !.flags = flags,
                                 !.async = async,
                                 !.due = due]
<1>2. /\ default_resolver \in Object
      /\ lookup' = [lookup EXCEPT ![c] = m]
      /\ UNCHANGED <<serverVars, applying, recordVars, aborted>>
  BY <1>1 DEF Begin, TypeOK
<1>3. due \in Local \cup {None, "nothing"}
  BY <1>1 DEF Due, ServerNames
<1>4. <<>> \in Seq(Found)
  BY EmptySeq
<1>5. /\ m.step = "walking" /\ m.resolver = default_resolver /\ m.name = n
      /\ m.flags = flags /\ m.due = due /\ m.visited = 0 /\ m.found = <<>>
      /\ m.freed = FALSE
  BY DEF NoLookup
<1>6. m \in Lookup
  BY <1>2, <1>3, <1>4 DEF Lookup, NoLookup
<1>7. due = "nothing" => resolver = None
  BY <1>1, ResolverAssumption DEF Due, ServerNames
<1>8. due \in Local =>
         /\ applying = <<>> /\ resolver # None /\ due = address
         /\ Expected(n) /\ flags \in {"default", Family[address]}
  BY ResolverAssumption DEF Due
<1> HIDE DEF m, due
<1>9. Walks(m)
  <2>1. AnswerOf(m, Records(m), m.visited, m.found)
    BY <1>5, AnswerNone
  <2>2. m.visited <= Len(Records(m))
    <3>1. Len(Records(m)) \in Nat
      BY <1>1, <1>2, <1>5, <1>6, RecordTypes
    <3>2. QED
      BY <1>5, <3>1
  <2>3. m.due = "nothing" => m.resolver # resolver /\ Empty(m.resolver)
    BY <1>1, <1>2, <1>5, <1>7, ResolverAssumption DEF ServerNames
  <2>4. m.due \in Local =>
           /\ m.resolver = resolver /\ m.due = address
           /\ m.name \in Host /\ m.flags \in {"default", Family[m.due]}
           /\ Recorded(m.name)
    <3> SUFFICES ASSUME due \in Local
                 PROVE  /\ m.resolver = resolver /\ m.due = address
                        /\ m.name \in Host
                        /\ m.flags \in {"default", Family[m.due]}
                        /\ Recorded(m.name)
      BY <1>5
    <3>1. m.resolver = resolver
      BY <1>1, <1>5, <1>8 DEF ServerNames
    <3>2. n \in Elements(expected_domain_names) /\ Elements(applying) = {}
      BY <1>8, ElementsNone DEF Expected
    <3>3. Recorded(n)
      BY <1>1, <1>8, <3>2 DEF ServerNames
    <3>4. n \in Host
      BY <1>1, <3>2 DEF Elements, TypeOK
    <3>5. QED
      BY <1>5, <1>8, <3>1, <3>3, <3>4
  <2>5. QED
    BY <1>2, <1>5, <2>1, <2>2, <2>3, <2>4 DEF Walks
<1>10. Fine(m)
  BY <1>5, <1>9 DEF Fine
<1>11. QED
  BY <1>2, <1>6, <1>10, LookupStep

\* A visit takes the value of a record that is wanted, and of no other.
LEMMA VisitFinds ==
    ASSUME TypeOK, NEW l \in Lookup, l.resolver \in Object,
           l.name \in Host \cup Service, NEW j \in 1 .. Len(Records(l))
    PROVE  (IF l.name \in Service THEN find_fake_services(l, Records(l)[j])
            ELSE find_fake_hosts(l, Records(l)[j]))
              = IF Wanted(l, Records(l)[j])
                THEN Append(l.found, Value(l, Records(l)[j]))
                ELSE l.found
<1>1. CASE l.name \in Service
  <2>1. l.name \notin Host
    BY <1>1, ResolverAssumption
  <2>2. QED
    BY <1>1, <2>1 DEF find_fake_services, Wanted, Value, g_list_append
<1>2. CASE l.name \in Host
  <2>1. l.name \notin Service
    BY <1>2, ResolverAssumption
  <2>2. Records(l)[j] \in A
    BY <1>2, RecordTypes
  <2>3. Family[Records(l)[j].addr] \in {"ipv4", "ipv6", "invalid"}
    BY <2>2, ResolverAssumption DEF A
  <2>4. l.flags \in {"default", "ipv4", "ipv6"}
    BY DEF Lookup, Flags
  <2>5. skips(Records(l)[j].addr, l.flags) <=>
           ~(l.flags = "default"
             \/ Family[Records(l)[j].addr] \in {l.flags, "invalid"})
    BY <2>3, <2>4 DEF skips
  <2>6. QED
    BY <1>2, <2>1, <2>5 DEF find_fake_hosts, Wanted, Value, g_list_append
<1>3. QED
  BY <1>1, <1>2

LEMMA VisitInv ==
    ASSUME ResolverInv, NEW c \in Client, Visit(c)
    PROVE  ResolverInv'
<1>1. TypeOK /\ Fine(lookup[c])
  BY InvByLookup
<1>2. PICK l \in Lookup : l = lookup[c]
  BY <1>1 DEF TypeOK
<1> DEFINE r == Records(l)[l.visited + 1]
           found == IF l.name \in Service THEN find_fake_services(l, r)
                    ELSE find_fake_hosts(l, r)
           m == [l EXCEPT !.visited = @ + 1, !.found = found]
<1>3. /\ l.step = "walking" /\ ~l.freed
      /\ l.visited < Len(Records(l))
      /\ UNCHANGED <<serverVars, applying, recordVars, aborted>>
  BY <1>2 DEF Visit
<1>4. Walks(l) /\ l.visited \in Nat /\ Len(Records(l)) \in Nat
  BY <1>1, <1>2, <1>3, RecordTypes DEF Fine, Walks, Lookup
<1>5. l.visited + 1 \in 1 .. Len(Records(l)) /\ l.visited + 1 <= Len(Records(l))
  BY <1>3, <1>4
<1>6. found = IF Wanted(l, r) THEN Append(l.found, Value(l, r)) ELSE l.found
  BY <1>1, <1>4, <1>5, VisitFinds DEF Walks
<1>7. Value(l, r) \in Found
  BY <1>1, <1>4, <1>5, RecordTypes DEF Walks
<1>8. lookup' = [lookup EXCEPT ![c] = m]
  BY <1>2 DEF Visit
<1> HIDE DEF r
<1>9. found \in Seq(Found)
  <2>1. l.found \in Seq(Found)
    BY DEF Lookup
  <2>2. Append(l.found, Value(l, r)) \in Seq(Found)
    BY <1>7, <2>1
  <2>3. QED
    BY <1>6, <2>1, <2>2
<1> HIDE DEF found
<1>10. m \in Lookup
  <2>1. PICK k \in Nat : k = l.visited + 1
    BY <1>4
  <2>2. m = [l EXCEPT !.visited = k, !.found = found]
    BY <2>1
  <2>3. [l EXCEPT !.visited = k, !.found = found] \in Lookup
    BY <1>9 DEF Lookup
  <2>4. QED
    BY <2>2, <2>3
<1>11. /\ m.step = l.step /\ m.resolver = l.resolver /\ m.name = l.name
       /\ m.freed = l.freed /\ m.due = l.due /\ m.flags = l.flags
       /\ m.visited = l.visited + 1 /\ m.found = found
  BY DEF Lookup
<1> HIDE DEF m
<1>12. AnswerOf(m, Records(m), m.visited, m.found)
  <2>1. AnswerOf(l, Records(l), l.visited, l.found)
    BY <1>3, <1>4 DEF Walks
  <2>2. l.found \in Seq(Found)
    BY DEF Lookup
  <2>3. AnswerOf(l, Records(l), l.visited + 1, found)
    BY <1>4, <1>6, <1>7, <2>1, <2>2, AnswerNext DEF r
  <2>4. Records(m) = Records(l)
    BY <1>11 DEF Records
  <2>5. \A x : (Wanted(m, x) <=> Wanted(l, x)) /\ Value(m, x) = Value(l, x)
    BY <1>11 DEF Wanted, Value
  <2>6. WantedIn(m, Records(l), l.visited + 1)
           = WantedIn(l, Records(l), l.visited + 1)
    BY <2>5 DEF WantedIn
  <2>7. AnswerOf(m, Records(l), l.visited + 1, found)
    BY <2>3, <2>5, <2>6 DEF AnswerOf
  <2>8. QED
    BY <1>11, <2>4, <2>7
<1>13. Walks(m)
  <2>1. Records(m) = Records(l)
    BY <1>11 DEF Records
  <2>2. QED
    BY <1>3, <1>4, <1>5, <1>11, <1>12, <2>1 DEF Walks
<1>14. m.due = "nothing" => m.found = <<>>
  <2> SUFFICES ASSUME l.due = "nothing" PROVE FALSE
    BY <1>11
  <2>1. Empty(l.resolver)
    BY <1>4 DEF Walks
  <2>2. Records(l) = <<>>
    BY <2>1 DEF Records, Empty
  <2>3. QED
    BY <1>3, <1>4, <2>2
<1>15. Fine(m)
  BY <1>3, <1>11, <1>13, <1>14 DEF Fine
<1>16. QED
  BY <1>3, <1>8, <1>10, <1>15, LookupStep

\* An answer keeps what was found and what was due.
LEMMA AnsweredType ==
    ASSUME NEW l \in Lookup
    PROVE  /\ answered(l) \in Lookup
           /\ answered(l).step \in {"task", "done"}
           /\ answered(l).found = l.found /\ answered(l).due = l.due
  BY DEF answered, Task, Done, NoLookup, Lookup, Flags

\* A loop that ends uncut has found the address it is due.
LEMMA DueIsFound ==
    ASSUME ResolverInv, NEW l \in Lookup, Fine(l), l.step = "walking", ~l.freed,
           l.visited = Len(Records(l)), l.due \in Local
    PROVE  l.due \in Elements(l.found)
<1>1. TypeOK /\ Walks(l)
  BY DEF ResolverInv, Fine
<1>2. /\ l.resolver = resolver /\ l.due = address
      /\ l.name \in Host /\ l.flags \in {"default", Family[l.due]}
      /\ Recorded(l.name)
      /\ AnswerOf(l, Records(l), Len(Records(l)), l.found)
  BY <1>1 DEF Walks
<1>3. Records(l) = fake_A[resolver]
  BY <1>2, ResolverAssumption DEF Records
<1>4. PICK j \in 1 .. Len(Records(l)) :
         Records(l)[j] = [key |-> l.name, addr |-> l.due]
  BY <1>2, <1>3 DEF Recorded, Elements
<1>5. Wanted(l, Records(l)[j])
  BY <1>2, <1>4 DEF Wanted
<1>6. Value(l, Records(l)[j]) = l.due
  <2>1. Family[l.due] # "invalid"
    BY ResolverAssumption
  <2>2. QED
    BY <1>2, <1>4, <2>1 DEF Value, Parsed
<1>7. QED
  BY <1>2, <1>4, <1>5, <1>6, AnswerHas

LEMMA ReturnInv ==
    ASSUME ResolverInv, NEW c \in Client, Return(c)
    PROVE  ResolverInv'
<1>1. TypeOK /\ Fine(lookup[c])
  BY InvByLookup
<1>2. PICK l \in Lookup : l = lookup[c]
  BY <1>1 DEF TypeOK
<1>3. /\ l.step = "walking" /\ ~l.freed /\ l.visited = Len(Records(l))
      /\ lookup' = [lookup EXCEPT ![c] = answered(l)]
      /\ UNCHANGED <<serverVars, applying, recordVars, aborted>>
  BY <1>2 DEF Return
<1>4. Fine(answered(l))
  BY <1>1, <1>2, <1>3, AnsweredType, DueIsFound DEF Fine
<1>5. PICK m \in Lookup : m = answered(l)
  BY AnsweredType
<1>6. QED
  BY <1>3, <1>4, <1>5, LookupStep

LEMMA ReturnFromFreedInv ==
    ASSUME ResolverInv, NEW c \in Client, ReturnFromFreed(c)
    PROVE  ResolverInv'
<1>1. TypeOK /\ Fine(lookup[c])
  BY InvByLookup
<1>2. PICK l \in Lookup : l = lookup[c]
  BY <1>1 DEF TypeOK
<1>3. PICK more \in {<<>>, <<None>>} :
         lookup' = [lookup EXCEPT ![c] = answered([l EXCEPT !.found = @ \o more])]
  BY <1>2 DEF ReturnFromFreed
<1>4. /\ l.step = "walking" /\ l.freed
      /\ UNCHANGED <<serverVars, applying, recordVars, aborted>>
  BY <1>2 DEF ReturnFromFreed
<1>5. l.due = None
  BY <1>1, <1>2, <1>4 DEF Fine, Walks
<1> DEFINE k == [l EXCEPT !.found = @ \o more]
<1>6. k \in Lookup /\ k.due = None
  <2>1. l.found \o more \in Seq(Found)
    <3>1. l.found \in Seq(Found)
      BY DEF Lookup
    <3>2. more \in Seq(Found)
      <4>1. <<>> \in Seq(Found)
        BY EmptySeq
      <4>2. <<None>> \in Seq(Found)
        BY DEF Found
      <4>3. QED
        BY <4>1, <4>2
    <3>3. QED
      BY <3>1, <3>2, ConcatProperties
  <2>2. PICK found \in Seq(Found) : found = l.found \o more
    BY <2>1
  <2>3. k = [l EXCEPT !.found = found]
    BY <2>2
  <2>4. QED
    BY <1>5, <2>3 DEF Lookup
<1> HIDE DEF k
<1>7. PICK m \in Lookup : m = answered(k)
  BY <1>6, AnsweredType
<1>8. Fine(m)
  BY <1>6, <1>7, AnsweredType, ResolverAssumption DEF Fine
<1>9. lookup' = [lookup EXCEPT ![c] = m]
  BY <1>3, <1>7 DEF k
<1>10. QED
  BY <1>4, <1>8, <1>9, LookupStep

LEMMA CancelInv ==
    ASSUME ResolverInv, NEW c \in Client, g_cancellable_cancel(c)
    PROVE  ResolverInv'
<1>1. TypeOK /\ Fine(lookup[c])
  BY InvByLookup
<1>2. PICK l \in Lookup : l = lookup[c]
  BY <1>1 DEF TypeOK
<1>3. PICK m \in Lookup : m = [l EXCEPT !.cancelled = TRUE]
  BY DEF Lookup
<1>4. l.step = "task" /\ m.step = "task" /\ m.found = l.found /\ m.due = l.due
  BY <1>2, <1>3 DEF g_cancellable_cancel, Lookup
<1>5. Fine(m)
  BY <1>1, <1>2, <1>4 DEF Fine
<1>6. lookup' = [lookup EXCEPT ![c] = m]
  BY <1>2, <1>3 DEF g_cancellable_cancel
<1>7. QED
  BY <1>5, <1>6, LookupStep DEF g_cancellable_cancel

LEMMA FinishInv ==
    ASSUME ResolverInv, NEW c \in Client, Finish(c)
    PROVE  ResolverInv'
<1>1. TypeOK /\ Fine(lookup[c])
  BY InvByLookup
<1>2. PICK l \in Lookup : l = lookup[c]
  BY <1>1 DEF TypeOK
<1> DEFINE m == IF l.cancelled THEN [NoLookup EXCEPT !.step = "done"] ELSE Done(l)
<1>3. <<>> \in Seq(Found)
  BY EmptySeq
<1>4. m \in Lookup
  BY <1>3 DEF Done, NoLookup, Lookup, Flags
<1>5. /\ m.step = "done"
      /\ \/ m.found = l.found /\ m.due = l.due
         \/ m.due = None
  BY DEF Done, NoLookup
<1>6. l.step = "task" /\ lookup' = [lookup EXCEPT ![c] = m]
  BY <1>2 DEF Finish
<1> HIDE DEF m
<1>7. Fine(m)
  BY <1>1, <1>2, <1>5, <1>6, ResolverAssumption DEF Fine
<1>8. QED
  BY <1>4, <1>6, <1>7, LookupStep DEF Finish

\* A crash, or a step that changes nothing.
LEMMA StutterInv ==
    ASSUME ResolverInv,
           UNCHANGED <<serverVars, applying, recordVars, lookup>>,
           aborted' \in {aborted, "find_fake", "fake_services_free"}
    PROVE  ResolverInv'
<1>1. TypeOK /\ ServerNames /\ \A d \in Client : Fine(lookup[d])
  BY InvByLookup
<1>2. UNCHANGED <<resolver, address, default_resolver, expected_domain_names,
                  applying, fake_A, fake_SRV, lookup>>
  BY DEF serverVars, recordVars
<1>3. TypeOK'
  BY <1>1, <1>2 DEF TypeOK
<1>4. ServerNames'
  BY <1>1, <1>2 DEF ServerNames, Recorded, Empty
<1>5. ASSUME NEW d \in Client PROVE Fine(lookup[d])'
  <2>1. PICK l \in Lookup : l = lookup[d]
    BY <1>1 DEF TypeOK
  <2>2. Fine(l)
    BY <1>1, <2>1
  <2>3. l.step = "walking" => Walks(l) /\ Len(Records(l)) \in Nat
    BY <1>1, <2>2, RecordTypes DEF Fine, Walks
  <2>4. Records(l)' = Records(l) /\ (Empty(l.resolver) <=> Empty(l.resolver)')
    BY <1>2 DEF Records, Empty
  <2>5. Fine(l)'
    BY <1>1, <1>2, <2>2, <2>3, <2>4, FineKept DEF Walks
  <2>6. QED
    BY <1>2, <2>1, <2>5
<1>6. QED
  BY <1>3, <1>4, <1>5, InvByLookupNext

LEMMA InvNext == ResolverInv /\ [Next]_vars => ResolverInv'
<1> SUFFICES ASSUME ResolverInv, [Next]_vars PROVE ResolverInv'
  OBVIOUS
<1>1. ASSUME NEW c \in Client, ClientThread(c) PROVE ResolverInv'
  <2>1. ASSUME NEW h \in Host, NEW flags \in Flags, NEW async \in BOOLEAN,
               Begin(c, h, flags, async)
        PROVE  ResolverInv'
    BY <2>1, BeginInv
  <2>2. ASSUME NEW s \in Service, NEW async \in BOOLEAN,
               Begin(c, s, "default", async)
        PROVE  ResolverInv'
    <3>1. "default" \in Flags
      BY DEF Flags
    <3>2. QED
      BY <2>2, <3>1, BeginInv
  <2>3. CASE find_fake_crashes(c)
    BY <2>3, StutterInv DEF find_fake_crashes, Abort
  <2>4. CASE fake_services_free(c)
    BY <2>4, StutterInv DEF fake_services_free, Abort
  <2>5. QED
    BY <1>1, <2>1, <2>2, <2>3, <2>4, VisitInv, ReturnInv, ReturnFromFreedInv,
       CancelInv, FinishInv
    DEF ClientThread, Proceed, Deliver
<1>2. CASE UNCHANGED vars
  BY <1>2, StutterInv DEF vars
<1>3. QED
  BY <1>1, <1>2, RunInv, StopInv, SetNamesInv, ApplyInv, AddAInv, AddSRVInv
  DEF Next, Application, Dead

LEMMA InvAlways == Spec => []ResolverInv
  BY InvInit, InvNext, PTL DEF Spec
-------------------------------------------------------------------------------
(* Theorems.                                                               *)

\* Records, lists of answers and addresses keep their types.  An address that
\* does not parse is in no answer: what find_fake_hosts() puts there for it is
\* NULL, whatever an application adds and whenever it does.
THEOREM ResolverTypeCorrect == Spec => []TypeOK
<1>1. ResolverInv => TypeOK
  BY DEF ResolverInv
<1>2. QED
  BY <1>1, InvAlways, PTL

\* However lookups in other threads interleave with runs, stops, resets and
\* records that are added, the records and what each loop has seen of them stay
\* consistent.
THEOREM ResolverCoherent == Spec => []Coherent
<1>1. ResolverInv => Coherent
  BY DEF ResolverInv
<1>2. QED
  BY <1>1, InvAlways, PTL

\* A lookup that begins after uhm_server_stop() finds nothing, though the
\* stopped server's resolver stays the default one of the process.
THEOREM StoppedServerForgotten == Spec => []StoppedServerIsForgotten
<1>1. ResolverInv => StoppedServerIsForgotten
  BY DEF ResolverInv
<1>2. QED
  BY <1>1, InvAlways, PTL

\* A lookup of an expected name, begun with the server up and not disturbed by
\* a reset, finds the address the server has in this run.
THEOREM ExpectedNamesFound == Spec => []ExpectedNamesAreFound
<1>1. ResolverInv => ExpectedNamesAreFound
  BY DEF ResolverInv
<1>2. QED
  BY <1>1, InvAlways, PTL

\* A lookup whose loop no reset cuts short returns each address of its name
\* that its flags want, once and in the order they were added, the ones added
\* under its loop included.
THEOREM LookupsAreAtomic == Spec => LookupIsAtomic
<1> DEFINE Atomic(c) ==
       lookup[c].step = "walking" /\ lookup'[c].step # "walking"
             /\ ~lookup[c].freed
          => AnswerOf(lookup[c], Records(lookup[c]), Len(Records(lookup[c])),
                      lookup'[c].found)
<1>1. ASSUME ResolverInv, [Next]_vars, NEW c \in Client PROVE Atomic(c)
  <2> SUFFICES ASSUME lookup[c].step = "walking", lookup'[c].step # "walking",
                      ~lookup[c].freed
               PROVE  AnswerOf(lookup[c], Records(lookup[c]),
                               Len(Records(lookup[c])), lookup'[c].found)
    OBVIOUS
  <2>1. TypeOK /\ Fine(lookup[c])
    BY InvByLookup, <1>1
  <2>2. PICK l \in Lookup : l = lookup[c]
    BY <2>1 DEF TypeOK
  <2>3. Return(c)
    <3>1. ASSUME uhm_resolver_reset(resolver) PROVE FALSE
      <4>1. lookup'[c].step = lookup[c].step
        BY <2>1, <3>1 DEF uhm_resolver_reset, TypeOK, Lookup
      <4>2. QED
        BY <4>1
    <3>2. ~Application
      BY <3>1
      DEF Application, uhm_server_run, uhm_server_stop, empties,
          uhm_server_set_expected_domain_names, apply_expected_domain_names,
          uhm_resolver_add_A, uhm_resolver_add_SRV
    <3>3. ASSUME NEW d \in Client, ClientThread(d), d # c PROVE FALSE
      <4>1. lookup'[c] = lookup[c]
        BY <2>1, <3>3
        DEF ClientThread, Begin, Proceed, Visit, Return, ReturnFromFreed,
            find_fake_crashes, g_cancellable_cancel, Deliver, Finish,
            fake_services_free, Abort, TypeOK
      <4>2. QED
        BY <4>1
    <3>4. ClientThread(c)
      BY <1>1, <3>2, <3>3 DEF Next, Dead, vars
    <3>5. ~Visit(c)
      <4>1. ASSUME Visit(c) PROVE lookup'[c].step = lookup[c].step
        BY <2>1, <4>1 DEF Visit, TypeOK, Lookup
      <4>2. QED
        BY <4>1
    <3>6. QED
      BY <3>4, <3>5
      DEF ClientThread, Begin, Proceed, ReturnFromFreed, find_fake_crashes,
          g_cancellable_cancel, Deliver, Finish, fake_services_free, Abort
  <2>4. /\ l.visited = Len(Records(l))
        /\ lookup'[c] = answered(l)
    BY <2>1, <2>2, <2>3 DEF Return, TypeOK
  <2>5. AnswerOf(l, Records(l), l.visited, l.found)
    BY <2>1, <2>2 DEF Fine, Walks
  <2>6. QED
    BY <2>2, <2>4, <2>5, AnsweredType
<1>2. ResolverInv /\ [Next]_vars => [\A c \in Client : Atomic(c)]_vars
  BY <1>1
<1>3. [\A c \in Client : Atomic(c)]_vars
         => [\A c \in Client :
                LET records == Records(lookup[c])
                IN  lookup[c].step = "walking" /\ lookup'[c].step # "walking"
                       /\ ~lookup[c].freed
                    => AnswerOf(lookup[c], records, Len(records),
                                lookup'[c].found)]_vars
  OBVIOUS
<1>4. QED
  BY <1>2, <1>3, InvAlways, PTL DEF Spec, LookupIsAtomic
===============================================================================
