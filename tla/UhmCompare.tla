----------------------------- MODULE UhmCompare -------------------------------
(***************************************************************************)
(* How one request is compared with the recorded one, and how it is        *)
(* answered: the compare-messages signal with the filters connected to it, *)
(* its default handler, and the response that server_process_message()     *)
(* makes from the recorded one.                                            *)
(*                                                                         *)
(* A message is abstracted to what the comparison looks at: the parts of   *)
(* its URI and its method, which are equal or not, and its query, which a  *)
(* filter takes apart.                                                     *)
(***************************************************************************)
EXTENDS Integers, Sequences, FiniteSets

CONSTANTS
    Name,       \* of query parameters
    Value,      \* of query parameters
    Text,       \* what the other parts are
    Message,    \* the messages recorded or sent
    Port,       \* the ports a server may listen on
    MaxFilters, \* bound on the filters an application installs
    None        \* the NULL pointer; in a query, a value that is not decoded

Part == {"method", "user", "password", "path", "fragment"}
Query == Seq([name : Name, value : Value \cup {None}])

\* Of the recorded response: its Location, an absolute URI or not, to a port;
\* its Content-Length (0 without one) and how many bytes the trace has of it.
Location == [absolute : BOOLEAN, port : Port \cup {None}]
Response == [location : Location \cup {None}, length : Nat, size : Nat]

ASSUME CompareAssumption ==
    /\ None \notin Name \cup Value \cup Text \cup Port
    /\ Message \subseteq [parts : [Part -> Text \cup {None}],
                          query : Query \cup {None},
                          response : Response]
    /\ MaxFilters \in Nat

VARIABLES
    filters,    \* the filters that are connected, the oldest first
    filter_id,  \* the identifier of the next one
    port,       \* of the server
    compared,   \* the comparison that was made, until its caller returns
    aborted     \* "no", or where the process crashed

vars == <<filters, filter_id, port, compared, aborted>>

Filter == [id : Nat, names : SUBSET Name]
Answer == [location : Location \cup {None}, length : Nat, size : Nat]
NoComparison == [expected |-> None, actual |-> None, equal |-> FALSE,
                 answer |-> None]

TypeOK ==
    /\ filters \in Seq(Filter)
    /\ filter_id \in 1 .. MaxFilters + 1
    /\ port \in Port
    /\ compared.expected \in Message \cup {None}
    /\ compared.actual \in Message \cup {None}
    /\ compared.equal \in BOOLEAN
    /\ compared.answer \in Answer \cup {None}
    /\ aborted \in {"no", "soup_form_decode"}

Init ==
    /\ filters = <<>>
    /\ filter_id = 1
    /\ port \in Port
    /\ compared = NoComparison
    /\ aborted = "no"
-------------------------------------------------------------------------------
(* Comparing.                                                              *)

parts_equal(e, a) == \A p \in Part : e.parts[p] = a.parts[p]

real_compare_messages(e, a) == parts_equal(e, a) /\ e.query = a.query

\* The parameters of a query: for a name that is there twice the last value,
\* and none for one without a value that can be decoded.
Decoded(q) == {i \in 1 .. Len(q) : q[i].value # None}
soup_form_decode(q) ==
    [n \in {q[i].name : i \in Decoded(q)} |->
        LET last == CHOOSE i \in Decoded(q) :
                        /\ q[i].name = n
                        /\ \A j \in Decoded(q) : q[j].name = n => j <= i
        IN  q[last].value]

g_hash_table_remove(params, names) ==
    [n \in DOMAIN params \ names |-> params[n]]
g_hash_table_lookup(params, n) ==
    IF n \in DOMAIN params THEN params[n] ELSE None

one_way(expected, actual) ==
    \A n \in DOMAIN expected :
        expected[n] = g_hash_table_lookup(actual, n)
same_parameters(expected, actual) ==
    /\ Cardinality(DOMAIN actual) = Cardinality(DOMAIN expected)
    /\ \A n \in DOMAIN expected :
          expected[n] = g_hash_table_lookup(actual, n)

\* The check for the presence of an ignored parameter tests one of the
\* messages twice.
needs_presence(expected, actual, n) == n \notin DOMAIN actual
presence_differs(expected, actual, n) ==
    n \in DOMAIN expected /\ n \notin DOMAIN expected

compare_messages_ignore_parameter_values_cb(e, a, names) ==
    LET expected == soup_form_decode(e.query)
        actual == soup_form_decode(a.query)
    IN  /\ parts_equal(e, a)
        /\ \A n \in names : ~presence_differs(expected, actual, n)
        /\ same_parameters(g_hash_table_remove(expected, names),
                           g_hash_table_remove(actual, names))

\* The emission of compare-messages: the handler connected first decides,
\* and the default one when there is no other.
last_wins(e, a) ==
    IF filters = <<>> THEN real_compare_messages(e, a)
    ELSE compare_messages_ignore_parameter_values_cb(
             e, a, filters[Len(filters)].names)
compare_incoming_message(e, a) ==
    IF filters = <<>> THEN real_compare_messages(e, a)
    ELSE compare_messages_ignore_parameter_values_cb(e, a, filters[1].names)

\* soup_form_decode() takes no NULL.
Crashes(e, a) ==
    /\ filters # <<>>
    /\ parts_equal(e, a)
    /\ e.query = None \/ a.query = None
-------------------------------------------------------------------------------
(* Answering.                                                              *)

\* A Location that parses as a URI is sent to the port of the server.
location_as_recorded(l) == l
rewritten(l) ==
    IF l # None /\ l.absolute THEN [l EXCEPT !.port = port] ELSE l

Max2_missing(m, n) == n - m
Max2(m, n) == IF m > n THEN m ELSE n

\* A body the trace does not have in full is filled up with zeros.
answer(response) ==
    [location |-> rewritten(response.location),
     length |-> response.length,
     size |-> Max2(response.size, response.length)]

Ready == aborted = "no" /\ compared = NoComparison

\* What a comparison leaves behind.
Compared(e, a, response) ==
    compared' = LET equal == compare_incoming_message(e, a)
                IN  [expected |-> e, actual |-> a, equal |-> equal,
                     answer |-> IF equal /\ response # None
                                THEN answer(response) ELSE None]

\* The mock server is sent request a when it expects e.
server_process_message(e, a) ==
    /\ Ready
    /\ ~Crashes(e, a)
    /\ Compared(e, a, e.response)
    /\ UNCHANGED <<filters, filter_id, port, aborted>>

\* Message a went to the real server when the trace has e.  It is passed as
\* the one that was expected.
uhm_server_received_message_chunk(e, a) ==
    /\ Ready
    /\ ~Crashes(a, e)
    /\ Compared(a, e, None)
    /\ UNCHANGED <<filters, filter_id, port, aborted>>

soup_form_decode_crashes(e, a) ==
    /\ Ready
    /\ Crashes(e, a)
    /\ aborted' = "soup_form_decode"
    /\ UNCHANGED <<filters, filter_id, port, compared>>
\* The caller of compare_incoming_message() returns.
returns ==
    /\ compared # NoComparison
    /\ compared' = NoComparison
    /\ UNCHANGED <<filters, filter_id, port, aborted>>
-------------------------------------------------------------------------------
(* The application, between two requests.                                  *)

uhm_server_filter_ignore_parameter_values(names) ==
    /\ Ready
    /\ filter_id <= MaxFilters
    /\ filters' = Append(filters, [id |-> filter_id, names |-> names])
    /\ filter_id' = filter_id + 1
    /\ UNCHANGED <<port, compared, aborted>>

uhm_server_compare_messages_remove_filter(id) ==
    /\ Ready
    /\ \E i \in 1 .. Len(filters) :
          /\ filters[i].id = id
          /\ filters' = SubSeq(filters, 1, i - 1)
                        \o SubSeq(filters, i + 1, Len(filters))
    /\ UNCHANGED <<filter_id, port, compared, aborted>>

\* The server is stopped and run again; its filters stay.
uhm_server_run(p) ==
    /\ Ready
    /\ port' = p
    /\ UNCHANGED <<filters, filter_id, compared, aborted>>

Compare ==
    \E e, a \in Message :
        \/ server_process_message(e, a)
        \/ uhm_server_received_message_chunk(e, a)
        \/ soup_form_decode_crashes(e, a)

Application ==
    \/ \E names \in SUBSET Name : uhm_server_filter_ignore_parameter_values(names)
    \/ \E id \in 1 .. MaxFilters : uhm_server_compare_messages_remove_filter(id)
    \/ \E p \in Port : uhm_server_run(p)

Dead == aborted # "no" /\ UNCHANGED vars

Next == Compare \/ returns \/ Application \/ Dead

Spec == Init /\ [][Next]_vars
-------------------------------------------------------------------------------
(* Properties.                                                             *)

\* A query gives v as the value of n: it does so somewhere, and nowhere later
\* a value that can be decoded.
Gives(q, n, v) ==
    \E i \in 1 .. Len(q) :
        /\ q[i] = [name |-> n, value |-> v]
        /\ \A j \in i + 1 .. Len(q) : q[j].name = n => q[j].value = None

SameBut(e, a, names) ==
    /\ \A p \in Part : e.parts[p] = a.parts[p]
    /\ \A n \in Name \ names, v \in Value :
          Gives(e.query, n, v) <=> Gives(a.query, n, v)

\* Each of the names is in both queries or in neither.
Present(q, n) == \E v \in Value : Gives(q, n, v)
SamePresence(e, a, names) ==
    \A n \in names : Present(e.query, n) <=> Present(a.query, n)

IsCompared == compared.expected # None

\* "One which ignores differences in the values of the given query parameters
\* ... The named parameters must still be present in the query, however ...
\* only one of the installed comparison functions will be used": however
\* filters come and go, messages compare equal only if they agree but for the
\* parameters of the oldest filter there is, in whatever order, however often
\* and however encoded their queries have the others.  They do compare equal
\* if besides each ignored parameter is in both queries or in neither; what
\* becomes of one that is in one of them is IgnoredParametersPresent's matter.
FiltersIgnoreValues ==
    IsCompared /\ filters # <<>> =>
        LET one == compared.expected
            other == compared.actual
            names == filters[1].names
        IN  /\ compared.equal => SameBut(one, other, names)
            /\ SameBut(one, other, names) /\ SamePresence(one, other, names)
                  => compared.equal

\* A filter only forgives: a request that the default comparison takes for
\* the recorded one is taken for it with every filter, also when the
\* ignored parameters are in neither query.
FiltersForgive ==
    IsCompared /\ real_compare_messages(compared.expected, compared.actual)
        => compared.equal

\* The two callers pass the recorded message on different sides; a recording
\* that compares equal online is one that plays back.
DirectionDoesNotMatter ==
    IsCompared =>
        (compared.equal <=>
            compare_incoming_message(compared.actual, compared.expected))

\* A client that follows the answer comes back to the server, whichever port
\* it listens on in this run, and one that reads as many bytes as it was told
\* gets them, though the trace may have fewer.
AnswerCanBeFollowed ==
    compared.answer # None =>
        LET recorded == compared.expected.response
            sent == compared.answer
        IN  /\ sent.size >= recorded.size /\ sent.size >= sent.length
            /\ (recorded.location # None /\ recorded.location.absolute)
                   => sent.location.port = port

\* While a comparison is being used, it is that of the filters there are, and
\* of queries that could be decoded.
ComparisonIsCurrent ==
    \/ compared = NoComparison
    \/ /\ compared.expected \in Message /\ compared.actual \in Message
       /\ ~Crashes(compared.expected, compared.actual)
       /\ compared.equal <=>
             compare_incoming_message(compared.expected, compared.actual)

\* "The named parameters must still be present in the query, however.": what
\* compares equal has each ignored parameter in both queries or in neither.
IgnoredParametersPresent ==
    IsCompared /\ filters # <<>> /\ compared.equal =>
        SamePresence(compared.expected, compared.actual, filters[1].names)
===============================================================================
