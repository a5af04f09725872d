------------------------------ MODULE UhmServer -------------------------------
(***************************************************************************)
(* UhmServer playing traces back: uhm_server_run() and uhm_server_stop(),  *)
(* loading and unloading a trace, and the requests the server thread       *)
(* answers from it.                                                        *)
(*                                                                         *)
(* Three kinds of threads take steps.  The application's thread calls the  *)
(* API.  The server thread runs server_main_loop: one request at a time,   *)
(* and while it handles one it waits for the worker thread of GTask that   *)
(* reads the next pair.  Clients are outside.  They share the fields of    *)
(* UhmServerPrivate without a lock, so a step here is what one thread does *)
(* between two points where the other may look: a blocking read, waiting   *)
(* for a thread, the emission of a signal.                                 *)
(***************************************************************************)
EXTENDS UhmTrace, FiniteSets

CONSTANTS
    Client,     \* clients that keep one request outstanding at a time
    Stream,     \* identities of GDataInputStream objects
    DomainNames,\* the lists an application gives as expected domain names
    Usage,      \* liberties the application takes: see UsageKinds
    MaxCounter  \* bound on message_counter, kept by the clients

(* The library does not say when it may be called.  By default requests    *)
(* that need a trace are made while one is loaded, a trace is loaded and   *)
(* unloaded between requests, and loaded with the server running or online *)
(* (as the tests and uhm_server_start_trace_full() do).  "early" lets      *)
(* requests come without a trace, "overlap" lets traces be loaded and      *)
(* unloaded while requests are outstanding, "load_before_run" lets         *)
(* uhm_server_load_trace() come first, which its documentation suggests.   *)
UsageKinds == {"early", "overlap", "load_before_run"}

ASSUME ServerAssumption ==
    /\ None \notin Client
    /\ None \notin Stream
    /\ None \notin Request
    /\ DomainNames \subseteq SUBSET Host
    /\ Usage \subseteq UsageKinds
    /\ MaxCounter \in Nat

VARIABLES
    \* Fields of UhmServerPrivate.
    server,          \* server, server_context, server_main_loop, address,
                     \* port and resolver are set (TRUE) or NULL, together
    server_thread,   \* "none", "running" or "exited" (not joined yet)
    resolver,        \* the names the resolver maps to the server's address
    expected_domain_names,
    enable_online,
    trace_file,      \* a file or None
    input_stream,    \* a stream or None
    next_message,    \* a message or None
    message_counter,
    \* The rest of the process.
    default_resolver,\* g_resolver_get_default(): "system", "server" or
                     \* "orphan", the resolver of a server that stopped
    quit_source,     \* the idle source of uhm_server_stop() is attached
    streams,         \* the file, position and framing of each stream
    app,             \* where the application's thread is
    load_error,      \* the last load reported an error
    pc,              \* where the server thread is in a request
    current,         \* the client whose request it handles, or None
    task_stream,     \* the stream in the task data, or None
    task_result,     \* what the worker thread returned
    expected,        \* expected_message of the signal being emitted
    state,           \* state[c]: where c's request is
    request,         \* request[c]: c's outstanding request, or None
    reply,           \* reply[c]: the answer to c's last request
    aborted          \* "no", or where the process crashed

traceVars == <<trace_file, input_stream, next_message, message_counter>>
appVars == <<server, expected_domain_names, enable_online, default_resolver,
             app, load_error>>
handlerVars == <<pc, current, task_stream, task_result, expected>>
clientVars == <<state, request, reply>>
threadVars == <<server_thread, quit_source>>
vars == <<traceVars, appVars, handlerVars, clientVars, threadVars, resolver,
          streams, aborted>>
-------------------------------------------------------------------------------
(* Values.                                                                 *)

\* A pair parsed by trace_to_soup_message().  Without a base URI the message
\* has no URI.
Message == [file : File, pos : Nat \ {0}, based : BOOLEAN]
ASSUME MessageAssumption == None \notin Message

\* A stream is read a pair at a time.  A read error leaves it where it was
\* ("mended"), within the request of the pair ("half": the rest of the pair
\* is read next) or behind it ("lost": from then on a response and the
\* request after it are taken for a pair).
AfterError == {"mended", "half", "lost"}
Framing == {"aligned"} \cup AfterError
\* skipped: the call of load_file_iteration() that reads the stream has passed
\* over a pair, which its output_message still holds.
StreamState == [file : File \cup {None}, pos : Nat \ {0}, framing : Framing,
                skipped : BOOLEAN]
AtStart(f) == [file |-> f, pos |-> 1, framing |-> "aligned", skipped |-> FALSE]

ResultKinds == {"none", "message", "null", "error"}
TaskResult == {r \in [kind : ResultKinds, pos : Nat] :
                  r.kind = "message" => r.pos # 0}
NoResult == [kind |-> "none", pos |-> 0]

ReplyKinds == {"none", "own", "recorded", "unexpected", "nothing", "failed"}
Reply == [kind : ReplyKinds, message : Message \cup {None},
          trace_file : File \cup {None}, offset : Nat]
NoReply == [kind |-> "none", message |-> None,
            trace_file |-> None, offset |-> 0]

FieldsTypeOK ==
    /\ server \in BOOLEAN
    /\ server_thread \in {"none", "running", "exited"}
    /\ resolver \subseteq Host
    /\ expected_domain_names \subseteq Host
    /\ enable_online \in BOOLEAN
    /\ trace_file \in File \cup {None}
    /\ input_stream \in Stream \cup {None}
    /\ next_message \in Message \cup {None}
    /\ message_counter \in Nat

ProcessTypeOK ==
    /\ default_resolver \in {"system", "server", "orphan"}
    /\ quit_source \in BOOLEAN
    /\ streams \in [Stream -> StreamState]
    /\ app \in {"idle", "loading", "joining"}
    /\ load_error \in BOOLEAN
    /\ aborted \in {"no", "input_stream", "load_file_iteration",
                    "next_message", "uri_get_path_query"}

RequestTypeOK ==
    /\ pc \in {"idle", "reading", "read", "process", "comparing"}
    /\ current \in Client \cup {None}
    /\ task_stream \in Stream \cup {None}
    /\ task_result \in TaskResult
    /\ expected \in Message \cup {None}
    /\ state \in [Client -> {"idle", "transit", "ready", "handling",
                             "answered", "dropped"}]
    /\ request \in [Client -> Request \cup {None}]
    /\ reply \in [Client -> Reply]

TypeOK == FieldsTypeOK /\ ProcessTypeOK /\ RequestTypeOK

Init ==
    /\ server = FALSE
    /\ server_thread = "none"
    /\ resolver = {}
    /\ expected_domain_names = {}
    /\ enable_online = FALSE
    /\ trace_file = None
    /\ input_stream = None
    /\ next_message = None
    /\ message_counter = 0
    /\ default_resolver = "system"
    /\ quit_source = FALSE
    /\ streams = [s \in Stream |-> AtStart(None)]
    /\ app = "idle"
    /\ load_error = FALSE
    /\ pc = "idle"
    /\ current = None
    /\ task_stream = None
    /\ task_result = NoResult
    /\ expected = None
    /\ state = [c \in Client |-> "idle"]
    /\ request = [c \in Client |-> None]
    /\ reply = [c \in Client |-> NoReply]
    /\ aborted = "no"

\* Where each thread is, while the process lives.
AppAt(where) == aborted = "no" /\ app = where
ServerAt(where) ==
    aborted = "no" /\ server_thread = "running" /\ pc = where

Abort(where) ==
    /\ aborted' = where
    /\ UNCHANGED <<traceVars, appVars, handlerVars, clientVars, threadVars,
                   resolver, streams>>
-------------------------------------------------------------------------------
(* Reading a pair from the trace.                                          *)

\* build_base_uri() finds one: the server listens, or any will do.
base_uri == enable_online \/ server


AtEnd(s) == streams[s].pos > Len(Trace[streams[s].file])

\* A pair read from the middle does not parse.
PairAt(s) == IF streams[s].framing \in {"half", "lost"}
             THEN Malformed
             ELSE Trace[streams[s].file][streams[s].pos]

\* Two threads reading one stream get each other's lines.
Racing == app = "loading" /\ pc = "reading" /\ task_stream = input_stream

ReadMayFail(s) ==
    /\ streams[s].framing = "aligned" \* one error for each stream
    /\ "read" \in Faults \/ Racing

Advanced(s) == [streams[s] EXCEPT
                    !.pos = @ + 1,
                    !.framing = IF @ = "half" THEN "mended" ELSE @,
                    !.skipped = PairAt(s) = StatusNone]

Result(kind, pos) == [kind |-> kind, pos |-> pos]
Results(s) == {NoResult, Result("null", 0), Result("error", 0),
               Result("null", streams[s].pos), Result("message", streams[s].pos)}

\* One pass of the loop of load_file_iteration() over stream s: the end of
\* the file, an error, or a pair.  It returns result, or goes round again
\* when that is NoResult.
load_file_iteration(s, result) ==
    \/ /\ AtEnd(s)
       /\ result = Result("null", 0)
       /\ streams' = [streams EXCEPT ![s].skipped = FALSE]
    \/ /\ ReadMayFail(s)
       /\ ~streams[s].skipped
       /\ result = Result("error", 0)
       /\ \E f \in AfterError : streams' = [streams EXCEPT ![s].framing = f]
    \/ /\ ~AtEnd(s)
       /\ streams' = [streams EXCEPT ![s] = Advanced(s)]
       /\ \/ /\ PairAt(s) = StatusNone
             /\ result = NoResult
          \/ /\ PairAt(s) = Malformed
             /\ result = Result("null", streams[s].pos)
          \/ /\ PairAt(s) \in Request
             /\ result = Result("message", streams[s].pos)

\* Its postcondition fails: an error, and the pair passed over before it.
load_file_iteration_asserts(s) ==
    /\ ReadMayFail(s)
    /\ streams[s].skipped
    /\ Abort("load_file_iteration")

\* The message in a result of reading stream s.
ResultMessage_off_by_one(s, result) ==
    IF result.kind = "message"
    THEN [file |-> streams[s].file, pos |-> result.pos - 1, based |-> base_uri]
    ELSE None
ResultMessage(s, result) ==
    IF result.kind = "message"
    THEN [file |-> streams[s].file, pos |-> result.pos, based |-> base_uri]
    ELSE None
-------------------------------------------------------------------------------
(* The application's thread.                                               *)

Outstanding(c) == state[c] \in {"transit", "ready", "handling"}

\* When an application loads and unloads traces.
Calm == "overlap" \in Usage \/ \A c \in Client : ~Outstanding(c)

\* The resolver is reset, and the names are added with its address.
apply_expected_domain_names_without_adding(names) == {}
apply_expected_domain_names(names) == names

uhm_server_run ==
    /\ AppAt("idle")
    /\ ~server
    /\ server' = TRUE
    /\ server_thread' = "running"
    /\ default_resolver' = "server"
    /\ resolver' = apply_expected_domain_names(expected_domain_names)
    /\ UNCHANGED <<traceVars, handlerVars, clientVars, expected_domain_names,
                   enable_online, app, load_error, quit_source, streams,
                   aborted>>

\* The idle source goes to server_context, which the server thread runs.
attach_idle_to_default_context == UNCHANGED quit_source
attach_idle == quit_source' = TRUE

\* uhm_server_stop() up to g_thread_join().
uhm_server_stop ==
    /\ AppAt("idle")
    /\ server
    /\ attach_idle
    /\ app' = "joining"
    /\ UNCHANGED <<traceVars, handlerVars, clientVars, server, server_thread,
                   resolver, expected_domain_names, enable_online,
                   default_resolver, load_error, streams, aborted>>

unload_trace_but_file ==
    /\ next_message' = None
    /\ input_stream' = None
    /\ trace_file' = trace_file
    /\ message_counter' = 0
    /\ load_error' = FALSE

unload_trace_but_message ==
    /\ next_message' = next_message
    /\ input_stream' = None
    /\ trace_file' = None
    /\ message_counter' = 0
    /\ load_error' = FALSE

unload_trace ==
    /\ next_message' = None
    /\ input_stream' = None
    /\ trace_file' = None
    /\ message_counter' = 0
    /\ load_error' = FALSE

g_thread_join_omitted == TRUE
g_thread_join == server_thread = "exited"

\* uhm_server_stop() from g_thread_join() on.  Requests that did not reach
\* the server thread are cut off with their connections.
uhm_server_stop_joined ==
    /\ AppAt("joining")
    /\ g_thread_join
    /\ server_thread' = "none"
    /\ resolver' = {}
    /\ server' = FALSE
    /\ default_resolver' = "orphan"
    /\ app' = "idle"
    /\ unload_trace
    /\ state' = [c \in Client |->
                    IF Outstanding(c) THEN "dropped" ELSE state[c]]
    /\ request' = [c \in Client |-> None]
    /\ UNCHANGED <<handlerVars, reply, expected_domain_names, enable_online,
                   quit_source, streams, aborted>>

uhm_server_unload_trace ==
    /\ AppAt("idle")
    /\ Calm
    /\ unload_trace
    /\ UNCHANGED <<handlerVars, clientVars, threadVars, server, resolver,
                   expected_domain_names, enable_online, default_resolver,
                   app, streams, aborted>>

\* uhm_server_load_trace(f) up to the first read: the preconditions, and
\* load_file_stream().
uhm_server_load_trace(f) ==
    /\ AppAt("idle")
    /\ Calm
    /\ server \/ enable_online \/ "load_before_run" \in Usage
    /\ trace_file = None /\ input_stream = None /\ next_message = None
    /\ \/ /\ trace_file' = f
          /\ \E s \in Stream \ {task_stream} :
                /\ input_stream' = s
                /\ streams' = [streams EXCEPT ![s] = AtStart(f)]
          /\ app' = "loading"
          /\ load_error' = FALSE
       \/ /\ "open" \in Faults
          /\ load_error' = TRUE
          /\ UNCHANGED <<trace_file, input_stream, streams, app>>
    /\ UNCHANGED <<handlerVars, clientVars, threadVars, next_message,
                   message_counter, server, resolver, expected_domain_names,
                   enable_online, default_resolver, aborted>>

\* The hosts file.  Without a server there is no resolver to add to.
load_hosts(f) ==
    \/ /\ resolver' = IF server THEN resolver \cup HostsOf[f] ELSE resolver
       /\ load_error' = FALSE
    \/ /\ "hosts" \in Faults
       /\ load_error' = TRUE
       /\ UNCHANGED resolver

\* uhm_server_load_trace() after each pass of load_file_iteration().
uhm_server_load_trace_read ==
    /\ AppAt("loading")
    /\ \E result \in Results(input_stream) :
          /\ load_file_iteration(input_stream, result)
          /\ \/ /\ result = NoResult
                /\ UNCHANGED <<trace_file, next_message, message_counter,
                               app, load_error, resolver>>
             \/ /\ result # NoResult
                /\ next_message' = ResultMessage(input_stream, result)
                /\ message_counter' = 0
                /\ app' = "idle"
                /\ IF result.kind = "error"
                   THEN /\ trace_file' = None
                        /\ load_error' = TRUE
                        /\ UNCHANGED resolver
                   ELSE /\ load_hosts(trace_file)
                        /\ UNCHANGED trace_file
    /\ UNCHANGED <<handlerVars, clientVars, threadVars, input_stream, server,
                   expected_domain_names, enable_online, default_resolver,
                   aborted>>

uhm_server_load_trace_asserts ==
    /\ AppAt("loading")
    /\ load_file_iteration_asserts(input_stream)

uhm_server_set_expected_domain_names(names) ==
    /\ AppAt("idle")
    /\ expected_domain_names' = names
    /\ resolver' = IF server THEN apply_expected_domain_names(names)
                 ELSE resolver
    /\ UNCHANGED <<traceVars, handlerVars, clientVars, threadVars, server,
                   enable_online, default_resolver, app, load_error, streams,
                   aborted>>

\* On the server's resolver, with the server's address.
uhm_resolver_add_A(h) ==
    /\ AppAt("idle")
    /\ server
    /\ resolver' = resolver \cup {h}
    /\ UNCHANGED <<traceVars, appVars, handlerVars, clientVars, threadVars,
                   streams, aborted>>

uhm_server_set_enable_online(b) ==
    /\ AppAt("idle")
    /\ enable_online' = b
    /\ UNCHANGED <<traceVars, handlerVars, clientVars, threadVars, server,
                   resolver, expected_domain_names, default_resolver, app,
                   load_error, streams, aborted>>
-------------------------------------------------------------------------------
(* Clients and the network.                                                *)

Send(c, r) ==
    /\ aborted = "no"
    /\ server
    /\ ~Outstanding(c)
    /\ \/ r \in OwnHandled
       \/ trace_file # None /\ app # "loading"
       \/ "early" \in Usage
    /\ message_counter + Cardinality({d \in Client : Outstanding(d)})
          < MaxCounter
    /\ state' = [state EXCEPT ![c] = "transit"]
    /\ request' = [request EXCEPT ![c] = r]
    /\ reply' = [reply EXCEPT ![c] = NoReply]
    /\ UNCHANGED <<traceVars, appVars, handlerVars, threadVars, resolver,
                   streams, aborted>>

\* The request is read from its socket; server_context has it to dispatch.
Arrive(c) ==
    /\ aborted = "no"
    /\ state[c] = "transit"
    /\ server_thread = "running"
    /\ state' = [state EXCEPT ![c] = "ready"]
    /\ UNCHANGED <<traceVars, appVars, handlerVars, threadVars, request,
                   reply, resolver, streams, aborted>>
-------------------------------------------------------------------------------
(* The server thread.                                                      *)

\* The handler returns; with a trace, server_response_append_headers() has
\* named it in the answer.
Respond(c, kind, m) ==
    /\ state' = [state EXCEPT ![c] = "answered"]
    /\ request' = [request EXCEPT ![c] = None]
    /\ reply' = [reply EXCEPT ![c] =
                    IF kind = "own"
                    THEN [NoReply EXCEPT !.kind = "own"]
                    ELSE [kind |-> kind, message |-> m,
                          trace_file |-> trace_file,
                          offset |-> message_counter]]
    /\ pc' = "idle"
    /\ current' = None
    /\ task_stream' = None
    /\ task_result' = NoResult
    /\ expected' = None

\* A handle-message handler of the test answers, and the emission ends.
server_handler_cb_own(c) ==
    /\ ServerAt("idle")
    /\ state[c] = "ready"
    /\ request[c] \in OwnHandled
    /\ Respond(c, "own", None)
    /\ UNCHANGED <<traceVars, appVars, threadVars, resolver, streams, aborted>>

\* real_handle_message() up to g_task_run_in_thread_sync(), or up to
\* server_process_message() when the next pair is there already.
server_handler_cb(c) ==
    /\ ServerAt("idle")
    /\ state[c] = "ready"
    /\ request[c] \notin OwnHandled
    /\ next_message # None \/ input_stream # None
    /\ current' = c
    /\ state' = [state EXCEPT ![c] = "handling"]
    /\ IF next_message = None
       THEN pc' = "reading" /\ task_stream' = input_stream
       ELSE pc' = "process" /\ UNCHANGED task_stream
    /\ UNCHANGED <<traceVars, appVars, threadVars, task_result, expected,
                   request, reply, resolver, streams, aborted>>

\* The worker thread asserts that it has a stream.
server_handler_cb_asserts(c) ==
    /\ ServerAt("idle")
    /\ state[c] = "ready"
    /\ request[c] \notin OwnHandled
    /\ next_message = None /\ input_stream = None
    /\ Abort("input_stream")

load_file_iteration_thread_cb ==
    /\ ServerAt("reading")
    /\ \E result \in Results(task_stream) :
          /\ load_file_iteration(task_stream, result)
          /\ task_result' = result
          /\ pc' = IF result = NoResult THEN "reading" ELSE "read"
    /\ UNCHANGED <<traceVars, appVars, clientVars, threadVars, current,
                   task_stream, expected, resolver, aborted>>

load_file_iteration_thread_cb_asserts ==
    /\ ServerAt("reading")
    /\ load_file_iteration_asserts(task_stream)

\* real_handle_message() takes over what the worker thread returned.
real_handle_message ==
    /\ ServerAt("read")
    /\ next_message' = ResultMessage(task_stream, task_result)
    /\ \/ /\ task_result.kind = "error"
          /\ Respond(current, "failed", None)
       \/ /\ task_result.kind = "null"
          /\ Respond(current, "nothing", None)
       \/ /\ task_result.kind = "message"
          /\ pc' = "process"
          /\ task_stream' = None
          /\ task_result' = NoResult
          /\ UNCHANGED <<current, expected, clientVars>>
    /\ UNCHANGED <<trace_file, input_stream, message_counter, appVars,
                   threadVars, resolver, streams, aborted>>

not_counted == message_counter
counted == message_counter + 1

\* server_process_message() up to the emission of compare-messages.
server_process_message ==
    /\ ServerAt("process")
    /\ next_message # None
    /\ message_counter' = counted
    /\ expected' = next_message
    /\ pc' = "comparing"
    /\ UNCHANGED <<trace_file, input_stream, next_message, appVars,
                   clientVars, threadVars, current, task_stream, task_result,
                   resolver, streams, aborted>>

server_process_message_asserts ==
    /\ ServerAt("process")
    /\ next_message = None
    /\ Abort("next_message")

\* A message without a URI equals none with one.
MessagesEqual_always(m, r) == m.based
MessagesEqual(m, r) == m.based /\ <<Trace[m.file][m.pos], r>> \in Match

\* What is expected once a pair was used.
kept == next_message
cleared == None

\* The rest of server_process_message().  It looks at next_message again.
compare_incoming_message ==
    /\ ServerAt("comparing")
    /\ next_message # None
    /\ IF MessagesEqual(expected, request[current])
       THEN /\ Respond(current, "recorded", next_message)
            /\ next_message' = cleared
       ELSE /\ next_message.based
            /\ Respond(current, "unexpected", next_message)
            /\ UNCHANGED next_message
    /\ UNCHANGED <<trace_file, input_stream, message_counter, appVars,
                   threadVars, resolver, streams, aborted>>

compare_incoming_message_asserts ==
    /\ ServerAt("comparing")
    /\ next_message = None
    /\ Abort("next_message")

\* The text for a mismatch needs the path of the expected URI.
uri_get_path_query_crashes ==
    /\ ServerAt("comparing")
    /\ next_message # None
    /\ ~MessagesEqual(expected, request[current])
    /\ ~next_message.based
    /\ Abort("uri_get_path_query")

\* An idle source is dispatched when no source of a higher priority is ready.
any_turn == TRUE
idle_turn == \A c \in Client : state[c] # "ready"

server_thread_quit_cb ==
    /\ quit_source
    /\ ServerAt("idle")
    /\ idle_turn
    /\ quit_source' = FALSE
    /\ server_thread' = "exited"
    /\ UNCHANGED <<traceVars, appVars, handlerVars, clientVars, resolver,
                   streams, aborted>>
-------------------------------------------------------------------------------
Application ==
    \/ uhm_server_run
    \/ uhm_server_stop
    \/ uhm_server_stop_joined
    \/ uhm_server_unload_trace
    \/ \E f \in File : uhm_server_load_trace(f)
    \/ uhm_server_load_trace_read
    \/ uhm_server_load_trace_asserts
    \/ \E names \in DomainNames : uhm_server_set_expected_domain_names(names)
    \/ \E h \in Host : uhm_resolver_add_A(h)
    \/ \E b \in BOOLEAN : uhm_server_set_enable_online(b)

Network == \E c \in Client : Arrive(c) \/ \E r \in Request : Send(c, r)

Dispatch(c) ==
    \/ server_handler_cb(c)
    \/ server_handler_cb_own(c)
    \/ server_handler_cb_asserts(c)

Handle ==
    \/ load_file_iteration_thread_cb
    \/ load_file_iteration_thread_cb_asserts
    \/ real_handle_message
    \/ server_process_message
    \/ server_process_message_asserts
    \/ compare_incoming_message
    \/ compare_incoming_message_asserts
    \/ uri_get_path_query_crashes

ServerThread ==
    \/ \E c \in Client : Dispatch(c)
    \/ Handle
    \/ server_thread_quit_cb

\* The process is gone.
Dead == aborted # "no" /\ UNCHANGED vars

Next ==
    \/ Application
    \/ Network
    \/ ServerThread
    \/ Dead

Spec == Init /\ [][Next]_vars

(* The threads keep running, and server_context dispatches every ready     *)
(* source of one priority before it polls again, so no ready request waits *)
(* for ever behind others.  Nothing makes the application call the API or  *)
(* the clients make requests, but what it called goes on.                  *)
Fairness ==
    /\ WF_vars(Handle)
    /\ WF_vars(server_thread_quit_cb)
    /\ \A c \in Client : SF_vars(Dispatch(c))
    /\ WF_vars(uhm_server_load_trace_read)
    /\ WF_vars(uhm_server_stop_joined)

FairSpec == Spec /\ Fairness
-------------------------------------------------------------------------------
(* Properties.                                                             *)

\* With the usage of the tests the process does not crash, whatever fails
\* and however the threads interleave, but in one way: a read error right
\* after a pair that load_file_iteration() passed over.  No assertion on
\* next_message or the stream fails and no message without a URI is met.
OnlyPostcondition == aborted \in {"no", "load_file_iteration"}

\* Where traces may be loaded before the server runs it crashes in one other
\* way, over a first message without a URI.  No assertion of the handlers fails
\* there either.
OnlyKnownCrashes ==
    \/ aborted \in {"no", "load_file_iteration"}
    \/ aborted = "uri_get_path_query" /\ "load_before_run" \in Usage

\* While a request is handled the server is up and its thread runs, also
\* when uhm_server_stop() is called in the middle of it: the trace is not
\* unloaded under a handler, and no handler outlives its server.
StopWaitsForHandler ==
    pc # "idle" => server /\ server_thread = "running"

\* How many of the first n pairs of file f have a response.
PairsToAnswer(f, n) == Cardinality({i \in 1 .. n : Trace[f][i] \in Request})

\* The X-Mock-Trace-File-Offset of a recorded answer is no smaller than the
\* place of its pair among the pairs with a response, through reloads, stops
\* and retries; a mismatched request makes it larger.  (A failed read, which
\* may lose pairs, can make it smaller.)
OffsetCountsPairs ==
    \A c \in Client :
        reply[c].kind = "recorded" =>
            LET m == reply[c].message
            IN  reply[c].offset >= PairsToAnswer(m.file, m.pos)

\* uhm_server_set_expected_domain_names() holds across runs: whenever the
\* server is up its resolver knows every expected name ("automatically
\* updates the mappings if the IP address or resolver change").
ExpectedNamesResolve == server => expected_domain_names \subseteq resolver

\* A request the server thread has read is answered, whatever other clients
\* do, and also when uhm_server_stop() is called: the idle source that ends
\* the loop does not overtake it.
ReadyIsAnswered ==
    \A c \in Client :
        state[c] = "ready" ~> (state[c] = "answered" \/ aborted # "no")

\* uhm_server_stop() returns, unless clients keep the loop busy for ever (the
\* source that ends it is an idle source and never gets its turn).
StopReturns ==
    \/ (app = "joining") ~> (app = "idle" \/ aborted # "no")
    \/ []<>(\E c \in Client : state[c] = "ready")

\* "On error, @error will be set and the state of the UhmServer will not
\* change": a load starts with nothing loaded (or does nothing), so after
\* one that failed nothing is.
LoadErrorLeavesState ==
    load_error /\ app = "idle" =>
        trace_file = None /\ input_stream = None /\ next_message = None

\* "Call uhm_server_run() to start the mock server afterwards": a trace that
\* was loaded first can be played, its first message is not one that cannot
\* be compared.
LoadThenRunPlays == aborted # "uri_get_path_query"
-------------------------------------------------------------------------------
(* What the proofs of these add to them, as inductive invariants.          *)

\* The application loads and unloads between requests, and makes those that
\* need a trace while one is loaded; it may load before the server runs.
Orderly == Usage \subseteq {"load_before_run"}

\* A thread that reads has an open stream.
ReadersHaveStreams ==
    /\ app = "loading" => input_stream # None /\ trace_file # None
    /\ pc \in {"reading", "read"} => task_stream # None
    /\ \A s \in {input_stream, task_stream} \ {None} : streams[s].file \in File

\* The server is up from uhm_server_run() until uhm_server_stop() has joined
\* its thread, which exits between two requests.
Lifecycle ==
    /\ server <=> server_thread # "none"
    /\ app = "joining" => server
    /\ quit_source => app = "joining" /\ server_thread = "running"
    /\ server_thread = "exited" => app = "joining"
    /\ pc # "idle" => server_thread = "running"

\* The server thread has one request in hand, and what it does to the next
\* message nobody undoes.
OneRequestInHand ==
    /\ \A c \in Client : state[c] = "handling" <=> pc # "idle" /\ c = current
    /\ pc # "idle" => current \in Client
    /\ pc \in {"reading", "read"} =>
          next_message = None /\ task_stream = input_stream
    /\ pc = "read" => task_result.kind # "none"
    /\ pc \in {"process", "comparing"} => next_message # None
    /\ pc = "comparing" => expected = next_message

\* A request that needs a trace has one until it is answered.
TraceStaysLoaded ==
    /\ trace_file # None => input_stream # None
    /\ next_message # None => trace_file # None
    /\ app = "loading" => next_message = None
    /\ \/ "load_before_run" \in Usage
       \/ /\ next_message # None => next_message.based
          /\ app = "loading" => base_uri
    /\ \A c \in Client : Outstanding(c) =>
          /\ server
          /\ request[c] \notin OwnHandled =>
                trace_file # None /\ app # "loading"
    /\ pc # "idle" => request[current] \notin OwnHandled

InHand == OneRequestInHand /\ TraceStaysLoaded /\ OnlyKnownCrashes

\* In an orderly application, whenever a request is handled the server is
\* up, the stream and the next message it will look at are there, and no
\* message or request outlives the trace it belongs to.
Disciplined == Lifecycle /\ ReadersHaveStreams /\ InHand
-------------------------------------------------------------------------------
(* What a client sees is a trace played back in order: every step of the   *)
(* threads is a step of TracePlayback or none.                             *)

\* The stream is one pair ahead while that pair waits to be compared or,
\* lost, to be answered.
Ahead ==
    \/ next_message # None
    \/ pc = "read" /\ task_result.pos # 0

Torn ==
    \/ streams[input_stream].framing \in {"half", "lost"}
    \/ /\ streams[input_stream].framing = "mended"
       /\ pc = "read"
       /\ task_result.kind = "null"
       /\ task_result.pos # 0

TornTrace == trace_file # None /\ Torn

Pair(m) == IF m = None THEN None ELSE [file |-> m.file, pos |-> m.pos]

Used == IF trace_file = None THEN 0
        ELSE streams[input_stream].pos - (IF Ahead THEN 2 ELSE 1)

Answers == [c \in Client |-> [kind |-> reply[c].kind,
                              message |-> Pair(reply[c].message)]]

Playback == INSTANCE TracePlayback WITH
    file <- trace_file,
    cursor <- Used,
    torn <- TornTrace,
    asked <- request,
    answer <- Answers

\* The stream of the trace that is loaded has read its pairs up to pos, and a
\* load passed over all of them.
StreamInPlace ==
    trace_file # None =>
        LET stream == streams[input_stream]
        IN  /\ stream.file = trace_file
            /\ stream.pos <= Len(Trace[trace_file]) + 1
            /\ stream.framing # "aligned" => "read" \in Faults
            /\ app = "loading" =>
                  /\ stream.framing = "aligned"
                  /\ \A i \in 1 .. stream.pos - 1 :
                        Trace[trace_file][i] = StatusNone

\* Pair pos of the trace was read last, and read whole.
ReadLast(pos) ==
    /\ pos = streams[input_stream].pos - 1
    /\ streams[input_stream].framing \notin {"half", "lost"}
    /\ Trace[trace_file][pos] \in Request

\* What the server thread has in hand is that pair, the end of the trace, a
\* pair that was lost, or an error.
PairInPlace ==
    /\ next_message # None =>
          next_message.file = trace_file /\ ReadLast(next_message.pos)
    /\ pc = "read" =>
          \/ task_result.kind = "message" /\ ReadLast(task_result.pos)
          \/ task_result = Result("error", 0) /\ "read" \in Faults
          \/ task_result = Result("null", 0) /\ AtEnd(input_stream)
          \/ /\ task_result.kind = "null"
             /\ task_result.pos = streams[input_stream].pos - 1
             /\ task_result.pos # 0
             /\ streams[input_stream].framing # "half"
             /\ \/ streams[input_stream].framing \in {"mended", "lost"}
                \/ Trace[trace_file][task_result.pos] = Malformed

\* A client waits as long as its request is outstanding.
ClientsWait == \A c \in Client : Outstanding(c) <=> request[c] # None

\* The stream that is read is that of the trace that is loaded, and what the
\* server thread has in hand is the pair that was read from it last, whole: no
\* message is of another trace, of an earlier pair, or of parts of two.
InPlace == StreamInPlace /\ PairInPlace /\ ClientsWait

\* The counter has counted every pair with a response that is used up, and
\* the one that is being compared.
CounterKeepsUp ==
    trace_file # None =>
        message_counter >= PairsToAnswer(trace_file, Used)
                           + (IF pc = "comparing" THEN 1 ELSE 0)

\* The server implements TracePlayback: pairs are used in order, each at
\* most once, a request that does not match leaves its pair, and every
\* answer is the one that the trace has for the request, however the clients'
\* requests, loading, unloading, stopping and failing reads interleave.
PlaysTraceBack == Playback!Spec
===============================================================================
