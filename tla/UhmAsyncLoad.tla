----------------------------- MODULE UhmAsyncLoad -----------------------------
(***************************************************************************)
(* UhmServer with uhm_server_load_trace_async(): a trace is opened in one  *)
(* worker thread and its first pair is read in another.  In between, and   *)
(* to finish, callbacks run in the main loop of the application's thread.  *)
(* They store into UhmServerPrivate one at a time what the other threads   *)
(* read there.                                                             *)
(*                                                                         *)
(* While a load is in flight the application makes no call that loads or   *)
(* unloads, and no request that needs a trace is made until one that       *)
(* succeeded has finished; after one that failed the application unloads.  *)
(* It may run the server, set names and modes and make requests that its   *)
(* own handlers answer.                                                    *)
(***************************************************************************)
EXTENDS UhmServer

VARIABLE load   \* the asynchronous load in flight

LoadSteps == {"none", "opening", "opened", "reading", "read"}
Load == [step : LoadSteps,
         file : File \cup {None},
         stream : Stream \cup {None}, \* what the first worker thread returned
         based : BOOLEAN,             \* base_uri was there at the call
         result : TaskResult,         \* what the second returned
         cancelled : BOOLEAN]         \* the cancellable of the load is
NoLoad == [step |-> "none", file |-> None, stream |-> None,
           based |-> FALSE, result |-> NoResult, cancelled |-> FALSE]

InFlight == load.step # "none"

allVars == <<vars, load>>

AsyncTypeOK == TypeOK /\ load \in Load

AsyncInit == Init /\ load = NoLoad
-------------------------------------------------------------------------------
\* The call: trace_file is set at once.
uhm_server_load_trace_async(f) ==
    /\ AppAt("idle")
    /\ Calm
    /\ ~InFlight
    /\ server \/ enable_online \/ "load_before_run" \in Usage
    /\ trace_file = None /\ input_stream = None /\ next_message = None
    /\ trace_file' = f
    /\ load' = [NoLoad EXCEPT !.step = "opening", !.file = f,
                              !.based = base_uri]
    /\ load_error' = FALSE
    /\ UNCHANGED <<input_stream, next_message, message_counter, server,
                   expected_domain_names, enable_online, default_resolver,
                   app, handlerVars, clientVars, threadVars, resolver,
                   streams, aborted>>

\* The first worker thread opens the file.
load_file_stream_thread_cb ==
    /\ aborted = "no"
    /\ load.step = "opening"
    /\ \/ \E s \in Stream \ {input_stream, task_stream} :
             /\ streams' = [streams EXCEPT ![s] = AtStart(load.file)]
             /\ load' = [load EXCEPT !.step = "opened", !.stream = s]
       \/ /\ "open" \in Faults \/ load.cancelled
          /\ load' = [load EXCEPT !.step = "opened"]
          /\ UNCHANGED streams
    /\ UNCHANGED <<traceVars, appVars, handlerVars, clientVars, threadVars,
                   resolver, aborted>>

\* A task whose cancellable was cancelled gives an error in the place of its
\* result, whatever that is.
Opened == IF load.cancelled THEN None ELSE load.stream
First == IF load.cancelled THEN Result("error", 0) ELSE load.result

forward_stream_alone(s) ==
    IF s = None THEN UNCHANGED load
    ELSE load' = [load EXCEPT !.step = "reading"]

forward_without_error(s) ==
    load' = IF s = None
            THEN [load EXCEPT !.step = "read", !.result = Result("null", 0)]
            ELSE [load EXCEPT !.step = "reading"]

\* The stream goes to a second worker thread, an error to the callback.
forward(s) ==
    load' = IF s = None
            THEN [load EXCEPT !.step = "read", !.result = Result("error", 0)]
            ELSE [load EXCEPT !.step = "reading"]

load_trace_async_cb ==
    /\ AppAt("idle")
    /\ load.step = "opened"
    /\ input_stream' = Opened
    /\ forward(Opened)
    /\ UNCHANGED <<trace_file, next_message, message_counter, appVars,
                   handlerVars, clientVars, threadVars, resolver, streams,
                   aborted>>

\* The second worker thread reads the first pair.
load_first_iteration_thread_cb ==
    /\ aborted = "no"
    /\ load.step = "reading"
    /\ \E result \in Results(load.stream) :
          /\ load_file_iteration(load.stream, result)
          /\ load' = IF result = NoResult THEN load
                     ELSE [load EXCEPT !.step = "read", !.result = result]
    /\ UNCHANGED <<traceVars, appVars, handlerVars, clientVars, threadVars,
                   resolver, aborted>>

load_first_iteration_thread_cb_asserts ==
    /\ load.step = "reading"
    /\ aborted = "no"
    /\ load_file_iteration_asserts(load.stream)
    /\ UNCHANGED <<appVars, load>>

\* The result of the task.
first_message_lost == None
first_message_before ==
    IF First.kind # "message" THEN None
    ELSE [file |-> load.file, pos |-> First.pos - 1, based |-> load.based]
first_message ==
    IF First.kind # "message" THEN None
    ELSE [file |-> load.file, pos |-> First.pos, based |-> load.based]

\* The callback of the application calls it.  Whatever the result, the trace
\* file and the stream stay.
uhm_server_load_trace_finish ==
    /\ AppAt("idle")
    /\ load.step = "read"
    /\ next_message' = first_message
    /\ message_counter' = 0
    /\ load_error' = (First.kind = "error")
    /\ load' = NoLoad
    /\ UNCHANGED <<trace_file, input_stream, server, expected_domain_names,
                   enable_online, default_resolver, app, handlerVars,
                   clientVars, threadVars, resolver, streams, aborted>>

\* From any thread.
g_cancellable_cancel ==
    /\ aborted = "no"
    /\ "cancel" \in Faults
    /\ InFlight
    /\ ~load.cancelled
    /\ load' = [load EXCEPT !.cancelled = TRUE]
    /\ UNCHANGED vars
-------------------------------------------------------------------------------
\* What the application does while a load is in flight ...
AnyTime ==
    \/ uhm_server_run
    \/ \E names \in DomainNames : uhm_server_set_expected_domain_names(names)
    \/ \E h \in Host : uhm_resolver_add_A(h)
    \/ \E b \in BOOLEAN : uhm_server_set_enable_online(b)

\* ... and what it does not.
BetweenLoads ==
    \/ uhm_server_stop
    \/ uhm_server_stop_joined
    \/ uhm_server_unload_trace
    \/ \E f \in File : uhm_server_load_trace(f)
    \/ uhm_server_load_trace_read
    \/ uhm_server_load_trace_asserts

Requests ==
    \E c \in Client :
        \/ Arrive(c)
        \/ \E r \in Request :
              /\ r \in OwnHandled \/ (~InFlight /\ ~load_error)
              /\ Send(c, r)

AsyncLoad ==
    \/ \E f \in File : uhm_server_load_trace_async(f)
    \/ load_file_stream_thread_cb
    \/ load_trace_async_cb
    \/ load_first_iteration_thread_cb
    \/ load_first_iteration_thread_cb_asserts
    \/ uhm_server_load_trace_finish
    \/ g_cancellable_cancel

AsyncNext ==
    \/ AsyncLoad
    \/ AnyTime /\ UNCHANGED load
    \/ ~InFlight /\ BetweenLoads /\ UNCHANGED load
    \/ Requests /\ UNCHANGED load
    \/ ServerThread /\ UNCHANGED load
    \/ Dead /\ UNCHANGED load

AsyncSpec == AsyncInit /\ [][AsyncNext]_allVars

\* The worker threads run, and so does the main loop of the application.
AsyncFairness ==
    /\ Fairness
    /\ WF_allVars(load_file_stream_thread_cb)
    /\ WF_allVars(load_trace_async_cb)
    /\ WF_allVars(load_first_iteration_thread_cb)
    /\ WF_allVars(uhm_server_load_trace_finish)

AsyncFairSpec == AsyncSpec /\ AsyncFairness
-------------------------------------------------------------------------------
(* Properties.                                                             *)

\* The callback of uhm_server_load_trace_async() is called, whatever failed
\* or was cancelled on the way, and uhm_server_load_trace_finish() leaves
\* nothing of the load behind.
AsyncLoadFinishes == InFlight ~> (~InFlight \/ aborted # "no")

\* A load that failed leaves a trace file, and maybe a stream, that no
\* request is answered from: for the clients nothing is loaded.  The stream
\* of one that did not is one pair ahead as soon as that pair is read.
AsyncFile == IF load_error THEN None ELSE trace_file
AsyncStreamAt == IF load.stream # None THEN load.stream ELSE input_stream
AsyncAhead == Ahead \/ load.result.kind = "message"

AsyncUsed ==
    IF AsyncFile = None \/ AsyncStreamAt = None THEN 0
    ELSE streams[AsyncStreamAt].pos - (IF AsyncAhead THEN 2 ELSE 1)

AsyncTorn ==
    /\ AsyncFile # None
    /\ AsyncStreamAt # None
    /\ \/ streams[AsyncStreamAt].framing \in {"half", "lost"}
       \/ input_stream # None /\ Torn

AsyncPlayback == INSTANCE TracePlayback WITH
    file <- AsyncFile,
    cursor <- AsyncUsed,
    torn <- AsyncTorn,
    asked <- request,
    answer <- Answers

\* With asynchronous loads too the server implements TracePlayback: the first
\* message stored by uhm_server_load_trace_finish() is the one the stream is
\* just behind, no pair is lost or used twice between the two worker threads
\* and the callbacks, and a load that failed or was cancelled at any point
\* plays nothing.
AsyncPlaysTraceBack == AsyncPlayback!Spec
-------------------------------------------------------------------------------
(* What the proofs of these add to them, as inductive invariants.          *)

\* A load in flight has a file, and a thread that reads its stream an open
\* one.
LoadHasStream ==
    /\ ~InFlight => load = NoLoad
    /\ InFlight => load.file \in File
    /\ load.step = "reading" => load.stream # None
    /\ load.stream # None => streams[load.stream].file \in File

\* A load that is in flight, or failed, is out of the clients' sight: their
\* requests are for handlers of the application.
NothingPlayed ==
    /\ trace_file # None
    /\ InFlight \/ load_error
    /\ pc = "idle" /\ app # "loading"
    /\ \A c \in Client :
          /\ state[c] # "handling"
          /\ Outstanding(c) => server /\ request[c] \in OwnHandled
    /\ ClientsWait
    /\ OnlyPostcondition

\* The stream of the load is at the start of its file, behind the pairs it
\* passed over, or behind the pair in its result as well.
LoadStreamInPlace ==
    load.stream # None =>
        LET stream == streams[load.stream]
            before == stream.pos - 1
            Passed(n) == \A i \in 1 .. n : Trace[trace_file][i] = StatusNone
        IN  /\ stream.file = trace_file
            /\ before <= Len(Trace[trace_file])
            /\ load.step = "opened" => stream = AtStart(trace_file)
            /\ load.step = "reading" =>
                  stream.framing = "aligned" /\ Passed(before)
            /\ load.result.kind \in {"message", "null"} =>
                  stream.framing = "aligned"
            /\ load.result.kind = "message" =>
                  /\ load.result.pos = before
                  /\ Trace[trace_file][before] \in Request

\* Until it is finished the load keeps the server's fields as they were when
\* it began, but for the stream, which is the one that is read.
AsyncLoadInPlace ==
    /\ ~load_error /\ next_message = None
    /\ load.file = trace_file
    /\ load.based \/ "load_before_run" \in Usage
    /\ load.result.kind # "none" <=> load.step = "read"
    /\ load.step = "opening" => load.stream = None
    /\ load.step \in {"opening", "opened"} => input_stream = None
    /\ load.step = "reading" => input_stream = load.stream
    /\ input_stream \in {None, load.stream}
    /\ load.result.kind \in {"message", "null"} => input_stream # None
    /\ LoadStreamInPlace

\* No load is in flight or to be cleared away, and every pair is in its place.
Settled ==
    /\ ~InFlight
    /\ load_error => trace_file = None
    /\ Disciplined /\ InPlace

\* A load is, and it is in its place.
Unplayed ==
    /\ NothingPlayed
    /\ Lifecycle /\ ReadersHaveStreams
    /\ InFlight => AsyncLoadInPlace

AsyncInPlace == Settled \/ Unplayed
===============================================================================
