-------------------------- MODULE UhmAsyncLoadProofs --------------------------
(***************************************************************************)
(* Theorems about UhmAsyncLoad, for any traces and any number of clients:  *)
(* uhm_server_load_trace_async() keeps what holds without it.              *)
(***************************************************************************)
EXTENDS UhmAsyncLoad, UhmServerPlayback

\* A step of UhmServer gives a stream no other file than it had or one that
\* is loaded.
LEMMA StreamsKeepFile ==
    ASSUME TypeInv, [Next]_vars, NEW s \in Stream, streams[s].file \in File
    PROVE  streams'[s].file \in File
<1> DEFINE Kept == streams'[s].file \in File
<1>1. CASE streams' = streams
  BY <1>1
<1>2. ASSUME NEW f \in File, uhm_server_load_trace(f) PROVE Kept
  <2>1. CASE streams' = streams
    BY <2>1
  <2>2. ASSUME NEW t \in Stream, streams' = [streams EXCEPT ![t] = AtStart(f)]
        PROVE  Kept
    BY <2>2 DEF TypeInv, TypeOK, ProcessTypeOK, AtStart
  <2>3. QED
    BY <1>2, <2>1, <2>2 DEF uhm_server_load_trace
<1>3. ASSUME NEW t \in Stream, NEW result \in Results(t),
             load_file_iteration(t, result)
      PROVE  Kept
  BY <1>3, IterationType DEF TypeInv
<1>4. CASE uhm_server_load_trace_read
  <2>1. input_stream \in Stream
    BY <1>4
    DEF uhm_server_load_trace_read, AppAt, TypeInv, TypeOK, FieldsTypeOK,
        ReadersHaveStreams
  <2>2. QED
    BY <1>3, <1>4, <2>1 DEF uhm_server_load_trace_read
<1>5. CASE load_file_iteration_thread_cb
  <2>1. task_stream \in Stream
    BY <1>5
    DEF load_file_iteration_thread_cb, ServerAt, TypeInv, TypeOK,
        RequestTypeOK, ReadersHaveStreams
  <2>2. QED
    BY <1>3, <1>5, <2>1 DEF load_file_iteration_thread_cb
<1>6. CASE Application
  <2>1. \/ streams' = streams
        \/ uhm_server_load_trace_read
        \/ \E f \in File : uhm_server_load_trace(f)
    BY <1>6
    DEF Application, uhm_server_run, uhm_server_stop, uhm_server_stop_joined,
        uhm_server_unload_trace, uhm_server_load_trace_asserts,
        load_file_iteration_asserts, Abort,
        uhm_server_set_expected_domain_names, uhm_resolver_add_A,
        uhm_server_set_enable_online
  <2>2. QED
    BY <1>1, <1>2, <1>4, <2>1
<1>7. CASE Network \/ Dead
  BY <1>1, <1>7 DEF Network, Arrive, Send, Dead, vars
<1>8. CASE ServerThread
  <2>1. streams' = streams \/ load_file_iteration_thread_cb
    BY <1>8
    DEF ServerThread, Dispatch, Handle, server_handler_cb,
        server_handler_cb_own, server_handler_cb_asserts, Abort,
        load_file_iteration_thread_cb_asserts, load_file_iteration_asserts,
        real_handle_message, server_process_message,
        server_process_message_asserts, compare_incoming_message,
        compare_incoming_message_asserts, uri_get_path_query_crashes,
        server_thread_quit_cb
  <2>2. QED
    BY <1>1, <1>5, <2>1
<1>9. QED
  BY <1>1, <1>6, <1>7, <1>8 DEF Next, vars
-------------------------------------------------------------------------------
(* Types, whatever the application does.                                   *)

AsyncTypeInv == TypeInv /\ load \in Load /\ LoadHasStream

LEMMA NoLoadType == NoLoad \in Load /\ NoLoad.step = "none"
  BY
  DEF NoLoad, Load, LoadSteps, TaskResult, ResultKinds, NoResult

LEMMA ErrorType == Result("error", 0) \in TaskResult
  BY DEF Result, TaskResult, ResultKinds

\* An asynchronous load leaves the threads of the server and the clients
\* alone.
LEMMA AsyncCallType ==
    ASSUME AsyncTypeInv, NEW f \in File, uhm_server_load_trace_async(f)
    PROVE  AsyncTypeInv'
<1>1. load' = [NoLoad EXCEPT !.step = "opening", !.file = f, !.based = base_uri]
  BY DEF uhm_server_load_trace_async
<1>2. base_uri \in BOOLEAN
  BY DEF base_uri, AsyncTypeInv, TypeInv, TypeOK, FieldsTypeOK
<1>3. load' \in Load /\ LoadHasStream'
  BY <1>1, <1>2
  DEF Load, LoadSteps, NoLoad, TaskResult, ResultKinds, NoResult, InFlight,
      LoadHasStream
<1>4. FieldsTypeOK'
  BY
  DEF uhm_server_load_trace_async, AsyncTypeInv, TypeInv, TypeOK, FieldsTypeOK,
      threadVars
<1>5. /\ UNCHANGED <<default_resolver, app, streams, aborted, handlerVars,
                     clientVars, threadVars>>
      /\ app = "idle" /\ trace_file' = f /\ input_stream' = None
      /\ load_error' = FALSE
  BY DEF uhm_server_load_trace_async, AppAt
<1>6. ProcessTypeOK' /\ RequestTypeOK'
  <2>1. ProcessTypeOK'
    BY <1>5
    DEF AsyncTypeInv, TypeInv, TypeOK, ProcessTypeOK, threadVars
  <2>2. RequestTypeOK'
    BY <1>5
    DEF AsyncTypeInv, TypeInv, TypeOK, RequestTypeOK, handlerVars, clientVars
  <2>3. QED
    BY <2>1, <2>2
<1>7. ReadersHaveStreams'
  BY <1>5
  DEF AsyncTypeInv, TypeInv, ReadersHaveStreams, handlerVars
<1>8. QED
  BY <1>3, <1>4, <1>6, <1>7 DEF AsyncTypeInv, TypeInv, TypeOK

LEMMA AsyncOpenType ==
    ASSUME AsyncTypeInv, load_file_stream_thread_cb
    PROVE  AsyncTypeInv'
<1>1. load.step = "opening" /\ load.file \in File
  BY DEF load_file_stream_thread_cb, AsyncTypeInv, LoadHasStream, InFlight
<1>2. UNCHANGED <<traceVars, appVars, handlerVars, clientVars, threadVars,
                  resolver, aborted>>
  BY DEF load_file_stream_thread_cb
<1>3. ASSUME load' = [load EXCEPT !.step = "opened"], UNCHANGED streams
      PROVE  AsyncTypeInv'
  <2>1. load' \in Load /\ LoadHasStream'
    BY <1>1, <1>3
    DEF AsyncTypeInv, LoadHasStream, Load, LoadSteps, InFlight
  <2>2. TypeInv'
    BY <1>2, <1>3, TypeNext
    DEF AsyncTypeInv, vars, traceVars, appVars, handlerVars, clientVars,
        threadVars
  <2>3. QED
    BY <2>1, <2>2 DEF AsyncTypeInv
<1>4. ASSUME NEW s \in Stream \ {input_stream, task_stream},
             streams' = [streams EXCEPT ![s] = AtStart(load.file)],
             load' = [load EXCEPT !.step = "opened", !.stream = s]
      PROVE  AsyncTypeInv'
  <2>1. AtStart(load.file) \in StreamState /\ AtStart(load.file).file = load.file
    BY <1>1 DEF AtStart, StreamState, Framing
  <2>2. /\ streams' \in [Stream -> StreamState]
        /\ streams'[s].file = load.file
        /\ \A t \in Stream \ {s} : streams'[t] = streams[t]
    BY <1>4, <2>1 DEF AsyncTypeInv, TypeInv, TypeOK, ProcessTypeOK
  <2>3. load' \in Load /\ LoadHasStream'
    BY <1>1, <1>4, <2>2
    DEF AsyncTypeInv, LoadHasStream, Load, LoadSteps, InFlight
  <2>4. FieldsTypeOK' /\ RequestTypeOK'
    BY <1>2
    DEF AsyncTypeInv, TypeInv, TypeOK, FieldsTypeOK, RequestTypeOK, traceVars,
        appVars, handlerVars, clientVars, threadVars
  <2>5. ProcessTypeOK'
    BY <1>2, <2>2
    DEF AsyncTypeInv, TypeInv, TypeOK, ProcessTypeOK, appVars, threadVars
  <2>6. ReadersHaveStreams'
    BY <1>2, <1>4, <2>2
    DEF AsyncTypeInv, TypeInv, TypeOK, FieldsTypeOK, RequestTypeOK,
        ReadersHaveStreams, traceVars, appVars, handlerVars
  <2>7. QED
    BY <2>3, <2>4, <2>5, <2>6 DEF AsyncTypeInv, TypeInv, TypeOK
<1>5. QED
  BY <1>3, <1>4 DEF load_file_stream_thread_cb

LEMMA AsyncOpenedType ==
    ASSUME AsyncTypeInv, load_trace_async_cb
    PROVE  AsyncTypeInv'
<1>1. /\ Opened \in Stream \cup {None}
      /\ Opened # None => load.stream = Opened
      /\ load.step = "opened" /\ load.file \in File
  BY
  DEF load_trace_async_cb, Opened, AsyncTypeInv, Load, LoadHasStream, InFlight
<1>2. /\ load' \in Load
      /\ load'.stream = load.stream /\ load'.file = load.file
      /\ load'.step \in {"read", "reading"}
      /\ load'.step = "reading" => load.stream # None
  BY <1>1, ErrorType DEF load_trace_async_cb, forward, AsyncTypeInv, Load, LoadSteps
<1>3. LoadHasStream'
  BY <1>1, <1>2
  DEF load_trace_async_cb, LoadHasStream, AsyncTypeInv, InFlight
<1>4. FieldsTypeOK'
  BY <1>1
  DEF load_trace_async_cb, AsyncTypeInv, TypeInv, TypeOK, FieldsTypeOK, appVars,
      threadVars
<1>5. ProcessTypeOK' /\ RequestTypeOK'
  BY
  DEF load_trace_async_cb, AsyncTypeInv, TypeInv, TypeOK, ProcessTypeOK,
      RequestTypeOK, appVars, handlerVars, clientVars, threadVars
<1>6. ReadersHaveStreams'
  BY <1>1
  DEF load_trace_async_cb, AppAt, AsyncTypeInv, LoadHasStream, TypeInv,
      ReadersHaveStreams, appVars, handlerVars
<1>7. QED
  BY <1>2, <1>3, <1>4, <1>5, <1>6 DEF AsyncTypeInv, TypeInv, TypeOK

LEMMA AsyncReadType ==
    ASSUME AsyncTypeInv, load_first_iteration_thread_cb
    PROVE  AsyncTypeInv'
<1>1. /\ load.step = "reading" /\ load.stream \in Stream
      /\ load.file \in File /\ streams[load.stream].file \in File
  BY
  DEF load_first_iteration_thread_cb, AsyncTypeInv, Load, LoadHasStream,
      InFlight
<1>2. PICK result \in Results(load.stream) :
          /\ load_file_iteration(load.stream, result)
          /\ load' = IF result = NoResult THEN load
                     ELSE [load EXCEPT !.step = "read", !.result = result]
  BY DEF load_first_iteration_thread_cb
<1>3. /\ result \in TaskResult
      /\ streams' \in [Stream -> StreamState]
      /\ \A s \in Stream : streams'[s].file = streams[s].file
  BY <1>1, <1>2, IterationType DEF AsyncTypeInv, TypeInv
<1>4. load' \in Load /\ LoadHasStream'
  BY <1>1, <1>2, <1>3
  DEF AsyncTypeInv, Load, LoadSteps, LoadHasStream, InFlight
<1>5. UNCHANGED <<traceVars, appVars, handlerVars, clientVars, threadVars,
                  resolver, aborted>>
  BY DEF load_first_iteration_thread_cb
<1>6. FieldsTypeOK' /\ RequestTypeOK'
  BY <1>5
  DEF AsyncTypeInv, TypeInv, TypeOK, FieldsTypeOK, RequestTypeOK, traceVars,
      appVars, handlerVars, clientVars, threadVars
<1>7. ProcessTypeOK'
  BY <1>3, <1>5
  DEF AsyncTypeInv, TypeInv, TypeOK, ProcessTypeOK, appVars, threadVars
<1>8. ReadersHaveStreams'
  BY <1>3, <1>5
  DEF AsyncTypeInv, TypeInv, TypeOK, FieldsTypeOK, RequestTypeOK,
      ReadersHaveStreams, traceVars, appVars, handlerVars
<1>9. QED
  BY <1>4, <1>6, <1>7, <1>8 DEF AsyncTypeInv, TypeInv, TypeOK

LEMMA AsyncFinishType ==
    ASSUME AsyncTypeInv, uhm_server_load_trace_finish
    PROVE  AsyncTypeInv'
<1>1. load.file \in File /\ load.based \in BOOLEAN /\ First \in TaskResult
  BY ErrorType
  DEF uhm_server_load_trace_finish, AsyncTypeInv, Load, LoadHasStream, InFlight,
      First
<1>2. first_message \in Message \cup {None}
  BY <1>1 DEF first_message, Message, TaskResult
<1>3. (First.kind = "error") \in BOOLEAN
  OBVIOUS
<1>4. FieldsTypeOK'
  BY <1>2
  DEF uhm_server_load_trace_finish, AsyncTypeInv, TypeInv, TypeOK, FieldsTypeOK,
      threadVars
<1>5. ProcessTypeOK'
  BY <1>3
  DEF uhm_server_load_trace_finish, AsyncTypeInv, TypeInv, TypeOK,
      ProcessTypeOK, threadVars
<1>6. RequestTypeOK' /\ ReadersHaveStreams'
  BY
  DEF uhm_server_load_trace_finish, AppAt, AsyncTypeInv, TypeInv, TypeOK,
      RequestTypeOK, ReadersHaveStreams, handlerVars, clientVars
<1>7. load' \in Load /\ LoadHasStream'
  BY NoLoadType
  DEF uhm_server_load_trace_finish, LoadHasStream, InFlight, NoLoad
<1>8. QED
  BY <1>4, <1>5, <1>6, <1>7 DEF AsyncTypeInv, TypeInv, TypeOK

LEMMA AsyncLoadType ==
    ASSUME AsyncTypeInv, AsyncLoad
    PROVE  AsyncTypeInv'
<1>1. CASE load_first_iteration_thread_cb_asserts
  <2>1. TypeInv'
    BY <1>1, AbortType
    DEF load_first_iteration_thread_cb_asserts, load_file_iteration_asserts,
        AsyncTypeInv
  <2>2. UNCHANGED <<load, streams>>
    BY <1>1
    DEF load_first_iteration_thread_cb_asserts, load_file_iteration_asserts,
        Abort
  <2>3. QED
    BY <2>1, <2>2 DEF AsyncTypeInv, LoadHasStream, InFlight
<1>2. CASE g_cancellable_cancel
  <2>1. TypeInv'
    BY <1>2, TypeNext DEF g_cancellable_cancel, AsyncTypeInv
  <2>2. load' \in Load /\ LoadHasStream'
    BY <1>2
    DEF g_cancellable_cancel, AsyncTypeInv, Load, LoadHasStream, InFlight, vars
  <2>3. QED
    BY <2>1, <2>2 DEF AsyncTypeInv
<1>3. QED
  BY <1>1, <1>2, AsyncCallType, AsyncOpenType, AsyncOpenedType, AsyncReadType,
     AsyncFinishType
  DEF AsyncLoad

\* The other steps are steps of UhmServer.
LEMMA AsyncSteps ==
    ASSUME [AsyncNext]_allVars
    PROVE  AsyncLoad \/ (load' = load /\ [Next]_vars)
  BY
  DEF AsyncNext, AnyTime, BetweenLoads, Requests, Next, Application, Network,
      allVars

LEMMA AsyncTypeNext ==
    ASSUME AsyncTypeInv, [AsyncNext]_allVars
    PROVE  AsyncTypeInv'
<1>1. CASE load' = load /\ [Next]_vars
  <2>1. TypeInv'
    BY <1>1, TypeNext DEF AsyncTypeInv
  <2>2. load.stream # None => streams'[load.stream].file \in File
    BY <1>1, StreamsKeepFile DEF AsyncTypeInv, Load, LoadHasStream
  <2>3. QED
    BY <1>1, <2>1, <2>2 DEF AsyncTypeInv, LoadHasStream, InFlight
<1>2. QED
  BY <1>1, AsyncSteps, AsyncLoadType

\* Whatever the application does, fails or cancels, every variable keeps its
\* type: no worker thread reads without a stream and no message is stored
\* without a file.
THEOREM AsyncTypeCorrect == AsyncSpec => []AsyncTypeOK
<1>1. AsyncInit => AsyncTypeInv
  <2>1. AsyncInit => TypeInv
    BY TypeInit DEF AsyncInit, Init, TypeInv, ReadersHaveStreams
  <2>2. QED
    BY <2>1, NoLoadType
    DEF AsyncInit, AsyncTypeInv, LoadHasStream, InFlight, NoLoad
<1>2. AsyncTypeInv => AsyncTypeOK
  BY DEF AsyncTypeInv, TypeInv, AsyncTypeOK
<1>3. AsyncTypeInv /\ [AsyncNext]_allVars => AsyncTypeInv'
  BY AsyncTypeNext
<1>4. QED
  BY <1>1, <1>2, <1>3, PTL DEF AsyncSpec
-------------------------------------------------------------------------------
(* Between the threads of an asynchronous load.                            *)

AsyncInv == AsyncTypeInv /\ AsyncInPlace

LEMMA UnplayedKept ==
    ASSUME Unplayed, Lifecycle', ReadersHaveStreams',
           UNCHANGED <<load, trace_file, input_stream, next_message, load_error,
                       streams, pc, state, request, aborted>>,
           app' # "loading",
           server => server'
    PROVE  Unplayed'
<1>1. NothingPlayed'
  BY
  DEF Unplayed, NothingPlayed, InFlight, Outstanding, ClientsWait,
      OnlyPostcondition
<1>2. InFlight' => AsyncLoadInPlace'
  BY DEF Unplayed, InFlight, AsyncLoadInPlace, LoadStreamInPlace
<1>3. QED
  BY <1>1, <1>2 DEF Unplayed

\* Only its hosts file makes a synchronous load fail with a trace.
LEMMA SettledReads ==
    ASSUME load_error => trace_file = None, [Next]_vars,
           load_error', trace_file' # None
    PROVE  uhm_server_load_trace_read
<1>1. CASE UNCHANGED <<load_error, trace_file>>
  BY <1>1
<1>2. CASE Application
  BY <1>1, <1>2
  DEF Application, uhm_server_run, uhm_server_stop, uhm_server_stop_joined,
      uhm_server_unload_trace, unload_trace, uhm_server_load_trace,
      uhm_server_load_trace_asserts, load_file_iteration_asserts, Abort,
      uhm_server_set_expected_domain_names, uhm_resolver_add_A,
      uhm_server_set_enable_online, traceVars, appVars
<1>3. CASE Network \/ Dead \/ UNCHANGED vars
  BY <1>1, <1>3 DEF Network, Arrive, Send, Dead, vars, traceVars, appVars
<1>4. CASE ServerThread
  BY <1>1, <1>4
  DEF ServerThread, Dispatch, Handle, server_handler_cb,
      server_handler_cb_own, server_handler_cb_asserts, Abort,
      load_file_iteration_thread_cb, load_file_iteration_thread_cb_asserts,
      load_file_iteration_asserts, real_handle_message,
      server_process_message, server_process_message_asserts,
      compare_incoming_message, compare_incoming_message_asserts,
      uri_get_path_query_crashes, server_thread_quit_cb, traceVars, appVars
<1>5. QED
  BY <1>2, <1>3, <1>4 DEF Next

\* What UhmServer does while every pair is in its place: it stays there, or a
\* synchronous load fails with its hosts file.
LEMMA SettledStep ==
    ASSUME Orderly, AsyncTypeInv, Settled, load' = load, [Next]_vars
    PROVE  AsyncInPlace'
<1>1. PlaybackInv /\ PlaybackInv' /\ ~InFlight'
  BY PlaybackInvariant
  DEF Settled, PlaybackInv, AsyncTypeInv, TypeInv, InFlight
<1>2. CASE load_error' => trace_file' = None
  BY <1>1, <1>2 DEF AsyncInPlace, Settled, PlaybackInv
<1>3. ASSUME load_error', trace_file' # None, uhm_server_load_trace_read
      PROVE  Unplayed'
  <2>1. app = "loading" /\ trace_file # None /\ ~load_error /\ pc = "idle"
    BY <1>1, <1>3, LoadIsAlone
    DEF uhm_server_load_trace_read, AppAt, PlaybackInv, Settled
  <2>2. /\ app' = "idle" /\ aborted' = "no"
        /\ UNCHANGED <<server, pc, state, request>>
    BY <1>3, <2>1
    DEF uhm_server_load_trace_read, AppAt, handlerVars, clientVars
  <2>3. \A c \in Client :
            /\ state[c] # "handling"
            /\ Outstanding(c) => server /\ request[c] \in OwnHandled
    BY <2>1
    DEF Settled, Disciplined, InHand, OneRequestInHand, TraceStaysLoaded
  <2>4. NothingPlayed'
    BY <1>1, <1>3, <2>1, <2>2, <2>3
    DEF NothingPlayed, Outstanding, PlaybackInv, InPlace, OnlyPostcondition
  <2>5. QED
    BY <1>1, <2>4 DEF Unplayed, PlaybackInv, Disciplined
<1>4. QED
  BY <1>2, <1>3, SettledReads DEF AsyncInPlace, Settled

\* The load that failed is cleared away.
LEMMA ClearedAway ==
    ASSUME TypeInv', Lifecycle', ~InFlight',
           Unplayed,
           unload_trace, UNCHANGED <<pc, aborted>>,
           \/ /\ UNCHANGED <<state, request>>
              /\ \A c \in Client : ~Outstanding(c)
           \/ \A c \in Client : ~Outstanding(c)' /\ request'[c] = None
    PROVE  Settled'
<1>1. /\ pc' = "idle" /\ trace_file' = None /\ input_stream' = None
      /\ next_message' = None /\ ~load_error'
  BY DEF unload_trace, Unplayed, NothingPlayed
<1>2. \A c \in Client : ~Outstanding(c)' /\ request'[c] = None
  BY DEF Unplayed, NothingPlayed, ClientsWait, Outstanding
<1>3. InPlace'
  BY <1>1, <1>2 DEF InPlace, StreamInPlace, PairInPlace, ClientsWait
<1>4. app' # "loading"
  BY <1>1 DEF TypeInv, ReadersHaveStreams
<1>5. InHand'
  BY <1>1, <1>2, <1>4
  DEF InHand, OneRequestInHand, TraceStaysLoaded, OnlyPostcondition,
      OnlyKnownCrashes, Outstanding, Unplayed, NothingPlayed
<1>6. QED
  BY <1>1, <1>3, <1>5 DEF Settled, Disciplined, TypeInv

\* What UhmServer does while a load is in flight or has failed.
LEMMA UnplayedStep ==
    ASSUME Orderly, AsyncTypeInv, AsyncTypeInv', Unplayed,
           load' = load,
           \/ AnyTime
           \/ ~InFlight /\ BetweenLoads
           \/ Requests
           \/ ServerThread
           \/ Dead
           \/ UNCHANGED vars
    PROVE  AsyncInPlace'
<1>1. [Next]_vars
  BY
  DEF AnyTime, BetweenLoads, Requests, Next, Application, Network
<1>2. /\ TypeInv' /\ ReadersHaveStreams' /\ Lifecycle'
  BY <1>1, LifecycleNext DEF AsyncTypeInv, TypeInv, Unplayed
<1>3. /\ pc = "idle" /\ app # "loading" /\ trace_file # None
      /\ \A c \in Client :
            /\ state[c] # "handling"
            /\ Outstanding(c) => server /\ request[c] \in OwnHandled
  BY DEF Unplayed, NothingPlayed
<1>4. CASE AnyTime
  <2>1. /\ UNCHANGED <<trace_file, input_stream, next_message, load_error,
                       streams, pc, state, request, aborted, app>>
        /\ server => server'
    BY <1>4
    DEF AnyTime, uhm_server_run, uhm_server_set_expected_domain_names,
        uhm_resolver_add_A, uhm_server_set_enable_online, traceVars,
        handlerVars, clientVars, appVars
  <2>2. QED
    BY <1>2, <1>3, <2>1, UnplayedKept DEF AsyncInPlace
<1>5. CASE ~InFlight /\ BetweenLoads
  <2>1. CASE uhm_server_stop
    BY <1>2, <2>1, UnplayedKept
    DEF uhm_server_stop, AsyncInPlace, traceVars, handlerVars, clientVars
  <2>2. CASE uhm_server_stop_joined
    <3>1. /\ unload_trace /\ UNCHANGED <<pc, aborted>>
          /\ \A c \in Client : ~Outstanding(c)' /\ request'[c] = None
      BY <2>2
      DEF uhm_server_stop_joined, Outstanding, AsyncTypeInv, TypeInv, TypeOK,
          RequestTypeOK, handlerVars
    <3>2. QED
      BY <1>2, <1>5, <3>1, ClearedAway DEF InFlight, AsyncInPlace
  <2>3. CASE uhm_server_unload_trace
    <3>1. /\ unload_trace
          /\ UNCHANGED <<pc, aborted, state, request>>
          /\ \A c \in Client : ~Outstanding(c)
      BY <2>3 DEF Orderly, uhm_server_unload_trace, Calm, handlerVars, clientVars
    <3>2. QED
      BY <1>2, <1>5, <3>1, ClearedAway DEF InFlight, AsyncInPlace
  <2>4. QED
    BY <1>3, <1>5, <2>1, <2>2, <2>3
    DEF BetweenLoads, uhm_server_load_trace, uhm_server_load_trace_read,
        uhm_server_load_trace_asserts, AppAt
<1>6. CASE Requests
  <2>1. PICK c \in Client :
           \/ Arrive(c)
           \/ \E r \in Request :
                 /\ r \in OwnHandled \/ (~InFlight /\ ~load_error)
                 /\ Send(c, r)
    BY <1>6 DEF Requests
  <2>2. UNCHANGED <<load, traceVars, appVars, handlerVars, streams, aborted>>
    BY <2>1 DEF Arrive, Send
  <2>3. /\ \A d \in Client :
              /\ state'[d] # "handling"
              /\ Outstanding(d)' => server' /\ request'[d] \in OwnHandled
        /\ ClientsWait'
    <3>1. CASE Arrive(c)
      BY <1>3, <3>1
      DEF Arrive, Outstanding, Unplayed, NothingPlayed, ClientsWait,
          AsyncTypeInv, TypeInv, TypeOK, RequestTypeOK, appVars
    <3>2. ASSUME NEW r \in OwnHandled, r \in Request, Send(c, r)
          PROVE  /\ \A d \in Client :
                       /\ state'[d] # "handling"
                       /\ Outstanding(d)' => server' /\ request'[d] \in OwnHandled
                 /\ ClientsWait'
      BY <1>3, <3>2, ServerAssumption
      DEF Send, Outstanding, Unplayed, NothingPlayed, ClientsWait,
          AsyncTypeInv, TypeInv, TypeOK, RequestTypeOK, appVars
    <3>3. QED
      BY <2>1, <3>1, <3>2 DEF Unplayed, NothingPlayed
  <2>4. NothingPlayed'
    BY <2>2, <2>3
    DEF Unplayed, NothingPlayed, InFlight, OnlyPostcondition, traceVars, appVars,
        handlerVars
  <2>5. InFlight' => AsyncLoadInPlace'
    BY <2>2
    DEF Unplayed, InFlight, AsyncLoadInPlace, LoadStreamInPlace, traceVars,
        appVars
  <2>6. QED
    BY <1>2, <2>4, <2>5 DEF Unplayed, AsyncInPlace
<1>7. CASE ServerThread
  <2>1. ASSUME NEW c \in Client, server_handler_cb_own(c) PROVE Unplayed'
    <3>1. /\ UNCHANGED <<load, traceVars, appVars, streams, aborted>>
          /\ Respond(c, "own", None)
      BY <2>1 DEF server_handler_cb_own
    <3>2. /\ \A d \in Client :
                /\ state'[d] # "handling"
                /\ Outstanding(d)' => server' /\ request'[d] \in OwnHandled
          /\ ClientsWait'
      BY <1>3, <3>1
      DEF Respond, Outstanding, Unplayed, NothingPlayed, ClientsWait,
          AsyncTypeInv, TypeInv, TypeOK, RequestTypeOK, appVars
    <3>3. NothingPlayed'
      BY <3>1, <3>2
      DEF Respond, Unplayed, NothingPlayed, InFlight, OnlyPostcondition,
          traceVars, appVars
    <3>4. InFlight' => AsyncLoadInPlace'
      BY <3>1
      DEF Unplayed, InFlight, AsyncLoadInPlace, LoadStreamInPlace, traceVars,
          appVars
    <3>5. QED
      BY <1>2, <3>3, <3>4 DEF Unplayed
  <2>2. CASE server_thread_quit_cb
    BY <1>2, <1>3, <2>2, UnplayedKept
    DEF server_thread_quit_cb, traceVars, appVars, handlerVars, clientVars,
      AsyncInPlace
  <2>3. \A c \in Client :
            ~server_handler_cb(c) /\ ~server_handler_cb_asserts(c)
    BY <1>3 DEF server_handler_cb, server_handler_cb_asserts, Outstanding
  <2>4. ~Handle
    BY <1>3
    DEF Handle, load_file_iteration_thread_cb, ServerAt,
        load_file_iteration_thread_cb_asserts, real_handle_message,
        server_process_message, server_process_message_asserts,
        compare_incoming_message, compare_incoming_message_asserts,
        uri_get_path_query_crashes
  <2>5. QED
    BY <1>7, <2>1, <2>2, <2>3, <2>4 DEF ServerThread, Dispatch, AsyncInPlace
<1>8. CASE UNCHANGED vars
  BY <1>2, <1>3, <1>8, UnplayedKept
  DEF vars, traceVars, appVars, handlerVars, clientVars, AsyncInPlace
<1>9. QED
  BY <1>4, <1>5, <1>6, <1>7, <1>8 DEF Dead

\* The steps of the load.  They leave what the clients see alone.
LEMMA NothingPlayedKept ==
    ASSUME NothingPlayed, trace_file' # None, InFlight' \/ load_error',
           UNCHANGED <<app, server, pc, state, request, aborted>>
    PROVE  NothingPlayed'
  BY DEF NothingPlayed, ClientsWait, Outstanding, OnlyPostcondition

LEMMA AsyncCallInPlace ==
    ASSUME Orderly, AsyncInv, AsyncTypeInv', NEW f \in File,
           uhm_server_load_trace_async(f)
    PROVE  Unplayed'
<1>1. /\ trace_file = None /\ input_stream = None /\ next_message = None
      /\ trace_file' = f /\ input_stream' = None /\ next_message' = None
      /\ base_uri \/ "load_before_run" \in Usage
      /\ ~load_error' /\ app = "idle" /\ aborted = "no"
      /\ UNCHANGED <<server, app, pc, state, request, aborted, quit_source,
                     server_thread>>
      /\ \A c \in Client : ~Outstanding(c)
  BY
  DEF Orderly, uhm_server_load_trace_async, AppAt, Calm, base_uri, handlerVars,
      clientVars, threadVars
<1>2. Settled /\ f # None
  BY <1>1, TraceAssumption DEF AsyncInv, AsyncInPlace, Unplayed, NothingPlayed
<1>3. pc = "idle"
  BY <1>1, <1>2, CalmIsIdle DEF Settled, Disciplined, InHand, Calm
<1>4. load' = [NoLoad EXCEPT !.step = "opening", !.file = f, !.based = base_uri]
  BY DEF uhm_server_load_trace_async
<1>5. /\ load'.step = "opening" /\ load'.file = f
      /\ load'.based \/ "load_before_run" \in Usage
      /\ load'.stream = None /\ load'.result = NoResult
  BY <1>1, <1>4 DEF NoLoad
<1>6. NothingPlayed'
  BY <1>1, <1>2, <1>3, <1>5
  DEF NothingPlayed, InFlight, Outstanding, Settled, InPlace, ClientsWait,
      OnlyPostcondition
<1>7. AsyncLoadInPlace'
  BY <1>1, <1>5 DEF AsyncLoadInPlace, LoadStreamInPlace, NoResult
<1>8. Lifecycle' /\ ReadersHaveStreams'
  BY <1>1, <1>2 DEF Lifecycle, Settled, Disciplined, AsyncTypeInv, TypeInv
<1>9. QED
  BY <1>6, <1>7, <1>8 DEF Unplayed

\* Where a load is in flight.
LEMMA InFlightInPlace ==
    ASSUME AsyncInv, InFlight
    PROVE  /\ Unplayed /\ AsyncLoadInPlace /\ trace_file \in File
           /\ Trace[trace_file] \in Seq(Entry)
           /\ Len(Trace[trace_file]) \in Nat
           /\ load \in Load
           /\ load.stream # None =>
                 /\ load.stream \in Stream
                 /\ streams[load.stream] \in StreamState
                 /\ streams[load.stream].pos \in Nat \ {0}
                 /\ streams[load.stream].file = trace_file
<1>1. Unplayed /\ AsyncLoadInPlace
  BY DEF AsyncInv, AsyncInPlace, Settled, Unplayed
<1>2. trace_file \in File /\ load \in Load
  BY <1>1
  DEF AsyncInv, AsyncTypeInv, LoadHasStream, AsyncLoadInPlace
<1>3. Trace[trace_file] \in Seq(Entry)
  BY <1>2, TraceAssumption
<1>4. ASSUME load.stream # None
      PROVE  /\ load.stream \in Stream
             /\ streams[load.stream] \in StreamState
             /\ streams[load.stream].pos \in Nat \ {0}
             /\ streams[load.stream].file = trace_file
  BY <1>1, <1>2, <1>4
  DEF Load, AsyncInv, AsyncTypeInv, TypeInv, TypeOK, ProcessTypeOK,
      StreamState, AsyncLoadInPlace, LoadStreamInPlace
<1>5. QED
  BY <1>1, <1>2, <1>3, <1>4

LEMMA AsyncOpenInPlace ==
    ASSUME AsyncInv, AsyncTypeInv', load_file_stream_thread_cb
    PROVE  Unplayed'
<1>1. /\ load.step = "opening" /\ InFlight
      /\ UNCHANGED <<traceVars, appVars, handlerVars, clientVars, threadVars,
                     aborted>>
  BY DEF load_file_stream_thread_cb, InFlight
<1>2. /\ Unplayed /\ AsyncLoadInPlace /\ load \in Load
      /\ trace_file \in File /\ Len(Trace[trace_file]) \in Nat
  BY <1>1, InFlightInPlace
<1>3. /\ load.stream = None /\ load.file = trace_file
      /\ load.result.kind = "none" /\ input_stream = None
      /\ trace_file # None
  BY <1>1, <1>2
  DEF AsyncLoadInPlace, Load, TaskResult, ResultKinds, Unplayed, NothingPlayed
<1>4. /\ load'.step = "opened" /\ load'.file = load.file
      /\ load'.based = load.based /\ load'.result = load.result
      /\ \/ load'.stream = None
         \/ /\ load'.stream \in Stream
            /\ streams'[load'.stream] = AtStart(load.file)
  BY <1>2, <1>3
  DEF load_file_stream_thread_cb, Load, AsyncInv, AsyncTypeInv, TypeInv,
      TypeOK, ProcessTypeOK
<1>5. LoadStreamInPlace'
  BY <1>1, <1>2, <1>3, <1>4 DEF LoadStreamInPlace, AtStart, traceVars
<1>6. AsyncLoadInPlace'
  BY <1>1, <1>2, <1>3, <1>4, <1>5
  DEF AsyncLoadInPlace, traceVars, appVars
<1>7. NothingPlayed'
  BY <1>1, <1>2, <1>3, <1>4, NothingPlayedKept
  DEF Unplayed, InFlight, traceVars, appVars, handlerVars, clientVars
<1>8. Lifecycle' /\ ReadersHaveStreams'
  BY <1>1, <1>2
  DEF Lifecycle, Unplayed, AsyncTypeInv, TypeInv, appVars, handlerVars,
      threadVars
<1>9. QED
  BY <1>6, <1>7, <1>8 DEF Unplayed

LEMMA AsyncOpenedInPlace ==
    ASSUME AsyncInv, AsyncTypeInv', load_trace_async_cb
    PROVE  Unplayed'
<1>1. /\ load.step = "opened" /\ InFlight
      /\ UNCHANGED <<trace_file, next_message, appVars, handlerVars,
                     clientVars, threadVars, streams, aborted>>
  BY DEF load_trace_async_cb, InFlight
<1>2. /\ Unplayed /\ AsyncLoadInPlace /\ load \in Load
      /\ trace_file \in File /\ Len(Trace[trace_file]) \in Nat
  BY <1>1, InFlightInPlace
<1>3. /\ load.result.kind = "none" /\ trace_file # None
      /\ Opened \in {load.stream, None}
  BY <1>1, <1>2
  DEF AsyncLoadInPlace, Load, TaskResult, ResultKinds, Unplayed, NothingPlayed,
      Opened
<1>4. /\ load'.file = load.file /\ load'.stream = load.stream
      /\ load'.based = load.based
      /\ input_stream' = Opened
      /\ \/ /\ Opened = None /\ load'.step = "read"
            /\ load'.result = Result("error", 0)
         \/ /\ Opened # None /\ load'.step = "reading"
            /\ load'.result = load.result
  BY <1>2 DEF load_trace_async_cb, forward, Load
<1>5. LoadStreamInPlace'
  <2>1. load.stream # None => streams[load.stream] = AtStart(trace_file)
    BY <1>1, <1>2 DEF AsyncLoadInPlace, LoadStreamInPlace
  <2>2. QED
    BY <1>1, <1>2, <1>3, <1>4, <2>1
    DEF LoadStreamInPlace, AtStart, Result
<1>6. AsyncLoadInPlace'
  BY <1>1, <1>2, <1>3, <1>4, <1>5
  DEF AsyncLoadInPlace, Result, appVars
<1>7. NothingPlayed'
  BY <1>1, <1>2, <1>3, <1>4, NothingPlayedKept
  DEF Unplayed, InFlight, appVars, handlerVars, clientVars
<1>8. Lifecycle' /\ ReadersHaveStreams'
  BY <1>1, <1>2
  DEF Lifecycle, Unplayed, AsyncTypeInv, TypeInv, appVars, handlerVars,
      threadVars
<1>9. QED
  BY <1>6, <1>7, <1>8 DEF Unplayed

\* What the second worker thread reads.
LEMMA AsyncReads ==
    ASSUME AsyncInv, InFlight, load.step = "reading",
           NEW result \in Results(load.stream),
           load_file_iteration(load.stream, result)
    PROVE  /\ input_stream = load.stream /\ input_stream \in Stream
           /\ streams'[input_stream].file = trace_file
           /\ EndReached(result) \/ ReadFailed(result) \/ PairRead(result)
<1>1. /\ Unplayed /\ AsyncLoadInPlace
      /\ trace_file \in File /\ Len(Trace[trace_file]) \in Nat
  BY InFlightInPlace
<1>2. /\ input_stream = load.stream /\ load.stream # None
      /\ pc = "idle" /\ TypeOK
  BY <1>1
  DEF AsyncLoadInPlace, AsyncInv, AsyncTypeInv, TypeInv, LoadHasStream,
      Unplayed, NothingPlayed
<1>3. /\ load.stream \in Stream
      /\ streams[load.stream].pos \in Nat \ {0}
      /\ streams[load.stream].file = trace_file
  BY <1>2, InFlightInPlace
<1>4. streams[load.stream].pos <= Len(Trace[trace_file]) + 1
  BY <1>1, <1>2, <1>3 DEF AsyncLoadInPlace, LoadStreamInPlace
<1>5. QED
  BY <1>1, <1>2, <1>3, <1>4, StreamReads DEF Racing

LEMMA AsyncReadInPlace ==
    ASSUME AsyncInv, AsyncTypeInv', load_first_iteration_thread_cb
    PROVE  Unplayed'
<1>1. /\ load.step = "reading" /\ InFlight
      /\ UNCHANGED <<traceVars, appVars, handlerVars, clientVars, threadVars,
                     aborted>>
  BY DEF load_first_iteration_thread_cb, InFlight
<1>2. PICK result \in Results(load.stream) :
          /\ load_file_iteration(load.stream, result)
          /\ load' = IF result = NoResult THEN load
                     ELSE [load EXCEPT !.step = "read", !.result = result]
  BY DEF load_first_iteration_thread_cb
<1>3. /\ Unplayed /\ AsyncLoadInPlace /\ load \in Load
      /\ trace_file \in File /\ Len(Trace[trace_file]) \in Nat
      /\ input_stream = load.stream /\ input_stream \in Stream
      /\ streams[input_stream].pos \in Nat \ {0}
      /\ streams'[input_stream].file = trace_file
      /\ EndReached(result) \/ ReadFailed(result) \/ PairRead(result)
  BY <1>1, <1>2, InFlightInPlace, AsyncReads, ServerAssumption
<1>4. /\ load.result.kind = "none" /\ trace_file # None /\ input_stream # None
      /\ streams[input_stream].framing = "aligned"
      /\ streams[input_stream].pos - 1 <= Len(Trace[trace_file])
      /\ \A i \in 1 .. streams[input_stream].pos - 1 :
            Trace[trace_file][i] = StatusNone
  BY <1>1, <1>3, ServerAssumption
  DEF AsyncLoadInPlace, Load, TaskResult, ResultKinds, Unplayed, NothingPlayed,
      LoadStreamInPlace
<1>5. /\ UNCHANGED <<trace_file, input_stream, next_message, load_error>>
      /\ load'.stream = load.stream /\ load'.file = load.file
      /\ load'.based = load.based
      /\ \/ /\ result = NoResult /\ load' = load
         \/ /\ result # NoResult
            /\ load'.step = "read" /\ load'.result = result
  BY <1>1, <1>2, <1>3 DEF Load, traceVars, appVars
<1>6. LoadStreamInPlace'
  <2>1. CASE EndReached(result)
    BY <1>3, <1>4, <1>5, <2>1
    DEF EndReached, LoadStreamInPlace, Result, NoResult
  <2>2. CASE ReadFailed(result)
    BY <1>3, <1>4, <1>5, <2>2
    DEF ReadFailed, LoadStreamInPlace, Result, NoResult
  <2>3. CASE PairRead(result)
    <3>1. /\ streams'[input_stream].framing = "aligned"
          /\ streams'[input_stream].pos = streams[input_stream].pos + 1
          /\ streams[input_stream].pos <= Len(Trace[trace_file])
      BY <1>4, <2>3 DEF PairRead
    <3>2. CASE result = NoResult
      <4>1. \A i \in 1 .. streams'[input_stream].pos - 1 :
                Trace[trace_file][i] = StatusNone
        BY <1>3, <1>4, <2>3, <3>1, <3>2 DEF PairRead, Result, NoResult
      <4>2. QED
        BY <1>1, <1>3, <1>4, <1>5, <3>1, <3>2, <4>1 DEF LoadStreamInPlace
    <3>3. CASE result # NoResult
      <4>1. /\ load'.step = "read" /\ load'.result = result
            /\ load'.stream = input_stream /\ trace_file' = trace_file
        BY <1>3, <1>5, <3>3
      <4>2. /\ result.pos = streams'[input_stream].pos - 1
            /\ result.kind = "message" => Trace[trace_file][result.pos] \in Request
        BY <1>3, <2>3, <3>1, <3>3 DEF PairRead, Result
      <4>3. QED
        BY <1>3, <3>1, <4>1, <4>2 DEF LoadStreamInPlace
    <3>4. QED
      BY <3>2, <3>3
  <2>4. QED
    BY <1>3, <2>1, <2>2, <2>3
<1>7. result # NoResult => result.kind # "none"
  BY <1>3 DEF EndReached, ReadFailed, PairRead, Result
<1>8. AsyncLoadInPlace'
  BY <1>1, <1>3, <1>4, <1>5, <1>6, <1>7 DEF AsyncLoadInPlace, traceVars, appVars
<1>9. NothingPlayed'
  BY <1>1, <1>3, <1>4, <1>5, NothingPlayedKept
  DEF Unplayed, InFlight, traceVars, appVars, handlerVars, clientVars
<1>10. Lifecycle' /\ ReadersHaveStreams'
  BY <1>1, <1>3
  DEF Lifecycle, Unplayed, AsyncTypeInv, TypeInv, appVars, handlerVars,
      threadVars
<1>11. QED
  BY <1>8, <1>9, <1>10 DEF Unplayed

\* What a load that is finished hands over.
LEMMA FinishedLoad ==
    ASSUME AsyncInv, uhm_server_load_trace_finish, First.kind # "error"
    PROVE  /\ First = load.result /\ First.kind \in {"message", "null"}
           /\ input_stream = load.stream /\ load.stream \in Stream
           /\ streams[input_stream].file = trace_file
           /\ streams[input_stream].pos \in Nat \ {0}
           /\ streams[input_stream].pos - 1 <= Len(Trace[trace_file])
           /\ streams[input_stream].framing = "aligned"
           /\ First.kind = "message" =>
                 /\ next_message' # None
                 /\ next_message'.file = trace_file
                 /\ next_message'.pos = streams[input_stream].pos - 1
                 /\ next_message'.based \/ "load_before_run" \in Usage
                 /\ Trace[trace_file][next_message'.pos] \in Request
           /\ First.kind # "message" => next_message' = None
<1>1. InFlight /\ load.step = "read" /\ next_message' = first_message
  BY DEF uhm_server_load_trace_finish, InFlight
<1>2. AsyncLoadInPlace /\ load \in Load /\ trace_file \in File
  BY <1>1, InFlightInPlace
<1>3. First = load.result
  BY DEF First, Result
<1>4. load.result \in TaskResult /\ First.kind \in {"message", "null"}
  BY <1>1, <1>2, <1>3 DEF AsyncLoadInPlace, Load, TaskResult, ResultKinds
<1>5. input_stream = load.stream /\ load.stream # None
  BY <1>2, <1>3, <1>4 DEF AsyncLoadInPlace
<1>6. /\ load.stream \in Stream
      /\ streams[load.stream].pos \in Nat \ {0}
      /\ streams[load.stream].file = trace_file
  BY <1>1, <1>5, InFlightInPlace
<1>7. /\ streams[input_stream].pos - 1 <= Len(Trace[trace_file])
      /\ streams[input_stream].framing = "aligned"
      /\ First.kind = "message" =>
            /\ First.pos = streams[input_stream].pos - 1
            /\ Trace[trace_file][First.pos] \in Request
  BY <1>2, <1>3, <1>4, <1>5 DEF AsyncLoadInPlace, LoadStreamInPlace
<1>8. first_message # None <=> First.kind = "message"
  <2>1. CASE First.kind = "message"
    <3>1. first_message \in Message
      BY <1>2, <1>3, <1>4, <2>1
      DEF first_message, Message, TaskResult, AsyncLoadInPlace, Load
    <3>2. QED
      BY <2>1, <3>1, MessageAssumption
  <2>2. CASE First.kind # "message"
    BY <2>2 DEF first_message
  <2>3. QED
    BY <2>1, <2>2
<1>9. QED
  BY <1>1, <1>2, <1>3, <1>4, <1>5, <1>6, <1>7, <1>8
  DEF first_message, AsyncLoadInPlace

LEMMA AsyncFinishInPlace ==
    ASSUME Orderly, AsyncInv, AsyncTypeInv', uhm_server_load_trace_finish
    PROVE  AsyncInPlace'
<1>1. /\ load.step = "read" /\ InFlight /\ ~InFlight'
      /\ load_error' = (First.kind = "error")
      /\ app = "idle" /\ aborted' = aborted
      /\ UNCHANGED <<trace_file, input_stream, server, app, handlerVars,
                     clientVars, threadVars, streams>>
  BY DEF uhm_server_load_trace_finish, AppAt, InFlight, NoLoad
<1>2. Unplayed /\ trace_file # None /\ pc = "idle"
  BY <1>1, InFlightInPlace DEF Unplayed, NothingPlayed
<1>3. Lifecycle' /\ ReadersHaveStreams'
  BY <1>1, <1>2
  DEF Lifecycle, Unplayed, AsyncTypeInv, TypeInv, handlerVars, threadVars
<1>4. CASE First.kind = "error"
  <2>1. NothingPlayed'
    BY <1>1, <1>2, <1>4, NothingPlayedKept
    DEF Unplayed, handlerVars, clientVars
  <2>2. QED
    BY <1>1, <1>3, <2>1 DEF Unplayed, AsyncInPlace
<1>5. CASE First.kind # "error"
  <2>1. /\ input_stream \in Stream /\ input_stream # None
        /\ streams[input_stream].file = trace_file
        /\ streams[input_stream].pos \in Nat
        /\ streams[input_stream].pos - 1 <= Len(Trace[trace_file])
        /\ streams[input_stream].framing = "aligned"
        /\ next_message' # None =>
              /\ next_message'.file = trace_file
              /\ next_message'.pos = streams[input_stream].pos - 1
              /\ next_message'.based \/ "load_before_run" \in Usage
              /\ Trace[trace_file][next_message'.pos] \in Request
    BY <1>5, FinishedLoad, ServerAssumption
  <2>2. Len(Trace[trace_file]) \in Nat
    BY <1>1, InFlightInPlace
  <2>3. StreamInPlace'
    BY <1>1, <2>1, <2>2 DEF StreamInPlace
  <2>4. PairInPlace' /\ ClientsWait'
    BY <1>1, <1>2, <2>1
    DEF PairInPlace, ReadLast, ClientsWait, Outstanding, Unplayed,
        NothingPlayed, handlerVars, clientVars
  <2>5. OneRequestInHand' /\ TraceStaysLoaded' /\ OnlyKnownCrashes'
    BY <1>1, <1>2, <2>1
    DEF OneRequestInHand, TraceStaysLoaded, OnlyPostcondition,
        OnlyKnownCrashes, Outstanding, Unplayed, NothingPlayed, handlerVars,
        clientVars
  <2>6. QED
    BY <1>1, <1>3, <1>5, <2>3, <2>4, <2>5
    DEF AsyncInPlace, Settled, Disciplined, InHand, InPlace
<1>6. QED
  BY <1>4, <1>5

LEMMA AsyncLoadStep ==
    ASSUME Orderly, AsyncInv, AsyncTypeInv', AsyncLoad
    PROVE  AsyncInPlace'
<1>1. CASE load_first_iteration_thread_cb_asserts
  <2>1. /\ load.step = "reading" /\ InFlight
        /\ aborted' = "load_file_iteration"
        /\ UNCHANGED <<load, traceVars, appVars, handlerVars, clientVars,
                       threadVars, streams>>
    BY <1>1
    DEF load_first_iteration_thread_cb_asserts, load_file_iteration_asserts,
        Abort, InFlight
  <2>2. Unplayed /\ AsyncLoadInPlace
    BY <2>1, InFlightInPlace
  <2>3. NothingPlayed'
    BY <2>1, <2>2
    DEF Unplayed, NothingPlayed, InFlight, Outstanding, ClientsWait,
        OnlyPostcondition, traceVars, appVars, handlerVars, clientVars
  <2>4. AsyncLoadInPlace'
    BY <2>1, <2>2 DEF AsyncLoadInPlace, LoadStreamInPlace, traceVars, appVars
  <2>5. Lifecycle' /\ ReadersHaveStreams'
    BY <2>1, <2>2
    DEF Lifecycle, Unplayed, AsyncTypeInv, TypeInv, appVars, handlerVars,
        threadVars
  <2>6. QED
    BY <2>3, <2>4, <2>5 DEF Unplayed, AsyncInPlace
<1>2. CASE g_cancellable_cancel
  <2>1. /\ InFlight /\ UNCHANGED vars
        /\ load' = [load EXCEPT !.cancelled = TRUE]
    BY <1>2 DEF g_cancellable_cancel
  <2>2. Unplayed /\ AsyncLoadInPlace /\ load \in Load
    BY <2>1, InFlightInPlace
  <2>3. /\ load'.step = load.step /\ load'.file = load.file
        /\ load'.stream = load.stream /\ load'.based = load.based
        /\ load'.result = load.result
    BY <2>1, <2>2 DEF Load
  <2>4. NothingPlayed'
    BY <2>1, <2>2, <2>3, NothingPlayedKept
    DEF Unplayed, NothingPlayed, InFlight, vars, traceVars, appVars,
        handlerVars, clientVars
  <2>5. AsyncLoadInPlace'
    BY <2>1, <2>2, <2>3
    DEF AsyncLoadInPlace, LoadStreamInPlace, vars, traceVars, appVars
  <2>6. Lifecycle' /\ ReadersHaveStreams'
    BY <2>1, <2>2
    DEF Lifecycle, Unplayed, ReadersHaveStreams, vars, traceVars, appVars,
        handlerVars, threadVars
  <2>7. QED
    BY <2>4, <2>5, <2>6 DEF Unplayed, AsyncInPlace
<1>3. QED
  BY <1>1, <1>2, AsyncCallInPlace, AsyncOpenInPlace, AsyncOpenedInPlace,
     AsyncReadInPlace, AsyncFinishInPlace
  DEF AsyncLoad, AsyncInPlace

LEMMA AsyncInvariant ==
    ASSUME Orderly
    PROVE  /\ AsyncInit => AsyncInv
           /\ AsyncInv /\ [AsyncNext]_allVars => AsyncInv'
<1>1. AsyncInit => AsyncInv
  <2> SUFFICES ASSUME AsyncInit PROVE AsyncInv
    OBVIOUS
  <2>1. AsyncTypeInv
    BY TypeInit, NoLoadType
    DEF AsyncInit, Init, TypeInv, ReadersHaveStreams, AsyncTypeInv,
        LoadHasStream, InFlight, NoLoad
  <2>2. PlaybackInv
    BY PlaybackInvariant DEF AsyncInit
  <2>3. Settled
    BY <2>2, NoLoadType DEF AsyncInit, Init, Settled, PlaybackInv, InFlight
  <2>4. QED
    BY <2>1, <2>3 DEF AsyncInv, AsyncInPlace
<1>2. ASSUME AsyncInv, [AsyncNext]_allVars PROVE AsyncInv'
  <2>1. AsyncTypeInv /\ AsyncTypeInv'
    BY <1>2, AsyncTypeNext DEF AsyncInv
  <2>2. CASE AsyncLoad
    BY <1>2, <2>1, <2>2, AsyncLoadStep DEF AsyncInv
  <2>3. ASSUME load' = load,
               \/ AnyTime
               \/ ~InFlight /\ BetweenLoads
               \/ Requests
               \/ ServerThread
               \/ Dead
               \/ UNCHANGED vars
        PROVE  AsyncInPlace'
    <3>1. CASE Settled
      <4>1. [Next]_vars
        BY <2>3
        DEF AnyTime, BetweenLoads, Requests, Next, Application, Network
      <4>2. QED
        BY <2>1, <2>3, <3>1, <4>1, SettledStep
    <3>2. CASE Unplayed
      BY <2>1, <2>3, <3>2, UnplayedStep
    <3>3. QED
      BY <1>2, <3>1, <3>2 DEF AsyncInv, AsyncInPlace
  <2>4. QED
    BY <1>2, <2>1, <2>2, <2>3 DEF AsyncNext, AsyncInv, allVars
<1>3. QED
  BY <1>1, <1>2

\* In an orderly application an asynchronous load, wherever its two worker
\* threads and its callbacks are, and whatever fails or is cancelled, loses no
\* pair and is seen by no request: when it has finished, every pair is where a
\* synchronous load would have left it, or the load is to be cleared away.
THEOREM AsyncLoadsStayInPlace == Orderly => (AsyncSpec => []AsyncInPlace)
<1> SUFFICES ASSUME Orderly PROVE AsyncSpec => []AsyncInPlace
  OBVIOUS
<1>1. AsyncInv => AsyncInPlace
  BY DEF AsyncInv
<1>2. QED
  BY AsyncInvariant, <1>1, PTL DEF AsyncSpec

\* Nor does it crash the process, but in the ways a synchronous load does, and
\* with the usage of the tests in the one way that does.
THEOREM AsyncNothingElseCrashes ==
    /\ Orderly => (AsyncSpec => []OnlyKnownCrashes)
    /\ Usage = {} => (AsyncSpec => []OnlyPostcondition)
<1>1. AsyncInPlace => OnlyKnownCrashes
  BY
  DEF AsyncInPlace, Settled, Disciplined, InHand, Unplayed, NothingPlayed,
      OnlyKnownCrashes, OnlyPostcondition
<1>2. Orderly => (AsyncSpec => []OnlyKnownCrashes)
  BY AsyncLoadsStayInPlace, <1>1, PTL
<1>3. ASSUME Usage = {} PROVE AsyncSpec => []OnlyPostcondition
  <2>1. Orderly
    BY <1>3 DEF Orderly
  <2>2. OnlyKnownCrashes => OnlyPostcondition
    BY <1>3 DEF OnlyKnownCrashes, OnlyPostcondition
  <2>3. QED
    BY <1>2, <2>1, <2>2, PTL
<1>4. QED
  BY <1>2, <1>3
-------------------------------------------------------------------------------
(* Every step, of the load too, is a step of TracePlayback or none.        *)

LEMMA NothingLoaded ==
    ASSUME AsyncFile = None
    PROVE  AsyncUsed = 0 /\ AsyncTorn = FALSE
  BY DEF AsyncUsed, AsyncTorn

\* Where no load is in flight or failed, the mapping is that of UhmServer.
LEMMA SettledMapping ==
    ASSUME load = NoLoad, load_error => trace_file = None,
           trace_file # None => input_stream # None
    PROVE  AsyncFile = trace_file /\ AsyncUsed = Used /\ AsyncTorn = TornTrace
<1>1. load.stream = None /\ load.result.kind = "none"
  BY DEF NoLoad, NoResult
<1>2. AsyncFile = trace_file /\ AsyncStreamAt = input_stream
  BY <1>1 DEF AsyncFile, AsyncStreamAt
<1>3. AsyncAhead = Ahead
  BY <1>1 DEF AsyncAhead, Ahead
<1>4. AsyncUsed = Used
  BY <1>2, <1>3 DEF AsyncUsed, Used
<1>5. AsyncTorn = TornTrace
  BY <1>2 DEF AsyncTorn, TornTrace, Torn
<1>6. QED
  BY <1>2, <1>4, <1>5

LEMMA SameSteps ==
    ASSUME AsyncFile = trace_file, AsyncUsed = Used, AsyncTorn = TornTrace,
           AsyncFile' = trace_file', AsyncUsed' = Used',
           AsyncTorn' = TornTrace',
           [Playback!Next]_Playback!vars
    PROVE  [AsyncPlayback!Next]_AsyncPlayback!vars
<1>1. ASSUME NEW f \in File, Playback!Load(f) PROVE AsyncPlayback!Load(f)
  BY <1>1 DEF Playback!Load, AsyncPlayback!Load
<1>2. CASE Playback!Unload
  BY <1>2 DEF Playback!Unload, AsyncPlayback!Unload, AsyncPlayback!Next
<1>3. CASE Playback!CutOff
  BY <1>3 DEF Playback!CutOff, AsyncPlayback!CutOff, AsyncPlayback!Next
<1>4. CASE Playback!PassOver
  BY <1>4
  DEF Playback!PassOver, AsyncPlayback!PassOver, Playback!AtEnd,
      AsyncPlayback!AtEnd, Playback!NextEntry, AsyncPlayback!NextEntry,
      Playback!Unused, AsyncPlayback!Unused, AsyncPlayback!Next
<1>5. CASE Playback!Tear
  BY <1>5 DEF Playback!Tear, AsyncPlayback!Tear, AsyncPlayback!Next
<1>6. ASSUME NEW c \in Client, NEW r \in Request, Playback!Ask(c, r)
      PROVE  AsyncPlayback!Ask(c, r)
  BY <1>6
  DEF Playback!Ask, AsyncPlayback!Ask, Playback!NoAnswer,
      AsyncPlayback!NoAnswer, Playback!Answer, AsyncPlayback!Answer
<1>7. ASSUME NEW c \in Client, Playback!Recorded(c)
      PROVE  AsyncPlayback!Recorded(c)
  BY <1>7
  DEF Playback!Recorded, AsyncPlayback!Recorded, Playback!AtEnd,
      AsyncPlayback!AtEnd, Playback!NextEntry, AsyncPlayback!NextEntry,
      Playback!Respond, AsyncPlayback!Respond, Playback!Answer,
      AsyncPlayback!Answer, Playback!Here, AsyncPlayback!Here
<1>8. ASSUME NEW c \in Client, Playback!Unexpected(c)
      PROVE  AsyncPlayback!Unexpected(c)
  BY <1>8
  DEF Playback!Unexpected, AsyncPlayback!Unexpected, Playback!AtEnd,
      AsyncPlayback!AtEnd, Playback!NextEntry, AsyncPlayback!NextEntry,
      Playback!Respond, AsyncPlayback!Respond, Playback!Answer,
      AsyncPlayback!Answer, Playback!Here, AsyncPlayback!Here
<1>9. ASSUME NEW c \in Client, Playback!Nothing(c)
      PROVE  AsyncPlayback!Nothing(c)
  BY <1>9
  DEF Playback!Nothing, AsyncPlayback!Nothing, Playback!AtEnd,
      AsyncPlayback!AtEnd, Playback!NextEntry, AsyncPlayback!NextEntry,
      Playback!Respond, AsyncPlayback!Respond, Playback!Answer,
      AsyncPlayback!Answer
<1>10. ASSUME NEW c \in Client, Playback!Failed(c) \/ Playback!Own(c)
       PROVE  AsyncPlayback!Failed(c) \/ AsyncPlayback!Own(c)
  BY <1>10
  DEF Playback!Failed, AsyncPlayback!Failed, Playback!Own, AsyncPlayback!Own,
      Playback!Respond, AsyncPlayback!Respond, Playback!Answer,
      AsyncPlayback!Answer
<1>11. CASE UNCHANGED Playback!vars
  BY <1>11 DEF Playback!vars, AsyncPlayback!vars
<1>12. QED
  BY <1>1, <1>2, <1>3, <1>4, <1>5, <1>6, <1>7, <1>8, <1>9, <1>10, <1>11
  DEF Playback!Next, AsyncPlayback!Next

\* The trace goes out of the clients' sight.
LEMMA AsyncUnloads ==
    ASSUME AsyncFile' = None,
           reply' = reply,
           \/ request' = request
           \/ request' = [c \in Client |-> None]
    PROVE  [AsyncPlayback!Next]_AsyncPlayback!vars
<1>1. AsyncUsed' = 0 /\ AsyncTorn' = FALSE /\ Answers' = Answers
  BY SameAnswers, NothingLoaded DEF AsyncUsed, AsyncTorn
<1>2. CASE AsyncFile # None
  BY <1>1, <1>2 DEF AsyncPlayback!Next, AsyncPlayback!Unload
<1>3. CASE AsyncFile = None
  <2>1. AsyncUsed = 0 /\ AsyncTorn = FALSE
    BY <1>3, NothingLoaded
  <2>2. QED
    BY <1>1, <1>3, <2>1
    DEF AsyncPlayback!Next, AsyncPlayback!CutOff, AsyncPlayback!vars
<1>4. QED
  BY <1>2, <1>3

LEMMA SettledPlays ==
    ASSUME Orderly, AsyncInv, AsyncInv', Settled,
           load' = load, [Next]_vars
    PROVE  [AsyncPlayback!Next]_AsyncPlayback!vars
<1>1. PlaybackInv /\ PlaybackInv' /\ load = NoLoad
  BY PlaybackInvariant
  DEF Settled, PlaybackInv, AsyncInv, AsyncTypeInv, LoadHasStream, TypeInv
<1>2. [Playback!Next]_Playback!vars
  BY <1>1, NextPlays
<1>3. /\ trace_file # None => input_stream # None
      /\ trace_file' # None => input_stream' # None
  BY <1>1 DEF PlaybackInv, Disciplined, InHand, TraceStaysLoaded
<1>4. AsyncFile = trace_file /\ AsyncUsed = Used /\ AsyncTorn = TornTrace
  BY <1>1, <1>3, SettledMapping DEF Settled
<1>5. CASE load_error' => trace_file' = None
  <2>1. /\ AsyncFile' = trace_file' /\ AsyncUsed' = Used'
        /\ AsyncTorn' = TornTrace'
    <3>1. load' = NoLoad
      BY <1>1
    <3>2. load'.stream = None /\ load'.result.kind = "none"
      BY <3>1 DEF NoLoad, NoResult
    <3>3. AsyncFile' = trace_file' /\ AsyncStreamAt' = input_stream'
      BY <1>5, <3>2 DEF AsyncFile, AsyncStreamAt
    <3>4. AsyncAhead' = Ahead'
      BY <3>2 DEF AsyncAhead, Ahead
    <3>5. AsyncUsed' = Used'
      BY <1>3, <3>3, <3>4 DEF AsyncUsed, Used
    <3>6. AsyncTorn' = TornTrace'
      BY <1>3, <3>3 DEF AsyncTorn, TornTrace, Torn
    <3>7. QED
      BY <3>3, <3>5, <3>6
  <2>2. QED
    BY <1>2, <1>4, <2>1, SameSteps
<1>6. CASE load_error' /\ trace_file' # None
  <2>1. uhm_server_load_trace_read
    BY <1>6, SettledReads DEF Settled
  <2>2. UNCHANGED <<request, reply>> /\ AsyncFile' = None
    BY <1>6, <2>1 DEF uhm_server_load_trace_read, AsyncFile, clientVars
  <2>3. QED
    BY <2>2, AsyncUnloads
<1>7. QED
  BY <1>5, <1>6

LEMMA UnplayedMapping ==
    ASSUME UNCHANGED <<load, trace_file, load_error, input_stream,
                       next_message, streams>>,
           pc = "idle", pc' = "idle"
    PROVE  UNCHANGED <<AsyncFile, AsyncUsed, AsyncTorn>>
<1>1. UNCHANGED <<AsyncFile, AsyncStreamAt, AsyncAhead>>
  BY DEF AsyncFile, AsyncStreamAt, AsyncAhead, Ahead
<1>2. QED
  BY <1>1 DEF AsyncUsed, AsyncTorn, Torn

LEMMA UnplayedPlays ==
    ASSUME Orderly, AsyncInv, Unplayed,
           load' = load,
           \/ AnyTime
           \/ ~InFlight /\ BetweenLoads
           \/ Requests
           \/ ServerThread
           \/ Dead
           \/ UNCHANGED vars
    PROVE  [AsyncPlayback!Next]_AsyncPlayback!vars
<1>1. /\ pc = "idle" /\ app # "loading" /\ trace_file # None
      /\ \A c \in Client :
            /\ state[c] # "handling"
            /\ Outstanding(c) => server /\ request[c] \in OwnHandled
      /\ ClientsWait
      /\ reply \in [Client -> Reply]
  BY
  DEF Unplayed, NothingPlayed, AsyncInv, AsyncTypeInv, TypeInv, TypeOK,
      RequestTypeOK
<1>2. ASSUME UNCHANGED <<trace_file, load_error, input_stream, next_message,
                         streams, pc, request, reply>>
      PROVE  UNCHANGED AsyncPlayback!vars
  BY <1>1, <1>2, UnplayedMapping, SameAnswers DEF AsyncPlayback!vars
<1>3. CASE AnyTime \/ server_thread_quit_cb \/ Dead \/ UNCHANGED vars
  BY <1>2, <1>3
  DEF AnyTime, uhm_server_run, uhm_server_set_expected_domain_names,
      uhm_resolver_add_A, uhm_server_set_enable_online, server_thread_quit_cb,
      Dead, vars, traceVars, appVars, handlerVars, clientVars
<1>4. CASE ~InFlight /\ BetweenLoads
  <2>1. CASE uhm_server_stop
    BY <1>2, <2>1
    DEF uhm_server_stop, traceVars, handlerVars, clientVars
  <2>2. CASE uhm_server_stop_joined
    BY <2>2, AsyncUnloads
    DEF uhm_server_stop_joined, unload_trace, AsyncFile
  <2>3. CASE uhm_server_unload_trace
    BY <2>3, AsyncUnloads
    DEF uhm_server_unload_trace, unload_trace, AsyncFile, clientVars
  <2>4. QED
    BY <1>1, <1>4, <2>1, <2>2, <2>3
    DEF BetweenLoads, uhm_server_load_trace, uhm_server_load_trace_read,
        uhm_server_load_trace_asserts, AppAt
<1>5. CASE Requests
  <2>1. ASSUME NEW c \in Client, Arrive(c) PROVE UNCHANGED AsyncPlayback!vars
    BY <1>2, <2>1 DEF Arrive, traceVars, appVars, handlerVars
  <2>2. ASSUME NEW c \in Client, NEW r \in Request, Send(c, r)
        PROVE  AsyncPlayback!Ask(c, r)
    <3>1. UNCHANGED <<AsyncFile, AsyncUsed, AsyncTorn>>
      BY <1>1, <2>2, UnplayedMapping DEF Send, traceVars, appVars, handlerVars
    <3>2. request[c] = None /\ request' = [request EXCEPT ![c] = r]
      BY <1>1, <2>2 DEF Send, ClientsWait
    <3>3. Answers' = [Answers EXCEPT ![c] = AsyncPlayback!NoAnswer]
      BY <1>1, <2>2
      DEF Send, Answers, NoReply, Pair, AsyncPlayback!NoAnswer,
          AsyncPlayback!Answer
    <3>4. QED
      BY <3>1, <3>2, <3>3 DEF AsyncPlayback!Ask
  <2>3. QED
    BY <1>5, <2>1, <2>2 DEF Requests, AsyncPlayback!Next
<1>6. CASE ServerThread
  <2>1. ASSUME NEW c \in Client, server_handler_cb_own(c)
        PROVE  AsyncPlayback!Own(c)
    <3>1. /\ Respond(c, "own", None) /\ state[c] = "ready"
          /\ request[c] \in OwnHandled
          /\ UNCHANGED <<traceVars, appVars, streams>>
      BY <2>1 DEF server_handler_cb_own
    <3>2. UNCHANGED <<AsyncFile, AsyncUsed, AsyncTorn>>
      BY <1>1, <3>1, UnplayedMapping DEF Respond, traceVars, appVars
    <3>3. request[c] # None /\ request' = [request EXCEPT ![c] = None]
      BY <1>1, <3>1 DEF Respond, ClientsWait, Outstanding
    <3>4. Answers' = [Answers EXCEPT ![c] = AsyncPlayback!Answer("own", None)]
      BY <1>1, <3>1
      DEF Respond, Answers, NoReply, Pair, AsyncPlayback!Answer
    <3>5. QED
      BY <3>1, <3>2, <3>3, <3>4 DEF AsyncPlayback!Own, AsyncPlayback!Respond
  <2>2. \A c \in Client :
            ~server_handler_cb(c) /\ ~server_handler_cb_asserts(c)
    BY <1>1 DEF server_handler_cb, server_handler_cb_asserts, Outstanding
  <2>3. ~Handle
    BY <1>1
    DEF Handle, load_file_iteration_thread_cb, ServerAt,
        load_file_iteration_thread_cb_asserts, real_handle_message,
        server_process_message, server_process_message_asserts,
        compare_incoming_message, compare_incoming_message_asserts,
        uri_get_path_query_crashes
  <2>4. QED
    BY <1>3, <1>6, <2>1, <2>2, <2>3
    DEF ServerThread, Dispatch, AsyncPlayback!Next
<1>7. QED
  BY <1>3, <1>4, <1>5, <1>6

\* Where a load is in flight, its stream has read this much.
InFlightMapped ==
    /\ AsyncFile = trace_file /\ trace_file # None
    /\ load.stream = None => AsyncUsed = 0 /\ AsyncTorn = FALSE
    /\ load.stream # None =>
          /\ AsyncUsed = streams[load.stream].pos
                         - (IF load.result.kind = "message" THEN 2 ELSE 1)
          /\ streams[load.stream].framing \in {"half", "lost"} =>
                AsyncTorn = TRUE
          /\ streams[load.stream].framing \notin {"half", "lost"} =>
                AsyncTorn = FALSE

LEMMA InFlightMapping == AsyncInv /\ InFlight => InFlightMapped
<1> SUFFICES ASSUME AsyncInv, InFlight PROVE InFlightMapped
  OBVIOUS
<1>1. /\ ~load_error /\ next_message = None /\ trace_file # None
      /\ pc = "idle" /\ input_stream \in {None, load.stream}
  BY InFlightInPlace DEF AsyncLoadInPlace, Unplayed, NothingPlayed
<1>2. AsyncFile = trace_file /\ AsyncStreamAt = load.stream
  BY <1>1 DEF AsyncFile, AsyncStreamAt
<1>3. AsyncAhead <=> load.result.kind = "message"
  BY <1>1 DEF AsyncAhead, Ahead
<1>4. load.stream = None => AsyncUsed = 0 /\ AsyncTorn = FALSE
  BY <1>2 DEF AsyncUsed, AsyncTorn
<1>5. load.stream # None =>
          /\ AsyncUsed = streams[load.stream].pos
                         - (IF load.result.kind = "message" THEN 2 ELSE 1)
          /\ streams[load.stream].framing \in {"half", "lost"} =>
                AsyncTorn = TRUE
          /\ streams[load.stream].framing \notin {"half", "lost"} =>
                AsyncTorn = FALSE
  <2> HAVE load.stream # None
  <2>1. AsyncUsed = streams[load.stream].pos
                    - (IF load.result.kind = "message" THEN 2 ELSE 1)
    BY <1>1, <1>2, <1>3 DEF AsyncUsed
  <2>2. input_stream # None =>
            (Torn <=> streams[load.stream].framing \in {"half", "lost"})
    BY <1>1 DEF Torn
  <2>3. AsyncTorn <=> streams[load.stream].framing \in {"half", "lost"}
    BY <1>1, <1>2, <2>2 DEF AsyncTorn
  <2>4. AsyncTorn \in BOOLEAN
    BY DEF AsyncTorn
  <2>5. QED
    BY <2>1, <2>3, <2>4
<1>6. QED
  BY <1>1, <1>2, <1>4, <1>5 DEF InFlightMapped

LEMMA InFlightMappingNext == (AsyncInv /\ InFlight => InFlightMapped)'
  BY InFlightMapping, PTL

LEMMA AsyncCallPlays ==
    ASSUME Orderly, AsyncInv, AsyncInv', NEW f \in File,
           uhm_server_load_trace_async(f)
    PROVE  AsyncPlayback!Load(f)
<1>1. /\ trace_file = None /\ trace_file' = f /\ InFlight'
      /\ load'.stream = None
      /\ UNCHANGED <<request, reply>>
  BY DEF uhm_server_load_trace_async, InFlight, NoLoad, clientVars
<1>2. AsyncFile = None /\ AsyncUsed = 0 /\ AsyncTorn = FALSE
  BY <1>1, NothingLoaded DEF AsyncFile
<1>3. AsyncFile' = f /\ AsyncUsed' = 0 /\ AsyncTorn' = FALSE
  BY <1>1, InFlightMappingNext DEF InFlightMapped
<1>4. QED
  BY <1>1, <1>2, <1>3, SameAnswers DEF AsyncPlayback!Load

\* The worker thread that opens the file and the callback behind it.
LEMMA AsyncOpenPlays ==
    ASSUME AsyncInv, AsyncInv', load_file_stream_thread_cb \/ load_trace_async_cb
    PROVE  UNCHANGED AsyncPlayback!vars
<1>1. /\ InFlight /\ load.step \in {"opening", "opened"}
      /\ UNCHANGED <<trace_file, request, reply>>
  BY
  DEF load_file_stream_thread_cb, load_trace_async_cb, InFlight, traceVars,
      clientVars
<1>2. /\ AsyncLoadInPlace /\ load \in Load /\ trace_file \in File
  BY <1>1, InFlightInPlace
<1>3. load.result.kind = "none"
  BY <1>1, <1>2 DEF AsyncLoadInPlace, Load, TaskResult, ResultKinds
<1>4. /\ AsyncFile = trace_file /\ AsyncUsed = 0 /\ AsyncTorn = FALSE
  <2>1. load.stream # None => streams[load.stream] = AtStart(trace_file)
    BY <1>1, <1>2 DEF AsyncLoadInPlace, LoadStreamInPlace
  <2>2. QED
    BY <1>1, <1>3, <2>1, InFlightMapping DEF InFlightMapped, AtStart
<1>5. /\ InFlight' /\ load'.result.kind \in {"none", "error"}
      /\ load'.stream # None => streams'[load'.stream] = AtStart(trace_file)
  <2>1. CASE load_file_stream_thread_cb
    <3>1. load.stream = None /\ load.file = trace_file
      BY <1>2, <2>1 DEF AsyncLoadInPlace, load_file_stream_thread_cb
    <3>2. streams \in [Stream -> StreamState]
      BY DEF AsyncInv, AsyncTypeInv, TypeInv, TypeOK, ProcessTypeOK
    <3>3. ASSUME NEW s \in Stream,
                 streams' = [streams EXCEPT ![s] = AtStart(load.file)],
                 load' = [load EXCEPT !.step = "opened", !.stream = s]
          PROVE  /\ InFlight' /\ load'.result = load.result
                 /\ streams'[load'.stream] = AtStart(trace_file)
      <4>1. /\ load'.step = "opened" /\ load'.stream = s
            /\ load'.result = load.result
        BY <1>2, <3>3 DEF Load
      <4>2. streams'[s] = AtStart(trace_file)
        BY <3>1, <3>2, <3>3
      <4>3. QED
        BY <4>1, <4>2 DEF InFlight
    <3>4. ASSUME load' = [load EXCEPT !.step = "opened"]
          PROVE  /\ InFlight' /\ load'.result = load.result
                 /\ load'.stream = None
      BY <1>2, <3>1, <3>4 DEF Load, InFlight
    <3>5. QED
      BY <1>3, <2>1, <3>3, <3>4 DEF load_file_stream_thread_cb
  <2>2. CASE load_trace_async_cb
    <3>1. /\ load'.stream = load.stream /\ streams' = streams
          /\ load'.step \in {"read", "reading"}
          /\ load'.result \in {load.result, Result("error", 0)}
      BY <1>2, <2>2 DEF load_trace_async_cb, forward, Load
    <3>2. load.stream # None => streams[load.stream] = AtStart(trace_file)
      BY <1>2, <2>2 DEF load_trace_async_cb, AsyncLoadInPlace, LoadStreamInPlace
    <3>3. QED
      BY <1>3, <3>1, <3>2 DEF InFlight, Result
  <2>3. QED
    BY <2>1, <2>2
<1>6. AsyncFile' = trace_file /\ AsyncUsed' = 0 /\ AsyncTorn' = FALSE
  BY <1>1, <1>5, InFlightMappingNext DEF InFlightMapped, AtStart
<1>7. QED
  BY <1>1, <1>4, <1>6, SameAnswers DEF AsyncPlayback!vars

\* The worker thread that reads the first pair.
LEMMA AsyncReadPlays ==
    ASSUME AsyncInv, AsyncInv', load_first_iteration_thread_cb
    PROVE  [AsyncPlayback!Next]_AsyncPlayback!vars
<1>1. /\ load.step = "reading" /\ InFlight
      /\ UNCHANGED <<trace_file, input_stream, request, reply>>
  BY DEF load_first_iteration_thread_cb, InFlight, traceVars, clientVars
<1>2. PICK result \in Results(load.stream) :
          /\ load_file_iteration(load.stream, result)
          /\ load' = IF result = NoResult THEN load
                     ELSE [load EXCEPT !.step = "read", !.result = result]
  BY DEF load_first_iteration_thread_cb
<1>3. /\ AsyncLoadInPlace /\ load \in Load
      /\ trace_file \in File /\ Len(Trace[trace_file]) \in Nat
      /\ input_stream = load.stream /\ input_stream \in Stream
      /\ streams[input_stream].pos \in Nat \ {0}
      /\ EndReached(result) \/ ReadFailed(result) \/ PairRead(result)
  BY <1>1, <1>2, InFlightInPlace, AsyncReads, ServerAssumption
<1>4. /\ load.result.kind = "none" /\ input_stream # None
      /\ streams[input_stream].framing = "aligned"
      /\ \A i \in 1 .. streams[input_stream].pos - 1 :
            Trace[trace_file][i] = StatusNone
  BY <1>1, <1>3, ServerAssumption
  DEF AsyncLoadInPlace, Load, TaskResult, ResultKinds, LoadStreamInPlace
<1>5. /\ AsyncFile = trace_file /\ trace_file # None
      /\ AsyncUsed = streams[input_stream].pos - 1 /\ AsyncTorn = FALSE
  BY <1>1, <1>3, <1>4, InFlightMapping DEF InFlightMapped
<1>6. /\ InFlight' /\ load'.stream = input_stream
      /\ load'.result.kind = "message" <=> result.kind = "message"
  BY <1>1, <1>2, <1>3, <1>4 DEF InFlight, Load, NoResult
<1>7. /\ AsyncFile' = trace_file
      /\ AsyncUsed' = streams'[input_stream].pos
                      - (IF result.kind = "message" THEN 2 ELSE 1)
      /\ streams'[input_stream].framing \in {"half", "lost"} =>
            AsyncTorn' = TRUE
      /\ streams'[input_stream].framing \notin {"half", "lost"} =>
            AsyncTorn' = FALSE
  BY <1>1, <1>4, <1>6, InFlightMappingNext DEF InFlightMapped
<1>8. Answers' = Answers
  BY <1>1, SameAnswers
<1>9. CASE EndReached(result)
  BY <1>1, <1>4, <1>5, <1>7, <1>8, <1>9
  DEF EndReached, Result, AsyncPlayback!vars
<1>10. CASE ReadFailed(result)
  <2>1. AsyncUsed' = AsyncUsed /\ "read" \in Faults
    BY <1>5, <1>7, <1>10 DEF ReadFailed, Result
  <2>2. CASE AsyncTorn' = TRUE
    BY <1>1, <1>5, <1>7, <1>8, <2>1, <2>2
    DEF AsyncPlayback!Next, AsyncPlayback!Tear
  <2>3. CASE AsyncTorn' = FALSE
    BY <1>1, <1>5, <1>7, <1>8, <2>1, <2>3 DEF AsyncPlayback!vars
  <2>4. QED
    BY <1>7, <2>2, <2>3
<1>11. CASE PairRead(result)
  <2>1. /\ streams'[input_stream].pos = streams[input_stream].pos + 1
        /\ AsyncTorn' = FALSE
    BY <1>4, <1>7, <1>11 DEF PairRead
  <2>2. CASE result.kind = "message"
    <3>1. AsyncUsed' = AsyncUsed
      BY <1>3, <1>5, <1>7, <2>1, <2>2
    <3>2. QED
      BY <1>1, <1>5, <1>7, <1>8, <2>1, <3>1 DEF AsyncPlayback!vars
  <2>3. CASE result.kind # "message"
    <3>1. AsyncUsed' = AsyncUsed + 1
      BY <1>3, <1>5, <1>7, <2>1, <2>3
    <3>2. /\ AsyncUsed # Len(Trace[trace_file])
          /\ Trace[trace_file][AsyncUsed + 1] \in {StatusNone, Malformed}
      BY <1>3, <1>4, <1>5, <1>11, <2>3 DEF PairRead, Result
    <3>3. AsyncPlayback!PassOver
      BY <1>1, <1>3, <1>4, <1>5, <1>7, <1>8, <2>1, <3>1, <3>2
      DEF AsyncPlayback!PassOver, AsyncPlayback!AtEnd,
          AsyncPlayback!NextEntry, AsyncPlayback!Unused
    <3>4. QED
      BY <3>3 DEF AsyncPlayback!Next
  <2>4. QED
    BY <2>2, <2>3
<1>12. QED
  BY <1>3, <1>9, <1>10, <1>11

LEMMA AsyncFinishPlays ==
    ASSUME AsyncInv, AsyncInv', uhm_server_load_trace_finish
    PROVE  [AsyncPlayback!Next]_AsyncPlayback!vars
<1>1. /\ InFlight /\ ~InFlight' /\ load' = NoLoad
      /\ load_error' = (First.kind = "error")
      /\ UNCHANGED <<trace_file, input_stream, streams, request, reply, pc>>
  BY
  DEF uhm_server_load_trace_finish, InFlight, NoLoad, clientVars, handlerVars
<1>2. CASE First.kind = "error"
  BY <1>1, <1>2, AsyncUnloads DEF AsyncFile
<1>3. CASE First.kind # "error"
  <2>1. /\ First = load.result /\ input_stream = load.stream
        /\ load.stream \in Stream /\ load.stream # None
        /\ streams[input_stream].framing = "aligned"
        /\ next_message' # None <=> First.kind = "message"
    BY <1>3, FinishedLoad, ServerAssumption
  <2>2. /\ AsyncFile = trace_file
        /\ AsyncUsed = streams[input_stream].pos
                       - (IF First.kind = "message" THEN 2 ELSE 1)
        /\ AsyncTorn = FALSE
    BY <1>1, <2>1, InFlightMapping DEF InFlightMapped
  <2>3. pc = "idle"
    BY <1>1, InFlightInPlace DEF Unplayed, NothingPlayed
  <2>4. load'.stream = None /\ load'.result.kind = "none"
    BY <1>1 DEF NoLoad, NoResult
  <2>5. /\ AsyncFile' = trace_file /\ AsyncStreamAt' = input_stream
        /\ AsyncAhead' <=> First.kind = "message"
    BY <1>1, <1>3, <2>1, <2>3, <2>4
    DEF AsyncFile, AsyncStreamAt, AsyncAhead, Ahead
  <2>6. trace_file # None
    BY <1>1, InFlightInPlace DEF Unplayed, NothingPlayed
  <2>7. AsyncUsed' = AsyncUsed
    BY <1>1, <2>1, <2>2, <2>5, <2>6 DEF AsyncUsed
  <2>8. AsyncTorn' = FALSE
    BY <1>1, <2>1, <2>3, <2>5 DEF AsyncTorn, Torn
  <2>9. QED
    BY <1>1, <2>2, <2>5, <2>7, <2>8, SameAnswers DEF AsyncPlayback!vars
<1>4. QED
  BY <1>2, <1>3

\* A process that dies, or a load that is cancelled, shows the clients
\* nothing.
LEMMA SameLoadPlays ==
    ASSUME UNCHANGED <<trace_file, input_stream, next_message, load_error,
                       streams, pc, task_result, request, reply>>,
           load'.stream = load.stream, load'.result = load.result
    PROVE  UNCHANGED AsyncPlayback!vars
<1>1. UNCHANGED <<AsyncFile, AsyncStreamAt, AsyncAhead>>
  BY DEF AsyncFile, AsyncStreamAt, AsyncAhead, Ahead
<1>2. UNCHANGED <<AsyncUsed, AsyncTorn>>
  BY <1>1 DEF AsyncUsed, AsyncTorn, Torn
<1>3. QED
  BY <1>1, <1>2, SameAnswers DEF AsyncPlayback!vars

LEMMA AsyncLoadPlays ==
    ASSUME Orderly, AsyncInv, AsyncInv', AsyncLoad
    PROVE  [AsyncPlayback!Next]_AsyncPlayback!vars
<1>1. ASSUME NEW f \in File, uhm_server_load_trace_async(f)
      PROVE  AsyncPlayback!Next
  BY <1>1, AsyncCallPlays DEF AsyncPlayback!Next
<1>2. CASE load_first_iteration_thread_cb_asserts
  BY <1>2, SameLoadPlays
  DEF load_first_iteration_thread_cb_asserts, load_file_iteration_asserts,
      Abort, traceVars, appVars, handlerVars, clientVars
<1>3. CASE g_cancellable_cancel
  <2>1. UNCHANGED vars /\ load' = [load EXCEPT !.cancelled = TRUE]
    BY <1>3 DEF g_cancellable_cancel
  <2>2. load'.stream = load.stream /\ load'.result = load.result
    BY <2>1 DEF AsyncInv, AsyncTypeInv, Load
  <2>3. QED
    BY <2>1, <2>2, SameLoadPlays
    DEF vars, traceVars, appVars, handlerVars, clientVars
<1>4. QED
  BY <1>1, <1>2, <1>3, AsyncOpenPlays, AsyncReadPlays, AsyncFinishPlays
  DEF AsyncLoad

LEMMA AsyncPlays ==
    ASSUME Orderly
    PROVE  /\ AsyncInit => AsyncPlayback!Init
           /\ AsyncInv /\ AsyncInv' /\ [AsyncNext]_allVars
                => [AsyncPlayback!Next]_AsyncPlayback!vars
<1>1. ASSUME AsyncInit PROVE AsyncPlayback!Init
  <2>1. AsyncFile = None /\ AsyncUsed = 0 /\ AsyncTorn = FALSE
    BY <1>1, NothingLoaded DEF AsyncInit, Init, AsyncFile
  <2>2. Answers = [c \in Client |-> AsyncPlayback!NoAnswer]
    BY <1>1
    DEF AsyncInit, Init, Answers, NoReply, Pair, AsyncPlayback!NoAnswer,
        AsyncPlayback!Answer
  <2>3. QED
    BY <1>1, <2>1, <2>2 DEF AsyncInit, Init, AsyncPlayback!Init
<1>2. ASSUME AsyncInv, AsyncInv', [AsyncNext]_allVars
      PROVE  [AsyncPlayback!Next]_AsyncPlayback!vars
  <2>1. CASE AsyncLoad
    BY <1>2, <2>1, AsyncLoadPlays
  <2>2. ASSUME load' = load,
               \/ AnyTime
               \/ ~InFlight /\ BetweenLoads
               \/ Requests
               \/ ServerThread
               \/ Dead
               \/ UNCHANGED vars
        PROVE  [AsyncPlayback!Next]_AsyncPlayback!vars
    <3>1. CASE Settled
      <4>1. [Next]_vars
        BY <2>2
        DEF AnyTime, BetweenLoads, Requests, Next, Application, Network
      <4>2. QED
        BY <1>2, <2>2, <3>1, <4>1, SettledPlays
    <3>2. CASE Unplayed
      BY <1>2, <2>2, <3>2, UnplayedPlays
    <3>3. QED
      BY <1>2, <3>1, <3>2 DEF AsyncInv, AsyncInPlace
  <2>3. QED
    BY <1>2, <2>1, <2>2 DEF AsyncNext, allVars
<1>3. QED
  BY <1>1, <1>2

\* In an orderly application what a client sees of a server that loads its
\* traces asynchronously, too, is a trace played back in order: a pair is
\* neither lost nor used twice between the two worker threads and the
\* callbacks, and a load that fails or is cancelled plays nothing.
THEOREM AsyncServerPlaysTraceBack ==
    Orderly => (AsyncSpec => AsyncPlaysTraceBack)
<1> SUFFICES ASSUME Orderly PROVE AsyncSpec => AsyncPlaysTraceBack
  OBVIOUS
<1>1. AsyncInv /\ AsyncInv' /\ [AsyncNext]_allVars
          => [AsyncPlayback!Next]_AsyncPlayback!vars
  BY AsyncPlays
<1>2. AsyncInit => AsyncInv /\ AsyncPlayback!Init
  BY AsyncPlays, AsyncInvariant
<1>3. AsyncInv /\ [AsyncNext]_allVars => AsyncInv'
  BY AsyncInvariant
<1>4. QED
  BY <1>1, <1>2, <1>3, PTL DEF AsyncSpec, AsyncPlaysTraceBack, AsyncPlayback!Spec
===============================================================================
