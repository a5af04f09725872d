--------------------------- MODULE UhmServerProofs ----------------------------
(***************************************************************************)
(* Theorems about UhmServer, for any number of clients, any traces and any *)
(* faults.                                                                 *)
(***************************************************************************)
EXTENDS UhmServer, TLAPS

LEMMA TypeInit == Init => TypeOK
<1> SUFFICES ASSUME Init PROVE TypeOK
  OBVIOUS
<1>1. streams \in [Stream -> StreamState]
  BY DEF Init, StreamState, AtStart, Framing
<1>2. task_result \in TaskResult
  BY DEF Init, TaskResult, ResultKinds, NoResult
<1>3. reply \in [Client -> Reply]
  BY DEF Init, Reply, ReplyKinds, NoReply
<1>4. QED
  BY <1>1, <1>2, <1>3
  DEF Init, TypeOK, FieldsTypeOK, ProcessTypeOK, RequestTypeOK

LEMMA AdvancedType ==
    ASSUME TypeOK, NEW s \in Stream
    PROVE  Advanced(s) \in StreamState /\ Advanced(s).file = streams[s].file
<1>1. streams[s] \in StreamState
  BY DEF TypeOK, FieldsTypeOK, ProcessTypeOK, RequestTypeOK
<1>2. streams[s].pos + 1 \in Nat \ {0}
  BY <1>1 DEF StreamState
<1>3. (IF streams[s].framing = "half" THEN "mended" ELSE streams[s].framing)
        \in Framing
  BY <1>1 DEF StreamState, Framing, AfterError
<1>4. (PairAt(s) = StatusNone) \in BOOLEAN
  OBVIOUS
<1>5. QED
  BY <1>1, <1>2, <1>3, <1>4, Zenon DEF Advanced, StreamState

\* What load_file_iteration() returns, and what it leaves the stream at.
LEMMA IterationType ==
    ASSUME TypeOK, NEW s \in Stream,
           NEW result \in Results(s),
           load_file_iteration(s, result)
    PROVE  /\ result \in TaskResult
           /\ streams' \in [Stream -> StreamState]
           /\ \A t \in Stream : streams'[t].file = streams[t].file
<1>1. result \in TaskResult
  BY
  DEF TypeOK, FieldsTypeOK, ProcessTypeOK, RequestTypeOK, Results, Result,
      NoResult, TaskResult, ResultKinds, StreamState
<1>2. /\ streams' \in [Stream -> StreamState]
      /\ \A t \in Stream : streams'[t].file = streams[t].file
  <2>1. CASE streams' = [streams EXCEPT ![s].skipped = FALSE]
    BY <2>1
    DEF TypeOK, FieldsTypeOK, ProcessTypeOK, RequestTypeOK, StreamState
  <2>2. ASSUME NEW f \in AfterError,
               streams' = [streams EXCEPT ![s].framing = f]
        PROVE  /\ streams' \in [Stream -> StreamState]
               /\ \A t \in Stream : streams'[t].file = streams[t].file
    BY <2>2
    DEF TypeOK, FieldsTypeOK, ProcessTypeOK, RequestTypeOK, StreamState,
        Framing, AfterError
  <2>3. CASE streams' = [streams EXCEPT ![s] = Advanced(s)]
    BY <2>3, AdvancedType
    DEF TypeOK, FieldsTypeOK, ProcessTypeOK, RequestTypeOK
  <2>4. QED
    BY <2>1, <2>2, <2>3 DEF load_file_iteration
<1>3. QED
  BY <1>1, <1>2

LEMMA ResultMessageType ==
    ASSUME TypeOK, NEW s \in Stream, NEW result \in TaskResult,
           streams[s].file \in File
    PROVE  ResultMessage(s, result) \in Message \cup {None}
  BY
  DEF TypeOK, FieldsTypeOK, ProcessTypeOK, RequestTypeOK, ResultMessage,
      Message, TaskResult, base_uri
-------------------------------------------------------------------------------
(* Types.  Reading needs more than types: a reader's stream is open.       *)

TypeInv == TypeOK /\ ReadersHaveStreams

LEMMA LoadReadType == TypeInv /\ uhm_server_load_trace_read => TypeInv'
<1> SUFFICES ASSUME TypeInv, uhm_server_load_trace_read PROVE TypeInv'
  OBVIOUS
<1> USE DEF TypeInv
<1>1. /\ app = "loading" /\ trace_file \in File
      /\ input_stream \in Stream /\ streams[input_stream].file \in File
  BY
  DEF uhm_server_load_trace_read, AppAt, TypeOK, FieldsTypeOK, ProcessTypeOK,
      RequestTypeOK, ReadersHaveStreams
<1>2. PICK result \in Results(input_stream) :
          /\ load_file_iteration(input_stream, result)
          /\ next_message' \in {next_message, ResultMessage(input_stream, result)}
  BY DEF uhm_server_load_trace_read
<1>3. /\ result \in TaskResult
      /\ streams' \in [Stream -> StreamState]
  BY <1>1, <1>2, IterationType
<1>4. \A s \in Stream : streams'[s].file = streams[s].file
  BY <1>1, <1>2, IterationType
<1>5. ReadersHaveStreams'
  BY <1>4
  DEF uhm_server_load_trace_read, TypeOK, FieldsTypeOK, ProcessTypeOK,
      RequestTypeOK, ReadersHaveStreams, handlerVars
<1>6. next_message' \in Message \cup {None}
  BY <1>1, <1>2, <1>3, ResultMessageType
  DEF TypeOK, FieldsTypeOK, ProcessTypeOK, RequestTypeOK
<1>7. resolver' \subseteq Host
  BY <1>1, EnvironmentAssumption
  DEF uhm_server_load_trace_read, load_hosts, TypeOK, FieldsTypeOK,
      ProcessTypeOK, RequestTypeOK
<1>8. /\ app' \in {"loading", "idle"}
      /\ trace_file' \in {trace_file, None}
      /\ message_counter' \in {message_counter, 0}
      /\ load_error' \in BOOLEAN
  BY <1>1
  DEF uhm_server_load_trace_read, load_hosts, TypeOK, FieldsTypeOK,
      ProcessTypeOK, RequestTypeOK
<1>9. TypeOK'
  BY <1>3, <1>6, <1>7, <1>8
  DEF uhm_server_load_trace_read, TypeOK, FieldsTypeOK, ProcessTypeOK,
      RequestTypeOK, handlerVars, clientVars, threadVars
<1>10. QED
  BY <1>5, <1>9

LEMMA RespondType ==
    ASSUME TypeOK, NEW c, NEW kind \in ReplyKinds,
           NEW m \in Message \cup {None}, Respond(c, kind, m)
    PROVE  /\ state' \in [Client -> {"idle", "transit", "ready", "handling",
                                     "answered", "dropped"}]
           /\ request' \in [Client -> Request \cup {None}]
           /\ reply' \in [Client -> Reply]
           /\ pc' = "idle" /\ current' = None /\ task_stream' = None
           /\ task_result' \in TaskResult /\ expected' = None
<1>1. reply' \in [Client -> Reply]
  <2>1. [NoReply EXCEPT !.kind = "own"] \in Reply
    BY DEF NoReply, Reply, ReplyKinds
  <2>2. [kind |-> kind, message |-> m, trace_file |-> trace_file,
         offset |-> message_counter] \in Reply
    BY DEF TypeOK, FieldsTypeOK, ProcessTypeOK, RequestTypeOK, Reply
  <2>3. QED
    BY <2>1, <2>2
    DEF Respond, TypeOK, FieldsTypeOK, ProcessTypeOK, RequestTypeOK
<1>2. task_result' \in TaskResult
  BY DEF Respond, NoResult, TaskResult, ResultKinds
<1>3. QED
  BY <1>1, <1>2 DEF Respond, TypeOK, FieldsTypeOK, ProcessTypeOK, RequestTypeOK

LEMMA WorkerType == TypeInv /\ load_file_iteration_thread_cb => TypeInv'
<1> SUFFICES ASSUME TypeInv, load_file_iteration_thread_cb PROVE TypeInv'
  OBVIOUS
<1> USE DEF TypeInv
<1>1. pc = "reading" /\ task_stream \in Stream
  BY
  DEF load_file_iteration_thread_cb, ServerAt, TypeOK, FieldsTypeOK,
      ProcessTypeOK, RequestTypeOK, ReadersHaveStreams
<1>2. PICK result \in Results(task_stream) :
          /\ load_file_iteration(task_stream, result)
          /\ task_result' = result
          /\ pc' \in {"reading", "read"}
  BY DEF load_file_iteration_thread_cb
<1>3. /\ result \in TaskResult
      /\ streams' \in [Stream -> StreamState]
      /\ \A s \in Stream : streams'[s].file = streams[s].file
  BY <1>1, <1>2, IterationType
<1>4. ReadersHaveStreams'
  BY <1>1, <1>2, <1>3
  DEF load_file_iteration_thread_cb, TypeOK, FieldsTypeOK, ProcessTypeOK,
      RequestTypeOK, ReadersHaveStreams, traceVars, appVars
<1>5. TypeOK'
  BY <1>2, <1>3
  DEF load_file_iteration_thread_cb, TypeOK, FieldsTypeOK, ProcessTypeOK,
      RequestTypeOK, traceVars, appVars, clientVars, threadVars
<1>6. QED
  BY <1>4, <1>5

LEMMA HandleType == TypeInv /\ real_handle_message => TypeInv'
<1> SUFFICES ASSUME TypeInv, real_handle_message PROVE TypeInv'
  OBVIOUS
<1> USE DEF TypeInv
<1>1. pc = "read" /\ task_stream \in Stream /\ streams[task_stream].file \in File
  BY
  DEF real_handle_message, ServerAt, TypeOK, FieldsTypeOK, ProcessTypeOK,
      RequestTypeOK, ReadersHaveStreams
<1>2. next_message' \in Message \cup {None}
  BY <1>1, ResultMessageType
  DEF real_handle_message, TypeOK, FieldsTypeOK, ProcessTypeOK, RequestTypeOK
<1>3. ASSUME NEW kind \in {"failed", "nothing"}, Respond(current, kind, None)
      PROVE  TypeInv'
  <2>1. kind \in ReplyKinds /\ None \in Message \cup {None}
    BY DEF ReplyKinds
  <2>2. QED
    BY <1>2, <1>3, <2>1, RespondType
    DEF real_handle_message, TypeOK, FieldsTypeOK, ProcessTypeOK,
        RequestTypeOK, ReadersHaveStreams, appVars, threadVars
<1>4. CASE /\ pc' = "process"
           /\ task_stream' = None
           /\ task_result' = NoResult
           /\ UNCHANGED <<current, expected, clientVars>>
  <2>1. NoResult \in TaskResult
    BY DEF NoResult, TaskResult, ResultKinds
  <2>2. QED
    BY <1>2, <1>4, <2>1
    DEF real_handle_message, TypeOK, FieldsTypeOK, ProcessTypeOK,
        RequestTypeOK, ReadersHaveStreams, appVars, clientVars, threadVars
<1>5. QED
  BY <1>3, <1>4 DEF real_handle_message

LEMMA CompareType == TypeInv /\ compare_incoming_message => TypeInv'
<1> SUFFICES ASSUME TypeInv, compare_incoming_message PROVE TypeInv'
  OBVIOUS
<1> USE DEF TypeInv
<1>1. next_message' \in Message \cup {None}
  BY DEF compare_incoming_message, cleared, TypeOK, FieldsTypeOK
<1>2. PICK kind \in ReplyKinds : Respond(current, kind, next_message)
  BY DEF compare_incoming_message, ReplyKinds
<1>3. next_message \in Message \cup {None}
  BY DEF TypeOK, FieldsTypeOK
<1>4. FieldsTypeOK' /\ ProcessTypeOK'
  BY <1>1
  DEF compare_incoming_message, TypeOK, FieldsTypeOK, ProcessTypeOK, appVars,
      threadVars
<1>5. RequestTypeOK'
  BY <1>2, <1>3, RespondType DEF RequestTypeOK
<1>6. ReadersHaveStreams'
  BY <1>2, <1>3, RespondType
  DEF compare_incoming_message, ReadersHaveStreams, appVars
<1>7. QED
  BY <1>4, <1>5, <1>6 DEF TypeOK

LEMMA AbortType ==
    ASSUME TypeInv, NEW where, Abort(where),
           where \in {"input_stream", "load_file_iteration", "next_message",
                      "uri_get_path_query"}
    PROVE  TypeInv'
  BY
  DEF Abort, TypeInv, TypeOK, FieldsTypeOK, ProcessTypeOK, RequestTypeOK,
      ReadersHaveStreams, traceVars, appVars, handlerVars, clientVars,
      threadVars

LEMMA LoadType ==
    ASSUME TypeInv, NEW f \in File, uhm_server_load_trace(f)
    PROVE  TypeInv'
<1> USE DEF TypeInv
<1>1. CASE \E s \in Stream \ {task_stream} :
              input_stream' = s /\ streams' = [streams EXCEPT ![s] = AtStart(f)]
  <2>1. PICK s \in Stream \ {task_stream} :
           input_stream' = s /\ streams' = [streams EXCEPT ![s] = AtStart(f)]
    BY <1>1
  <2>2. AtStart(f) \in StreamState /\ AtStart(f).file = f
    BY DEF AtStart, StreamState, Framing
  <2>3. streams' \in [Stream -> StreamState] /\ streams'[s].file = f
    BY <2>1, <2>2 DEF TypeOK, FieldsTypeOK, ProcessTypeOK, RequestTypeOK
  <2>4. task_stream # None => streams'[task_stream].file = streams[task_stream].file
    BY <2>1 DEF TypeOK, FieldsTypeOK, ProcessTypeOK, RequestTypeOK
  <2>5. load_error' \in BOOLEAN /\ app' \in {"idle", "loading", "joining"}
    BY DEF uhm_server_load_trace, TypeOK, ProcessTypeOK
  <2>6. FieldsTypeOK'
    <3>1. trace_file' \in File \cup {None} /\ input_stream' \in Stream \cup {None}
      BY <2>1 DEF uhm_server_load_trace, TypeOK, FieldsTypeOK
    <3>2. UNCHANGED <<server, resolver, expected_domain_names, enable_online,
                      next_message, message_counter>>
      BY DEF uhm_server_load_trace
    <3>3. server_thread' = server_thread
      BY DEF uhm_server_load_trace, threadVars
    <3>4. QED
      BY <3>1, <3>2, <3>3 DEF TypeOK, FieldsTypeOK
  <2>7. ProcessTypeOK'
    BY <2>3, <2>5 DEF uhm_server_load_trace, TypeOK, ProcessTypeOK, threadVars
  <2>8. RequestTypeOK'
    BY DEF uhm_server_load_trace, TypeOK, RequestTypeOK, handlerVars, clientVars
  <2>9. ReadersHaveStreams'
    BY <2>1, <2>3, <2>4, TraceAssumption, ServerAssumption
    DEF uhm_server_load_trace, TypeOK, RequestTypeOK, ReadersHaveStreams,
        handlerVars
  <2>10. QED
    BY <2>6, <2>7, <2>8, <2>9 DEF TypeOK
<1>2. CASE UNCHANGED <<trace_file, input_stream, streams, app>>
  <2>1. load_error' \in BOOLEAN
    BY
    DEF uhm_server_load_trace, TypeOK, FieldsTypeOK, ProcessTypeOK,
        RequestTypeOK
  <2>2. QED
    BY <1>2, <2>1
    DEF uhm_server_load_trace, TypeOK, FieldsTypeOK, ProcessTypeOK,
        RequestTypeOK, ReadersHaveStreams, handlerVars, clientVars, threadVars
<1>3. QED
  BY <1>1, <1>2 DEF uhm_server_load_trace

LEMMA TypeNext == TypeInv /\ [Next]_vars => TypeInv'
<1> SUFFICES ASSUME TypeInv, [Next]_vars PROVE TypeInv'
  OBVIOUS
<1>1. CASE uhm_server_run
  BY <1>1
  DEF uhm_server_run, apply_expected_domain_names, TypeInv, TypeOK,
      FieldsTypeOK, ProcessTypeOK, RequestTypeOK, ReadersHaveStreams,
      traceVars, appVars, handlerVars, clientVars, threadVars
<1>2. CASE uhm_server_stop
  BY <1>2
  DEF uhm_server_stop, attach_idle, TypeInv, TypeOK, FieldsTypeOK,
      ProcessTypeOK, RequestTypeOK, ReadersHaveStreams, traceVars, appVars,
      handlerVars, clientVars, threadVars
<1>3. CASE uhm_server_stop_joined
  BY <1>3
  DEF uhm_server_stop_joined, unload_trace, TypeInv, TypeOK, FieldsTypeOK,
      ProcessTypeOK, RequestTypeOK, ReadersHaveStreams, traceVars, appVars,
      handlerVars, clientVars, threadVars
<1>4. CASE uhm_server_unload_trace
  <2>1. FieldsTypeOK'
    BY <1>4
    DEF uhm_server_unload_trace, unload_trace, AppAt, TypeInv, TypeOK, FieldsTypeOK,
        traceVars, appVars,
        handlerVars, clientVars, threadVars
  <2>2. ProcessTypeOK'
    BY <1>4
    DEF uhm_server_unload_trace, unload_trace, AppAt, TypeInv, TypeOK, ProcessTypeOK,
        traceVars, appVars,
        handlerVars, clientVars, threadVars
  <2>3. RequestTypeOK'
    BY <1>4
    DEF uhm_server_unload_trace, unload_trace, AppAt, TypeInv, TypeOK, RequestTypeOK,
        traceVars, appVars,
        handlerVars, clientVars, threadVars
  <2>4. ReadersHaveStreams'
    BY <1>4
    DEF uhm_server_unload_trace, unload_trace, AppAt, TypeInv, ReadersHaveStreams,
        traceVars, appVars,
        handlerVars, clientVars, threadVars
  <2>5. QED
    BY <2>1, <2>2, <2>3, <2>4 DEF TypeInv, TypeOK
<1>5. ASSUME NEW names \in DomainNames, uhm_server_set_expected_domain_names(names)
     PROVE  TypeInv'
  BY <1>5, ServerAssumption
  DEF uhm_server_set_expected_domain_names, apply_expected_domain_names,
      TypeInv, TypeOK, FieldsTypeOK, ProcessTypeOK, RequestTypeOK,
      ReadersHaveStreams, traceVars, appVars, handlerVars, clientVars,
      threadVars
<1>6. ASSUME NEW h \in Host, uhm_resolver_add_A(h)
     PROVE  TypeInv'
  BY <1>6
  DEF uhm_resolver_add_A, TypeInv, TypeOK, FieldsTypeOK, ProcessTypeOK,
      RequestTypeOK, ReadersHaveStreams, traceVars, appVars, handlerVars,
      clientVars, threadVars
<1>7. ASSUME NEW b \in BOOLEAN, uhm_server_set_enable_online(b)
     PROVE  TypeInv'
  BY <1>7
  DEF uhm_server_set_enable_online, TypeInv, TypeOK, FieldsTypeOK,
      ProcessTypeOK, RequestTypeOK, ReadersHaveStreams, traceVars, appVars,
      handlerVars, clientVars, threadVars
<1>8. ASSUME NEW c \in Client, Arrive(c)
     PROVE  TypeInv'
  BY <1>8
  DEF Arrive, TypeInv, TypeOK, FieldsTypeOK, ProcessTypeOK, RequestTypeOK,
      ReadersHaveStreams, traceVars, appVars, handlerVars, clientVars,
      threadVars
<1>9. ASSUME NEW c \in Client, NEW r \in Request, Send(c, r)
     PROVE  TypeInv'
  <2>1. NoReply \in Reply
    BY DEF NoReply, Reply, ReplyKinds
  <2>2. QED
    BY <1>9, <2>1
    DEF Send, TypeInv, TypeOK, FieldsTypeOK, ProcessTypeOK, RequestTypeOK,
        ReadersHaveStreams, traceVars, appVars, handlerVars, threadVars
<1>10. ASSUME NEW c \in Client, server_handler_cb(c)
     PROVE  TypeInv'
  BY <1>10
  DEF server_handler_cb, ServerAt, TypeInv, TypeOK, FieldsTypeOK,
      ProcessTypeOK, RequestTypeOK, ReadersHaveStreams, traceVars, appVars,
      handlerVars, clientVars, threadVars
<1>11. ASSUME NEW c \in Client, server_handler_cb_own(c)
     PROVE  TypeInv'
  <2>1. "own" \in ReplyKinds /\ None \in Message \cup {None}
    BY DEF ReplyKinds
  <2>2. Respond(c, "own", None)
    BY <1>11 DEF server_handler_cb_own
  <2>3. FieldsTypeOK' /\ ProcessTypeOK'
    BY <1>11
    DEF server_handler_cb_own, TypeInv, TypeOK, FieldsTypeOK, ProcessTypeOK,
        traceVars, appVars, threadVars
  <2>4. RequestTypeOK'
    BY <2>1, <2>2, RespondType DEF TypeInv, RequestTypeOK
  <2>5. ReadersHaveStreams'
    BY <1>11, <2>1, <2>2, RespondType
    DEF server_handler_cb_own, TypeInv, ReadersHaveStreams, traceVars, appVars
  <2>6. QED
    BY <2>3, <2>4, <2>5 DEF TypeInv, TypeOK
<1>12. CASE server_process_message
  BY <1>12
  DEF server_process_message, counted, TypeInv, TypeOK, FieldsTypeOK,
      ProcessTypeOK, RequestTypeOK, ReadersHaveStreams, traceVars, appVars,
      handlerVars, clientVars, threadVars
<1>13. CASE server_thread_quit_cb
  <2>1. FieldsTypeOK'
    BY <1>13
    DEF server_thread_quit_cb, TypeInv, TypeOK, FieldsTypeOK,
        traceVars, appVars,
        handlerVars, clientVars, threadVars
  <2>2. ProcessTypeOK'
    BY <1>13
    DEF server_thread_quit_cb, TypeInv, TypeOK, ProcessTypeOK,
        traceVars, appVars,
        handlerVars, clientVars, threadVars
  <2>3. RequestTypeOK'
    BY <1>13
    DEF server_thread_quit_cb, TypeInv, TypeOK, RequestTypeOK,
        traceVars, appVars,
        handlerVars, clientVars, threadVars
  <2>4. ReadersHaveStreams'
    BY <1>13
    DEF server_thread_quit_cb, TypeInv, ReadersHaveStreams,
        traceVars, appVars,
        handlerVars, clientVars, threadVars
  <2>5. QED
    BY <2>1, <2>2, <2>3, <2>4 DEF TypeInv, TypeOK
<1>14. CASE \/ uhm_server_load_trace_asserts
           \/ \E c \in Client : server_handler_cb_asserts(c)
           \/ load_file_iteration_thread_cb_asserts
           \/ server_process_message_asserts
           \/ compare_incoming_message_asserts
           \/ uri_get_path_query_crashes
  BY <1>14, AbortType
  DEF uhm_server_load_trace_asserts, server_handler_cb_asserts,
      load_file_iteration_thread_cb_asserts, load_file_iteration_asserts,
      server_process_message_asserts, compare_incoming_message_asserts,
      uri_get_path_query_crashes
<1>15. CASE UNCHANGED vars
  BY <1>15
  DEF vars, TypeInv, TypeOK, FieldsTypeOK, ProcessTypeOK, RequestTypeOK,
      ReadersHaveStreams, traceVars, appVars, handlerVars, clientVars,
      threadVars
<1>16. CASE Application
  BY <1>1, <1>2, <1>3, <1>4, <1>5, <1>6, <1>7, <1>14, LoadType, LoadReadType,
     <1>16
  DEF Application
<1>17. CASE Network
  BY <1>8, <1>9, <1>17 DEF Network
<1>18. CASE ServerThread
  <2>1. CASE \E c \in Client : Dispatch(c)
    BY <1>10, <1>11, <1>14, <2>1 DEF Dispatch
  <2>2. CASE Handle
    <3>1. CASE load_file_iteration_thread_cb
      BY <3>1, WorkerType
    <3>2. CASE real_handle_message
      BY <3>2, HandleType
    <3>3. CASE compare_incoming_message
      BY <3>3, CompareType
    <3>4. CASE server_process_message
      BY <3>4, <1>12
    <3>5. CASE \/ load_file_iteration_thread_cb_asserts
               \/ server_process_message_asserts
               \/ compare_incoming_message_asserts
               \/ uri_get_path_query_crashes
      BY <3>5, AbortType
      DEF load_file_iteration_thread_cb_asserts, load_file_iteration_asserts,
          server_process_message_asserts, compare_incoming_message_asserts,
          uri_get_path_query_crashes
    <3>6. QED
      BY <2>2, <3>1, <3>2, <3>3, <3>4, <3>5 DEF Handle
  <2>3. QED
    BY <1>13, <1>18, <2>1, <2>2 DEF ServerThread
<1>19. QED
  BY <1>15, <1>16, <1>17, <1>18 DEF Next, Dead

\* Whatever the application does and whatever fails, every variable keeps its
\* type and a thread that reads has an open stream.
THEOREM TypeCorrect == Spec => []TypeOK
<1>1. Init => TypeInv
  BY TypeInit DEF TypeInv, ReadersHaveStreams, Init
<1>2. TypeInv => TypeOK
  BY DEF TypeInv
<1>3. QED
  BY <1>1, <1>2, TypeNext, PTL DEF Spec
-------------------------------------------------------------------------------
(* The lifecycle: a server and its thread come and go together.            *)

LEMMA LifecycleInit == Init => Lifecycle
  BY DEF Init, Lifecycle

LEMMA LifecycleApplication ==
    ASSUME TypeOK, Lifecycle, Application
    PROVE  Lifecycle'
<1>1. CASE uhm_server_run
  BY <1>1 DEF Lifecycle, uhm_server_run, AppAt, handlerVars, TypeOK, FieldsTypeOK
<1>2. CASE uhm_server_stop
  BY <1>2
  DEF Lifecycle, uhm_server_stop, AppAt, attach_idle, handlerVars, TypeOK,
      FieldsTypeOK
<1>3. CASE uhm_server_stop_joined
  BY <1>3 DEF Lifecycle, uhm_server_stop_joined, g_thread_join, handlerVars
<1>4. CASE uhm_server_unload_trace
  BY <1>4 DEF Lifecycle, uhm_server_unload_trace, handlerVars, threadVars
<1>5. ASSUME NEW f \in File, uhm_server_load_trace(f) PROVE Lifecycle'
  BY <1>5
  DEF Lifecycle, uhm_server_load_trace, AppAt, handlerVars, threadVars
<1>6. CASE uhm_server_load_trace_read
  BY <1>6
  DEF Lifecycle, uhm_server_load_trace_read, AppAt, handlerVars, threadVars
<1>7. CASE uhm_server_load_trace_asserts
  BY <1>7
  DEF Lifecycle, uhm_server_load_trace_asserts, load_file_iteration_asserts,
      Abort, appVars, handlerVars, threadVars
<1>8. ASSUME NEW names \in DomainNames,
             uhm_server_set_expected_domain_names(names)
      PROVE  Lifecycle'
  BY <1>8
  DEF Lifecycle, uhm_server_set_expected_domain_names, handlerVars, threadVars
<1>9. ASSUME NEW h \in Host, uhm_resolver_add_A(h) PROVE Lifecycle'
  BY <1>9
  DEF Lifecycle, uhm_resolver_add_A, appVars, handlerVars, threadVars
<1>10. ASSUME NEW b \in BOOLEAN, uhm_server_set_enable_online(b)
       PROVE  Lifecycle'
  BY <1>10
  DEF Lifecycle, uhm_server_set_enable_online, handlerVars, threadVars
<1>11. QED
  BY <1>1, <1>2, <1>3, <1>4, <1>5, <1>6, <1>7, <1>8, <1>9, <1>10
  DEF Application

LEMMA LifecycleServerThread ==
    ASSUME Lifecycle, ServerThread
    PROVE  Lifecycle'
<1>1. ASSUME NEW c \in Client, Dispatch(c) PROVE Lifecycle'
  <2>1. CASE server_handler_cb(c)
    BY <2>1
    DEF Lifecycle, server_handler_cb, ServerAt, appVars, threadVars
  <2>2. CASE server_handler_cb_own(c)
    BY <2>2
    DEF Lifecycle, server_handler_cb_own, Respond, appVars, threadVars
  <2>3. CASE server_handler_cb_asserts(c)
    BY <2>3
    DEF Lifecycle, server_handler_cb_asserts, Abort, appVars, handlerVars,
        threadVars
  <2>4. QED
    BY <1>1, <2>1, <2>2, <2>3 DEF Dispatch
<1>2. CASE Handle
  <2>1. CASE load_file_iteration_thread_cb
    BY <2>1
    DEF Lifecycle, load_file_iteration_thread_cb, ServerAt, appVars,
        threadVars
  <2>2. CASE real_handle_message
    BY <2>2
    DEF Lifecycle, real_handle_message, Respond, ServerAt, appVars, threadVars
  <2>3. CASE server_process_message
    BY <2>3
    DEF Lifecycle, server_process_message, ServerAt, appVars, threadVars
  <2>4. CASE compare_incoming_message
    BY <2>4
    DEF Lifecycle, compare_incoming_message, Respond, appVars, threadVars
  <2>5. CASE \/ load_file_iteration_thread_cb_asserts
             \/ server_process_message_asserts
             \/ compare_incoming_message_asserts
             \/ uri_get_path_query_crashes
    BY <2>5
    DEF Lifecycle, load_file_iteration_thread_cb_asserts,
        load_file_iteration_asserts, server_process_message_asserts,
        compare_incoming_message_asserts, uri_get_path_query_crashes, Abort,
        appVars, handlerVars, threadVars
  <2>6. QED
    BY <1>2, <2>1, <2>2, <2>3, <2>4, <2>5 DEF Handle
<1>3. CASE server_thread_quit_cb
  BY <1>3
  DEF Lifecycle, server_thread_quit_cb, ServerAt, appVars, handlerVars
<1>4. QED
  BY <1>1, <1>2, <1>3 DEF ServerThread

LEMMA LifecycleNext == TypeOK /\ Lifecycle /\ [Next]_vars => Lifecycle'
<1> SUFFICES ASSUME TypeOK, Lifecycle, [Next]_vars PROVE Lifecycle'
  OBVIOUS
<1>1. CASE Application
  BY <1>1, LifecycleApplication
<1>2. CASE Network
  <2>1. UNCHANGED <<appVars, handlerVars, threadVars>>
    BY <1>2 DEF Network, Arrive, Send, appVars, handlerVars, threadVars
  <2>2. QED
    BY <2>1 DEF Lifecycle, appVars, handlerVars, threadVars
<1>3. CASE ServerThread
  BY <1>3, LifecycleServerThread
<1>4. CASE UNCHANGED vars
  BY <1>4 DEF Lifecycle, vars, appVars, handlerVars, threadVars
<1>5. QED
  BY <1>1, <1>2, <1>3, <1>4 DEF Next, Dead

\* Whatever the application does, a request is never handled by a server that
\* is being torn down: uhm_server_stop() waits for it, at every interleaving.
THEOREM StopIsSafe == Spec => []StopWaitsForHandler
<1>1. Lifecycle => StopWaitsForHandler
  BY DEF Lifecycle, StopWaitsForHandler
<1>2. QED
  BY <1>1, LifecycleInit, LifecycleNext, TypeCorrect, PTL DEF Spec

\* The names an application set once are in the resolver of every server it
\* runs later, and reloading or unloading a trace does not remove them.
THEOREM NamesResolve == Spec => []ExpectedNamesResolve
<1>1. Init => ExpectedNamesResolve
  BY DEF Init, ExpectedNamesResolve
<1>2. ASSUME ExpectedNamesResolve, [Next]_vars PROVE ExpectedNamesResolve'
  <2> USE <1>2 DEF ExpectedNamesResolve
  <2>1. CASE UNCHANGED <<server, expected_domain_names, resolver>>
    BY <2>1
  <2>2. CASE Application
    <3>1. CASE uhm_server_run
      BY <3>1 DEF uhm_server_run, apply_expected_domain_names
    <3>2. CASE uhm_server_stop
      BY <3>2 DEF uhm_server_stop
    <3>3. CASE uhm_server_stop_joined
      BY <3>3 DEF uhm_server_stop_joined
    <3>4. CASE uhm_server_unload_trace
      BY <3>4 DEF uhm_server_unload_trace
    <3>5. ASSUME NEW f \in File, uhm_server_load_trace(f)
          PROVE  ExpectedNamesResolve'
      BY <3>5 DEF uhm_server_load_trace
    <3>6. CASE uhm_server_load_trace_read
      BY <3>6 DEF uhm_server_load_trace_read, load_hosts
    <3>7. CASE uhm_server_load_trace_asserts
      BY <3>7, <2>1
      DEF uhm_server_load_trace_asserts, load_file_iteration_asserts, Abort,
          appVars
    <3>8. ASSUME NEW names \in DomainNames,
                 uhm_server_set_expected_domain_names(names)
          PROVE  ExpectedNamesResolve'
      BY <3>8
      DEF uhm_server_set_expected_domain_names, apply_expected_domain_names
    <3>9. ASSUME NEW h \in Host, uhm_resolver_add_A(h)
          PROVE  ExpectedNamesResolve'
      BY <3>9 DEF uhm_resolver_add_A, appVars
    <3>10. ASSUME NEW b \in BOOLEAN, uhm_server_set_enable_online(b)
           PROVE  ExpectedNamesResolve'
      BY <3>10 DEF uhm_server_set_enable_online
    <3>11. QED
      BY <2>2, <3>1, <3>2, <3>3, <3>4, <3>5, <3>6, <3>7, <3>8, <3>9, <3>10
      DEF Application
  <2>3. CASE Network
    BY <2>1, <2>3 DEF Network, Arrive, Send, appVars
  <2>4. CASE ServerThread
    <3>1. UNCHANGED <<appVars, resolver>>
      BY <2>4
      DEF ServerThread, Dispatch, server_handler_cb, server_handler_cb_own,
          server_handler_cb_asserts, Handle, load_file_iteration_thread_cb,
          load_file_iteration_thread_cb_asserts, load_file_iteration_asserts,
          real_handle_message, server_process_message,
          server_process_message_asserts, compare_incoming_message,
          compare_incoming_message_asserts, uri_get_path_query_crashes,
          server_thread_quit_cb, Abort
    <3>2. QED
      BY <2>1, <3>1 DEF appVars
  <2>5. CASE UNCHANGED vars
    BY <2>1, <2>5 DEF vars, appVars
  <2>6. QED
    BY <2>2, <2>3, <2>4, <2>5 DEF Next, Dead
<1>3. QED
  BY <1>1, <1>2, PTL DEF Spec
-------------------------------------------------------------------------------
(* Why the handlers of an orderly application cannot fail an assertion.    *)
(* InHand is the part of Disciplined that Lifecycle and types do not give. *)

\* A request in hand is an outstanding one, so a calm application finds the
\* server thread between two requests.
LEMMA CalmIsIdle ==
    ASSUME Orderly, Calm, OneRequestInHand
    PROVE  pc = "idle" /\ \A c \in Client : ~Outstanding(c)
  BY DEF Orderly, Calm, OneRequestInHand, Outstanding

LEMMA LoadInHand ==
    ASSUME Orderly, TypeInv, InHand, NEW f \in File,
           uhm_server_load_trace(f)
    PROVE  InHand'
<1>1. pc = "idle" /\ \A c \in Client : ~Outstanding(c)
  BY CalmIsIdle DEF InHand, uhm_server_load_trace
<1>2. OneRequestInHand'
  BY <1>1
  DEF InHand, OneRequestInHand, uhm_server_load_trace, clientVars, handlerVars
<1>3. \A c \in Client : ~Outstanding(c)'
  BY <1>1 DEF Outstanding, uhm_server_load_trace, clientVars
<1>4. TraceStaysLoaded'
  BY <1>1, <1>3, ServerAssumption
  DEF InHand, TraceStaysLoaded, uhm_server_load_trace, AppAt, base_uri,
      handlerVars
<1>5. QED
  BY <1>2, <1>4 DEF InHand, OnlyKnownCrashes, uhm_server_load_trace

LEMMA LoadReadInHand ==
    ASSUME TypeInv, InHand, uhm_server_load_trace_read
    PROVE  InHand'
<1>1. /\ app = "loading" /\ next_message = None
      /\ base_uri \/ "load_before_run" \in Usage
      /\ trace_file # None /\ input_stream # None
  BY
  DEF uhm_server_load_trace_read, AppAt, InHand, TraceStaysLoaded, TypeInv,
      ReadersHaveStreams
<1>2. pc = "idle"
  BY <1>1 DEF InHand, OneRequestInHand, TraceStaysLoaded, Outstanding
<1>3. OneRequestInHand'
  BY <1>2
  DEF InHand, OneRequestInHand, uhm_server_load_trace_read, clientVars,
      handlerVars
<1>4. \A c \in Client : Outstanding(c)' => server /\ request[c] \in OwnHandled
  BY <1>1
  DEF InHand, TraceStaysLoaded, Outstanding, uhm_server_load_trace_read,
      clientVars
<1>5. /\ next_message' # None => trace_file' # None
      /\ app' = "loading" => next_message' = None
      /\ input_stream' # None
      /\ \/ "load_before_run" \in Usage
         \/ /\ next_message' # None => next_message'.based
            /\ app' = "loading" => base_uri'
  <2>1. \A result :
            LET m == ResultMessage(input_stream, result)
            IN  m # None => /\ m.based \/ "load_before_run" \in Usage
                            /\ result.kind # "error"
    BY <1>1 DEF ResultMessage
  <2>2. UNCHANGED <<input_stream, server, enable_online>>
    BY DEF uhm_server_load_trace_read
  <2>3. CASE UNCHANGED <<trace_file, next_message, app>>
    BY <1>1, <2>2, <2>3 DEF base_uri
  <2>4. ASSUME NEW result, next_message' = ResultMessage(input_stream, result),
               app' = "idle",
               result.kind # "error" => trace_file' = trace_file
        PROVE  /\ next_message' # None =>
                      /\ trace_file' # None
                      /\ next_message'.based \/ "load_before_run" \in Usage
               /\ app' # "loading"
    BY <1>1, <2>1, <2>4
  <2>5. QED
    BY <1>1, <2>2, <2>3, <2>4 DEF uhm_server_load_trace_read
<1>6. TraceStaysLoaded'
  BY <1>2, <1>4, <1>5
  DEF TraceStaysLoaded, uhm_server_load_trace_read, clientVars, handlerVars
<1>7. QED
  BY <1>3, <1>6 DEF InHand, OnlyKnownCrashes, uhm_server_load_trace_read

LEMMA ApplicationInHand ==
    ASSUME Orderly, TypeInv, Lifecycle, InHand, Application
    PROVE  InHand'
<1>1. CASE uhm_server_run
  <2>1. \A c \in Client : ~Outstanding(c)
    BY <1>1 DEF uhm_server_run, InHand, TraceStaysLoaded
  <2>2. OneRequestInHand'
    BY <1>1
    DEF uhm_server_run, InHand, OneRequestInHand, traceVars, clientVars,
        handlerVars
  <2>3. TraceStaysLoaded'
    BY <1>1, <2>1
    DEF uhm_server_run, InHand, TraceStaysLoaded, Outstanding, base_uri,
        traceVars, clientVars, handlerVars
  <2>4. QED
    BY <1>1, <2>2, <2>3 DEF InHand, OnlyKnownCrashes, uhm_server_run
<1>2. CASE uhm_server_stop
  BY <1>2
  DEF uhm_server_stop, InHand, OneRequestInHand, TraceStaysLoaded,
      OnlyKnownCrashes, Outstanding, base_uri, traceVars, clientVars,
      handlerVars
<1>3. CASE uhm_server_stop_joined
  <2>1. pc = "idle"
    BY <1>3 DEF uhm_server_stop_joined, g_thread_join, Lifecycle
  <2>2. \A c \in Client : state[c] # "handling" /\ ~Outstanding(c)'
    BY <1>3, <2>1
    DEF InHand, OneRequestInHand, Outstanding, uhm_server_stop_joined, TypeInv,
        TypeOK, RequestTypeOK
  <2>3. \A c \in Client : state'[c] # "handling"
    BY <2>2 DEF Outstanding
  <2>4. OneRequestInHand'
    BY <1>3, <2>1, <2>3
    DEF uhm_server_stop_joined, OneRequestInHand, handlerVars
  <2>5. TraceStaysLoaded'
    BY <1>3, <2>1, <2>2
    DEF uhm_server_stop_joined, unload_trace, TraceStaysLoaded, handlerVars
  <2>6. QED
    BY <1>3, <2>4, <2>5 DEF InHand, OnlyKnownCrashes, uhm_server_stop_joined
<1>4. CASE uhm_server_unload_trace
  <2>1. pc = "idle" /\ \A c \in Client : ~Outstanding(c)
    BY <1>4, CalmIsIdle DEF InHand, uhm_server_unload_trace
  <2>2. OneRequestInHand'
    BY <1>4, <2>1
    DEF InHand, OneRequestInHand, uhm_server_unload_trace, clientVars,
        handlerVars
  <2>3. TraceStaysLoaded'
    BY <1>4, <2>1
    DEF uhm_server_unload_trace, unload_trace, TraceStaysLoaded, AppAt,
        Outstanding, clientVars, handlerVars
  <2>4. QED
    BY <1>4, <2>2, <2>3 DEF InHand, OnlyKnownCrashes, uhm_server_unload_trace
<1>5. CASE uhm_server_load_trace_asserts
  BY <1>5
  DEF uhm_server_load_trace_asserts, load_file_iteration_asserts, Abort, InHand,
      OneRequestInHand, TraceStaysLoaded, OnlyKnownCrashes, Outstanding,
      base_uri, traceVars, appVars, clientVars, handlerVars
<1>6. ASSUME NEW names \in DomainNames,
             uhm_server_set_expected_domain_names(names)
      PROVE  InHand'
  BY <1>6
  DEF uhm_server_set_expected_domain_names, InHand, OneRequestInHand,
      TraceStaysLoaded, OnlyKnownCrashes, Outstanding, base_uri, traceVars,
      clientVars, handlerVars
<1>7. ASSUME NEW h \in Host, uhm_resolver_add_A(h) PROVE InHand'
  BY <1>7
  DEF uhm_resolver_add_A, InHand, OneRequestInHand, TraceStaysLoaded,
      OnlyKnownCrashes, Outstanding, base_uri, traceVars, appVars, clientVars,
      handlerVars
<1>8. ASSUME NEW b \in BOOLEAN, uhm_server_set_enable_online(b) PROVE InHand'
  BY <1>8
  DEF uhm_server_set_enable_online, AppAt, InHand, OneRequestInHand,
      TraceStaysLoaded, OnlyKnownCrashes, Outstanding, base_uri, traceVars,
      clientVars, handlerVars
<1>9. QED
  BY <1>1, <1>2, <1>3, <1>4, <1>5, <1>6, <1>7, <1>8, LoadInHand,
     LoadReadInHand
  DEF Application

LEMMA NetworkInHand ==
    ASSUME Orderly, TypeInv, InHand, Network
    PROVE  InHand'
<1>1. ASSUME NEW c \in Client, Arrive(c) PROVE InHand'
  <2>1. OneRequestInHand'
    BY <1>1
    DEF Arrive, InHand, OneRequestInHand, TypeInv, TypeOK, RequestTypeOK,
        traceVars, handlerVars
  <2>2. \A d \in Client : Outstanding(d)' => Outstanding(d)
    BY <1>1 DEF Arrive, Outstanding, TypeInv, TypeOK, RequestTypeOK
  <2>3. TraceStaysLoaded'
    BY <1>1, <2>2
    DEF Arrive, InHand, TraceStaysLoaded, base_uri, traceVars, appVars,
        handlerVars
  <2>4. QED
    BY <1>1, <2>1, <2>3 DEF InHand, OnlyKnownCrashes, Arrive
<1>2. ASSUME NEW c \in Client, NEW r \in Request, Send(c, r) PROVE InHand'
  <2>1. OneRequestInHand'
    BY <1>2
    DEF Send, Outstanding, InHand, OneRequestInHand, TypeInv, TypeOK,
        RequestTypeOK, traceVars, handlerVars
  <2>2. \A d \in Client \ {c} :
            request'[d] = request[d] /\ Outstanding(d)' = Outstanding(d)
    BY <1>2 DEF Send, Outstanding, TypeInv, TypeOK, RequestTypeOK
  <2>3. /\ request'[c] = r
        /\ server
        /\ r \notin OwnHandled => trace_file # None /\ app # "loading"
    BY <1>2 DEF Orderly, Send, TypeInv, TypeOK, RequestTypeOK
  <2>4. pc # "idle" => current # c
    BY <1>2 DEF Send, Outstanding, InHand, OneRequestInHand
  <2>5. pc # "idle" => current \in Client
    BY DEF InHand, OneRequestInHand
  <2>6. UNCHANGED <<traceVars, appVars, handlerVars>>
    BY <1>2 DEF Send
  <2>7. TraceStaysLoaded'
    BY <2>2, <2>3, <2>4, <2>5, <2>6
    DEF InHand, TraceStaysLoaded, base_uri, traceVars, appVars, handlerVars
  <2>8. QED
    BY <1>2, <2>1, <2>7 DEF InHand, OnlyKnownCrashes, Send
<1>3. QED
  BY <1>1, <1>2 DEF Network

\* The handler returns: its request was the one in hand.
LEMMA RespondInHand ==
    ASSUME TypeInv, InHand, NEW c \in Client, NEW kind, NEW m,
           Respond(c, kind, m),
           pc = "idle" \/ current = c,
           UNCHANGED <<trace_file, input_stream, appVars, aborted>>,
           \/ next_message' \in {next_message, None}
           \/ next_message'.based /\ trace_file # None,
           app # "loading" \/ next_message' = None
    PROVE  InHand'
<1>1. /\ pc' = "idle"
      /\ \A d \in Client \ {c} :
            state'[d] = state[d] /\ request'[d] = request[d]
      /\ state'[c] = "answered"
  BY DEF Respond, TypeInv, TypeOK, RequestTypeOK
<1>2. OneRequestInHand'
  BY <1>1 DEF InHand, OneRequestInHand
<1>3. \A d \in Client : Outstanding(d)' => Outstanding(d) /\ d # c
  BY <1>1 DEF Outstanding
<1>4. TraceStaysLoaded'
  BY <1>1, <1>3 DEF InHand, TraceStaysLoaded, base_uri, appVars
<1>5. QED
  BY <1>2, <1>4 DEF InHand, OnlyKnownCrashes

\* No assertion of the handler can fail, and it meets no message without a URI
\* but one that was loaded first.
LEMMA HandlerAsserts ==
    ASSUME InHand
    PROVE  /\ \A c \in Client : ~server_handler_cb_asserts(c)
           /\ ~server_process_message_asserts
           /\ ~compare_incoming_message_asserts
           /\ uri_get_path_query_crashes => "load_before_run" \in Usage
  BY
  DEF InHand, OneRequestInHand, TraceStaysLoaded, Outstanding,
      server_handler_cb_asserts, server_process_message_asserts,
      compare_incoming_message_asserts, uri_get_path_query_crashes, ServerAt

LEMMA DispatchInHand ==
    ASSUME TypeInv, InHand, NEW c \in Client, Dispatch(c)
    PROVE  InHand'
<1>1. CASE server_handler_cb_own(c)
  <2>1. app # "loading" \/ next_message = None
    BY DEF InHand, TraceStaysLoaded
  <2>2. /\ Respond(c, "own", None) /\ pc = "idle"
        /\ UNCHANGED <<trace_file, input_stream, appVars, aborted>>
        /\ next_message' = next_message
    BY <1>1 DEF server_handler_cb_own, ServerAt, traceVars
  <2>3. QED
    BY <2>1, <2>2, RespondInHand
<1>2. CASE server_handler_cb(c)
  <2>1. /\ pc = "idle" /\ pc' \in {"reading", "process"}
        /\ current' = c
        /\ pc' = "reading" => next_message = None /\ task_stream' = input_stream
        /\ pc' = "process" => next_message # None
        /\ request[c] \notin OwnHandled
        /\ UNCHANGED <<traceVars, appVars, request, aborted>>
    BY <1>2 DEF server_handler_cb, ServerAt
  <2>2. /\ state'[c] = "handling" /\ state[c] = "ready"
        /\ \A d \in Client \ {c} : state'[d] = state[d]
    BY <1>2 DEF server_handler_cb, TypeInv, TypeOK, RequestTypeOK
  <2>3. OneRequestInHand'
    BY <2>1, <2>2 DEF InHand, OneRequestInHand, traceVars
  <2>4. \A d \in Client : Outstanding(d)' => Outstanding(d)
    BY <2>2 DEF Outstanding
  <2>5. TraceStaysLoaded'
    BY <2>1, <2>4
    DEF InHand, TraceStaysLoaded, base_uri, traceVars, appVars
  <2>6. QED
    BY <2>1, <2>3, <2>5 DEF InHand, OnlyKnownCrashes
<1>3. QED
  BY <1>1, <1>2, HandlerAsserts DEF Dispatch

LEMMA HandleInHand ==
    ASSUME TypeInv, Lifecycle, InHand, Handle
    PROVE  InHand'
<1>1. pc # "idle" =>
        /\ current \in Client /\ state[current] = "handling"
        /\ server /\ trace_file # None /\ app # "loading"
  BY DEF InHand, OneRequestInHand, TraceStaysLoaded, Outstanding, Lifecycle
<1>2. CASE load_file_iteration_thread_cb
  <2>1. PICK result \in Results(task_stream) :
            /\ task_result' = result
            /\ pc' = IF result = NoResult THEN "reading" ELSE "read"
            /\ load_file_iteration(task_stream, result)
    BY <1>2 DEF load_file_iteration_thread_cb
  <2>2. pc' = "read" => task_result'.kind # "none"
    BY <2>1
    DEF load_file_iteration, Result, NoResult
  <2>3. /\ pc = "reading" /\ pc' \in {"reading", "read"}
        /\ UNCHANGED <<traceVars, appVars, clientVars, current, task_stream,
                       expected, aborted>>
    BY <1>2 DEF load_file_iteration_thread_cb, ServerAt
  <2>4. QED
    BY <2>2, <2>3
    DEF InHand, OneRequestInHand, TraceStaysLoaded, OnlyKnownCrashes,
        Outstanding, base_uri, traceVars, appVars, clientVars
<1>3. CASE real_handle_message
  <2>1. pc = "read" /\ UNCHANGED <<trace_file, input_stream, appVars, aborted>>
    BY <1>3 DEF real_handle_message, ServerAt
  <2>2. /\ next_message' = None \/ next_message'.based
        /\ task_result.kind = "message" => next_message' # None
    <3>1. base_uri
      BY <1>1, <2>1 DEF base_uri
    <3>2. next_message' = ResultMessage(task_stream, task_result)
      BY <1>3 DEF real_handle_message
    <3>3. ResultMessage(task_stream, task_result) \in Message \cup {None}
      BY <2>1, ResultMessageType
      DEF TypeInv, TypeOK, RequestTypeOK, ReadersHaveStreams
    <3>4. task_result.kind = "message" =>
            [file |-> streams[task_stream].file, pos |-> task_result.pos,
             based |-> base_uri] # None
      <4>1. /\ task_result \in TaskResult
            /\ streams[task_stream].file \in File
        BY <2>1 DEF TypeInv, TypeOK, RequestTypeOK, ReadersHaveStreams
      <4>2. base_uri \in BOOLEAN
        BY DEF base_uri
      <4>3. task_result.kind = "message" => task_result.pos \in Nat \ {0}
        BY <4>1 DEF TaskResult
      <4>4. QED
        BY <4>1, <4>2, <4>3, MessageAssumption DEF Message
    <3>5. QED
      BY <3>1, <3>2, <3>4 DEF ResultMessage
  <2>3. ASSUME NEW kind, Respond(current, kind, None) PROVE InHand'
    BY <1>1, <2>1, <2>2, <2>3, RespondInHand
  <2>4. CASE task_result.kind = "message"
    <3>1. /\ pc' = "process"
          /\ UNCHANGED <<current, expected, clientVars>>
      BY <1>3, <2>4 DEF real_handle_message
    <3>2. QED
      BY <1>1, <2>1, <2>2, <2>4, <3>1
      DEF InHand, OneRequestInHand, TraceStaysLoaded, OnlyKnownCrashes,
          Outstanding, base_uri, appVars, clientVars
  <2>5. QED
    BY <1>3, <2>3, <2>4 DEF real_handle_message
<1>4. CASE server_process_message
  BY <1>4
  DEF server_process_message, ServerAt, InHand, OneRequestInHand,
      TraceStaysLoaded, OnlyKnownCrashes, Outstanding, base_uri, appVars,
      clientVars
<1>5. CASE compare_incoming_message
  <2>1. /\ pc = "comparing"
        /\ next_message' \in {next_message, None}
        /\ UNCHANGED <<trace_file, input_stream, appVars, aborted>>
    BY <1>5 DEF compare_incoming_message, ServerAt, cleared
  <2>2. ASSUME NEW kind, Respond(current, kind, next_message) PROVE InHand'
    BY <1>1, <2>1, <2>2, RespondInHand
  <2>3. QED
    BY <1>5, <2>2 DEF compare_incoming_message
<1>6. CASE load_file_iteration_thread_cb_asserts
  BY <1>6
  DEF load_file_iteration_thread_cb_asserts, load_file_iteration_asserts,
      Abort, InHand, OneRequestInHand, TraceStaysLoaded, OnlyKnownCrashes,
      Outstanding, base_uri, traceVars, appVars, clientVars, handlerVars
<1>7. CASE uri_get_path_query_crashes
  <2>1. "load_before_run" \in Usage
    BY <1>7, HandlerAsserts
  <2>2. QED
    BY <1>7, <2>1
    DEF uri_get_path_query_crashes, Abort, InHand, OneRequestInHand,
        TraceStaysLoaded, OnlyKnownCrashes, Outstanding, base_uri, traceVars,
        appVars, clientVars, handlerVars
<1>8. QED
  BY <1>2, <1>3, <1>4, <1>5, <1>6, <1>7, HandlerAsserts DEF Handle

LEMMA InHandNext ==
    Orderly /\ TypeInv /\ Lifecycle /\ InHand /\ [Next]_vars => InHand'
<1> SUFFICES ASSUME Orderly, TypeInv, Lifecycle, InHand, [Next]_vars
             PROVE  InHand'
  OBVIOUS
<1>1. CASE server_thread_quit_cb
  BY <1>1
  DEF server_thread_quit_cb, InHand, OneRequestInHand, TraceStaysLoaded,
      OnlyKnownCrashes, Outstanding, base_uri, traceVars, appVars, clientVars,
      handlerVars
<1>2. CASE UNCHANGED vars
  BY <1>2
  DEF vars, InHand, OneRequestInHand, TraceStaysLoaded, OnlyKnownCrashes,
      Outstanding, base_uri, traceVars, appVars, clientVars, handlerVars
<1>3. QED
  BY <1>1, <1>2, ApplicationInHand, NetworkInHand, DispatchInHand, HandleInHand
  DEF Next, ServerThread, Dead

\* However requests, loads, stops and failing reads interleave, for any clients
\* and traces, a handler finds a stream and a next message: the process crashes
\* in the postcondition of load_file_iteration(), or for want of a URI in a
\* message that was loaded before the server ran.
THEOREM CrashesAreKnown == Orderly => (Spec => []OnlyKnownCrashes)
<1> SUFFICES ASSUME Orderly PROVE Spec => []OnlyKnownCrashes
  OBVIOUS
<1>1. Init => TypeInv /\ Lifecycle /\ InHand
  <2>1. Init => TypeInv
    BY TypeInit DEF TypeInv, ReadersHaveStreams, Init
  <2>2. Init => InHand
    BY
    DEF Init, InHand, OneRequestInHand, TraceStaysLoaded, OnlyKnownCrashes,
        Outstanding
  <2>3. QED
    BY <2>1, <2>2, LifecycleInit
<1>2. TypeInv /\ Lifecycle /\ InHand /\ [Next]_vars
        => (TypeInv /\ Lifecycle /\ InHand)'
  BY TypeNext, LifecycleNext, InHandNext DEF TypeInv
<1>3. InHand => OnlyKnownCrashes
  BY DEF InHand
<1>4. QED
  BY <1>1, <1>2, <1>3, PTL DEF Spec

\* With the usage of the tests, which run the server or go online first, only
\* the postcondition is left: no message lacks a URI.
THEOREM NothingElseCrashes == Usage = {} => (Spec => []OnlyPostcondition)
<1> SUFFICES ASSUME Usage = {} PROVE Spec => []OnlyPostcondition
  OBVIOUS
<1>1. Spec => []OnlyKnownCrashes
  BY CrashesAreKnown DEF Orderly
<1>2. OnlyKnownCrashes => OnlyPostcondition
  BY DEF OnlyKnownCrashes, OnlyPostcondition
<1>3. QED
  BY <1>1, <1>2, PTL
===============================================================================
