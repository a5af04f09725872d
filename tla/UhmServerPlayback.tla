-------------------------- MODULE UhmServerPlayback ---------------------------
(***************************************************************************)
(* Theorems about what UhmServer plays back for an orderly application: it *)
(* implements TracePlayback, and its offsets count the pairs of the trace, *)
(* for any number of clients, any traces and any faults.                   *)
(***************************************************************************)
EXTENDS UhmServerProofs, FiniteSetTheorems

LEMMA DisciplinedInit == Init => TypeOK /\ Disciplined
<1>1. Init => InHand
  BY
  DEF Init, InHand, OneRequestInHand, TraceStaysLoaded, OnlyKnownCrashes,
      Outstanding
<1>2. Init => ReadersHaveStreams
  BY DEF Init, ReadersHaveStreams
<1>3. QED
  BY <1>1, <1>2, TypeInit, LifecycleInit DEF Disciplined

LEMMA DisciplinedNext ==
    Orderly /\ TypeOK /\ Disciplined /\ [Next]_vars
        => TypeOK' /\ Disciplined'
  BY TypeNext, LifecycleNext, InHandNext DEF Disciplined, TypeInv

\* In an orderly application, at every interleaving of a stop, a load and the
\* requests of any clients, a request that is handled has its server, its
\* stream and its next message.
THEOREM RequestsKeepTheirTrace == Orderly => (Spec => []Disciplined)
<1> SUFFICES ASSUME Orderly PROVE Spec => []Disciplined
  OBVIOUS
<1>1. TypeOK /\ Disciplined /\ [Next]_vars => TypeOK' /\ Disciplined'
  BY DisciplinedNext
<1>2. QED
  BY DisciplinedInit, <1>1, PTL DEF Spec
-------------------------------------------------------------------------------
(* Every pair is used up, in hand, or in the file.                         *)

\* Where a trace is loaded, its stream is open.
LEMMA StreamIsOpen ==
    ASSUME TypeOK, Disciplined, trace_file # None
    PROVE  /\ input_stream \in Stream
           /\ streams[input_stream] \in StreamState
           /\ trace_file \in File
           /\ Trace[trace_file] \in Seq(Entry)
           /\ Len(Trace[trace_file]) \in Nat
<1>1. input_stream \in Stream /\ trace_file \in File
  BY DEF TypeOK, FieldsTypeOK, Disciplined, InHand, TraceStaysLoaded
<1>2. streams[input_stream] \in StreamState
  BY <1>1 DEF TypeOK, ProcessTypeOK
<1>3. Trace[trace_file] \in Seq(Entry)
  BY <1>1, TraceAssumption
<1>4. QED
  BY <1>1, <1>2, <1>3

\* While a request is handled the trace is loaded, no load reads it, and the
\* stream that is read is its stream.
LEMMA HandlerHasTrace ==
    ASSUME Disciplined, pc # "idle"
    PROVE  /\ trace_file # None /\ app # "loading"
           /\ current \in Client /\ state[current] = "handling"
           /\ request[current] \notin OwnHandled
           /\ pc \in {"reading", "read"} =>
                next_message = None /\ task_stream = input_stream
  BY DEF Disciplined, InHand, OneRequestInHand, TraceStaysLoaded, Outstanding

\* A load meets no handler.
LEMMA LoadIsAlone ==
    ASSUME Disciplined, app = "loading"
    PROVE  pc = "idle" /\ next_message = None /\ trace_file # None /\ ~Racing
  BY
  DEF Disciplined, InHand, TraceStaysLoaded, OneRequestInHand, Outstanding,
      ReadersHaveStreams, Racing

\* What one pass of load_file_iteration() does to the stream of the trace.
EndReached(result) ==
    /\ result = Result("null", 0)
    /\ streams[input_stream].pos = Len(Trace[trace_file]) + 1
    /\ streams'[input_stream].pos = streams[input_stream].pos
    /\ streams'[input_stream].framing = streams[input_stream].framing

ReadFailed(result) ==
    /\ result = Result("error", 0)
    /\ "read" \in Faults
    /\ streams[input_stream].framing = "aligned"
    /\ streams'[input_stream].pos = streams[input_stream].pos
    /\ streams'[input_stream].framing \in AfterError

PairRead(result) ==
    LET pos == streams[input_stream].pos
        framing == streams[input_stream].framing
        entry == Trace[trace_file][pos]
    IN  /\ pos <= Len(Trace[trace_file])
        /\ streams'[input_stream].pos = pos + 1
        /\ streams'[input_stream].framing =
              IF framing = "half" THEN "mended" ELSE framing
        /\ \/ /\ result = NoResult
              /\ entry = StatusNone
              /\ framing \notin {"half", "lost"}
           \/ /\ result = Result("null", pos)
              /\ entry = Malformed \/ framing \in {"half", "lost"}
           \/ /\ result = Result("message", pos)
              /\ entry \in Request
              /\ framing \notin {"half", "lost"}

LEMMA StreamReads ==
    ASSUME TypeOK, input_stream \in Stream, trace_file \in File,
           streams[input_stream].file = trace_file,
           streams[input_stream].pos <= Len(Trace[trace_file]) + 1,
           ~Racing,
           NEW result \in Results(input_stream),
           load_file_iteration(input_stream, result)
    PROVE  /\ streams'[input_stream].file = trace_file
           /\ EndReached(result) \/ ReadFailed(result) \/ PairRead(result)
<1> DEFINE stream == streams[input_stream]
<1>1. /\ input_stream \in Stream
      /\ stream \in StreamState
      /\ Len(Trace[trace_file]) \in Nat
      /\ streams \in [Stream -> StreamState]
  BY TraceAssumption DEF TypeOK, ProcessTypeOK
<1>2. /\ stream.file = trace_file
      /\ stream.pos <= Len(Trace[trace_file]) + 1
      /\ stream.pos \in Nat
  BY <1>1 DEF StreamState
<1>3. streams'[input_stream].file = trace_file
  BY <1>1, <1>2, IterationType
<1>4. CASE /\ AtEnd(input_stream)
           /\ result = Result("null", 0)
           /\ streams' = [streams EXCEPT ![input_stream].skipped = FALSE]
  BY <1>1, <1>2, <1>4 DEF AtEnd, EndReached, StreamState
<1>5. CASE /\ ReadMayFail(input_stream)
           /\ result = Result("error", 0)
           /\ \E f \in AfterError :
                 streams' = [streams EXCEPT ![input_stream].framing = f]
  <2>1. PICK f \in AfterError :
            streams' = [streams EXCEPT ![input_stream].framing = f]
    BY <1>5
  <2>2. streams'[input_stream] = [stream EXCEPT !.framing = f]
    BY <1>1, <2>1
  <2>3. /\ streams'[input_stream].pos = stream.pos
        /\ streams'[input_stream].framing = f
    BY <1>1, <2>2 DEF StreamState
  <2>4. QED
    BY <1>3, <1>5, <2>3 DEF ReadMayFail, ReadFailed
<1>6. ASSUME ~AtEnd(input_stream),
             streams' = [streams EXCEPT ![input_stream] = Advanced(input_stream)],
             \/ /\ PairAt(input_stream) = StatusNone
                /\ result = NoResult
             \/ /\ PairAt(input_stream) = Malformed
                /\ result = Result("null", stream.pos)
             \/ /\ PairAt(input_stream) \in Request
                /\ result = Result("message", stream.pos)
      PROVE  PairRead(result)
  <2>1. streams'[input_stream] = Advanced(input_stream)
    BY <1>1, <1>6
  <2>2. /\ streams'[input_stream].pos = stream.pos + 1
        /\ streams'[input_stream].framing =
              IF stream.framing = "half" THEN "mended" ELSE stream.framing
    BY <1>1, <2>1 DEF Advanced, StreamState
  <2>3. stream.pos <= Len(Trace[trace_file])
    BY <1>1, <1>2, <1>6 DEF AtEnd
  <2>4. PairAt(input_stream) = IF stream.framing \in {"half", "lost"}
                               THEN Malformed
                               ELSE Trace[trace_file][stream.pos]
    BY <1>2 DEF PairAt
  <2>5. QED
    BY <1>6, <2>2, <2>3, <2>4, TraceAssumption DEF PairRead
<1>7. QED
  BY <1>3, <1>4, <1>5, <1>6 DEF load_file_iteration

LEMMA IterationReads ==
    ASSUME TypeOK, Disciplined, StreamInPlace, trace_file # None, ~Racing,
           NEW result \in Results(input_stream),
           load_file_iteration(input_stream, result)
    PROVE  /\ streams'[input_stream].file = trace_file
           /\ EndReached(result) \/ ReadFailed(result) \/ PairRead(result)
  BY StreamIsOpen, StreamReads DEF StreamInPlace

LEMMA UntouchedInPlace ==
    ASSUME InPlace,
           UNCHANGED <<trace_file, input_stream, next_message, streams, pc,
                       task_result, state, request>>,
           app' = "loading" => app = "loading"
    PROVE  InPlace'
  BY
  DEF InPlace, StreamInPlace, PairInPlace, ReadLast, ClientsWait, Outstanding,
      AtEnd

LEMMA AbortInPlace ==
    ASSUME InPlace, NEW where, Abort(where)
    PROVE  InPlace'
  BY UntouchedInPlace
  DEF Abort, traceVars, appVars, handlerVars, clientVars, threadVars

\* The handler of client c returns.
LEMMA RespondInPlace ==
    ASSUME TypeOK, InPlace, NEW c \in Client, NEW kind, NEW m,
           Respond(c, kind, m),
           UNCHANGED <<trace_file, input_stream, streams, app>>,
           next_message' \in {next_message, None}
    PROVE  InPlace'
<1>1. StreamInPlace'
  BY DEF InPlace, StreamInPlace
<1>2. PairInPlace'
  BY DEF InPlace, PairInPlace, ReadLast, Respond
<1>3. ClientsWait'
  BY DEF InPlace, ClientsWait, Outstanding, Respond, TypeOK, RequestTypeOK
<1>4. QED
  BY <1>1, <1>2, <1>3 DEF InPlace

LEMMA LoadInPlace ==
    ASSUME Orderly, TypeOK, Disciplined, InPlace, NEW f \in File,
           uhm_server_load_trace(f)
    PROVE  InPlace'
<1>1. pc = "idle" /\ trace_file = None /\ next_message = None
  BY CalmIsIdle DEF uhm_server_load_trace, Disciplined, InHand
<1>2. CASE UNCHANGED <<trace_file, input_stream, streams, app>>
  BY <1>2, UntouchedInPlace
  DEF uhm_server_load_trace, handlerVars, clientVars
<1>3. ASSUME trace_file' = f,
             NEW s \in Stream,
             input_stream' = s,
             streams' = [streams EXCEPT ![s] = AtStart(f)]
      PROVE  InPlace'
  <2>1. streams'[input_stream'] = AtStart(f)
    BY <1>3 DEF TypeOK, ProcessTypeOK
  <2>2. Len(Trace[f]) \in Nat
    BY TraceAssumption
  <2>3. StreamInPlace'
    BY <1>3, <2>1, <2>2 DEF StreamInPlace, AtStart
  <2>4. PairInPlace' /\ ClientsWait'
    BY <1>1
    DEF uhm_server_load_trace, InPlace, PairInPlace, ClientsWait, Outstanding,
        handlerVars, clientVars
  <2>5. QED
    BY <2>3, <2>4 DEF InPlace
<1>4. QED
  BY <1>2, <1>3 DEF uhm_server_load_trace

LEMMA LoadReadInPlace ==
    ASSUME TypeOK, Disciplined, InPlace, uhm_server_load_trace_read
    PROVE  InPlace'
<1>1. app = "loading"
  BY DEF uhm_server_load_trace_read, AppAt
<1>2. pc = "idle" /\ next_message = None /\ trace_file # None /\ ~Racing
  BY <1>1, LoadIsAlone
<1>3. /\ streams[input_stream] \in StreamState
      /\ Len(Trace[trace_file]) \in Nat
  BY <1>2, StreamIsOpen
<1>4. PICK result \in Results(input_stream) :
          /\ load_file_iteration(input_stream, result)
          /\ \/ /\ result = NoResult
                /\ UNCHANGED <<trace_file, next_message, app>>
             \/ /\ result # NoResult
                /\ next_message' = ResultMessage(input_stream, result)
                /\ app' = "idle"
                /\ trace_file' = IF result.kind = "error" THEN None
                                                         ELSE trace_file
  BY DEF uhm_server_load_trace_read
<1>5. /\ streams'[input_stream].file = trace_file
      /\ EndReached(result) \/ ReadFailed(result) \/ PairRead(result)
  BY <1>2, <1>4, IterationReads DEF InPlace
<1>6. input_stream' = input_stream /\ UNCHANGED <<handlerVars, clientVars>>
  BY DEF uhm_server_load_trace_read
<1>7. /\ streams[input_stream].file = trace_file
      /\ streams[input_stream].framing = "aligned"
      /\ \A i \in 1 .. streams[input_stream].pos - 1 :
             Trace[trace_file][i] = StatusNone
  BY <1>1, <1>2 DEF InPlace, StreamInPlace
<1>8. streams[input_stream].pos \in Nat \ {0}
  BY <1>3 DEF StreamState
<1>9. StreamInPlace'
  <2>1. CASE EndReached(result)
    BY <1>3, <1>4, <1>5, <1>6, <1>7, <1>8, <2>1
    DEF StreamInPlace, EndReached, Result, NoResult
  <2>2. CASE ReadFailed(result)
    BY <1>4, <2>2 DEF StreamInPlace, ReadFailed, Result, NoResult
  <2>3. CASE PairRead(result)
    <3>1. /\ streams'[input_stream].framing = "aligned"
          /\ streams'[input_stream].pos <= Len(Trace[trace_file]) + 1
      BY <1>3, <1>7, <1>8, <2>3 DEF PairRead
    <3>2. trace_file' = trace_file
      BY <1>4, <2>3 DEF PairRead, Result
    <3>3. app' = "loading" =>
            \A i \in 1 .. streams'[input_stream].pos - 1 :
               Trace[trace_file][i] = StatusNone
      BY <1>4, <1>7, <1>8, <2>3 DEF PairRead, Result, NoResult
    <3>4. QED
      BY <1>5, <1>6, <3>1, <3>2, <3>3 DEF StreamInPlace
  <2>4. QED
    BY <1>5, <2>1, <2>2, <2>3
<1>10. PairInPlace'
  <2>1. pc' = "idle"
    BY <1>2, <1>6 DEF handlerVars
  <2>2. CASE next_message' = None
    BY <2>1, <2>2 DEF PairInPlace
  <2>3. CASE result.kind = "message" /\ next_message' # None
    <3>1. PairRead(result) /\ result = Result("message", streams[input_stream].pos)
      BY <1>5, <2>3 DEF EndReached, ReadFailed, PairRead, Result, NoResult
    <3>2. /\ next_message' = ResultMessage(input_stream, result)
          /\ trace_file' = trace_file
      BY <1>4, <3>1 DEF Result, NoResult
    <3>3. /\ next_message'.file = trace_file
          /\ next_message'.pos = streams[input_stream].pos
      BY <1>7, <3>1, <3>2 DEF ResultMessage, Result
    <3>4. ReadLast(next_message.pos)'
      BY <1>6, <1>7, <1>8, <3>1, <3>2, <3>3
      DEF ReadLast, PairRead, Result, NoResult
    <3>5. QED
      BY <2>1, <3>2, <3>3, <3>4 DEF PairInPlace
  <2>4. QED
    BY <1>2, <1>4, <2>2, <2>3 DEF ResultMessage, NoResult
<1>11. ClientsWait'
  BY <1>6 DEF InPlace, ClientsWait, Outstanding, clientVars
<1>12. QED
  BY <1>9, <1>10, <1>11 DEF InPlace

LEMMA ApplicationInPlace ==
    ASSUME Orderly, TypeOK, Disciplined, InPlace, Application
    PROVE  InPlace'
<1>1. CASE uhm_server_run
  BY <1>1, UntouchedInPlace
  DEF uhm_server_run, traceVars, handlerVars, clientVars
<1>2. CASE uhm_server_stop
  BY <1>2, UntouchedInPlace
  DEF uhm_server_stop, traceVars, handlerVars, clientVars
<1>3. CASE uhm_server_stop_joined
  <2>1. pc' = "idle" /\ trace_file' = None /\ next_message' = None
    BY <1>3
    DEF uhm_server_stop_joined, g_thread_join, unload_trace, Disciplined,
        Lifecycle, handlerVars
  <2>2. ClientsWait'
    BY <1>3
    DEF uhm_server_stop_joined, ClientsWait, Outstanding, TypeOK, RequestTypeOK
  <2>3. QED
    BY <2>1, <2>2 DEF InPlace, StreamInPlace, PairInPlace
<1>4. CASE uhm_server_unload_trace
  <2>1. pc' = "idle" /\ trace_file' = None /\ next_message' = None
    BY <1>4, CalmIsIdle
    DEF uhm_server_unload_trace, unload_trace, Disciplined, InHand, handlerVars
  <2>2. ClientsWait'
    BY <1>4
    DEF uhm_server_unload_trace, InPlace, ClientsWait, Outstanding, clientVars
  <2>3. QED
    BY <2>1, <2>2 DEF InPlace, StreamInPlace, PairInPlace
<1>5. CASE uhm_server_load_trace_asserts
  BY <1>5, AbortInPlace
  DEF uhm_server_load_trace_asserts, load_file_iteration_asserts
<1>6. ASSUME NEW names \in DomainNames,
             uhm_server_set_expected_domain_names(names)
      PROVE  InPlace'
  BY <1>6, UntouchedInPlace
  DEF uhm_server_set_expected_domain_names, traceVars, handlerVars, clientVars
<1>7. ASSUME NEW h \in Host, uhm_resolver_add_A(h) PROVE InPlace'
  BY <1>7, UntouchedInPlace
  DEF uhm_resolver_add_A, traceVars, appVars, handlerVars, clientVars
<1>8. ASSUME NEW b \in BOOLEAN, uhm_server_set_enable_online(b) PROVE InPlace'
  BY <1>8, UntouchedInPlace
  DEF uhm_server_set_enable_online, traceVars, handlerVars, clientVars
<1>9. QED
  BY <1>1, <1>2, <1>3, <1>4, <1>5, <1>6, <1>7, <1>8, LoadInPlace,
     LoadReadInPlace
  DEF Application

LEMMA NetworkInPlace ==
    ASSUME TypeOK, InPlace, Network
    PROVE  InPlace'
<1>1. UNCHANGED <<traceVars, appVars, handlerVars, streams>>
  BY DEF Network, Arrive, Send
<1>2. StreamInPlace' /\ PairInPlace'
  BY <1>1
  DEF InPlace, StreamInPlace, PairInPlace, ReadLast, AtEnd, traceVars, appVars,
      handlerVars
<1>3. ClientsWait'
  <2>1. ASSUME NEW c \in Client, Arrive(c) PROVE ClientsWait'
    BY <2>1
    DEF Arrive, InPlace, ClientsWait, Outstanding, TypeOK, RequestTypeOK
  <2>2. ASSUME NEW c \in Client, NEW r \in Request, Send(c, r)
        PROVE  ClientsWait'
    BY <2>2, ServerAssumption
    DEF Send, InPlace, ClientsWait, Outstanding, TypeOK, RequestTypeOK
  <2>3. QED
    BY <2>1, <2>2 DEF Network
<1>4. QED
  BY <1>2, <1>3 DEF InPlace

LEMMA WorkerInPlace ==
    ASSUME TypeOK, Disciplined, InPlace, load_file_iteration_thread_cb
    PROVE  InPlace'
<1>1. /\ pc = "reading" /\ task_stream = input_stream
      /\ trace_file # None /\ next_message = None
      /\ app # "loading" /\ ~Racing
  BY HandlerHasTrace DEF load_file_iteration_thread_cb, ServerAt, Racing
<1>2. /\ streams[input_stream] \in StreamState
      /\ Len(Trace[trace_file]) \in Nat
  BY <1>1, StreamIsOpen
<1>3. PICK result \in Results(input_stream) :
          /\ load_file_iteration(input_stream, result)
          /\ task_result' = result
          /\ pc' = IF result = NoResult THEN "reading" ELSE "read"
  BY <1>1 DEF load_file_iteration_thread_cb
<1>4. /\ streams'[input_stream].file = trace_file
      /\ EndReached(result) \/ ReadFailed(result) \/ PairRead(result)
  BY <1>1, <1>3, IterationReads DEF InPlace
<1>5. UNCHANGED <<traceVars, appVars, clientVars>>
  BY DEF load_file_iteration_thread_cb
<1>6. /\ streams[input_stream].pos \in Nat \ {0}
      /\ streams[input_stream].pos <= Len(Trace[trace_file]) + 1
      /\ streams[input_stream].framing # "aligned" => "read" \in Faults
  BY <1>1, <1>2 DEF InPlace, StreamInPlace, StreamState
<1>7. /\ streams'[input_stream].pos <= Len(Trace[trace_file]) + 1
      /\ streams'[input_stream].framing # "aligned" => "read" \in Faults
  BY <1>2, <1>4, <1>6 DEF EndReached, ReadFailed, PairRead
<1>8. StreamInPlace'
  BY <1>1, <1>4, <1>5, <1>7 DEF StreamInPlace, traceVars, appVars
<1>9. PairInPlace'
  <2>1. next_message' = None
    BY <1>1, <1>5 DEF traceVars
  <2>2. CASE EndReached(result)
    <3>1. AtEnd(input_stream)'
      BY <1>2, <1>4, <1>5, <2>2 DEF EndReached, AtEnd, traceVars
    <3>2. QED
      BY <1>3, <2>1, <2>2, <3>1 DEF PairInPlace, EndReached
  <2>3. CASE ReadFailed(result)
    BY <1>3, <2>1, <2>3 DEF PairInPlace, ReadFailed
  <2>4. CASE PairRead(result)
    <3>1. CASE result = NoResult
      BY <1>3, <2>1, <3>1 DEF PairInPlace
    <3>2. CASE result = Result("message", streams[input_stream].pos)
      <4>1. ReadLast(task_result.pos)'
        BY <1>3, <1>5, <1>6, <2>4, <3>2
        DEF ReadLast, PairRead, Result, NoResult, traceVars
      <4>2. QED
        BY <1>3, <2>1, <3>2, <4>1 DEF PairInPlace, Result
    <3>3. CASE result = Result("null", streams[input_stream].pos)
      <4>1. /\ task_result'.kind = "null"
            /\ task_result'.pos = streams[input_stream].pos
        BY <1>3, <3>3 DEF Result
      <4>2. /\ streams'[input_stream].pos = streams[input_stream].pos + 1
            /\ streams'[input_stream].framing # "half"
            /\ \/ streams'[input_stream].framing \in {"mended", "lost"}
               \/ Trace[trace_file][streams[input_stream].pos] = Malformed
        BY <2>4, <3>3 DEF PairRead, Result, NoResult
      <4>3. QED
        BY <1>5, <1>6, <2>1, <4>1, <4>2 DEF PairInPlace, traceVars
    <3>4. QED
      BY <2>4, <3>1, <3>2, <3>3 DEF PairRead
  <2>5. QED
    BY <1>4, <2>2, <2>3, <2>4
<1>10. ClientsWait'
  BY <1>5 DEF InPlace, ClientsWait, Outstanding, clientVars
<1>11. QED
  BY <1>8, <1>9, <1>10 DEF InPlace
LEMMA HandleInPlace ==
    ASSUME TypeOK, Disciplined, InPlace, Handle
    PROVE  InPlace'
<1>1. pc # "idle" => /\ current \in Client /\ state[current] = "handling"
                     /\ trace_file # None
  BY HandlerHasTrace
<1>2. CASE real_handle_message
  <2>1. /\ pc = "read" /\ task_stream = input_stream
        /\ trace_file # None
        /\ UNCHANGED <<trace_file, input_stream, streams, app>>
        /\ next_message' = ResultMessage(input_stream, task_result)
    BY <1>2, HandlerHasTrace DEF real_handle_message, ServerAt, appVars
  <2>2. CASE task_result.kind # "message"
    <3>1. PICK kind : Respond(current, kind, None)
      BY <1>2, <2>2 DEF real_handle_message
    <3>2. next_message' = None
      BY <2>1, <2>2 DEF ResultMessage
    <3>3. QED
      BY <1>1, <2>1, <3>1, <3>2, RespondInPlace
  <2>3. CASE task_result.kind = "message"
    <3>1. pc' = "process" /\ UNCHANGED clientVars
      BY <1>2, <2>3 DEF real_handle_message
    <3>2. /\ next_message'.file = trace_file
          /\ next_message'.pos = task_result.pos
      BY <2>1, <2>3 DEF ResultMessage, InPlace, StreamInPlace
    <3>3. ReadLast(task_result.pos)
      BY <2>1, <2>3 DEF InPlace, PairInPlace, Result
    <3>4. PairInPlace'
      BY <2>1, <3>1, <3>2, <3>3 DEF PairInPlace, ReadLast
    <3>5. StreamInPlace' /\ ClientsWait'
      BY <2>1, <3>1
      DEF InPlace, StreamInPlace, ClientsWait, Outstanding, clientVars
    <3>6. QED
      BY <3>4, <3>5 DEF InPlace
  <2>4. QED
    BY <2>2, <2>3
<1>3. CASE server_process_message
  <2>1. /\ UNCHANGED <<trace_file, input_stream, next_message, streams, app,
                       clientVars>>
        /\ pc' = "comparing"
    BY <1>3 DEF server_process_message, appVars
  <2>2. QED
    BY <2>1
    DEF InPlace, StreamInPlace, PairInPlace, ReadLast, ClientsWait, Outstanding,
        clientVars
<1>4. CASE compare_incoming_message
  <2>1. /\ pc = "comparing"
        /\ UNCHANGED <<trace_file, input_stream, streams, app>>
        /\ next_message' \in {next_message, None}
    BY <1>4 DEF compare_incoming_message, ServerAt, cleared, appVars
  <2>2. PICK kind : Respond(current, kind, next_message)
    BY <1>4 DEF compare_incoming_message
  <2>3. QED
    BY <1>1, <2>1, <2>2, RespondInPlace
<1>5. CASE \/ load_file_iteration_thread_cb_asserts
           \/ server_process_message_asserts
           \/ compare_incoming_message_asserts
           \/ uri_get_path_query_crashes
  BY <1>5, AbortInPlace
  DEF load_file_iteration_thread_cb_asserts, load_file_iteration_asserts,
      server_process_message_asserts, compare_incoming_message_asserts,
      uri_get_path_query_crashes
<1>6. QED
  BY <1>2, <1>3, <1>4, <1>5, WorkerInPlace DEF Handle

LEMMA DispatchInPlace ==
    ASSUME TypeOK, InPlace, NEW c \in Client, Dispatch(c)
    PROVE  InPlace'
<1>1. CASE server_handler_cb(c)
  <2>1. /\ UNCHANGED <<trace_file, input_stream, next_message, streams, app,
                       request>>
        /\ pc' \in {"reading", "process"}
    BY <1>1 DEF server_handler_cb, traceVars, appVars
  <2>2. ClientsWait'
    BY <1>1
    DEF server_handler_cb, InPlace, ClientsWait, Outstanding, TypeOK,
        RequestTypeOK
  <2>3. StreamInPlace' /\ PairInPlace'
    BY <2>1 DEF InPlace, StreamInPlace, PairInPlace, ReadLast
  <2>4. QED
    BY <2>2, <2>3 DEF InPlace
<1>2. CASE server_handler_cb_own(c)
  BY <1>2, RespondInPlace DEF server_handler_cb_own, traceVars, appVars
<1>3. CASE server_handler_cb_asserts(c)
  BY <1>3, AbortInPlace DEF server_handler_cb_asserts
<1>4. QED
  BY <1>1, <1>2, <1>3 DEF Dispatch

LEMMA InPlaceNext ==
    Orderly /\ TypeOK /\ Disciplined /\ InPlace /\ [Next]_vars => InPlace'
<1> SUFFICES ASSUME Orderly, TypeOK, Disciplined, InPlace, [Next]_vars
             PROVE  InPlace'
  OBVIOUS
<1>1. CASE server_thread_quit_cb
  BY <1>1, UntouchedInPlace
  DEF server_thread_quit_cb, traceVars, appVars, handlerVars, clientVars
<1>2. CASE UNCHANGED vars
  BY <1>2, UntouchedInPlace DEF vars, traceVars, appVars, handlerVars, clientVars
<1>3. QED
  BY <1>1, <1>2, ApplicationInPlace, NetworkInPlace, DispatchInPlace,
     HandleInPlace
  DEF Next, ServerThread, Dead

\* What holds of every state of an orderly application.
PlaybackInv == TypeOK /\ Disciplined /\ InPlace

LEMMA PlaybackInvariant ==
    ASSUME Orderly
    PROVE  /\ Init => PlaybackInv
           /\ PlaybackInv /\ [Next]_vars => PlaybackInv'
<1>1. Init => InPlace
  BY
  DEF Init, InPlace, StreamInPlace, PairInPlace, ClientsWait, Outstanding
<1>2. QED
  BY <1>1, DisciplinedInit, DisciplinedNext, InPlaceNext DEF PlaybackInv

\* However requests, loads, unloads, stops and failing reads interleave, every
\* pair of the trace is used up, in hand or in the file, once.
THEOREM PairsStayInPlace == Orderly => (Spec => []InPlace)
<1> SUFFICES ASSUME Orderly PROVE Spec => []InPlace
  OBVIOUS
<1>1. PlaybackInv => InPlace
  BY DEF PlaybackInv
<1>2. QED
  BY PlaybackInvariant, <1>1, PTL DEF Spec
-------------------------------------------------------------------------------
(* Every step is a step of TracePlayback or none.                          *)

LEMMA SameMapping ==
    ASSUME UNCHANGED <<trace_file, input_stream, next_message, streams, pc,
                       task_result>>
    PROVE  UNCHANGED <<trace_file, Used, TornTrace>>
  BY DEF Used, Ahead, TornTrace, Torn

LEMMA SameAnswers == reply' = reply => Answers' = Answers
  BY DEF Answers, Pair

LEMMA UntouchedPlays ==
    ASSUME UNCHANGED <<trace_file, input_stream, next_message, streams, pc,
                       task_result, request, reply>>
    PROVE  UNCHANGED Playback!vars
  BY SameMapping, SameAnswers DEF Playback!vars

LEMMA AbortPlays == ASSUME NEW where, Abort(where) PROVE UNCHANGED Playback!vars
  BY UntouchedPlays
  DEF Abort, traceVars, appVars, handlerVars, clientVars, threadVars

LEMMA PlaybackInit == Init => Playback!Init
<1> SUFFICES ASSUME Init PROVE Playback!Init
  OBVIOUS
<1>1. Answers = [c \in Client |-> Playback!NoAnswer]
  BY
  DEF Init, Answers, NoReply, Pair, Playback!NoAnswer, Playback!Answer
<1>2. QED
  BY <1>1 DEF Init, Used, TornTrace, Playback!Init

\* The trace goes, and with it what was read of it.
LEMMA UnloadPlays ==
    ASSUME trace_file' = None,
           reply' = reply,
           \/ request' = request /\ trace_file # None
           \/ request' = [c \in Client |-> None]
    PROVE  Playback!Next
<1>1. Used' = 0 /\ TornTrace' = FALSE /\ Answers' = Answers
  BY SameAnswers DEF Used, TornTrace
<1>2. CASE trace_file # None
  BY <1>1, <1>2 DEF Playback!Next, Playback!Unload
<1>3. CASE trace_file = None
  <2>1. Used = 0 /\ TornTrace = FALSE
    BY <1>3 DEF Used, TornTrace
  <2>2. QED
    BY <1>1, <1>3, <2>1 DEF Playback!Next, Playback!CutOff
<1>4. QED
  BY <1>2, <1>3

LEMMA LoadPlays ==
    ASSUME Orderly, PlaybackInv, NEW f \in File, uhm_server_load_trace(f)
    PROVE  [Playback!Next]_Playback!vars
<1>1. pc' = "idle" /\ trace_file = None /\ next_message' = None
  BY CalmIsIdle
  DEF uhm_server_load_trace, PlaybackInv, Disciplined, InHand, handlerVars
<1>2. CASE UNCHANGED <<trace_file, input_stream, streams>>
  BY <1>2, UntouchedPlays DEF uhm_server_load_trace, handlerVars, clientVars
<1>3. ASSUME trace_file' = f,
             NEW s \in Stream,
             input_stream' = s,
             streams' = [streams EXCEPT ![s] = AtStart(f)]
      PROVE  Playback!Load(f)
  <2>1. streams'[input_stream'] = AtStart(f)
    BY <1>3 DEF PlaybackInv, TypeOK, ProcessTypeOK
  <2>2. Used' = 0 /\ TornTrace' = FALSE
    BY <1>1, <2>1 DEF Used, Ahead, TornTrace, Torn, AtStart
  <2>3. Used = 0 /\ TornTrace = FALSE
    BY <1>1 DEF Used, TornTrace
  <2>4. request' = request /\ Answers' = Answers
    BY SameAnswers DEF uhm_server_load_trace, clientVars
  <2>5. QED
    BY <1>1, <1>3, <2>2, <2>3, <2>4 DEF Playback!Load
<1>4. QED
  BY <1>2, <1>3 DEF uhm_server_load_trace, Playback!Next
LEMMA LoadReadPlays ==
    ASSUME PlaybackInv, uhm_server_load_trace_read
    PROVE  [Playback!Next]_Playback!vars
<1>1. /\ app = "loading" /\ pc = "idle" /\ pc' = "idle"
      /\ next_message = None /\ trace_file # None /\ ~Racing
      /\ UNCHANGED <<input_stream, request, reply>>
  BY LoadIsAlone
  DEF uhm_server_load_trace_read, AppAt, PlaybackInv, handlerVars, clientVars
<1>2. /\ streams[input_stream].pos \in Nat \ {0}
      /\ Len(Trace[trace_file]) \in Nat
      /\ streams[input_stream].framing = "aligned"
      /\ streams[input_stream].file = trace_file
      /\ \A i \in 1 .. streams[input_stream].pos - 1 :
             Trace[trace_file][i] = StatusNone
  BY <1>1, StreamIsOpen
  DEF PlaybackInv, InPlace, StreamInPlace, StreamState
<1>3. PICK result \in Results(input_stream) :
          /\ load_file_iteration(input_stream, result)
          /\ \/ /\ result = NoResult
                /\ UNCHANGED <<trace_file, next_message>>
             \/ /\ result # NoResult
                /\ next_message' = ResultMessage(input_stream, result)
                /\ trace_file' = IF result.kind = "error" THEN None
                                                         ELSE trace_file
  BY DEF uhm_server_load_trace_read
<1>4. EndReached(result) \/ ReadFailed(result) \/ PairRead(result)
  BY <1>1, <1>3, IterationReads DEF PlaybackInv, InPlace
<1>5. Used = streams[input_stream].pos - 1 /\ TornTrace = FALSE
  BY <1>1, <1>2 DEF Used, Ahead, TornTrace, Torn
<1>6. Answers' = Answers
  BY <1>1, SameAnswers
<1>7. CASE EndReached(result)
  <2>1. trace_file' = trace_file /\ next_message' = None
    BY <1>3, <1>7 DEF EndReached, Result, NoResult, ResultMessage
  <2>2. Used' = Used /\ TornTrace' = TornTrace
    BY <1>1, <1>2, <1>5, <1>7, <2>1
    DEF EndReached, Used, Ahead, TornTrace, Torn
  <2>3. QED
    BY <1>1, <1>6, <2>1, <2>2 DEF Playback!vars
<1>8. CASE ReadFailed(result)
  <2>1. trace_file' = None
    BY <1>3, <1>8 DEF ReadFailed, Result, NoResult
  <2>2. QED
    BY <1>1, <2>1, UnloadPlays
<1>9. ASSUME PairRead(result),
             \/ result = NoResult
             \/ result = Result("null", streams[input_stream].pos)
      PROVE  Playback!PassOver
  <2>1. trace_file' = trace_file /\ next_message' = None
    BY <1>1, <1>3, <1>9 DEF Result, NoResult, ResultMessage
  <2>2. Used' = Used + 1 /\ TornTrace' = FALSE
    BY <1>1, <1>2, <1>5, <1>9, <2>1
    DEF PairRead, Used, Ahead, TornTrace, Torn
  <2>3. /\ Used # Len(Trace[trace_file])
        /\ \/ Trace[trace_file][Used + 1] = StatusNone
           \/ Trace[trace_file][Used + 1] = Malformed
    BY <1>2, <1>5, <1>9 DEF PairRead, Result, NoResult
  <2>4. QED
    BY <1>1, <1>2, <1>5, <1>6, <2>1, <2>2, <2>3
    DEF Playback!PassOver, Playback!AtEnd, Playback!NextEntry, Playback!Unused
<1>10. CASE PairRead(result) /\ result = Result("message", streams[input_stream].pos)
  <2>1. /\ trace_file' = trace_file
        /\ next_message' = [file |-> trace_file,
                            pos |-> streams[input_stream].pos,
                            based |-> base_uri]
    BY <1>2, <1>3, <1>10 DEF Result, NoResult, ResultMessage
  <2>2. next_message' # None
    <3>1. base_uri \in BOOLEAN /\ trace_file \in File
      BY <1>1, StreamIsOpen DEF base_uri, PlaybackInv
    <3>2. QED
      BY <1>2, <2>1, <3>1, MessageAssumption DEF Message
  <2>3. Used' = Used /\ TornTrace' = TornTrace
    BY <1>1, <1>2, <1>5, <1>10, <2>1, <2>2
    DEF PairRead, Used, Ahead, TornTrace, Torn
  <2>4. QED
    BY <1>1, <1>6, <2>1, <2>3 DEF Playback!vars
<1>11. QED
  BY <1>4, <1>7, <1>8, <1>9, <1>10 DEF PairRead, Playback!Next

LEMMA ApplicationPlays ==
    ASSUME Orderly, PlaybackInv, Application
    PROVE  [Playback!Next]_Playback!vars
<1>1. CASE uhm_server_run
  BY <1>1, UntouchedPlays
  DEF uhm_server_run, traceVars, handlerVars, clientVars
<1>2. CASE uhm_server_stop
  BY <1>2, UntouchedPlays
  DEF uhm_server_stop, traceVars, handlerVars, clientVars
<1>3. CASE uhm_server_stop_joined
  BY <1>3, UnloadPlays DEF uhm_server_stop_joined, unload_trace
<1>4. CASE uhm_server_unload_trace
  <2>1. CASE trace_file = None
    <3>1. /\ trace_file' = None /\ request' = request
          /\ Used = 0 /\ Used' = 0 /\ TornTrace = FALSE /\ TornTrace' = FALSE
      BY <1>4, <2>1
      DEF uhm_server_unload_trace, unload_trace, Used, TornTrace, clientVars
    <3>2. Answers' = Answers
      BY <1>4, SameAnswers DEF uhm_server_unload_trace, clientVars
    <3>3. QED
      BY <2>1, <3>1, <3>2 DEF Playback!vars
  <2>2. CASE trace_file # None
    BY <1>4, <2>2, UnloadPlays
    DEF uhm_server_unload_trace, unload_trace, clientVars
  <2>3. QED
    BY <2>1, <2>2
<1>5. CASE uhm_server_load_trace_asserts
  BY <1>5, AbortPlays
  DEF uhm_server_load_trace_asserts, load_file_iteration_asserts
<1>6. ASSUME NEW names \in DomainNames,
             uhm_server_set_expected_domain_names(names)
      PROVE  UNCHANGED Playback!vars
  BY <1>6, UntouchedPlays
  DEF uhm_server_set_expected_domain_names, traceVars, handlerVars, clientVars
<1>7. ASSUME NEW h \in Host, uhm_resolver_add_A(h)
      PROVE  UNCHANGED Playback!vars
  BY <1>7, UntouchedPlays
  DEF uhm_resolver_add_A, traceVars, handlerVars, clientVars
<1>8. ASSUME NEW b \in BOOLEAN, uhm_server_set_enable_online(b)
      PROVE  UNCHANGED Playback!vars
  BY <1>8, UntouchedPlays
  DEF uhm_server_set_enable_online, traceVars, handlerVars, clientVars
<1>9. QED
  BY <1>1, <1>2, <1>3, <1>4, <1>5, <1>6, <1>7, <1>8, LoadPlays, LoadReadPlays
  DEF Application

LEMMA NetworkPlays ==
    ASSUME PlaybackInv, Network
    PROVE  [Playback!Next]_Playback!vars
<1>1. /\ trace_file' = trace_file
      /\ Used' = Used /\ TornTrace' = TornTrace
  BY SameMapping DEF Network, Arrive, Send, traceVars, handlerVars
<1>2. ASSUME NEW c \in Client, Arrive(c) PROVE UNCHANGED Playback!vars
  BY <1>1, <1>2, SameAnswers DEF Arrive, Playback!vars
<1>3. ASSUME NEW c \in Client, NEW r \in Request, Send(c, r)
      PROVE  Playback!Ask(c, r)
  <2>1. request[c] = None /\ request' = [request EXCEPT ![c] = r]
    BY <1>3 DEF Send, PlaybackInv, InPlace, ClientsWait
  <2>2. Answers' = [Answers EXCEPT ![c] = Playback!NoAnswer]
    <3>1. reply' = [reply EXCEPT ![c] = NoReply] /\ reply \in [Client -> Reply]
      BY <1>3 DEF Send, PlaybackInv, TypeOK, RequestTypeOK
    <3>2. QED
      BY <3>1
      DEF Answers, NoReply, Pair, Playback!NoAnswer, Playback!Answer
  <2>3. QED
    BY <1>1, <2>1, <2>2 DEF Playback!Ask
<1>4. QED
  BY <1>2, <1>3 DEF Network, Playback!Next
\* A handler that returns answers its client.
LEMMA RespondAnswers ==
    ASSUME PlaybackInv, NEW c \in Client, Outstanding(c), NEW kind, NEW m,
           Respond(c, kind, m), kind = "own" => m = None
    PROVE  Playback!Respond(c, Playback!Answer(kind, Pair(m)))
<1>1. request[c] # None /\ request' = [request EXCEPT ![c] = None]
  BY DEF Respond, PlaybackInv, InPlace, ClientsWait
<1>2. Answers' = [Answers EXCEPT ![c] = Playback!Answer(kind, Pair(m))]
  <2>1. /\ reply \in [Client -> Reply]
        /\ reply' = [reply EXCEPT ![c] =
                        IF kind = "own"
                        THEN [NoReply EXCEPT !.kind = "own"]
                        ELSE [kind |-> kind, message |-> m,
                              trace_file |-> trace_file,
                              offset |-> message_counter]]
    BY DEF Respond, PlaybackInv, TypeOK, RequestTypeOK
  <2>2. \A d \in Client \ {c} : reply'[d] = reply[d]
    BY <2>1
  <2>3. reply'[c].kind = kind /\ reply'[c].message = m
    BY <2>1 DEF NoReply
  <2>4. QED
    BY <2>2, <2>3 DEF Answers, Playback!Answer
<1>3. QED
  BY <1>1, <1>2 DEF Playback!Respond

LEMMA DispatchPlays ==
    ASSUME PlaybackInv, NEW c \in Client, Dispatch(c)
    PROVE  [Playback!Next]_Playback!vars
<1>1. CASE server_handler_cb(c)
  <2>1. /\ UNCHANGED <<trace_file, input_stream, next_message, streams,
                       request, reply>>
        /\ pc = "idle" /\ pc' \in {"reading", "process"}
    BY <1>1 DEF server_handler_cb, ServerAt, traceVars
  <2>2. Used' = Used /\ TornTrace' = TornTrace
    BY <2>1 DEF Used, Ahead, TornTrace, Torn
  <2>3. QED
    BY <2>1, <2>2, SameAnswers DEF Playback!vars
<1>2. CASE server_handler_cb_own(c)
  <2>1. /\ Respond(c, "own", None)
        /\ Outstanding(c)
        /\ request[c] \in OwnHandled
        /\ UNCHANGED <<trace_file, input_stream, next_message, streams>>
        /\ pc = "idle" /\ pc' = "idle"
    BY <1>2
    DEF server_handler_cb_own, ServerAt, Outstanding, Respond, traceVars
  <2>2. Used' = Used /\ TornTrace' = TornTrace
    BY <2>1 DEF Used, Ahead, TornTrace, Torn
  <2>3. Playback!Respond(c, Playback!Answer("own", None))
    BY <2>1, RespondAnswers DEF Pair
  <2>4. QED
    BY <2>1, <2>2, <2>3 DEF Playback!Next, Playback!Own
<1>3. QED
  BY <1>1, <1>2, HandlerAsserts
  DEF Dispatch, PlaybackInv, Disciplined

LEMMA WorkerPlays ==
    ASSUME PlaybackInv, load_file_iteration_thread_cb
    PROVE  [Playback!Next]_Playback!vars
<1>1. /\ pc = "reading" /\ task_stream = input_stream
      /\ trace_file # None /\ next_message = None
      /\ app # "loading" /\ ~Racing
      /\ UNCHANGED <<trace_file, input_stream, next_message, request, reply>>
  BY HandlerHasTrace
  DEF load_file_iteration_thread_cb, ServerAt, Racing, PlaybackInv, traceVars,
      clientVars
<1>2. /\ streams[input_stream].pos \in Nat \ {0}
      /\ Len(Trace[trace_file]) \in Nat
      /\ streams[input_stream].framing \in Framing
      /\ streams[input_stream].framing # "aligned" => "read" \in Faults
  BY <1>1, StreamIsOpen
  DEF PlaybackInv, InPlace, StreamInPlace, StreamState
<1>3. PICK result \in Results(input_stream) :
          /\ load_file_iteration(input_stream, result)
          /\ task_result' = result
          /\ pc' = IF result = NoResult THEN "reading" ELSE "read"
  BY <1>1 DEF load_file_iteration_thread_cb
<1>4. EndReached(result) \/ ReadFailed(result) \/ PairRead(result)
  BY <1>1, <1>3, IterationReads DEF PlaybackInv, InPlace
<1>5. /\ Used = streams[input_stream].pos - 1
      /\ TornTrace = IF streams[input_stream].framing \in {"half", "lost"}
                     THEN TRUE ELSE FALSE
  BY <1>1 DEF Used, Ahead, TornTrace, Torn
<1>6. Answers' = Answers
  BY <1>1, SameAnswers
<1>7. CASE EndReached(result)
  <2>1. Used' = Used /\ TornTrace' = TornTrace
    BY <1>1, <1>3, <1>5, <1>7
    DEF EndReached, Result, NoResult, Used, Ahead, TornTrace, Torn
  <2>2. QED
    BY <1>1, <1>6, <2>1 DEF Playback!vars
<1>8. CASE ReadFailed(result)
  <2>1. "read" \in Faults /\ Used' = Used /\ TornTrace' \in {TornTrace, TRUE}
    BY <1>1, <1>3, <1>5, <1>8
    DEF ReadFailed, Result, NoResult, AfterError, Used, Ahead, TornTrace, Torn
  <2>2. QED
    BY <1>1, <1>6, <2>1 DEF Playback!vars, Playback!Next, Playback!Tear
<1>9. CASE PairRead(result) /\ result = NoResult
  <2>1. /\ Used' = Used + 1
        /\ TornTrace = FALSE /\ TornTrace' = FALSE
        /\ Used # Len(Trace[trace_file])
        /\ Trace[trace_file][Used + 1] = StatusNone
    BY <1>1, <1>2, <1>3, <1>5, <1>9
    DEF PairRead, Result, NoResult, Used, Ahead, TornTrace, Torn
  <2>2. Playback!PassOver
    BY <1>1, <1>6, <2>1
    DEF Playback!PassOver, Playback!AtEnd, Playback!NextEntry
  <2>3. QED
    BY <2>2 DEF Playback!Next
<1>10. CASE PairRead(result) /\ result # NoResult
  <2>1. /\ pc' = "read" /\ task_result'.pos = streams[input_stream].pos
        /\ task_result'.kind \in {"null", "message"}
        /\ task_result'.kind = "message" =>
              streams[input_stream].framing \notin {"half", "lost"}
        /\ streams'[input_stream].pos = streams[input_stream].pos + 1
        /\ streams'[input_stream].framing =
              IF streams[input_stream].framing = "half"
              THEN "mended" ELSE streams[input_stream].framing
    BY <1>3, <1>10 DEF PairRead, Result
  <2>2. Used' = Used
    BY <1>1, <1>2, <1>5, <2>1 DEF Used, Ahead
  <2>3. TornTrace' = IF /\ task_result'.kind = "null"
                        /\ streams[input_stream].framing # "aligned"
                     THEN TRUE ELSE FALSE
    BY <1>1, <1>2, <2>1 DEF TornTrace, Torn, Framing, AfterError
  <2>4. CASE TornTrace' = TornTrace
    BY <1>1, <1>6, <2>2, <2>4 DEF Playback!vars
  <2>5. CASE TornTrace' = TRUE /\ "read" \in Faults
    BY <1>1, <1>6, <2>2, <2>5 DEF Playback!Next, Playback!Tear
  <2>6. \/ TornTrace' = TornTrace
        \/ TornTrace' = TRUE /\ "read" \in Faults
    <3>1. CASE streams[input_stream].framing = "aligned"
      BY <1>5, <2>3, <3>1
    <3>2. CASE task_result'.kind = "null" /\ streams[input_stream].framing # "aligned"
      BY <1>2, <2>3, <3>2
    <3>3. CASE task_result'.kind = "message"
      BY <1>5, <2>1, <2>3, <3>3
    <3>4. QED
      BY <2>1, <3>1, <3>2, <3>3
  <2>7. QED
    BY <2>4, <2>5, <2>6
<1>11. QED
  BY <1>4, <1>7, <1>8, <1>9, <1>10
LEMMA HandleMessagePlays ==
    ASSUME PlaybackInv, real_handle_message
    PROVE  [Playback!Next]_Playback!vars
<1>1. /\ pc = "read" /\ task_stream = input_stream
      /\ trace_file # None /\ next_message = None
      /\ current \in Client /\ Outstanding(current)
      /\ UNCHANGED <<trace_file, input_stream, streams>>
      /\ next_message' = ResultMessage(input_stream, task_result)
  BY HandlerHasTrace
  DEF real_handle_message, ServerAt, PlaybackInv, Outstanding
<1>2. /\ streams[input_stream].pos \in Nat \ {0}
      /\ Len(Trace[trace_file]) \in Nat
      /\ streams[input_stream].pos <= Len(Trace[trace_file]) + 1
      /\ streams[input_stream].file = trace_file
  BY <1>1, StreamIsOpen
  DEF PlaybackInv, InPlace, StreamInPlace, StreamState
<1>3. CASE task_result.kind = "message"
  <2>1. /\ ReadLast(task_result.pos)
        /\ task_result.pos # 0
    BY <1>1, <1>3, <1>2
    DEF PlaybackInv, InPlace, PairInPlace, Result, TypeOK, RequestTypeOK,
        TaskResult
  <2>2. next_message' # None
    <3>1. task_result.pos \in Nat \ {0}
      BY <2>1 DEF PlaybackInv, TypeOK, RequestTypeOK, TaskResult
    <3>2. base_uri \in BOOLEAN /\ trace_file \in File
      BY <1>1, StreamIsOpen DEF base_uri, PlaybackInv
    <3>3. QED
      BY <1>1, <1>2, <1>3, <3>1, <3>2, MessageAssumption
      DEF ResultMessage, Message
  <2>3. pc' = "process" /\ UNCHANGED clientVars
    BY <1>3 DEF real_handle_message
  <2>4. Used' = Used
    BY <1>1, <2>1, <2>2, <2>3 DEF Used, Ahead
  <2>5. TornTrace' = TornTrace
    BY <1>1, <1>3, <2>1, <2>3 DEF ReadLast, TornTrace, Torn
  <2>6. QED
    BY <1>1, <2>3, <2>4, <2>5, SameAnswers DEF Playback!vars, clientVars
<1>4. CASE task_result.kind # "message"
  <2>1. next_message' = None
    BY <1>1, <1>4 DEF ResultMessage
  <2>2. ASSUME NEW kind, kind # "own", Respond(current, kind, None)
        PROVE  /\ Playback!Respond(current, Playback!Answer(kind, None))
               /\ pc' = "idle"
    <3>1. Playback!Respond(current, Playback!Answer(kind, Pair(None)))
      BY <1>1, <2>2, RespondAnswers
    <3>2. QED
      BY <2>2, <3>1 DEF Pair, Respond
  <2>3. CASE task_result = Result("error", 0) /\ "read" \in Faults
    <3>1. /\ Playback!Respond(current, Playback!Answer("failed", None))
          /\ pc' = "idle"
      BY <2>2, <2>3 DEF real_handle_message, Result
    <3>2. Used' = Used /\ TornTrace' = TornTrace
      BY <1>1, <2>1, <2>3, <3>1 DEF Used, Ahead, TornTrace, Torn, Result
    <3>3. QED
      BY <1>1, <2>3, <3>1, <3>2 DEF Playback!Next, Playback!Failed
  <2>4. CASE task_result = Result("null", 0) /\ AtEnd(input_stream)
    <3>1. /\ Playback!Respond(current, Playback!Answer("nothing", None))
          /\ pc' = "idle"
      BY <2>2, <2>4 DEF real_handle_message, Result
    <3>2. Used' = Used /\ TornTrace' = TornTrace
      BY <1>1, <2>1, <2>4, <3>1 DEF Used, Ahead, TornTrace, Torn, Result
    <3>3. Used = Len(Trace[trace_file])
      BY <1>1, <1>2, <2>4 DEF Used, Ahead, AtEnd, Result
    <3>4. QED
      BY <1>1, <3>1, <3>2, <3>3
      DEF Playback!Next, Playback!Nothing, Playback!AtEnd
  <2>5. CASE /\ task_result.kind = "null"
             /\ task_result.pos = streams[input_stream].pos - 1
             /\ task_result.pos # 0
             /\ streams[input_stream].framing # "half"
             /\ \/ streams[input_stream].framing \in {"mended", "lost"}
                \/ Trace[trace_file][task_result.pos] = Malformed
    <3>1. /\ Playback!Respond(current, Playback!Answer("nothing", None))
          /\ pc' = "idle"
      BY <2>2, <2>5 DEF real_handle_message
    <3>2. /\ Used = streams[input_stream].pos - 2
          /\ Used' = Used + 1
          /\ Used # Len(Trace[trace_file])
          /\ task_result.pos = Used + 1
      BY <1>1, <1>2, <2>1, <2>5, <3>1 DEF Used, Ahead
    <3>3. /\ TornTrace' \in {TornTrace, FALSE}
          /\ TornTrace \/ Trace[trace_file][Used + 1] = Malformed
      BY <1>1, <2>5, <3>1, <3>2 DEF TornTrace, Torn
    <3>4. QED
      BY <1>1, <3>1, <3>2, <3>3
      DEF Playback!Next, Playback!Nothing, Playback!AtEnd, Playback!NextEntry
  <2>6. QED
    BY <1>1, <1>4, <2>3, <2>4, <2>5 DEF PlaybackInv, InPlace, PairInPlace
<1>5. QED
  BY <1>3, <1>4

LEMMA ComparePlays ==
    ASSUME PlaybackInv, compare_incoming_message
    PROVE  [Playback!Next]_Playback!vars
<1>1. /\ pc = "comparing" /\ next_message # None
      /\ expected = next_message
      /\ trace_file # None
      /\ current \in Client /\ Outstanding(current)
      /\ UNCHANGED <<trace_file, input_stream, streams>>
  BY HandlerHasTrace
  DEF compare_incoming_message, ServerAt, PlaybackInv, Disciplined, InHand,
      OneRequestInHand, TraceStaysLoaded, Outstanding
<1>2. /\ streams[input_stream].pos \in Nat \ {0}
      /\ Len(Trace[trace_file]) \in Nat
      /\ streams[input_stream].pos <= Len(Trace[trace_file]) + 1
  BY <1>1, StreamIsOpen
  DEF PlaybackInv, InPlace, StreamInPlace, StreamState
<1>3. /\ next_message.file = trace_file
      /\ ReadLast(next_message.pos)
  BY <1>1 DEF PlaybackInv, InPlace, PairInPlace
<1>4. /\ Used = streams[input_stream].pos - 2
      /\ next_message.pos = Used + 1
      /\ Used # Len(Trace[trace_file])
      /\ Trace[trace_file][Used + 1] \in Request
      /\ TornTrace = FALSE
  BY <1>1, <1>2, <1>3 DEF Used, Ahead, TornTrace, Torn, ReadLast
<1>5. Pair(next_message) = Playback!Here
  BY <1>1, <1>3, <1>4 DEF Pair, Playback!Here
<1>6. MessagesEqual(expected, request[current])
        <=> <<Trace[trace_file][Used + 1], request[current]>> \in Match
  <2>1. next_message.based
    BY <1>1 DEF compare_incoming_message, MessagesEqual
  <2>2. QED
    BY <1>1, <1>3, <1>4, <2>1 DEF MessagesEqual
<1>7. ASSUME NEW kind, kind # "own", Respond(current, kind, next_message)
      PROVE  /\ Playback!Respond(current, Playback!Answer(kind, Playback!Here))
             /\ pc' = "idle"
  BY <1>1, <1>5, <1>7, RespondAnswers DEF Respond
<1>8. pc' = "idle" => TornTrace' = FALSE
  BY <1>1, <1>3 DEF TornTrace, Torn, ReadLast
<1>9. CASE MessagesEqual(expected, request[current])
  <2>1. Respond(current, "recorded", next_message) /\ next_message' = None
    BY <1>9 DEF compare_incoming_message, cleared
  <2>2. Used' = Used + 1
    BY <1>1, <1>2, <1>4, <2>1 DEF Respond, Used, Ahead
  <2>3. QED
    BY <1>1, <1>4, <1>6, <1>7, <1>8, <1>9, <2>1, <2>2
    DEF Playback!Next, Playback!Recorded, Playback!AtEnd, Playback!NextEntry
<1>10. CASE ~MessagesEqual(expected, request[current])
  <2>1. /\ Respond(current, "unexpected", next_message)
        /\ next_message' = next_message
    BY <1>10 DEF compare_incoming_message
  <2>2. Used' = Used
    BY <1>1, <2>1 DEF Respond, Used, Ahead
  <2>3. QED
    BY <1>1, <1>4, <1>6, <1>7, <1>8, <1>10, <2>1, <2>2
    DEF Playback!Next, Playback!Unexpected, Playback!AtEnd, Playback!NextEntry
<1>11. QED
  BY <1>9, <1>10

LEMMA HandlePlays ==
    ASSUME PlaybackInv, Handle
    PROVE  [Playback!Next]_Playback!vars
<1>1. CASE server_process_message
  <2>1. /\ UNCHANGED <<trace_file, input_stream, next_message, streams,
                       clientVars>>
        /\ pc = "process" /\ pc' = "comparing"
    BY <1>1 DEF server_process_message, ServerAt
  <2>2. Used' = Used /\ TornTrace' = TornTrace
    BY <2>1 DEF Used, Ahead, TornTrace, Torn
  <2>3. QED
    BY <2>1, <2>2, SameAnswers DEF Playback!vars, clientVars
<1>2. CASE load_file_iteration_thread_cb_asserts
  BY <1>2, AbortPlays
  DEF load_file_iteration_thread_cb_asserts, load_file_iteration_asserts
<1>3. CASE uri_get_path_query_crashes
  BY <1>3, AbortPlays DEF uri_get_path_query_crashes
<1>4. QED
  BY <1>1, <1>2, <1>3, WorkerPlays, HandleMessagePlays, ComparePlays,
     HandlerAsserts
  DEF Handle, PlaybackInv, Disciplined

LEMMA NextPlays ==
    ASSUME Orderly, PlaybackInv, [Next]_vars
    PROVE  [Playback!Next]_Playback!vars
<1>1. CASE server_thread_quit_cb
  BY <1>1, UntouchedPlays
  DEF server_thread_quit_cb, traceVars, handlerVars, clientVars
<1>2. CASE UNCHANGED vars
  BY <1>2, UntouchedPlays DEF vars, traceVars, handlerVars, clientVars
<1>3. QED
  BY <1>1, <1>2, ApplicationPlays, NetworkPlays, DispatchPlays, HandlePlays
  DEF Next, ServerThread, Dead

\* In an orderly application the server implements TracePlayback, for any
\* clients, traces and failures: pairs are used in order, each at most once,
\* and every answer is the one that the trace has for its request, also when
\* the trace was loaded before the server ran.
THEOREM ServerPlaysTraceBack == Orderly => (Spec => PlaysTraceBack)
<1> SUFFICES ASSUME Orderly PROVE Spec => PlaysTraceBack
  OBVIOUS
<1>1. PlaybackInv /\ [Next]_vars => [Playback!Next]_Playback!vars
  BY NextPlays
<1>2. QED
  BY <1>1, PlaybackInit, PlaybackInvariant, PTL
  DEF Spec, PlaysTraceBack, Playback!Spec
-------------------------------------------------------------------------------
(* The offsets in the answers.                                             *)

\* Counting one pair more.
LEMMA CountOneMore ==
    ASSUME NEW f, NEW n \in Nat
    PROVE  /\ PairsToAnswer(f, n) \in Nat
           /\ PairsToAnswer(f, n + 1) =
                PairsToAnswer(f, n)
                + (IF Trace[f][n + 1] \in Request THEN 1 ELSE 0)
<1> DEFINE ToAnswer(k) == {i \in 1 .. k : Trace[f][i] \in Request}
<1>1. IsFiniteSet(ToAnswer(n))
  <2>1. IsFiniteSet(1 .. n)
    BY FS_Interval
  <2>2. ToAnswer(n) \subseteq 1 .. n
    OBVIOUS
  <2>3. QED
    BY <2>1, <2>2, FS_Subset
<1>2. CASE Trace[f][n + 1] \in Request
  <2>1. ToAnswer(n + 1) = ToAnswer(n) \cup {n + 1} /\ n + 1 \notin ToAnswer(n)
    BY <1>2
  <2>2. Cardinality(ToAnswer(n + 1)) = Cardinality(ToAnswer(n)) + 1
    BY <1>1, <2>1, FS_AddElement
  <2>3. QED
    BY <1>1, <1>2, <2>2, FS_CardinalityType DEF PairsToAnswer
<1>3. CASE Trace[f][n + 1] \notin Request
  <2>1. ToAnswer(n + 1) = ToAnswer(n)
    BY <1>3
  <2>2. Cardinality(ToAnswer(n)) \in Nat
    BY <1>1, FS_CardinalityType
  <2>3. PairsToAnswer(f, n) = Cardinality(ToAnswer(n))
    BY DEF PairsToAnswer
  <2>4. PairsToAnswer(f, n + 1) = Cardinality(ToAnswer(n + 1))
    BY DEF PairsToAnswer
  <2>5. QED
    BY <1>3, <2>1, <2>2, <2>3, <2>4
<1>4. QED
  BY <1>2, <1>3

LEMMA CountNone ==
    ASSUME NEW f, NEW n \in Nat,
           \A i \in 1 .. n : Trace[f][i] \notin Request
    PROVE  PairsToAnswer(f, n) = 0
<1>1. {i \in 1 .. n : Trace[f][i] \in Request} = {}
  OBVIOUS
<1>2. QED
  BY <1>1, FS_EmptySet DEF PairsToAnswer

LEMMA UsedType ==
    ASSUME PlaybackInv
    PROVE  Used \in Nat
<1>1. CASE trace_file = None
  BY <1>1 DEF Used
<1>2. CASE trace_file # None
  <2>1. streams[input_stream].pos \in Nat \ {0}
    BY <1>2, StreamIsOpen DEF PlaybackInv, StreamState
  <2>2. Ahead => streams[input_stream].pos - 1 # 0
    <3>1. CASE next_message # None
      <4>1. /\ next_message.pos = streams[input_stream].pos - 1
            /\ next_message.pos # 0
        BY <1>2, <3>1
        DEF PlaybackInv, InPlace, PairInPlace, ReadLast, TypeOK, FieldsTypeOK,
            Message
      <4>2. QED
        BY <4>1
    <3>2. CASE pc = "read" /\ task_result.pos # 0
      BY <3>2 DEF PlaybackInv, InPlace, PairInPlace, ReadLast, Result
    <3>3. QED
      BY <3>1, <3>2 DEF Ahead
  <2>3. QED
    BY <1>2, <2>1, <2>2 DEF Used
<1>3. QED
  BY <1>1, <1>2

\* While reads do not fail a trace is never torn, and a pair with a response
\* is used up only by the answer that was recorded for it.
LEMMA OnlyRecordedCounts ==
    ASSUME PlaybackInv, PlaybackInv', "read" \notin Faults,
           [Playback!Next]_Playback!vars,
           trace_file # None, trace_file' = trace_file
    PROVE  /\ Used' \in {Used, Used + 1}
           /\ (\A c \in Client : request'[c] = request[c]
                                 \/ reply'[c].kind # "recorded")
                 => PairsToAnswer(trace_file, Used')
                       = PairsToAnswer(trace_file, Used)
<1>1. TornTrace = FALSE
  BY DEF PlaybackInv, InPlace, StreamInPlace, TornTrace, Torn
<1>2. CASE Used' = Used
  BY <1>2
<1>3. ASSUME Used' = Used + 1,
             Trace[trace_file][Used + 1] \in {StatusNone, Malformed}
      PROVE  PairsToAnswer(trace_file, Used') = PairsToAnswer(trace_file, Used)
  <2>1. Used \in Nat /\ Trace[trace_file][Used + 1] \notin Request
    BY <1>3, UsedType, TraceAssumption
  <2>2. PairsToAnswer(trace_file, Used) \in Nat
    BY <2>1, CountOneMore
  <2>3. PairsToAnswer(trace_file, Used + 1) = PairsToAnswer(trace_file, Used)
    BY <2>1, <2>2, CountOneMore
  <2>4. QED
    BY <1>3, <2>3
<1>4. ASSUME NEW c \in Client, Playback!Recorded(c)
      PROVE  request'[c] # request[c] /\ reply'[c].kind = "recorded"
  <2>1. /\ request[c] # None /\ request'[c] = None
        /\ Answers'[c].kind = "recorded"
    BY <1>4
    DEF Playback!Recorded, Playback!Respond, Playback!Answer, PlaybackInv,
        TypeOK, RequestTypeOK, Answers
  <2>2. QED
    BY <2>1 DEF Answers
<1>5. QED
  BY <1>1, <1>2, <1>3, <1>4
  DEF Playback!Next, Playback!vars, Playback!Load, Playback!Unload,
      Playback!CutOff, Playback!PassOver, Playback!Tear, Playback!Ask,
      Playback!Recorded, Playback!Unexpected, Playback!Nothing,
      Playback!Failed, Playback!Own, Playback!NextEntry
\* A step that neither counts nor compares nor ends a load.
LEMMA CounterKept ==
    ASSUME PlaybackInv, PlaybackInv', "read" \notin Faults, CounterKeepsUp,
           [Playback!Next]_Playback!vars,
           trace_file' \in {trace_file, None},
           message_counter' = message_counter,
           pc' = "comparing" => pc = "comparing",
           \A c \in Client : request'[c] = request[c]
                             \/ reply'[c].kind # "recorded"
    PROVE  CounterKeepsUp'
<1>1. CASE trace_file' = None
  BY <1>1 DEF CounterKeepsUp
<1>2. CASE trace_file' = trace_file /\ trace_file # None
  <2>1. PairsToAnswer(trace_file, Used') = PairsToAnswer(trace_file, Used)
    BY <1>2, OnlyRecordedCounts
  <2>2. PairsToAnswer(trace_file, Used)' = PairsToAnswer(trace_file', Used')
    BY DEF PairsToAnswer
  <2>3. /\ PairsToAnswer(trace_file, Used) \in Nat
        /\ message_counter \in Nat
    BY UsedType, CountOneMore DEF PlaybackInv, TypeOK, FieldsTypeOK
  <2>4. QED
    BY <1>2, <2>1, <2>2, <2>3 DEF CounterKeepsUp
<1>3. QED
  BY <1>1, <1>2

LEMMA CounterCompare ==
    ASSUME PlaybackInv, PlaybackInv', "read" \notin Faults, CounterKeepsUp,
           [Playback!Next]_Playback!vars, compare_incoming_message
    PROVE  CounterKeepsUp'
<1>1. /\ pc = "comparing" /\ pc' = "idle"
      /\ trace_file # None
      /\ trace_file' = trace_file /\ message_counter' = message_counter
  BY HandlerHasTrace
  DEF compare_incoming_message, ServerAt, Respond, PlaybackInv
<1>2. Used' \in {Used, Used + 1}
  BY <1>1, OnlyRecordedCounts
<1>3. Used \in Nat
  BY UsedType
<1>4. /\ PairsToAnswer(trace_file, Used) \in Nat
      /\ PairsToAnswer(trace_file, Used + 1) \in Nat
      /\ PairsToAnswer(trace_file, Used + 1)
            <= PairsToAnswer(trace_file, Used) + 1
  BY <1>3, CountOneMore
<1>5. PairsToAnswer(trace_file, Used)' = PairsToAnswer(trace_file', Used')
  BY DEF PairsToAnswer
<1>6. message_counter \in Nat
  BY DEF PlaybackInv, TypeOK, FieldsTypeOK
<1>7. message_counter >= PairsToAnswer(trace_file, Used) + 1
  BY <1>1 DEF CounterKeepsUp
<1>8. message_counter >= PairsToAnswer(trace_file, Used')
  BY <1>2, <1>4, <1>6, <1>7
<1>9. QED
  BY <1>1, <1>5, <1>6, <1>8, <1>2, <1>4 DEF CounterKeepsUp

\* A load passed over all it has read, so it starts counting at 0.
LEMMA CounterLoadRead ==
    ASSUME PlaybackInv, PlaybackInv', "read" \notin Faults, CounterKeepsUp,
           [Playback!Next]_Playback!vars, uhm_server_load_trace_read
    PROVE  CounterKeepsUp'
<1>1. /\ app = "loading" /\ pc = "idle" /\ pc' = "idle"
      /\ trace_file # None /\ next_message = None
      /\ request' = request
      /\ trace_file' \in {trace_file, None}
      /\ message_counter' \in {message_counter, 0}
  BY LoadIsAlone
  DEF uhm_server_load_trace_read, AppAt, PlaybackInv, handlerVars, clientVars
<1>2. CASE message_counter' = message_counter \/ trace_file' = None
  <2>1. CASE trace_file' = None
    BY <2>1 DEF CounterKeepsUp
  <2>2. CASE message_counter' = message_counter
    BY <1>1, <2>2, CounterKept
  <2>3. QED
    BY <1>2, <2>1, <2>2
<1>3. CASE message_counter' = 0 /\ trace_file' = trace_file
  <2>1. /\ Used = streams[input_stream].pos - 1
        /\ \A i \in 1 .. streams[input_stream].pos - 1 :
              Trace[trace_file][i] = StatusNone
    BY <1>1 DEF Used, Ahead, PlaybackInv, InPlace, StreamInPlace
  <2>2. PairsToAnswer(trace_file, Used) = 0
    <3>1. \A i \in 1 .. Used : Trace[trace_file][i] \notin Request
      BY <2>1, TraceAssumption
    <3>2. QED
      BY <3>1, UsedType, CountNone
  <2>3. PairsToAnswer(trace_file, Used') = 0
    BY <1>1, <1>3, <2>2, OnlyRecordedCounts
  <2>4. PairsToAnswer(trace_file, Used)' = PairsToAnswer(trace_file', Used')
    BY DEF PairsToAnswer
  <2>5. QED
    BY <1>1, <1>3, <2>3, <2>4 DEF CounterKeepsUp
<1>4. QED
  BY <1>1, <1>2, <1>3

LEMMA CounterLoad ==
    ASSUME Orderly, PlaybackInv, PlaybackInv', CounterKeepsUp,
           NEW f \in File, uhm_server_load_trace(f)
    PROVE  CounterKeepsUp'
<1>1. pc' = "idle" /\ trace_file = None /\ next_message' = None
  BY CalmIsIdle
  DEF uhm_server_load_trace, PlaybackInv, Disciplined, InHand, handlerVars
<1>2. CASE trace_file' = trace_file
  BY <1>1, <1>2 DEF CounterKeepsUp
<1>3. ASSUME trace_file' = f,
             NEW s \in Stream,
             input_stream' = s,
             streams' = [streams EXCEPT ![s] = AtStart(f)]
      PROVE  CounterKeepsUp'
  <2>1. streams'[input_stream'] = AtStart(f)
    BY <1>3 DEF PlaybackInv, TypeOK, ProcessTypeOK
  <2>2. Used' = 0
    BY <1>1, <2>1 DEF Used, Ahead, AtStart
  <2>3. PairsToAnswer(trace_file', 0) = 0
    BY CountNone
  <2>4. PairsToAnswer(trace_file, Used)' = PairsToAnswer(trace_file', Used')
    BY DEF PairsToAnswer
  <2>5. message_counter' \in Nat
    BY DEF PlaybackInv, TypeOK, FieldsTypeOK
  <2>6. QED
    BY <1>1, <2>2, <2>3, <2>4, <2>5 DEF CounterKeepsUp
<1>4. QED
  BY <1>2, <1>3 DEF uhm_server_load_trace

\* server_process_message() counts the pair that it will compare.
LEMMA CounterProcess ==
    ASSUME PlaybackInv, CounterKeepsUp, server_process_message
    PROVE  CounterKeepsUp'
<1>1. /\ UNCHANGED <<trace_file, input_stream, next_message, streams>>
      /\ pc = "process" /\ pc' = "comparing"
      /\ message_counter' = message_counter + 1
  BY DEF server_process_message, ServerAt, counted
<1>2. Used' = Used
  BY <1>1 DEF Used, Ahead
<1>3. PairsToAnswer(trace_file, Used)' = PairsToAnswer(trace_file, Used)
  BY <1>1, <1>2 DEF PairsToAnswer
<1>4. /\ PairsToAnswer(trace_file, Used) \in Nat
      /\ message_counter \in Nat
  BY UsedType, CountOneMore DEF PlaybackInv, TypeOK, FieldsTypeOK
<1>5. QED
  BY <1>1, <1>3, <1>4 DEF CounterKeepsUp
\* Nothing but a comparison answers with a pair of the trace.
LEMMA OnlyComparedIsRecorded ==
    ASSUME PlaybackInv, [Next]_vars, ~compare_incoming_message, NEW c \in Client
    PROVE  \/ /\ reply'[c] = reply[c]
              /\ request'[c] = request[c] \/ trace_file' = None
           \/ reply'[c].kind # "recorded"
<1> DEFINE Goal == \/ /\ reply'[c] = reply[c]
                      /\ request'[c] = request[c] \/ trace_file' = None
                   \/ reply'[c].kind # "recorded"
<1>1. ASSUME NEW d \in Client, NEW kind, NEW m, Respond(d, kind, m),
             kind # "recorded"
      PROVE  Goal
  BY <1>1 DEF Respond, NoReply, PlaybackInv, TypeOK, RequestTypeOK
<1>2. CASE UNCHANGED clientVars
  BY <1>2 DEF clientVars
<1>3. CASE Application
  <2>1. CASE uhm_server_stop_joined
    BY <2>1 DEF uhm_server_stop_joined, unload_trace
  <2>2. UNCHANGED clientVars \/ uhm_server_stop_joined
    BY <1>3
    DEF Application, uhm_server_run, uhm_server_stop, uhm_server_unload_trace,
        uhm_server_load_trace, uhm_server_load_trace_read,
        uhm_server_load_trace_asserts, load_file_iteration_asserts, Abort,
        uhm_server_set_expected_domain_names, uhm_resolver_add_A,
        uhm_server_set_enable_online
  <2>3. QED
    BY <1>2, <2>1, <2>2
<1>4. CASE Network
  <2>1. ASSUME NEW d \in Client, Arrive(d) PROVE Goal
    BY <2>1 DEF Arrive
  <2>2. ASSUME NEW d \in Client, NEW r \in Request, Send(d, r) PROVE Goal
    <3>1. /\ reply' = [reply EXCEPT ![d] = NoReply]
          /\ request' = [request EXCEPT ![d] = r]
          /\ c = d => c \in DOMAIN reply
      BY <2>2 DEF Send, PlaybackInv, TypeOK, RequestTypeOK
    <3>2. CASE c = d
      BY <3>1, <3>2 DEF NoReply
    <3>3. CASE c # d
      <4>1. reply'[c] = reply[c] /\ request'[c] = request[c]
        BY <3>1, <3>3 DEF PlaybackInv, TypeOK, RequestTypeOK
      <4>2. QED
        BY <4>1
    <3>4. QED
      BY <3>2, <3>3
  <2>3. QED
    BY <1>4, <2>1, <2>2 DEF Network
<1>5. ASSUME NEW d \in Client, Dispatch(d) PROVE Goal
  <2>1. CASE server_handler_cb(d)
    BY <2>1 DEF server_handler_cb
  <2>2. CASE server_handler_cb_own(d)
    BY <1>1, <2>2 DEF server_handler_cb_own
  <2>3. CASE server_handler_cb_asserts(d)
    BY <1>2, <2>3 DEF server_handler_cb_asserts, Abort
  <2>4. QED
    BY <1>5, <2>1, <2>2, <2>3 DEF Dispatch
<1>6. CASE Handle
  <2>1. CASE real_handle_message
    <3>1. CASE UNCHANGED clientVars
      BY <1>2, <3>1
    <3>2. ASSUME NEW kind \in {"failed", "nothing"},
                 Respond(current, kind, None)
          PROVE  Goal
      <4>1. pc # "idle" /\ kind # "recorded"
        BY <2>1 DEF real_handle_message, ServerAt
      <4>2. current \in Client
        BY <4>1, HandlerHasTrace DEF PlaybackInv
      <4>3. QED
        BY <1>1, <3>2, <4>1, <4>2
    <3>3. QED
      BY <2>1, <3>1, <3>2 DEF real_handle_message
  <2>2. UNCHANGED clientVars \/ real_handle_message
    BY <1>6
    DEF Handle, load_file_iteration_thread_cb, server_process_message,
        load_file_iteration_thread_cb_asserts, load_file_iteration_asserts,
        server_process_message_asserts, compare_incoming_message_asserts,
        uri_get_path_query_crashes, Abort
  <2>3. QED
    BY <1>2, <2>1, <2>2
<1>7. CASE server_thread_quit_cb
  BY <1>2, <1>7 DEF server_thread_quit_cb
<1>8. CASE UNCHANGED vars
  BY <1>2, <1>8 DEF vars
<1>9. QED
  BY <1>3, <1>4, <1>5, <1>6, <1>7, <1>8 DEF Next, ServerThread, Dead

LEMMA CounterNext ==
    ASSUME Orderly, PlaybackInv, PlaybackInv', "read" \notin Faults,
           CounterKeepsUp, [Next]_vars
    PROVE  CounterKeepsUp'
<1>1. [Playback!Next]_Playback!vars
  BY NextPlays
<1>2. CASE trace_file' = None
  BY <1>2 DEF CounterKeepsUp
<1>3. CASE compare_incoming_message
  BY <1>1, <1>3, CounterCompare
<1>4. CASE uhm_server_load_trace_read
  BY <1>1, <1>4, CounterLoadRead
<1>5. ASSUME NEW f \in File, uhm_server_load_trace(f) PROVE CounterKeepsUp'
  BY <1>5, CounterLoad
<1>6. CASE server_process_message
  BY <1>6, CounterProcess
<1>7. CASE /\ ~compare_incoming_message
           /\ trace_file' = trace_file
           /\ message_counter' = message_counter
           /\ pc' = "comparing" => pc = "comparing"
  <2>1. CASE trace_file' # None
    <3>1. \A c \in Client :
             request'[c] = request[c] \/ reply'[c].kind # "recorded"
      BY <1>7, <2>1, OnlyComparedIsRecorded
    <3>2. QED
      BY <1>1, <1>7, <3>1, CounterKept
  <2>2. QED
    BY <1>2, <2>1
<1>8. \/ trace_file' = None
      \/ uhm_server_load_trace_read
      \/ \E f \in File : uhm_server_load_trace(f)
      \/ server_process_message
      \/ compare_incoming_message
      \/ /\ trace_file' = trace_file
         /\ message_counter' = message_counter
         /\ pc' = "comparing" => pc = "comparing"
  <2>1. CASE Application
    BY <2>1
    DEF Application, uhm_server_run, uhm_server_stop, uhm_server_stop_joined,
        uhm_server_unload_trace, unload_trace, uhm_server_load_trace_asserts,
        load_file_iteration_asserts, Abort,
        uhm_server_set_expected_domain_names, uhm_resolver_add_A,
        uhm_server_set_enable_online, traceVars, handlerVars
  <2>2. CASE Network
    BY <2>2 DEF Network, Arrive, Send, traceVars, handlerVars
  <2>3. ASSUME NEW c \in Client, Dispatch(c)
        PROVE  UNCHANGED traceVars /\ pc' \in {pc, "reading", "process", "idle"}
    BY <2>3
    DEF Dispatch, server_handler_cb, server_handler_cb_own, Respond,
        server_handler_cb_asserts, Abort, handlerVars
  <2>4. CASE Handle
    <3>1. CASE real_handle_message
      BY <3>1 DEF real_handle_message, Respond
    <3>2. CASE load_file_iteration_thread_cb
      BY <3>2 DEF load_file_iteration_thread_cb, ServerAt, traceVars
    <3>3. CASE \/ load_file_iteration_thread_cb_asserts
               \/ server_process_message_asserts
               \/ compare_incoming_message_asserts
               \/ uri_get_path_query_crashes
      BY <3>3
      DEF load_file_iteration_thread_cb_asserts, load_file_iteration_asserts,
          server_process_message_asserts, compare_incoming_message_asserts,
          uri_get_path_query_crashes, Abort, traceVars, handlerVars
    <3>4. QED
      BY <2>4, <3>1, <3>2, <3>3 DEF Handle
  <2>5. CASE server_thread_quit_cb \/ UNCHANGED vars
    BY <2>5 DEF server_thread_quit_cb, vars, traceVars, handlerVars
  <2>6. QED
    BY <2>1, <2>2, <2>3, <2>4, <2>5 DEF Next, ServerThread, Dead, traceVars
<1>9. QED
  BY <1>2, <1>3, <1>4, <1>5, <1>6, <1>7, <1>8

LEMMA OffsetsNext ==
    ASSUME PlaybackInv, CounterKeepsUp, OffsetCountsPairs, [Next]_vars
    PROVE  OffsetCountsPairs'
<1> SUFFICES ASSUME NEW c \in Client, reply'[c].kind = "recorded"
             PROVE  reply'[c].offset >= PairsToAnswer(reply'[c].message.file,
                                                      reply'[c].message.pos)
  BY DEF OffsetCountsPairs, PairsToAnswer
<1>1. CASE reply'[c] = reply[c]
  BY <1>1 DEF OffsetCountsPairs
<1>2. CASE compare_incoming_message /\ reply'[c] # reply[c]
  <2>1. /\ pc = "comparing" /\ next_message # None /\ trace_file # None
        /\ \E kind \in {"recorded", "unexpected"} :
              Respond(current, kind, next_message)
    BY <1>2, HandlerHasTrace
    DEF compare_incoming_message, ServerAt, PlaybackInv
  <2>2. reply'[c].message = next_message /\ reply'[c].offset = message_counter
    BY <1>2, <2>1 DEF Respond, PlaybackInv, TypeOK, RequestTypeOK
  <2>3. /\ next_message.file = trace_file
        /\ next_message.pos = Used + 1
        /\ Used \in Nat
    <3>1. streams[input_stream].pos \in Nat
      BY <2>1, StreamIsOpen DEF PlaybackInv, StreamState
    <3>2. Used = streams[input_stream].pos - 2
      BY <2>1 DEF Used, Ahead
    <3>3. QED
      BY <2>1, <3>1, <3>2, UsedType
      DEF PlaybackInv, InPlace, PairInPlace, ReadLast
  <2>4. /\ PairsToAnswer(trace_file, Used) \in Nat
        /\ PairsToAnswer(trace_file, Used + 1) \in Nat
        /\ PairsToAnswer(trace_file, Used + 1)
              <= PairsToAnswer(trace_file, Used) + 1
    BY <2>3, CountOneMore
  <2>5. message_counter >= PairsToAnswer(trace_file, Used) + 1
    BY <2>1 DEF CounterKeepsUp
  <2>6. message_counter \in Nat
    BY DEF PlaybackInv, TypeOK, FieldsTypeOK
  <2>7. QED
    BY <2>2, <2>3, <2>4, <2>5, <2>6
<1>3. QED
  BY <1>1, <1>2, OnlyComparedIsRecorded

LEMMA OffsetsAlways ==
    ASSUME Orderly, "read" \notin Faults
    PROVE  Spec => [](CounterKeepsUp /\ OffsetCountsPairs)
<1>1. Init => CounterKeepsUp /\ OffsetCountsPairs
  BY DEF Init, CounterKeepsUp, OffsetCountsPairs, NoReply
<1>2. /\ PlaybackInv /\ PlaybackInv' /\ [Next]_vars
      /\ CounterKeepsUp /\ OffsetCountsPairs
      => (CounterKeepsUp /\ OffsetCountsPairs)'
  BY CounterNext, OffsetsNext
<1>3. Init => PlaybackInv
  BY PlaybackInvariant
<1>4. PlaybackInv /\ [Next]_vars => PlaybackInv'
  BY PlaybackInvariant
<1>5. QED
  BY <1>1, <1>2, <1>3, <1>4, PTL DEF Spec

\* While reads do not fail, message_counter has counted every pair with a
\* response that is used up, whatever was passed over, mismatched or reloaded.
THEOREM CounterHasKeptUp ==
    Orderly /\ "read" \notin Faults => (Spec => []CounterKeepsUp)
<1> SUFFICES ASSUME Orderly, "read" \notin Faults
             PROVE  Spec => []CounterKeepsUp
  OBVIOUS
<1>1. Spec => [](CounterKeepsUp /\ OffsetCountsPairs)
  BY OffsetsAlways
<1>2. QED
  BY <1>1, PTL

\* While reads do not fail, the offset in a recorded answer is no smaller than
\* the place of its pair among the pairs with a response, through reloads,
\* stops and mismatches, however many clients ask.
THEOREM OffsetsCount ==
    Orderly /\ "read" \notin Faults => (Spec => []OffsetCountsPairs)
<1> SUFFICES ASSUME Orderly, "read" \notin Faults
             PROVE  Spec => []OffsetCountsPairs
  OBVIOUS
<1>1. Spec => [](CounterKeepsUp /\ OffsetCountsPairs)
  BY OffsetsAlways
<1>2. QED
  BY <1>1, PTL
===============================================================================
