------------------------------ MODULE UhmSession ------------------------------
(***************************************************************************)
(* A test's use of UhmServer as a sequence of sessions: the modes, between *)
(* uhm_server_start_trace_full() and uhm_server_end_trace(), and the log   *)
(* lines of SoupLogger that uhm_server_received_message_chunk() gets.      *)
(*                                                                         *)
(* With enable_logging the lines are recorded in the trace file; with only *)
(* enable_online every message is compared with the trace instead; with    *)
(* neither the mock server plays the trace.  What the server thread does,  *)
(* and the fields only it and the clients tell apart (message_counter, the *)
(* resolver, the address), are in UhmServer.                               *)
(*                                                                         *)
(* All calls come from one thread, the one the SoupSession runs in, so     *)
(* they come between blocks of lines, which SoupLogger prints in one go.   *)
(***************************************************************************)
EXTENDS Integers, Sequences, FiniteSets

CONSTANTS
    File,       \* trace files
    Request,    \* what tells messages apart
    Contents,   \* Contents[f] is the messages file f has at first
    Match,      \* <<online, recorded>> that compare-messages finds equal
    Faults,     \* what may fail: see FaultKinds
    Usage,      \* liberties the application takes: see UsageKinds
    MaxMessages,\* bound on the messages SoupLogger prints
    None        \* the NULL pointer

(* Replacing the trace or the hosts file, writing a line, opening a trace  *)
(* to load, reading it, reading its hosts file.                            *)
FaultKinds == {"replace", "replace_hosts", "write", "open", "read", "hosts"}

(* Several messages in flight; changing the modes before a session ends;   *)
(* a new session after one that failed to start, without ending it.        *)
UsageKinds == {"overlap", "switch", "retry"}

ASSUME SessionAssumption ==
    /\ None \notin File
    /\ None \notin Request
    /\ Contents \in [File -> Seq(Request)]
    /\ Match \subseteq Request \X Request
    /\ Faults \subseteq FaultKinds
    /\ Usage \subseteq UsageKinds
    /\ MaxMessages \in Nat

VARIABLES
    \* Fields of UhmServerPrivate.
    enable_online,
    enable_logging,
    server,              \* the mock server runs
    trace_file,          \* a file or None
    input_stream,        \* TRUE when it is not NULL
    next_message,        \* a message of the trace or None
    output_stream,       \* the file that is recorded, or None
    hosts_output_stream, \* the file whose hosts are, or None
    comparison_message,  \* the lines of a message, or None
    received_message_state,
    \* The rest of the process and its surroundings.
    file,                \* the lines of each trace file
    written,             \* the lines written to output_stream
    hosts,               \* the messages with their host in the hosts file
    printing,            \* lines of a block that are still to come
    flight,              \* messages with a request printed and no response
    messages,            \* how many messages were printed
    last,                \* the outcome of the last start or end
    aborted,             \* "no", or where the process crashed
    \* History of the session.
    begun,               \* messages of flight with a request in it
    history,             \* messages with both, in order of their responses
    mixed,               \* blocks of two messages mixed, or a write failed
    comparisons          \* what was compared: online message, recorded one

modeVars == <<enable_online, enable_logging>>
traceVars == <<trace_file, input_stream, next_message>>
parserVars == <<comparison_message, received_message_state>>
outputVars == <<output_stream, hosts_output_stream, file, written, hosts>>
logVars == <<printing, flight, messages>>
historyVars == <<begun, history, mixed, comparisons>>
vars == <<modeVars, server, traceVars, parserVars, outputVars, logVars, last,
          aborted, historyVars>>
-------------------------------------------------------------------------------
(* Lines.  A request has two, to tell its first one from the others.       *)

End == [kind |-> "end", of |-> None]
Line == [kind : {"request", "header", "status"}, of : Request] \cup {End}
ASSUME LineAssumption == None \notin Seq(Line)

RequestBlock(r) == << [kind |-> "request", of |-> r],
                      [kind |-> "header", of |-> r], End >>
ResponseBlock(r) == << [kind |-> "status", of |-> r], End >>
Pair(r) == RequestBlock(r) \o ResponseBlock(r)
Lines(rs) == [i \in 1 .. 5 * Len(rs) |->
                 Pair(rs[((i - 1) \div 5) + 1])[((i - 1) % 5) + 1]]

Sent(line) == line.kind \in {"request", "header"}     \* begins with "> "
Received(line) == line.kind = "status"                \* begins with "< "

\* A request line, more of the request, a terminator and a response.
trace_to_soup_message(lines) ==
    IF \E i \in 2 .. Len(lines) - 1 :
          /\ lines[1].kind = "request"
          /\ \A j \in 2 .. i - 1 : lines[j].kind = "header"
          /\ lines[i] = End
          /\ Received(lines[i + 1])
          /\ i + 1 < Len(lines) => lines[i + 2] = End
    THEN lines[1].of
    ELSE None

\* The first pair of a file: two halves, each up to its terminator.
first_pair(lines) ==
    LET ends == {i \in 1 .. Len(lines) : lines[i] = End}
        second == {i \in ends : Cardinality({j \in ends : j <= i}) = 2}
    IN  IF second = {} THEN lines
        ELSE SubSeq(lines, 1, CHOOSE i \in second : TRUE)

load_file_iteration_unchecked(lines) ==
    [of |-> trace_to_soup_message(first_pair(lines)), place |-> 1]
load_file_iteration(lines) ==
    LET message == trace_to_soup_message(first_pair(lines))
    IN  IF message = None THEN None ELSE [of |-> message, place |-> 1]

States == {"UNKNOWN", "REQUEST_DATA", "REQUEST_TERMINATOR", "RESPONSE_DATA",
           "RESPONSE_TERMINATOR"}

StateAfter_with_responses(state, line) ==
    CASE line = End -> "RESPONSE_TERMINATOR"
      [] Sent(line) -> "REQUEST_DATA"
      [] OTHER -> "RESPONSE_DATA"
\* The switch of uhm_server_received_message_chunk().
StateAfter(state, line) ==
    CASE state = "UNKNOWN" /\ Sent(line) -> "REQUEST_DATA"
      [] state = "REQUEST_DATA" /\ line = End -> "REQUEST_TERMINATOR"
      [] state = "REQUEST_DATA" /\ Sent(line) -> "REQUEST_DATA"
      [] state = "REQUEST_TERMINATOR" /\ Received(line) -> "RESPONSE_DATA"
      [] state = "RESPONSE_DATA" /\ line = End -> "RESPONSE_TERMINATOR"
      [] state = "RESPONSE_DATA" /\ Received(line) -> "RESPONSE_DATA"
      [] state = "RESPONSE_TERMINATOR" /\ Sent(line) -> "REQUEST_DATA"
      [] OTHER -> "UNKNOWN"

Message == [of : Request, place : Nat]
ASSUME MessageAssumption == None \notin Message

TypeOK ==
    /\ enable_online \in BOOLEAN
    /\ enable_logging \in BOOLEAN
    /\ server \in BOOLEAN
    /\ trace_file \in File \cup {None}
    /\ input_stream \in BOOLEAN
    /\ next_message \in Message \cup {None}
    /\ output_stream \in File \cup {None}
    /\ hosts_output_stream \in File \cup {None}
    /\ comparison_message \in Seq(Line) \cup {None}
    /\ received_message_state \in States
    /\ file \in [File -> Seq(Line)]
    /\ written \in Seq(Line)
    /\ hosts \subseteq Request
    /\ printing \in Seq(Line)
    /\ flight \subseteq Request
    /\ messages \in 0 .. MaxMessages
    /\ last \in {"none", "started", "failed", "ended"}
    /\ aborted \in {"no", "comparison_message", "child_error", "host",
                    "next_message", "online_message"}
    /\ begun \subseteq flight
    /\ history \in Seq(Request)
    /\ mixed \in BOOLEAN
    /\ comparisons \in Seq([online : Request, recorded : Message])

Init ==
    /\ enable_online = FALSE
    /\ enable_logging = FALSE
    /\ server = FALSE
    /\ trace_file = None
    /\ input_stream = FALSE
    /\ next_message = None
    /\ output_stream = None
    /\ hosts_output_stream = None
    /\ comparison_message = None
    /\ received_message_state = "UNKNOWN"
    /\ file = [f \in File |-> Lines(Contents[f])]
    /\ written = <<>>
    /\ hosts = {}
    /\ printing = <<>>
    /\ flight = {}
    /\ messages = 0
    /\ last = "none"
    /\ aborted = "no"
    /\ begun = {}
    /\ history = <<>>
    /\ mixed = FALSE
    /\ comparisons = <<>>

\* The application's thread is not in the middle of a block.
Running == aborted = "no" /\ printing = <<>>

new_history ==
    /\ begun' = {}
    /\ history' = <<>>
    /\ mixed' = FALSE
    /\ comparisons' = <<>>
-------------------------------------------------------------------------------
(* The modes.                                                              *)

MayChangeModes == "switch" \in Usage \/ last \in {"none", "ended"}

uhm_server_set_enable_online(b) ==
    /\ Running
    /\ MayChangeModes
    /\ enable_online' = b
    /\ UNCHANGED <<enable_logging, server, traceVars, parserVars, outputVars,
                   logVars, last, aborted, historyVars>>

uhm_server_set_enable_logging(b) ==
    /\ Running
    /\ MayChangeModes
    /\ enable_logging' = b
    /\ UNCHANGED <<enable_online, server, traceVars, parserVars, outputVars,
                   logVars, last, aborted, historyVars>>
-------------------------------------------------------------------------------
(* uhm_server_start_trace_full(f).                                         *)

open_output_streams_but_hosts(f) ==
    IF enable_logging
    THEN /\ output_stream' = f
         /\ written' = <<>>
         /\ UNCHANGED <<file, hosts, hosts_output_stream>>
    ELSE UNCHANGED outputVars
\* GIO writes to a new file, which replaces f when the stream is closed.
open_output_streams(f) ==
    IF enable_logging
    THEN /\ output_stream' = f
         /\ hosts_output_stream' = f
         /\ written' = <<>>
         /\ hosts' = {}
         /\ UNCHANGED file
    ELSE UNCHANGED outputVars

close_output_streams ==
    /\ file' = IF output_stream = None THEN file
               ELSE [file EXCEPT ![output_stream] = written]
    /\ output_stream' = None
    /\ hosts_output_stream' = None
    /\ written' = <<>>
    /\ hosts' = {}

reset_state ==
    /\ comparison_message' =
          IF comparison_message = None THEN <<>> ELSE comparison_message
    /\ received_message_state' = "UNKNOWN"
reset_parser ==
    /\ comparison_message' = <<>>
    /\ received_message_state' = "UNKNOWN"

unload_trace_but_stream ==
    /\ trace_file' = None
    /\ next_message' = None
    /\ comparison_message' = None
    /\ received_message_state' = "UNKNOWN"
    /\ UNCHANGED input_stream
unload_trace ==
    /\ trace_file' = None
    /\ input_stream' = FALSE
    /\ next_message' = None
    /\ comparison_message' = None
    /\ received_message_state' = "UNKNOWN"

load_trace(f) ==
    /\ trace_file' = f
    /\ input_stream' = TRUE
    /\ next_message' = load_file_iteration(file[f])
    /\ reset_parser

\* uhm_server_load_trace() returns at once, without an error, when something
\* is loaded.
Loaded == trace_file # None \/ input_stream \/ next_message # None

\* One of the two files cannot be replaced.
start_without_output(f) ==
    /\ enable_logging
    /\ \/ "replace" \in Faults /\ UNCHANGED outputVars
       \/ /\ "replace_hosts" \in Faults
          /\ output_stream' = f
          /\ written' = <<>>
          /\ UNCHANGED <<hosts_output_stream, file, hosts>>
    /\ IF enable_online THEN reset_parser ELSE UNCHANGED parserVars
    /\ last' = "failed"
    /\ UNCHANGED <<server, traceVars>>

\* Online and logging.
start_recording(f) ==
    /\ enable_online /\ enable_logging
    /\ open_output_streams(f)
    /\ reset_parser
    /\ last' = "started"
    /\ UNCHANGED <<server, traceVars>>

\* Offline, or online to compare.
start_with_trace(f) ==
    /\ ~(enable_online /\ enable_logging)
    /\ open_output_streams(f)
    /\ server' = (server \/ ~enable_online)
    /\ \/ ~Loaded /\ load_trace(f)
       \/ /\ Loaded
          /\ IF enable_online THEN reset_parser ELSE UNCHANGED parserVars
          /\ UNCHANGED traceVars
    /\ last' = "started"

\* Offline and the trace does not load: the server is stopped, and the
\* output, which is empty so far, closed.
start_offline_fails(f) ==
    /\ ~enable_online
    /\ ~Loaded
    /\ Faults \cap {"open", "read", "hosts"} # {}
    /\ server' = FALSE
    /\ unload_trace
    /\ IF enable_logging
       THEN /\ file' = [file EXCEPT ![f] = <<>>]
            /\ hosts_output_stream' = f
            /\ hosts' = {}
            /\ UNCHANGED <<output_stream, written>>
       ELSE UNCHANGED outputVars
    /\ last' = "failed"

\* Online and the trace to compare with does not load.
start_comparing_fails(f) ==
    /\ enable_online /\ ~enable_logging
    /\ ~Loaded
    /\ \/ "open" \in Faults /\ reset_parser /\ UNCHANGED traceVars
       \/ /\ "read" \in Faults
          /\ input_stream' = TRUE
          /\ reset_parser
          /\ UNCHANGED <<trace_file, next_message>>
       \/ "hosts" \in Faults /\ load_trace(f)
    /\ last' = "failed"
    /\ UNCHANGED <<server, outputVars>>

uhm_server_start_trace_full(f) ==
    /\ Running
    /\ last = "failed" => "retry" \in Usage
    /\ output_stream = None
    /\ \/ start_without_output(f)
       \/ start_recording(f)
       \/ start_with_trace(f)
       \/ start_offline_fails(f)
       \/ start_comparing_fails(f)
    /\ new_history
    /\ UNCHANGED <<modeVars, logVars, aborted>>

uhm_server_end_trace ==
    /\ Running
    /\ last \in {"started", "failed"}
    /\ \/ ~enable_online /\ server /\ unload_trace /\ server' = FALSE
       \/ /\ enable_online /\ ~enable_logging
          /\ unload_trace
          /\ UNCHANGED server
       \/ /\ IF enable_online THEN enable_logging ELSE ~server
          /\ UNCHANGED <<server, traceVars, parserVars>>
    /\ IF enable_logging THEN close_output_streams ELSE UNCHANGED outputVars
    /\ last' = "ended"
    /\ new_history
    /\ UNCHANGED <<modeVars, logVars, aborted>>
-------------------------------------------------------------------------------
(* What SoupLogger prints.                                                 *)

MayOverlap == "overlap" \in Usage \/ flight = {}

print_request(r) ==
    /\ Running
    /\ MayOverlap
    /\ r \notin flight
    /\ messages < MaxMessages
    /\ messages' = messages + 1
    /\ printing' = RequestBlock(r)
    /\ flight' = flight \cup {r}
    /\ begun' = begun \cup {r}
    /\ mixed' = (mixed \/ flight # {})
    /\ UNCHANGED <<modeVars, server, traceVars, parserVars, outputVars, last,
                   aborted, history, comparisons>>

print_response(r) ==
    /\ Running
    /\ r \in flight
    /\ printing' = ResponseBlock(r)
    /\ flight' = flight \ {r}
    /\ begun' = begun \ {r}
    /\ history' = IF r \in begun THEN Append(history, r) ELSE history
    /\ UNCHANGED <<modeVars, server, traceVars, parserVars, outputVars,
                   messages, last, aborted, mixed, comparisons>>

\* A message cancelled while its request is being sent has a response only.
print_cancelled(r) ==
    /\ Running
    /\ MayOverlap
    /\ r \notin flight
    /\ messages < MaxMessages
    /\ messages' = messages + 1
    /\ printing' = ResponseBlock(r)
    /\ mixed' = (mixed \/ flight # {})
    /\ UNCHANGED <<modeVars, server, traceVars, parserVars, outputVars, flight,
                   last, aborted, begun, history, comparisons>>
-------------------------------------------------------------------------------
(* uhm_server_received_message_chunk() for the next line.                  *)

line == Head(printing)
state == StateAfter(received_message_state, line)
Ignored ==
    \/ ~enable_logging /\ ~enable_online
    \/ enable_logging /\ output_stream = None

\* Appending to a NULL array does nothing but complain.
appended == IF comparison_message = None THEN None
            ELSE Append(comparison_message, line)
online_message == trace_to_soup_message(appended)
\* SoupLogger prints the Soup-Host line of every request among its headers,
\* so it is missing only if a header line is, which could not be written.
HostMayBeLost == \A i \in DOMAIN appended : appended[i].kind # "header"
EndOfRequest == enable_online /\ state = "REQUEST_TERMINATOR"
EndOfMessage == enable_online /\ state = "RESPONSE_TERMINATOR"

chunk_skipped ==
    /\ Ignored \/ state = "UNKNOWN"
    /\ received_message_state' = IF Ignored THEN received_message_state
                                 ELSE "UNKNOWN"
    /\ UNCHANGED <<traceVars, comparison_message, outputVars, aborted, mixed,
                   comparisons>>

\* At most one failure for each session.
chunk_not_written ==
    /\ ~mixed
    /\ ~Ignored /\ state # "UNKNOWN"
    /\ enable_logging /\ "write" \in Faults
    /\ received_message_state' = state
    /\ mixed' = TRUE
    /\ UNCHANGED <<traceVars, comparison_message, outputVars, aborted,
                   comparisons>>

write_chunk ==
    /\ written' = IF enable_logging THEN Append(written, line) ELSE written
    /\ UNCHANGED <<output_stream, hosts_output_stream, file>>

chunk_taken ==
    /\ ~Ignored /\ state # "UNKNOWN"
    /\ ~EndOfMessage
    /\ write_chunk
    /\ received_message_state' = state
    /\ comparison_message' = IF enable_online THEN appended
                             ELSE comparison_message
    /\ UNCHANGED <<traceVars, hosts, aborted, mixed, comparisons>>

\* The last line of a message: its host is recorded, or it is compared.
message_received ==
    /\ ~Ignored
    /\ EndOfMessage
    /\ comparison_message # None
    /\ write_chunk
    /\ reset_parser
    /\ \/ /\ online_message = None
          /\ UNCHANGED <<hosts, aborted, mixed, comparisons>>
       \/ /\ online_message # None
          /\ enable_logging
          /\ hosts_output_stream # None
          /\ \/ hosts' = hosts \cup {online_message} /\ UNCHANGED mixed
             \/ "write" \in Faults /\ mixed' = TRUE /\ UNCHANGED hosts
          /\ UNCHANGED <<aborted, comparisons>>
       \/ /\ online_message # None
          /\ ~enable_logging
          /\ next_message # None
          /\ comparisons' = Append(comparisons,
                                   [online |-> online_message,
                                    recorded |-> next_message])
          /\ IF <<online_message, next_message.of>> \in Match
             THEN UNCHANGED aborted
             ELSE \* it is unreferenced twice
                  aborted' \in {"no", "online_message"}
          /\ UNCHANGED <<hosts, mixed>>
    /\ UNCHANGED traceVars

chunk_aborts ==
    /\ ~Ignored
    /\ EndOfMessage
    /\ \/ comparison_message = None /\ aborted' = "comparison_message"
       \/ /\ comparison_message # None
          /\ online_message # None
          /\ \/ /\ enable_logging
                /\ hosts_output_stream = None
                /\ aborted' = "child_error"
             \/ \* strlen() of the host
                /\ enable_logging
                /\ HostMayBeLost
                /\ aborted' = "host"
             \/ /\ ~enable_logging
                /\ next_message = None
                /\ aborted' = "next_message"
    /\ UNCHANGED <<traceVars, parserVars, outputVars, mixed, comparisons>>

uhm_server_received_message_chunk ==
    /\ aborted = "no"
    /\ printing # <<>>
    /\ printing' = Tail(printing)
    /\ \/ chunk_skipped
       \/ chunk_not_written
       \/ chunk_taken
       \/ message_received
       \/ chunk_aborts
    /\ UNCHANGED <<modeVars, server, flight, messages, last, begun, history>>
-------------------------------------------------------------------------------
Application ==
    \/ \E b \in BOOLEAN : uhm_server_set_enable_online(b)
    \/ \E b \in BOOLEAN : uhm_server_set_enable_logging(b)
    \/ \E f \in File : uhm_server_start_trace_full(f)
    \/ uhm_server_end_trace

Logger ==
    \/ \E r \in Request :
          print_request(r) \/ print_response(r) \/ print_cancelled(r)
    \/ uhm_server_received_message_chunk

\* The process is gone.
Dead == aborted # "no" /\ UNCHANGED vars

Next == Application \/ Logger \/ Dead

Spec == Init /\ [][Next]_vars
-------------------------------------------------------------------------------
(* Properties.                                                             *)

Started == last = "started" /\ printing = <<>> /\ aborted = "no"

\* When messages come one at a time and every line is written, what a session
\* records is its messages, whole and in the order of their responses, and at
\* most the request of one without a response yet: a file that loads as these
\* pairs.  Responses of cancelled messages, and of messages from before the
\* session, do not break it.
RecordingPlaysBack ==
    Started /\ enable_logging /\ ~mixed =>
        written \in {Lines(history)} \cup
                     {Lines(history) \o RequestBlock(r) : r \in begun}

\* The hosts file of such a recording has the hosts of all its messages, so
\* that the resolver knows them when it is played back.
HostsAreRecorded ==
    Started /\ enable_logging /\ enable_online /\ ~mixed =>
        hosts = {history[i] : i \in DOMAIN history}

\* When messages come one at a time, each is compared once, whole, when its
\* response is complete, whatever came before the session.
WholeMessagesCompared ==
    Started /\ ~enable_logging /\ enable_online /\ ~mixed =>
        [i \in DOMAIN comparisons |-> comparisons[i].online] = history

\* A session that started without an error has what its mode needs, however
\* the sessions before it failed, as long as each was ended.
StartedIsReady ==
    last = "started" =>
        /\ enable_logging =>
              output_stream # None /\ hosts_output_stream = output_stream
        /\ server <=> ~enable_online
        /\ trace_file # None <=> ~(enable_online /\ enable_logging)
        /\ input_stream <=> trace_file # None
        /\ enable_online => comparison_message # None

\* Messages do not crash a process that records, if the session started, with
\* the exception of one that has lost the line with its host: writing that line
\* failed, so uhm_server_received_message_chunk() left it out of the message,
\* and takes the length of a NULL host in the end.
RecordingDoesNotCrash ==
    last = "started" /\ enable_logging =>
        aborted = "no" \/ (aborted = "host" /\ mixed)

\* "The message line will be compared to the next expected line in the
\* existing trace file": the messages of a session are compared with those of
\* the trace, one after the other.
ComparedInOrder ==
    \A i \in DOMAIN comparisons : comparisons[i].recorded.place = i
-------------------------------------------------------------------------------
(* What the proofs of these add to them, as inductive invariants.          *)

\* Between sessions nothing is open, and a session that failed to start or
\* that records holds no more than uhm_server_end_trace() closes in its modes.
Tidy ==
    /\ ~enable_logging \/ last \in {"none", "ended"} =>
          output_stream = None /\ hosts_output_stream = None
    /\ last # "started" => ~server
    /\ last \in {"none", "ended"} => ~Loaded
    /\ (enable_online /\ enable_logging) \/ (last = "failed" /\ ~enable_online) =>
          ~Loaded

\* The first n messages of the session are stored, and of the next one the
\* lines taken.
Stored(n, taken) ==
    LET done == SubSeq(history, 1, n)
    IN  /\ enable_logging => written = Lines(done) \o taken
        /\ enable_online => comparison_message = taken
        /\ enable_online /\ enable_logging => hosts = {done[i] : i \in 1 .. n}
        /\ enable_online /\ ~enable_logging =>
              [i \in DOMAIN comparisons |-> comparisons[i].online] = done

\* Where the parser is after k lines of a pair.
BetweenPairs == received_message_state \in {"UNKNOWN", "RESPONSE_TERMINATOR"}
AfterLines(k) ==
    IF k = 0 THEN BetweenPairs
    ELSE received_message_state = <<"REQUEST_DATA", "REQUEST_DATA",
                                    "REQUEST_TERMINATOR", "RESPONSE_DATA">>[k]

\* A response whose request came before the session, or never, is passed over.
NoPair ==
    /\ begun = {}
    /\ BetweenPairs
    /\ printing \in {<<>>, <<End>>} \cup {ResponseBlock(r) : r \in Request}
    /\ Stored(Len(history), <<>>)

InRequest(r, k) ==
    /\ begun = {r} /\ flight = {r}
    /\ AfterLines(k)
    /\ printing = SubSeq(RequestBlock(r), k + 1, 3)
    /\ Stored(Len(history), SubSeq(Pair(r), 1, k))

InResponse(r, k) ==
    /\ begun = {}
    /\ history # <<>> /\ r = history[Len(history)]
    /\ AfterLines(k)
    /\ printing = SubSeq(Pair(r), k + 1, 5)
    /\ Stored(Len(history) - 1, SubSeq(Pair(r), 1, k))

Receiving ==
    \/ NoPair
    \/ \E r \in Request : \/ \E k \in 0 .. 3 : InRequest(r, k)
                         \/ \E k \in 3 .. 4 : InResponse(r, k)

\* While messages come one at a time and every line is written, the state of
\* the parser, the lines that are stored and the line that comes next agree
\* on the pair that is being received and how much of it there is.
InStep ==
    last = "started" /\ aborted = "no" /\ ~mixed
    /\ (enable_logging \/ enable_online) => Receiving
===============================================================================
