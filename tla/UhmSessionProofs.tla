--------------------------- MODULE UhmSessionProofs ---------------------------
(***************************************************************************)
(* Theorems about UhmSession, for any trace files, messages and faults.    *)
(***************************************************************************)
EXTENDS UhmSession, SequenceTheorems, TLAPS

-------------------------------------------------------------------------------
(* Lines and pairs.                                                        *)

LEMMA BlockTypes ==
    ASSUME NEW r \in Request
    PROVE  /\ RequestBlock(r) \in Seq(Line) /\ RequestBlock(r) # <<>>
           /\ ResponseBlock(r) \in Seq(Line) /\ ResponseBlock(r) # <<>>
           /\ Pair(r) \in Seq(Line)
<1>1. /\ [kind |-> "request", of |-> r] \in Line
      /\ [kind |-> "header", of |-> r] \in Line
      /\ [kind |-> "status", of |-> r] \in Line
      /\ End \in Line
  BY DEF Line
<1>2. RequestBlock(r) \in Seq(Line) /\ ResponseBlock(r) \in Seq(Line)
  BY <1>1 DEF RequestBlock, ResponseBlock
<1>3. RequestBlock(r) # <<>> /\ ResponseBlock(r) # <<>>
  BY DEF RequestBlock, ResponseBlock
<1>4. QED
  BY <1>2, <1>3 DEF Pair

\* The lines of a pair, one by one.
LEMMA PairLines ==
    ASSUME NEW r \in Request
    PROVE  Pair(r) = << [kind |-> "request", of |-> r],
                        [kind |-> "header", of |-> r], End,
                        [kind |-> "status", of |-> r], End >>
<1> DEFINE l == << [kind |-> "request", of |-> r],
                   [kind |-> "header", of |-> r], End,
                   [kind |-> "status", of |-> r], End >>
<1>1. /\ RequestBlock(r) \in Seq(Line) /\ Len(RequestBlock(r)) = 3
      /\ RequestBlock(r)[1] = l[1] /\ RequestBlock(r)[2] = l[2]
      /\ RequestBlock(r)[3] = l[3]
  BY BlockTypes DEF RequestBlock
<1>2. /\ ResponseBlock(r) \in Seq(Line) /\ Len(ResponseBlock(r)) = 2
      /\ ResponseBlock(r)[1] = l[4] /\ ResponseBlock(r)[2] = l[5]
  BY BlockTypes DEF ResponseBlock
<1>3. /\ Len(Pair(r)) = 5
      /\ Pair(r) \in Seq(Line)
      /\ \A i \in 1 .. 5 : Pair(r)[i] = IF i <= 3 THEN RequestBlock(r)[i]
                                                ELSE ResponseBlock(r)[i - 3]
  <2> DEFINE s == RequestBlock(r)
             t == ResponseBlock(r)
  <2>1. /\ s \o t \in Seq(Line)
        /\ Len(s \o t) = Len(s) + Len(t)
        /\ \A i \in 1 .. Len(s) + Len(t) :
              (s \o t)[i] = IF i <= Len(s) THEN s[i] ELSE t[i - Len(s)]
    <3> HIDE DEF s, t
    <3>1. s \in Seq(Line) /\ t \in Seq(Line)
      BY <1>1, <1>2 DEF s, t
    <3>2. QED
      BY <3>1, ConcatProperties
  <2>2. Len(s) = 3 /\ Len(t) = 2
    BY <1>1, <1>2
  <2> HIDE DEF s, t
  <2>3. /\ Len(s \o t) = 5
        /\ \A i \in 1 .. 5 :
              (s \o t)[i] = IF i <= 3 THEN s[i] ELSE t[i - 3]
    BY <2>1, <2>2
  <2>4. QED
    BY <2>1, <2>3 DEF s, t, Pair
<1>4. \A i \in 1 .. 5 : Pair(r)[i] = l[i]
  BY <1>1, <1>2, <1>3
<1>5. l \in Seq(Line) /\ Len(l) = 5
  BY DEF Line
<1>6. QED
  BY <1>3, <1>4, <1>5, SeqEqual

\* A whole pair parses, as the message it was printed for.
LEMMA PairParses ==
    ASSUME NEW r \in Request
    PROVE  trace_to_soup_message(Pair(r)) = r
<1> DEFINE lines == << [kind |-> "request", of |-> r],
                       [kind |-> "header", of |-> r], End,
                       [kind |-> "status", of |-> r], End >>
<1>1. /\ Len(lines) = 5
      /\ lines[1].kind = "request" /\ lines[1].of = r
      /\ lines[2].kind = "header"
      /\ lines[3] = End
      /\ Received(lines[4])
      /\ lines[5] = End
  BY DEF Received
<1>2. /\ 3 \in 2 .. Len(lines) - 1
      /\ \A j \in 2 .. 3 - 1 : lines[j].kind = "header"
  BY <1>1
<1>3. trace_to_soup_message(lines) = r
  BY <1>1, <1>2 DEF trace_to_soup_message
<1>4. QED
  BY <1>3, PairLines

LEMMA ParseType ==
    ASSUME NEW lines \in Seq(Line)
    PROVE  trace_to_soup_message(lines) \in Request \cup {None}
<1>1. CASE trace_to_soup_message(lines) = None
  BY <1>1
<1>2. CASE trace_to_soup_message(lines) # None
  <2>1. /\ 1 \in 1 .. Len(lines) /\ lines[1].kind = "request"
        /\ trace_to_soup_message(lines) = lines[1].of
    BY <1>2 DEF trace_to_soup_message
  <2>2. lines[1] \in Line
    BY <2>1, ElementOfSeq
  <2>3. QED
    BY <2>1, <2>2 DEF Line, End
<1>3. QED
  BY <1>1, <1>2

LEMMA FirstPairType ==
    ASSUME NEW lines \in Seq(Line)
    PROVE  first_pair(lines) \in Seq(Line)
<1> DEFINE ends == {i \in 1 .. Len(lines) : lines[i] = End}
           second == {i \in ends : Cardinality({j \in ends : j <= i}) = 2}
           last_line == CHOOSE i \in second : TRUE
<1>1. CASE second = {}
  BY <1>1 DEF first_pair
<1>2. CASE second # {}
  <2>1. last_line \in 1 .. Len(lines)
    BY <1>2
  <2>2. \A k \in 1 .. Len(lines) : SubSeq(lines, 1, k) \in Seq(Line)
    BY ElementOfSeq, SubSeqProperties
  <2>3. first_pair(lines) = SubSeq(lines, 1, last_line)
    BY <1>2 DEF first_pair
  <2>4. QED
    BY <2>1, <2>2, <2>3
<1>3. QED
  BY <1>1, <1>2

LEMMA FirstMessageType ==
    ASSUME NEW lines \in Seq(Line)
    PROVE  load_file_iteration(lines) \in Message \cup {None}
<1>1. trace_to_soup_message(first_pair(lines)) \in Request \cup {None}
  BY FirstPairType, ParseType
<1>2. QED
  BY <1>1 DEF load_file_iteration, Message

\* The lines of recorded messages.
LEMMA LinesType ==
    ASSUME NEW rs \in Seq(Request)
    PROVE  /\ Lines(rs) \in Seq(Line)
           /\ Len(Lines(rs)) = 5 * Len(rs)
<1>1. \A i \in 1 .. 5 * Len(rs) :
          Pair(rs[((i - 1) \div 5) + 1])[((i - 1) % 5) + 1] \in Line
  <2> SUFFICES ASSUME NEW i \in 1 .. 5 * Len(rs)
               PROVE  Pair(rs[((i - 1) \div 5) + 1])[((i - 1) % 5) + 1] \in Line
    OBVIOUS
  <2>1. ((i - 1) \div 5) + 1 \in 1 .. Len(rs)
    OBVIOUS
  <2>2. ((i - 1) % 5) + 1 \in 1 .. 5
    OBVIOUS
  <2>3. rs[((i - 1) \div 5) + 1] \in Request
    BY <2>1
  <2>4. Pair(rs[((i - 1) \div 5) + 1]) \in Seq(Line)
        /\ Len(Pair(rs[((i - 1) \div 5) + 1])) = 5
    BY <2>3, BlockTypes, PairLines
  <2>5. QED
    BY <2>2, <2>4
<1>2. QED
  BY <1>1 DEF Lines

\* Recording one pair more.
LEMMA LinesAppend ==
    ASSUME NEW rs \in Seq(Request), NEW r \in Request
    PROVE  Lines(Append(rs, r)) = Lines(rs) \o Pair(r)
<1> DEFINE more == Append(rs, r)
           n == Len(rs)
<1>1. /\ more \in Seq(Request)
      /\ Len(more) = n + 1
      /\ more[n + 1] = r
      /\ \A i \in 1 .. n : more[i] = rs[i]
      /\ n \in Nat
  OBVIOUS
<1>2. /\ Lines(more) \in Seq(Line) /\ Len(Lines(more)) = 5 * n + 5
      /\ Lines(rs) \in Seq(Line) /\ Len(Lines(rs)) = 5 * n
  <2>1. Lines(more) \in Seq(Line) /\ Len(Lines(more)) = 5 * Len(more)
    BY <1>1, LinesType
  <2>2. Lines(rs) \in Seq(Line) /\ Len(Lines(rs)) = 5 * n
    BY LinesType
  <2>3. QED
    BY <1>1, <2>1, <2>2
<1>3. Pair(r) \in Seq(Line) /\ Len(Pair(r)) = 5
  BY BlockTypes, PairLines
<1>4. /\ Lines(rs) \o Pair(r) \in Seq(Line)
      /\ Len(Lines(rs) \o Pair(r)) = 5 * n + 5
  <2>1. /\ Lines(rs) \o Pair(r) \in Seq(Line)
        /\ Len(Lines(rs) \o Pair(r)) = Len(Lines(rs)) + Len(Pair(r))
    BY <1>2, <1>3, ConcatProperties
  <2>2. QED
    BY <1>2, <1>3, <2>1
<1>5. ASSUME NEW i \in 1 .. 5 * n + 5
      PROVE  Lines(more)[i] = (Lines(rs) \o Pair(r))[i]
  <2>1. Lines(more)[i] = Pair(more[((i - 1) \div 5) + 1])[((i - 1) % 5) + 1]
    <3>1. i \in 1 .. 5 * Len(more)
      BY <1>1
    <3>2. QED
      BY <3>1 DEF Lines
  <2>2. CASE i <= 5 * n
    <3>1. ((i - 1) \div 5) + 1 \in 1 .. n
      BY <1>1, <2>2
    <3>2. Lines(rs)[i] = Pair(rs[((i - 1) \div 5) + 1])[((i - 1) % 5) + 1]
      BY <1>1, <2>2 DEF Lines
    <3>3. Lines(more)[i] = Lines(rs)[i]
      BY <1>1, <2>1, <3>1, <3>2
    <3>4. QED
      BY <1>1, <1>2, <1>3, <2>2, <3>3, ConcatProperties
  <2>3. CASE i > 5 * n
    <3>1. ((i - 1) \div 5) + 1 = n + 1 /\ ((i - 1) % 5) + 1 = i - 5 * n
      BY <1>1, <2>3
    <3>2. Lines(more)[i] = Pair(r)[i - 5 * n]
      BY <1>1, <2>1, <3>1
    <3>3. i \in 1 .. Len(Lines(rs)) + Len(Pair(r)) /\ ~(i <= Len(Lines(rs)))
      BY <1>1, <1>2, <1>3, <2>3
    <3>4. (Lines(rs) \o Pair(r))[i] = Pair(r)[i - Len(Lines(rs))]
      BY <1>2, <1>3, <3>3, ConcatProperties
    <3>5. QED
      BY <1>2, <3>2, <3>4
  <2>4. i <= 5 * n \/ i > 5 * n
    BY <1>1
  <2>5. QED
    BY <2>2, <2>3, <2>4
<1>6. QED
  BY <1>1, <1>2, <1>4, <1>5, SeqEqual
-------------------------------------------------------------------------------
(* Types.                                                                  *)

LEMMA TypeInit == Init => TypeOK
<1> SUFFICES ASSUME Init PROVE TypeOK
  OBVIOUS
<1>1. \A f \in File : Lines(Contents[f]) \in Seq(Line)
  BY LinesType, SessionAssumption
<1>2. file \in [File -> Seq(Line)]
  BY <1>1 DEF Init
<1>3. /\ <<>> \in Seq(Line)
      /\ <<>> \in Seq(Request)
      /\ <<>> \in Seq([online : Request, recorded : Message])
  BY EmptySeq
<1>4. messages \in 0 .. MaxMessages
  BY SessionAssumption DEF Init
<1>5. QED
  BY <1>2, <1>3, <1>4 DEF Init, TypeOK, States

LEMMA StartType ==
    ASSUME TypeOK, NEW f \in File, uhm_server_start_trace_full(f)
    PROVE  TypeOK'
<1>1. load_file_iteration(file[f]) \in Message \cup {None}
  BY FirstMessageType DEF TypeOK
<1>2. /\ UNCHANGED <<modeVars, logVars, aborted>>
      /\ new_history
  BY DEF uhm_server_start_trace_full
<1>3. /\ output_stream' \in File \cup {None}
      /\ hosts_output_stream' \in File \cup {None}
      /\ file' \in [File -> Seq(Line)]
      /\ written' \in Seq(Line)
      /\ hosts' \subseteq Request
  <2>1. CASE open_output_streams(f)
    BY <2>1, EmptySeq DEF open_output_streams, outputVars, TypeOK
  <2>2. CASE start_without_output(f)
    BY <2>2, EmptySeq DEF start_without_output, outputVars, TypeOK
  <2>3. CASE start_offline_fails(f)
    BY <2>3, EmptySeq DEF start_offline_fails, outputVars, TypeOK
  <2>4. CASE start_comparing_fails(f)
    BY <2>4 DEF start_comparing_fails, outputVars, TypeOK
  <2>5. QED
    BY <2>1, <2>2, <2>3, <2>4
    DEF uhm_server_start_trace_full, start_recording, start_with_trace
<1>4. /\ trace_file' \in File \cup {None}
      /\ input_stream' \in BOOLEAN
      /\ next_message' \in Message \cup {None}
      /\ comparison_message' \in Seq(Line) \cup {None}
      /\ received_message_state' \in States
      /\ server' \in BOOLEAN
      /\ last' \in {"failed", "started"}
  BY <1>1, EmptySeq
  DEF uhm_server_start_trace_full, start_without_output, start_recording,
      start_with_trace, start_offline_fails, start_comparing_fails, load_trace,
      unload_trace, reset_parser, traceVars, parserVars, TypeOK, States
<1>5. QED
  BY <1>2, <1>3, <1>4, EmptySeq DEF new_history, modeVars, logVars, TypeOK

LEMMA EndType == TypeOK /\ uhm_server_end_trace => TypeOK'
<1> SUFFICES ASSUME TypeOK, uhm_server_end_trace PROVE TypeOK'
  OBVIOUS
<1>1. /\ UNCHANGED <<modeVars, logVars, aborted>>
      /\ new_history
      /\ last' = "ended"
  BY DEF uhm_server_end_trace
<1>2. /\ output_stream' \in File \cup {None}
      /\ hosts_output_stream' \in File \cup {None}
      /\ file' \in [File -> Seq(Line)]
      /\ written' \in Seq(Line)
      /\ hosts' \subseteq Request
  BY EmptySeq DEF uhm_server_end_trace, close_output_streams, outputVars, TypeOK
<1>3. /\ trace_file' \in File \cup {None}
      /\ input_stream' \in BOOLEAN
      /\ next_message' \in Message \cup {None}
      /\ comparison_message' \in Seq(Line) \cup {None}
      /\ received_message_state' \in States
      /\ server' \in BOOLEAN
  BY
  DEF uhm_server_end_trace, unload_trace, traceVars, parserVars, TypeOK, States
<1>4. QED
  BY <1>1, <1>2, <1>3, EmptySeq DEF new_history, modeVars, logVars, TypeOK

LEMMA PrintType ==
    ASSUME TypeOK, NEW r \in Request,
           print_request(r) \/ print_response(r) \/ print_cancelled(r)
    PROVE  TypeOK'
<1>1. RequestBlock(r) \in Seq(Line) /\ ResponseBlock(r) \in Seq(Line)
  BY BlockTypes
<1>2. UNCHANGED <<modeVars, server, traceVars, parserVars, outputVars, last,
                  aborted, comparisons>>
  BY DEF print_request, print_response, print_cancelled
<1>3. /\ printing' \in Seq(Line)
      /\ flight' \subseteq Request
      /\ begun' \subseteq flight'
      /\ history' \in Seq(Request)
      /\ mixed' \in BOOLEAN
  <2>1. CASE print_request(r)
    BY <1>1, <2>1 DEF print_request, TypeOK
  <2>2. CASE print_response(r)
    <3>1. history' \in Seq(Request)
      BY <2>2 DEF print_response, TypeOK
    <3>2. QED
      BY <1>1, <2>2, <3>1 DEF print_response, TypeOK
  <2>3. CASE print_cancelled(r)
    BY <1>1, <2>3 DEF print_cancelled, TypeOK
  <2>4. QED
    BY <2>1, <2>2, <2>3
<1>4. messages' \in 0 .. MaxMessages
  BY SessionAssumption DEF print_request, print_response, print_cancelled, TypeOK
<1>5. QED
  BY <1>2, <1>3, <1>4
  DEF modeVars, traceVars, parserVars, outputVars, TypeOK

LEMMA NextLine ==
    ASSUME TypeOK, printing # <<>>
    PROVE  line \in Line /\ Tail(printing) \in Seq(Line)
  BY HeadTailProperties DEF TypeOK, line

LEMMA ChunkType == TypeOK /\ uhm_server_received_message_chunk => TypeOK'
<1> SUFFICES ASSUME TypeOK, uhm_server_received_message_chunk PROVE TypeOK'
  OBVIOUS
<1>1. line \in Line /\ printing' \in Seq(Line)
  BY NextLine DEF uhm_server_received_message_chunk
<1>2. appended \in Seq(Line) \cup {None}
  BY <1>1 DEF appended, TypeOK
<1>3. state \in States
  BY DEF state, StateAfter, States
<1>4. comparison_message # None => online_message \in Request \cup {None}
  <2> SUFFICES ASSUME comparison_message # None
               PROVE  online_message \in Request \cup {None}
    OBVIOUS
  <2>1. appended \in Seq(Line)
    BY <1>1 DEF appended, TypeOK
  <2>2. QED
    BY <2>1, ParseType DEF online_message
<1>5. UNCHANGED <<modeVars, server, flight, messages, last, begun, history,
                  traceVars>>
  BY
  DEF uhm_server_received_message_chunk, chunk_skipped, chunk_not_written,
      chunk_taken, message_received, chunk_aborts
<1>6. /\ UNCHANGED <<output_stream, hosts_output_stream, file>>
      /\ written' \in Seq(Line)
  <2>1. Append(written, line) \in Seq(Line)
    BY <1>1 DEF TypeOK
  <2>2. QED
    BY <2>1
    DEF uhm_server_received_message_chunk, chunk_skipped, chunk_not_written,
        chunk_taken, message_received, chunk_aborts, write_chunk, outputVars,
        TypeOK
<1>7. /\ hosts' \subseteq Request
      /\ mixed' \in BOOLEAN
      /\ comparisons' \in Seq([online : Request, recorded : Message])
  <2>1. CASE message_received
    <3>1. comparison_message # None
      BY <2>1 DEF message_received
    <3>2. CASE UNCHANGED comparisons
      BY <1>4, <2>1, <3>1, <3>2 DEF message_received, TypeOK
    <3>3. CASE /\ online_message # None /\ next_message # None
               /\ comparisons' = Append(comparisons,
                                        [online |-> online_message,
                                         recorded |-> next_message])
               /\ UNCHANGED <<hosts, mixed>>
      <4>1. [online |-> online_message, recorded |-> next_message]
               \in [online : Request, recorded : Message]
        BY <1>4, <3>1, <3>3 DEF TypeOK
      <4>2. QED
        BY <3>3, <4>1 DEF TypeOK
    <3>4. QED
      BY <2>1, <3>2, <3>3 DEF message_received
  <2>2. CASE ~message_received
    BY <2>2
    DEF uhm_server_received_message_chunk, chunk_skipped, chunk_not_written,
        chunk_taken, chunk_aborts, outputVars, TypeOK
  <2>3. QED
    BY <2>1, <2>2
<1>8. /\ comparison_message' \in Seq(Line) \cup {None}
      /\ received_message_state' \in States
  BY <1>2, <1>3, EmptySeq
  DEF uhm_server_received_message_chunk, chunk_skipped, chunk_not_written,
      chunk_taken, message_received, chunk_aborts, reset_parser, parserVars,
      TypeOK, States
<1>9. aborted' \in {"no", "comparison_message", "child_error", "host",
                    "next_message", "online_message"}
  BY
  DEF uhm_server_received_message_chunk, chunk_skipped, chunk_not_written,
      chunk_taken, message_received, chunk_aborts, TypeOK
<1>10. QED
  BY <1>1, <1>5, <1>6, <1>7, <1>8, <1>9 DEF modeVars, traceVars, TypeOK

LEMMA TypeNext == TypeOK /\ [Next]_vars => TypeOK'
<1> SUFFICES ASSUME TypeOK, [Next]_vars PROVE TypeOK'
  OBVIOUS
<1>1. ASSUME NEW b \in BOOLEAN, uhm_server_set_enable_online(b) PROVE TypeOK'
  BY <1>1
  DEF uhm_server_set_enable_online, traceVars, parserVars, outputVars, logVars,
      historyVars, TypeOK
<1>2. ASSUME NEW b \in BOOLEAN, uhm_server_set_enable_logging(b) PROVE TypeOK'
  BY <1>2
  DEF uhm_server_set_enable_logging, traceVars, parserVars, outputVars,
      logVars, historyVars, TypeOK
<1>3. CASE UNCHANGED vars
  BY <1>3
  DEF vars, modeVars, traceVars, parserVars, outputVars, logVars, historyVars,
      TypeOK
<1>4. QED
  BY <1>1, <1>2, <1>3, StartType, EndType, PrintType, ChunkType
  DEF Next, Application, Logger, Dead

\* However sessions are started, fail, and are ended, and whatever is printed
\* in between, the fields keep their types: what is compared or written into
\* the hosts file is a message.
THEOREM SessionTypeCorrect == Spec => []TypeOK
  BY TypeInit, TypeNext, PTL DEF Spec
-------------------------------------------------------------------------------
(* A session that started has what its mode needs.                         *)

\* Why a process that records may crash at all.
OnlyHostCrashes ==
    last = "started" /\ enable_logging => aborted \in {"no", "host"}

Ready == Tidy /\ StartedIsReady /\ OnlyHostCrashes

LEMMA StartReady ==
    ASSUME Usage \subseteq {"overlap"}, TypeOK, Ready, NEW f \in File,
           uhm_server_start_trace_full(f)
    PROVE  Ready'
<1>1. /\ aborted = "no" /\ aborted' = "no"
      /\ UNCHANGED modeVars
      /\ last # "failed"
      /\ output_stream = None
  BY DEF uhm_server_start_trace_full, Running
<1>2. CASE last = "started"
  <2>1. ~enable_logging
    BY <1>1, <1>2 DEF Ready, StartedIsReady
  <2>2. Loaded
    BY <1>2, <2>1 DEF Ready, StartedIsReady, Loaded
  <2>3. /\ UNCHANGED <<outputVars, traceVars>>
        /\ server' = (server \/ ~enable_online)
        /\ IF enable_online THEN reset_parser ELSE UNCHANGED parserVars
        /\ last' = "started"
    BY <2>1, <2>2
    DEF uhm_server_start_trace_full, start_without_output, start_recording,
        start_with_trace, start_offline_fails, start_comparing_fails,
        open_output_streams
  <2>4. enable_online => comparison_message' # None
    BY <2>3, LineAssumption, EmptySeq DEF reset_parser
  <2>5. QED
    BY <1>1, <1>2, <2>1, <2>2, <2>3, <2>4
    DEF Ready, Tidy, StartedIsReady, OnlyHostCrashes, outputVars,
        traceVars, modeVars, TypeOK
<1>3. CASE last \in {"none", "ended"}
  <2>1. ~server /\ ~Loaded /\ hosts_output_stream = None
    BY <1>3 DEF Ready, Tidy
  <2>2. <<>> # None
    BY LineAssumption, EmptySeq
  <2>3. f # None
    BY SessionAssumption
  <2>4. CASE start_without_output(f)
    BY <1>1, <2>1, <2>4
    DEF start_without_output, Ready, Tidy, Loaded, StartedIsReady,
        OnlyHostCrashes, outputVars, traceVars, modeVars, TypeOK
  <2>5. CASE start_recording(f)
    BY <1>1, <2>1, <2>2, <2>3, <2>5
    DEF start_recording, open_output_streams, reset_parser, Ready, Tidy,
        Loaded, StartedIsReady, OnlyHostCrashes, traceVars, modeVars,
        TypeOK
  <2>6. CASE start_with_trace(f)
    BY <1>1, <2>1, <2>2, <2>3, <2>6
    DEF start_with_trace, open_output_streams, load_trace, reset_parser, Ready,
        Tidy, StartedIsReady, OnlyHostCrashes, outputVars, modeVars,
        TypeOK
  <2>7. CASE start_offline_fails(f)
    BY <1>1, <2>1, <2>7
    DEF start_offline_fails, unload_trace, Ready, Tidy, Loaded, StartedIsReady,
        OnlyHostCrashes, outputVars, modeVars, TypeOK
  <2>8. CASE start_comparing_fails(f)
    BY <1>1, <2>1, <2>8
    DEF start_comparing_fails, Ready, Tidy, StartedIsReady,
        OnlyHostCrashes, outputVars, modeVars, TypeOK
  <2>9. QED
    BY <2>4, <2>5, <2>6, <2>7, <2>8 DEF uhm_server_start_trace_full
<1>4. QED
  BY <1>1, <1>2, <1>3 DEF TypeOK

LEMMA EndReady == TypeOK /\ Ready /\ uhm_server_end_trace => Ready'
<1> SUFFICES ASSUME TypeOK, Ready, uhm_server_end_trace PROVE Ready'
  OBVIOUS
<1>1. /\ last' = "ended" /\ last \in {"started", "failed"}
      /\ UNCHANGED <<modeVars, aborted>>
  BY DEF uhm_server_end_trace
<1>2. ~server'
  BY DEF uhm_server_end_trace, Ready, Tidy, StartedIsReady, TypeOK
<1>3. (~Loaded)'
  <2>1. CASE unload_trace
    BY <2>1 DEF unload_trace, Loaded
  <2>2. CASE /\ IF enable_online THEN enable_logging ELSE ~server
             /\ UNCHANGED traceVars
    <3>1. ~Loaded
      <4>1. CASE last = "failed"
        BY <2>2, <4>1 DEF Ready, Tidy
      <4>2. CASE last = "started"
        BY <2>2, <4>2 DEF Ready, Tidy, StartedIsReady, TypeOK
      <4>3. QED
        BY <1>1, <4>1, <4>2
    <3>2. QED
      BY <2>2, <3>1 DEF Loaded, traceVars
  <2>3. QED
    BY <2>1, <2>2 DEF uhm_server_end_trace
<1>4. output_stream' = None /\ hosts_output_stream' = None
  BY DEF uhm_server_end_trace, close_output_streams, outputVars, Ready, Tidy
<1>5. QED
  BY <1>1, <1>2, <1>3, <1>4
  DEF Ready, Tidy, StartedIsReady, OnlyHostCrashes

LEMMA ChunkReady ==
    ASSUME TypeOK, Ready, uhm_server_received_message_chunk
    PROVE  Ready'
<1>1. UNCHANGED <<modeVars, server, last, traceVars, output_stream,
                  hosts_output_stream>>
  BY
  DEF uhm_server_received_message_chunk, chunk_skipped, chunk_not_written,
      chunk_taken, message_received, chunk_aborts, write_chunk, outputVars
<1>2. Tidy'
  BY <1>1 DEF Ready, Tidy, Loaded, modeVars, traceVars
<1>3. comparison_message # None => comparison_message' # None
  <2> SUFFICES ASSUME comparison_message # None
               PROVE  comparison_message' # None
    OBVIOUS
  <2>1. <<>> # None
    BY LineAssumption, EmptySeq
  <2>2. appended \in Seq(Line)
    BY NextLine DEF uhm_server_received_message_chunk, appended, TypeOK
  <2>3. appended # None
    BY <2>2, LineAssumption
  <2>4. QED
    BY <2>1, <2>3
    DEF uhm_server_received_message_chunk, chunk_skipped, chunk_not_written,
        chunk_taken, message_received, chunk_aborts, reset_parser, parserVars
<1>4. StartedIsReady'
  BY <1>1, <1>3 DEF Ready, StartedIsReady, modeVars, traceVars
<1>5. OnlyHostCrashes'
  <2> SUFFICES ASSUME last = "started", enable_logging
               PROVE  aborted' \in {"no", "host"}
    BY <1>1 DEF OnlyHostCrashes, modeVars
  <2>1. CASE chunk_aborts
    BY <2>1 DEF chunk_aborts, EndOfMessage, Ready, StartedIsReady
  <2>2. CASE ~chunk_aborts
    BY <2>2
    DEF uhm_server_received_message_chunk, chunk_skipped, chunk_not_written,
        chunk_taken, message_received
  <2>3. QED
    BY <2>1, <2>2
<1>6. QED
  BY <1>2, <1>4, <1>5 DEF Ready

LEMMA ReadyNext ==
    ASSUME Usage \subseteq {"overlap"}, TypeOK, Ready, [Next]_vars
    PROVE  Ready'
<1>1. ASSUME NEW b \in BOOLEAN,
             \/ uhm_server_set_enable_online(b)
             \/ uhm_server_set_enable_logging(b)
      PROVE  Ready'
  <2>1. /\ last \in {"none", "ended"}
        /\ UNCHANGED <<server, traceVars, outputVars, last>>
    BY <1>1
    DEF uhm_server_set_enable_online, uhm_server_set_enable_logging,
        MayChangeModes
  <2>2. QED
    BY <2>1
    DEF Ready, Tidy, Loaded, StartedIsReady, OnlyHostCrashes, traceVars,
        outputVars
<1>2. ASSUME NEW r \in Request,
             print_request(r) \/ print_response(r) \/ print_cancelled(r)
      PROVE  Ready'
  <2>1. UNCHANGED <<modeVars, server, traceVars, parserVars, outputVars, last,
                    aborted>>
    BY <1>2 DEF print_request, print_response, print_cancelled
  <2>2. QED
    BY <2>1
    DEF Ready, Tidy, Loaded, StartedIsReady, OnlyHostCrashes, modeVars,
        traceVars, parserVars, outputVars
<1>3. CASE UNCHANGED vars
  BY <1>3
  DEF Ready, Tidy, Loaded, StartedIsReady, OnlyHostCrashes, vars,
      modeVars, traceVars, parserVars, outputVars
<1>4. QED
  BY <1>1, <1>2, <1>3, StartReady, EndReady, ChunkReady
  DEF Next, Application, Logger, Dead

LEMMA ReadyInit == Init => Ready
  BY DEF Init, Ready, Tidy, Loaded, StartedIsReady, OnlyHostCrashes

LEMMA AlwaysReady ==
    Usage \subseteq {"overlap"} => (Spec => [](TypeOK /\ Ready))
<1> SUFFICES ASSUME Usage \subseteq {"overlap"}
             PROVE  Spec => [](TypeOK /\ Ready)
  OBVIOUS
<1>1. Init => TypeOK /\ Ready
  BY TypeInit, ReadyInit
<1>2. TypeOK /\ Ready /\ [Next]_vars => (TypeOK /\ Ready)'
  BY TypeNext, ReadyNext
<1>3. QED
  BY <1>1, <1>2, PTL DEF Spec

\* An application that changes the modes between sessions only, and ends those
\* that failed to start before the next, has what its mode needs whenever a
\* session started: an output file for the trace and for its hosts, the mock
\* server, the loaded trace, the lines to compare, whatever failed before.
THEOREM StartedSessionIsReady ==
    Usage \subseteq {"overlap"} => (Spec => []StartedIsReady)
<1>1. TypeOK /\ Ready => StartedIsReady
  BY DEF Ready
<1>2. QED
  BY <1>1, AlwaysReady, PTL

\* In such an application a session that failed to start and was ended leaves
\* no stream open, no trace loaded and no server running for the next.
THEOREM FailedSessionIsTidied ==
    Usage \subseteq {"overlap"} => (Spec => []Tidy)
<1>1. TypeOK /\ Ready => Tidy
  BY DEF Ready
<1>2. QED
  BY <1>1, AlwaysReady, PTL

-------------------------------------------------------------------------------
(* Lines one by one.                                                       *)

\* What is taken of a sequence, and what is still to come.
LEMMA NextOf ==
    ASSUME NEW S, NEW s \in Seq(S), NEW k \in Nat, k < Len(s)
    PROVE  /\ SubSeq(s, 1, k) \in Seq(S)
           /\ SubSeq(s, 1, k + 1) = Append(SubSeq(s, 1, k), s[k + 1])
           /\ SubSeq(s, k + 1, Len(s)) # <<>>
           /\ Head(SubSeq(s, k + 1, Len(s))) = s[k + 1]
           /\ Tail(SubSeq(s, k + 1, Len(s))) = SubSeq(s, k + 2, Len(s))
<1>1. /\ SubSeq(s, 1, k) \in Seq(S) /\ Len(SubSeq(s, 1, k)) = k
      /\ \A i \in 1 .. k : SubSeq(s, 1, k)[i] = s[i]
  OBVIOUS
<1>2. /\ SubSeq(s, 1, k + 1) \in Seq(S) /\ Len(SubSeq(s, 1, k + 1)) = k + 1
      /\ \A i \in 1 .. k + 1 : SubSeq(s, 1, k + 1)[i] = s[i]
  OBVIOUS
<1>3. SubSeq(s, 1, k + 1) = Append(SubSeq(s, 1, k), s[k + 1])
  <2> DEFINE a == SubSeq(s, 1, k)
  <2>1. /\ Append(a, s[k + 1]) \in Seq(S) /\ Len(Append(a, s[k + 1])) = k + 1
        /\ \A i \in 1 .. k + 1 : Append(a, s[k + 1])[i] = s[i]
    BY <1>1
  <2>2. QED
    BY <1>2, <2>1, SeqEqual
<1>4. SubSeq(s, k + 1, Len(s)) # <<>>
  <2> DEFINE t == SubSeq(s, k + 1, Len(s))
  <2>1. t \in Seq(S) /\ Len(t) = Len(s) - k /\ Len(s) \in Nat
    OBVIOUS
  <2> HIDE DEF t
  <2>2. t # <<>>
    BY <2>1, EmptySeq
  <2>3. QED
    BY <2>2 DEF t
<1>5. k + 1 \in 1 .. Len(s) /\ Len(s) \in k + 1 .. Len(s) /\ k + 1 + 1 = k + 2
  OBVIOUS
<1>6. QED
  BY <1>1, <1>3, <1>4, <1>5, HeadTailOfSubSeq

LEMMA NoneOrAll ==
    ASSUME NEW S, NEW s \in Seq(S)
    PROVE  /\ SubSeq(s, 1, 0) = <<>>
           /\ SubSeq(s, 1, Len(s)) = s
           /\ SubSeq(s, Len(s) + 1, Len(s)) = <<>>
  BY SubSeqFull, SubSeqEmpty

\* The blocks of a message, line by line.
LEMMA RequestLine ==
    ASSUME NEW r \in Request, NEW k \in 0 .. 2
    PROVE  /\ SubSeq(RequestBlock(r), k + 1, 3) # <<>>
           /\ Head(SubSeq(RequestBlock(r), k + 1, 3)) = Pair(r)[k + 1]
           /\ Tail(SubSeq(RequestBlock(r), k + 1, 3))
                 = SubSeq(RequestBlock(r), k + 2, 3)
<1>1. RequestBlock(r) \in Seq(Line) /\ Len(RequestBlock(r)) = 3
  BY BlockTypes DEF RequestBlock
<1>2. RequestBlock(r)[k + 1] = Pair(r)[k + 1]
  <2>1. k = 0 \/ k = 1 \/ k = 2
    OBVIOUS
  <2>2. QED
    BY <2>1, PairLines DEF RequestBlock
<1>3. k \in Nat /\ k < 3
  OBVIOUS
<1>4. QED
  BY <1>1, <1>2, <1>3, NextOf

LEMMA PairLine ==
    ASSUME NEW r \in Request, NEW k \in 0 .. 4
    PROVE  /\ SubSeq(Pair(r), 1, k) \in Seq(Line)
           /\ SubSeq(Pair(r), 1, k + 1)
                 = Append(SubSeq(Pair(r), 1, k), Pair(r)[k + 1])
           /\ SubSeq(Pair(r), k + 1, 5) # <<>>
           /\ Head(SubSeq(Pair(r), k + 1, 5)) = Pair(r)[k + 1]
           /\ Tail(SubSeq(Pair(r), k + 1, 5)) = SubSeq(Pair(r), k + 2, 5)
<1>1. Pair(r) \in Seq(Line) /\ Len(Pair(r)) = 5 /\ k \in Nat /\ k < 5
  BY BlockTypes, PairLines
<1>2. QED
  BY <1>1, NextOf

LEMMA PairEnds ==
    ASSUME NEW r \in Request
    PROVE  /\ SubSeq(RequestBlock(r), 1, 3) = RequestBlock(r)
           /\ SubSeq(RequestBlock(r), 4, 3) = <<>>
           /\ SubSeq(Pair(r), 1, 0) = <<>>
           /\ SubSeq(Pair(r), 1, 3) = RequestBlock(r)
           /\ SubSeq(Pair(r), 4, 5) = ResponseBlock(r)
           /\ SubSeq(Pair(r), 1, 5) = Pair(r)
           /\ SubSeq(Pair(r), 6, 5) = <<>>
<1>1. RequestBlock(r) \in Seq(Line) /\ Len(RequestBlock(r)) = 3
  BY BlockTypes DEF RequestBlock
<1>2. ResponseBlock(r) \in Seq(Line) /\ Len(ResponseBlock(r)) = 2
  BY BlockTypes DEF ResponseBlock
<1>3. Pair(r) \in Seq(Line) /\ Len(Pair(r)) = 5
  BY BlockTypes, PairLines
<1>4. /\ SubSeq(Pair(r), 1, 3) \in Seq(Line) /\ Len(SubSeq(Pair(r), 1, 3)) = 3
      /\ \A i \in 1 .. 3 : SubSeq(Pair(r), 1, 3)[i] = RequestBlock(r)[i]
  <2>1. \A i \in 1 .. 3 : i = 1 \/ i = 2 \/ i = 3
    OBVIOUS
  <2>2. \A i \in 1 .. 3 : Pair(r)[i] = RequestBlock(r)[i]
    BY <2>1, PairLines DEF RequestBlock
  <2>3. \A i \in 1 .. 3 : Pair(r)[i] \in Line
    BY <1>3
  <2>4. /\ SubSeq(Pair(r), 1, 3) \in Seq(Line)
        /\ Len(SubSeq(Pair(r), 1, 3)) = 3
        /\ \A i \in 1 .. 3 : SubSeq(Pair(r), 1, 3)[i] = Pair(r)[1 + i - 1]
    BY <2>3, SubSeqProperties
  <2>5. QED
    BY <2>2, <2>4
<1>5. /\ SubSeq(Pair(r), 4, 5) \in Seq(Line) /\ Len(SubSeq(Pair(r), 4, 5)) = 2
      /\ \A i \in 1 .. 2 : SubSeq(Pair(r), 4, 5)[i] = ResponseBlock(r)[i]
  <2>1. \A i \in 1 .. 2 : i = 1 \/ i = 2
    OBVIOUS
  <2>2. \A i \in 1 .. 2 : Pair(r)[3 + i] = ResponseBlock(r)[i]
    BY <2>1, PairLines DEF ResponseBlock
  <2>3. \A i \in 4 .. 5 : Pair(r)[i] \in Line
    <3> SUFFICES ASSUME NEW i \in 4 .. 5 PROVE Pair(r)[i] \in Line
      OBVIOUS
    <3>1. i \in 1 .. Len(Pair(r))
      BY <1>3
    <3>2. QED
      BY <1>3, <3>1, ElementOfSeq
  <2>4. /\ SubSeq(Pair(r), 4, 5) \in Seq(Line)
        /\ Len(SubSeq(Pair(r), 4, 5)) = 2
        /\ \A i \in 1 .. 2 : SubSeq(Pair(r), 4, 5)[i] = Pair(r)[4 + i - 1]
    BY <2>3, SubSeqProperties
  <2>5. QED
    BY <2>2, <2>4
<1>6. QED
  BY <1>1, <1>2, <1>3, <1>4, <1>5, SeqEqual, NoneOrAll

\* What the parser makes of the lines of a pair.
LEMMA LineState ==
    ASSUME NEW r \in Request, NEW k \in 0 .. 4, AfterLines(k)
    PROVE  StateAfter(received_message_state, Pair(r)[k + 1])
              = <<"REQUEST_DATA", "REQUEST_DATA", "REQUEST_TERMINATOR",
                  "RESPONSE_DATA", "RESPONSE_TERMINATOR">>[k + 1]
<1>1. k = 0 \/ k = 1 \/ k = 2 \/ k = 3 \/ k = 4
  OBVIOUS
<1>2. QED
  BY <1>1, PairLines DEF AfterLines, BetweenPairs, StateAfter, Sent, Received, End
-------------------------------------------------------------------------------
(* The lines that are stored.                                              *)

LEMMA AppendConcat ==
    ASSUME NEW s \in Seq(Line), NEW t \in Seq(Line), NEW e \in Line
    PROVE  Append(s \o t, e) = s \o Append(t, e)
<1>1. /\ s \o t \in Seq(Line) /\ Len(s \o t) = Len(s) + Len(t)
      /\ \A i \in 1 .. Len(s) + Len(t) :
            (s \o t)[i] = IF i <= Len(s) THEN s[i] ELSE t[i - Len(s)]
  BY ConcatProperties
<1>2. /\ Append(t, e) \in Seq(Line) /\ Len(Append(t, e)) = Len(t) + 1
      /\ \A i \in 1 .. Len(t) : Append(t, e)[i] = t[i]
      /\ Append(t, e)[Len(t) + 1] = e
      /\ Len(s) \in Nat /\ Len(t) \in Nat
  OBVIOUS
<1> DEFINE u == Append(t, e)
           v == s \o t
<1>3. /\ s \o u \in Seq(Line) /\ Len(s \o u) = Len(s) + Len(u)
      /\ \A i \in 1 .. Len(s) + Len(u) :
            (s \o u)[i] = IF i <= Len(s) THEN s[i] ELSE u[i - Len(s)]
  <2> HIDE DEF u
  <2>1. u \in Seq(Line)
    BY <1>2 DEF u
  <2>2. QED
    BY <2>1, ConcatProperties
<1>4. /\ Append(v, e) \in Seq(Line) /\ Len(Append(v, e)) = Len(v) + 1
      /\ \A i \in 1 .. Len(v) : Append(v, e)[i] = v[i]
      /\ Append(v, e)[Len(v) + 1] = e
  <2> HIDE DEF v
  <2>1. v \in Seq(Line)
    BY <1>1 DEF v
  <2>2. QED
    BY <2>1
<1> HIDE DEF u, v
<1>5. Len(Append(v, e)) = Len(s \o u)
  BY <1>1, <1>2, <1>3, <1>4 DEF u, v
<1>6. ASSUME NEW i \in 1 .. Len(Append(v, e))
      PROVE  Append(v, e)[i] = (s \o u)[i]
  <2>1. CASE i <= Len(s)
    BY <1>1, <1>2, <1>3, <1>4, <2>1 DEF u, v
  <2>2. CASE i > Len(s) /\ i <= Len(s) + Len(t)
    BY <1>1, <1>2, <1>3, <1>4, <2>2 DEF u, v
  <2>3. CASE i = Len(s) + Len(t) + 1
    BY <1>1, <1>2, <1>3, <1>4, <2>3 DEF u, v
  <2>4. QED
    BY <1>1, <1>2, <1>4, <2>1, <2>2, <2>3 DEF u, v
<1>7. Append(v, e) = s \o u
  BY <1>3, <1>4, <1>5, <1>6, SeqEqual
<1>8. QED
  BY <1>7 DEF u, v

\* A line that is taken is stored after those before it.
LEMMA StoredTaken ==
    ASSUME TypeOK, NEW n \in Nat, n <= Len(history), NEW taken \in Seq(Line),
           NEW l \in Line, line = l, Stored(n, taken), write_chunk,
           enable_online => comparison_message' = appended,
           comparison_message # None \/ ~enable_online,
           UNCHANGED <<modeVars, history, hosts, comparisons>>
    PROVE  Stored(n, Append(taken, l))'
<1>1. UNCHANGED <<enable_online, enable_logging, history, hosts, comparisons>>
  BY DEF modeVars
<1>2. SubSeq(history, 1, n) \in Seq(Request)
  BY DEF TypeOK
<1>3. enable_logging => written' = Lines(SubSeq(history, 1, n)) \o Append(taken, l)
  <2> SUFFICES ASSUME enable_logging
               PROVE  written' = Lines(SubSeq(history, 1, n)) \o Append(taken, l)
    OBVIOUS
  <2> DEFINE before == Lines(SubSeq(history, 1, n))
  <2>1. written' = Append(before \o taken, l)
    BY DEF write_chunk, Stored
  <2>2. before \in Seq(Line)
    BY <1>2, LinesType
  <2> HIDE DEF before
  <2>3. Append(before \o taken, l) = before \o Append(taken, l)
    BY <2>2, AppendConcat, Zenon
  <2>4. QED
    BY <2>1, <2>3 DEF before
<1>4. enable_online => comparison_message' = Append(taken, l)
  BY DEF appended, Stored
<1>5. QED
  BY <1>1, <1>3, <1>4 DEF Stored

LEMMA SameLength ==
    ASSUME NEW m \in Nat, NEW n \in Nat, 1 .. m = 1 .. n
    PROVE  m = n
<1>1. \A i : i \in 1 .. m <=> i \in 1 .. n
  OBVIOUS
<1>2. ~(m < n) /\ ~(n < m)
  BY <1>1
<1>3. QED
  BY <1>2

LEMMA Appended ==
    ASSUME NEW S, NEW s \in Seq(S), NEW e \in S
    PROVE  /\ Append(s, e) \in Seq(S) /\ Len(Append(s, e)) = Len(s) + 1
           /\ Len(s) \in Nat
           /\ DOMAIN Append(s, e) = 1 .. Len(s) + 1
           /\ \A i \in 1 .. Len(s) : Append(s, e)[i] = s[i]
           /\ Append(s, e)[Len(s) + 1] = e
  OBVIOUS

\* With its last message, the history.
LEMMA LastMessage ==
    ASSUME TypeOK, history # <<>>
    PROVE  /\ Len(history) \in Nat \ {0}
           /\ history[Len(history)] \in Request
           /\ SubSeq(history, 1, Len(history) - 1) \in Seq(Request)
           /\ history = Append(SubSeq(history, 1, Len(history) - 1),
                               history[Len(history)])
           /\ SubSeq(history, 1, Len(history)) = history
<1>1. history \in Seq(Request)
  BY DEF TypeOK
<1>2. Len(history) \in Nat \ {0}
  BY <1>1, EmptySeq
<1> DEFINE k == Len(history) - 1
<1>3. k \in Nat /\ k < Len(history) /\ k + 1 = Len(history)
  BY <1>2
<1> HIDE DEF k
<1>4. /\ SubSeq(history, 1, k) \in Seq(Request)
      /\ SubSeq(history, 1, k + 1) = Append(SubSeq(history, 1, k), history[k + 1])
  BY <1>1, <1>3, NextOf
<1>5. SubSeq(history, 1, Len(history)) = history
  BY <1>1, NoneOrAll
<1>6. history[Len(history)] \in Request
  BY <1>1, <1>2
<1>7. QED
  BY <1>2, <1>3, <1>4, <1>5, <1>6 DEF k

\* Where nothing of the next message is taken, what is stored is the history.
AllStored ==
    /\ enable_logging => written = Lines(history)
    /\ enable_online => comparison_message = <<>>
    /\ enable_online /\ enable_logging =>
          hosts = {history[i] : i \in 1 .. Len(history)}
    /\ enable_online /\ ~enable_logging =>
          [i \in DOMAIN comparisons |-> comparisons[i].online] = history

LEMMA StoredAll == TypeOK => (Stored(Len(history), <<>>) <=> AllStored)
<1> SUFFICES ASSUME TypeOK PROVE Stored(Len(history), <<>>) <=> AllStored
  OBVIOUS
<1>1. SubSeq(history, 1, Len(history)) = history
  BY NoneOrAll DEF TypeOK
<1>2. Lines(history) \in Seq(Line)
  BY LinesType DEF TypeOK
<1>3. Lines(history) \o <<>> = Lines(history)
  BY <1>2, ConcatEmptySeq
<1>4. QED
  BY <1>1, <1>3 DEF Stored, AllStored

\* The last line of the last message's pair completes what is stored.
LEMMA StoredWhole ==
    ASSUME TypeOK, TypeOK', history # <<>>, NEW r \in Request,
           r = history[Len(history)],
           Stored(Len(history) - 1, SubSeq(Pair(r), 1, 4)),
           line = Pair(r)[5], write_chunk, UNCHANGED <<modeVars, history>>,
           enable_online => comparison_message' = <<>>,
           enable_online /\ enable_logging => hosts' = hosts \cup {r},
           enable_online /\ ~enable_logging =>
              \E m \in Message :
                 comparisons' = Append(comparisons,
                                       [online |-> r, recorded |-> m])
    PROVE  Stored(Len(history), <<>>)'
<1> DEFINE done == SubSeq(history, 1, Len(history) - 1)
           n == Len(history) - 1
<1>1. /\ n \in Nat /\ Len(history) = n + 1
      /\ done \in Seq(Request) /\ Len(done) = n
      /\ history = Append(done, r)
  <2>1. /\ Len(history) \in Nat \ {0}
        /\ done \in Seq(Request)
        /\ history = Append(done, r)
    BY LastMessage
  <2> HIDE DEF done
  <2>2. Len(history) = Len(done) + 1 /\ Len(done) \in Nat
    BY <2>1
  <2>3. QED
    BY <2>1, <2>2
<1>2. /\ Stored(n, SubSeq(Pair(r), 1, 4))
      /\ UNCHANGED <<enable_online, enable_logging, history>>
  BY DEF modeVars
<1>3. enable_logging => written' = Lines(history)
  <2> SUFFICES ASSUME enable_logging PROVE written' = Lines(history)
    OBVIOUS
  <2> DEFINE before == Lines(done)
             taken == SubSeq(Pair(r), 1, 4)
             l == Pair(r)[5]
  <2>1. written' = Append(before \o taken, l)
    BY <1>2 DEF write_chunk, Stored
  <2>2. before \in Seq(Line) /\ taken \in Seq(Line) /\ l \in Line
    <3>1. before \in Seq(Line)
      BY <1>1, LinesType
    <3>2. taken \in Seq(Line)
      BY PairLine
    <3>3. l \in Line
      BY PairLines DEF Line
    <3>4. QED
      BY <3>1, <3>2, <3>3
  <2>3. Append(taken, l) = Pair(r)
    <3>1. SubSeq(Pair(r), 1, 4 + 1) = Append(taken, Pair(r)[4 + 1])
      BY PairLine
    <3>2. QED
      BY <3>1, PairEnds
  <2> HIDE DEF before, taken, l
  <2>4. Append(before \o taken, l) = before \o Append(taken, l)
    BY <2>2, AppendConcat, Zenon
  <2>5. before \o Pair(r) = Lines(history)
    BY <1>1, LinesAppend DEF before
  <2>6. QED
    BY <2>1, <2>3, <2>4, <2>5
<1> HIDE DEF done, n
<1>4. enable_online /\ enable_logging =>
         hosts' = {history[i] : i \in 1 .. Len(history)}
  <2> SUFFICES ASSUME enable_online, enable_logging
               PROVE  hosts' = {history[i] : i \in 1 .. Len(history)}
    OBVIOUS
  <2>1. hosts' = {done[i] : i \in 1 .. n} \cup {r}
    BY <1>2 DEF Stored, done, n
  <2>2. /\ \A i \in 1 .. n : history[i] = done[i]
        /\ history[n + 1] = r
    BY <1>1
  <2>3. QED
    BY <1>1, <2>1, <2>2
<1>5. enable_online /\ ~enable_logging =>
         [i \in DOMAIN comparisons' |-> comparisons'[i].online] = history
  <2> SUFFICES ASSUME enable_online, ~enable_logging
               PROVE  [i \in DOMAIN comparisons' |-> comparisons'[i].online]
                         = history
    OBVIOUS
  <2>1. [i \in DOMAIN comparisons |-> comparisons[i].online] = done
    BY <1>2 DEF Stored, done, n
  <2>2. PICK m \in Message :
               comparisons' = Append(comparisons,
                                     [online |-> r, recorded |-> m])
    OBVIOUS
  <2>3. Len(comparisons) = n /\ DOMAIN comparisons = 1 .. n
    <3>1. DOMAIN comparisons = DOMAIN done
      BY <2>1
    <3>2. DOMAIN comparisons = 1 .. Len(comparisons) /\ DOMAIN done = 1 .. n
          /\ Len(comparisons) \in Nat
      BY <1>1 DEF TypeOK
    <3>3. Len(comparisons) = n
      BY <1>1, <3>1, <3>2, SameLength
    <3>4. QED
      BY <3>2, <3>3
  <2>4. \A i \in 1 .. n : comparisons[i].online = done[i]
    BY <2>1, <2>3
  <2>5. /\ DOMAIN comparisons' = 1 .. n + 1
        /\ \A i \in 1 .. n : comparisons'[i] = comparisons[i]
        /\ comparisons'[n + 1] = [online |-> r, recorded |-> m]
    <3> DEFINE new == [online |-> r, recorded |-> m]
    <3>1. new \in [online : Request, recorded : Message]
      OBVIOUS
    <3> HIDE DEF new
    <3>2. comparisons \in Seq([online : Request, recorded : Message])
      BY DEF TypeOK
    <3>3. comparisons' = Append(comparisons, new)
      BY <2>2 DEF new
    <3>4. QED
      BY <2>3, <3>1, <3>2, <3>3, Appended DEF new
  <2>6. \A i \in 1 .. n + 1 : comparisons'[i].online = history[i]
    BY <1>1, <2>4, <2>5
  <2>7. history = [i \in 1 .. n + 1 |-> history[i]]
    <3>1. history \in Seq(Request)
      BY DEF TypeOK
    <3>2. QED
      BY <1>1, <3>1
  <2>8. QED
    BY <2>5, <2>6, <2>7
<1>6. QED
  <2>1. AllStored'
    BY <1>2, <1>3, <1>4, <1>5 DEF AllStored
  <2>2. TypeOK' => (Stored(Len(history), <<>>)' <=> AllStored')
    BY StoredAll, PTL
  <2>3. QED
    BY <2>1, <2>2
-------------------------------------------------------------------------------
(* The recorder keeps in step with what is printed.                        *)

LEMMA InStepChunk ==
    ASSUME TypeOK, TypeOK', Ready, InStep, uhm_server_received_message_chunk
    PROVE  InStep'
<1> SUFFICES ASSUME last' = "started", aborted' = "no", mixed' = FALSE,
                    enable_logging' \/ enable_online'
             PROVE  Receiving'
  BY DEF InStep, TypeOK
<1>1. /\ UNCHANGED <<modeVars, server, flight, messages, last, begun, history>>
      /\ printing # <<>> /\ printing' = Tail(printing)
      /\ aborted = "no"
  BY DEF uhm_server_received_message_chunk
<1>2. /\ ~chunk_not_written /\ ~chunk_aborts
      /\ mixed = FALSE
  BY
  DEF uhm_server_received_message_chunk, chunk_skipped, chunk_not_written,
      chunk_taken, message_received, chunk_aborts, TypeOK
<1>3. enable_logging \/ enable_online
  BY <1>1 DEF modeVars
<1>4. ~Ignored
  BY <1>1, <1>3 DEF Ignored, Ready, StartedIsReady
<1>5. enable_online => comparison_message # None
  BY <1>1 DEF Ready, StartedIsReady
<1>6. Receiving
  BY <1>1, <1>2, <1>3 DEF InStep
<1>7. CASE NoPair
  <2>1. \/ printing = <<End>>
        \/ \E r \in Request : printing = ResponseBlock(r)
    BY <1>1, <1>7 DEF NoPair
  <2>2. /\ line = End \/ Received(line)
        /\ Tail(printing) \in {<<>>, <<End>>}
    <3>1. CASE printing = <<End>>
      BY <3>1 DEF line
    <3>2. ASSUME NEW r \in Request, printing = ResponseBlock(r)
          PROVE  /\ line = End \/ Received(line)
                 /\ Tail(printing) \in {<<>>, <<End>>}
      <4>1. line = [kind |-> "status", of |-> r]
        BY <3>2 DEF line, ResponseBlock
      <4>2. Tail(printing) = <<End>>
        BY <3>2 DEF ResponseBlock
      <4>3. QED
        BY <4>1, <4>2 DEF Received
    <3>3. QED
      BY <2>1, <3>1, <3>2
  <2>3. state = "UNKNOWN"
    BY <1>7, <2>2
    DEF NoPair, BetweenPairs, state, StateAfter, Sent, Received, End
  <2>4. chunk_skipped
    BY <1>2, <2>3
    DEF uhm_server_received_message_chunk, chunk_taken, message_received,
        EndOfMessage
  <2>5. received_message_state' = "UNKNOWN"
    BY <1>4, <2>4 DEF chunk_skipped
  <2>6. Stored(Len(history), <<>>)'
    BY <1>1, <1>7, <2>4
    DEF NoPair, chunk_skipped, outputVars, modeVars, Stored
  <2>7. NoPair'
    BY <1>1, <1>7, <2>2, <2>5, <2>6 DEF NoPair, BetweenPairs
  <2>8. QED
    BY <2>7 DEF Receiving
<1>8. ASSUME NEW r \in Request, NEW k \in 0 .. 3, InRequest(r, k)
      PROVE  Receiving'
  <2>1. k \in 0 .. 2
    <3>1. k # 3
      BY <1>1, <1>8, PairEnds DEF InRequest
    <3>2. QED
      BY <3>1
  <2>2. /\ line = Pair(r)[k + 1]
        /\ printing' = SubSeq(RequestBlock(r), k + 2, 3)
    BY <1>1, <1>8, <2>1, RequestLine DEF InRequest, line
  <2>3. /\ AfterLines(k)
        /\ Stored(Len(history), SubSeq(Pair(r), 1, k))
    BY <1>8 DEF InRequest
  <2>4. state = <<"REQUEST_DATA", "REQUEST_DATA", "REQUEST_TERMINATOR",
                  "RESPONSE_DATA", "RESPONSE_TERMINATOR">>[k + 1]
    BY <2>1, <2>2, <2>3, LineState DEF state
  <2>5. /\ state # "UNKNOWN" /\ state # "RESPONSE_TERMINATOR"
        /\ state = <<"REQUEST_DATA", "REQUEST_DATA", "REQUEST_TERMINATOR",
                     "RESPONSE_DATA">>[k + 1]
    <3>1. k = 0 \/ k = 1 \/ k = 2
      BY <2>1
    <3>2. QED
      BY <2>4, <3>1
  <2>6. chunk_taken
    BY <1>2, <1>4, <2>5
    DEF uhm_server_received_message_chunk, chunk_skipped, message_received,
        EndOfMessage
  <2>7. Stored(Len(history), SubSeq(Pair(r), 1, k + 1))'
    <3>1. PICK n \in Nat : n = Len(history)
      BY DEF TypeOK
    <3>2. /\ SubSeq(Pair(r), 1, k) \in Seq(Line)
          /\ SubSeq(Pair(r), 1, k + 1) =
                Append(SubSeq(Pair(r), 1, k), Pair(r)[k + 1])
      BY <2>1, PairLine
    <3>3. Pair(r)[k + 1] \in Line
      BY <1>1, <2>2, NextLine
    <3>4. Stored(n, Append(SubSeq(Pair(r), 1, k), Pair(r)[k + 1]))'
      <4>1. Stored(n, SubSeq(Pair(r), 1, k))
        BY <2>3, <3>1
      <4>2. /\ enable_online => comparison_message' = appended
            /\ write_chunk
            /\ UNCHANGED <<modeVars, history, hosts, comparisons>>
        BY <1>1, <2>6 DEF chunk_taken
      <4>3. n <= Len(history)
        BY <3>1
      <4>4. QED
        BY <1>5, <2>2, <3>2, <3>3, <4>1, <4>2, <4>3, StoredTaken
    <3>5. n = Len(history')
      BY <1>1, <3>1
    <3>6. QED
      BY <3>2, <3>4, <3>5
  <2>8. InRequest(r, k + 1)'
    <3>1. AfterLines(k + 1)'
      <4>1. received_message_state' = state /\ k + 1 # 0
        BY <2>1, <2>6 DEF chunk_taken
      <4>2. QED
        BY <2>5, <4>1 DEF AfterLines
    <3>2. printing' = SubSeq(RequestBlock(r), (k + 1) + 1, 3)
      BY <2>1, <2>2
    <3>3. QED
      BY <1>1, <1>8, <2>7, <3>1, <3>2 DEF InRequest
  <2>9. k + 1 \in 0 .. 3
    BY <2>1
  <2>10. QED
    BY <2>8, <2>9 DEF Receiving
<1>9. ASSUME NEW r \in Request, InResponse(r, 3)
      PROVE  Receiving'
  <2>1. /\ line = Pair(r)[4]
        /\ printing' = SubSeq(Pair(r), 5, 5)
    <3>1. /\ 3 \in 0 .. 4 /\ 3 + 1 = 4 /\ 3 + 2 = 5
      OBVIOUS
    <3>2. QED
      BY <1>1, <1>9, <3>1, PairLine DEF InResponse, line
  <2>2. state = "RESPONSE_DATA"
    BY <1>9, <2>1, PairLines
    DEF InResponse, AfterLines, state, StateAfter, Sent, Received, End
  <2>3. chunk_taken
    BY <1>2, <1>4, <2>2
    DEF uhm_server_received_message_chunk, chunk_skipped, message_received,
        EndOfMessage
  <2>4. Stored(Len(history) - 1, SubSeq(Pair(r), 1, 4))'
    <3>1. PICK n \in Nat : n = Len(history) - 1
      <4>1. Len(history) \in Nat \ {0}
        BY <1>9, LastMessage DEF InResponse
      <4>2. Len(history) - 1 \in Nat
        BY <4>1
      <4>3. QED
        BY <4>2
    <3>2. /\ SubSeq(Pair(r), 1, 3) \in Seq(Line)
          /\ SubSeq(Pair(r), 1, 4) = Append(SubSeq(Pair(r), 1, 3), Pair(r)[4])
      <4>1. 3 \in 0 .. 4 /\ 3 + 1 = 4
        OBVIOUS
      <4>2. QED
        BY <4>1, PairLine
    <3>3. Pair(r)[4] \in Line
      BY <1>1, <2>1, NextLine
    <3>4. Stored(n, Append(SubSeq(Pair(r), 1, 3), Pair(r)[4]))'
      <4>1. Stored(n, SubSeq(Pair(r), 1, 3))
        BY <1>9, <3>1 DEF InResponse
      <4>2. /\ enable_online => comparison_message' = appended
            /\ write_chunk
            /\ UNCHANGED <<modeVars, history, hosts, comparisons>>
        BY <1>1, <2>3 DEF chunk_taken
      <4>3. n <= Len(history)
        BY <3>1, <1>9, LastMessage DEF InResponse
      <4>4. QED
        BY <1>5, <2>1, <3>2, <3>3, <4>1, <4>2, <4>3, StoredTaken
    <3>5. n = Len(history') - 1
      BY <1>1, <3>1
    <3>6. QED
      BY <3>2, <3>4, <3>5
  <2>5. AfterLines(4)'
    BY <2>2, <2>3 DEF chunk_taken, AfterLines
  <2>6. InResponse(r, 4)'
    BY <1>1, <1>9, <2>1, <2>4, <2>5 DEF InResponse
  <2>7. QED
    BY <2>6 DEF Receiving
<1>10. ASSUME NEW r \in Request, InResponse(r, 4)
       PROVE  Receiving'
  <2>1. /\ line = Pair(r)[5]
        /\ printing' = <<>>
    <3>1. /\ 4 \in 0 .. 4 /\ 4 + 1 = 5 /\ 4 + 2 = 6
      OBVIOUS
    <3>2. QED
      BY <1>1, <1>10, <3>1, PairLine, PairEnds DEF InResponse, line
  <2>2. state = "RESPONSE_TERMINATOR"
    BY <1>10, <2>1, PairLines
    DEF InResponse, AfterLines, state, StateAfter, Sent, Received, End
  <2>3. enable_online => message_received
    BY <1>2, <1>4, <2>2
    DEF uhm_server_received_message_chunk, chunk_skipped, chunk_taken,
        EndOfMessage
  <2>4. ~enable_online => chunk_taken
    BY <1>2, <1>4, <2>2
    DEF uhm_server_received_message_chunk, chunk_skipped, message_received,
        EndOfMessage
  <2>5. enable_online => online_message = r
    <3> SUFFICES ASSUME enable_online PROVE online_message = r
      OBVIOUS
    <3>1. comparison_message = SubSeq(Pair(r), 1, 4)
      BY <1>10 DEF InResponse, Stored
    <3>2. SubSeq(Pair(r), 1, 4 + 1) = Append(SubSeq(Pair(r), 1, 4), Pair(r)[4 + 1])
      BY PairLine
    <3>3. appended = Pair(r)
      BY <1>5, <2>1, <3>1, <3>2, PairEnds DEF appended
    <3>4. QED
      BY <3>3, PairParses DEF online_message
  <2>6. r # None
    BY SessionAssumption
  <2>7. write_chunk
    BY <2>3, <2>4 DEF message_received, chunk_taken
  <2>8. enable_online => comparison_message' = <<>>
    BY <2>3 DEF message_received, reset_parser
  <2>9. enable_online /\ enable_logging => hosts' = hosts \cup {r}
    BY <2>3, <2>5, <2>6 DEF message_received
  <2>10. enable_online /\ ~enable_logging =>
            \E m \in Message :
               comparisons' = Append(comparisons,
                                     [online |-> r, recorded |-> m])
    BY <2>3, <2>5, <2>6 DEF message_received, TypeOK
  <2>11. Stored(Len(history), <<>>)'
    BY <1>1, <1>10, <2>1, <2>7, <2>8, <2>9, <2>10, StoredWhole DEF InResponse
  <2>12. received_message_state' \in {"UNKNOWN", "RESPONSE_TERMINATOR"}
    BY <2>2, <2>3, <2>4 DEF message_received, reset_parser, chunk_taken
  <2>13. NoPair'
    BY <1>1, <1>10, <2>1, <2>11, <2>12 DEF InResponse, NoPair, BetweenPairs
  <2>14. QED
    BY <2>13 DEF Receiving
<1>11. QED
  <2>1. \A k \in 3 .. 4 : k = 3 \/ k = 4
    OBVIOUS
  <2>2. QED
    BY <1>6, <1>7, <1>8, <1>9, <1>10, <2>1 DEF Receiving

\* In step, the message that is complete has its header lines.
LEMMA ChunkRecords ==
    ASSUME TypeOK, Ready, InStep, RecordingDoesNotCrash,
           uhm_server_received_message_chunk
    PROVE  RecordingDoesNotCrash'
<1> SUFFICES ASSUME last = "started", enable_logging, aborted' # "no"
             PROVE  aborted' = "host" /\ mixed'
  BY DEF RecordingDoesNotCrash, uhm_server_received_message_chunk, modeVars
<1>1. aborted = "no" /\ UNCHANGED <<modeVars, last>>
  BY DEF uhm_server_received_message_chunk
<1>2. chunk_aborts
  <2>1. CASE message_received
    BY <1>1, <2>1 DEF message_received
  <2>2. QED
    BY <1>1, <2>1
    DEF uhm_server_received_message_chunk, chunk_skipped, chunk_not_written,
        chunk_taken
<1>3. /\ comparison_message # None
      /\ enable_online /\ state = "RESPONSE_TERMINATOR"
      /\ mixed' = mixed
  BY <1>2 DEF chunk_aborts, EndOfMessage, Ready, StartedIsReady
<1>4. aborted' = "host" /\ HostMayBeLost
  BY <1>2, <1>3 DEF chunk_aborts, Ready, StartedIsReady
<1>5. ASSUME mixed = FALSE PROVE FALSE
  <2>1. Receiving
    BY <1>1, <1>5 DEF InStep
  <2>2. received_message_state = "RESPONSE_DATA"
    BY <1>3 DEF state, StateAfter
  <2>3. PICK r \in Request : InResponse(r, 4)
    <3>1. ~NoPair
      BY <2>2 DEF NoPair, BetweenPairs
    <3>2. ASSUME NEW r \in Request, NEW k \in 0 .. 3, InRequest(r, k)
          PROVE  FALSE
      <4>1. k = 0 \/ k = 1 \/ k = 2 \/ k = 3
        OBVIOUS
      <4>2. QED
        BY <2>2, <3>2, <4>1 DEF InRequest, AfterLines, BetweenPairs
    <3>3. ASSUME NEW r \in Request, InResponse(r, 3) PROVE FALSE
      BY <2>2, <3>3 DEF InResponse, AfterLines
    <3>4. \A k \in 3 .. 4 : k = 3 \/ k = 4
      OBVIOUS
    <3>5. QED
      BY <2>1, <3>1, <3>2, <3>3, <3>4 DEF Receiving
  <2>4. comparison_message = SubSeq(Pair(r), 1, 4)
    BY <1>3, <2>3 DEF InResponse, Stored
  <2>5. /\ comparison_message \in Seq(Line)
        /\ Len(comparison_message) = 4
        /\ comparison_message[2].kind = "header"
    <3>1. /\ Pair(r) \in Seq(Line) /\ Len(Pair(r)) = 5
          /\ Pair(r)[2].kind = "header"
      BY BlockTypes, PairLines
    <3>2. \A i \in 1 .. 4 : Pair(r)[i] \in Line
      BY <3>1
    <3>3. /\ SubSeq(Pair(r), 1, 4) \in Seq(Line)
          /\ Len(SubSeq(Pair(r), 1, 4)) = 4
          /\ \A i \in 1 .. 4 : SubSeq(Pair(r), 1, 4)[i] = Pair(r)[1 + i - 1]
      BY <3>2, SubSeqProperties
    <3>4. QED
      BY <2>4, <3>1, <3>3
  <2>6. 2 \in DOMAIN appended /\ appended[2].kind = "header"
    <3>1. line \in Line
      BY NextLine DEF uhm_server_received_message_chunk
    <3>2. appended = Append(comparison_message, line)
      BY <1>3 DEF appended
    <3>3. QED
      BY <2>5, <3>1, <3>2, Appended
  <2>7. QED
    BY <1>4, <2>6 DEF HostMayBeLost
<1>6. QED
  BY <1>3, <1>4, <1>5 DEF TypeOK

\* Between blocks no request or a whole one is taken.
LEMMA AtRest ==
    ASSUME Receiving, printing = <<>>
    PROVE  \/ NoPair
           \/ \E q \in Request : InRequest(q, 3)
<1>1. ASSUME NEW q \in Request, NEW k \in 0 .. 3, InRequest(q, k)
      PROVE  k = 3
  <2>1. ~(k \in 0 .. 2)
    BY <1>1, RequestLine DEF InRequest
  <2>2. QED
    BY <2>1
<1>2. ASSUME NEW q \in Request, NEW k \in 3 .. 4, InResponse(q, k)
      PROVE  FALSE
  <2>1. k \in 0 .. 4
    OBVIOUS
  <2>2. QED
    BY <1>2, <2>1, PairLine DEF InResponse
<1>3. QED
  BY <1>1, <1>2 DEF Receiving

LEMMA StoredSame ==
    ASSUME NEW n, NEW taken, Stored(n, taken),
           UNCHANGED <<enable_online, enable_logging, history, written,
                       comparison_message, hosts, comparisons>>
    PROVE  Stored(n, taken)'
<1>1. /\ enable_online' = enable_online /\ enable_logging' = enable_logging
      /\ history' = history /\ written' = written /\ hosts' = hosts
      /\ comparison_message' = comparison_message
      /\ comparisons' = comparisons
  OBVIOUS
<1>2. SubSeq(history', 1, n) = SubSeq(history, 1, n)
  BY <1>1
<1>3. [i \in DOMAIN comparisons' |-> comparisons'[i].online]
         = [i \in DOMAIN comparisons |-> comparisons[i].online]
  BY <1>1
<1>4. QED
  <2> DEFINE done == SubSeq(history, 1, n)
  <2>1. /\ enable_logging => written = Lines(done) \o taken
        /\ enable_online => comparison_message = taken
        /\ enable_online /\ enable_logging => hosts = {done[i] : i \in 1 .. n}
        /\ enable_online /\ ~enable_logging =>
              [i \in DOMAIN comparisons |-> comparisons[i].online] = done
    BY DEF Stored
  <2>2. /\ enable_logging' => written' = Lines(done') \o taken
        /\ enable_online' => comparison_message' = taken
    BY <1>1, <1>2, <2>1
  <2>3. enable_online' /\ enable_logging' =>
           hosts' = {done'[i] : i \in 1 .. n}
    <3>1. done' = done
      BY <1>2
    <3> HIDE DEF done
    <3> SUFFICES ASSUME enable_online, enable_logging
                 PROVE  hosts' = {done'[i] : i \in 1 .. n}
      BY <1>1
    <3>2. hosts = {done[i] : i \in 1 .. n}
      BY <2>1
    <3>3. \A x : x \in hosts' <=> \E i \in 1 .. n : x = done'[i]
      BY <1>1, <3>1, <3>2
    <3>4. QED
      BY <3>3
  <2>4. enable_online' /\ ~enable_logging' =>
           [i \in DOMAIN comparisons' |-> comparisons'[i].online] = done'
    BY <1>1, <1>2, <1>3, <2>1
  <2>5. QED
    BY <2>2, <2>3, <2>4 DEF Stored

LEMMA InStepPrint ==
    ASSUME TypeOK, TypeOK', InStep, NEW r \in Request,
           print_request(r) \/ print_response(r) \/ print_cancelled(r)
    PROVE  InStep'
<1> SUFFICES ASSUME last' = "started", aborted' = "no", mixed' = FALSE,
                    enable_logging' \/ enable_online'
             PROVE  Receiving'
  BY DEF InStep, TypeOK
<1>1. /\ UNCHANGED <<modeVars, server, traceVars, parserVars, outputVars, last,
                     aborted, comparisons>>
      /\ printing = <<>>
      /\ mixed = FALSE
  BY DEF print_request, print_response, print_cancelled, Running, TypeOK
<1>2. Receiving
  BY <1>1 DEF InStep, modeVars
<1>3. UNCHANGED <<enable_online, enable_logging, written, comparison_message,
                  hosts, comparisons, received_message_state>>
  BY <1>1 DEF modeVars, parserVars, outputVars
<1>4. \/ NoPair
      \/ \E q \in Request : InRequest(q, 3)
  BY <1>1, <1>2, AtRest
<1>5. CASE print_request(r)
  <2>1. /\ flight = {} /\ begun = {}
        /\ flight' = {r} /\ begun' = {r}
        /\ history' = history
        /\ printing' = RequestBlock(r)
    BY <1>1, <1>5 DEF print_request, TypeOK
  <2>2. NoPair
    BY <1>4, <2>1 DEF InRequest
  <2>3. InRequest(r, 0)'
    <3>1. printing' = SubSeq(RequestBlock(r), 0 + 1, 3)
      BY <2>1, PairEnds
    <3>2. Stored(Len(history), SubSeq(Pair(r), 1, 0))'
      <4>1. PICK n : n = Len(history)
        OBVIOUS
      <4>2. Stored(n, <<>>)'
        BY <1>3, <2>1, <2>2, <4>1, StoredSame DEF NoPair
      <4>3. n = Len(history')
        BY <2>1, <4>1
      <4>4. QED
        BY <4>2, <4>3, PairEnds
    <3>3. AfterLines(0)'
      BY <1>3, <2>2 DEF NoPair, AfterLines, BetweenPairs
    <3>4. QED
      BY <2>1, <3>1, <3>2, <3>3 DEF InRequest
  <2>4. 0 \in 0 .. 3
    OBVIOUS
  <2>5. QED
    BY <2>3, <2>4 DEF Receiving
<1>6. ASSUME NoPair, r \notin begun, ~print_request(r)
      PROVE  Receiving'
  <2>1. /\ begun' = {}
        /\ history' = history
        /\ printing' = ResponseBlock(r)
    BY <1>6 DEF print_response, print_cancelled, NoPair
  <2>2. Stored(Len(history), <<>>)'
    <3>1. PICK n : n = Len(history)
      OBVIOUS
    <3>2. Stored(n, <<>>)'
      BY <1>3, <1>6, <2>1, <3>1, StoredSame DEF NoPair
    <3>3. n = Len(history')
      BY <2>1, <3>1
    <3>4. QED
      BY <3>2, <3>3
  <2>3. NoPair'
    BY <1>3, <1>6, <2>1, <2>2 DEF NoPair, BetweenPairs
  <2>4. QED
    BY <2>3 DEF Receiving
<1>7. CASE print_cancelled(r)
  <2>1. begun = {} /\ flight = {}
    BY <1>1, <1>7 DEF print_cancelled, TypeOK
  <2>2. NoPair
    BY <1>4, <2>1 DEF InRequest
  <2>3. CASE print_request(r)
    BY <1>5, <2>3
  <2>4. QED
    BY <1>6, <2>1, <2>2, <2>3
<1>8. CASE print_response(r)
  <2>1. CASE NoPair
    BY <1>5, <1>6, <2>1 DEF NoPair
  <2>2. ASSUME NEW q \in Request, InRequest(q, 3)
        PROVE  Receiving'
    <3>1. q = r
      BY <1>8, <2>2 DEF print_response, InRequest
    <3>2. /\ begun' = {}
          /\ history' = Append(history, r)
          /\ printing' = ResponseBlock(r)
      BY <1>8, <2>2, <3>1 DEF print_response, InRequest
    <3>3. /\ history' # <<>>
          /\ Len(history') - 1 = Len(history)
          /\ history'[Len(history')] = r
          /\ SubSeq(history', 1, Len(history)) = history
          /\ SubSeq(history, 1, Len(history)) = history
      <4>1. /\ history \in Seq(Request) /\ history' \in Seq(Request)
            /\ Len(history') = Len(history) + 1 /\ Len(history) \in Nat
            /\ history'[Len(history) + 1] = r
            /\ \A i \in 1 .. Len(history) : history'[i] = history[i]
        BY <3>2, Appended DEF TypeOK
      <4>2. /\ SubSeq(history', 1, Len(history)) \in Seq(Request)
            /\ Len(SubSeq(history', 1, Len(history))) = Len(history)
            /\ \A i \in 1 .. Len(history) :
                  SubSeq(history', 1, Len(history))[i] = history'[i]
        BY <4>1
      <4>3. SubSeq(history', 1, Len(history)) = history
        BY <4>1, <4>2, SeqEqual
      <4>4. SubSeq(history, 1, Len(history)) = history
        BY <4>1, NoneOrAll
      <4>5. history' # <<>>
        BY <4>1, EmptySeq
      <4>6. QED
        BY <4>1, <4>3, <4>4, <4>5
    <3>4. Stored(Len(history) - 1, SubSeq(Pair(r), 1, 3))'
      <4>1. Stored(Len(history), SubSeq(Pair(r), 1, 3))
        BY <2>2, <3>1 DEF InRequest
      <4>2. UNCHANGED <<enable_logging, enable_online, written,
                        comparison_message, hosts, comparisons>>
        BY <1>1 DEF modeVars, parserVars, outputVars
      <4>3. QED
        BY <3>3, <4>1, <4>2 DEF Stored
    <3>5. InResponse(r, 3)'
      <4>1. AfterLines(3)'
        BY <1>3, <2>2 DEF InRequest, AfterLines
      <4>2. printing' = SubSeq(Pair(r), 3 + 1, 5)
        BY <3>2, PairEnds
      <4>3. QED
        BY <3>2, <3>3, <3>4, <4>1, <4>2 DEF InResponse
    <3>6. 3 \in 3 .. 4
      OBVIOUS
    <3>7. QED
      BY <3>5, <3>6 DEF Receiving
  <2>3. QED
    BY <1>4, <2>1, <2>2
<1>9. QED
  BY <1>5, <1>7, <1>8

LEMMA InStepStart ==
    ASSUME Usage \subseteq {"overlap"}, TypeOK, TypeOK', Ready, NEW f \in File,
           uhm_server_start_trace_full(f)
    PROVE  InStep'
<1> SUFFICES ASSUME last' = "started", enable_logging' \/ enable_online'
             PROVE  Receiving'
  BY DEF InStep
<1>1. /\ begun' = {} /\ history' = <<>> /\ comparisons' = <<>>
      /\ printing' = <<>>
      /\ UNCHANGED <<enable_online, enable_logging>>
      /\ output_stream = None /\ last # "failed"
  BY
  DEF uhm_server_start_trace_full, new_history, Running, logVars, modeVars
<1>2. start_recording(f) \/ start_with_trace(f)
  BY
  DEF uhm_server_start_trace_full, start_without_output, start_offline_fails,
      start_comparing_fails
<1>3. /\ received_message_state' = "UNKNOWN"
      /\ enable_online => comparison_message' = <<>>
  <2>1. CASE last = "started" /\ ~enable_online
    BY <1>1, <2>1 DEF Ready, StartedIsReady
  <2>2. CASE last \in {"none", "ended"}
    BY <1>2, <2>2
    DEF Ready, Tidy, start_recording, start_with_trace, load_trace,
        reset_parser
  <2>3. CASE enable_online
    BY <1>2, <2>3
    DEF start_recording, start_with_trace, load_trace, reset_parser
  <2>4. QED
    BY <1>1, <2>1, <2>2, <2>3 DEF TypeOK
<1>4. enable_logging => written' = <<>> /\ hosts' = {}
  BY <1>2 DEF start_recording, start_with_trace, open_output_streams
<1>5. AllStored'
  <2>1. Lines(<<>>) = <<>>
    <3>1. Lines(<<>>) \in Seq(Line) /\ Len(Lines(<<>>)) = 0
      <4>1. <<>> \in Seq(Request) /\ Len(<<>>) = 0
        BY EmptySeq
      <4>2. Lines(<<>>) \in Seq(Line) /\ Len(Lines(<<>>)) = 5 * Len(<<>>)
        BY <4>1, LinesType
      <4>3. QED
        BY <4>1, <4>2
    <3>2. QED
      BY <3>1, EmptySeq
  <2>2. [i \in DOMAIN <<>> |-> <<>>[i].online] = <<>>
    OBVIOUS
  <2>3. {<<>>[i] : i \in 1 .. Len(<<>>)} = {}
    OBVIOUS
  <2>4. QED
    BY <1>1, <1>3, <1>4, <2>1, <2>2, <2>3 DEF AllStored
<1>6. Stored(Len(history), <<>>)'
  <2>1. TypeOK' => (Stored(Len(history), <<>>)' <=> AllStored')
    BY StoredAll, PTL
  <2>2. QED
    BY <1>5, <2>1
<1>7. NoPair'
  BY <1>1, <1>3, <1>6 DEF NoPair, BetweenPairs
<1>8. QED
  BY <1>7 DEF Receiving

RecorderInv == TypeOK /\ Ready /\ InStep /\ RecordingDoesNotCrash

LEMMA RecorderInit == Init => RecorderInv
  BY TypeInit, ReadyInit DEF Init, InStep, RecordingDoesNotCrash, RecorderInv

LEMMA RecorderNext ==
    ASSUME Usage \subseteq {"overlap"}, RecorderInv, [Next]_vars
    PROVE  RecorderInv'
<1>1. TypeOK' /\ Ready'
  BY TypeNext, ReadyNext DEF RecorderInv
<1>2. TypeOK /\ Ready /\ InStep /\ RecordingDoesNotCrash
  BY DEF RecorderInv
<1>3. ASSUME NEW b \in BOOLEAN,
             \/ uhm_server_set_enable_online(b)
             \/ uhm_server_set_enable_logging(b)
      PROVE  InStep'
  BY <1>3
  DEF uhm_server_set_enable_online, uhm_server_set_enable_logging,
      MayChangeModes, InStep
<1>4. ASSUME uhm_server_end_trace PROVE InStep'
  <2>1. last' = "ended"
    BY <1>4 DEF uhm_server_end_trace
  <2>2. QED
    BY <2>1 DEF InStep
<1>5. ASSUME UNCHANGED vars PROVE InStep'
  <2>1. UNCHANGED <<enable_online, enable_logging, last, aborted, mixed, begun,
                    flight, history, printing, received_message_state, written,
                    comparison_message, hosts, comparisons>>
    BY <1>5
    DEF vars, modeVars, parserVars, outputVars, logVars, historyVars
  <2>2. ASSUME NEW n, NEW taken, Stored(n, taken) PROVE Stored(n, taken)'
    BY <2>1, <2>2, StoredSame
  <2>3. PICK n : n = Len(history)
    OBVIOUS
  <2>4. n = Len(history')
    BY <2>1, <2>3
  <2>5. NoPair => NoPair'
    <3>1. Stored(n, <<>>) => Stored(n, <<>>)'
      BY <2>2
    <3>2. QED
      BY <2>1, <2>3, <2>4, <3>1 DEF NoPair, BetweenPairs
  <2>6. ASSUME NEW r \in Request, NEW k \in 0 .. 3, InRequest(r, k)
        PROVE  InRequest(r, k)'
    <3>1. Stored(n, SubSeq(Pair(r), 1, k)) => Stored(n, SubSeq(Pair(r), 1, k))'
      BY <2>2
    <3>2. QED
      BY <2>1, <2>3, <2>4, <2>6, <3>1 DEF InRequest, AfterLines, BetweenPairs
  <2>7. ASSUME NEW r \in Request, NEW k \in 3 .. 4, InResponse(r, k)
        PROVE  InResponse(r, k)'
    <3>1. Stored(n - 1, SubSeq(Pair(r), 1, k))
             => Stored(n - 1, SubSeq(Pair(r), 1, k))'
      BY <2>2
    <3>2. QED
      BY <2>1, <2>3, <2>4, <2>7, <3>1 DEF InResponse, AfterLines, BetweenPairs
  <2>8. Receiving => Receiving'
    BY <2>5, <2>6, <2>7 DEF Receiving
  <2>9. QED
    BY <1>2, <2>1, <2>8 DEF InStep
<1>6. InStep'
  BY <1>1, <1>2, <1>3, <1>4, <1>5, InStepStart, InStepPrint, InStepChunk
  DEF Next, Application, Logger, Dead
<1>7. RecordingDoesNotCrash'
  <2>1. CASE uhm_server_received_message_chunk
    BY <1>2, <2>1, ChunkRecords
  <2>2. CASE Running /\ aborted' = aborted
    BY <2>2 DEF Running, RecordingDoesNotCrash
  <2>3. CASE UNCHANGED vars
    BY <1>2, <2>3
    DEF RecordingDoesNotCrash, vars, modeVars, historyVars
  <2>4. Next /\ ~uhm_server_received_message_chunk /\ ~UNCHANGED vars =>
           Running /\ aborted' = aborted
    BY
    DEF Next, Application, Logger, Dead, uhm_server_set_enable_online,
        uhm_server_set_enable_logging, uhm_server_start_trace_full,
        uhm_server_end_trace, print_request, print_response, print_cancelled
  <2>5. QED
    BY <2>1, <2>2, <2>3, <2>4
<1>8. QED
  BY <1>1, <1>6, <1>7 DEF RecorderInv

LEMMA RecorderAlways ==
    Usage \subseteq {"overlap"} => (Spec => []RecorderInv)
<1> SUFFICES ASSUME Usage \subseteq {"overlap"} PROVE Spec => []RecorderInv
  OBVIOUS
<1>1. RecorderInv /\ [Next]_vars => RecorderInv'
  BY RecorderNext
<1>2. QED
  BY <1>1, RecorderInit, PTL DEF Spec

\* In an application that changes the modes between sessions only and ends
\* those that failed to start, as long as messages come one at a time and
\* every line is written, the recorder agrees with the log after every line on
\* which pair it is in and how far, and has stored exactly that much of it.
THEOREM RecorderInStep ==
    Usage \subseteq {"overlap"} => (Spec => []InStep)
<1>1. RecorderInv => InStep
  BY DEF RecorderInv
<1>2. QED
  BY <1>1, RecorderAlways, PTL

\* In such an application no message crashes a process that records, even when
\* messages overlap or writing fails, but one whose host was lost to a failed
\* write: the assertion on comparison_message and the error that is missing
\* when the hosts file is not open are unreachable, and without a failed write
\* or overlapping messages so is the NULL host.
THEOREM RecordingNeverCrashes ==
    Usage \subseteq {"overlap"} => (Spec => []RecordingDoesNotCrash)
<1>1. RecorderInv => RecordingDoesNotCrash
  BY DEF RecorderInv
<1>2. QED
  BY <1>1, RecorderAlways, PTL

\* What a session that started and is between blocks has stored.
LEMMA StoredAtRest ==
    ASSUME RecorderInv, Started, mixed = FALSE, enable_logging \/ enable_online
    PROVE  /\ enable_logging =>
                 \/ written = Lines(history)
                 \/ \E r \in begun : written = Lines(history) \o RequestBlock(r)
           /\ enable_online /\ enable_logging =>
                 hosts = {history[i] : i \in 1 .. Len(history)}
           /\ enable_online /\ ~enable_logging =>
                 [i \in DOMAIN comparisons |-> comparisons[i].online] = history
<1>1. Receiving
  BY DEF RecorderInv, InStep, Started
<1>2. TypeOK
  BY DEF RecorderInv
<1>3. CASE NoPair
  BY <1>2, <1>3, StoredAll DEF NoPair, AllStored
<1>4. ASSUME NEW q \in Request, InRequest(q, 3)
      PROVE  /\ enable_logging =>
                   \E r \in begun : written = Lines(history) \o RequestBlock(r)
             /\ enable_online /\ enable_logging =>
                   hosts = {history[i] : i \in 1 .. Len(history)}
             /\ enable_online /\ ~enable_logging =>
                   [i \in DOMAIN comparisons |-> comparisons[i].online] = history
  <2>1. q \in begun /\ Stored(Len(history), RequestBlock(q))
    BY <1>4, PairEnds DEF InRequest
  <2>2. SubSeq(history, 1, Len(history)) = history
    BY <1>2, NoneOrAll DEF TypeOK
  <2>3. QED
    BY <2>1, <2>2 DEF Stored
<1>5. QED
  BY <1>1, <1>3, <1>4, AtRest DEF Started

\* Whatever is cancelled, left over from before the session or overlapping
\* later, a session that records holds, until messages mix or a write fails, the
\* whole pairs of its messages in the order of their responses and at most the
\* request of the one in flight: what uhm_server_load_trace() reads back.
THEOREM RecordingsPlayBack ==
    Usage \subseteq {"overlap"} => (Spec => []RecordingPlaysBack)
<1>1. RecorderInv => RecordingPlaysBack
  <2> SUFFICES ASSUME RecorderInv, Started, enable_logging, ~mixed
               PROVE  written \in {Lines(history)} \cup
                         {Lines(history) \o RequestBlock(r) : r \in begun}
    BY DEF RecordingPlaysBack
  <2>1. mixed = FALSE
    BY DEF RecorderInv, TypeOK
  <2>2. \/ written = Lines(history)
        \/ \E r \in begun : written = Lines(history) \o RequestBlock(r)
    BY <2>1, StoredAtRest
  <2>3. QED
    BY <2>2
<1>2. QED
  BY <1>1, RecorderAlways, PTL

\* The hosts of exactly those messages are in the hosts file.
THEOREM HostsFileIsComplete ==
    Usage \subseteq {"overlap"} => (Spec => []HostsAreRecorded)
<1>1. RecorderInv => HostsAreRecorded
  <2> SUFFICES ASSUME RecorderInv, Started, enable_logging, enable_online, ~mixed
               PROVE  hosts = {history[i] : i \in DOMAIN history}
    BY DEF HostsAreRecorded
  <2>1. mixed = FALSE
    BY DEF RecorderInv, TypeOK
  <2>2. hosts = {history[i] : i \in 1 .. Len(history)}
    BY <2>1, StoredAtRest
  <2>3. DOMAIN history = 1 .. Len(history)
    BY DEF RecorderInv, TypeOK
  <2>4. QED
    BY <2>2, <2>3
<1>2. QED
  BY <1>1, RecorderAlways, PTL

\* A session that compares has compared each of its messages once, whole, in
\* the order of the responses.
THEOREM MessagesComparedWhole ==
    Usage \subseteq {"overlap"} => (Spec => []WholeMessagesCompared)
<1>1. RecorderInv => WholeMessagesCompared
  <2> SUFFICES ASSUME RecorderInv, Started, ~enable_logging, enable_online,
                      ~mixed
               PROVE  [i \in DOMAIN comparisons |-> comparisons[i].online]
                         = history
    BY DEF WholeMessagesCompared
  <2>1. mixed = FALSE
    BY DEF RecorderInv, TypeOK
  <2>2. QED
    BY <2>1, StoredAtRest
<1>2. QED
  BY <1>1, RecorderAlways, PTL
===============================================================================
