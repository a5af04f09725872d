------------------------------ MODULE UhmReader -------------------------------
(***************************************************************************)
(* A trace file line by line: load_message_half() collects the lines of a  *)
(* request and of its response, trace_to_soup_message() makes a message of *)
(* them, and load_file_iteration() does so until it has one to play.       *)
(*                                                                         *)
(* UhmServer reads the same file a pair at a time, with the pairs parsed   *)
(* already.  PassesReadPairs shows that it may.                            *)
(*                                                                         *)
(* A line is its first two characters and a text.  Of a text only its      *)
(* class is known: the parser skips to the next colon, space or newline,   *)
(* wherever that is, so the class tells which of them it has.              *)
(***************************************************************************)
EXTENDS Integers, Sequences, FiniteSetsExt

CONSTANTS
    Text,
    Class,      \* of each text: see Classes
    Blank,      \* the empty text
    Recording,  \* the sequences of messages SoupLogger may have printed
    Damaged,    \* other trace files, as sequences of pairs of blocks; one cut
                \* off in a block reads as with End (EndOfFileEndsBlock)
    Faults,     \* {"read"} when reading a line may fail
    None        \* the NULL pointer

\* A request line; a status line, with or without a status; a text with a
\* colon and a space after it; one with a colon and no space; one with none.
\* No text is a request line that ends with its URI: the parser would take the
\* start of the next line into the URI, and accept it when that line is blank.
Classes == {"request", "status", "no_status", "header", "url", "words"}

Mark == {">", "<", " "}
Line == [mark : Mark, text : Text]
End == [mark |-> " ", text |-> Blank]

\* What a message has in each direction.  A header is usually one text; it
\* ends with the next text that has a colon, so the texts tell the headers.
Half == [start : Text, headers : Seq(Text), body : Seq(Text)]
Message == [request : Half, response : Half]

\* SoupLogger prints a space after the colon of a header.
Printable ==
    {m \in Message :
        /\ Class[m.request.start] = "request"
        /\ Class[m.response.start] \in {"status", "no_status"}
        /\ \A h \in {m.request, m.response} :
              \A k \in DOMAIN h.headers : Class[h.headers[k]] = "header"}

\* The two blocks of a pair, without the lines that end them.
Pair == [request : Seq(Line), response : Seq(Line)]

\* A line of a file: which pair, and which line of that.
Place == [pair : Nat \ {0}, line : Nat \ {0}]

ASSUME ReaderAssumption ==
    /\ Class \in [Text -> Classes]
    /\ Blank \in Text /\ Class[Blank] = "words"
    /\ Recording \subseteq Seq(Printable)
    /\ Damaged \subseteq Seq(Pair)
    /\ \A f \in Damaged : \A i \in DOMAIN f :
          \A l \in {"request", "response"} :
             \A k \in DOMAIN f[i][l] : f[i][l][k] # End
    /\ Faults \subseteq {"read"}
    /\ None \notin Recording \cup Message \cup Place

VARIABLES
    recorded,        \* the messages of the file, or None if it is damaged
    file,            \* its pairs
    unread,          \* the next line of the stream
    begun,           \* the first line of this pass, or of the next one
    current_message, \* the lines read so far
    half,            \* which half is read: 1, 2, 3 after both; 0 in no call
    skipped,         \* output_message is one without a status
    result,          \* "none", or what the last call returned
    loaded,          \* the messages returned so far
    failure,         \* the line at which a read failed, or None
    aborted          \* "no", or where the process crashed

streamVars == <<unread, begun, current_message, half>>
vars == <<recorded, file, streamVars, skipped, result, loaded, failure, aborted>>
-------------------------------------------------------------------------------
(* Files.                                                                  *)

Marked(d, texts) == [i \in DOMAIN texts |-> [mark |-> d, text |-> texts[i]]]

TextsOf(h) == <<h.start>> \o h.headers \o
                  IF h.body = <<>> THEN <<>> ELSE <<Blank>> \o h.body

soup_logger_print(d, h) == Marked(d, TextsOf(h))

Printed(ms) == [i \in DOMAIN ms |->
                   [request |-> soup_logger_print(">", ms[i].request),
                    response |-> soup_logger_print("<", ms[i].response)]]

PairLines(p) == p.request \o <<End>> \o p.response \o <<End>>
Lines(i) == IF i \in DOMAIN file THEN PairLines(file[i]) ELSE <<>>
-------------------------------------------------------------------------------
(* Parsing.                                                                *)

Colon(text) == Class[text] \in {"header", "url"}

Failed == [ok |-> FALSE, next |-> 0, headers |-> <<>>, body |-> <<>>]

\* Where the lines of direction d that begin at i end.
Stop(lines, d, i) ==
    Min({k \in i .. Len(lines) + 1 : k > Len(lines) \/ lines[k].mark # d})

\* The end of a block: the end of the text, or a line that says so.
Finished(lines, k) ==
    IF k > Len(lines) THEN [Failed EXCEPT !.ok = TRUE, !.next = k]
    ELSE IF lines[k] = End THEN [Failed EXCEPT !.ok = TRUE, !.next = k + 1]
    ELSE Failed

Texts(lines, i, k) == [j \in 1 .. k - i |-> lines[i + j - 1].text]

body_to_blank(lines, d, i) ==
    LET stop == Min({Stop(lines, d, i)} \cup
                    {k \in i .. Len(lines) : lines[k].text = Blank})
    IN  [Finished(lines, Stop(lines, d, i)) EXCEPT
            !.body = Texts(lines, i, stop)]
body(lines, d, i) ==
    LET stop == Stop(lines, d, i)
    IN  [Finished(lines, stop) EXCEPT !.body = Texts(lines, i, stop)]

\* A header's name goes up to the next colon, in whatever line that is; so
\* headers start behind a colon, and the first start of something else ends
\* them.
trace_to_soup_message_headers_and_body(lines, d, start) ==
    LET starts == {start} \cup
                  {j + 1 : j \in {k \in start .. Len(lines) : Colon(lines[k].text)}}
        Ends(k) == k > Len(lines) \/ lines[k].mark # d \/ lines[k].text = Blank
        i == Min({k \in starts : Ends(k)})
        parsed == IF i <= Len(lines) /\ lines[i].mark = d THEN body(lines, d, i + 1)
                  ELSE Finished(lines, i)
    IN  IF (\A k \in starts : ~Ends(k)) \/
           \E k \in start .. i - 1 : Class[lines[k].text] = "url"
        THEN Failed
        ELSE [parsed EXCEPT !.headers = Texts(lines, start, i)]

StartsWith(lines, i, d, classes) ==
    i <= Len(lines) /\ lines[i].mark = d /\ Class[lines[i].text] \in classes

HalfOf(lines, i, parsed) ==
    [start |-> lines[i].text, headers |-> parsed.headers, body |-> parsed.body]

trace_to_soup_message(lines) ==
    LET sent == trace_to_soup_message_headers_and_body(lines, ">", 2)
        received == trace_to_soup_message_headers_and_body(lines, "<", sent.next + 1)
    IN  IF /\ StartsWith(lines, 1, ">", {"request"})
           /\ sent.ok
           /\ StartsWith(lines, sent.next, "<", {"status", "no_status"})
           /\ received.ok
        THEN [request |-> HalfOf(lines, 1, sent),
              response |-> HalfOf(lines, sent.next, received)]
        ELSE None

NoStatus(m) == Class[m.response.start] = "no_status"
-------------------------------------------------------------------------------
(* Reading.                                                                *)

\* Lines that there are, and the end of the file.
Places(f) ==
    {p \in Place : \/ p.pair \in DOMAIN f /\ p.line <= Len(PairLines(f[p.pair]))
                   \/ p.pair = Len(f) + 1 /\ p.line = 1}

EOF(place) == place.pair > Len(file)
Following(place) ==
    IF place.line < Len(Lines(place.pair))
    THEN [place EXCEPT !.line = @ + 1]
    ELSE [pair |-> place.pair + 1, line |-> 1]

TypeOK ==
    /\ recorded \in Recording \cup {None}
    /\ file \in Seq(Pair)
    /\ {unread, begun} \subseteq Places(file)
    /\ current_message \in Seq(Line)
    /\ half \in 0 .. 3
    /\ skipped \in BOOLEAN
    /\ result \in {"none", "message", "null", "error"}
    /\ loaded \in Seq(Message)
    /\ failure = None \/ failure \in Places(file)
    /\ aborted \in {"no", "load_file_iteration"}

Init ==
    /\ \/ /\ recorded \in Recording
          /\ file = Printed(recorded)
       \/ /\ recorded = None
          /\ file \in Damaged
    /\ unread = [pair |-> 1, line |-> 1]
    /\ begun = unread
    /\ current_message = <<>>
    /\ half = 0
    /\ skipped = FALSE
    /\ result = "none"
    /\ loaded = <<>>
    /\ failure = None
    /\ aborted = "no"

new_pass ==
    /\ begun' = unread
    /\ current_message' = <<>>
    /\ half' = 1

return ==
    /\ begun' = unread
    /\ half' = 0 /\ skipped' = FALSE /\ current_message' = <<>>

\* Until the file has no more.
load_file_iteration ==
    /\ aborted = "no"
    /\ half = 0
    /\ result # "null" \/ ~EOF(unread)
    /\ new_pass
    /\ skipped' = FALSE
    /\ result' = "none"
    /\ UNCHANGED <<recorded, file, unread, loaded, failure, aborted>>

\* What follows when there are no more lines: a response is tried next.
after_both == half + 2
after_half == half + 1

any_terminator(line) == line.mark = " "
reached_eom(line) == line = End

\* A line is read, or there is none.
load_message_half ==
    /\ aborted = "no"
    /\ half \in {1, 2}
    /\ IF EOF(unread)
       THEN /\ half' = after_half
            /\ UNCHANGED <<unread, current_message>>
       ELSE LET line == Lines(unread.pair)[unread.line]
            IN  /\ unread' = Following(unread)
                /\ current_message' = Append(current_message, line)
                /\ half' = IF reached_eom(line) THEN half + 1 ELSE half
    /\ UNCHANGED <<recorded, file, begun, skipped, result, loaded, failure, aborted>>

\* One error for each stream.
MayFail == "read" \in Faults /\ failure = None /\ aborted = "no" /\ half \in {1, 2}

load_message_half_fails ==
    /\ MayFail
    /\ ~skipped
    /\ failure' = unread
    /\ return
    /\ result' = "error"
    /\ UNCHANGED <<recorded, file, unread, loaded, aborted>>

load_file_iteration_asserts ==
    /\ MayFail
    /\ skipped
    /\ aborted' = "load_file_iteration"
    /\ UNCHANGED <<recorded, file, streamVars, skipped, result, loaded, failure>>

message == trace_to_soup_message(current_message)

\* Once more, when the message has no status.
never_again == FALSE
again == message # None /\ NoStatus(message)

\* The end of a pass.
load_file_iteration_done ==
    /\ aborted = "no"
    /\ half = 3
    /\ \/ /\ current_message # <<>>
          /\ again
          /\ new_pass
          /\ skipped' = TRUE
          /\ UNCHANGED <<result, loaded>>
       \/ /\ current_message # <<>>
          /\ message # None
          /\ ~again
          /\ return
          /\ result' = "message"
          /\ loaded' = Append(loaded, message)
       \/ /\ current_message = <<>> \/ message = None
          /\ return
          /\ result' = "null"
          /\ UNCHANGED loaded
    /\ UNCHANGED <<recorded, file, unread, failure, aborted>>

\* The last call has returned, or the process is gone.
Idle ==
    /\ aborted # "no" \/ (half = 0 /\ result = "null" /\ EOF(unread))
    /\ UNCHANGED vars

Next ==
    \/ load_file_iteration
    \/ load_message_half
    \/ load_message_half_fails
    \/ load_file_iteration_asserts
    \/ load_file_iteration_done
    \/ Idle

Spec == Init /\ [][Next]_vars
-------------------------------------------------------------------------------
(* Where a pass is.                                                        *)

InResponse(place) ==
    ~EOF(place) /\ place.line > Len(file[place.pair].request) + 1

\* A failed read leaves the stream between two pairs, or within a request
\* until the next pass, or for ever behind it.
framing ==
    IF failure = None THEN "aligned"
    ELSE IF InResponse(failure) THEN "lost"
    ELSE IF begun = failure /\ failure.line # 1 THEN "half"
    ELSE "mended"

\* How many blocks end before a line, and the lines from one to another.
Blocks(place) == 2 * (place.pair - 1) + (IF InResponse(place) THEN 1 ELSE 0)
Between(b, u) ==
    IF u.pair = b.pair THEN SubSeq(Lines(b.pair), b.line, u.line - 1)
    ELSE SubSeq(Lines(b.pair), b.line, Len(Lines(b.pair))) \o
             SubSeq(Lines(u.pair), 1, u.line - 1)

\* current_message is what was read since the pass began, and half says how
\* many blocks ended since then, or were missing at the end of the file.
\* Passes begin with a pair, until a read fails; and again behind the request
\* it failed in, but never again when it failed in a response.
PassInPlace ==
    /\ half = 0 => begun = unread /\ ~skipped
    /\ half # 0 => result = "none"
    /\ begun.pair = unread.pair => begun.line <= unread.line
    /\ current_message = Between(begun, unread)
    /\ half # 0 => LET ended == Blocks(unread) - Blocks(begun)
                   IN  half = 1 + ended \/ (EOF(unread) /\ half > 1 + ended)
    /\ half = 3 => unread.line = 1 \/ Lines(unread.pair)[unread.line - 1] = End
    /\ framing \in {"aligned", "mended"} => begun.line = 1
    /\ framing = "lost" => InResponse(begun) \/ EOF(begun)

\* The reader is where its variables say: what the code relies on when it
\* takes the lines of two halves, whatever was read before, for a message.
InPlace == TypeOK /\ PassInPlace
-------------------------------------------------------------------------------
(* Properties.                                                             *)

\* The messages ms are those of rs that have a status, in order.
Plays(ms, rs) ==
    \E place \in [DOMAIN ms -> DOMAIN rs] :
        /\ \A n \in DOMAIN ms : ms[n] = rs[place[n]]
        /\ \A n, k \in DOMAIN ms : n < k => place[n] < place[k]
        /\ \A i \in DOMAIN rs : ~NoStatus(rs[i]) <=> \E n \in DOMAIN ms : place[n] = i

\* What was recorded is what is played: the messages a file was printed from
\* are returned as they were, header by header and line by line of the body,
\* also when a body has an empty line or one that looks like a request or a
\* header; in order, each as soon as it is read, but for those that have no
\* status.  Nothing is returned only when all have been.
RecordedMessagesLoad ==
    recorded # None /\ failure = None =>
        /\ Plays(loaded, SubSeq(recorded, 1, begun.pair - 1))
        /\ result = "null" => begun.pair > Len(recorded)

\* No line of a pair but its first could be taken for the first.
Plain(f) ==
    \A i \in DOMAIN f : \A k \in 2 .. Len(PairLines(f[i])) :
        ~StartsWith(PairLines(f[i]), k, ">", {"request"})

\* The lines of block b are those of h; a blank line after the headers may
\* come with nothing after it.
IsWhole(b, h) ==
    LET texts == Texts(b, 1, Len(b) + 1)
    IN  \/ texts = TextsOf(h)
        \/ h.body = <<>> /\ texts = TextsOf(h) \o <<Blank>>

\* In whatever way a pair is damaged, and whatever line a read fails at, a
\* message is never put together from two pairs, nor from a part of one:
\* each that is returned is a pair of the file with all its lines.
LoadedIsWhole ==
    failure = None \/ Plain(file) =>
        \A n \in DOMAIN loaded : \E i \in DOMAIN file :
            /\ IsWhole(file[i].request, loaded[n].request)
            /\ IsWhole(file[i].response, loaded[n].response)
-------------------------------------------------------------------------------
(* The same stream in UhmServer, whose requests are the messages.          *)

Files == {Printed(ms) : ms \in Recording} \cup Damaged

Parsed(p) == trace_to_soup_message(PairLines(p))
Contents(f) ==
    [i \in DOMAIN f |-> IF Parsed(f[i]) = None THEN "malformed"
                        ELSE IF NoStatus(Parsed(f[i])) THEN "status_none"
                        ELSE "request"]

Stream == "stream"
streams == [s \in {Stream} |-> [file |-> file,
                                pos |-> begun.pair,
                                framing |-> framing,
                                skipped |-> skipped]]

Pairs == INSTANCE UhmServer WITH
    File <- Files, Request <- {"request"}, Trace <- [f \in Files |-> Contents(f)],
    StatusNone <- "status_none", Malformed <- "malformed",
    Host <- {}, HostsOf <- [f \in Files |-> {}], Match <- {}, OwnHandled <- {},
    Client <- {}, Stream <- {Stream}, DomainNames <- {}, Usage <- {},
    MaxCounter <- 0,
    server <- TRUE, server_thread <- "running", resolver <- {},
    expected_domain_names <- {}, enable_online <- FALSE, trace_file <- file,
    input_stream <- Stream, next_message <- None, message_counter <- 0,
    default_resolver <- "server", quit_source <- FALSE, app <- "loading",
    load_error <- FALSE, pc <- "idle", current <- None, task_stream <- None,
    task_result <- [kind |-> "none", pos |-> 0], expected <- None,
    state <- <<>>, request <- <<>>, reply <- <<>>

\* What a pass gives, as UhmServer has it.
Gives(r) ==
    CASE r.kind = "none"    -> result' = "none" /\ skipped'
      [] r.kind = "message" -> /\ result' = "message"
                               /\ loaded' = Append(loaded, Parsed(file[r.pos]))
      [] OTHER              -> result' = r.kind /\ loaded' = loaded

PassEnds == half = 3 \/ failure' # failure \/ aborted' # aborted

\* load_file_iteration() of UhmServer is a faithful account of this one: each
\* pass over the lines, with a read that fails at any of them, is one over
\* the pairs, with the same result and the same place and framing after it.
PassesReadPairs ==
    [][failure = None \/ Plain(file) =>
          IF PassEnds
          THEN \/ Pairs!load_file_iteration_asserts(Stream)
               \/ \E r \in Pairs!Results(Stream) :
                     Pairs!load_file_iteration(Stream, r) /\ Gives(r)
          ELSE streams' = streams]_vars
===============================================================================
