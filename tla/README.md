# A TLA+ model of libuhttpmock

libuhttpmock mocks HTTPS services for tests.  A test records the traffic of its
client with a real server in a *trace file*, and later plays it back: an
HTTPS server on a loopback address answers the client's requests from the trace,
and a resolver directs the real host names to it.  This directory holds TLA+
modules translated from `src/libuhttpmock/`, the TLC configurations that check
them, and proofs for TLAPS.

Line numbers are those of `src/libuhttpmock/uhm-server.c` unless another file is
named.  `PROJECT.json` gives, for every definition, the lines it stands for.

## 1. The system

| component | state | operations |
|---|---|---|
| **mock server lifecycle** | `server`, `server_context`, `server_main_loop`, `server_thread`, `address`, `port`, `resolver`, the default resolver of the process | `uhm_server_run` (1399-1459), `uhm_server_stop` (1474-1512), `server_thread_cb`, `server_thread_quit_cb` |
| **request handling** | `next_message`, `message_counter`, `trace_file`, the answer under construction | `server_handler_cb` (641), `real_handle_message` (663), `server_process_message` (554), the signals `handle-message` and `compare-messages`, `server_response_append_headers` (539) |
| **synchronous trace loading** | `trace_file`, `input_stream`, `next_message`, `hosts_trace_file` | `uhm_server_load_trace` (1187), `uhm_server_unload_trace` (1154), `load_file_stream`, `load_file_iteration` (1069), `load_message_half` (1034) |
| **asynchronous trace loading** | the same, and two `GTask`s | `uhm_server_load_trace_async` (1306), `load_trace_async_cb` (1260), `uhm_server_load_trace_finish` (1343) |
| **trace parser** | the place in the stream, the lines collected | `load_message_half` (1034), `load_file_iteration` (1069), `trace_to_soup_message` (836), `trace_to_soup_message_headers_and_body` (745) |
| **sessions and modes** | `enable_online`, `enable_logging`, `output_stream`, `hosts_output_stream` | `uhm_server_start_trace_full` (1610), `uhm_server_start_trace`, `uhm_server_end_trace` (1709), two setters |
| **recorder and online comparison** | `received_message_state`, `comparison_message`, both output streams | `uhm_server_received_message_chunk` (1823) and its wrappers |
| **message comparison and filters** | the handlers connected to `compare-messages` | `real_compare_messages` (485), `compare_incoming_message` (522), `compare_messages_ignore_parameter_values_cb` (2257), `uhm_server_filter_ignore_parameter_values` (2355), `uhm_server_compare_messages_remove_filter` (2383); the answer: 593-634 |
| **expected domain names** | `expected_domain_names` | `uhm_server_set_expected_domain_names` (2232), `apply_expected_domain_names` (2190) |
| **resolver** (`uhm-resolver.c`) | `fake_A`, `fake_SRV` | `uhm_resolver_add_A`, `_add_SRV`, `_reset`, lookups by name and service, synchronous and asynchronous |
| **properties and TLS** | | getters, setters, TLS certificates |
| **UhmMessage** (`uhm-message.c`) | one message | accessors |

**How they interact.**  Three kinds of threads share the fields of
`UhmServerPrivate` without a lock:

* the *application's thread* calls the API;
* the *server thread* runs `server_main_loop` and handles one request at a
  time.  For a request it first emits `handle-message`; the default handler
  looks at `next_message` and, when it is NULL, runs
  `load_file_iteration_thread_cb` in
* a *worker thread* of `GTask` and waits for it; then `server_process_message`
  emits `compare-messages` and looks at `next_message` again.

The application reaches the server thread only by attaching an idle source to
its context (1485-1488) and joining the thread (1490).  Offline,
`uhm_server_start_trace_full` composes `uhm_server_run` and
`uhm_server_load_trace`; `uhm_server_end_trace` is `uhm_server_stop`, which
unloads.  Online, `SoupLogger` hands every line of the traffic to
`uhm_server_received_message_chunk`, on the thread of the `SoupSession`.

**What is hard**, and for each component what makes it correct:

* *Request handling*: the next pair is read, kept when a request does not match
  and dropped when one does, by steps of two threads around two signals, with the
  application unloading, stopping and reloading.  Correct is: pairs are used in
  the order of the trace, each by at most one request, and no check on
  `next_message` or the stream fails (1134, 563, 573).
* *Lifecycle*: a handler must not outlive what it works on, `uhm_server_stop`
  must return, and it must not drop requests that were read before it.
* *Loading*: an error must leave nothing behind; the stream must not stay between
  two halves of a pair.  An asynchronous load is four steps in three threads,
  each of which may fail or be cancelled, and other calls come in between.
* *Parser*: the end of a pair is found by its lines alone, while a header's name
  is looked for across lines, and a body may contain anything.  Correct is: what was
  recorded is what is loaded, and no message is made of parts of two.
* *Comparison*: filters come and go; a comparison is by sets of parameters
  of queries in which a name may come twice, and its two callers pass the
  recorded message on different sides.
* *Sessions*: a session that starts must be ready for its mode whatever
  happened before; one that fails must leave nothing open.
* *Recorder*: what is recorded must load as the messages of the session; a
  comparison must see each message whole and once.
* *Resolver*: names must be mapped while the server runs, with a lookup in any
  thread at any time.

`PROJECT.json` lists each hazard at its line, with the properties about it.

## 2. Modules

| module | what it is |
|---|---|
| `UhmTrace` | constants: trace files as sequences of pairs, hosts files, which requests match, what may fail |
| `TracePlayback` | abstract specification: what the client sees of a trace being played |
| `UhmServer` | lifecycle, requests, synchronous loading, expected names: the composed core |
| `UhmAsyncLoad` | `UhmServer` with an asynchronous load in flight |
| `UhmReader` | trace files line by line: reading, parsing; implements the reading of `UhmServer` |
| `UhmSession` | sessions, modes, the recorder and the online comparison |
| `UhmResolver` | the resolver's records and lookups, across runs of the server |
| `UhmCompare` | the comparison of two messages, the filters, the recorded answer |
| `UhmServerProofs`, `UhmServerPlayback` | theorems about `UhmServer`: safety; the refinement of `TracePlayback` and the offsets |
| `UhmAsyncLoadProofs` | theorems about `UhmAsyncLoad`, which extend those of `UhmServer` |
| `UhmReaderProofs`, `UhmSessionProofs`, `UhmResolverProofs`, `UhmCompareProofs` | theorems about these modules |
| `MCUhmServer`, `MCUhmAsyncLoad`, `MCUhmReader`, `MCUhmSession`, `MCUhmResolver`, `MCUhmCompare` | instances for TLC |

`UhmAsyncLoad` extends `UhmServer` and reuses its actions, and both implement
`TracePlayback`.  `UhmReader` refers to `UhmServer` by `INSTANCE`: every pass over the
lines of a pair is one step of `UhmServer!load_file_iteration`.  `UhmSession`,
`UhmResolver` and `UhmCompare` detail what `UhmServer` has as one step: where
`UhmServer` has a set of names, `UhmResolver` has records and walks over
them; where `UhmServer` has the relation `Match`, `UhmCompare` has queries and filters.

### UhmServer

*State.*  The fields of `UhmServerPrivate` under their names, with
`server` standing for the group that is set and cleared together (`server`,
`server_context`, `server_main_loop`, `address`, `port`, `resolver`).
`resolver` is the set of names it maps to the server's address.  A message is
named by its file and its place there, and by whether it was parsed with a base
URI (`build_base_uri`, 460-483).  `streams[s]` is the position of an open
`GDataInputStream`, in pairs, whether a failed read has left it between two
halves, and whether the call that reads it has passed over a pair.

*Steps.*  A step is what one thread does between two points where another may
look: a blocking read, waiting for a thread, the emission of a signal.  So one
function of the code may be several actions, split exactly there:

| code | actions |
|---|---|
| `uhm_server_stop` | `uhm_server_stop` up to `g_thread_join`, `uhm_server_stop_joined` after it, with the unloading |
| `uhm_server_load_trace` | `uhm_server_load_trace` opens; `uhm_server_load_trace_read` is one pass of the loop of `load_file_iteration` and, with the last one, the rest of the function |
| `server_handler_cb`, `real_handle_message` | `server_handler_cb` up to the read; `load_file_iteration_thread_cb` in the worker, a pass at a time; `real_handle_message` takes the result |
| `server_process_message` | up to the emission of `compare-messages`; `compare_incoming_message` is the rest, which looks at `next_message` a second time |
| assertions, the NULL URI of `uri_get_path_query` | an action of their own that sets `aborted` |

Around the code: `Send` is the code under test (each client has one request
outstanding), `Arrive` is `SoupServer` reading a request, `server_handler_cb_own`
a `handle-message` handler of the test that answers by itself.

*Usage.*  The documentation does not say which calls may come when.  With
`Usage = {}` requests that need a trace are made while one is loaded, traces are
loaded and unloaded between requests, and loaded with the server running or
online, as in `tests/server.c` and in `uhm_server_start_trace_full`.
Stopping at any time is always allowed.  `"early"`, `"overlap"` and
`"load_before_run"` each lift one of these restrictions.  `Orderly` allows the last
one only: it is the order that the documentation of `uhm_server_load_trace` gives (1177-1178).  Where two threads
read one stream (only with `"overlap"` or `"early"`) the outcome of a pass is
whatever a failed or an ordinary read may be; GLib says nothing about it.

### TracePlayback and the refinement

The abstract specification knows a file, how many of its pairs are used, and
requests with answers.  `UhmServer!Playback` maps: a pair is used up when the
stream is past it and it is not held in `next_message` or in a result
that still has to be taken.  `PlaysTraceBack` says that `UhmServer` implements
it, so a mismatched request leaves its pair, a matching one takes it, and
reading ahead, stopping and reloading do not show.

### UhmAsyncLoad

*State.*  `load`: where the load in flight is, and what its two tasks carry (the
file, the base URI built at the call, the stream, the result, whether the
cancellable was cancelled).

*Steps.*

| code | actions |
|---|---|
| `uhm_server_load_trace_async` | the call: the preconditions, `trace_file`, the base URI |
| `load_file_stream_thread_cb` | the first worker thread opens the file |
| `load_trace_async_cb` | in the main loop: `input_stream` is stored; the second task gets the stream, or the error |
| `load_file_iteration_thread_cb` | `load_first_iteration_thread_cb`, a pass at a time, in the second worker thread |
| `uhm_server_load_trace_finish` | in the callback of the application |
| `g_cancellable_cancel` | at any time, from any thread; `g_task_propagate_pointer` then returns an error in place of any result |

Only one asynchronous load is in flight at a time.  After an opening error
`load_trace_async_cb` passes NULL to `g_object_ref` (1275), which complains and
goes on.  An asynchronous load never reads the hosts file, as the code does not.

*Usage.*  Nothing loads, unloads or stops while a load is in flight,
and no request that needs the trace is made before the callback; after a
load that failed the application unloads.  Running the server, setting names
and modes, and requests that the test's own handlers answer come at
any time.  Calls that do not wait are left out (section 5).

### UhmReader

*State.*  A trace file is a sequence of pairs of blocks of lines; a line is its first
two characters and a text, of which the class is known (request line, status
line with or without a status, header, a URL (colon without a space), other words).  The parser of
773-796 skips to the next colon, space or newline *wherever that is*, so the class
is what its control depends on.  `unread` is the next line, as a pair and a line of it;
`half`, `current_message` and `skipped` are where the call of `load_file_iteration` is;
`begun`, which no code has, is the line this pass began with, and `failure` the one a read failed at.

*Steps.*  One line of `load_message_half` is one step, a failed read of any line
another, the parse and the decision to go round again the last one of a pass.
`trace_to_soup_message` and its helper say which lines they take, with every early return:
headers start behind a colon, and the first of these starts that is something else ends them;
a body ends with the lines of its direction.

*Invariant.*  `InPlace` is `TypeOK` and `PassInPlace`: `current_message` is what lies between `begun`
and `unread`, `half` counts the blocks ended in between or missing at the end of the file, and a pass
begins with a pair, unless a read failed within one.

*Files.*  Either printed from messages as `SoupLogger` does (headers, bodies with blank
lines and lines like requests and headers), or a pair of damaged blocks before a good one.
Every block of them has its terminator.  A file cut off within its last block loads as if it
had one: `load_message_half` takes the end of the file like a terminator, and `EndOfFileEndsBlock`
proves that the parser makes the same of both texts.

*Refinement.*  `PassesReadPairs`: with `streams` computed from the lines (position in
pairs, framing after a failed read), a pass is a step of
`UhmServer!load_file_iteration` with the same result, and no other step
changes `streams`.  So `UhmServer` may treat files as sequences of parsed pairs; "half"
and "lost" are what the lines make of a failed read.  After a failed read it
assumes `Plain(file)`: no line of a pair but the first is a request line.  Otherwise
the pass after the failure may begin with such a line and take the rest of the pair for a message.

### UhmResolver

*State.*  Records by resolver object (each run of the server makes a new one, 1445), which one
is the process's default, and for each client its lookup: the place in the loop over
the records and what was found.

*Steps.*  `uhm_server_run`, `uhm_server_stop`, `uhm_server_set_expected_domain_names`,
`uhm_resolver_add_A`, `_add_SRV` and one step for each name added by
`apply_expected_domain_names`; in the clients' threads `Begin`, a `Visit` for each
record, `Return`.  Nothing is locked: records are appended under a lookup's loop, and
`uhm_resolver_reset` frees them under it; from then on the loop ends with whatever
memory holds or crashes (`ReturnFromFreed`, `find_fake_crashes`).  An address that does not
parse is in the answer as NULL (162, 177), which is `None` in `Found`.
The asynchronous versions walk in the calling thread too, and leave the answer in a task,
to be delivered, cancelled, and freed (145-149).

### UhmCompare

*State.*  The filters connected, in order; the port of this run; the comparison
that was made last, until its caller returns.

*Steps.*  A comparison by either caller (`server_process_message`, and
`uhm_server_received_message_chunk`, which passes the messages the other way round), installing
and removing a filter, a run of the server on another port.  `soup_form_decode` is
modelled by what it does: a name keeps its last decodable value.  Of the recorded answer,
`Location` is rewritten to the current port when it is an absolute URI (593-614), and a
body that is shorter in the trace than its length is filled up (624-634).

### UhmSession

*State.*  The modes, the fields that sessions and the recorder use, the
lines of each trace file and those written so far (GIO writes a
new file that replaces the old one when the stream is closed), and a history of
the session for the properties.  Lines have a kind (first line of a request,
other line of a request, response line, terminator) and belong to a message;
their text plays no role in the state machine of 1839-1876.

*Steps.*  `uhm_server_start_trace_full` is one action whose disjuncts are the ways
through it (the two files, the modes, failures of each call), `uhm_server_end_trace`
likewise.  `SoupLogger` prints the lines of a request, or of a response, in one
go, so API calls come between blocks; each line is one
`uhm_server_received_message_chunk`.  Its disjuncts are its early returns and
branches, those that crash included (`chunk_aborts`).  After a mismatch `online_message` is
unreferenced twice (1950 and `g_autoptr`); the model lets the process die or
live.  With `Usage = {"overlap"}` requests and responses of several messages
alternate; `"switch"` (modes changed within a session) and `"retry"` (a new
session without ending a failed one) are not used by the present runs.

## 3. Runs

| run | bounds | what it shows |
|---|---|---|
| `serve` | 2 clients, 2 files, 1 stream, open and hosts files may fail, loads before the server runs, `MaxCounter` 3 | `PlaysTraceBack`, `OffsetCountsPairs` and `CounterKeepsUp` (its invariant), `ExpectedNamesResolve` through reloads, stops, restarts |
| `faults` | 2 clients, 1 file, reads may fail, `MaxCounter` 2, fair | `OnlyPostcondition`, `Disciplined` and `InPlace` (the inductive invariants of the proofs), `PlaysTraceBack`; `ReadyIsAnswered`, `StopReturns` |
| `async` | 1 client, 2 files, 1 stream, opening and reading fail, cancellation, loads before the server runs, `MaxCounter` 2, fair | asynchronous loads, between synchronous ones, runs and stops: `AsyncPlaysTraceBack`, `OnlyKnownCrashes`, `AsyncInPlace` (their invariant), `AsyncLoadFinishes` |
| `anyuse` | 1 client, 2 streams, every usage and fault but opening, `MaxCounter` 1 | `TypeOK`, `StopWaitsForHandler` also for an application that calls anything at any time |
| `reader` | recordings of up to 3 messages; one damaged pair of up to 3 + 2 lines before a good one; one failed read | `RecordedMessagesLoad`, `LoadedIsWhole`; `PassesReadPairs`; `InPlace`, the invariant of their proofs |
| `sessions` | 1 file, 2 requests, 3 messages, every fault, messages overlap | what is recorded loads as the session's messages with their hosts; comparisons see whole messages; sessions that start are ready; recording does not crash, but for a host that was not written; `Tidy` and `InStep`, the invariants behind these |
| `resolver` | 1 client, 2 resolver objects, 2 hosts, 1 service, addresses of both families and one that does not parse, 2 records, resets under lookups, fair | `StoppedServerIsForgotten`, `ExpectedNamesAreFound`, `LookupIsAtomic`, `Coherent` (their invariant), `LookupsReturn` |
| `compare` | queries of up to 2 parameters, 2 filters, 2 ports | `FiltersIgnoreValues`, `FiltersForgive`, `DirectionDoesNotMatter`, `AnswerCanBeFollowed` |
| `load_error` | | violation: an error of `uhm_server_load_trace` leaves state behind |
| `load_then_run` | | violation: a trace loaded before `uhm_server_run` crashes on its first request |
| `compared` | | violation: the expected message does not advance |
| `present` | | violation: an ignored parameter may be absent |

*Why the bounds are enough.*  The two trace files hold every kind of entry next
to each other: an entry to answer, one to pass over (a response with
`SOUP_STATUS_NONE`), another to answer; and one that does not parse in front and
at the end (in `async` one to pass over, one that does not parse and one to answer, so that the first call
of `load_file_iteration` meets each).  With two clients one request waits while another is
handled; a third adds no new pair of steps, since there is one server
thread and the application's.  `MaxCounter` bounds `message_counter` plus requests outstanding, so
that several requests in a row, a mismatch included, are handled before a
reload, which starts it at 0 again; hence histories are not bounded in length.
Two streams (`anyuse`) let a handler read the old one while a load opens the new
one.  A stream fails once (afterwards its framing records what that did), a
session fails to write once.  Three messages are a
whole one between two others.

In `reader` any two messages of the nine that differ in headers and bodies follow each other,
with responses with and without a status, and those without headers or response bodies come three in a row.  The damaged pair takes
every combination of missing starts, lines of the other direction, headers cut at a colon, and
blank lines; the good pair behind it is what a broken boundary would eat.
In `resolver` clients share nothing, so one client stands for each; its
lookup sees every interleaving of the application's steps.  Two records
besides an expected name are enough to tell orders, families and an omission.  Of
two resolver objects one is the default resolver of a stopped server and one that of a new run.
In `compare` two parameters make every pattern of repeated, missing, swapped and
undecodable ones; two filters are the one that decides and one that does not.

*Fairness.*  `UhmServer!Fairness`: the operating system runs all threads, so
the server thread goes on with the request in hand (`WF(Handle)`), a blocking
read ends, `uhm_server_stop` proceeds once its thread has exited.  `SF(Dispatch(c))`:
a `GMainContext` dispatches every ready source of the best priority in one
iteration, so a request that stays ready while others come is reached.  The idle
source has a lower priority and is dispatched only when no request is ready
(`idle_turn`): it has weak fairness, and `StopReturns` excepts the case in
which clients always have a request ready.  `AsyncFairness` adds the two worker threads and
the application's main loop, which an application that waits for a callback runs.
In `UhmResolver` the clients' threads and the main loops they wait in run.
`UhmReader`, `UhmSession` and `UhmCompare` state none, and no liveness.  Nothing forces
the application to call or a client to send.

## 4. Proofs

Everything here is for every number of clients, streams, files and messages, every trace,
query, record and fault, and histories of any length.  Each inductive invariant that a proof
needs beyond the type invariant is in the module it is about, and a run checks it.

The assumptions are those on the constants (`TraceAssumption`, `EnvironmentAssumption`,
`ServerAssumption`, `ReaderAssumption`, `SessionAssumption`, `LineAssumption`, `ResolverAssumption`,
`MessageAssumption`, `CompareAssumption`), which TLC evaluates in the runs.  They give each constant its
type, and say that `None` is none of the values it stands in for.  A theorem with a
hypothesis on `Usage` is about applications that keep to what section 2
says under that name; each says below why it needs it.

### UhmServer

`UhmServerProofs`:

* `TypeCorrect`: `Spec => []TypeOK`, for any usage.  `TypeOK` alone is not
  inductive: a pass of `load_file_iteration` needs a stream whose file is in
  `File`.  `TypeInv == TypeOK /\ ReadersHaveStreams` adds this.
* `StopIsSafe`: `Spec => []StopWaitsForHandler`, for any usage.  The inductive
  invariant is `Lifecycle`: `server` is set exactly while the thread is not
  joined, it exits only with `app = "joining"` and with no request in hand, and the
  quit source exists only between the attachment and the exit; the last part is
  what keeps a source of one run from ending the next.
* `NamesResolve`: `Spec => []ExpectedNamesResolve`, inductive as it stands.
* `CrashesAreKnown`: `Orderly => (Spec => []OnlyKnownCrashes)`.  That
  no assertion fails depends on the whole protocol: the invariant `InHand` says
  that there is one request in hand, that the server thread's position agrees with
  `next_message` and the stream of its task, that every request outstanding has a trace until
  it is answered, and that every message kept was parsed with a base URI, unless traces may be loaded
  before the server runs.  `Orderly` is needed: `anyuse` reaches every one of the assertions.
  What remains possible is the postcondition of `load_file_iteration` and, where a trace was loaded
  first, the crash over its first message (section 5).
* `NothingElseCrashes`: `Usage = {} => (Spec => []OnlyPostcondition)`, a corollary: with the
  usage of the tests only the postcondition remains.

`UhmServerPlayback`, all for `Orderly` applications (with `"overlap"`, and with
`"early"` while a load is at it, two threads read one stream, and what they get is not in the file):

* `RequestsKeepTheirTrace`: `Disciplined`, the invariant of all of these.
* `PairsStayInPlace`: `InPlace`.  It relates three things that different threads write: the
  stream of the loaded trace is that file's and within it, and has only passed over pairs while a
  load reads; `next_message` or the worker's result is the pair the
  stream has just read, read whole; and a client waits exactly while its
  request is outstanding.  Lemma `StreamReads` says what a pass of
  `load_file_iteration` makes of the stream and its result; everything else rests on it.
* `ServerPlaysTraceBack`: `PlaysTraceBack`, the refinement.  `InPlace` is what makes each step map to a
  step of `TracePlayback` or to none.  A worker's
  read does not move the cursor, because the pair read is still held; the pass that reads after a
  pair it passed over maps to passing it over, the comparison that matches to
  the answer, and loading, stopping and unloading to theirs.
* `CounterHasKeptUp`, `OffsetsCount`: `CounterKeepsUp` and `OffsetCountsPairs`, with the
  further hypothesis `"read" \notin Faults`.  It is needed: a pair lost by a failed read is used up
  without having been counted.  `CounterKeepsUp` is the strengthening: the counter
  has counted each pair used up that has a response, and the one being compared.

### UhmAsyncLoad

* `AsyncTypeCorrect`: `AsyncSpec => []AsyncTypeOK`, for any usage.
* `AsyncLoadsStayInPlace`, `AsyncNothingElseCrashes`, `AsyncServerPlaysTraceBack`, for `Orderly` applications:
  `AsyncInPlace`, `OnlyKnownCrashes` (and `OnlyPostcondition` with `Usage = {}`), `AsyncPlaysTraceBack`.  The invariant has two
  sides.  *Settled*: no load is in flight and none has failed, or it was cleared away; then
  `Disciplined` and `InPlace` hold, and the lemmas of
  `UhmServer` are used as they are.  *Unplayed*: a load is in flight or has failed; then no client
  waits for the trace, and the load's file, stream and result are those of the same
  place of that file, through the worker threads, the callback and a cancellation
  between any two of them.  `uhm_server_load_trace_finish` without an error leads
  back to the first side, an unload or a stop does so after an error.

### UhmReader

`UhmReaderProofs`, for every set of recordings, every damaged file and a read that fails at any line:

* *The parser.*  It looks for the next line of a kind, which is the minimum of a set of numbers.  That
  a nonempty set of numbers has one is an induction; lemma `MinExists` gets it from the library's
  theorem that strict inclusion of finite sets is well-founded, applied to the intervals
  `1 .. x`.  Lemma `ParsedIs` then says what a successful parse of a block is: headers up to
  some line, a body up to another, and the block or the text ends there.  Two theorems rest on it:
  `PrintedPair`: a message that `SoupLogger` prints is parsed as itself; and `ParsedIsWhole`: a pair
  that is parsed at all is parsed up to its last line, with nothing left out.
* `ReaderInPlace`: `Spec => []InPlace`, inductive together with `FileGiven` (the file is one of the
  given ones, which no step changes).  Lemma `Follows` says how a line that is read changes the
  number of blocks behind it, `PassDone` what was read when a pass is done: from the first line
  of a pair, exactly the pair.
* `RecordedMessagesAreLoaded`: `RecordedMessagesLoad`, by `PrintedPair`.  The order-preserving map
  from messages played to messages recorded grows with each pass.
* `LoadedMessagesAreWhole`: `LoadedIsWhole`, by `ParsedIsWhole`.  A pass that a failed read made
  begin within a pair parses as nothing, which is where `Plain(file)` is needed.
* `EndOfFileEndsBlock`: for all lines, `trace_to_soup_message` makes the same of them with and
  without a terminator behind.  It is why the files of the runs need not be cut off.
* `ReaderReadsPairs`: `PassesReadPairs`.  A pass that ends has read what `Pairs!PairAt` says of
  its pair; a read fails before the stream has left the pair (lemma `FailsInPair`), so position and framing
  after it are those of `UhmServer`.

### UhmSession

* `SessionTypeCorrect`: `Spec => []TypeOK`, for any usage.
* With `Usage \subseteq {"overlap"}` (modes are set between sessions, and a session is ended before the
  next one starts): `StartedSessionIsReady`, `FailedSessionIsTidied`,
  `RecordingNeverCrashes`.  `StartedIsReady` depends on what earlier sessions left:
  a load is refused silently when a trace is loaded (1203).  The invariant is
  `Ready == Tidy /\ StartedIsReady /\ OnlyHostCrashes`; `Tidy` says what may be open
  after a failure, mode by mode, and that `uhm_server_end_trace` closes all of that.
  `OnlyHostCrashes` leaves the NULL host of section 5; `RecordingNeverCrashes` adds, from
  `InStep`, that it takes a failed write or messages that overlapped: a message whose lines were
  all taken has its header lines.
  Without the hypothesis it fails: a setter between start and end makes `uhm_server_end_trace` close
  the wrong things.
* `RecorderInStep`: `InStep`; from it `RecordingsPlayBack`, `HostsFileIsComplete`,
  `MessagesComparedWhole`.  These are properties between messages; `InStep` says what holds in the middle
  of one: which pair it is, how many of its lines were taken, that
  `received_message_state` is the state after that many lines, that the trace file and
  `comparison_message` end with exactly these, and that the lines still to be
  printed are the rest of the pair.  A response without a request (cancelled, or from before the session) is passed over as a
  whole.  The properties say nothing of a session in which messages overlapped or
  a write failed; the session after it starts clean, which the proof shows as well.

### UhmResolver

* `ResolverTypeCorrect` and `ResolverCoherent`: `TypeOK` and `Coherent`, together inductive.  For the records: the
  running server's resolver is the default one, and each expected name has a record of
  the server's address there or is still to be added; a stopped server left an empty one.
  For each loop that no reset cut short: the answers found are those of the records visited so
  far (`AnswerOf`), appended records do not disturb this, and a lookup that is due an address has a
  record with it ahead or behind.
* `StoppedServerForgotten`, `ExpectedNamesFound`, `LookupsAreAtomic` (an action
  property) follow.  `Usage` may be anything: with `"overlap"` lookups go on while records are
  reset, and what freed records give is left open.

### UhmCompare

* `FiltersIgnoreValuesOnly`: `Spec => []FiltersIgnoreValues`.  Messages compare equal only if they
  agree but for the parameters of the oldest filter, and do so if each of these is also
  in both queries or in neither.  A parameter in one of them only is left out: the
  documentation wants it refused, and the code does not do so (`present`, section 5).  The code compares two hash tables by their
  sizes and by looking up in one the keys of the other (2298-2311).  That this is equality
  takes: the keys of the one are keys of the other with the same values, so the sets of
  keys, finite and of one size, are equal; and looking a value up agrees with
  `Gives`, the definition of "the query gives v for n" over the query's positions.
* `FiltersOnlyForgive`: `Spec => []FiltersForgive`: equal messages stay equal when
  the same parameters are removed on both sides.
* `ComparingIsSymmetric`: `Spec => []DirectionDoesNotMatter`, from the lemma
  of `FiltersIgnoreValuesOnly` that makes the one-way test of the code a symmetric one.
* `CompareTypeCorrect`, `AnswersCanBeFollowed`: `TypeOK` and `AnswerCanBeFollowed`.

The first three rest on the inductive invariant `ComparisonIsCurrent` (theorem
`ComparisonStaysCurrent`): while a comparison is used it is one by the filters there
are.  It fails if filters could change under a comparison; the code emits and uses it in one call.

### Only model-checked

* Liveness: `ReadyIsAnswered`, `StopReturns`, `AsyncLoadFinishes`, `LookupsReturn`.  Fairness and
  `ENABLED` are out of the prover's reach.
* The properties of the runs that show a violation, which do not hold.

## 5. What the code does otherwise than it says

`PROJECT.json` quotes the lines under `findings`; each has a run.

1. `load_error`: "On error, @error will be set and the state of the #UhmServer
   will not change" (1182).  A failed read keeps `input_stream`; a failed hosts
   file keeps everything.  Every later load is then refused (1203).
2. `load_then_run`: "Call uhm_server_run() to start the mock server afterwards"
   (1177-1178).  Offline there is no base URI yet; the first message has no URI, and
   describing the mismatch reads its path.
3. `compared`: "compared to the next expected line in the existing trace file"
   (1808-1809).  `next_message` never advances online.
4. `present`: "The named parameters must still be present in the query, however"
   (2340-2341).  2287-2288 test the expected message twice, so nothing is tested.

Smaller ones, without a run of their own:

* The postcondition of 1099 fails after a read error behind a pair that was passed over:
  `output_message` is not cleared before another pass (`aborted = "load_file_iteration"`, which
  `OnlyPostcondition` excepts).
* "The #UhmServer state will remain unchanged" (1603): `output_stream` stays open when the hosts
  file cannot be replaced (1650).
* "Silently ignore the call [...] if a trace file hasn't been specified" (1834): online without
  logging this is not tested.
* "Asynchronous version of uhm_server_load_trace()" (1301): it does not read the hosts file.
* The host of a recorded message may be NULL, which 1930 allows for, but its length is taken
  before (1924): a `Soup-Host` line that could not be written crashes the process when its message is
  complete (`aborted = "host"`, which `RecordingDoesNotCrash` excepts after a failed write or
  when messages overlapped).
* A cancelled service lookup that found something unreferences `GSrvTarget`s as objects
  (`uhm-resolver.c:145-149`); `LookupsReturn` excepts it.
* A filter decodes the query of a message that has none, which is NULL (2280).
* Not in the models: with an asynchronous load in flight `uhm_server_unload_trace` and `uhm_server_stop` are undone by its
  callbacks, which store the stream and the first message after it.

## 6. Not modelled

* Text: headers other than `Location` and `Content-Length`, wording of answers and
  warnings.  In `UhmServer` a parse has one of four outcomes and whether two messages match is a
  relation; `UhmReader` and `UhmCompare` take these apart, but methods, HTTP versions and
  the encoding of URIs are well formed or not.  In particular a request line has a space and a
  version behind its URI: without them the search for the end of the URI (903) goes on into the
  lines below, and since an unknown version only warns (920-922) a newline behind it is accepted
  (925).  No line of `UhmReader` stands for such a text; `SoupLogger` prints none.
* `uhm_server_unload_trace` and loads called by the application while the server handles a request
  for the trace: only `anyuse` allows them, and it checks no more than types and `StopWaitsForHandler`.
  The code has nothing against them: 566-573, for one, look at `next_message` after handlers of
  the application ran.
* TLS, certificates, which address and port a server gets; `soup_server_get_uris` called on one
  thread (469) while the server runs in another is a race within libsoup.
* Lengths of -1 passed to `uhm_server_received_message_chunk` (2007): callers within the
  repository pass lengths.
* Getters, setters of properties that only store, `UhmMessage` (`uhm-message.c`: accessors of one
  message that keep no protocol), `dispose` and `finalize`, reference counts except where noted.
* Several `UhmServer` objects in one process (they would share the default
  resolver); several asynchronous loads at once.
* Modes changed within a session, and a new session after one that failed to start
  (`Usage` `"switch"` and `"retry"` of `UhmSession`): the actions allow them, no run does; nothing says
  what `uhm_server_end_trace` owes to a session in other modes than its own.
* The build, the tests and the documentation's tooling.

## 7. Plan

Done: all modules of the plan, and theorems for every safety property that a passing run checks.
What could be added:

1. `UhmServer`: which part of `InPlace` survives `"early"`.
2. `UhmReader` with two streams of one file, for what two loads read of it one after the other; the
   model has one stream, which `UhmServer` takes to stand for each.
