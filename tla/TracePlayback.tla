---------------------------- MODULE TracePlayback -----------------------------
(***************************************************************************)
(* What the mock server promises the code under test, without its threads, *)
(* its look-ahead message or its streams: one trace is played at a time,   *)
(* its pairs are used in order, each at most once, whichever clients the   *)
(* requests come from.  A request that matches the next pair uses it up;   *)
(* one that does not leaves it for the next request.                       *)
(***************************************************************************)
EXTENDS UhmTrace

CONSTANT Client

VARIABLES
    file,    \* the trace being played, or None
    cursor,  \* how many of its pairs are used up
    torn,    \* TRUE when a failed read left the file between two pairs
    asked,   \* asked[c] is c's outstanding request, or None
    answer   \* answer[c] is the answer to c's last request

vars == <<file, cursor, torn, asked, answer>>

Answer(kind, m) == [kind |-> kind, message |-> m]
NoAnswer == Answer("none", None)
Here == [file |-> file, pos |-> cursor + 1]

AtEnd == cursor = Len(Trace[file])
NextEntry == Trace[file][cursor + 1]
Unused == \A i \in 1 .. cursor : Trace[file][i] = StatusNone

Init ==
    /\ file = None
    /\ cursor = 0
    /\ torn = FALSE
    /\ asked = [c \in Client |-> None]
    /\ answer = [c \in Client |-> NoAnswer]

Load(f) ==
    /\ file = None
    /\ file' = f
    /\ UNCHANGED <<cursor, torn, asked, answer>>

\* Unloading, also as a part of stopping the server, which cuts off every
\* request that has no answer yet.
Unload ==
    /\ file # None
    /\ file' = None
    /\ cursor' = 0
    /\ torn' = FALSE
    /\ asked' \in {asked, [c \in Client |-> None]}
    /\ UNCHANGED answer

CutOff ==
    /\ file = None
    /\ asked' = [c \in Client |-> None]
    /\ UNCHANGED <<file, cursor, torn, answer>>

Ask(c, r) ==
    /\ asked[c] = None
    /\ asked' = [asked EXCEPT ![c] = r]
    /\ answer' = [answer EXCEPT ![c] = NoAnswer]
    /\ UNCHANGED <<file, cursor, torn>>

Respond(c, a) ==
    /\ asked[c] # None
    /\ asked' = [asked EXCEPT ![c] = None]
    /\ answer' = [answer EXCEPT ![c] = a]

\* Pairs without a usable response are passed over, and so is a first pair
\* that does not parse.
PassOver ==
    /\ file # None
    /\ ~AtEnd
    /\ ~torn
    /\ \/ NextEntry = StatusNone
       \/ NextEntry = Malformed /\ Unused
    /\ cursor' = cursor + 1
    /\ UNCHANGED <<file, torn, asked, answer>>

Tear ==
    /\ "read" \in Faults
    /\ file # None
    /\ torn' = TRUE
    /\ UNCHANGED <<file, cursor, asked, answer>>

Recorded(c) ==
    /\ file # None
    /\ ~AtEnd
    /\ ~torn
    /\ <<NextEntry, asked[c]>> \in Match
    /\ Respond(c, Answer("recorded", Here))
    /\ cursor' = cursor + 1
    /\ UNCHANGED <<file, torn>>

Unexpected(c) ==
    /\ file # None
    /\ ~AtEnd
    /\ ~torn
    /\ NextEntry \in Request
    /\ <<NextEntry, asked[c]>> \notin Match
    /\ Respond(c, Answer("unexpected", Here))
    /\ UNCHANGED <<file, cursor, torn>>

\* No request is expected: the trace is used up, or its next pair does not
\* parse and is lost.
Nothing(c) ==
    /\ file # None
    /\ Respond(c, Answer("nothing", None))
    /\ \/ AtEnd /\ UNCHANGED <<cursor, torn>>
       \/ /\ ~AtEnd
          /\ torn \/ NextEntry = Malformed
          /\ cursor' = cursor + 1
          /\ torn' \in {torn, FALSE}
    /\ UNCHANGED file

Failed(c) ==
    /\ "read" \in Faults
    /\ file # None
    /\ Respond(c, Answer("failed", None))
    /\ UNCHANGED <<file, cursor, torn>>

Own(c) ==
    /\ asked[c] \in OwnHandled
    /\ Respond(c, Answer("own", None))
    /\ UNCHANGED <<file, cursor, torn>>

Next ==
    \/ \E f \in File : Load(f)
    \/ Unload
    \/ CutOff
    \/ PassOver
    \/ Tear
    \/ \E c \in Client :
          \/ \E r \in Request : Ask(c, r)
          \/ Recorded(c)
          \/ Unexpected(c)
          \/ Nothing(c)
          \/ Failed(c)
          \/ Own(c)

Spec == Init /\ [][Next]_vars
===============================================================================
