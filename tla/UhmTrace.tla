------------------------------- MODULE UhmTrace -------------------------------
(***************************************************************************)
(* The data the mock server plays back: trace files, the hosts files kept  *)
(* beside them, and the comparison of a recorded with an incoming request. *)
(*                                                                         *)
(* A trace file is a sequence of request-response pairs.  A pair is named  *)
(* by its file and its position; all that is kept of its contents is the   *)
(* recorded request, or that the pair is one the loader treats specially.  *)
(***************************************************************************)
EXTENDS Integers, Sequences

CONSTANTS
    File,       \* the trace files an application may name
    Request,    \* the requests a client may make and a trace may record
    Trace,      \* Trace[f] is what file f holds, one entry per pair
    StatusNone, \* a pair whose recorded response has SOUP_STATUS_NONE
    Malformed,  \* a pair that trace_to_soup_message() cannot parse
    Host,       \* host names
    HostsOf,    \* HostsOf[f] is the contents of the file f.hosts
    Match,      \* <<recorded, incoming>> that compare-messages finds equal
    OwnHandled, \* requests a handle-message handler of the test answers
    Faults,     \* operations of GIO that may fail: see FaultKinds
    None        \* the NULL pointer

Entry == Request \cup {StatusNone, Malformed}

\* Opening the trace, reading a line of it, reading the hosts file (with an
\* error other than G_IO_ERROR_NOT_FOUND, which is no error); a load that its
\* application cancels.
FaultKinds == {"open", "read", "hosts", "cancel"}

ASSUME TraceAssumption ==
    /\ StatusNone \notin Request
    /\ Malformed \notin Request
    /\ StatusNone # Malformed
    /\ Trace \in [File -> Seq(Entry)]
    /\ None \notin File

ASSUME EnvironmentAssumption ==
    /\ HostsOf \in [File -> SUBSET Host]
    /\ Match \subseteq Request \X Request
    /\ OwnHandled \subseteq Request
    /\ Faults \subseteq FaultKinds
===============================================================================
