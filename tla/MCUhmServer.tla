----------------------------- MODULE MCUhmServer ------------------------------
(* UhmServer for TLC: two clients, two trace files and three requests, one  *)
(* of which a handle-message handler answers.                               *)
EXTENDS UhmServer, TLC

CONSTANTS c1, c2, s1, s2, f1, f2, r1, r2, own, h

\* A pair to pass over between two to answer; a trace that begins with a pair
\* that does not parse, and ends with another.
MCTrace == [f \in File |-> IF f = f1 THEN <<r1, StatusNone, r2>>
                                     ELSE <<Malformed, r1, Malformed>>]
MCHostsOf == [f \in File |-> IF f = f1 THEN {h} ELSE {}]
MCMatch == {<<r, r>> : r \in Request}
MCDomainNames == {{}, {h}}

\* Clients, and streams, are alike; no configuration that uses one of these
\* checks liveness.
ClientSymmetry == Permutations({c1, c2})
StreamSymmetry == Permutations({s1, s2})
===============================================================================
