---------------------------- MODULE MCUhmAsyncLoad ----------------------------
(* UhmAsyncLoad for TLC.                                                     *)
EXTENDS MCUhmServer, UhmAsyncLoad

\* A trace whose first pair is one to answer; another in which a pair to pass
\* over and one that does not parse come before it.
MCAsyncTrace ==
    [f \in File |-> IF f = f1 THEN <<r1, StatusNone, r2>>
                              ELSE <<StatusNone, Malformed, r1>>]
===============================================================================
