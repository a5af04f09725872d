---------------------------- MODULE MCUhmSession ------------------------------
(* UhmSession for TLC: one trace file and two messages.                     *)
EXTENDS UhmSession, TLC

CONSTANTS f1, r1, r2

MCContents == [f \in File |-> <<r1, r2>>]
MCMatch == {<<r, r>> : r \in Request}
===============================================================================
