----------------------------- MODULE MCUhmCompare -----------------------------
(* UhmCompare for TLC: queries of up to two parameters, among them a name    *)
(* twice and one that is not decoded; one message that differs in its path;  *)
(* a few messages with responses worth telling apart.                        *)
EXTENDS UhmCompare, TLC

CONSTANTS x, y, a, b, t, p1, p2

MCParts == [p \in Part |-> t]
MCParameter == [name : {x}, value : {a, b}] \cup [name : {y}, value : {a, None}]
MCQueries == {None} \cup UNION {[1 .. n -> MCParameter] : n \in 0 .. 2}
MCResponse(location, length, size) ==
    [location |-> location, length |-> length, size |-> size]
MCTo(absolute, p) == [absolute |-> absolute, port |-> p]

MCMessage ==
    [parts : {MCParts}, query : MCQueries, response : {MCResponse(None, 0, 1)}]
    \cup [parts : {[MCParts EXCEPT !["path"] = None]}, query : {<<>>},
          response : {MCResponse(None, 2, 2)}]
    \cup [parts : {MCParts}, query : {<<>>},
          response : {MCResponse(MCTo(TRUE, p1), 0, 0),
                      MCResponse(MCTo(FALSE, None), 3, 1),
                      MCResponse(MCTo(TRUE, None), 1, 2)}]
===============================================================================
