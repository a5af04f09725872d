----------------------------- MODULE MCUhmReader ------------------------------
(* UhmReader for TLC: recordings of up to three messages that differ in       *)
(* headers and bodies, and files with one pair of a few lines of any class    *)
(* before a good one.                                                         *)
EXTENDS UhmReader

CONSTANTS r1, r2, ok, no, h, u, w, e

MCClass == [t \in Text |->
               CASE t \in {r1, r2} -> "request"
                 [] t = ok -> "status"
                 [] t = no -> "no_status"
                 [] t = h  -> "header"
                 [] t = u  -> "url"
                 [] OTHER  -> "words"]

MCHalf(start, headers, lines) ==
    [start |-> start, headers |-> headers, body |-> lines]
MCRequests == {MCHalf(r1, <<>>, <<>>), MCHalf(r1, <<h>>, <<e, h>>),
               MCHalf(r2, <<h, h>>, <<w, r1>>)}
MCResponses == {MCHalf(ok, <<>>, <<>>), MCHalf(ok, <<h>>, <<w, e>>),
                MCHalf(no, <<h>>, <<>>)}
MCMessages == [request : MCRequests, response : MCResponses]
MCRecording ==
    UNION {[1 .. n -> MCMessages] : n \in 0 .. 2}
    \cup {<<m, n, m>> : m, n \in {k \in MCMessages :
                                   k.request.headers = <<>> /\ k.response.body = <<>>}}

MCLine == [mark : {">"}, text : {r1, h, u, w, e}] \cup [mark : {"<"}, text : {h, e}]
          \cup [mark : {" "}, text : {w}]
MCUpTo(n) == UNION {[1 .. k -> MCLine] : k \in 0 .. n}
MCFirst(d, t, blocks) == {<<[mark |-> d, text |-> t]>> \o b : b \in blocks}
MCDamagedPair ==
    [request : {<<>>} \cup MCFirst("<", r1, MCUpTo(0)) \cup MCFirst(">", h, MCUpTo(0))
                \cup MCFirst(">", r1, MCUpTo(2)),
     response : {<<>>} \cup MCFirst(">", ok, MCUpTo(0)) \cup MCFirst("<", w, MCUpTo(0))
                \cup MCFirst("<", ok, MCUpTo(1))]
MCGoodPair == [request |-> Marked(">", <<r2, h>>),
               response |-> Marked("<", <<ok>>)]
MCDamaged == {<<p, MCGoodPair>> : p \in MCDamagedPair}
===============================================================================
