------------------------------ MODULE MCWsDecode ------------------------------
(* Viewers that send two messages in up to four frames, cut in many ways.                      *)
EXTENDS WsDecode

MCFrame(op, fin, len) ==
    [op |-> op, fin |-> fin, masked |-> TRUE, long |-> len >= LongLen, len |-> len]

(* A cut text of one byte and of six, then a message of one and two bytes. *)
MCTwo == <<<<1, 6>>, <<1, 2>>>>

MCPing == MCFrame("ping", TRUE, 5)

MCFrames ==
    {<<MCFrame("binary", TRUE, 7), MCFrame("binary", TRUE, 3)>>,
     <<MCFrame("binary", TRUE, 10), MCFrame("close", TRUE, 2)>>,
     <<MCFrame("binary", FALSE, 5), MCPing, MCFrame("continuation", TRUE, 5)>>,
     <<MCFrame("binary", FALSE, 2), MCFrame("continuation", FALSE, 0),
       MCFrame("continuation", TRUE, 8), MCPing>>,
     <<MCFrame("text", FALSE, 8), MCFrame("continuation", TRUE, 4), MCFrame("ping", TRUE, 0),
       MCFrame("close", TRUE, 5)>>,
     <<MCFrame("binary", FALSE, 9), MCFrame("close", TRUE, 3)>>,
     <<MCFrame("continuation", TRUE, 3)>>,
     <<[MCFrame("binary", TRUE, 9) EXCEPT !.masked = FALSE]>>,
     <<MCFrame("binary", FALSE, 5), [MCPing EXCEPT !.fin = FALSE]>>,
     <<[MCFrame("binary", TRUE, 3) EXCEPT !.long = TRUE]>>}
    \cup {<<MCFrame("binary", FALSE, a), MCPing, MCFrame("continuation", FALSE, b),
            MCFrame("continuation", TRUE, 10 - a - b)>> : a \in 1 .. 4, b \in 3 .. 6}

MCScripts ==
    [frames : MCFrames, messages : {MCTwo},
     splits : {{"header", "payload"}, Places}, gaps : {{"message"}, Places}]

MCRequests ==
    {r \in WsRequest :
        \/ r.first # "GET" /\ r.fields = {} /\ r.ended = "closed"
        \/ r.first = "GET" /\ {"version", "path"} \subseteq r.fields}

===============================================================================
