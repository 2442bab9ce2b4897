---------------------------- MODULE MCMcpServer -----------------------------
(***************************************************************************)
(* McpServer for TLC.  MaxLine = 3: lines of up to 3 bytes fit, 4 is the   *)
(* oversized line that one read returns whole, 5, 8 and 9 take a further   *)
(* read of one byte, of a full chunk and of two.  A text reaches to the    *)
(* newline, or stops one byte short of it; an oversized line of 4 bytes    *)
(* has a short text, which a read cut off by the end of the stream gets.   *)
(***************************************************************************)
EXTENDS McpServer

Plain(text, size) ==
    [text |-> text, size |-> size, rpc |-> FALSE, id |-> FALSE,
     last |-> IF text = "blank" THEN 0 ELSE size - 1,
     method |-> "missing", call |-> "bad_params"]
Object(rpc, id, method, call, size) ==
    [text |-> "object", size |-> size, last |-> size - 1, rpc |-> rpc, id |-> id,
     method |-> method, call |-> call]

Blanked(m) == [m EXCEPT !.last = @ - 1]
Listing(size) == Object(TRUE, TRUE, "tools/list", "bad_params", size)

MCMessages ==
    {Plain("blank", 1), Plain("blank", 5), Plain("garbage", 3),
     Plain("scalar", 2), Object(FALSE, TRUE, "tools/list", "bad_params", 2),
     Object(FALSE, FALSE, "tools/list", "bad_params", 2),
     Object(TRUE, FALSE, "tools/call", "returns", 2),
     Blanked(Listing(3)), Blanked(Listing(4))}
    \cup {Object(TRUE, TRUE, method, "bad_params", 2) : method \in Methods}
    \cup {Object(TRUE, TRUE, "tools/call", call, 2) : call \in Calls}
    \cup {Listing(size) : size \in {4, 5, 8, 9}}
=============================================================================
