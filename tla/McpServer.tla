----------------------------- MODULE McpServer ------------------------------
(***************************************************************************)
(* scripts/mcp_server.py: JSON-RPC over stdin and stdout, one message per  *)
(* line.  The client writes in bursts that need not end where a line ends, *)
(* may close its end anywhere, also inside a line, and the server reads at *)
(* most MaxLine + 1 bytes at a time.  A line is its length, newline        *)
(* included, what its text turns out to be, and where that text has its    *)
(* last byte before the blanks and the newline at its end; the server only *)
(* ever sees how far it has read into the line.                            *)
(***************************************************************************)
EXTENDS Naturals, Sequences

CONSTANTS
    Messages,    \* the lines a client may send
    MaxLine,     \* MAX_MCP_LINE_BYTES
    MaxLines     \* bound on the lines of one session

(* What dispatch() and the four tools tell apart.  A line with text        *)
(* "object" has the other fields: whether jsonrpc is "2.0", whether there  *)
(* is an id, the method and, for tools/call, how the call ends.            *)
Methods == {"missing", "initialize", "notifications", "tools/list",
            "tools/call", "other"}
Calls == {"bad_params", "no_name", "unknown_tool", "bad_arguments",
          "returns", "input_error", "missing_argument", "raises"}
Message == [text : {"blank", "garbage", "scalar", "object"},
            size : Nat \ {0}, last : Nat, rpc : BOOLEAN, id : BOOLEAN,
            method : Methods, call : Calls]

ASSUME McpAssumption ==
    /\ Messages \subseteq Message
    /\ \A m \in Messages : m.last < m.size /\ (m.last = 0 <=> m.text = "blank")
    /\ MaxLine \in Nat \ {0} /\ MaxLines \in Nat

VARIABLES
    lines,     \* the lines the client began, the last perhaps unfinished
    written,   \* bytes of the last line written so far
    closed,    \* the client closed its end
    at, off,   \* the server has read off bytes of line at
    pc,        \* "read": top of main(); "discard": its inner loop; "ended"
    out        \* the replies written to stdout

client == <<lines, written, closed>>
mcpVars == <<lines, written, closed, at, off, pc, out>>
-----------------------------------------------------------------------------
(* External: the client's end of the pipe.                                 *)
Available(i) == IF i < Len(lines) THEN lines[i].size
                ELSE IF i = Len(lines) THEN written ELSE 0
Complete(i) == i \in 1..Len(lines) /\ Available(i) = lines[i].size

Begin(m, n) ==
    /\ ~closed /\ Len(lines) < MaxLines
    /\ lines # <<>> => Complete(Len(lines))
    /\ lines' = Append(lines, m)
    /\ written' = n
    /\ UNCHANGED <<closed, at, off, pc, out>>

GoOn(n) ==
    /\ ~closed /\ lines # <<>>
    /\ written + n <= lines[Len(lines)].size
    /\ written' = written + n
    /\ UNCHANGED <<lines, closed, at, off, pc, out>>

Close ==
    /\ ~closed
    /\ closed' = TRUE
    /\ UNCHANGED <<lines, written, at, off, pc, out>>
-----------------------------------------------------------------------------
(* readline(MaxLine + 1) blocks until it has that many bytes, a newline or *)
(* the end of the stream; what it returns stops at the newline.            *)
Have == Available(at) - off
ReadReady == Have > MaxLine \/ Complete(at) \/ closed
Chunk == IF Have > MaxLine THEN MaxLine + 1 ELSE Have
EndsLine == Complete(at) /\ off + Chunk = lines[at].size

Advance ==
    IF EndsLine THEN at' = at + 1 /\ off' = 0
                ELSE at' = at /\ off' = off + Chunk

Reply(form, own) == [line |-> at, form |-> form, own |-> own]
Write(replies) == out' = out \o replies

(* dispatch(): own says whether the reply carries the request's id rather  *)
(* than null.  A handler runs for a notification too; only its reply is    *)
(* withheld.                                                               *)
ToolReply(call) ==
    IF call \in {"bad_params", "no_name", "unknown_tool", "bad_arguments"}
    THEN "error"
    ELSE IF call = "returns" THEN "result" ELSE "tool_error"

DispatchRepliesToAll(m) ==             \* mutant: answers notifications too
    CASE m.text = "scalar" -> <<Reply("error", FALSE)>>
      [] m.text # "scalar" /\ ~m.rpc -> <<Reply("error", m.id)>>
      [] OTHER -> <<Reply("result", m.id)>>
Dispatch(m) ==
    CASE m.text = "scalar"  -> <<Reply("error", FALSE)>>
      [] m.text # "scalar" /\ ~m.rpc -> <<Reply("error", m.id)>>
      [] m.text # "scalar" /\ m.rpc /\ (~m.id \/ m.method = "notifications") -> <<>>
      [] OTHER ->
            <<Reply(CASE m.method \in {"initialize", "tools/list"} -> "result"
                      [] m.method = "tools/call" -> ToolReply(m.call)
                      [] OTHER -> "error", TRUE)>>

(* decode, strip and json.loads of what was read: the line, with or        *)
(* without the blanks and the newline at its end, or a piece of it.  A     *)
(* shorter beginning, cut off by the end of the stream, holds nothing, or  *)
(* the beginning of its text: that of an object or a scalar is no message, *)
(* but one of a line that is no JSON may be any, like an end without its   *)
(* beginning.                                                              *)
Reading ==
    IF off = 0 /\ Chunk >= lines[at].last THEN {lines[at]}
    ELSE {[text |-> "blank"], [text |-> "garbage"]}
         \cup (IF off = 0 /\ lines[at].text # "garbage" THEN {} ELSE Messages)

Handle(m) ==
    CASE m.text = "blank"   -> <<>>
      [] m.text = "garbage" -> <<Reply("error", FALSE)>>
      [] OTHER              -> Dispatch(m)

(* One turn of the loop in main().                                         *)
EndOfFile ==
    /\ Chunk = 0
    /\ pc' = "ended"
    /\ UNCHANGED <<at, off, out>>

TooLongUndiscarded ==           \* mutant: answers without finding the newline
    /\ Chunk > MaxLine
    /\ Write(<<Reply("error", FALSE)>>)
    /\ Advance
    /\ UNCHANGED pc
TooLong ==
    /\ Chunk > MaxLine
    /\ \/ /\ EndsLine
          /\ Write(<<Reply("error", FALSE)>>)
          /\ UNCHANGED pc
       \/ /\ ~EndsLine
          /\ pc' = "discard"
          /\ UNCHANGED out
    /\ Advance

Line ==
    /\ Chunk \in 1..MaxLine
    /\ \E m \in Reading : Write(Handle(m))
    /\ Advance
    /\ UNCHANGED pc

Read ==
    /\ pc = "read" /\ ReadReady
    /\ EndOfFile \/ TooLong \/ Line
    /\ UNCHANGED client

(* The inner loop: read on until a newline or the end of the stream, then  *)
(* report the oversized line once.                                         *)
DiscardAll ==                        \* mutant: only the end of the stream
    /\ pc = "discard" /\ ReadReady
    /\ IF Chunk = 0
       THEN Write(<<Reply("error", FALSE)>>) /\ pc' = "read"
       ELSE UNCHANGED <<out, pc>>
    /\ Advance
    /\ UNCHANGED client
Discard ==
    /\ pc = "discard" /\ ReadReady
    /\ IF Chunk = 0 \/ EndsLine
       THEN Write(<<Reply("error", FALSE)>>) /\ pc' = "read"
       ELSE UNCHANGED <<out, pc>>
    /\ Advance
    /\ UNCHANGED client

(* Nothing happens after the end of the stream.                            *)
Done == pc = "ended" /\ UNCHANGED mcpVars

McpInit ==
    /\ lines = <<>> /\ written = 0 /\ closed = FALSE
    /\ at = 1 /\ off = 0
    /\ pc = "read"
    /\ out = <<>>

McpNext ==
    \/ \E m \in Messages : \E n \in 1..m.size : Begin(m, n)
    \/ \E n \in 1..MaxLine + 1 : GoOn(n)
    \/ Close
    \/ Read
    \/ Discard
    \/ Done

(* The server is a loop that only ever waits for its input.  Nothing is    *)
(* assumed of the client.                                                  *)
McpSpec == McpInit /\ [][McpNext]_mcpVars /\ WF_mcpVars(Read) /\ WF_mcpVars(Discard)
-----------------------------------------------------------------------------
(* Types, and that the server is never ahead of the client.                *)
McpTypeOK ==
    /\ lines \in Seq(Messages) /\ written \in Nat /\ closed \in BOOLEAN
    /\ at \in 1..Len(lines) + 1 /\ off \in Nat /\ off <= Available(at)
    /\ pc \in {"read", "discard", "ended"}
    /\ out \in Seq([line : Nat, form : {"error", "result", "tool_error"},
                    own : BOOLEAN])

(* The lines a client must hear of, exactly once: requests that fit and    *)
(* are well formed, and everything that is no JSON-RPC message.  Nothing   *)
(* answers a notification, a blank line or a line withheld so far.         *)
IsRequest(m) ==
    m.text = "object" /\ m.rpc /\ m.id /\ m.method # "notifications"
IsQuiet(m) ==
    /\ m.size <= MaxLine
    /\ \/ m.text = "blank"
       \/ m.text = "object" /\ m.rpc /\ (~m.id \/ m.method = "notifications")

(* A line of which the server read all there is.                           *)
ReadOut(i) == i < at \/ pc = "ended"
Answered(i) == \E j \in 1..Len(out) : out[j].line = i

(* The replies answer the lines in order, each line once at most.  A line  *)
(* read to its end has a reply unless it is a notification or blank; the   *)
(* reply to a request carries its id, a reply has an id only where the     *)
(* line has one, and only a request gets a result.  An oversized line is   *)
(* one error whatever its tail contains ("one message per line in, one     *)
(* response per line out").  What the end of the stream cuts off is a line *)
(* too, and may read as a message that the whole line would not have been. *)
InOrder == \A j, k \in 1..Len(out) : j < k => out[j].line < out[k].line
NoneMissed ==
    \A i \in 1..Len(lines) :
        ReadOut(i) /\ Complete(i) => (Answered(i) <=> ~IsQuiet(lines[i]))
CutOffGarbage(i) == lines[i].text = "garbage" /\ ~Complete(i)
ReplyFits(r) ==
    LET m == lines[r.line] IN
    /\ r.line \in 1..Len(lines)
    /\ IsRequest(m) /\ Complete(r.line) /\ m.size <= MaxLine => r.own
    /\ r.own => (m.text = "object" /\ m.id) \/ CutOffGarbage(r.line)
    /\ r.form # "error" => /\ Available(r.line) <= MaxLine
                           /\ IsRequest(m) \/ CutOffGarbage(r.line)
OneReplyPerLine == InOrder /\ NoneMissed /\ \A j \in 1..Len(out) : ReplyFits(out[j])

(* Every complete line that calls for a reply gets one: neither a tool     *)
(* that raises nor an oversized line before it stops the server or         *)
(* swallows it ("report, never crash the server").                         *)
EveryRequestAnswered ==
    \A i \in 1..MaxLines :
        (Complete(i) /\ ~IsQuiet(lines[i])) ~> Answered(i)
=============================================================================
