----------------------------- MODULE MCVerdict ------------------------------
(***************************************************************************)
(* Verdict for TLC.  A format is the faithful one of its function with     *)
(* faults: another intent, a text too long, fields missing, added or with  *)
(* one attribute changed; two of the fields that matter most, or one of    *)
(* any field, together with a fault in the text.                           *)
(***************************************************************************)
EXTENDS Verdict

Fn(name, mut, args) == [name |-> name, mut |-> mut, args |-> args, uint |-> "amount"]

MCFunctions ==
    {Fn("transfer", "nonpayable", {"address", "uint"}),
     Fn("transfer", "unstated", {"uint"}),
     Fn("withdraw", "nonpayable", {"uint"}),
     Fn("withdraw", "nonpayable", {"address", "uint"}),
     Fn("approve", "payable", {"address", "uint"}),
     Fn("setApprovalForAll", "nonpayable", {"address", "bool"}),
     Fn("grantRole", "payable", {"address"}),
     Fn("permit", "nonpayable", {"address", "uint"}),
     Fn("execute", "payable", {"bytes"}),
     Fn("other", "nonpayable", {"uint"}),
     Fn("other", "payable", {"address", "bytes"}),
     Fn("other", "payable", {"list"}),
     Fn("other", "legacyPayable", {}),
     Fn("setApprovalForAll", "legacyPayable", {"address", "bool"})}
    \cup {[Fn("approve", "nonpayable", {"address", "uint"}) EXCEPT !.uint = u] :
              u \in {"amount", "tokenId", "token_id"}}

FaithfulField(p) ==
    [visible |-> "always", named |-> TRUE,
     format |-> CASE p \in {"address", "to"} -> "addressName"
                  [] p = "value" -> "amount"
                  [] OTHER -> "raw"]
FaithfulFields(fn) ==
    [p \in Paths |-> IF p \in fn.args \/ (p = "value" /\ Payable(fn))
                     THEN FaithfulField(p) ELSE None]
Faulty(p) ==
    LET f == FaithfulField(p) IN
    {None} \cup {[f EXCEPT !.visible = v] : v \in {"default", "if", "never"}}
    \cup {[f EXCEPT !.format = x] : x \in {"addressName", "raw", "amount", "reference"}}
    \cup {[f EXCEPT !.named = FALSE]}

FieldsWithin(fn) ==
    LET base == FaithfulFields(fn)
        main == fn.args \cup {"value"}
        one == UNION {{[base EXCEPT ![p] = f] : f \in Faulty(p)} :
                         p \in main \cup {"to", "foreign"}}
        two == UNION {{[g EXCEPT ![p] = f] : f \in Faulty(p)} :
                         g \in one, p \in main}
    IN  one \cup two
MCFormats(fn) ==
    [intent : {"move", "grant", "revoke", "nft", "none"}, long : {FALSE},
     fields : FieldsWithin(fn)]
    \cup [intent : {"move", "grant", "revoke", "nft"}, long : {TRUE},
          fields : {FaithfulFields(fn)}]

(* Every entry alone; pairs of functions with different signatures, their  *)
(* formats faithful but for the intent, or missing; and a contract without *)
(* a function to sign.                                                     *)
MCEntries == UNION {[fn : {f}, fmt : MCFormats(f) \cup {None}] : f \in MCFunctions}
Plain(f) ==
    [fn : {f}, fmt : {None} \cup [intent : {"move", "grant", "revoke", "nft"},
                                 long : {FALSE}, fields : {FaithfulFields(f)}]]
SameSignature(f, g) == f.name = g.name /\ f.args = g.args
MCPairs ==
    UNION {IF SameSignature(f, g) THEN {} ELSE {{x, y} : x \in Plain(f), y \in Plain(g)} :
               f, g \in MCFunctions}
MCDescriptors == {{}} \cup {{e} : e \in MCEntries} \cup MCPairs
=============================================================================
