--------------------------- MODULE VerifiedSource ---------------------------
(***************************************************************************)
(* lucent/verified_source.py, resolve_verified_source(), and the use       *)
(* _bind_verified_source() in lucent/api.py makes of its result.           *)
(*                                                                         *)
(* One resolution is a fixed sequence of JSON-RPC calls pinned to the      *)
(* NUMBER of a finalized block, one Sourcify request, and a last call that *)
(* compares the block's HASH with the pinned one.  Between two calls the   *)
(* endpoint may come to serve another block under that number: fork is     *)
(* the block it serves now.  An abandoned fork does not come back.         *)
(*                                                                         *)
(* What the chain holds is chosen when it is first read, and stays that    *)
(* way on its fork; reads records every answer used.  Bytecode is a member *)
(* of Codes; None stands for empty code and for an empty slot.             *)
(***************************************************************************)
EXTENDS Integers, Sequences

CONSTANTS
    Addrs, Codes, None,
    Target,             \* the address asked for
    DispatchCodes,      \* bytecode with an unsupported dispatch opcode
    MaxHops,            \* MAX_PROXY_HOPS
    MaxRpcCalls,        \* MAX_RPC_CALLS
    MaxHttpRequests,    \* MAX_HTTP_REQUESTS
    MaxForks            \* bound on the blocks served under one number

(* Five calls for each of MaxHops beacon hops, three for the contract at   *)
(* the end, and the chain id, the finalized block and its confirmation.    *)
ASSUME ResolverAssumption ==
    /\ Target \in Addrs /\ None \notin Addrs \cup Codes
    /\ DispatchCodes \subseteq Codes
    /\ MaxHops \in Nat /\ MaxRpcCalls \in Nat /\ MaxHttpRequests \in Nat
    /\ MaxForks \in Nat \ {0}
    /\ MaxRpcCalls >= 5 * MaxHops + 6
    /\ MaxHttpRequests > MaxRpcCalls

VARIABLES
    pc,         \* the answer the resolver waits for, or bind or done
    fork,       \* the block the endpoint serves under the pinned number
    pinned,     \* the hash _finalized_block() returned; 0 before
    reads,      \* the answers used: [fork, what, at, value]
    current,    \* the contract whose slots are read
    slot,       \* implementation, once its slot is read
    beacon,     \* beacon_address, once its slot is read
    code,       \* the bytecode of current
    hops,       \* hops: [proxy, beacon, impl]
    calls,      \* _RpcClient._calls
    requests,   \* _HttpClient._requests
    source,     \* the bytecode Sourcify recorded, once it was accepted
    outcome     \* how the resolution ended

vars == <<pc, fork, pinned, reads, current, slot, beacon, code, hops, calls,
          requests, source, outcome>>
walk == <<current, slot, beacon, code, hops>>
-----------------------------------------------------------------------------
(* _RpcClient.call() and _HttpClient.json(): both budgets are charged      *)
(* before the request is sent.                                             *)
WithinBudget == calls < MaxRpcCalls /\ requests < MaxHttpRequests
Rpc ==
    /\ WithinBudget
    /\ calls' = calls + 1
    /\ requests' = requests + 1

(* What the chain may answer: the same again on the same fork.             *)
Answers(what, at, choices) ==
    LET known == {r \in reads : r.fork = fork /\ r.what = what /\ r.at = at}
    IN  IF known = {} THEN choices ELSE {r.value : r \in known}
Read(what, at, value) ==
    reads' = reads \cup {[fork |-> fork, what |-> what, at |-> at,
                          value |-> value]}

End(how) == pc' = "done" /\ outcome' = how
GoTo(step) == pc' = step /\ UNCHANGED outcome

Visited == {hops[i].proxy : i \in 1..Len(hops)} \cup {current}
-----------------------------------------------------------------------------
(* eth_chainId; an endpoint of another chain is refused.                   *)
ChainId(same) ==
    /\ pc = "chainId"
    /\ Rpc
    /\ IF same THEN GoTo("finalized") ELSE End("chain_mismatch")
    /\ UNCHANGED <<fork, pinned, reads, walk, source>>

(* _finalized_block(): number and hash of the finalized block.             *)
Finalized ==
    /\ pc = "finalized"
    /\ Rpc
    /\ pinned' = fork
    /\ GoTo("code")
    /\ UNCHANGED <<fork, reads, walk, source>>

(* _code_identity() of the contract the walk has reached.                  *)
ReadCode ==
    /\ pc = "code"
    /\ Rpc
    /\ \E c \in Answers("code", current, Codes \cup {None}) :
          /\ Read("code", current, c)
          /\ code' = c
          /\ IF c = None THEN End("no_code") ELSE GoTo("slot")
    /\ UNCHANGED <<fork, pinned, current, slot, beacon, hops, source>>

(* _slot_address() of the implementation slot.                             *)
ReadSlot ==
    /\ pc = "slot"
    /\ Rpc
    /\ \E a \in Answers("slot", current, Addrs \cup {None}) :
          /\ Read("slot", current, a)
          /\ slot' = a
    /\ GoTo("beacon")
    /\ UNCHANGED <<fork, pinned, current, beacon, code, hops, source>>

(* A hop is recorded and the walk goes on at the implementation, unless it *)
(* was there before: the test at the head of the loop.                     *)
FollowUnchecked(b, impl) ==                  \* mutant: no test for cycles
    /\ hops' = Append(hops, [proxy |-> current, beacon |-> b, impl |-> impl])
    /\ current' = impl
    /\ GoTo("code")
Follow(b, impl) ==
    /\ hops' = Append(hops, [proxy |-> current, beacon |-> b, impl |-> impl])
    /\ current' = impl
    /\ IF impl \in Visited THEN End("cycle") ELSE GoTo("code")

(* _slot_address() of the beacon slot, and the decisions up to the next    *)
(* call.  Only a direct target is scanned for dispatch opcodes.            *)
TooDeepLate == Len(hops) > MaxHops                      \* mutant
TooDeep == Len(hops) >= MaxHops
Unscanned == FALSE                                      \* mutant
Unsupported == hops = <<>> /\ code \in DispatchCodes

Ambiguous == slot # None /\ beacon' # None /\ End("ambiguous")
Direct ==
    /\ slot = None /\ beacon' = None
    /\ IF Unsupported THEN End("dispatch") ELSE GoTo("sourcify")
Deep == (slot = None) # (beacon' = None) /\ TooDeep /\ End("depth")
ByBeaconFirst ==           \* mutant: the beacon wins over the slot
    /\ beacon' # None /\ ~TooDeep
    /\ IF beacon' \in Visited THEN End("cycle") ELSE GoTo("beaconCode")
ByBeacon ==
    /\ slot = None /\ beacon' # None /\ ~TooDeep
    /\ IF beacon' \in Visited THEN End("cycle") ELSE GoTo("beaconCode")
BySlot == slot # None /\ beacon' = None /\ ~TooDeep /\ Follow(None, slot)

ReadBeacon ==
    /\ pc = "beacon"
    /\ Rpc
    /\ \E a \in Answers("beacon", current, Addrs \cup {None}) :
          /\ Read("beacon", current, a)
          /\ beacon' = a
    /\ \/ (Ambiguous \/ Direct \/ Deep \/ ByBeacon) /\ UNCHANGED <<current, hops>>
       \/ BySlot
    /\ UNCHANGED <<fork, pinned, slot, code, source>>

(* _code_identity() of the beacon, then its implementation().              *)
ReadBeaconCode ==
    /\ pc = "beaconCode"
    /\ Rpc
    /\ \E c \in Answers("code", beacon, Codes \cup {None}) :
          /\ Read("code", beacon, c)
          /\ IF c = None THEN End("no_code") ELSE GoTo("beaconImpl")
    /\ UNCHANGED <<fork, pinned, walk, source>>

ReadBeaconImpl ==
    /\ pc = "beaconImpl"
    /\ Rpc
    /\ \E a \in Answers("impl", beacon, Addrs) :
          /\ Read("impl", beacon, a)
          /\ \/ a = beacon /\ End("cycle") /\ UNCHANGED <<current, hops>>
             \/ a # beacon /\ Follow(beacon, a)
    /\ UNCHANGED <<fork, pinned, slot, beacon, code, source>>

(* _sourcify_binding(): the record must be of this contract, verified for  *)
(* its runtime code, of the very bytecode read from the chain, and carry a *)
(* usable ABI.                                                             *)
Accepts(c) == c = code
Sourcify(c, identified, verified, abi) ==
    /\ pc = "sourcify"
    /\ requests < MaxHttpRequests
    /\ requests' = requests + 1
    /\ \/ /\ identified /\ verified /\ Accepts(c) /\ abi
          /\ source' = c
          /\ GoTo("confirm")
       \/ /\ ~(identified /\ verified /\ Accepts(c) /\ abi)
          /\ End("not_verified")
          /\ UNCHANGED source
    /\ UNCHANGED <<fork, pinned, reads, walk, calls>>

(* _assert_canonical_block(): the block's number is asked for again and    *)
(* its hash compared.                                                      *)
SameNumber == TRUE                  \* mutant: compares the number only
SameBlock == fork = pinned
Confirm ==
    /\ pc = "confirm"
    /\ Rpc
    /\ IF SameBlock THEN GoTo("bind") ELSE End("changed")
    /\ UNCHANGED <<fork, pinned, reads, walk, source>>

(* A call that is out of budget, late, too large, refused or malformed     *)
(* ends the resolution; so does a slot or beacon word that is no address.  *)
Waiting == pc \notin {"bind", "done"}
GiveUp ==
    /\ Waiting
    /\ End(IF pc # "sourcify" /\ calls >= MaxRpcCalls THEN "rpc_limit"
           ELSE IF requests >= MaxHttpRequests THEN "http_limit"
           ELSE "upstream")
    /\ UNCHANGED <<fork, pinned, reads, walk, calls, requests, source>>

(* _bind_verified_source(): the hosted API clears direct deployments only. *)
Bind ==
    /\ pc = "bind"
    /\ End(IF hops = <<>> THEN "cleared" ELSE "proxy")
    /\ UNCHANGED <<fork, pinned, reads, walk, calls, requests, source>>

(* The endpoint comes to serve another block under the pinned number.      *)
Reorg ==
    /\ Waiting /\ fork < MaxForks
    /\ fork' = fork + 1
    /\ UNCHANGED <<pc, pinned, reads, walk, calls, requests, source, outcome>>

Finished == pc = "done" /\ UNCHANGED vars

Init ==
    /\ pc = "chainId" /\ outcome = "none"
    /\ fork = 1 /\ pinned = 0 /\ reads = {}
    /\ current = Target /\ slot = None /\ beacon = None
    /\ code = None /\ hops = <<>> /\ source = None
    /\ calls = 0 /\ requests = 0

Step ==
    \/ \E same \in BOOLEAN : ChainId(same)
    \/ Finalized
    \/ ReadCode
    \/ ReadSlot
    \/ ReadBeacon
    \/ ReadBeaconCode
    \/ ReadBeaconImpl
    \/ \E c \in Codes, identified, verified, abi \in BOOLEAN :
          Sourcify(c, identified, verified, abi)
    \/ Confirm
    \/ Bind
    \/ GiveUp

Next == Step \/ Reorg \/ Finished

Spec == Init /\ [][Next]_vars
-----------------------------------------------------------------------------
Steps == {"chainId", "finalized", "code", "slot", "beacon", "beaconCode",
          "beaconImpl", "sourcify", "confirm", "bind", "done"}
Outcomes == {"none", "chain_mismatch", "no_code", "cycle", "ambiguous",
             "dispatch", "depth", "not_verified", "changed", "rpc_limit",
             "http_limit", "upstream", "cleared", "proxy"}
Hop == [proxy : Addrs, beacon : Addrs \cup {None}, impl : Addrs]
Answer ==
    [fork : 1..MaxForks, what : {"code"}, at : Addrs, value : Codes \cup {None}]
    \cup [fork : 1..MaxForks, what : {"slot", "beacon"}, at : Addrs,
          value : Addrs \cup {None}]
    \cup [fork : 1..MaxForks, what : {"impl"}, at : Addrs, value : Addrs]

(* Types of the resolver's variables; a beacon that is asked is there.     *)
TypeOK ==
    /\ pc \in Steps
    /\ fork \in 1..MaxForks /\ pinned \in 0..MaxForks
    /\ reads \subseteq Answer
    /\ current \in Addrs
    /\ slot \in Addrs \cup {None} /\ beacon \in Addrs \cup {None}
    /\ pc \in {"beaconCode", "beaconImpl"} => beacon \in Addrs
    /\ code \in Codes \cup {None} /\ source \in Codes \cup {None}
    /\ hops \in Seq(Hop)
    /\ calls \in Nat /\ requests \in Nat
    /\ outcome \in Outcomes

Resolved == pc = "bind" \/ outcome \in {"cleared", "proxy"}
Holds(what, at, value) ==
    [fork |-> pinned, what |-> what, at |-> at, value |-> value] \in reads

(* Every answer a resolution rests on is of the block whose hash it        *)
(* reports, although every read names the block by its number only and the *)
(* endpoint may replace that block between any two calls.                  *)
OneBlock == Resolved => \A r \in reads : r.fork = pinned

(* A resolved chain of proxies is the one the pinned block holds: each hop *)
(* leads from one proxy, by its implementation slot or by its beacon and   *)
(* never by both, to the next; the last contract is no proxy and runs the  *)
(* bytecode that Sourcify verified.                                        *)
HopHolds(h) ==
    \/ /\ h.beacon = None
       /\ Holds("slot", h.proxy, h.impl) /\ Holds("beacon", h.proxy, None)
    \/ /\ h.beacon # None
       /\ Holds("slot", h.proxy, None) /\ Holds("beacon", h.proxy, h.beacon)
       /\ Holds("impl", h.beacon, h.impl)
PathSound ==
    Resolved =>
        /\ \A i \in 1..Len(hops) :
              /\ HopHolds(hops[i])
              /\ hops[i].proxy = IF i = 1 THEN Target ELSE hops[i - 1].impl
        /\ current = IF hops = <<>> THEN Target ELSE hops[Len(hops)].impl
        /\ Holds("slot", current, None) /\ Holds("beacon", current, None)
        /\ Holds("code", current, source)

(* A deployment the hosted API clears runs, at the pinned block and at the *)
(* requested address itself, the verified bytecode: no proxy slot is set   *)
(* and nothing in that bytecode dispatches to code that was not verified.  *)
ClearedIsDirect ==
    outcome = "cleared" =>
        /\ Holds("slot", Target, None) /\ Holds("beacon", Target, None)
        /\ Holds("code", Target, source)
        /\ source \in Codes \ DispatchCodes

(* The walk never comes back: no contract is entered twice, no hop's       *)
(* beacon is one of the proxies before it, and the chain stays within      *)
(* MAX_PROXY_HOPS.                                                         *)
NoCycle ==
    /\ Len(hops) <= MaxHops
    /\ \A i, j \in 1..Len(hops) :
          /\ hops[i].proxy = hops[j].proxy => i = j
          /\ i <= j => hops[i].proxy # hops[j].beacon
    /\ pc = "done" \/ \A i \in 1..Len(hops) : hops[i].proxy # current

(* The walk's own limits are the only ones that end it: the longest chain  *)
(* of beacons that MAX_PROXY_HOPS admits is resolved and confirmed within  *)
(* MAX_RPC_CALLS and MAX_HTTP_REQUESTS, so no such deployment is refused   *)
(* for its length.                                                         *)
LimitsSuffice == outcome \notin {"rpc_limit", "http_limit"}
=============================================================================
