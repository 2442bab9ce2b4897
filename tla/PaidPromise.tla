---------------------------- MODULE PaidPromise -----------------------------
(***************************************************************************)
(* What the paid path promises a client and a merchant, without clocks,    *)
(* ledgers or reservations:                                                *)
(*                                                                         *)
(*   - a signed authorization is submitted once, ever;                     *)
(*   - a request is turned away only if nothing was submitted for it;      *)
(*   - it is served, or told that its payment failed, only when that is    *)
(*     what became of the transfer;                                        *)
(*   - a replay repeats a settled request of the same key, call and proof. *)
(*                                                                         *)
(* PaidPreflight keeps it with tombstones that expire: the window check    *)
(* makes up for what the claim store forgets.                              *)
(***************************************************************************)
EXTENDS PythonNone

CONSTANTS Req, Key, Body, BadBody, Proof, AuthOf, IdentifierOf

VARIABLES asked, wire, told

vars == <<wire, told, asked>>

Nothing == [key |-> None, body |-> None, proof |-> None, from |-> None]
Request(k, b, p, from) == [key |-> k, body |-> b, proof |-> p, from |-> from]

Settled == {"served", "declined", "unknown"}
AuthorizationOf(r) == AuthOf[asked[r].proof]

(* A request is taken in: its call is well formed and its payment is bound *)
(* to its key.                                                             *)
Ask(r) ==
    /\ told[r] = "none" /\ asked[r] = Nothing
    /\ UNCHANGED <<wire, told>>
    /\ \E k \in Key, b \in Body \ BadBody, p \in Proof :
          /\ IdentifierOf[p] = k
          /\ asked' = [asked EXCEPT ![r] = Request(k, b, p, None)]

Refuse(r) ==
    /\ wire[r] = "none" /\ told[r] = "none"
    /\ UNCHANGED <<wire, asked>>
    /\ told' = [told EXCEPT ![r] = "refused"]

Submit(r) ==
    /\ wire[r] = "none" /\ told[r] = "none" /\ asked[r] # Nothing
    /\ \A s \in Req : wire[s] # "none" => AuthorizationOf(s) # AuthorizationOf(r)
    /\ wire' = [wire EXCEPT ![r] = "submitted"]
    /\ UNCHANGED <<asked, told>>

Transfer(r) ==
    /\ wire[r] = "submitted"
    /\ \E result \in {"executed", "failed"} : wire' = [wire EXCEPT ![r] = result]
    /\ UNCHANGED <<asked, told>>

Settle(r) ==
    /\ wire[r] # "none" /\ told[r] = "none"
    /\ UNCHANGED <<wire, asked>>
    /\ \E out \in Settled :
          /\ out = "served" => wire[r] = "executed"
          /\ out = "declined" => wire[r] = "failed"
          /\ told' = [told EXCEPT ![r] = out]

Replay(r) ==
    /\ told[r] = "none" /\ asked[r] = Nothing
    /\ told' = [told EXCEPT ![r] = "replayed"]
    /\ UNCHANGED wire
    /\ \E o \in Req :
          /\ told[o] \in Settled
          /\ asked' = [asked EXCEPT
                ![r] = Request(asked[o].key, asked[o].body, asked[o].proof, o)]

Init ==
    /\ asked = [r \in Req |-> Nothing]
    /\ wire = [r \in Req |-> "none"]
    /\ told = [r \in Req |-> "none"]

Step(r) == Ask(r) \/ Refuse(r) \/ Submit(r) \/ Transfer(r) \/ Settle(r) \/ Replay(r)
(* Most steps of the paid path are none of the promise's: that they change *)
(* nothing here is the first thing to test.                                *)
Next == UNCHANGED vars \/ \E r \in Req : Step(r)

Spec == Init /\ [][Next]_vars
=============================================================================
