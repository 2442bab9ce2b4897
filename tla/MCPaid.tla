------------------------------- MODULE MCPaid -------------------------------
(***************************************************************************)
(* PaidPreflight for TLC.  Three proofs: p1 and p2 wrap the same           *)
(* authorization a1 under two keys (a rewrapped authorization), p3 wraps   *)
(* a2 under p1's key.  The time constants keep the code's order:           *)
(* verification < reservation TTL < payment window <= claim TTL.           *)
(***************************************************************************)
EXTENDS PaidPreflight, TLC

CONSTANTS k1, k2, p1, p2, p3, a1, a2

MCAuthOf == (p1 :> a1) @@ (p2 :> a1) @@ (p3 :> a2)
MCIdentifierOf == (p1 :> k1) @@ (p2 :> k2) @@ (p3 :> k1)
MCValidAfter == (a1 :> 0) @@ (a2 :> 1)
MCValidBefore == (a1 :> 3) @@ (a2 :> 5)
MCResultLimits == [entries |-> 2, hold |-> 2, size |-> 1, total |-> 3]
MCClaimLimits == [entries |-> 2, hold |-> 1, size |-> 1, total |-> 2]

Symmetry == Permutations(Req)
=============================================================================
