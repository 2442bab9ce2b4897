------------------------------ MODULE MCWatch -------------------------------
(***************************************************************************)
(* Watch for TLC: a proxy and a plain contract.  The proxy's               *)
(* implementations are v1, which its screens cover, v2 with one more       *)
(* function, v3 with v1's functions and other bytes, and v4, whose source  *)
(* nobody has verified; only Etherscan has v3.                             *)
(***************************************************************************)
EXTENDS Watch, TLC

CONSTANTS shell, plain, v1, v2, v3, v4

MCSelf == (1 :> shell) @@ (2 :> plain)
MCAbiOf == [c \in Code |-> c]
MCSignable == (shell :> {"upgradeTo"}) @@ (plain :> {"commit"})
              @@ (v1 :> {"swap"}) @@ (v2 :> {"swap", "sweep"})
              @@ (v3 :> {"swap"}) @@ (v4 :> {"swap"})
MCCovered == (1 :> {"swap"}) @@ (2 :> {"commit"})
=============================================================================
