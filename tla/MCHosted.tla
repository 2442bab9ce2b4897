------------------------------ MODULE MCHosted ------------------------------
(***************************************************************************)
(* HostedService for TLC: two requests, two tenants, two proofs, one key.  *)
(***************************************************************************)
EXTENDS HostedService, TLC

Symmetry == Permutations(Req) \cup Permutations(Proof)
=============================================================================
