------------------------------ MODULE MCApiKey ------------------------------
(* ApiKeyPreflight for TLC.                                                *)
EXTENDS ApiKeyPreflight, TLC

Symmetry == Permutations(Req) \cup Permutations(Key) \cup Permutations(Body \ BadBody)
=============================================================================
