------------------------------ MODULE MCStore -------------------------------
(* IdempotencyStore for TLC.                                               *)
EXTENDS IdempotencyStore, TLC

Symmetry == Permutations(Keys) \cup Permutations(Fingerprints)
=============================================================================
