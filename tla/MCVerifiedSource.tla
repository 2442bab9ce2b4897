-------------------------- MODULE MCVerifiedSource --------------------------
(* VerifiedSource for TLC.  The target is told apart from other addresses; *)
(* the others, and the harmless bytecodes, are interchangeable.            *)
EXTENDS VerifiedSource, TLC

Symmetry == Permutations(Addrs \ {Target}) \cup Permutations(Codes \ DispatchCodes)
=============================================================================
