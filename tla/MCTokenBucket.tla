--------------------------- MODULE MCTokenBucket ----------------------------
(* TokenBucket for TLC.  Buckets do not interact, so one tenant is enough. *)
EXTENDS TokenBucket, TLC

CONSTANT tenant

MCCapacity == tenant :> 7
MCRate == tenant :> 3
=============================================================================
