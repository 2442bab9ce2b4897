----------------------------- MODULE PythonNone -----------------------------
(***************************************************************************)
(* Python's None, which the store, the rate limiter, the hosted service    *)
(* and the descriptor watch all use for what is not there (yet).           *)
(***************************************************************************)
CONSTANT None
=============================================================================
