------------------------------- MODULE Ledger -------------------------------
(***************************************************************************)
(* The entries of lucent/access.py's IdempotencyStore, and what a lookup,  *)
(* an ownership test and an expiry sweep say about them.                   *)
(*                                                                         *)
(* A ledger is a function from keys to entries.  A key the OrderedDict     *)
(* does not hold is mapped to Absent.  The module is shared by the store   *)
(* itself (IdempotencyStore), by the promise it implements (ReplayLedger)  *)
(* and by the paid request path that keeps two ledgers (PaidPreflight).    *)
(***************************************************************************)
EXTENDS Integers, PythonNone

States == {"absent", "reserved", "complete"}

(* An absent key: every field holds the value it has before reserve().     *)
Absent == [state |-> "absent", fp |-> None, token |-> None,
           expires |-> 0, resp |-> None, held |-> 0]

(* The _IdempotencyEntry that reserve() inserts.                           *)
Reserved(fp, token, expires, held) ==
    [state |-> "reserved", fp |-> fp, token |-> token,
     expires |-> expires, resp |-> None, held |-> held]

(* The same entry after commit(): it keeps its fingerprint and its token,  *)
(* gives back the bytes it held, and its clock restarts.                   *)
Completed(e, resp, expires) ==
    [e EXCEPT !.state = "complete", !.resp = resp,
              !.expires = expires, !.held = 0]

IsPresent(e) == e.state # "absent"

Present(L) == {k \in DOMAIN L : IsPresent(L[k])}

(* An entry dies AT expires_at: _expire() compares with <=.                *)
IsExpiredLate(e, t) == IsPresent(e) /\ e.expires < t    \* mutant: strict
IsExpired(e, t) == IsPresent(e) /\ e.expires <= t

(* What remains of a ledger once every entry expired at time t is gone.    *)
Purge(L, t) == [k \in DOMAIN L |-> IF IsExpired(L[k], t) THEN Absent ELSE L[k]]

(* _owns(): the reservation object presented still controls the entry.     *)
OwnsAnyToken(e, fp, token) == e.state = "reserved" /\ e.fp = fp   \* mutant
Owns(e, fp, token) == e.state = "reserved" /\ e.token = token /\ e.fp = fp

(* What reserve() makes of the entry it finds under the key.  The          *)
(* fingerprint is compared before the state is looked at.                  *)
LookupAnyBody(e, fp) ==                                           \* mutant
    CASE ~IsPresent(e)          -> "fresh"
      [] e.state = "reserved"   -> "in_progress"
      [] e.state = "complete"   -> "replay"
Lookup(e, fp) ==
    CASE ~IsPresent(e)                           -> "fresh"
      [] IsPresent(e) /\ e.fp # fp               -> "conflict"
      [] e.fp = fp /\ e.state = "reserved"       -> "in_progress"
      [] e.fp = fp /\ e.state = "complete"       -> "replay"
=============================================================================
