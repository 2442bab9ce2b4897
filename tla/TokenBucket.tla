---------------------------- MODULE TokenBucket -----------------------------
(***************************************************************************)
(* lucent/access.py, class TokenBucketLimiter: one in-memory token bucket  *)
(* per configured tenant, refilled lazily when it is used.                 *)
(*                                                                         *)
(* consume() reads the clock once, under the lock.  The clock is a         *)
(* parameter of the limiter and is not trusted: successive readings may go *)
(* forwards, stand still or go backwards.  Tokens are counted in integer   *)
(* grains, a grain being the fraction of a token that makes the refill of  *)
(* one clock unit whole; the code's floats and its 1e-12 tolerance are     *)
(* rounding around the same quantities.                                    *)
(***************************************************************************)
EXTENDS Integers, PythonNone

CONSTANTS
    Tenants,
    Capacity,    \* Tenants -> grains: policy.capacity
    Rate,        \* Tenants -> grains per clock unit: refill_tokens_per_second
    Costs,       \* costs a caller asks for, in grains
    MaxTime      \* bound on clock readings

ASSUME BucketAssumption ==
    /\ Capacity \in [Tenants -> Nat \ {0}]
    /\ Rate \in [Tenants -> Nat \ {0}]
    /\ Costs \subseteq Nat \ {0}
    /\ MaxTime \in Nat
    /\ None \notin Int

VARIABLES
    tokens,    \* Tenants -> grains left in the bucket
    last,      \* Tenants -> last_refill, None before the first use
    spent,     \* history: grains admitted since the window was opened
    since,     \* history: last_refill when the window was opened
    promise    \* history: what the first refusal since the last admission
               \* promised, None if there is none or the clock was behind

bucketVars == <<tokens, last, spent, since, promise>>

Lesser(a, b) == IF a <= b THEN a ELSE b
Greater(a, b) == IF a >= b THEN a ELSE b

(* The refill: elapsed time counts from the latest reading ever seen.      *)
Refilled(t, reading) ==
    IF last[t] = None THEN Capacity[t]
    ELSE Lesser(Capacity[t],
                tokens[t] + Greater(0, reading - last[t]) * Rate[t])

LatestFollowsClock(t, reading) == reading                       \* mutant
Latest(t, reading) ==
    IF last[t] = None THEN reading ELSE Greater(last[t], reading)

(* The Retry-After header: the time the missing grains take, rounded up to *)
(* whole clock units, at least one.                                        *)
RetryAfterFloor(missing, rate) == Greater(1, missing \div rate)  \* mutant
RetryAfter(missing, rate) == Greater(1, (missing + rate - 1) \div rate)
-----------------------------------------------------------------------------
(* A bucket used for the first time opens its own window.                  *)
WindowStart(t, reading) == IF last[t] = None THEN reading ELSE since[t]

Admit(t, cost, reading) ==
    /\ cost <= Refilled(t, reading)
    /\ tokens' = [tokens EXCEPT ![t] = Refilled(t, reading) - cost]
    /\ spent' = [spent EXCEPT ![t] = @ + cost]
    /\ promise' = [promise EXCEPT ![t] = None]

(* QuotaExceededError: the refill is kept, nothing is consumed.  The       *)
(* client counts Retry-After from the reading at which it was refused; the *)
(* bucket counts from the latest reading ever seen, so what a clock that   *)
(* is behind makes it advertise is no promise.                             *)
ClockBehind(t, reading) == last[t] # None /\ reading < last[t]

Refuse(t, cost, reading) ==
    LET have == Refilled(t, reading) IN
    /\ cost > have
    /\ tokens' = [tokens EXCEPT ![t] = have]
    /\ promise' = [promise EXCEPT ![t] =
         IF @ # None \/ ClockBehind(t, reading) THEN @ ELSE
         [cost |-> cost, from |-> reading + RetryAfter(cost - have, Rate[t])]]
    /\ UNCHANGED spent

(* consume(tenant_id, cost): a cost above the capacity is a ValueError.    *)
Consume(t, cost, reading) ==
    /\ cost <= Capacity[t]
    /\ last' = [last EXCEPT ![t] = Latest(t, reading)]
    /\ since' = [since EXCEPT ![t] = WindowStart(t, reading)]
    /\ Admit(t, cost, reading) \/ Refuse(t, cost, reading)

(* The observer opens a new window at any time; no code runs.              *)
OpenWindow(t) ==
    /\ last[t] # None
    /\ spent' = [spent EXCEPT ![t] = 0]
    /\ since' = [since EXCEPT ![t] = last[t]]
    /\ UNCHANGED <<tokens, last, promise>>

BucketInit ==
    /\ tokens = Capacity
    /\ last = [t \in Tenants |-> None]
    /\ spent = [t \in Tenants |-> 0]
    /\ since = [t \in Tenants |-> 0]
    /\ promise = [t \in Tenants |-> None]

BucketNext ==
    \/ \E t \in Tenants, cost \in Costs, reading \in 0..MaxTime :
          Consume(t, cost, reading)
    \/ \E t \in Tenants : OpenWindow(t)

BucketSpec == BucketInit /\ [][BucketNext]_bucketVars
-----------------------------------------------------------------------------
(* The bucket's numbers stay in range, and an unused bucket has no past.   *)
BucketTypeOK ==
    /\ tokens \in [Tenants -> Int]
    /\ \A t \in Tenants : 0 <= tokens[t] /\ tokens[t] <= Capacity[t]
    /\ last \in [Tenants -> Nat \cup {None}]
    /\ spent \in [Tenants -> Nat] /\ since \in [Tenants -> Nat]
    /\ promise \in [Tenants -> [cost : Nat, from : Nat] \cup {None}]
    /\ \A t \in Tenants : last[t] # None => since[t] <= last[t]
    /\ \A t \in Tenants : last[t] = None => spent[t] = 0 /\ promise[t] = None

(* The rate limit: in any window of the clock the tenant is admitted no    *)
(* more than one full bucket plus the refill of that window, whatever the  *)
(* clock did in between ("moving backwards must not make the next forward  *)
(* reading double-count elapsed time").                                    *)
AdmissionBound ==
    \A t \in Tenants : last[t] # None =>
        spent[t] + tokens[t] <= Capacity[t] + Rate[t] * (last[t] - since[t])

(* Retry-After is enough: a tenant that was refused, at a reading that was *)
(* not behind an earlier one, and was admitted nothing since, finds the    *)
(* grains it asked for at any reading that far after its refusal, however  *)
(* often it was refused meanwhile and wherever the clock went in between.  *)
(* A refusal while the clock is behind last_refill promises nothing: its   *)
(* Retry-After is short by as much as the clock is behind.                 *)
RetrySuffices ==
    \A t \in Tenants : promise[t] # None =>
        /\ promise[t].cost <= Capacity[t]
        /\ promise[t].cost
             <= tokens[t] + Rate[t] * Greater(0, promise[t].from - last[t])
=============================================================================
