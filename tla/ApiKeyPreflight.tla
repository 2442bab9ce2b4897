-------------------------- MODULE ApiKeyPreflight ---------------------------
(***************************************************************************)
(* The API-key path of POST /v1/preflight (lucent/api.py,                  *)
(* transaction_preflight) with the AccessController of lucent/access.py:   *)
(* tenants, one token bucket each, and one evicting idempotency store that *)
(* all tenants share, its entries scoped by tenant.                        *)
(*                                                                         *)
(* The handler runs on one event loop and awaits once, the verified-source *)
(* resolution.  A cancellation there is not an Exception: nothing is       *)
(* released.  The store is the ledger of ReplayLedger, which               *)
(* IdempotencyStore implements; which completed entry an eviction takes is *)
(* left open.  A request is the token of its reservation.  Tokens count in *)
(* units that one tick refills by Rate.                                    *)
(***************************************************************************)
EXTENDS Ledger, FiniteSets

CONSTANTS
    Req,              \* requests
    Tenant,           \* configured tenants; a key is known by its tenant
    Enabled,          \* those not disabled
    Key,              \* Idempotency-Key values
    Body, BadBody,    \* canonical requests; those the first pass rejects
    Capacity, Rate,   \* the tenants' quota policy
    TTL,              \* idempotency_ttl_seconds
    ReservationTTL,   \* reservation_ttl_seconds
    MaxEntries,       \* max_idempotency_entries
    MaxTime           \* bound on the monotonic clock

ASSUME ApiKeyAssumption ==
    /\ Enabled \subseteq Tenant /\ BadBody \subseteq Body
    /\ Capacity \in Nat \ {0} /\ Rate \in Nat \ {0}
    /\ TTL \in Nat \ {0} /\ ReservationTTL \in Nat \ {0}
    /\ MaxEntries \in Nat \ {0} /\ MaxTime \in Nat
    /\ None \notin Req \cup Tenant \cup Key \cup Body

VARIABLES
    now,       \* the clock of the bucket and of the store
    store,     \* (tenant, key) -> entry
    tokens,    \* tenant -> tokens at its last refill
    last,      \* tenant -> time of its last refill
    pc,        \* idle, source, cancelled or done
    job,       \* what each request asked for, and when
    answer     \* what each request was told

vars == <<now, store, tokens, last, pc, job, answer>>

Slot == Tenant \X Key
SlotOf(r) == <<job[r].tenant, job[r].key>>
CompletedSlots == {s \in Slot : store[s].state = "complete"}
NoJob == [tenant |-> None, key |-> None, body |-> None, at |-> 0, from |-> None]
-----------------------------------------------------------------------------
(* consume(): refill, then take one token.                                 *)
Refilled(t) ==
    LET filled == tokens[t] + (now - last[t]) * Rate
    IN  IF filled <= Capacity THEN filled ELSE Capacity
SetBucket(t, left) ==
    /\ tokens' = [tokens EXCEPT ![t] = left]
    /\ last' = [last EXCEPT ![t] = now]
Charge(t) == SetBucket(t, Refilled(t) - 1)

(* reserve(): when every place is taken a completed entry makes way.       *)
Full == Cardinality(Present(store)) >= MaxEntries
EvictAny ==                                \* mutant: reservations too
    IF Full THEN {[store EXCEPT ![s] = Absent] : s \in Present(store)}
            ELSE {store}
EvictEarly ==                          \* mutant: also when there is room
    {[store EXCEPT ![s] = Absent] : s \in CompletedSlots}
    \cup (IF Full THEN {} ELSE {store})
Evictions ==
    IF Full THEN {[store EXCEPT ![s] = Absent] : s \in CompletedSlots}
            ELSE {store}

(* abort() and commit() act for the owner only.  A commit may evict other  *)
(* completed entries for the bytes it needs.                               *)
ReleaseNothing(r) == store                                           \* mutant
Release(r) ==
    [store EXCEPT ![SlotOf(r)] = IF Owns(@, job[r].body, r) THEN Absent ELSE @]

OwnerAnyone(r) == TRUE                                               \* mutant
Owner(r) == Owns(store[SlotOf(r)], job[r].body, r)
Without(K) == [s \in Slot |-> IF s \in K THEN Absent ELSE store[s]]
Published(r) ==
    {[Without(K) EXCEPT ![SlotOf(r)] = Completed(@, r, now + TTL)] :
        K \in SUBSET CompletedSlots}
-----------------------------------------------------------------------------
Accept(r, t, k, b, from) ==
    job' = [job EXCEPT ![r] = [tenant |-> t, key |-> k, body |-> b,
                               at |-> now, from |-> from]]
Finish(r, ans) ==
    /\ pc' = [pc EXCEPT ![r] = "done"]
    /\ answer' = [answer EXCEPT ![r] = ans]

(* authenticate(): an unknown key and a disabled tenant look the same.     *)
Unauthorized(r, t) ==
    /\ t \notin Enabled
    /\ Finish(r, "unauthorized")
    /\ UNCHANGED <<store, tokens, last, job>>

(* QuotaExceededError: the refill is kept.                                 *)
OverQuota(r, t, k, b) ==
    /\ t \in Enabled /\ Refilled(t) < 1
    /\ SetBucket(t, Refilled(t))
    /\ Finish(r, "quota")
    /\ UNCHANGED <<store, job>>

(* The token is spent; now the key is looked up.  A missing or malformed   *)
(* Idempotency-Key is refused only here.                                   *)
Admitted(t) == t \in Enabled /\ Refilled(t) >= 1 /\ Charge(t)
Found(t, k, b) == Lookup(store[<<t, k>>], b)

InvalidKey(r, t, b) ==
    /\ Admitted(t)
    /\ Accept(r, t, None, b, None)
    /\ Finish(r, "invalid_key")
    /\ UNCHANGED store

Collide(r, t, k, b) ==
    /\ Admitted(t)
    /\ Found(t, k, b) \in {"conflict", "in_progress"}
    /\ Accept(r, t, k, b, None)
    /\ Finish(r, Found(t, k, b))
    /\ UNCHANGED store

ReplayFree(r, t, k, b) ==                  \* mutant: replays cost nothing
    /\ t \in Enabled /\ Refilled(t) >= 1
    /\ SetBucket(t, Refilled(t))
    /\ Found(t, k, b) = "replay"
    /\ Accept(r, t, k, b, store[<<t, k>>].resp)
    /\ Finish(r, "replayed")
    /\ UNCHANGED store
Replay(r, t, k, b) ==
    /\ Admitted(t)
    /\ Found(t, k, b) = "replay"
    /\ Accept(r, t, k, b, store[<<t, k>>].resp)
    /\ Finish(r, "replayed")
    /\ UNCHANGED store
NoRoom(r, t, k, b) ==
    /\ Admitted(t)
    /\ Found(t, k, b) = "fresh" /\ Evictions = {}
    /\ Accept(r, t, k, b, None)
    /\ Finish(r, "capacity")
    /\ UNCHANGED store

(* The key is reserved and the first pass refuses the call: the key is     *)
(* aborted in the same step, but an evicted entry stays evicted.           *)
Reject(r, t, k, b) ==
    /\ Admitted(t)
    /\ Found(t, k, b) = "fresh" /\ b \in BadBody
    /\ store' \in Evictions
    /\ Accept(r, t, k, b, None)
    /\ Finish(r, "failed")

Admit(r, t, k, b) ==
    /\ Admitted(t)
    /\ Found(t, k, b) = "fresh" /\ b \notin BadBody
    /\ \E L \in Evictions :
          store' = [L EXCEPT ![<<t, k>>] =
                      Reserved(b, r, now + ReservationTTL, 0)]
    /\ Accept(r, t, k, b, None)
    /\ pc' = [pc EXCEPT ![r] = "source"]
    /\ UNCHANGED answer

Arrive(r, t, k, b) ==
    /\ pc[r] = "idle"
    /\ \/ Unauthorized(r, t)
       \/ OverQuota(r, t, k, b)
       \/ InvalidKey(r, t, b)
       \/ Collide(r, t, k, b)
       \/ Replay(r, t, k, b)
       \/ NoRoom(r, t, k, b)
       \/ Reject(r, t, k, b)
       \/ Admit(r, t, k, b)
    /\ UNCHANGED now

(* The resolution fails, or the response cannot be built: the handler      *)
(* aborts and reports the error.                                           *)
SourceFail(r) ==
    /\ pc[r] = "source"
    /\ store' = Release(r)
    /\ Finish(r, "failed")
    /\ UNCHANGED <<now, tokens, last, job>>

(* The result is committed and returned.  When the commit is refused, for  *)
(* the owner is no longer the owner or body and headers are too large, the *)
(* reservation is aborted and the result returned all the same.            *)
SourceReturn(r, fits) ==
    /\ pc[r] = "source"
    /\ \/ /\ fits /\ Owner(r)
          /\ store' \in Published(r)
       \/ /\ ~(fits /\ Owner(r))
          /\ store' = Release(r)
    /\ Finish(r, "served")
    /\ UNCHANGED <<now, tokens, last, job>>

Cancel(r) ==
    /\ pc[r] = "source"
    /\ pc' = [pc EXCEPT ![r] = "cancelled"]
    /\ UNCHANGED <<now, store, tokens, last, job, answer>>

Tick ==
    /\ now < MaxTime
    /\ now' = now + 1
    /\ store' = Purge(store, now')
    /\ UNCHANGED <<tokens, last, pc, job, answer>>

(* Every request has ended and the clock is at its bound.                  *)
Finished ==
    /\ \A r \in Req : pc[r] \in {"done", "cancelled"}
    /\ now = MaxTime
    /\ UNCHANGED vars

Init ==
    /\ now = 0
    /\ store = [s \in Slot |-> Absent]
    /\ tokens = [t \in Tenant |-> Capacity] /\ last = [t \in Tenant |-> 0]
    /\ pc = [r \in Req |-> "idle"]
    /\ job = [r \in Req |-> NoJob]
    /\ answer = [r \in Req |-> "none"]

Next ==
    \/ \E r \in Req, t \in Tenant, k \in Key, b \in Body : Arrive(r, t, k, b)
    \/ \E r \in Req : SourceFail(r)
    \/ \E r \in Req, fits \in BOOLEAN : SourceReturn(r, fits)
    \/ \E r \in Req : Cancel(r)
    \/ Tick
    \/ Finished

Spec == Init /\ [][Next]_vars
-----------------------------------------------------------------------------
Entry ==
    [state : States, fp : Body \cup {None}, token : Req \cup {None},
     expires : Nat, resp : Req \cup {None}, held : {0}]
Answers == {"none", "unauthorized", "quota", "invalid_key", "conflict",
            "in_progress", "replayed", "capacity", "failed", "served"}

(* Types of the handlers, the store and the buckets.                       *)
TypeOK ==
    /\ now \in Nat
    /\ store \in [Slot -> Entry]
    /\ tokens \in [Tenant -> 0..Capacity]
    /\ last \in [Tenant -> 0..now]
    /\ pc \in [Req -> {"idle", "source", "cancelled", "done"}]
    /\ job \in [Req -> [tenant : Tenant \cup {None}, key : Key \cup {None},
                        body : Body \cup {None}, at : 0..now,
                        from : Req \cup {None}]]
    /\ answer \in [Req -> Answers]
    /\ \A r \in Req : pc[r] \in {"source", "cancelled"} =>
          job[r].tenant \in Tenant /\ job[r].key \in Key /\ job[r].body \in Body

(* Quota pays for everything a tenant gets beyond a 401 or a 429, be it a  *)
(* result, a replay, a conflict or a failure: at any time the tenant has   *)
(* had no more than a full bucket and what was refilled since the start.   *)
QuotaCoversAttempts ==
    \A t \in Tenant :
        Cardinality({r \in Req : job[r].tenant = t}) + tokens[t]
            <= Capacity + Rate * last[t]

(* A replay is the result of an earlier request of the same tenant, under  *)
(* the same key and for the same call, that was itself served; never the   *)
(* outcome of a failed attempt and never another tenant's.                 *)
ReplayBinding ==
    \A r \in Req : answer[r] = "replayed" =>
        LET o == job[r].from IN
        /\ o \in Req \ {r} /\ answer[o] = "served"
        /\ job[o].tenant = job[r].tenant /\ job[o].key = job[r].key
        /\ job[o].body = job[r].body

(* While its reservation lasts, a handler at work owns its key, whatever   *)
(* other tenants do to the shared store and whatever became of requests    *)
(* that held the key before.                                               *)
WorkProtected ==
    \A r \in Req : pc[r] = "source" /\ now < job[r].at + ReservationTTL =>
        Owner(r)

(* A key is held only by a handler at work or by a cancelled one: every    *)
(* other way a request ends leaves its key free or completed, so a failed  *)
(* attempt can be repeated at once under the same key, and room is refused *)
(* only for work that may still be going on.                               *)
OnlyWorkHolds ==
    \A s \in Slot : store[s].state = "reserved" =>
        LET r == store[s].token IN
        /\ r \in Req /\ pc[r] \in {"source", "cancelled"}
        /\ SlotOf(r) = s /\ now < job[r].at + ReservationTTL

(* What one tenant stored stays, for its TTL, unless the shared store is   *)
(* full or a commit needs its bytes: an attempt that is refused, replayed  *)
(* or that fails at its source takes nothing from anybody.                 *)
RefusalStep ==
    \A r \in Req :
        answer[r] = "none" /\ answer'[r] \in Answers \ {"none", "served"} =>
            \A s \in CompletedSlots :
                store'[s] # store[s] => Full /\ answer'[r] = "failed"
RefusalsTakeNothing == [][RefusalStep]_vars
=============================================================================
