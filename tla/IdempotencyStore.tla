-------------------------- MODULE IdempotencyStore --------------------------
(***************************************************************************)
(* lucent/access.py, class IdempotencyStore: a TTL/LRU store of completed  *)
(* responses and of reservations for work in flight.                       *)
(*                                                                         *)
(* Every public method runs under one RLock, so each is one action.  What  *)
(* is concurrent is the callers: a reservation object (a ticket) may be    *)
(* presented to commit() or abort() at any later time, any number of       *)
(* times, long after its entry expired, was replaced by another caller's   *)
(* reservation or was completed.                                           *)
(***************************************************************************)
EXTENDS Ledger, OrderedDict, FiniteSets, FiniteSetsExt, Functions

CONSTANTS
    Keys,               \* (tenant id, sha256 of the Idempotency-Key) pairs
    Fingerprints,       \* request fingerprints
    Sizes,              \* response sizes a caller may try to publish
    TTL,                \* ttl_seconds
    ReservationTTL,     \* reservation_ttl_seconds
    MaxEntries,         \* max_entries
    MaxResponseBytes,   \* max_response_bytes
    MaxTotalBytes,      \* max_total_response_bytes
    MaxTime,            \* bound on the monotonic clock
    MaxTokens           \* bound on the reservations handed out

(* What __init__ insists on.                                               *)
ASSUME StoreAssumption ==
    /\ TTL \in Nat \ {0} /\ ReservationTTL \in Nat \ {0}
    /\ MaxEntries \in Nat \ {0}
    /\ MaxResponseBytes \in Nat \ {0}
    /\ MaxTotalBytes \in Nat /\ MaxTotalBytes >= MaxResponseBytes
    /\ Sizes \subseteq Nat
    /\ MaxTime \in Nat /\ MaxTokens \in Nat

ASSUME NoneAssumption ==
    /\ None \notin Keys \cup Fingerprints \cup Nat
    /\ None \notin [by : Nat, size : Nat] \cup [size : Nat, at : Nat]

(* Tenants are configured and a key is a sha256 digest: finitely many.     *)
ASSUME KeysAssumption == IsFiniteSet(Keys)

VARIABLES
    evict,      \* evict_completed_entries, fixed when the store is made: TRUE
                \* on the API-key path, FALSE for the two payment stores
    store,      \* [entries, order, cached, held]: the OrderedDict (mapping
                \* and order, oldest first) and the two byte counters
    now,        \* the monotonic clock
    tickets,    \* tickets[i]: the key and fingerprint of reservation token i
    published,  \* history: published[i] is what token i committed, or None
    reply       \* the last method's outcome

vars == <<evict, store, now, tickets, published, reply>>

Tokens == 1..Len(tickets)

Response == [by : Nat, size : Sizes]
Entry == [state : States, fp : Fingerprints \cup {None},
          token : Nat \cup {None}, expires : Nat,
          resp : Response \cup {None}, held : Nat]
Reply == [op : {"init", "reserve", "commit", "abort"},
          key : Keys \cup {None}, fp : Fingerprints \cup {None},
          outcome : {"none", "conflict", "in_progress", "replay", "capacity",
                     "reserved", "too_large", "invalid", "committed",
                     "aborted", "not_owner"},
          resp : Response \cup {None}]
-----------------------------------------------------------------------------
(* IdempotencyResponse.size_bytes of the response an entry holds.          *)
SizeOf(e) == IF e.resp = None THEN 0 ELSE e.resp.size

CachedBytes(L, K) == SumFunctionOnSet([k \in Keys |-> SizeOf(L[k])], K)
HeldBytes(L, K) == SumFunctionOnSet([k \in Keys |-> L[k].held], K)

(* _remove() of every key of K: pop the entry, settle both byte counters.  *)
RemoveKeepsBytes(st, K) ==           \* mutant: the counters are forgotten
    [st EXCEPT
        !.entries = [k \in Keys |-> IF k \in K THEN Absent ELSE st.entries[k]],
        !.order = Without(st.order, K)]
Remove(st, K) ==
    [entries |-> [k \in Keys |-> IF k \in K THEN Absent ELSE st.entries[k]],
     order   |-> Without(st.order, K),
     cached  |-> st.cached - CachedBytes(st.entries, K),
     held    |-> st.held - HeldBytes(st.entries, K)]

ExpireNothing(st, t) == st                         \* mutant: no sweep
Expire(st, t) == Remove(st, {k \in Keys : IsExpired(st.entries[k], t)})

(* OrderedDict.move_to_end(): the key becomes the most recently used.      *)
MoveToEnd(st, k) == [st EXCEPT !.order = ToEnd(st.order, k)]

CompletedKeys(st) == {k \in Keys : st.entries[k].state = "complete"}

(* The n completed keys that _oldest_completed_key() yields first.         *)
OldestAnyState(st, n) ==             \* mutant: reservations are victims too
    {k \in Keys : IsPresent(st.entries[k]) /\
        \E i \in 1..Len(st.order) : st.order[i] = k /\ i <= n}
OldestCompleted(st, n) ==
    {k \in CompletedKeys(st) : \E i \in 1..Len(st.order) :
        /\ st.order[i] = k
        /\ Cardinality({j \in 1..i : st.order[j] \in CompletedKeys(st)}) <= n}

(* _make_room(): the keys reserve() evicts for one more entry.             *)
VictimsAlways(st) ==                  \* mutant: ignores the mode
    IF Cardinality(Present(st.entries)) >= MaxEntries
    THEN OldestCompleted(st, 1) ELSE {}
EntryVictims(st) ==
    IF evict /\ Cardinality(Present(st.entries)) >= MaxEntries
    THEN OldestCompleted(st, 1) ELSE {}

(* _make_room() and the byte pre-reservation of the mode without eviction. *)
HeldFor == IF evict THEN 0 ELSE MaxResponseBytes

CanReserveUnheld(st) ==              \* mutant: forgets the bytes promised
    /\ Cardinality(Present(st.entries) \ EntryVictims(st)) < MaxEntries
    /\ evict \/ st.cached + HeldFor <= MaxTotalBytes
CanReserve(st) ==
    /\ Cardinality(Present(st.entries) \ EntryVictims(st)) < MaxEntries
    /\ evict \/ st.cached + st.held + HeldFor <= MaxTotalBytes

(* _make_response_room(): how many completed entries the loop may evict so *)
(* that size more bytes fit.                                               *)
Enough(st, size) ==
    {n \in 0..Cardinality(CompletedKeys(st)) :
        st.cached - CachedBytes(st.entries, OldestCompleted(st, n)) + size
            <= MaxTotalBytes}

NoResponseVictims(st, size) == {}                 \* mutant: no room is made
ResponseVictims(st, size) ==
    IF evict THEN OldestCompleted(st, Min(Enough(st, size))) ELSE {}

(* commit() finds room: some prefix of the completed entries is enough, or *)
(* the bytes the entry held cover the response.                            *)
CanPublish(st, k, size) ==
    IF evict
    THEN Enough(st, size) # {}
    ELSE st.cached + st.held - st.entries[k].held + size <= MaxTotalBytes
-----------------------------------------------------------------------------
NoReply == [op |-> "init", key |-> None, fp |-> None,
            outcome |-> "none", resp |-> None]

Answer(op, k, fp, outcome, resp) ==
    reply' = [op |-> op, key |-> k, fp |-> fp, outcome |-> outcome,
              resp |-> resp]

(* The new entry goes last in the OrderedDict and holds HeldFor bytes.     *)
Insert(st, k, fp, token) ==
    [entries |-> [st.entries EXCEPT
                    ![k] = Reserved(fp, token, now + ReservationTTL, HeldFor)],
     order   |-> Append(st.order, k),
     cached  |-> st.cached,
     held    |-> st.held + HeldFor]

(* reserve(tenant_id, key, fingerprint)                                    *)
Reserve(k, fp) ==
    LET st   == Expire(store, now)
        e    == st.entries[k]
        what == Lookup(e, fp)
    IN  \/ /\ what \in {"conflict", "in_progress"}
           /\ store' = st
           /\ Answer("reserve", k, fp, what, None)
           /\ UNCHANGED <<now, tickets, published>>
        \/ /\ what = "replay"
           /\ store' = MoveToEnd(st, k)
           /\ Answer("reserve", k, fp, what, e.resp)
           /\ UNCHANGED <<now, tickets, published>>
        \/ /\ what = "fresh" /\ ~CanReserve(st)
           /\ store' = st
           /\ Answer("reserve", k, fp, "capacity", None)
           /\ UNCHANGED <<now, tickets, published>>
        \/ /\ what = "fresh" /\ CanReserve(st)
           /\ Len(tickets) < MaxTokens
           /\ store' = Insert(Remove(st, EntryVictims(st)), k, fp,
                              Len(tickets) + 1)
           /\ tickets' = Append(tickets, [key |-> k, fp |-> fp])
           /\ published' = Append(published, None)
           /\ Answer("reserve", k, fp, "reserved", None)
           /\ UNCHANGED now

(* The owned entry is completed and becomes the most recently used.  The   *)
(* source calls the branch with no room a defensive invariant; by then an  *)
(* evicting store has given up every completed entry.                      *)
Publish(st, k, size) ==
    LET room == Remove(st, ResponseVictims(st, size))
        e    == room.entries[k]
    IN  MoveToEnd([room EXCEPT
            !.entries[k] = Completed(e, [by |-> e.token, size |-> size],
                                     now + TTL),
            !.cached = @ + size,
            !.held = @ - e.held], k)

GiveUp(st) == IF evict THEN Remove(st, CompletedKeys(st)) ELSE st

(* commit(reservation, response).  The size is tested before the lock is   *)
(* taken, so an oversized response does not even sweep expired entries.    *)
Commit(i, size) ==
    LET st == Expire(store, now)
        k  == tickets[i].key
        fp == tickets[i].fp
        owned == Owns(st.entries[k], fp, i)
        fits  == CanPublish(st, k, size)
    IN  \/ /\ size > MaxResponseBytes
           /\ Answer("commit", None, None, "too_large", None)
           /\ UNCHANGED <<store, now, tickets, published>>
        \/ /\ size <= MaxResponseBytes /\ ~owned
           /\ store' = st
           /\ Answer("commit", None, None, "invalid", None)
           /\ UNCHANGED <<now, tickets, published>>
        \/ /\ size <= MaxResponseBytes /\ owned
           /\ store' = IF fits THEN Publish(st, k, size) ELSE GiveUp(st)
           /\ published' = IF fits
                           THEN [published EXCEPT ![i] =
                                    [size |-> size, at |-> now]]
                           ELSE published
           /\ Answer("commit", None, None,
                     IF fits THEN "committed" ELSE "capacity", None)
           /\ UNCHANGED <<now, tickets>>

(* abort(reservation)                                                      *)
Abort(i) ==
    LET st == Expire(store, now)
        k  == tickets[i].key
        fp == tickets[i].fp
        owned == Owns(st.entries[k], fp, i)
    IN  /\ store' = IF owned THEN Remove(st, {k}) ELSE st
        /\ Answer("abort", None, None, IF owned THEN "aborted" ELSE "not_owner", None)
        /\ UNCHANGED <<now, tickets, published>>

(* len(store) and store.cached_response_bytes sweep expired entries.       *)
Query ==
    /\ store' = Expire(store, now)
    /\ UNCHANGED <<now, tickets, published, reply>>

Tick ==
    /\ now < MaxTime
    /\ now' = now + 1
    /\ reply' = NoReply
    /\ UNCHANGED <<store, tickets, published>>

Init ==
    /\ evict \in BOOLEAN
    /\ store = [entries |-> [k \in Keys |-> Absent], order |-> <<>>,
                cached |-> 0, held |-> 0]
    /\ now = 0
    /\ tickets = <<>>
    /\ published = <<>>
    /\ reply = NoReply

Next ==
    /\ \/ \E k \in Keys, fp \in Fingerprints : Reserve(k, fp)
       \/ \E i \in Tokens, size \in Sizes : Commit(i, size)
       \/ \E i \in Tokens : Abort(i)
       \/ Query
       \/ Tick
    /\ UNCHANGED evict

Spec == Init /\ [][Next]_vars
-----------------------------------------------------------------------------
(* The entries are well formed: an absent key carries nothing, a           *)
(* reservation has an issued token and no response, a completed entry has  *)
(* the response its own token published and holds no promised bytes.       *)
EntriesOK ==
    /\ store.entries \in [Keys -> Entry]
    /\ \A k \in Keys : LET e == store.entries[k] IN
        /\ e.state = "absent" => e = Absent
        /\ IsPresent(e) => /\ e.token \in Tokens
                           /\ tickets[e.token] = [key |-> k, fp |-> e.fp]
        /\ e.state = "reserved" => /\ e.resp = None
                                   /\ e.held = HeldFor
                                   /\ published[e.token] = None
        /\ e.state = "complete" =>
               /\ e.held = 0
               /\ published[e.token] # None
               /\ e.resp = [by |-> e.token, size |-> published[e.token].size]
               /\ e.expires = published[e.token].at + TTL

HistoryOK ==
    /\ tickets \in Seq([key : Keys, fp : Fingerprints])
    /\ published \in Seq([size : Sizes, at : Nat] \cup {None})
    /\ Len(published) = Len(tickets)
    /\ now \in Nat /\ evict \in BOOLEAN

(* Type correctness of the store, its counters and the callers' tickets.   *)
TypeOK ==
    /\ EntriesOK
    /\ HistoryOK
    /\ store.order \in Seq(Keys)
    /\ store.cached \in Int /\ store.held \in Int
    /\ reply \in Reply

(* The OrderedDict lists every entry once, and the two running counters    *)
(* equal the bytes that the entries hold, whatever mix of sweeps,          *)
(* evictions, late commits and aborts produced them: the two underflow     *)
(* checks in _remove() can never fire.  Memory stays bounded: entries and  *)
(* bytes, promised bytes included, respect their limits.                   *)
Accounting ==
    /\ store.cached = CachedBytes(store.entries, Keys)
    /\ store.held = HeldBytes(store.entries, Keys)
    /\ Len(store.order) = Cardinality(Present(store.entries))
    /\ {store.order[i] : i \in 1..Len(store.order)} = Present(store.entries)
    /\ Cardinality(Present(store.entries)) <= MaxEntries
    /\ store.cached + store.held <= MaxTotalBytes

(* A replay is exactly what the latest holder of that key committed for    *)
(* that fingerprint, and it was committed less than TTL ago.               *)
ReplayFaithful ==
    reply.outcome = "replay" =>
        /\ reply.resp # None /\ reply.resp.by \in Tokens
        /\ tickets[reply.resp.by] = [key |-> reply.key, fp |-> reply.fp]
        /\ published[reply.resp.by] # None
        /\ published[reply.resp.by].size = reply.resp.size
        /\ now < published[reply.resp.by].at + TTL

-----------------------------------------------------------------------------
Promise == INSTANCE ReplayLedger WITH
    ledger <- Purge(store.entries, now)

(* The store with its lazy sweeps, recency order and byte counters         *)
(* behaves, outcome for outcome, like a ledger whose entries vanish the    *)
(* instant they expire: reserve(), commit() and abort() never answer from  *)
(* an entry whose time is up, refuse room only when they must, and never   *)
(* refuse it to the owner of a reservation ("capacity failure occurs       *)
(* before paid work starts rather than after it finishes").  No            *)
(* eviction takes a reservation, and without evict nothing takes a         *)
(* published outcome ("payment callers can preserve every unexpired        *)
(* outcome").                                                              *)
ImplementsPromise == Promise!Spec
=============================================================================
