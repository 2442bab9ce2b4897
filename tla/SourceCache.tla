---------------------------- MODULE SourceCache -----------------------------
(***************************************************************************)
(* lucent/hosted.py, class VerifiedSourceCache: a byte-bounded LRU cache   *)
(* of verified-source results, with single-flight resolution and a short   *)
(* memory of failures.                                                     *)
(*                                                                         *)
(* Threads of the server's pool call resolve(key), again and again.  The   *)
(* code under the condition's lock is one action; the resolver runs        *)
(* outside the lock for any length of time.  A thread that finds its key   *)
(* in flight waits on the condition and, once notified, looks again from   *)
(* the top of the loop; new callers may get the lock before it does.       *)
(***************************************************************************)
EXTENDS OrderedDict, FiniteSets, FiniteSetsExt, Functions

CONSTANTS
    Threads, Keys,
    Sizes,          \* cache_size_bytes a resolution may produce
    TTL,            \* ttl_seconds
    NegativeTTL,    \* negative_ttl_seconds; 0 disables the failure memory
    MaxEntries,     \* max_entries, also the limit on keys in flight
    MaxBytes,       \* max_bytes
    MaxTime,        \* bound on the monotonic clock
    None

ASSUME CacheAssumption ==
    /\ TTL \in Nat \ {0} /\ NegativeTTL \in Nat
    /\ MaxEntries \in Nat \ {0} /\ MaxBytes \in Nat \ {0}
    /\ Sizes \subseteq Nat /\ MaxTime \in Nat
    /\ None \notin Keys \cup [size : Sizes, expires : Nat]

VARIABLES
    entries,    \* Keys -> [size, expires] or None
    order,      \* the keys of entries, least recently used first
    bytes,      \* _cached_bytes
    failures,   \* Keys -> expires, 0 for none
    failOrder,  \* the keys of failures, oldest first
    inflight,   \* _inflight
    now,
    pc,         \* idle, resolving, waiting, woken or done
    key,        \* the key each thread's present call asked for
    got         \* how the present call ended: a result or an exception

vars == <<entries, order, bytes, failures, failOrder, inflight, now,
          pc, key, got>>
-----------------------------------------------------------------------------
Cached(E) == {k \in Keys : E[k] # None}
Failed(F) == {k \in Keys : F[k] # 0}
SizeIn(E) == [k \in Keys |-> IF E[k] = None THEN 0 ELSE E[k].size]
BytesOf(E, K) == SumFunctionOnSet(SizeIn(E), K)
Drop(E, K) == [k \in Keys |-> IF k \in K THEN None ELSE E[k]]
Forget(F, K) == [k \in Keys |-> IF k \in K THEN 0 ELSE F[k]]

(* _expire_locked(): both tables drop what has run out.                    *)
StaleLate == {k \in Cached(entries) : entries[k].expires < now}  \* mutant
Stale == {k \in Cached(entries) : entries[k].expires <= now}
StaleFailures == {k \in Failed(failures) : failures[k] <= now}

(* The tables resolve() works on after the sweep.                          *)
E1 == Drop(entries, Stale)
F1 == Forget(failures, StaleFailures)
O1 == Without(order, Stale)
FO1 == Without(failOrder, StaleFailures)
B1 == bytes - BytesOf(entries, Stale)

(* One turn of the loop in resolve(), for a thread that arrives or that    *)
(* was notified: a hit, a remembered failure, no room for one more key in  *)
(* flight, leadership, or a wait.                                          *)
HitUncounted(t, k) ==                    \* mutant: sweep skips the counter
    /\ E1[k] # None
    /\ entries' = E1 /\ bytes' = bytes /\ order' = ToEnd(O1, k)
    /\ failures' = F1 /\ failOrder' = FO1
    /\ got' = [got EXCEPT ![t] = "value"]
    /\ pc' = [pc EXCEPT ![t] = "done"]
    /\ UNCHANGED inflight
Hit(t, k) ==
    /\ E1[k] # None
    /\ entries' = E1 /\ bytes' = B1 /\ order' = ToEnd(O1, k)
    /\ failures' = F1 /\ failOrder' = FO1
    /\ got' = [got EXCEPT ![t] = "value"]
    /\ pc' = [pc EXCEPT ![t] = "done"]
    /\ UNCHANGED inflight

KnownFailure(t, k) ==
    /\ E1[k] = None /\ F1[k] # 0
    /\ entries' = E1 /\ bytes' = B1 /\ order' = O1
    /\ failures' = F1 /\ failOrder' = ToEnd(FO1, k)
    /\ got' = [got EXCEPT ![t] = "raised"]
    /\ pc' = [pc EXCEPT ![t] = "done"]
    /\ UNCHANGED inflight

Miss(k) ==
    /\ E1[k] = None /\ F1[k] = 0
    /\ entries' = E1 /\ bytes' = B1 /\ order' = O1
    /\ failures' = F1 /\ failOrder' = FO1

Refuse(t, k) ==
    /\ Miss(k)
    /\ k \notin inflight /\ Cardinality(inflight) >= MaxEntries
    /\ got' = [got EXCEPT ![t] = "raised"]
    /\ pc' = [pc EXCEPT ![t] = "done"]
    /\ UNCHANGED inflight

LeadAlways(t, k) ==                    \* mutant: does not look at inflight
    /\ Miss(k)
    /\ inflight' = inflight \cup {k}
    /\ pc' = [pc EXCEPT ![t] = "resolving"]
    /\ UNCHANGED got
LeadUnbounded(t, k) ==                     \* mutant: no limit on inflight
    /\ Miss(k)
    /\ k \notin inflight
    /\ inflight' = inflight \cup {k}
    /\ pc' = [pc EXCEPT ![t] = "resolving"]
    /\ UNCHANGED got
Lead(t, k) ==
    /\ Miss(k)
    /\ k \notin inflight /\ Cardinality(inflight) < MaxEntries
    /\ inflight' = inflight \cup {k}
    /\ pc' = [pc EXCEPT ![t] = "resolving"]
    /\ UNCHANGED got

Wait(t, k) ==
    /\ Miss(k)
    /\ k \in inflight
    /\ pc' = [pc EXCEPT ![t] = "waiting"]
    /\ UNCHANGED <<inflight, got>>

Look(t, k) ==
    \/ Hit(t, k)
    \/ KnownFailure(t, k)
    \/ Refuse(t, k)
    \/ Lead(t, k)
    \/ Wait(t, k)

Call(t, k) ==
    /\ pc[t] = "idle"
    /\ Look(t, k)
    /\ key' = [key EXCEPT ![t] = k]
    /\ UNCHANGED now

LookAgain(t) ==
    /\ pc[t] = "woken"
    /\ Look(t, key[t])
    /\ UNCHANGED <<key, now>>
-----------------------------------------------------------------------------
(* The leader leaves: its key is no longer in flight and every waiter of   *)
(* the condition, whatever its key, is notified.                           *)
LeaveNotifyOne(t, how) ==            \* mutant: notify() instead of notify_all()
    /\ inflight' = inflight \ {key[t]}
    /\ \/ \E w \in Threads : /\ pc[w] = "waiting"
                            /\ pc' = [pc EXCEPT ![t] = "done", ![w] = "woken"]
       \/ /\ \A w \in Threads : pc[w] # "waiting"
          /\ pc' = [pc EXCEPT ![t] = "done"]
    /\ got' = [got EXCEPT ![t] = how]
Leave(t, how) ==
    /\ inflight' = inflight \ {key[t]}
    /\ pc' = [u \in Threads |-> CASE u = t               -> "done"
                                  [] pc[u] = "waiting"   -> "woken"
                                  [] OTHER               -> pc[u]]
    /\ got' = [got EXCEPT ![t] = how]

(* _store_success_locked(): the n least recently used entries that must go *)
(* for one entry of that size.                                             *)
Oldest(s, n) == {s[i] : i \in 1..n}
EnoughEvicted(E, s, b, size) ==
    {n \in 0..Len(s) :
        \/ n = Len(s)
        \/ /\ Cardinality(Cached(E)) - n < MaxEntries
           /\ b - BytesOf(E, Oldest(s, n)) + size <= MaxBytes}

StoreUnbounded(k, size) ==                      \* mutant: evicts nothing
    /\ entries' = [entries EXCEPT ![k] = [size |-> size, expires |-> now + TTL]]
    /\ order' = ToEnd(order, k)
    /\ bytes' = bytes + size
Store(k, size) ==
    LET E == Drop(entries, {k})
        O == Without(order, {k})
        B == bytes - BytesOf(entries, {k})
        victims == Oldest(O, Min(EnoughEvicted(E, O, B, size)))
    IN  IF size > MaxBytes
        THEN UNCHANGED <<entries, order, bytes>>
        ELSE /\ entries' = [Drop(E, victims) EXCEPT
                              ![k] = [size |-> size, expires |-> now + TTL]]
             /\ order' = Append(Without(O, victims), k)
             /\ bytes' = B - BytesOf(E, victims) + size

ResolveOK(t, size) ==
    /\ pc[t] = "resolving"
    /\ Store(key[t], size)
    /\ Leave(t, "value")
    /\ UNCHANGED <<failures, failOrder, key, now>>

(* A VerifiedSourceError is remembered for NegativeTTL; the oldest         *)
(* remembered failures make way.                                           *)
RememberOnly(k) ==                    \* mutant: a longer memory, no limit
    IF NegativeTTL = 0
    THEN UNCHANGED <<failures, failOrder>>
    ELSE /\ failures' = [failures EXCEPT ![k] = now + NegativeTTL]
         /\ failOrder' = ToEnd(failOrder, k)
RememberFailure(k) ==
    LET O == ToEnd(failOrder, k)
        excess == IF Len(O) > MaxEntries THEN Oldest(O, Len(O) - MaxEntries)
                                         ELSE {}
    IN  IF NegativeTTL = 0
        THEN UNCHANGED <<failures, failOrder>>
        ELSE /\ failures' = Forget([failures EXCEPT ![k] = now + NegativeTTL],
                                   excess)
             /\ failOrder' = Without(O, excess)

ResolveFail(t) ==
    /\ pc[t] = "resolving"
    /\ RememberFailure(key[t])
    /\ Leave(t, "raised")
    /\ UNCHANGED <<entries, order, bytes, key, now>>

(* Any other exception is not remembered.                                  *)
ResolveCrash(t) ==
    /\ pc[t] = "resolving"
    /\ Leave(t, "raised")
    /\ UNCHANGED <<entries, order, bytes, failures, failOrder, key, now>>

Tick ==
    /\ now < MaxTime
    /\ now' = now + 1
    /\ UNCHANGED <<entries, order, bytes, failures, failOrder, inflight,
                   pc, key, got>>

(* The caller takes what resolve() gave it; its thread may call again.     *)
Return(t) ==
    /\ pc[t] = "done"
    /\ pc' = [pc EXCEPT ![t] = "idle"]
    /\ key' = [key EXCEPT ![t] = None]
    /\ got' = [got EXCEPT ![t] = "none"]
    /\ UNCHANGED <<entries, order, bytes, failures, failOrder, inflight, now>>

Init ==
    /\ entries = [k \in Keys |-> None] /\ order = <<>> /\ bytes = 0
    /\ failures = [k \in Keys |-> 0] /\ failOrder = <<>>
    /\ inflight = {}
    /\ now = 0
    /\ pc = [t \in Threads |-> "idle"]
    /\ key = [t \in Threads |-> None]
    /\ got = [t \in Threads |-> "none"]

Resolve(t) ==
    \/ \E size \in Sizes : ResolveOK(t, size)
    \/ ResolveFail(t)
    \/ ResolveCrash(t)

Next ==
    \/ \E t \in Threads, k \in Keys : Call(t, k)
    \/ \E t \in Threads : LookAgain(t)
    \/ \E t \in Threads : Resolve(t)
    \/ \E t \in Threads : Return(t)
    \/ Tick

Spec == Init /\ [][Next]_vars

(* A notified thread gets the lock again, and the resolver has a deadline. *)
Fairness == \A t \in Threads : WF_vars(LookAgain(t)) /\ WF_vars(Resolve(t))

FairSpec == Spec /\ Fairness
-----------------------------------------------------------------------------
(* Types of the threads' states, and that a thread at work has a key.      *)
ThreadsOK ==
    /\ inflight \subseteq Keys
    /\ pc \in [Threads -> {"idle", "resolving", "waiting", "woken", "done"}]
    /\ key \in [Threads -> Keys \cup {None}]
    /\ \A t \in Threads : pc[t] # "idle" => key[t] \in Keys

(* Types of the threads and of the cache's tables.                         *)
TypeOK ==
    /\ ThreadsOK
    /\ entries \in [Keys -> [size : Sizes, expires : Nat] \cup {None}]
    /\ order \in Seq(Keys) /\ bytes \in Int
    /\ failures \in [Keys -> Nat] /\ failOrder \in Seq(Keys)
    /\ now \in Nat
    /\ got \in [Threads -> {"none", "value", "raised"}]

(* One thread at most resolves a key, and _inflight is exactly the set of  *)
(* keys being resolved: a leader that fails, in whatever way, leaves no    *)
(* key behind that would block every later caller.                         *)
SingleFlight ==
    /\ \A t, u \in Threads :
          (pc[t] = "resolving" /\ pc[u] = "resolving" /\ key[t] = key[u]) => t = u
    /\ \A k \in Keys :
          k \in inflight <=> \E t \in Threads : pc[t] = "resolving" /\ key[t] = k

(* No wakeup is lost: a thread that waits on the condition waits for a     *)
(* resolution that is still running.                                       *)
NoLostWakeup ==
    \A t \in Threads : pc[t] = "waiting" =>
        \E u \in Threads : pc[u] = "resolving" /\ key[u] = key[t]

(* The byte counter is exact and every table, the set of keys in flight    *)
(* included, respects its limit; each OrderedDict lists its keys once.     *)
CacheBounded ==
    /\ bytes = BytesOf(entries, Cached(entries)) /\ bytes <= MaxBytes
    /\ Cardinality(Cached(entries)) <= MaxEntries
    /\ Cardinality(Failed(failures)) <= MaxEntries
    /\ Cardinality(inflight) <= MaxEntries
    /\ Len(order) = Cardinality(Cached(entries))
    /\ {order[i] : i \in 1..Len(order)} = Cached(entries)
    /\ Len(failOrder) = Cardinality(Failed(failures))
    /\ {failOrder[i] : i \in 1..Len(failOrder)} = Failed(failures)

(* A thread that did not resolve the key itself is served a result that    *)
(* has not run out when it is served, also when it slept on the condition  *)
(* for longer than the result's whole life.                                *)
FreshStep ==
    \A t \in Threads :
        (pc[t] # "resolving" /\ got[t] = "none" /\ got'[t] = "value") =>
            /\ entries[key'[t]] # None
            /\ now < entries[key'[t]].expires
ServedFresh == [][FreshStep]_vars

(* A call is under way; another thread takes the lead for its key between  *)
(* its notification and its turn at the lock.                              *)
Busy(t) == pc[t] \in {"resolving", "waiting", "woken"}
Overtaken(t) ==
    /\ pc[t] = "woken"
    /\ \E u \in Threads \ {t} : /\ pc[u] # "resolving" /\ pc'[u] = "resolving"
                                /\ key'[u] = key[t]

(* Only new callers can keep a call from returning: it ends, whether its   *)
(* leader succeeds, fails or crashes, and even when the result is too      *)
(* large to be kept for the waiters, or it is overtaken without end.  The  *)
(* condition of resolve() is not fair: callers that keep arriving and      *)
(* whose results are never cached may take the lead each time before the   *)
(* notified thread has the lock.                                           *)
ReturnsUnlessOvertaken ==
    \A t \in Threads : []<>(~Busy(t)) \/ []<><<Overtaken(t)>>_vars
=============================================================================
