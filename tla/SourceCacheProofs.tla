------------------------- MODULE SourceCacheProofs --------------------------
(***************************************************************************)
(* VerifiedSourceCache, for any number of threads and keys and any limits: *)
(* single flight, no lost wakeup, tables within their limits and an exact  *)
(* byte counter, and nothing stale served.  That a waiter waits for a      *)
(* running resolution rests on _inflight being exact, which rests on one   *)
(* leader per key (FlightInv).  That the counter is exact and eviction     *)
(* makes enough room rests on each order listing its table once            *)
(* (CacheInv).                                                             *)
(***************************************************************************)
EXTENDS SourceCache, CollectionLemmas, TLAPS

(* Single flight needs to know that those who wait have a leader.          *)
FlightInv == ThreadsOK /\ SingleFlight /\ NoLostWakeup

(* What one turn of resolve()'s loop does to the threads: the call ends,   *)
(* or the thread leads a key nobody leads, or it waits for a led key.      *)
LEMMA LookEffect ==
    ASSUME NEW t \in Threads, NEW k \in Keys, Look(t, k)
    PROVE  \/ /\ pc' = [pc EXCEPT ![t] = "done"] /\ inflight' = inflight
           \/ /\ pc' = [pc EXCEPT ![t] = "resolving"]
              /\ k \notin inflight /\ inflight' = inflight \cup {k}
           \/ /\ pc' = [pc EXCEPT ![t] = "waiting"]
              /\ k \in inflight /\ inflight' = inflight
  BY DEF Look, Hit, KnownFailure, Refuse, Lead, Wait

(* A turn of the loop keeps the invariant, for a new call or a woken one.  *)
LEMMA LookPreserves ==
    ASSUME FlightInv, NEW t \in Threads, NEW k \in Keys,
           pc[t] \in {"idle", "woken"}, Look(t, k),
           key' = [key EXCEPT ![t] = k]
    PROVE  FlightInv'
  <1>1. /\ \A u \in Threads \ {t} : pc'[u] = pc[u] /\ key'[u] = key[u]
        /\ key'[t] = k /\ pc[t] # "resolving"
    BY LookEffect DEF FlightInv, ThreadsOK
  <1>2. CASE pc' = [pc EXCEPT ![t] = "done"] /\ inflight' = inflight
    <2>1. pc'[t] = "done"
      BY <1>2 DEF FlightInv, ThreadsOK
    <2>2. ThreadsOK'
      BY <1>2 DEF FlightInv, ThreadsOK
    <2>3. SingleFlight' /\ NoLostWakeup'
      BY <1>1, <1>2, <2>1 DEF FlightInv, SingleFlight, NoLostWakeup
    <2>4. QED
      BY <2>2, <2>3 DEF FlightInv
  <1>3. CASE /\ pc' = [pc EXCEPT ![t] = "resolving"]
             /\ k \notin inflight /\ inflight' = inflight \cup {k}
    <2>1. pc'[t] = "resolving"
      BY <1>3 DEF FlightInv, ThreadsOK
    <2>2. ThreadsOK'
      BY <1>3 DEF FlightInv, ThreadsOK
    <2>3. \A u \in Threads \ {t} : pc'[u] = "resolving" => key'[u] # k
      BY <1>1, <1>3 DEF FlightInv, SingleFlight
    <2>4. SingleFlight'
      BY <1>1, <1>3, <2>1, <2>3 DEF FlightInv, SingleFlight
    <2>5. NoLostWakeup'
      BY <1>1, <2>1 DEF FlightInv, NoLostWakeup
    <2>6. QED
      BY <2>2, <2>4, <2>5 DEF FlightInv
  <1>4. CASE /\ pc' = [pc EXCEPT ![t] = "waiting"]
             /\ k \in inflight /\ inflight' = inflight
    <2>1. pc'[t] = "waiting"
      BY <1>4 DEF FlightInv, ThreadsOK
    <2>2. ThreadsOK'
      BY <1>4 DEF FlightInv, ThreadsOK
    <2>3. SingleFlight'
      BY <1>1, <1>4, <2>1 DEF FlightInv, SingleFlight
    <2>4. \E u \in Threads \ {t} : pc'[u] = "resolving" /\ key'[u] = k
      BY <1>1, <1>4 DEF FlightInv, SingleFlight
    <2>5. NoLostWakeup'
      BY <1>1, <2>1, <2>4 DEF FlightInv, NoLostWakeup
    <2>6. QED
      BY <2>2, <2>3, <2>5 DEF FlightInv
  <1>5. QED
    BY <1>2, <1>3, <1>4, LookEffect

(* A leader that leaves wakes every waiter, so none is left behind.        *)
LEMMA LeavePreserves ==
    ASSUME FlightInv, NEW t \in Threads, NEW how,
           pc[t] = "resolving", Leave(t, how), key' = key
    PROVE  FlightInv'
  <1>1. /\ pc'[t] = "done"
        /\ \A u \in Threads : pc'[u] # "waiting"
        /\ \A u \in Threads : pc'[u] = "resolving" <=>
                               (u # t /\ pc[u] = "resolving")
        /\ inflight' = inflight \ {key[t]}
    BY DEF Leave
  <1>2. ThreadsOK'
    <2>1. pc' \in [Threads -> {"idle", "resolving", "waiting", "woken", "done"}]
      BY DEF Leave, FlightInv, ThreadsOK
    <2>2. \A u \in Threads : pc'[u] # "idle" => pc[u] # "idle"
      BY DEF Leave, FlightInv, ThreadsOK
    <2>3. QED
      BY <1>1, <2>1, <2>2 DEF FlightInv, ThreadsOK
  <1>3. SingleFlight'
    BY <1>1 DEF FlightInv, SingleFlight
  <1>4. NoLostWakeup'
    BY <1>1 DEF NoLostWakeup
  <1>5. QED
    BY <1>2, <1>3, <1>4 DEF FlightInv

(* The inductive invariant of the single-flight protocol.                  *)
THEOREM FlightInvariant == Spec => []FlightInv
  <1>1. Init => FlightInv
    BY DEF Init, FlightInv, ThreadsOK, SingleFlight, NoLostWakeup
  <1>2. FlightInv /\ [Next]_vars => FlightInv'
    <2>1. SUFFICES ASSUME FlightInv, [Next]_vars PROVE FlightInv'
      OBVIOUS
    <2>2. ASSUME NEW t \in Threads, NEW k \in Keys, Call(t, k)
          PROVE  FlightInv'
      BY <2>1, <2>2, LookPreserves DEF Call
    <2>3. ASSUME NEW t \in Threads, LookAgain(t)
          PROVE  FlightInv'
      <3>1. key[t] \in Keys /\ key' = [key EXCEPT ![t] = key[t]]
        BY <2>1, <2>3 DEF LookAgain, FlightInv, ThreadsOK
      <3>2. QED
        BY <2>1, <2>3, <3>1, LookPreserves DEF LookAgain
    <2>4. ASSUME NEW t \in Threads, Resolve(t)
          PROVE  FlightInv'
      <3>1. PICK how : pc[t] = "resolving" /\ Leave(t, how) /\ key' = key
        BY <2>4 DEF Resolve, ResolveOK, ResolveFail, ResolveCrash
      <3>2. QED
        BY <2>1, <3>1, LeavePreserves
    <2>5. CASE Tick \/ UNCHANGED vars
      BY <2>1, <2>5
      DEF Tick, vars, FlightInv, ThreadsOK, SingleFlight, NoLostWakeup
    <2>6. ASSUME NEW t \in Threads, Return(t)
          PROVE  FlightInv'
      <3>1. /\ pc[t] = "done" /\ pc'[t] = "idle" /\ inflight' = inflight
            /\ \A u \in Threads \ {t} : pc'[u] = pc[u] /\ key'[u] = key[u]
        BY <2>1, <2>6 DEF Return, FlightInv, ThreadsOK
      <3>2. ThreadsOK'
        BY <2>1, <2>6, <3>1 DEF Return, FlightInv, ThreadsOK
      <3>3. SingleFlight' /\ NoLostWakeup'
        BY <2>1, <3>1 DEF FlightInv, SingleFlight, NoLostWakeup
      <3>4. QED
        BY <3>2, <3>3 DEF FlightInv
    <2>7. QED
      BY <2>1, <2>2, <2>3, <2>4, <2>5, <2>6 DEF Next
  <1>3. QED
    BY <1>1, <1>2, PTL DEF Spec

(* At most one resolution per key, and _inflight is exact.                 *)
THEOREM SingleFlightHolds == Spec => []SingleFlight
  <1>1. FlightInv => SingleFlight
    BY DEF FlightInv
  <1>2. QED
    BY <1>1, FlightInvariant, PTL

(* A waiting thread waits for a resolution that is still running.          *)
THEOREM NoLostWakeupHolds == Spec => []NoLostWakeup
  <1>1. FlightInv => NoLostWakeup
    BY DEF FlightInv
  <1>2. QED
    BY <1>1, FlightInvariant, PTL
-----------------------------------------------------------------------------
(* The tables, as records of sizes and deadlines and as sets of deadlines. *)
Results == [size : Sizes, expires : Nat]
Tables == [Keys -> Results \cup {None}]

(* A table of results with its order and its byte count: exact, listed     *)
(* once each, and within both limits.                                      *)
SoundResults(E, s, b) ==
    /\ E \in Tables
    /\ Lists(s, Cached(E))
    /\ b = BytesOf(E, Cached(E)) /\ b <= MaxBytes
    /\ Cardinality(Cached(E)) <= MaxEntries

(* The same for the remembered failures.                                   *)
SoundFailures(F, s) ==
    /\ F \in [Keys -> Nat]
    /\ Lists(s, Failed(F))
    /\ Cardinality(Failed(F)) <= MaxEntries

(* The summands of the byte count are natural numbers.                     *)
LEMMA SizesCount ==
    ASSUME NEW E \in Tables
    PROVE  /\ \A k \in Keys : SizeIn(E)[k] \in Nat
           /\ \A k \in Keys : E[k] = None => SizeIn(E)[k] = 0
           /\ \A k \in Keys : E[k] # None => SizeIn(E)[k] = E[k].size
  BY CacheAssumption DEF Tables, Results, SizeIn

(* The library's sum is the lemmas' sum.                                   *)
LEMMA BytesAreSums == \A E, K : BytesOf(E, K) = Sum(SizeIn(E), K)
  BY DEF BytesOf, Sum

(* What a sound table holds, in total and in any part.                     *)
LEMMA PartOfBytes ==
    ASSUME NEW E, NEW s, NEW b, SoundResults(E, s, b),
           NEW K \in SUBSET Cached(E)
    PROVE  /\ IsFiniteSet(Cached(E)) /\ IsFiniteSet(K)
           /\ b \in Nat /\ BytesOf(E, K) \in Nat
           /\ b = BytesOf(E, K) + BytesOf(E, Cached(E) \ K)
           /\ BytesOf(E, Cached(E) \ K) \in Nat
<1>1. PICK f : f = SizeIn(E)
  OBVIOUS
<1>2. PICK C : C = Cached(E)
  OBVIOUS
<1>3. IsFiniteSet(C) /\ IsFiniteSet(K) /\ IsFiniteSet(C \ K) /\ K \in SUBSET C
  BY <1>2, ListsFinite, FS_Subset DEF SoundResults
<1>4. \A k \in C : f[k] \in Nat
  BY <1>1, <1>2, SizesCount DEF SoundResults, Cached
<1>5. Sum(f, C) = Sum(f, K) + Sum(f, C \ K)
  BY <1>3, <1>4, SumSplit
<1>6. Sum(f, C) \in Nat
  BY <1>3, <1>4, SumNat
<1>7. Sum(f, K) \in Nat
  <2>1. \A k \in K : f[k] \in Nat
    BY <1>3, <1>4
  <2>2. QED
    BY <1>3, <2>1, SumNat
<1>8. Sum(f, C \ K) \in Nat
  <2>1. \A k \in C \ K : f[k] \in Nat
    BY <1>4
  <2>2. QED
    BY <1>3, <2>1, SumNat
<1>9. QED
  BY <1>1, <1>2, <1>3, <1>5, <1>6, <1>7, <1>8, BytesAreSums DEF SoundResults

(* Dropping cached keys keeps a table sound and gives back what they held. *)
LEMMA DropSound ==
    ASSUME NEW E, NEW s, NEW b, SoundResults(E, s, b),
           NEW K \in SUBSET Cached(E)
    PROVE  /\ SoundResults(Drop(E, K), Without(s, K), b - BytesOf(E, K))
           /\ Cached(Drop(E, K)) = Cached(E) \ K
<1>1. PICK D : D = Drop(E, K)
  OBVIOUS
<1>2. E \in Tables /\ K \in SUBSET Keys
  BY DEF SoundResults, Cached
<1>3. /\ \A k \in K : D[k] = None
      /\ \A k \in Keys \ K : D[k] = E[k]
      /\ D \in Tables
  BY <1>1, <1>2 DEF Drop, Tables
<1>4. Cached(D) = Cached(E) \ K
  BY <1>2, <1>3 DEF Cached
<1>5. BytesOf(D, Cached(D)) = BytesOf(E, Cached(E) \ K)
  <2>1. IsFiniteSet(Cached(D))
    BY <1>4, PartOfBytes, FS_Subset
  <2>2. \A k \in Cached(D) : SizeIn(D)[k] = SizeIn(E)[k]
    <3>1. ASSUME NEW k \in Cached(D) PROVE SizeIn(D)[k] = SizeIn(E)[k]
      <4>1. k \in Keys /\ D[k] = E[k] /\ D[k] # None
        BY <1>3, <1>4, <3>1 DEF Cached
      <4>2. QED
        BY <1>2, <1>3, <4>1, SizesCount
    <3>2. QED
      BY <3>1
  <2>3. QED
    BY <1>4, <2>1, <2>2, SumAgree, BytesAreSums
<1>6. Lists(Without(s, K), Cached(D))
  BY <1>4, WithoutLists DEF SoundResults
<1>7. PICK held \in Nat, rest \in Nat :
          /\ held = BytesOf(E, K) /\ rest = BytesOf(E, Cached(E) \ K)
          /\ b = held + rest
  BY PartOfBytes
<1>8. b - held = rest /\ b - held <= MaxBytes
  BY <1>7, CacheAssumption DEF SoundResults
<1>9. Cardinality(Cached(D)) <= MaxEntries
  <2>1. /\ IsFiniteSet(Cached(E)) /\ Cached(D) \subseteq Cached(E)
        /\ Cardinality(Cached(E)) <= MaxEntries
    BY <1>4, PartOfBytes DEF SoundResults
  <2>2. /\ IsFiniteSet(Cached(D))
        /\ Cardinality(Cached(D)) <= Cardinality(Cached(E))
    BY <2>1, FS_Subset
  <2>3. Cardinality(Cached(D)) \in Nat /\ Cardinality(Cached(E)) \in Nat
    BY <2>1, <2>2, FS_CardinalityType
  <2>4. QED
    BY <2>1, <2>2, <2>3, CacheAssumption
<1>10. QED
  BY <1>1, <1>3, <1>4, <1>5, <1>6, <1>7, <1>8, <1>9 DEF SoundResults

(* A hit changes nothing but the order.                                    *)
LEMMA HitSound ==
    ASSUME NEW E, NEW s, NEW b, SoundResults(E, s, b), NEW k \in Cached(E)
    PROVE  SoundResults(E, ToEnd(s, k), b)
<1>1. Lists(ToEnd(s, k), Cached(E) \cup {k})
  BY ToEndLists DEF SoundResults
<1>2. Cached(E) \cup {k} = Cached(E)
  OBVIOUS
<1>3. QED
  BY <1>1, <1>2 DEF SoundResults

(* A new result with room for it.                                          *)
LEMMA AddSound ==
    ASSUME NEW E, NEW s, NEW b, SoundResults(E, s, b),
           NEW k \in Keys, k \notin Cached(E), NEW r \in Results,
           b + r.size <= MaxBytes, Cardinality(Cached(E)) < MaxEntries
    PROVE  SoundResults([E EXCEPT ![k] = r], Append(s, k), b + r.size)
<1>1. PICK M : M = [E EXCEPT ![k] = r]
  OBVIOUS
<1>2. r # None /\ r.size \in Nat
  BY CacheAssumption DEF Results
<1>3. /\ E \in Tables /\ M \in Tables /\ M[k] = r
      /\ \A j \in Keys : j # k => M[j] = E[j]
  BY <1>1 DEF SoundResults, Tables
<1>4. Cached(M) = Cached(E) \cup {k}
  BY <1>2, <1>3 DEF Cached
<1>5. Lists(Append(s, k), Cached(M))
  BY <1>4, ListsAppend DEF SoundResults
<1>6. IsFiniteSet(Cached(E)) /\ IsFiniteSet(Cached(M)) /\ b \in Nat
  <2>1. {} \in SUBSET Cached(E)
    OBVIOUS
  <2>2. QED
    BY <1>5, <2>1, ListsFinite, PartOfBytes
<1>7. Cardinality(Cached(M)) <= MaxEntries
  <2>1. Cardinality(Cached(M)) = Cardinality(Cached(E)) + 1
    BY <1>4, <1>6, FS_AddElement
  <2>2. Cardinality(Cached(E)) \in Nat
    BY <1>6, FS_CardinalityType
  <2>3. QED
    BY <2>1, <2>2, CacheAssumption
<1>8. BytesOf(M, Cached(M)) = b + r.size
  <2>1. \A j \in Cached(M) : SizeIn(M)[j] \in Int
    BY <1>3, SizesCount DEF Cached
  <2>2. k \in Cached(M) /\ Cached(M) \ {k} = Cached(E)
    BY <1>4
  <2>3. Sum(SizeIn(M), Cached(M)) = SizeIn(M)[k] + Sum(SizeIn(M), Cached(E))
    <3>1. Sum(SizeIn(M), Cached(M))
             = SizeIn(M)[k] + Sum(SizeIn(M), Cached(M) \ {k})
      BY <1>6, <2>1, <2>2, SumRemove
    <3>2. QED
      BY <2>2, <3>1
  <2>4. SizeIn(M)[k] = r.size
    BY <1>2, <1>3, SizesCount
  <2>5. Sum(SizeIn(M), Cached(E)) = Sum(SizeIn(E), Cached(E))
    <3>1. ASSUME NEW j \in Cached(E) PROVE SizeIn(M)[j] = SizeIn(E)[j]
      <4>1. j \in Keys /\ j # k /\ E[j] # None /\ M[j] = E[j]
        BY <1>3, <3>1 DEF Cached
      <4>2. QED
        BY <1>3, <4>1, SizesCount
    <3>2. QED
      BY <1>6, <3>1, SumAgree
  <2>6. Sum(SizeIn(E), Cached(E)) = b
    BY BytesAreSums DEF SoundResults
  <2>7. QED
    BY <1>2, <1>6, <2>3, <2>4, <2>5, <2>6, BytesAreSums
<1>9. QED
  BY <1>1, <1>3, <1>5, <1>7, <1>8 DEF SoundResults

(* The n oldest of a list are n of its elements.                           *)
LEMMA OldestFacts ==
    ASSUME NEW s, NEW S, Lists(s, S), NEW n \in 0..Len(s)
    PROVE  /\ Oldest(s, n) \in SUBSET S /\ IsFiniteSet(Oldest(s, n))
           /\ Cardinality(Oldest(s, n)) = n
<1>1. PICK t : t = [i \in 1..n |-> s[i]]
  OBVIOUS
<1>2. PICK O : O = Oldest(s, n)
  OBVIOUS
<1>3. Len(s) \in Nat /\ n \in Nat /\ \A i \in 1..n : i \in 1..Len(s)
  BY ListsFinite
<1>4. O \in SUBSET S
  BY <1>2, <1>3 DEF Oldest, Lists
<1>5. t \in [1..n -> O]
  BY <1>1, <1>2 DEF Oldest
<1>6. t \in Bijection(1..n, O)
  <2>1. \A i, j \in 1..n : t[i] = t[j] => i = j
    BY <1>1, <1>3 DEF Lists
  <2>2. \A x \in O : \E i \in 1..n : t[i] = x
    BY <1>1, <1>2 DEF Oldest
  <2>3. QED
    BY <1>5, <2>1, <2>2 DEF Bijection, Injection, Surjection, IsInjective
<1>7. ExistsBijection(1..n, O)
  BY <1>6 DEF ExistsBijection
<1>8. QED
  BY <1>2, <1>3, <1>4, <1>7, FS_NatBijection, FS_CountingElements

(* The victims are enough: without them there is room for one more result, *)
(* because at worst everything goes.                                       *)
LEMMA EnoughGoes ==
    ASSUME NEW E, NEW s, NEW b, SoundResults(E, s, b),
           NEW size \in Nat, size <= MaxBytes
    PROVE  LET victims == Oldest(s, Min(EnoughEvicted(E, s, b, size))) IN
           /\ victims \in SUBSET Cached(E)
           /\ b - BytesOf(E, victims) + size <= MaxBytes
           /\ Cardinality(Cached(E) \ victims) < MaxEntries
<1>1. PICK X : X = EnoughEvicted(E, s, b, size)
  OBVIOUS
<1>2. PICK C : C = Cached(E)
  OBVIOUS
<1>3. /\ Lists(s, C) /\ IsFiniteSet(C) /\ Cardinality(C) = Len(s)
      /\ Len(s) \in Nat
  BY <1>2, ListsFinite DEF SoundResults
<1>4. X \in SUBSET Nat /\ Len(s) \in X
  BY <1>1, <1>3 DEF EnoughEvicted
<1>5. PICK n : n = Min(X)
  OBVIOUS
<1>6. n \in X
  <2>1. \E m \in X : \A j \in X : m <= j
    BY <1>4, NatLeast
  <2>2. QED
    BY <1>5, <2>1 DEF Min
<1>7. PICK V : V = Oldest(s, n)
  OBVIOUS
<1>8. /\ n \in 0..Len(s)
      /\ \/ n = Len(s)
         \/ /\ Cardinality(C) - n < MaxEntries
            /\ b - BytesOf(E, V) + size <= MaxBytes
  BY <1>1, <1>2, <1>6, <1>7 DEF EnoughEvicted
<1>9. V \in SUBSET C /\ IsFiniteSet(V) /\ Cardinality(V) = n
  BY <1>3, <1>7, <1>8, OldestFacts
<1>10. /\ b \in Nat /\ BytesOf(E, V) \in Nat
       /\ b = BytesOf(E, V) + BytesOf(E, C \ V)
  BY <1>2, <1>9, PartOfBytes
<1>11. Cardinality(C \ V) = Cardinality(C) - n
  <2>1. V \cap C = V /\ C \cap V = V
    BY <1>9
  <2>2. Cardinality(C \ V) = Cardinality(C) - Cardinality(C \cap V)
    BY <1>3, FS_Difference
  <2>3. QED
    BY <1>9, <2>1, <2>2
<1>12. CASE n = Len(s)
  <2>1. V = C
    BY <1>3, <1>7, <1>12 DEF Lists, Oldest
  <2>2. BytesOf(E, C) = b
    BY <1>2 DEF SoundResults
  <2>3. b - BytesOf(E, V) + size <= MaxBytes
    BY <1>10, <2>1, <2>2
  <2>4. Cardinality(C \ V) < MaxEntries
    BY <1>3, <1>11, <1>12, CacheAssumption
  <2>5. QED
    BY <1>1, <1>2, <1>5, <1>7, <1>9, <2>3, <2>4
<1>13. CASE n # Len(s)
  BY <1>1, <1>2, <1>5, <1>7, <1>8, <1>9, <1>11, <1>13
<1>14. QED
  BY <1>12, <1>13

(* Forgetting failures keeps their table sound.                            *)
LEMMA ForgetSound ==
    ASSUME NEW F, NEW s, SoundFailures(F, s), NEW K \in SUBSET Failed(F)
    PROVE  /\ SoundFailures(Forget(F, K), Without(s, K))
           /\ Failed(Forget(F, K)) = Failed(F) \ K
<1>1. PICK G : G = Forget(F, K)
  OBVIOUS
<1>2. G \in [Keys -> Nat] /\ Failed(G) = Failed(F) \ K
  BY <1>1 DEF SoundFailures, Forget, Failed
<1>3. Lists(Without(s, K), Failed(G))
  BY <1>2, WithoutLists DEF SoundFailures
<1>4. Cardinality(Failed(G)) <= MaxEntries
  <2>1. /\ IsFiniteSet(Failed(F)) /\ Failed(G) \subseteq Failed(F)
        /\ Cardinality(Failed(F)) <= MaxEntries
    BY <1>2, ListsFinite DEF SoundFailures
  <2>2. /\ IsFiniteSet(Failed(G))
        /\ Cardinality(Failed(G)) <= Cardinality(Failed(F))
    BY <2>1, FS_Subset
  <2>3. Cardinality(Failed(G)) \in Nat /\ Cardinality(Failed(F)) \in Nat
    BY <2>1, <2>2, FS_CardinalityType
  <2>4. QED
    BY <2>1, <2>2, <2>3, CacheAssumption
<1>5. QED
  BY <1>1, <1>2, <1>3, <1>4 DEF SoundFailures

(* _store_success_locked() keeps the results sound.                        *)
LEMMA StoreSound ==
    ASSUME SoundResults(entries, order, bytes), now \in Nat,
           NEW k \in Keys, NEW size \in Sizes, Store(k, size)
    PROVE  SoundResults(entries', order', bytes')
<1>1. CASE size > MaxBytes
  BY <1>1 DEF Store
<1>2. CASE ~(size > MaxBytes)
  <2>1. PICK E : E = Drop(entries, {k})
    OBVIOUS
  <2>2. PICK O : O = Without(order, {k})
    OBVIOUS
  <2>3. PICK B : B = bytes - BytesOf(entries, {k})
    OBVIOUS
  <2>4. SoundResults(E, O, B) /\ k \notin Cached(E)
    <3>1. CASE k \in Cached(entries)
      BY <2>1, <2>2, <2>3, <3>1, DropSound
    <3>2. CASE k \notin Cached(entries)
      <4>1. /\ entries \in Tables /\ entries[k] = None
            /\ Lists(order, Cached(entries))
        BY <3>2 DEF SoundResults, Cached
      <4>2. E = entries
        BY <2>1, <4>1 DEF Drop, Tables
      <4>3. Lists(O, Cached(E))
        <5>1. Cached(entries) \ {k} = Cached(entries)
          BY <3>2
        <5>2. QED
          BY <2>2, <4>1, <4>2, <5>1, WithoutLists
      <4>4. BytesOf(entries, {k}) = 0
        <5>1. IsFiniteSet({k}) /\ \A j \in {k} : SizeIn(entries)[j] = 0
          BY <4>1, SizesCount, FS_Singleton
        <5>2. QED
          BY <5>1, SumZero, BytesAreSums
      <4>5. B = bytes
        <5>1. {} \in SUBSET Cached(entries)
          OBVIOUS
        <5>2. bytes \in Nat
          BY <5>1, PartOfBytes
        <5>3. QED
          BY <2>3, <4>4, <5>2
      <4>6. QED
        BY <3>2, <4>2, <4>3, <4>5 DEF SoundResults
    <3>3. QED
      BY <3>1, <3>2
  <2>5. PICK V : V = Oldest(O, Min(EnoughEvicted(E, O, B, size)))
    OBVIOUS
  <2>6. PICK r : r = [size |-> size, expires |-> now + TTL]
    OBVIOUS
  <2>7. /\ entries' = [Drop(E, V) EXCEPT ![k] = r]
        /\ order' = Append(Without(O, V), k)
        /\ bytes' = B - BytesOf(E, V) + size
    BY <1>2, <2>1, <2>2, <2>3, <2>5, <2>6 DEF Store
  <2>8. size \in Nat /\ size <= MaxBytes
    BY <1>2, CacheAssumption
  <2>9. /\ V \in SUBSET Cached(E)
        /\ B - BytesOf(E, V) + size <= MaxBytes
        /\ Cardinality(Cached(E) \ V) < MaxEntries
    BY <2>4, <2>5, <2>8, EnoughGoes
  <2>10. PICK D : D = Drop(E, V)
    OBVIOUS
  <2>11. PICK b : b = B - BytesOf(E, V)
    OBVIOUS
  <2>12. SoundResults(D, Without(O, V), b) /\ Cached(D) = Cached(E) \ V
    BY <2>4, <2>9, <2>10, <2>11, DropSound
  <2>13. r \in Results /\ r.size = size
    BY <2>6, CacheAssumption DEF Results
  <2>14. /\ b + r.size <= MaxBytes /\ Cardinality(Cached(D)) < MaxEntries
         /\ k \notin Cached(D)
    BY <2>4, <2>9, <2>11, <2>12, <2>13
  <2>15. SoundResults([D EXCEPT ![k] = r], Append(Without(O, V), k),
                      b + r.size)
    BY <2>12, <2>13, <2>14, AddSound
  <2>16. QED
    BY <2>7, <2>10, <2>11, <2>13, <2>15
<1>3. QED
  BY <1>1, <1>2

(* A remembered failure, and the oldest that make way for it.              *)
LEMMA RememberSound ==
    ASSUME SoundFailures(failures, failOrder), now \in Nat,
           NEW k \in Keys, RememberFailure(k)
    PROVE  SoundFailures(failures', failOrder')
<1>1. CASE NegativeTTL = 0
  BY <1>1 DEF RememberFailure
<1>2. CASE NegativeTTL # 0
  <2>1. PICK O : O = ToEnd(failOrder, k)
    OBVIOUS
  <2>2. PICK F : F = [failures EXCEPT ![k] = now + NegativeTTL]
    OBVIOUS
  <2>3. PICK X : X = IF Len(O) > MaxEntries
                     THEN Oldest(O, Len(O) - MaxEntries) ELSE {}
    OBVIOUS
  <2>4. failures' = Forget(F, X) /\ failOrder' = Without(O, X)
    BY <1>2, <2>1, <2>2, <2>3 DEF RememberFailure
  <2>5. /\ failures \in [Keys -> Nat] /\ Lists(failOrder, Failed(failures))
        /\ now + NegativeTTL \in Nat /\ now + NegativeTTL # 0
    BY <1>2, CacheAssumption DEF SoundFailures
  <2>6. F \in [Keys -> Nat] /\ Failed(F) = Failed(failures) \cup {k}
    BY <2>2, <2>5 DEF Failed
  <2>7. Lists(O, Failed(F))
    BY <2>1, <2>5, <2>6, ToEndLists
  <2>8. /\ IsFiniteSet(Failed(F)) /\ Cardinality(Failed(F)) = Len(O)
        /\ Len(O) \in Nat
    BY <2>7, ListsFinite
  <2>9. /\ X \in SUBSET Failed(F)
        /\ Cardinality(Failed(F) \ X) <= MaxEntries
    <3>1. CASE Len(O) > MaxEntries
      <4>1. PICK n \in 0..Len(O) : n = Len(O) - MaxEntries
        BY <2>8, <3>1, CacheAssumption
      <4>2. X = Oldest(O, n)
        BY <2>3, <3>1, <4>1
      <4>3. X \in SUBSET Failed(F) /\ Cardinality(X) = n
        BY <2>7, <4>2, OldestFacts
      <4>4. Failed(F) \cap X = X
        BY <4>3
      <4>5. Cardinality(Failed(F) \ X)
              = Cardinality(Failed(F)) - Cardinality(Failed(F) \cap X)
        BY <2>8, FS_Difference
      <4>6. Cardinality(Failed(F) \ X) = Len(O) - n
        BY <2>8, <4>3, <4>4, <4>5
      <4>7. QED
        BY <2>8, <4>1, <4>3, <4>6, CacheAssumption
    <3>2. CASE ~(Len(O) > MaxEntries)
      <4>1. X = {} /\ Failed(F) \ X = Failed(F)
        BY <2>3, <3>2
      <4>2. QED
        BY <2>8, <3>2, <4>1, CacheAssumption
    <3>3. QED
      BY <3>1, <3>2
  <2>10. PICK G : G = Forget(F, X)
    OBVIOUS
  <2>11. G \in [Keys -> Nat] /\ Failed(G) = Failed(F) \ X
    BY <2>6, <2>9, <2>10 DEF Forget, Failed
  <2>12. Lists(Without(O, X), Failed(G))
    BY <2>7, <2>11, WithoutLists
  <2>13. QED
    BY <2>4, <2>9, <2>10, <2>11, <2>12 DEF SoundFailures
<1>3. QED
  BY <1>1, <1>2

(* One turn of the loop keeps both tables sound and bounds _inflight.      *)
LEMMA LookSound ==
    ASSUME SoundResults(entries, order, bytes),
           SoundFailures(failures, failOrder),
           IsFiniteSet(inflight), Cardinality(inflight) <= MaxEntries,
           NEW t \in Threads, NEW k \in Keys, Look(t, k)
    PROVE  /\ SoundResults(entries', order', bytes')
           /\ SoundFailures(failures', failOrder')
           /\ IsFiniteSet(inflight') /\ Cardinality(inflight') <= MaxEntries
<1>1. SoundResults(E1, O1, B1)
  <2>1. Stale \in SUBSET Cached(entries)
    BY DEF Stale
  <2>2. QED
    BY <2>1, DropSound DEF E1, O1, B1
<1>2. SoundFailures(F1, FO1)
  <2>1. StaleFailures \in SUBSET Failed(failures)
    BY DEF StaleFailures
  <2>2. QED
    BY <2>1, ForgetSound DEF F1, FO1
<1>3. CASE Hit(t, k)
  <2>1. k \in Cached(E1)
    BY <1>3 DEF Hit, Cached
  <2>2. QED
    BY <1>1, <1>2, <1>3, <2>1, HitSound DEF Hit
<1>4. CASE KnownFailure(t, k)
  <2>1. k \in Failed(F1) /\ Failed(F1) \cup {k} = Failed(F1)
    BY <1>4 DEF KnownFailure, Failed
  <2>2. Lists(ToEnd(FO1, k), Failed(F1))
    <3>1. Lists(ToEnd(FO1, k), Failed(F1) \cup {k})
      BY <1>2, ToEndLists DEF SoundFailures
    <3>2. QED
      BY <2>1, <3>1
  <2>3. SoundFailures(F1, ToEnd(FO1, k))
    BY <1>2, <2>2 DEF SoundFailures
  <2>4. QED
    BY <1>1, <1>4, <2>3 DEF KnownFailure
<1>5. CASE Refuse(t, k) \/ Wait(t, k)
  BY <1>1, <1>2, <1>5 DEF Refuse, Wait, Miss
<1>6. CASE Lead(t, k)
  <2>1. /\ inflight' = inflight \cup {k} /\ k \notin inflight
        /\ Cardinality(inflight) < MaxEntries
    BY <1>6 DEF Lead
  <2>2. /\ IsFiniteSet(inflight')
        /\ Cardinality(inflight') = Cardinality(inflight) + 1
    BY <2>1, FS_AddElement
  <2>3. Cardinality(inflight) \in Nat
    BY FS_CardinalityType
  <2>4. Cardinality(inflight') <= MaxEntries
    BY <2>1, <2>2, <2>3, CacheAssumption
  <2>5. QED
    BY <1>1, <1>2, <1>6, <2>2, <2>4 DEF Lead, Miss
<1>7. QED
  BY <1>3, <1>4, <1>5, <1>6 DEF Look

(* What CacheBounded needs to be inductive: the tables' types, and the     *)
(* orders as lists rather than by their lengths.                           *)
CacheInv ==
    /\ SoundResults(entries, order, bytes)
    /\ SoundFailures(failures, failOrder)
    /\ IsFiniteSet(inflight) /\ Cardinality(inflight) <= MaxEntries
    /\ now \in Nat
    /\ got \in [Threads -> {"none", "value", "raised"}]

(* A leader that leaves, whatever it stored or remembered.                 *)
LEMMA LeaveSound ==
    ASSUME CacheInv, NEW t \in Threads,
           NEW how \in {"value", "raised"}, Leave(t, how),
           SoundResults(entries', order', bytes'),
           SoundFailures(failures', failOrder'), now' = now
    PROVE  CacheInv'
<1>1. /\ IsFiniteSet(inflight') /\ inflight' \subseteq inflight
      /\ Cardinality(inflight') <= Cardinality(inflight)
  BY FS_Subset DEF CacheInv, Leave
<1>2. Cardinality(inflight') \in Nat /\ Cardinality(inflight) \in Nat
  BY <1>1, FS_CardinalityType DEF CacheInv
<1>3. Cardinality(inflight') <= MaxEntries
  BY <1>1, <1>2, CacheAssumption DEF CacheInv
<1>4. QED
  BY <1>1, <1>3 DEF CacheInv, Leave

(* Every step keeps it, the leaders' keys being keys.                      *)
LEMMA CacheNext == ThreadsOK /\ CacheInv /\ [Next]_vars => CacheInv'
<1>1. SUFFICES ASSUME ThreadsOK, CacheInv, [Next]_vars PROVE CacheInv'
  OBVIOUS
<1>2. ASSUME NEW t \in Threads, NEW k \in Keys, Look(t, k), now' = now
      PROVE  CacheInv'
  <2>1. /\ SoundResults(entries', order', bytes')
        /\ SoundFailures(failures', failOrder')
        /\ IsFiniteSet(inflight') /\ Cardinality(inflight') <= MaxEntries
    BY <1>1, <1>2, LookSound DEF CacheInv
  <2>2. got' \in [Threads -> {"none", "value", "raised"}]
    BY <1>1, <1>2
    DEF CacheInv, Look, Hit, KnownFailure, Refuse, Lead, Wait
  <2>3. QED
    BY <1>1, <1>2, <2>1, <2>2 DEF CacheInv
<1>3. ASSUME NEW t \in Threads, NEW k \in Keys, Call(t, k)
      PROVE  CacheInv'
  BY <1>2, <1>3 DEF Call
<1>4. ASSUME NEW t \in Threads, LookAgain(t)
      PROVE  CacheInv'
  <2>1. key[t] \in Keys
    BY <1>1, <1>4 DEF LookAgain, ThreadsOK
  <2>2. QED
    BY <1>2, <1>4, <2>1 DEF LookAgain
<1>5. ASSUME NEW t \in Threads, Resolve(t)
      PROVE  CacheInv'
  <2>1. key[t] \in Keys
    BY <1>1, <1>5 DEF Resolve, ResolveOK, ResolveFail, ResolveCrash, ThreadsOK
  <2>2. ASSUME NEW size \in Sizes, ResolveOK(t, size) PROVE CacheInv'
    <3>1. SoundResults(entries', order', bytes')
      BY <1>1, <2>1, <2>2, StoreSound DEF ResolveOK, CacheInv
    <3>2. QED
      BY <1>1, <2>2, <3>1, LeaveSound DEF ResolveOK, CacheInv
  <2>3. CASE ResolveFail(t)
    <3>1. SoundFailures(failures', failOrder')
      BY <1>1, <2>1, <2>3, RememberSound DEF ResolveFail, CacheInv
    <3>2. QED
      BY <1>1, <2>3, <3>1, LeaveSound DEF ResolveFail, CacheInv
  <2>4. CASE ResolveCrash(t)
    BY <1>1, <2>4, LeaveSound DEF ResolveCrash, CacheInv
  <2>5. QED
    BY <1>5, <2>2, <2>3, <2>4 DEF Resolve
<1>6. CASE Tick \/ UNCHANGED vars
  BY <1>1, <1>6 DEF Tick, vars, CacheInv
<1>7. ASSUME NEW t \in Threads, Return(t)
      PROVE  CacheInv'
  BY <1>1, <1>7 DEF Return, CacheInv
<1>8. QED
  BY <1>1, <1>3, <1>4, <1>5, <1>6, <1>7 DEF Next

(* The tables are sound in every behaviour of the cache.                   *)
THEOREM CacheInvariant == Spec => []CacheInv
<1>1. Init => CacheInv
  <2>1. SUFFICES ASSUME Init PROVE CacheInv
    OBVIOUS
  <2>2. Cached(entries) = {} /\ Failed(failures) = {}
    BY <2>1 DEF Init, Cached, Failed
  <2>3. BytesOf(entries, Cached(entries)) = 0
    BY <2>2, BytesAreSums, SumEmpty
  <2>4. IsFiniteSet({}) /\ Cardinality({}) = 0
    BY FS_EmptySet
  <2>5. entries \in Tables
    BY <2>1 DEF Init, Tables
  <2>6. SoundResults(entries, order, bytes)
    <3>1. order = <<>> /\ bytes = 0
      BY <2>1 DEF Init
    <3>2. Lists(order, Cached(entries))
      BY <2>2, <3>1, ListsEmpty
    <3>3. /\ Cardinality(Cached(entries)) <= MaxEntries
          /\ 0 <= MaxBytes
      BY <2>2, <2>4, CacheAssumption
    <3>4. QED
      BY <2>3, <2>5, <3>1, <3>2, <3>3 DEF SoundResults
  <2>7. SoundFailures(failures, failOrder)
    <3>1. failOrder = <<>> /\ failures \in [Keys -> Nat]
      BY <2>1 DEF Init
    <3>2. Lists(failOrder, Failed(failures))
      BY <2>2, <3>1, ListsEmpty
    <3>3. Cardinality(Failed(failures)) <= MaxEntries
      BY <2>2, <2>4, CacheAssumption
    <3>4. QED
      BY <3>1, <3>2, <3>3 DEF SoundFailures
  <2>8. QED
    BY <2>1, <2>4, <2>6, <2>7, CacheAssumption DEF Init, CacheInv
<1>2. FlightInv => ThreadsOK
  BY DEF FlightInv
<1>3. QED
  BY <1>1, <1>2, CacheNext, FlightInvariant, PTL DEF Spec

(* The byte counter is exact, and every table, its order and the set of    *)
(* keys in flight stay within their limits, whatever runs out, is hit, is  *)
(* evicted or fails, in any interleaving of any number of threads.         *)
THEOREM CacheStaysBounded == Spec => []CacheBounded
<1>1. CacheInv => CacheBounded
  <2>1. SUFFICES ASSUME CacheInv PROVE CacheBounded
    OBVIOUS
  <2>2. Lists(order, Cached(entries)) /\ Lists(failOrder, Failed(failures))
    BY <2>1 DEF CacheInv, SoundResults, SoundFailures
  <2>3. /\ Len(order) = Cardinality(Cached(entries))
        /\ Len(failOrder) = Cardinality(Failed(failures))
    BY <2>2, ListsFinite
  <2>4. /\ {order[i] : i \in 1..Len(order)} = Cached(entries)
        /\ {failOrder[i] : i \in 1..Len(failOrder)} = Failed(failures)
    BY <2>2 DEF Lists
  <2>5. QED
    BY <2>1, <2>3, <2>4
    DEF CacheInv, SoundResults, SoundFailures, CacheBounded
<1>2. QED
  BY <1>1, CacheInvariant, PTL

(* Types of the threads and of the cache's tables.                         *)
THEOREM TypeCorrect == Spec => []TypeOK
<1>1. FlightInv /\ CacheInv => TypeOK
  <2>1. SUFFICES ASSUME FlightInv, CacheInv PROVE TypeOK
    OBVIOUS
  <2>2. order \in Seq(Keys) /\ failOrder \in Seq(Keys)
    BY <2>1, ListsTyped
    DEF CacheInv, SoundResults, SoundFailures, Cached, Failed
  <2>3. bytes \in Int
    <3>1. {} \in SUBSET Cached(entries)
      OBVIOUS
    <3>2. SoundResults(entries, order, bytes)
      BY <2>1 DEF CacheInv
    <3>3. bytes \in Nat
      BY <3>1, <3>2, PartOfBytes
    <3>4. QED
      BY <3>3
  <2>4. QED
    BY <2>1, <2>2, <2>3
    DEF FlightInv, CacheInv, SoundResults, SoundFailures, Tables, Results, TypeOK
<1>2. QED
  BY <1>1, FlightInvariant, CacheInvariant, PTL

(* A thread that did not resolve the key itself is served a result that    *)
(* has not run out when it is served: a hit comes after the sweep under    *)
(* the same lock, also for a thread that slept on the condition.           *)
THEOREM OnlyFreshIsServed == Spec => ServedFresh
<1>1. FlightInv /\ CacheInv /\ [Next]_vars => [FreshStep]_vars
  <2>1. SUFFICES ASSUME FlightInv, CacheInv, Next, NEW t \in Threads,
                        pc[t] # "resolving", got[t] = "none", got'[t] = "value"
                 PROVE  /\ entries[key'[t]] # None
                        /\ now < entries[key'[t]].expires
    BY DEF FreshStep
  <2>2. DOMAIN got = Threads /\ DOMAIN key = Threads
    BY <2>1 DEF CacheInv, FlightInv, ThreadsOK
  <2>3. ASSUME NEW u \in Threads, NEW k \in Keys, Look(u, k)
        PROVE  u = t /\ entries[k] # None /\ now < entries[k].expires
    <3>1. CASE Hit(u, k)
      <4>1. u = t
        BY <2>1, <2>2, <3>1 DEF Hit
      <4>2. k \notin Stale /\ entries[k] # None
        BY <3>1 DEF Hit, E1, Drop
      <4>3. entries[k].expires \in Nat /\ now \in Nat
        BY <2>1, <4>2 DEF CacheInv, SoundResults, Tables, Results
      <4>4. QED
        BY <4>1, <4>2, <4>3 DEF Stale, Cached
    <3>2. CASE KnownFailure(u, k) \/ Refuse(u, k)
      BY <2>1, <2>2, <3>2 DEF KnownFailure, Refuse
    <3>3. CASE Lead(u, k) \/ Wait(u, k)
      BY <2>1, <3>3 DEF Lead, Wait
    <3>4. QED
      BY <2>3, <3>1, <3>2, <3>3 DEF Look
  <2>4. ASSUME NEW u \in Threads, NEW k \in Keys, Call(u, k)
        PROVE  entries[key'[t]] # None /\ now < entries[key'[t]].expires
    BY <2>2, <2>3, <2>4 DEF Call
  <2>5. ASSUME NEW u \in Threads, LookAgain(u)
        PROVE  entries[key'[t]] # None /\ now < entries[key'[t]].expires
    <3>1. key[u] \in Keys
      BY <2>1, <2>5 DEF LookAgain, FlightInv, ThreadsOK
    <3>2. QED
      BY <2>3, <2>5, <3>1 DEF LookAgain
  <2>6. ASSUME NEW u \in Threads, Resolve(u)
        PROVE  FALSE
    <3>1. PICK how : pc[u] = "resolving" /\ Leave(u, how)
      BY <2>6 DEF Resolve, ResolveOK, ResolveFail, ResolveCrash
    <3>2. QED
      BY <2>1, <2>2, <3>1 DEF Leave
  <2>7. CASE Tick
    BY <2>1, <2>7 DEF Tick, vars
  <2>8. ASSUME NEW u \in Threads, Return(u)
        PROVE  FALSE
    BY <2>1, <2>2, <2>8 DEF Return
  <2>9. QED
    BY <2>1, <2>4, <2>5, <2>6, <2>7, <2>8 DEF Next
<1>2. QED
  BY <1>1, FlightInvariant, CacheInvariant, PTL DEF Spec, ServedFresh
=============================================================================
