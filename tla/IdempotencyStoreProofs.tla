----------------------- MODULE IdempotencyStoreProofs -----------------------
(***************************************************************************)
(* IdempotencyStore for any finite set of keys and any limits: its byte    *)
(* counters are exact, its replays are faithful, and it implements         *)
(* ReplayLedger.  The inductive invariant, StoreInv, ties every entry to   *)
(* the history of its token (EntryOK), the order to the present keys and   *)
(* the counters to sums over the entries (Sound), and keeps the two limits *)
(* (Bounded).  The lemmas go from one entry, over removal, insertion and   *)
(* completion, to the methods, and from there to the ledger's steps.       *)
(***************************************************************************)
EXTENDS IdempotencyStore, CollectionLemmas, TLAPS

(* What an entry under k says about the histories of tokens and of         *)
(* commits: a present one carries the token it was reserved with, for      *)
(* its key and fingerprint; a reserved one has committed nothing and       *)
(* holds what its mode promises; a complete one is what its token          *)
(* committed, for TTL from then.                                           *)
EntryOK(e, k, tk, pb) ==
    /\ e \in Entry
    /\ e.state = "absent" => e = Absent
    /\ IsPresent(e) => /\ e.token \in 1..Len(tk)
                       /\ tk[e.token] = [key |-> k, fp |-> e.fp]
    /\ e.state = "reserved" => /\ e.resp = None
                               /\ e.held = HeldFor
                               /\ pb[e.token] = None
    /\ e.state = "complete" =>
           /\ e.held = 0
           /\ pb[e.token] # None
           /\ e.resp = [by |-> e.token, size |-> pb[e.token].size]
           /\ e.expires = pb[e.token].at + TTL

(* Types of the two histories, which run in step.                          *)
Histories(tk, pb) ==
    /\ tk \in Seq([key : Keys, fp : Fingerprints])
    /\ pb \in Seq([size : Sizes, at : Nat] \cup {None})
    /\ Len(pb) = Len(tk)

(* Types of the store's record.                                            *)
Stores == [entries : [Keys -> Entry], order : Seq(Keys),
           cached : Int, held : Int]

(* The whole store agrees with the histories; the OrderedDict lists the    *)
(* present keys once each, and both byte counters are exact.               *)
Sound(st, tk, pb) ==
    /\ st \in Stores
    /\ \A k \in Keys : EntryOK(st.entries[k], k, tk, pb)
    /\ Lists(st.order, Present(st.entries))
    /\ st.cached = CachedBytes(st.entries, Keys)
    /\ st.held = HeldBytes(st.entries, Keys)

(* The bytes an entry accounts for, by its state.                          *)
LEMMA EntryFacts ==
    ASSUME NEW e, NEW k, NEW tk, NEW pb, EntryOK(e, k, tk, pb),
           Histories(tk, pb), evict \in BOOLEAN
    PROVE  /\ e.state \in States /\ e.expires \in Nat
           /\ SizeOf(e) \in Nat /\ e.held \in Nat
           /\ e.state # "complete" => SizeOf(e) = 0
           /\ e.state = "complete" => e.held = 0
           /\ evict => e.held = 0
<1>1. /\ e.state \in States /\ e.expires \in Nat /\ e.held \in Nat
      /\ e.resp \in Response \cup {None}
  BY DEF EntryOK, Entry
<1>2. CASE e.state = "absent"
  <2>1. e.resp = None /\ e.held = 0
    BY <1>2 DEF EntryOK, Absent
  <2>2. QED
    BY <1>1, <1>2, <2>1 DEF SizeOf
<1>3. CASE e.state = "reserved"
  <2>1. e.resp = None /\ e.held = HeldFor
    BY <1>3 DEF EntryOK
  <2>2. QED
    BY <1>1, <1>3, <2>1 DEF SizeOf, HeldFor
<1>4. CASE e.state = "complete"
  <2>1. e.held = 0
    BY <1>4 DEF EntryOK
  <2>2. SizeOf(e) \in Nat
    BY <1>1, StoreAssumption DEF SizeOf, Response
  <2>3. QED
    BY <1>1, <1>4, <2>1, <2>2
<1>5. QED
  BY <1>1, <1>2, <1>3, <1>4 DEF States

(* The summands of the two byte counters.                                  *)
SizesIn(L) == [k \in Keys |-> SizeOf(L[k])]
HeldIn(L) == [k \in Keys |-> L[k].held]

(* The model's counters in terms of the sums the lemmas are about.         *)
LEMMA BytesAreSums ==
    ASSUME NEW L, NEW K
    PROVE  CachedBytes(L, K) = Sum(SizesIn(L), K) /\ HeldBytes(L, K) = Sum(HeldIn(L), K)
  BY DEF CachedBytes, HeldBytes, Sum, SizesIn, HeldIn

(* The entries once the keys of K are removed.                             *)
Emptied(L, K) == [k \in Keys |-> IF k \in K THEN Absent ELSE L[k]]

(* The absent entry is an entry and accounts for nothing.                  *)
LEMMA AbsentFacts == /\ Absent \in Entry /\ SizeOf(Absent) = 0 /\ Absent.held = 0
                     /\ Absent.state = "absent" /\ ~IsPresent(Absent)
  BY DEF Absent, Entry, States, SizeOf, IsPresent

(* Emptying the keys of K gives back exactly what they held.               *)
LEMMA EmptiedBytes ==
    ASSUME NEW L, NEW K \in SUBSET Keys,
           \A k \in Keys : SizeOf(L[k]) \in Nat /\ L[k].held \in Nat
    PROVE  /\ CachedBytes(Emptied(L, K), Keys)
                  = CachedBytes(L, Keys) - CachedBytes(L, K)
           /\ HeldBytes(Emptied(L, K), Keys)
                  = HeldBytes(L, Keys) - HeldBytes(L, K)
           /\ CachedBytes(L, K) \in Nat /\ HeldBytes(L, K) \in Nat
           /\ CachedBytes(L, Keys) \in Nat /\ HeldBytes(L, Keys) \in Nat
<1>1. ASSUME NEW f, NEW g, \A k \in Keys : f[k] \in Nat,
             \A k \in Keys : g[k] = IF k \in K THEN 0 ELSE f[k]
      PROVE  /\ Sum(g, Keys) = Sum(f, Keys) - Sum(f, K)
             /\ Sum(f, K) \in Nat /\ Sum(f, Keys) \in Nat
  <2>1. /\ IsFiniteSet(Keys) /\ IsFiniteSet(K) /\ IsFiniteSet(Keys \ K)
        /\ Keys \ K \in SUBSET Keys
    BY KeysAssumption, FS_Subset
  <2>2. \A k \in Keys : f[k] \in Int /\ g[k] \in Int
    BY <1>1
  <2>3. Sum(f, Keys) = Sum(f, K) + Sum(f, Keys \ K)
    BY <2>1, <2>2, SumSplit
  <2>4. Sum(g, Keys) = Sum(g, K) + Sum(g, Keys \ K)
    BY <2>1, <2>2, SumSplit
  <2>5. Sum(g, K) = 0
    <3>1. \A k \in K : g[k] = 0
      BY <1>1
    <3>2. QED
      BY <2>1, <3>1, SumZero
  <2>6. Sum(g, Keys \ K) = Sum(f, Keys \ K)
    <3>1. \A k \in Keys \ K : g[k] = f[k]
      BY <1>1
    <3>2. QED
      BY <2>1, <3>1, SumAgree
  <2>7. Sum(f, K) \in Nat
    <3>1. \A k \in K : f[k] \in Nat
      BY <1>1
    <3>2. QED
      BY <2>1, <3>1, SumNat
  <2>8. Sum(f, Keys \ K) \in Nat /\ Sum(f, Keys) \in Nat
    <3>1. \A k \in Keys \ K : f[k] \in Nat
      BY <1>1
    <3>2. QED
      BY <1>1, <2>1, <3>1, SumNat
  <2>9. QED
    BY <2>3, <2>4, <2>5, <2>6, <2>7, <2>8
<1>2. \A k \in Keys : SizesIn(L)[k] \in Nat /\ HeldIn(L)[k] \in Nat
  BY DEF SizesIn, HeldIn
<1>3. \A k \in Keys :
        /\ SizesIn(Emptied(L, K))[k] = IF k \in K THEN 0 ELSE SizesIn(L)[k]
        /\ HeldIn(Emptied(L, K))[k] = IF k \in K THEN 0 ELSE HeldIn(L)[k]
  BY AbsentFacts DEF SizesIn, HeldIn, Emptied
<1>4. /\ Sum(SizesIn(Emptied(L, K)), Keys) = Sum(SizesIn(L), Keys) - Sum(SizesIn(L), K)
      /\ Sum(SizesIn(L), K) \in Nat /\ Sum(SizesIn(L), Keys) \in Nat
  BY <1>1, <1>2, <1>3
<1>5. /\ Sum(HeldIn(Emptied(L, K)), Keys) = Sum(HeldIn(L), Keys) - Sum(HeldIn(L), K)
      /\ Sum(HeldIn(L), K) \in Nat /\ Sum(HeldIn(L), Keys) \in Nat
  BY <1>1, <1>2, <1>3
<1>6. QED
  BY <1>4, <1>5, BytesAreSums

(* M is L with the entry of k replaced, both counting natural numbers.     *)
Replaced(L, M, k) ==
    /\ \A j \in Keys : SizeOf(L[j]) \in Nat /\ L[j].held \in Nat
    /\ \A j \in Keys : j # k => M[j] = L[j]
    /\ SizeOf(M[k]) \in Nat /\ M[k].held \in Nat

(* Replacing one entry moves the totals by the difference.                 *)
LEMMA ReplacedBytes ==
    ASSUME NEW L, NEW M, NEW k \in Keys, Replaced(L, M, k)
    PROVE  /\ CachedBytes(M, Keys)
                  = CachedBytes(L, Keys) - SizeOf(L[k]) + SizeOf(M[k])
           /\ HeldBytes(M, Keys)
                  = HeldBytes(L, Keys) - L[k].held + M[k].held
<1>1. ASSUME NEW f, NEW g, \A j \in Keys : f[j] \in Int,
             \A j \in Keys : g[j] \in Int,
             \A j \in Keys : j # k => g[j] = f[j]
      PROVE  Sum(g, Keys) = Sum(f, Keys) - f[k] + g[k]
  <2>1. IsFiniteSet(Keys) /\ IsFiniteSet(Keys \ {k})
    BY KeysAssumption, FS_Subset
  <2>2. Sum(f, Keys) = f[k] + Sum(f, Keys \ {k})
    BY <1>1, <2>1, SumRemove
  <2>3. Sum(g, Keys) = g[k] + Sum(g, Keys \ {k})
    BY <1>1, <2>1, SumRemove
  <2>4. Sum(g, Keys \ {k}) = Sum(f, Keys \ {k})
    <3>1. \A j \in Keys \ {k} : g[j] = f[j]
      BY <1>1
    <3>2. QED
      BY <2>1, <3>1, SumAgree
  <2>5. Sum(f, Keys \ {k}) \in Int
    <3>1. \A j \in Keys \ {k} : f[j] \in Int
      BY <1>1
    <3>2. QED
      BY <2>1, <3>1, SumInt
  <2>6. f[k] \in Int /\ g[k] \in Int
    BY <1>1
  <2>7. QED
    BY <2>2, <2>3, <2>4, <2>5, <2>6
<1>2. /\ \A j \in Keys : SizesIn(L)[j] \in Int /\ HeldIn(L)[j] \in Int
      /\ \A j \in Keys : SizesIn(M)[j] \in Int /\ HeldIn(M)[j] \in Int
      /\ \A j \in Keys : j # k => /\ SizesIn(M)[j] = SizesIn(L)[j]
                                  /\ HeldIn(M)[j] = HeldIn(L)[j]
      /\ SizesIn(M)[k] = SizeOf(M[k]) /\ HeldIn(M)[k] = M[k].held
      /\ SizesIn(L)[k] = SizeOf(L[k]) /\ HeldIn(L)[k] = L[k].held
  BY DEF SizesIn, HeldIn, Replaced
<1>3. Sum(SizesIn(M), Keys) = Sum(SizesIn(L), Keys) - SizesIn(L)[k] + SizesIn(M)[k]
  BY <1>1, <1>2
<1>4. Sum(HeldIn(M), Keys) = Sum(HeldIn(L), Keys) - HeldIn(L)[k] + HeldIn(M)[k]
  BY <1>1, <1>2
<1>5. QED
  BY <1>2, <1>3, <1>4, BytesAreSums

(* Which entries are there, and that a store's bytes are natural numbers.  *)
LEMMA SoundFacts ==
    ASSUME NEW st, NEW tk, NEW pb, Sound(st, tk, pb), Histories(tk, pb),
           evict \in BOOLEAN
    PROVE  /\ st.entries \in [Keys -> Entry] /\ DOMAIN st.entries = Keys
           /\ Present(st.entries) = {k \in Keys : IsPresent(st.entries[k])}
           /\ IsFiniteSet(Present(st.entries))
           /\ \A k \in Keys : /\ SizeOf(st.entries[k]) \in Nat
                              /\ st.entries[k].held \in Nat
           /\ st.cached \in Nat /\ st.held \in Nat
           /\ evict => st.held = 0
<1>1. /\ st.entries \in [Keys -> Entry] /\ DOMAIN st.entries = Keys
      /\ Lists(st.order, Present(st.entries))
      /\ st.cached = CachedBytes(st.entries, Keys)
      /\ st.held = HeldBytes(st.entries, Keys)
  BY DEF Sound, Stores
<1>2. Present(st.entries) = {k \in Keys : IsPresent(st.entries[k])}
  BY <1>1 DEF Present
<1>3. IsFiniteSet(Present(st.entries))
  BY <1>1, ListsFinite
<1>4. \A k \in Keys : /\ SizeOf(st.entries[k]) \in Nat
                      /\ st.entries[k].held \in Nat
                      /\ evict => st.entries[k].held = 0
  BY EntryFacts DEF Sound
<1>5. CachedBytes(st.entries, Keys) \in Nat /\ HeldBytes(st.entries, Keys) \in Nat
  <2>1. {} \in SUBSET Keys
    OBVIOUS
  <2>2. QED
    BY <1>4, <2>1, EmptiedBytes
<1>6. ASSUME evict PROVE HeldBytes(st.entries, Keys) = 0
  <2>1. \A k \in Keys : HeldIn(st.entries)[k] = 0
    BY <1>4, <1>6 DEF HeldIn
  <2>2. QED
    BY <2>1, KeysAssumption, SumZero, BytesAreSums
<1>7. QED
  BY <1>1, <1>2, <1>3, <1>4, <1>5, <1>6

(* _remove() leaves a sound store without the keys of K, and no more       *)
(* bytes than before.                                                      *)
LEMMA RemoveSound ==
    ASSUME NEW st, NEW tk, NEW pb, Sound(st, tk, pb), Histories(tk, pb),
           evict \in BOOLEAN, NEW K \in SUBSET Keys
    PROVE  LET less == Remove(st, K) IN
           /\ Sound(less, tk, pb)
           /\ less.entries = Emptied(st.entries, K)
           /\ Present(less.entries) = Present(st.entries) \ K
           /\ less.cached <= st.cached /\ less.held <= st.held
           /\ less.cached = st.cached - CachedBytes(st.entries, K)
<1>1. PICK L : L = Emptied(st.entries, K)
  OBVIOUS
<1>2. PICK less : less = Remove(st, K)
  OBVIOUS
<1>3. /\ st.entries \in [Keys -> Entry] /\ DOMAIN st.entries = Keys
      /\ Lists(st.order, Present(st.entries))
      /\ st.cached = CachedBytes(st.entries, Keys)
      /\ st.held = HeldBytes(st.entries, Keys)
      /\ st.cached \in Nat /\ st.held \in Nat
      /\ \A k \in Keys : EntryOK(st.entries[k], k, tk, pb)
  BY SoundFacts DEF Sound
<1>4. /\ less = [entries |-> L, order |-> Without(st.order, K),
                 cached |-> st.cached - CachedBytes(st.entries, K),
                 held |-> st.held - HeldBytes(st.entries, K)]
      /\ less.entries = L /\ less.order = Without(st.order, K)
      /\ less.cached = st.cached - CachedBytes(st.entries, K)
      /\ less.held = st.held - HeldBytes(st.entries, K)
  BY <1>1, <1>2 DEF Remove, Emptied
<1>5. \A k \in Keys : EntryOK(L[k], k, tk, pb)
  <2>1. \A k \in Keys : EntryOK(Absent, k, tk, pb)
    BY AbsentFacts DEF EntryOK
  <2>2. QED
    BY <1>1, <1>3, <2>1 DEF Emptied
<1>6. L \in [Keys -> Entry] /\ DOMAIN L = Keys
  BY <1>1, <1>3, AbsentFacts DEF Emptied
<1>7. Present(L) = Present(st.entries) \ K
  BY <1>1, <1>3, <1>6, AbsentFacts DEF Present, Emptied
<1>8. Lists(less.order, Present(L))
  BY <1>3, <1>4, <1>7, WithoutLists
<1>9. /\ CachedBytes(L, Keys) = st.cached - CachedBytes(st.entries, K)
      /\ HeldBytes(L, Keys) = st.held - HeldBytes(st.entries, K)
      /\ CachedBytes(st.entries, K) \in Nat /\ HeldBytes(st.entries, K) \in Nat
  <2>1. \A k \in Keys : /\ SizeOf(st.entries[k]) \in Nat
                        /\ st.entries[k].held \in Nat
    BY SoundFacts
  <2>2. QED
    BY <1>1, <1>3, <2>1, EmptiedBytes
<1>10. less.order \in Seq(Keys)
  <2>1. Present(L) \subseteq Keys
    BY <1>6 DEF Present
  <2>2. QED
    BY <1>8, <2>1, ListsTyped
<1>11. less \in Stores
  BY <1>3, <1>4, <1>6, <1>9, <1>10 DEF Stores
<1>12. Sound(less, tk, pb)
  BY <1>4, <1>5, <1>8, <1>9, <1>11 DEF Sound
<1>13. QED
  BY <1>1, <1>2, <1>3, <1>4, <1>7, <1>9, <1>12

(* move_to_end() of a present key changes nothing but the order.           *)
LEMMA MoveToEndSound ==
    ASSUME NEW st, NEW tk, NEW pb, Sound(st, tk, pb), Histories(tk, pb),
           NEW k \in Present(st.entries)
    PROVE  LET used == MoveToEnd(st, k) IN
           /\ Sound(used, tk, pb) /\ used.entries = st.entries
           /\ used.cached = st.cached /\ used.held = st.held
<1>1. PICK used : used = MoveToEnd(st, k)
  OBVIOUS
<1>2. st \in Stores /\ Lists(st.order, Present(st.entries))
  BY DEF Sound
<1>3. k \in Keys
  BY <1>2 DEF Present, Stores
<1>4. /\ used.entries = st.entries /\ used.cached = st.cached
      /\ used.held = st.held
      /\ used.order = ToEnd(st.order, k)
      /\ used = [st EXCEPT !.order = ToEnd(st.order, k)]
  BY <1>1, <1>2 DEF MoveToEnd, Stores
<1>5. Lists(ToEnd(st.order, k), Present(st.entries) \cup {k})
  BY <1>2, ToEndLists
<1>6. Lists(used.order, Present(st.entries))
  BY <1>4, <1>5
<1>7. used \in Stores
  <2>1. Present(st.entries) \subseteq Keys
    BY <1>2 DEF Present, Stores
  <2>2. used.order \in Seq(Keys)
    BY <1>6, <2>1, ListsTyped
  <2>3. QED
    BY <1>2, <1>4, <2>2 DEF Stores
<1>8. QED
  BY <1>1, <1>4, <1>6, <1>7 DEF Sound

(* Which keys can be victims: completed ones only, the oldest of them if   *)
(* one is asked for, all of them if as many as there are.                  *)
LEMMA OldestFacts ==
    ASSUME NEW st, NEW tk, NEW pb, Sound(st, tk, pb)
    PROVE  /\ CompletedKeys(st) \in SUBSET Present(st.entries)
           /\ IsFiniteSet(CompletedKeys(st))
           /\ \A n : OldestCompleted(st, n) \in SUBSET CompletedKeys(st)
           /\ OldestCompleted(st, Cardinality(CompletedKeys(st)))
                  = CompletedKeys(st)
           /\ CompletedKeys(st) # {} => OldestCompleted(st, 1) # {}
<1>1. /\ DOMAIN st.entries = Keys /\ Lists(st.order, Present(st.entries))
      /\ st.order \in Seq(Keys)
  BY DEF Sound, Stores
<1>2. CompletedKeys(st) \in SUBSET Present(st.entries)
  BY <1>1 DEF CompletedKeys, Present, IsPresent
<1>3. IsFiniteSet(CompletedKeys(st))
  BY <1>1, <1>2, ListsFinite, FS_Subset
<1>4. PICK C : C = CompletedKeys(st)
  OBVIOUS
<1>5. PICK s : s = st.order
  OBVIOUS
<1>6. /\ s \in Seq(Keys) /\ Len(s) \in Nat
      /\ \A i, j \in 1..Len(s) : s[i] = s[j] => i = j
      /\ \A k \in C : \E i \in 1..Len(s) : s[i] = k
  <2>1. PICK P : P = Present(st.entries)
    OBVIOUS
  <2>2. Lists(s, P) /\ C \subseteq P
    BY <1>1, <1>2, <1>4, <1>5, <2>1
  <2>3. \A k \in P : \E i \in 1..Len(s) : s[i] = k
    BY <2>2 DEF Lists
  <2>4. QED
    BY <1>1, <1>5, <2>2, <2>3 DEF Lists
<1>7. \A n : OldestCompleted(st, n) =
             {k \in C : \E i \in 1..Len(s) :
                 /\ s[i] = k
                 /\ Cardinality({j \in 1..i : s[j] \in C}) <= n}
  BY <1>4, <1>5 DEF OldestCompleted
<1>8. ASSUME NEW k \in C
      PROVE  \E i \in 1..Len(s) :
                /\ s[i] = k
                /\ Cardinality({j \in 1..i : s[j] \in C}) <= Cardinality(C)
  <2>1. PICK i \in 1..Len(s) : s[i] = k
    BY <1>6
  <2>2. PICK J : J = {j \in 1..i : s[j] \in C}
    OBVIOUS
  <2>3. PICK f : f = [j \in J |-> s[j]]
    OBVIOUS
  <2>4. f \in Injection(J, C)
    <3>1. f \in [J -> C]
      BY <2>2, <2>3
    <3>2. \A a, b \in J : a \in 1..Len(s) /\ b \in 1..Len(s)
      BY <1>6, <2>1, <2>2
    <3>3. \A a, b \in J : f[a] = f[b] => a = b
      BY <1>6, <2>3, <3>2
    <3>4. QED
      BY <3>1, <3>3 DEF Injection, IsInjective
  <2>5. Cardinality(J) <= Cardinality(C)
    BY <1>3, <1>4, <2>4, FS_Injection
  <2>6. QED
    BY <2>1, <2>2, <2>5
<1>9. ASSUME C # {}
      PROVE  \E k \in C : \E i \in 1..Len(s) :
                /\ s[i] = k
                /\ Cardinality({j \in 1..i : s[j] \in C}) <= 1
  <2>1. PICK P : P = {i \in 1..Len(s) : s[i] \in C}
    OBVIOUS
  <2>2. P \in SUBSET Nat /\ P # {}
    BY <1>6, <1>9, <2>1
  <2>3. PICK i \in P : \A j \in P : i <= j
    BY <2>2, NatLeast
  <2>4. i \in 1..Len(s) /\ s[i] \in C
    BY <2>1, <2>3
  <2>5. {j \in 1..i : s[j] \in C} = {i}
    <3>1. \A j \in 1..i : j \in 1..Len(s)
      BY <1>6, <2>4
    <3>2. \A j \in 1..i : s[j] \in C => j = i
      BY <2>1, <2>3, <2>4, <3>1
    <3>3. i \in 1..i
      BY <2>4
    <3>4. QED
      BY <2>4, <3>2, <3>3
  <2>6. PICK J : J = {j \in 1..i : s[j] \in C}
    OBVIOUS
  <2>7. Cardinality(J) <= 1
    <3>1. J = {i}
      BY <2>5, <2>6
    <3>2. Cardinality(J) = 1
      BY <3>1, FS_Singleton
    <3>3. QED
      BY <3>2
  <2>8. QED
    BY <2>4, <2>6, <2>7
<1>10. \A n : OldestCompleted(st, n) \in SUBSET C
  BY <1>7
<1>11. OldestCompleted(st, Cardinality(C)) = C
  <2>1. PICK n : n = Cardinality(C)
    OBVIOUS
  <2>2. OldestCompleted(st, n) =
             {k \in C : \E i \in 1..Len(s) :
                 /\ s[i] = k
                 /\ Cardinality({j \in 1..i : s[j] \in C}) <= n}
    BY <1>7
  <2>3. QED
    BY <1>8, <2>1, <2>2
<1>12. C # {} => OldestCompleted(st, 1) # {}
  <2>1. OldestCompleted(st, 1) =
             {k \in C : \E i \in 1..Len(s) :
                 /\ s[i] = k
                 /\ Cardinality({j \in 1..i : s[j] \in C}) <= 1}
    BY <1>7
  <2>2. QED
    BY <1>9, <2>1
<1>13. QED
  BY <1>2, <1>3, <1>4, <1>10, <1>11, <1>12

(* What the insertion of e under k does to a store.                        *)
Inserted(st, more, k, e) ==
    /\ more.entries = [st.entries EXCEPT ![k] = e]
    /\ Present(more.entries) = Present(st.entries) \cup {k}
    /\ more.cached = st.cached /\ more.held = st.held + e.held

(* The insertion of a reservation with the next token is sound for the     *)
(* histories with that token appended.                                     *)
LEMMA InsertSound ==
    ASSUME NEW st, NEW tk, NEW pb, Sound(st, tk, pb), Histories(tk, pb),
           evict \in BOOLEAN, now \in Nat,
           NEW k \in Keys, k \notin Present(st.entries), NEW fp \in Fingerprints,
           NEW t, t = Len(tk) + 1
    PROVE  LET more == Insert(st, k, fp, t)
               tk1  == Append(tk, [key |-> k, fp |-> fp])
               pb1  == Append(pb, None)
               e    == Reserved(fp, t, now + ReservationTTL, HeldFor)
           IN  /\ Sound(more, tk1, pb1) /\ Histories(tk1, pb1)
               /\ Inserted(st, more, k, e)
<1>1. t = Len(tk) + 1
  OBVIOUS
<1>2. PICK tk1 : tk1 = Append(tk, [key |-> k, fp |-> fp])
  OBVIOUS
<1>3. PICK pb1 : pb1 = Append(pb, None)
  OBVIOUS
<1>4. PICK h : h = HeldFor
  OBVIOUS
<1>5. PICK e : e = Reserved(fp, t, now + ReservationTTL, h)
  OBVIOUS
<1>6. PICK more : more = Insert(st, k, fp, t)
  OBVIOUS
<1>7. /\ st \in Stores /\ Lists(st.order, Present(st.entries))
      /\ st.entries \in [Keys -> Entry] /\ DOMAIN st.entries = Keys
      /\ \A j \in Keys : EntryOK(st.entries[j], j, tk, pb)
      /\ st.cached = CachedBytes(st.entries, Keys)
      /\ st.held = HeldBytes(st.entries, Keys)
  BY DEF Sound, Stores
<1>8. PICK L : L = [st.entries EXCEPT ![k] = e]
  OBVIOUS
<1>9. /\ more = [entries |-> L, order |-> Append(st.order, k),
                 cached |-> st.cached, held |-> st.held + h]
      /\ more.entries = L /\ more.order = Append(st.order, k)
      /\ more.cached = st.cached /\ more.held = st.held + h
  BY <1>4, <1>5, <1>6, <1>8 DEF Insert
<1>10. h \in Nat
  BY <1>4, StoreAssumption DEF HeldFor
<1>11. Histories(tk1, pb1) /\ Len(tk1) = t /\ Len(tk) \in Nat
  BY <1>1, <1>2, <1>3 DEF Histories
<1>12. /\ tk1[t] = [key |-> k, fp |-> fp] /\ pb1[t] = None
       /\ \A i \in 1..Len(tk) : /\ tk1[i] = tk[i] /\ pb1[i] = pb[i]
                                /\ i \in 1..Len(tk1)
  BY <1>1, <1>2, <1>3, <1>11 DEF Histories
<1>13. /\ e.state = "reserved" /\ e.fp = fp /\ e.token = t /\ e.held = h
       /\ e.resp = None /\ e \in Entry
  <2>1. t \in Nat /\ now + ReservationTTL \in Nat
    BY <1>1, <1>11, StoreAssumption
  <2>2. QED
    BY <1>5, <1>10, <2>1 DEF Reserved, Entry, States
<1>14. EntryOK(e, k, tk1, pb1)
  <2>1. t \in 1..Len(tk1)
    BY <1>1, <1>11
  <2>2. QED
    BY <1>4, <1>12, <1>13, <2>1 DEF EntryOK
<1>15. ASSUME NEW j \in Keys
       PROVE  EntryOK(st.entries[j], j, tk1, pb1)
  <2>1. PICK d : d = st.entries[j]
    OBVIOUS
  <2>2. EntryOK(d, j, tk, pb)
    BY <1>7, <2>1
  <2>3. CASE IsPresent(d)
    <3>1. d.token \in 1..Len(tk)
      BY <2>2, <2>3 DEF EntryOK
    <3>2. /\ tk1[d.token] = tk[d.token] /\ pb1[d.token] = pb[d.token]
          /\ d.token \in 1..Len(tk1)
      BY <1>12, <3>1
    <3>3. EntryOK(d, j, tk1, pb1)
      BY <2>2, <3>2 DEF EntryOK
    <3>4. QED
      BY <2>1, <3>3
  <2>4. CASE ~IsPresent(d)
    BY <2>1, <2>2, <2>4 DEF EntryOK, IsPresent
  <2>5. QED
    BY <2>3, <2>4
<1>16. \A j \in Keys : EntryOK(L[j], j, tk1, pb1)
  BY <1>7, <1>8, <1>14, <1>15
<1>17. L \in [Keys -> Entry] /\ DOMAIN L = Keys
  BY <1>7, <1>8, <1>13
<1>18. Present(L) = Present(st.entries) \cup {k}
  BY <1>7, <1>8, <1>13, <1>17 DEF Present, IsPresent
<1>19. Lists(more.order, Present(L))
  BY <1>7, <1>9, <1>18, ListsAppend
<1>20. st.entries[k] = Absent
  BY <1>7 DEF Present, IsPresent, EntryOK
<1>21. /\ CachedBytes(L, Keys) = st.cached
       /\ HeldBytes(L, Keys) = st.held + h
  <2>1. \A j \in Keys : /\ SizeOf(st.entries[j]) \in Nat
                        /\ st.entries[j].held \in Nat
    BY SoundFacts
  <2>2. SizeOf(e) = 0
    BY <1>13 DEF SizeOf
  <2>3. L[k] = e /\ \A j \in Keys : j # k => L[j] = st.entries[j]
    BY <1>7, <1>8
  <2>4. /\ CachedBytes(L, Keys)
              = CachedBytes(st.entries, Keys) - SizeOf(st.entries[k]) + SizeOf(L[k])
        /\ HeldBytes(L, Keys)
              = HeldBytes(st.entries, Keys) - st.entries[k].held + L[k].held
    <3>1. SizeOf(L[k]) \in Nat /\ L[k].held \in Nat
      BY <1>10, <1>13, <2>2, <2>3
    <3>2. Replaced(st.entries, L, k)
      BY <2>1, <2>3, <3>1 DEF Replaced
    <3>3. QED
      BY <3>2, ReplacedBytes
  <2>5. st.cached \in Nat /\ st.held \in Nat
    BY SoundFacts
  <2>6. QED
    BY <1>7, <1>10, <1>13, <1>20, <2>2, <2>3, <2>4, <2>5, AbsentFacts
<1>22. more \in Stores
  <2>1. more.order \in Seq(Keys)
    <3>1. Present(L) \subseteq Keys
      BY <1>17 DEF Present
    <3>2. QED
      BY <1>19, <3>1, ListsTyped
  <2>2. st.cached \in Int /\ st.held + h \in Int
    BY <1>7, <1>10 DEF Stores
  <2>3. QED
    BY <1>9, <1>17, <2>1, <2>2 DEF Stores
<1>23. Sound(more, tk1, pb1)
  BY <1>9, <1>16, <1>19, <1>21, <1>22 DEF Sound
<1>24. Inserted(st, more, k, e)
  BY <1>8, <1>9, <1>13, <1>18 DEF Inserted
<1>25. QED
  BY <1>2, <1>3, <1>4, <1>5, <1>6, <1>11, <1>23, <1>24

(* The entry, the store and the history of commits once the reservation    *)
(* of k, token i, is completed with a response of that size.               *)
Done(e, size) == Completed(e, [by |-> e.token, size |-> size], now + TTL)

Filled(st, k, size) ==
    [st EXCEPT !.entries[k] = Done(st.entries[k], size),
               !.cached = @ + size,
               !.held = @ - st.entries[k].held]

Stamped(pb, i, size) == [pb EXCEPT ![i] = [size |-> size, at |-> now]]

(* The completion of a reservation by its owner is sound for the history   *)
(* that records the commit, and gives back what the entry held.            *)
LEMMA CompleteSound ==
    ASSUME NEW st, NEW tk, NEW pb, Sound(st, tk, pb), Histories(tk, pb),
           evict \in BOOLEAN, now \in Nat, NEW size \in Sizes,
           NEW i \in 1..Len(tk), NEW k \in Keys, k = tk[i].key,
           Owns(st.entries[k], tk[i].fp, i)
    PROVE  LET full == Filled(st, k, size)
               pb1  == Stamped(pb, i, size)
           IN  /\ Sound(full, tk, pb1) /\ Histories(tk, pb1)
               /\ full.entries = [st.entries EXCEPT
                                     ![k] = Done(st.entries[k], size)]
               /\ Present(full.entries) = Present(st.entries)
               /\ k \in Present(full.entries)
               /\ full.cached = st.cached + size
               /\ full.held = st.held - HeldFor
<1>1. PICK e : e = st.entries[k]
  OBVIOUS
<1>2. PICK done : done = Done(e, size)
  OBVIOUS
<1>3. PICK pb1 : pb1 = Stamped(pb, i, size)
  OBVIOUS
<1>4. PICK L : L = [st.entries EXCEPT ![k] = done]
  OBVIOUS
<1>5. PICK full : full = Filled(st, k, size)
  OBVIOUS
<1>6. /\ st \in Stores /\ Lists(st.order, Present(st.entries))
      /\ st.entries \in [Keys -> Entry] /\ DOMAIN st.entries = Keys
      /\ \A j \in Keys : EntryOK(st.entries[j], j, tk, pb)
      /\ st.cached = CachedBytes(st.entries, Keys)
      /\ st.held = HeldBytes(st.entries, Keys)
  BY DEF Sound, Stores
<1>7. /\ full.entries = L /\ full.order = st.order
      /\ full.cached = st.cached + size /\ full.held = st.held - e.held
      /\ full = [entries |-> L, order |-> st.order,
                 cached |-> st.cached + size, held |-> st.held - e.held]
  BY <1>1, <1>2, <1>4, <1>5, <1>6 DEF Stores, Filled
<1>8. /\ e.state = "reserved" /\ e.token = i /\ e.fp = tk[i].fp
      /\ e \in Entry /\ e.held = HeldFor /\ e.resp = None
      /\ IsPresent(e) /\ tk[i] = [key |-> k, fp |-> e.fp]
  <2>1. e.state = "reserved" /\ e.token = i /\ e.fp = tk[i].fp
    BY <1>1 DEF Owns
  <2>2. IsPresent(e)
    BY <2>1 DEF IsPresent
  <2>3. EntryOK(e, k, tk, pb)
    BY <1>1, <1>6
  <2>4. QED
    BY <2>1, <2>2, <2>3 DEF EntryOK
<1>9. /\ done.state = "complete" /\ done.fp = e.fp /\ done.token = i
      /\ done.expires = now + TTL /\ done.resp = [by |-> i, size |-> size]
      /\ done.held = 0 /\ done \in Entry
  <2>1. now + TTL \in Nat /\ [by |-> i, size |-> size] \in Response
    BY StoreAssumption DEF Response, Histories
  <2>2. QED
    BY <1>2, <1>8, <2>1 DEF Done, Completed, Entry, States
<1>10. /\ Histories(tk, pb1) /\ Len(pb) = Len(tk)
       /\ pb1[i] = [size |-> size, at |-> now]
       /\ \A j \in 1..Len(tk) : j # i => pb1[j] = pb[j]
  BY <1>3 DEF Histories, Stamped
<1>11. pb1[i] # None
  BY <1>10, NoneAssumption, StoreAssumption
<1>12. EntryOK(done, k, tk, pb1)
  <2>1. pb1[i].size = size /\ pb1[i].at = now
    BY <1>10
  <2>2. QED
    BY <1>8, <1>9, <1>11, <2>1 DEF EntryOK
<1>13. ASSUME NEW j \in Keys, j # k
       PROVE  EntryOK(st.entries[j], j, tk, pb1)
  <2>1. PICK d : d = st.entries[j]
    OBVIOUS
  <2>2. EntryOK(d, j, tk, pb)
    BY <1>6, <2>1
  <2>3. CASE IsPresent(d)
    <3>1. d.token \in 1..Len(tk) /\ tk[d.token] = [key |-> j, fp |-> d.fp]
      BY <2>2, <2>3 DEF EntryOK
    <3>2. d.token # i
      <4>1. tk[d.token].key = j
        BY <3>1
      <4>2. QED
        BY <1>13, <4>1
    <3>3. pb1[d.token] = pb[d.token]
      BY <1>10, <3>1, <3>2
    <3>4. EntryOK(d, j, tk, pb1)
      BY <2>2, <3>3 DEF EntryOK
    <3>5. QED
      BY <2>1, <3>4
  <2>4. CASE ~IsPresent(d)
    BY <2>1, <2>2, <2>4 DEF EntryOK, IsPresent
  <2>5. QED
    BY <2>3, <2>4
<1>14. \A j \in Keys : EntryOK(L[j], j, tk, pb1)
  BY <1>4, <1>6, <1>12, <1>13
<1>15. L \in [Keys -> Entry] /\ DOMAIN L = Keys
  BY <1>4, <1>6, <1>9
<1>16. Present(L) = Present(st.entries) /\ k \in Present(L)
  BY <1>1, <1>4, <1>6, <1>8, <1>9, <1>15 DEF Present, IsPresent
<1>17. /\ CachedBytes(L, Keys) = st.cached + size
       /\ HeldBytes(L, Keys) = st.held - e.held
       /\ st.cached \in Nat /\ st.held \in Nat /\ size \in Nat /\ e.held \in Nat
  <2>1. \A j \in Keys : /\ SizeOf(st.entries[j]) \in Nat
                        /\ st.entries[j].held \in Nat
    BY SoundFacts
  <2>2. SizeOf(e) = 0 /\ e.held \in Nat
    BY <1>1, <1>8, <2>1 DEF SizeOf
  <2>3. SizeOf(done) = size /\ size \in Nat
    <3>1. size \in Nat
      BY StoreAssumption
    <3>2. [by |-> i, size |-> size] # None
      BY <3>1, NoneAssumption DEF Histories
    <3>3. QED
      BY <1>9, <3>1, <3>2 DEF SizeOf
  <2>4. L[k] = done /\ \A j \in Keys : j # k => L[j] = st.entries[j]
    BY <1>4, <1>6
  <2>5. /\ CachedBytes(L, Keys)
              = CachedBytes(st.entries, Keys) - SizeOf(st.entries[k]) + SizeOf(L[k])
        /\ HeldBytes(L, Keys)
              = HeldBytes(st.entries, Keys) - st.entries[k].held + L[k].held
    <3>1. SizeOf(L[k]) \in Nat /\ L[k].held \in Nat
      BY <1>9, <2>3, <2>4
    <3>2. Replaced(st.entries, L, k)
      BY <2>1, <2>4, <3>1 DEF Replaced
    <3>3. QED
      BY <3>2, ReplacedBytes
  <2>6. st.cached \in Nat /\ st.held \in Nat
    BY SoundFacts
  <2>7. QED
    BY <1>1, <1>6, <1>9, <2>2, <2>3, <2>4, <2>5, <2>6
<1>18. full \in Stores
  <2>1. st.order \in Seq(Keys)
    BY <1>6 DEF Stores
  <2>2. st.cached + size \in Int /\ st.held - e.held \in Int
    BY <1>17
  <2>3. QED
    BY <1>7, <1>15, <2>1, <2>2 DEF Stores
<1>19. Sound(full, tk, pb1)
  <2>1. Lists(full.order, Present(full.entries))
    BY <1>6, <1>7, <1>16
  <2>2. QED
    BY <1>7, <1>14, <1>17, <1>18, <2>1 DEF Sound
<1>20. full.entries = [st.entries EXCEPT ![k] = Done(st.entries[k], size)]
  BY <1>1, <1>2, <1>4, <1>7
<1>21. /\ Present(full.entries) = Present(st.entries)
       /\ k \in Present(full.entries)
       /\ full.cached = st.cached + size /\ full.held = st.held - HeldFor
  BY <1>7, <1>8, <1>16
<1>22. Sound(full, tk, pb1) /\ Histories(tk, pb1)
  BY <1>10, <1>19
<1>23. QED
  BY <1>3, <1>5, <1>20, <1>21, <1>22
-----------------------------------------------------------------------------
(* Both limits of the store, the bytes promised to reservations included.  *)
Bounded(st) ==
    /\ Cardinality(Present(st.entries)) <= MaxEntries
    /\ st.cached + st.held <= MaxTotalBytes

(* The inductive invariant.                                                *)
StoreInv ==
    /\ evict \in BOOLEAN /\ now \in Nat
    /\ Histories(tickets, published)
    /\ Sound(store, tickets, published)
    /\ Bounded(store)
    /\ reply \in Reply
    /\ ReplayFaithful

(* Soundness in the next state, given the new store and histories.         *)
LEMMA SoundAfter ==
    ASSUME NEW st, NEW tk, NEW pb, Sound(st, tk, pb), UNCHANGED evict,
           store' = st, tickets' = tk, published' = pb
    PROVE  Sound(store, tickets, published)'
  BY DEF Sound, EntryOK, HeldFor

(* Removal keeps the limits.                                               *)
LEMMA RemoveBounded ==
    ASSUME NEW st, NEW tk, NEW pb, Sound(st, tk, pb), Histories(tk, pb),
           evict \in BOOLEAN, Bounded(st), NEW K \in SUBSET Keys
    PROVE  Bounded(Remove(st, K))
<1>1. PICK less : less = Remove(st, K)
  OBVIOUS
<1>2. /\ Sound(less, tk, pb)
      /\ Present(less.entries) = Present(st.entries) \ K
      /\ less.cached <= st.cached /\ less.held <= st.held
  BY <1>1, RemoveSound
<1>3. /\ IsFiniteSet(Present(st.entries))
      /\ st.cached \in Nat /\ st.held \in Nat
      /\ less.cached \in Nat /\ less.held \in Nat
  BY <1>2, SoundFacts
<1>4. /\ Cardinality(Present(st.entries) \ K) <= Cardinality(Present(st.entries))
      /\ Cardinality(Present(st.entries) \ K) \in Nat
      /\ Cardinality(Present(st.entries)) \in Nat
  BY <1>3, FS_Subset, FS_CardinalityType
<1>5. QED
  BY <1>1, <1>2, <1>3, <1>4, StoreAssumption DEF Bounded

(* After the sweep every method starts with, the store is sound, within    *)
(* its limits, free of expired entries, and the purge of what it was.      *)
LEMMA Swept ==
    ASSUME StoreInv
    PROVE  LET st == Expire(store, now) IN
           /\ Sound(st, tickets, published) /\ Bounded(st)
           /\ st.entries = Purge(store.entries, now)
           /\ \A k \in Keys : ~IsExpired(st.entries[k], now)
<1>1. PICK dead : dead = {k \in Keys : IsExpired(store.entries[k], now)}
  OBVIOUS
<1>2. PICK st : st = Expire(store, now)
  OBVIOUS
<1>3. st = Remove(store, dead) /\ dead \in SUBSET Keys
  BY <1>1, <1>2 DEF Expire
<1>4. Sound(st, tickets, published) /\ st.entries = Emptied(store.entries, dead)
  BY <1>3, RemoveSound DEF StoreInv
<1>5. Bounded(st)
  BY <1>3, RemoveBounded DEF StoreInv
<1>6. DOMAIN store.entries = Keys
  BY SoundFacts DEF StoreInv
<1>7. st.entries = Purge(store.entries, now)
  BY <1>1, <1>4, <1>6 DEF Purge, Emptied
<1>8. \A k \in Keys : ~IsExpired(st.entries[k], now)
  BY <1>1, <1>4, AbsentFacts DEF Emptied, IsExpired
<1>9. QED
  BY <1>2, <1>4, <1>5, <1>7, <1>8

(* What the classification of an entry says about its state.               *)
LEMMA LookupFacts ==
    ASSUME NEW e, NEW fp, e.state \in States
    PROVE  /\ Lookup(e, fp) = "fresh" <=> e.state = "absent"
           /\ Lookup(e, fp) = "replay" <=> e.state = "complete" /\ e.fp = fp
           /\ Lookup(e, fp) \in {"fresh", "conflict", "in_progress", "replay"}
<1>1. CASE e.state = "absent"
  BY <1>1 DEF Lookup, IsPresent
<1>2. CASE e.state # "absent" /\ e.fp # fp
  BY <1>2 DEF Lookup, IsPresent
<1>3. CASE e.state = "reserved" /\ e.fp = fp
  BY <1>3 DEF Lookup, IsPresent
<1>4. CASE e.state = "complete" /\ e.fp = fp
  BY <1>4 DEF Lookup, IsPresent
<1>5. QED
  BY <1>1, <1>2, <1>3, <1>4 DEF States

(* A refusal for want of room says something about the whole store: it     *)
(* is not empty, and with eviction it is full of work in flight.           *)
LEMMA RefusalFacts ==
    ASSUME NEW st, NEW tk, NEW pb, Sound(st, tk, pb), Histories(tk, pb),
           evict \in BOOLEAN, Bounded(st), ~CanReserve(st)
    PROVE  /\ Present(st.entries) # {}
           /\ evict => /\ CompletedKeys(st) = {}
                       /\ Cardinality(Present(st.entries)) = MaxEntries
<1>1. PICK P : P = Present(st.entries)
  OBVIOUS
<1>2. PICK V : V = EntryVictims(st)
  OBVIOUS
<1>3. IsFiniteSet(P) /\ st.cached \in Nat /\ st.held \in Nat
  BY <1>1, SoundFacts
<1>4. /\ Cardinality(P) \in Nat /\ Cardinality(P) <= MaxEntries
      /\ Cardinality(P \ V) \in Nat
      /\ V \in SUBSET P /\ V # {} => Cardinality(P \ V) # Cardinality(P)
      /\ Cardinality(P \ V) <= Cardinality(P)
  <2>1. Cardinality(P) \in Nat /\ Cardinality(P) <= MaxEntries
    BY <1>1, <1>3, FS_CardinalityType DEF Bounded
  <2>2. P \ V \in SUBSET P
    OBVIOUS
  <2>3. /\ IsFiniteSet(P \ V) /\ Cardinality(P \ V) <= Cardinality(P)
        /\ Cardinality(P) = Cardinality(P \ V) => P = P \ V
    BY <1>3, <2>2, FS_Subset
  <2>4. V \in SUBSET P /\ V # {} => P # P \ V
    OBVIOUS
  <2>5. QED
    BY <2>1, <2>3, <2>4, FS_CardinalityType
<1>5. ~(/\ Cardinality(P \ V) < MaxEntries
        /\ evict \/ st.cached + st.held + HeldFor <= MaxTotalBytes)
  BY <1>1, <1>2 DEF CanReserve
<1>6. CASE evict
  <2>1. ~(Cardinality(P \ V) < MaxEntries)
    BY <1>5, <1>6
  <2>2. Cardinality(P) = MaxEntries /\ Cardinality(P \ V) = Cardinality(P)
    BY <1>4, <2>1, StoreAssumption
  <2>3. V = OldestCompleted(st, 1)
    BY <1>1, <1>2, <1>6, <2>2, StoreAssumption DEF EntryVictims
  <2>4. V \in SUBSET P /\ (CompletedKeys(st) # {} => V # {})
    <3>1. /\ CompletedKeys(st) \in SUBSET P
          /\ OldestCompleted(st, 1) \in SUBSET CompletedKeys(st)
          /\ CompletedKeys(st) # {} => OldestCompleted(st, 1) # {}
      BY <1>1, OldestFacts
    <3>2. QED
      BY <2>3, <3>1
  <2>5. CompletedKeys(st) = {}
    BY <1>4, <2>2, <2>4
  <2>6. P # {}
    BY <2>2, StoreAssumption, FS_EmptySet
  <2>7. QED
    BY <1>1, <2>2, <2>5, <2>6
<1>7. CASE ~evict
  <2>1. V = {} /\ P \ V = P
    BY <1>2, <1>7 DEF EntryVictims
  <2>2. SUFFICES ASSUME P = {} PROVE FALSE
    BY <1>1, <1>7
  <2>3. Cardinality(P) = 0
    BY <2>2, FS_EmptySet
  <2>4. st.cached + st.held + MaxResponseBytes > MaxTotalBytes
    BY <1>3, <1>5, <1>7, <2>1, <2>3, StoreAssumption DEF HeldFor
  <2>5. \A k \in Keys : st.entries[k] = Absent
    BY <1>1, <2>2 DEF Present, Sound, Stores, EntryOK, IsPresent
  <2>6. /\ \A k \in Keys : SizesIn(st.entries)[k] = 0
        /\ \A k \in Keys : HeldIn(st.entries)[k] = 0
    BY <2>5, AbsentFacts DEF SizesIn, HeldIn
  <2>7. st.cached = 0 /\ st.held = 0
    BY <2>6, KeysAssumption, SumZero, BytesAreSums DEF Sound
  <2>8. QED
    BY <2>4, <2>7, StoreAssumption
<1>8. QED
  BY <1>6, <1>7

(* commit() of an owned reservation always finds room, at the cost of      *)
(* completed entries only.                                                 *)
LEMMA ResponseRoom ==
    ASSUME NEW st, NEW tk, NEW pb, Sound(st, tk, pb), Histories(tk, pb),
           evict \in BOOLEAN, Bounded(st),
           NEW size \in Sizes, size <= MaxResponseBytes,
           NEW k \in Keys, st.entries[k].state = "reserved"
    PROVE  /\ CanPublish(st, k, size)
           /\ ResponseVictims(st, size) \in SUBSET CompletedKeys(st)
           /\ evict => st.cached
                          - CachedBytes(st.entries, ResponseVictims(st, size))
                          + size <= MaxTotalBytes
<1>1. /\ st.cached \in Nat /\ st.held \in Nat /\ size \in Nat
      /\ \A j \in Keys : /\ SizeOf(st.entries[j]) \in Nat
                         /\ st.entries[j].held \in Nat
  BY SoundFacts, StoreAssumption
<1>2. CASE evict
  <2>1. PICK C : C = CompletedKeys(st)
    OBVIOUS
  <2>2. PICK n : n = Cardinality(C)
    OBVIOUS
  <2>3. n \in Nat /\ OldestCompleted(st, n) = C /\ C \in SUBSET Keys
    <3>1. IsFiniteSet(C) /\ OldestCompleted(st, n) = C
      BY <2>1, <2>2, OldestFacts
    <3>2. QED
      BY <2>1, <2>2, <3>1, FS_CardinalityType DEF CompletedKeys
  <2>4. CachedBytes(st.entries, C) = st.cached
    <3>1. \A j \in Keys : j \notin C => SizeOf(st.entries[j]) = 0
      BY <2>1, EntryFacts DEF CompletedKeys, Sound
    <3>2. \A j \in Keys : SizesIn(Emptied(st.entries, C))[j] = 0
      BY <3>1, AbsentFacts DEF SizesIn, Emptied
    <3>3. CachedBytes(Emptied(st.entries, C), Keys) = 0
      BY <3>2, KeysAssumption, SumZero, BytesAreSums
    <3>4. /\ CachedBytes(Emptied(st.entries, C), Keys)
                = CachedBytes(st.entries, Keys) - CachedBytes(st.entries, C)
          /\ CachedBytes(st.entries, C) \in Nat
      BY <1>1, <2>3, EmptiedBytes
    <3>5. st.cached = CachedBytes(st.entries, Keys)
      BY DEF Sound
    <3>6. QED
      BY <1>1, <3>3, <3>4, <3>5
  <2>5. PICK N : N = Enough(st, size)
    OBVIOUS
  <2>6. n \in N
    <3>1. st.cached - CachedBytes(st.entries, OldestCompleted(st, n)) + size
              <= MaxTotalBytes
      BY <1>1, <2>3, <2>4, StoreAssumption
    <3>2. n \in 0..Cardinality(CompletedKeys(st))
      BY <2>1, <2>2, <2>3
    <3>3. QED
      BY <2>5, <3>1, <3>2 DEF Enough
  <2>7. N \in SUBSET Nat
    BY <2>1, <2>2, <2>3, <2>5 DEF Enough
  <2>8. Min(N) \in N
    <3>1. \E x \in N : \A y \in N : x =< y
      BY <2>6, <2>7, NatLeast
    <3>2. QED
      BY <3>1 DEF Min
  <2>9. PICK m : m = Min(N)
    OBVIOUS
  <2>10. ResponseVictims(st, size) = OldestCompleted(st, m)
    BY <1>2, <2>5, <2>9 DEF ResponseVictims
  <2>11. st.cached - CachedBytes(st.entries, OldestCompleted(st, m)) + size
              <= MaxTotalBytes
    BY <2>5, <2>8, <2>9 DEF Enough
  <2>12. OldestCompleted(st, m) \in SUBSET CompletedKeys(st)
    BY OldestFacts
  <2>13. CanPublish(st, k, size)
    BY <1>2, <2>5, <2>6 DEF CanPublish
  <2>14. QED
    BY <2>10, <2>11, <2>12, <2>13
<1>3. CASE ~evict
  <2>1. st.entries[k].held = MaxResponseBytes
    BY <1>3 DEF Sound, EntryOK, HeldFor
  <2>2. st.cached + st.held <= MaxTotalBytes
    BY DEF Bounded
  <2>3. CanPublish(st, k, size)
    BY <1>1, <1>3, <2>1, <2>2, StoreAssumption DEF CanPublish
  <2>4. ResponseVictims(st, size) = {}
    BY <1>3 DEF ResponseVictims
  <2>5. QED
    BY <1>3, <2>3, <2>4
<1>4. QED
  BY <1>2, <1>3

(* The publication of a response keeps the store sound and within its      *)
(* limits.                                                                 *)
LEMMA PublishSound ==
    ASSUME NEW st, NEW tk, NEW pb, Sound(st, tk, pb), Histories(tk, pb),
           evict \in BOOLEAN, now \in Nat, Bounded(st),
           NEW size \in Sizes, size <= MaxResponseBytes,
           NEW i \in 1..Len(tk), NEW k \in Keys, k = tk[i].key,
           Owns(st.entries[k], tk[i].fp, i)
    PROVE  LET next == Publish(st, k, size)
               pb1  == Stamped(pb, i, size)
           IN  /\ Sound(next, tk, pb1) /\ Histories(tk, pb1) /\ Bounded(next)
               /\ next.entries =
                     [Emptied(st.entries, ResponseVictims(st, size)) EXCEPT
                        ![k] = Done(st.entries[k], size)]
               /\ ResponseVictims(st, size) \in SUBSET CompletedKeys(st)
               /\ CanPublish(st, k, size)
<1>1. PICK V : V = ResponseVictims(st, size)
  OBVIOUS
<1>2. PICK room : room = Remove(st, V)
  OBVIOUS
<1>3. PICK pb1 : pb1 = Stamped(pb, i, size)
  OBVIOUS
<1>4. PICK e : e = st.entries[k]
  OBVIOUS
<1>5. e.state = "reserved" /\ e.token = i /\ e.fp = tk[i].fp
  BY <1>4 DEF Owns
<1>6. /\ CanPublish(st, k, size) /\ V \in SUBSET CompletedKeys(st)
      /\ evict => st.cached - CachedBytes(st.entries, V) + size <= MaxTotalBytes
  BY <1>1, <1>4, <1>5, ResponseRoom
<1>7. V \in SUBSET Keys /\ k \notin V
  BY <1>4, <1>5, <1>6 DEF CompletedKeys
<1>8. /\ Sound(room, tk, pb) /\ room.entries = Emptied(st.entries, V)
      /\ room.cached <= st.cached /\ room.held <= st.held
      /\ room.cached = st.cached - CachedBytes(st.entries, V)
      /\ Bounded(room)
  BY <1>2, <1>7, RemoveSound, RemoveBounded
<1>9. room.entries[k] = e
  BY <1>4, <1>7, <1>8 DEF Emptied
<1>10. Owns(room.entries[k], tk[i].fp, i)
  BY <1>5, <1>9 DEF Owns
<1>11. PICK done : done = Done(e, size)
  OBVIOUS
<1>12. PICK full : full = Filled(room, k, size)
  OBVIOUS
<1>13. /\ Sound(full, tk, pb1) /\ Histories(tk, pb1)
       /\ full.entries = [room.entries EXCEPT ![k] = done]
       /\ Present(full.entries) = Present(room.entries)
       /\ k \in Present(full.entries)
       /\ full.cached = room.cached + size
       /\ full.held = room.held - HeldFor
  BY <1>3, <1>8, <1>9, <1>10, <1>11, <1>12, CompleteSound
<1>14. PICK next : next = Publish(st, k, size)
  OBVIOUS
<1>15. next = MoveToEnd(full, k)
  BY <1>1, <1>2, <1>12, <1>14 DEF Publish, Filled, Done
<1>16. /\ Sound(next, tk, pb1) /\ next.entries = full.entries
       /\ next.cached = full.cached /\ next.held = full.held
  BY <1>13, <1>15, MoveToEndSound
<1>17. /\ room.cached \in Nat /\ room.held \in Nat /\ st.cached \in Nat
       /\ st.held \in Nat /\ size \in Nat /\ (evict => room.held = 0)
  BY <1>8, SoundFacts, StoreAssumption
<1>18. next.cached + next.held <= MaxTotalBytes
  <2>1. CASE evict
    <3>1. next.cached = room.cached + size /\ next.held = 0
      BY <1>13, <1>16, <1>17, <2>1 DEF HeldFor
    <3>2. QED
      BY <1>6, <1>8, <1>17, <2>1, <3>1, StoreAssumption
  <2>2. CASE ~evict
    <3>1. /\ next.cached = room.cached + size
          /\ next.held = room.held - MaxResponseBytes
      BY <1>13, <1>16, <2>2 DEF HeldFor
    <3>2. st.cached + st.held <= MaxTotalBytes
      BY DEF Bounded
    <3>3. QED
      BY <1>8, <1>17, <3>1, <3>2, StoreAssumption
  <2>3. QED
    BY <2>1, <2>2
<1>19. Bounded(next)
  BY <1>8, <1>13, <1>16, <1>18 DEF Bounded
<1>20. next.entries = [Emptied(st.entries, V) EXCEPT ![k] = done]
  BY <1>5, <1>8, <1>9, <1>11, <1>13, <1>16
<1>21. QED
  BY <1>1, <1>3, <1>4, <1>6, <1>11, <1>13, <1>14, <1>16, <1>19, <1>20
-----------------------------------------------------------------------------
(* What a step has to establish, its new store being st.                   *)
LEMMA InvAfter ==
    ASSUME StoreInv, UNCHANGED evict, NEW st, NEW tk, NEW pb,
           Sound(st, tk, pb), Histories(tk, pb), Bounded(st),
           store' = st, tickets' = tk, published' = pb,
           now' \in Nat, reply' \in Reply, ReplayFaithful'
    PROVE  StoreInv'
<1>1. Sound(store, tickets, published)'
  BY SoundAfter
<1>2. evict' \in BOOLEAN
  BY DEF StoreInv
<1>3. Histories(tickets, published)' /\ Bounded(store)'
  BY DEF Histories, Bounded
<1>4. QED
  BY <1>1, <1>2, <1>3 DEF StoreInv

(* A ticket names a key and a fingerprint.                                 *)
LEMMA TicketKey ==
    ASSUME NEW tk, NEW pb, Histories(tk, pb), NEW i \in 1..Len(tk)
    PROVE  tk[i].key \in Keys /\ tk[i].fp \in Fingerprints
<1>1. PICK Ticket : Ticket = [key : Keys, fp : Fingerprints]
  OBVIOUS
<1>2. tk \in Seq(Ticket)
  BY <1>1 DEF Histories
<1>3. tk[i] \in Ticket
  BY <1>2
<1>4. QED
  BY <1>1, <1>3

(* An answer is typed, and only a replay has to be faithful.               *)
LEMMA AnswerTyped ==
    ASSUME NEW op \in {"init", "reserve", "commit", "abort"},
           NEW k \in Keys \cup {None}, NEW fp \in Fingerprints \cup {None},
           NEW outcome \in {"none", "conflict", "in_progress", "replay",
                     "capacity", "reserved", "too_large", "invalid",
                     "committed", "aborted", "not_owner"},
           NEW resp \in Response \cup {None},
           Answer(op, k, fp, outcome, resp)
    PROVE  /\ reply' \in Reply /\ reply'.outcome = outcome
           /\ reply'.key = k /\ reply'.fp = fp /\ reply'.resp = resp
           /\ outcome # "replay" => ReplayFaithful'
<1>1. /\ reply' \in Reply /\ reply'.outcome = outcome
      /\ reply'.key = k /\ reply'.fp = fp /\ reply'.resp = resp
  BY DEF Answer, Reply
<1>2. outcome # "replay" => ReplayFaithful'
  BY <1>1 DEF ReplayFaithful
<1>3. QED
  BY <1>1, <1>2

(* reserve() keeps the invariant: by the outcome, a lookup that answers,   *)
(* a refusal, or an insertion after eviction.                              *)
LEMMA ReserveInv ==
    ASSUME StoreInv, NEW k \in Keys, NEW fp \in Fingerprints, Reserve(k, fp),
           UNCHANGED evict
    PROVE  StoreInv'
<1>1. PICK st : st = Expire(store, now)
  OBVIOUS
<1>2. PICK tk : tk = tickets
  OBVIOUS
<1>3. PICK pb : pb = published
  OBVIOUS
<1>4. PICK e : e = st.entries[k]
  OBVIOUS
<1>5. PICK what : what = Lookup(e, fp)
  OBVIOUS
<1>6. /\ evict \in BOOLEAN /\ now \in Nat /\ Histories(tk, pb)
      /\ Sound(st, tk, pb) /\ Bounded(st)
      /\ ~IsExpired(e, now) /\ EntryOK(e, k, tk, pb)
  <2>1. evict \in BOOLEAN /\ now \in Nat /\ Histories(tk, pb)
    BY <1>2, <1>3 DEF StoreInv
  <2>2. Sound(st, tk, pb) /\ Bounded(st) /\ ~IsExpired(e, now)
    BY <1>1, <1>2, <1>3, <1>4, Swept
  <2>3. EntryOK(e, k, tk, pb)
    BY <1>4, <2>2 DEF Sound
  <2>4. QED
    BY <2>1, <2>2, <2>3
<1>7. e.state \in States /\ e.resp \in Response \cup {None}
  BY <1>6 DEF EntryOK, Entry
<1>8. CASE /\ what \in {"conflict", "in_progress"}
           /\ store' = st
           /\ Answer("reserve", k, fp, what, None)
           /\ UNCHANGED <<now, tickets, published>>
  <2>1. reply' \in Reply /\ ReplayFaithful'
    BY <1>8, AnswerTyped
  <2>2. QED
    BY <1>2, <1>3, <1>6, <1>8, <2>1, InvAfter
<1>9. CASE /\ what = "replay"
           /\ store' = MoveToEnd(st, k)
           /\ Answer("reserve", k, fp, what, e.resp)
           /\ UNCHANGED <<now, tickets, published>>
  <2>1. PICK used : used = MoveToEnd(st, k)
    OBVIOUS
  <2>2. e.state = "complete" /\ e.fp = fp /\ IsPresent(e)
    BY <1>5, <1>7, <1>9, LookupFacts DEF IsPresent
  <2>3. k \in Present(st.entries)
    BY <1>4, <1>6, <2>2, SoundFacts
  <2>4. /\ Sound(used, tk, pb) /\ used.entries = st.entries
        /\ used.cached = st.cached /\ used.held = st.held
    BY <1>6, <2>1, <2>3, MoveToEndSound
  <2>5. Bounded(used)
    BY <1>6, <2>4 DEF Bounded
  <2>6. /\ reply' \in Reply /\ reply'.key = k /\ reply'.fp = fp
        /\ reply'.resp = e.resp
    BY <1>7, <1>9, AnswerTyped
  <2>7. ReplayFaithful'
    <3>1. /\ e.token \in 1..Len(tk) /\ tk[e.token] = [key |-> k, fp |-> fp]
          /\ pb[e.token] # None
          /\ e.resp = [by |-> e.token, size |-> pb[e.token].size]
          /\ e.expires = pb[e.token].at + TTL
      BY <1>6, <2>2 DEF EntryOK
    <3>2. pb[e.token] \in [size : Sizes, at : Nat]
      BY <1>6, <3>1 DEF Histories
    <3>3. e.resp # None /\ e.resp.by = e.token /\ e.resp.size = pb[e.token].size
      BY <3>1, <3>2, NoneAssumption, StoreAssumption, <1>6 DEF Histories
    <3>4. now < pb[e.token].at + TTL
      BY <1>6, <2>2, <3>1, <3>2, StoreAssumption DEF IsExpired
    <3>5. tickets' = tk /\ published' = pb /\ now' = now
      BY <1>2, <1>3, <1>9
    <3>6. QED
      BY <2>6, <3>1, <3>3, <3>4, <3>5 DEF ReplayFaithful, Tokens
  <2>8. QED
    BY <1>2, <1>3, <1>6, <1>9, <2>1, <2>4, <2>5, <2>6, <2>7, InvAfter
<1>10. CASE /\ what = "fresh" /\ ~CanReserve(st)
            /\ store' = st
            /\ Answer("reserve", k, fp, "capacity", None)
            /\ UNCHANGED <<now, tickets, published>>
  <2>1. reply' \in Reply /\ ReplayFaithful'
    BY <1>10, AnswerTyped
  <2>2. QED
    BY <1>2, <1>3, <1>6, <1>10, <2>1, InvAfter
<1>11. CASE /\ what = "fresh" /\ CanReserve(st)
            /\ Len(tickets) < MaxTokens
            /\ store' = Insert(Remove(st, EntryVictims(st)), k, fp,
                               Len(tickets) + 1)
            /\ tickets' = Append(tickets, [key |-> k, fp |-> fp])
            /\ published' = Append(published, None)
            /\ Answer("reserve", k, fp, "reserved", None)
            /\ UNCHANGED now
  <2>1. PICK V : V = EntryVictims(st)
    OBVIOUS
  <2>2. PICK room : room = Remove(st, V)
    OBVIOUS
  <2>3. PICK more : more = Insert(room, k, fp, Len(tk) + 1)
    OBVIOUS
  <2>4. PICK tk1 : tk1 = Append(tk, [key |-> k, fp |-> fp])
    OBVIOUS
  <2>5. PICK pb1 : pb1 = Append(pb, None)
    OBVIOUS
  <2>6. V \in SUBSET Keys
    <3>1. \A n : OldestCompleted(st, n) \in SUBSET Keys
      BY DEF OldestCompleted, CompletedKeys
    <3>2. QED
      BY <2>1, <3>1 DEF EntryVictims
  <2>7. k \notin Present(st.entries)
    BY <1>4, <1>5, <1>7, <1>11, LookupFacts DEF Present, IsPresent
  <2>8. /\ Sound(room, tk, pb) /\ Present(room.entries) = Present(st.entries) \ V
        /\ room.cached <= st.cached /\ room.held <= st.held
    BY <1>6, <2>2, <2>6, RemoveSound
  <2>9. /\ Sound(more, tk1, pb1) /\ Histories(tk1, pb1)
        /\ Present(more.entries) = Present(room.entries) \cup {k}
        /\ more.cached = room.cached /\ more.held = room.held + HeldFor
    <3>1. k \notin Present(room.entries)
      BY <2>7, <2>8
    <3>2. PICK t : t = Len(tk) + 1
      OBVIOUS
    <3>3. more = Insert(room, k, fp, t)
      BY <2>3, <3>2
    <3>4. PICK new : new = Reserved(fp, t, now + ReservationTTL, HeldFor)
      OBVIOUS
    <3>5. /\ Sound(more, tk1, pb1) /\ Histories(tk1, pb1)
          /\ Inserted(room, more, k, new)
      BY <1>6, <2>4, <2>5, <2>8, <3>1, <3>2, <3>3, <3>4, InsertSound
    <3>6. new.held = HeldFor
      BY <3>4 DEF Reserved
    <3>7. QED
      BY <3>5, <3>6 DEF Inserted
  <2>10. Cardinality(Present(more.entries)) <= MaxEntries
    <3>1. PICK P : P = Present(room.entries)
      OBVIOUS
    <3>2. IsFiniteSet(P)
      BY <1>6, <2>8, <3>1, SoundFacts
    <3>3. Cardinality(P) \in Nat /\ Cardinality(P) < MaxEntries
      BY <1>11, <2>1, <2>8, <3>1, <3>2, FS_CardinalityType DEF CanReserve
    <3>4. Cardinality(P \cup {k}) = IF k \in P THEN Cardinality(P)
                                     ELSE Cardinality(P) + 1
      BY <3>2, FS_AddElement
    <3>5. Cardinality(P \cup {k}) \in Nat
      BY <3>2, FS_AddElement, FS_CardinalityType
    <3>6. QED
      BY <2>9, <3>1, <3>3, <3>4, <3>5, StoreAssumption
  <2>11. more.cached + more.held <= MaxTotalBytes
    <3>1. /\ room.cached \in Nat /\ room.held \in Nat /\ st.cached \in Nat
          /\ st.held \in Nat
      BY <1>6, <2>8, SoundFacts
    <3>2. CASE evict
      <4>1. HeldFor = 0 /\ st.cached + st.held <= MaxTotalBytes
        BY <1>6, <3>2 DEF HeldFor, Bounded
      <4>2. QED
        BY <2>8, <2>9, <3>1, <4>1, StoreAssumption
    <3>3. CASE ~evict
      <4>1. /\ st.cached + st.held + HeldFor <= MaxTotalBytes
            /\ HeldFor = MaxResponseBytes
        BY <1>11, <3>3 DEF CanReserve, HeldFor
      <4>2. QED
        BY <2>8, <2>9, <3>1, <4>1, StoreAssumption
    <3>4. QED
      BY <3>2, <3>3
  <2>12. reply' \in Reply /\ ReplayFaithful'
    BY <1>11, AnswerTyped
  <2>13. now' \in Nat /\ store' = more /\ tickets' = tk1 /\ published' = pb1
    BY <1>2, <1>3, <1>6, <1>11, <2>1, <2>2, <2>3, <2>4, <2>5
  <2>14. Bounded(more)
    BY <2>10, <2>11 DEF Bounded
  <2>15. QED
    BY <2>9, <2>12, <2>13, <2>14, InvAfter
<1>12. QED
  BY <1>1, <1>4, <1>5, <1>8, <1>9, <1>10, <1>11 DEF Reserve

(* commit() keeps it, for an owner, a stale ticket and a response too      *)
(* large.                                                                  *)
LEMMA CommitInv ==
    ASSUME StoreInv, NEW i \in Tokens, NEW size \in Sizes, Commit(i, size),
           UNCHANGED evict
    PROVE  StoreInv'
<1>1. PICK st : st = Expire(store, now)
  OBVIOUS
<1>2. PICK tk : tk = tickets
  OBVIOUS
<1>3. PICK pb : pb = published
  OBVIOUS
<1>4. PICK k : k = tk[i].key
  OBVIOUS
<1>5. /\ evict \in BOOLEAN /\ now \in Nat /\ Histories(tk, pb)
      /\ Sound(st, tk, pb) /\ Bounded(st) /\ i \in 1..Len(tk) /\ k \in Keys
  <2>1. evict \in BOOLEAN /\ now \in Nat /\ Histories(tk, pb)
    BY <1>2, <1>3 DEF StoreInv
  <2>2. Sound(st, tk, pb) /\ Bounded(st)
    BY <1>1, <1>2, <1>3, Swept
  <2>3. i \in 1..Len(tk)
    BY <1>2 DEF Tokens
  <2>4. k \in Keys
    BY <1>4, <2>1, <2>3, TicketKey
  <2>5. QED
    BY <2>1, <2>2, <2>3, <2>4
<1>6. CASE /\ size > MaxResponseBytes
           /\ Answer("commit", None, None, "too_large", None)
           /\ UNCHANGED <<store, now, tickets, published>>
  <2>1. reply' \in Reply /\ ReplayFaithful'
    BY <1>6, AnswerTyped
  <2>2. PICK old : old = store
    OBVIOUS
  <2>3. Sound(old, tk, pb) /\ Bounded(old)
    BY <1>2, <1>3, <2>2 DEF StoreInv
  <2>4. QED
    BY <1>2, <1>3, <1>5, <1>6, <2>1, <2>2, <2>3, InvAfter
<1>7. CASE /\ size <= MaxResponseBytes
           /\ ~Owns(st.entries[k], tk[i].fp, i)
           /\ store' = st
           /\ Answer("commit", None, None, "invalid", None)
           /\ UNCHANGED <<now, tickets, published>>
  <2>1. reply' \in Reply /\ ReplayFaithful'
    BY <1>7, AnswerTyped
  <2>2. QED
    BY <1>2, <1>3, <1>5, <1>7, <2>1, InvAfter
<1>8. CASE /\ size <= MaxResponseBytes /\ Owns(st.entries[k], tk[i].fp, i)
           /\ store' = IF CanPublish(st, k, size)
                       THEN Publish(st, k, size) ELSE GiveUp(st)
           /\ published' = IF CanPublish(st, k, size)
                           THEN [published EXCEPT ![i] =
                                    [size |-> size, at |-> now]]
                           ELSE published
           /\ Answer("commit", None, None,
                     IF CanPublish(st, k, size)
                     THEN "committed" ELSE "capacity", None)
           /\ UNCHANGED <<now, tickets>>
  <2>1. PICK next : next = Publish(st, k, size)
    OBVIOUS
  <2>2. PICK pb1 : pb1 = Stamped(pb, i, size)
    OBVIOUS
  <2>3. /\ Sound(next, tk, pb1) /\ Histories(tk, pb1) /\ Bounded(next)
        /\ CanPublish(st, k, size)
    BY <1>4, <1>5, <1>8, <2>1, <2>2, PublishSound
  <2>4. Answer("commit", None, None, "committed", None)
    BY <1>8, <2>3
  <2>5. reply' \in Reply /\ ReplayFaithful'
    BY <2>4, AnswerTyped
  <2>6. store' = next /\ published' = pb1 /\ tickets' = tk /\ now' \in Nat
    BY <1>2, <1>3, <1>5, <1>8, <2>1, <2>2, <2>3 DEF Stamped
  <2>7. QED
    BY <2>3, <2>5, <2>6, InvAfter
<1>9. QED
  BY <1>1, <1>2, <1>4, <1>6, <1>7, <1>8 DEF Commit

(* abort() keeps it, for an owner and for a stale ticket.                  *)
LEMMA AbortInv ==
    ASSUME StoreInv, NEW i \in Tokens, Abort(i), UNCHANGED evict
    PROVE  StoreInv'
<1>1. PICK st : st = Expire(store, now)
  OBVIOUS
<1>2. PICK tk : tk = tickets
  OBVIOUS
<1>3. PICK pb : pb = published
  OBVIOUS
<1>4. PICK k : k = tk[i].key
  OBVIOUS
<1>5. /\ evict \in BOOLEAN /\ now \in Nat /\ Histories(tk, pb)
      /\ Sound(st, tk, pb) /\ Bounded(st) /\ k \in Keys
  <2>1. evict \in BOOLEAN /\ now \in Nat /\ Histories(tk, pb)
    BY <1>2, <1>3 DEF StoreInv
  <2>2. Sound(st, tk, pb) /\ Bounded(st)
    BY <1>1, <1>2, <1>3, Swept
  <2>3. k \in Keys
    BY <1>2, <1>4, <2>1, TicketKey DEF Tokens
  <2>4. QED
    BY <2>1, <2>2, <2>3
<1>6. PICK less : less = Remove(st, {k})
  OBVIOUS
<1>7. Sound(less, tk, pb) /\ Bounded(less)
  BY <1>5, <1>6, RemoveSound, RemoveBounded
<1>8. PICK owned \in BOOLEAN : owned = Owns(st.entries[k], tk[i].fp, i)
  BY DEF Owns
<1>9. /\ store' = IF owned THEN less ELSE st
      /\ Answer("abort", None, None,
                IF owned THEN "aborted" ELSE "not_owner", None)
      /\ UNCHANGED <<now, tickets, published>>
  BY <1>1, <1>2, <1>4, <1>6, <1>8 DEF Abort
<1>10. reply' \in Reply /\ ReplayFaithful'
  <2>1. CASE owned
    BY <1>9, <2>1, AnswerTyped
  <2>2. CASE ~owned
    BY <1>9, <2>2, AnswerTyped
  <2>3. QED
    BY <2>1, <2>2
<1>11. CASE owned
  BY <1>2, <1>3, <1>5, <1>7, <1>9, <1>10, <1>11, InvAfter
<1>12. CASE ~owned
  BY <1>2, <1>3, <1>5, <1>7, <1>9, <1>10, <1>12, InvAfter
<1>13. QED
  BY <1>11, <1>12

(* A read that sweeps keeps it.                                            *)
LEMMA QueryInv ==
    ASSUME StoreInv, Query, UNCHANGED evict
    PROVE  StoreInv'
<1>1. PICK st : st = Expire(store, now)
  OBVIOUS
<1>2. PICK tk : tk = tickets
  OBVIOUS
<1>3. PICK pb : pb = published
  OBVIOUS
<1>4. Sound(st, tk, pb) /\ Bounded(st) /\ Histories(tk, pb)
  BY <1>1, <1>2, <1>3, Swept DEF StoreInv
<1>5. /\ store' = st /\ tickets' = tk /\ published' = pb
      /\ now' \in Nat /\ reply' \in Reply /\ ReplayFaithful'
  BY <1>1, <1>2, <1>3 DEF Query, StoreInv, ReplayFaithful, Tokens
<1>6. QED
  BY <1>4, <1>5, InvAfter

(* Time alone keeps it.                                                    *)
LEMMA TickInv ==
    ASSUME StoreInv, Tick, UNCHANGED evict
    PROVE  StoreInv'
<1>1. PICK old : old = store
  OBVIOUS
<1>2. PICK tk : tk = tickets
  OBVIOUS
<1>3. PICK pb : pb = published
  OBVIOUS
<1>4. Sound(old, tk, pb) /\ Bounded(old) /\ Histories(tk, pb)
  BY <1>1, <1>2, <1>3 DEF StoreInv
<1>5. /\ store' = old /\ tickets' = tk /\ published' = pb /\ now' \in Nat
  BY <1>1, <1>2, <1>3 DEF Tick, StoreInv
<1>6. reply' \in Reply /\ ReplayFaithful'
  BY DEF Tick, NoReply, Reply, ReplayFaithful
<1>7. QED
  BY <1>4, <1>5, <1>6, InvAfter

(* A stuttering step keeps it.                                             *)
LEMMA StutterInv ==
    ASSUME StoreInv, UNCHANGED vars
    PROVE  StoreInv'
<1>1. PICK old : old = store
  OBVIOUS
<1>2. PICK tk : tk = tickets
  OBVIOUS
<1>3. PICK pb : pb = published
  OBVIOUS
<1>4. Sound(old, tk, pb) /\ Bounded(old) /\ Histories(tk, pb)
  BY <1>1, <1>2, <1>3 DEF StoreInv
<1>5. /\ store' = old /\ tickets' = tk /\ published' = pb
      /\ now' \in Nat /\ reply' \in Reply /\ ReplayFaithful' /\ UNCHANGED evict
  BY <1>1, <1>2, <1>3 DEF vars, StoreInv, ReplayFaithful, Tokens
<1>6. QED
  BY <1>4, <1>5, InvAfter

(* An empty store satisfies it.                                            *)
LEMMA InitInv == Init => StoreInv
<1>1. SUFFICES ASSUME Init PROVE StoreInv
  OBVIOUS
<1>2. /\ store.entries = [k \in Keys |-> Absent] /\ store.order = <<>>
      /\ store.cached = 0 /\ store.held = 0 /\ store \in Stores
  <2>1. PICK L : L = [k \in Keys |-> Absent]
    OBVIOUS
  <2>2. L \in [Keys -> Entry] /\ <<>> \in Seq(Keys)
    BY <2>1, AbsentFacts
  <2>3. store = [entries |-> L, order |-> <<>>, cached |-> 0, held |-> 0]
    BY <1>1, <2>1 DEF Init
  <2>4. QED
    BY <2>1, <2>2, <2>3 DEF Stores
<1>3. Present(store.entries) = {}
  BY <1>2, AbsentFacts DEF Present
<1>4. \A k \in Keys : EntryOK(store.entries[k], k, tickets, published)
  BY <1>2, AbsentFacts DEF EntryOK
<1>5. CachedBytes(store.entries, Keys) = 0 /\ HeldBytes(store.entries, Keys) = 0
  <2>1. \A k \in Keys : /\ SizesIn(store.entries)[k] = 0
                        /\ HeldIn(store.entries)[k] = 0
    BY <1>2, AbsentFacts DEF SizesIn, HeldIn
  <2>2. QED
    BY <2>1, KeysAssumption, SumZero, BytesAreSums
<1>6. Sound(store, tickets, published)
  BY <1>2, <1>3, <1>4, <1>5, ListsEmpty DEF Sound
<1>7. Bounded(store)
  BY <1>2, <1>3, FS_EmptySet, StoreAssumption DEF Bounded
<1>8. Histories(tickets, published)
  <2>1. tickets = <<>> /\ published = <<>>
    BY <1>1 DEF Init
  <2>2. QED
    BY <2>1 DEF Histories
<1>9. evict \in BOOLEAN /\ now \in Nat /\ reply \in Reply /\ ReplayFaithful
  <2>1. evict \in BOOLEAN /\ now \in Nat /\ reply = NoReply
    BY <1>1 DEF Init
  <2>2. NoReply \in Reply /\ NoReply.outcome = "none"
    BY DEF NoReply, Reply
  <2>3. QED
    BY <2>1, <2>2 DEF ReplayFaithful
<1>10. QED
  BY <1>6, <1>7, <1>8, <1>9 DEF StoreInv

(* Every step keeps it.                                                    *)
LEMMA NextInv == StoreInv /\ [Next]_vars => StoreInv'
<1>1. SUFFICES ASSUME StoreInv, [Next]_vars PROVE StoreInv'
  OBVIOUS
<1>2. ASSUME NEW k \in Keys, NEW fp \in Fingerprints, Reserve(k, fp),
             UNCHANGED evict
      PROVE  StoreInv'
  BY <1>1, <1>2, ReserveInv
<1>3. ASSUME NEW i \in Tokens, NEW size \in Sizes, Commit(i, size),
             UNCHANGED evict
      PROVE  StoreInv'
  BY <1>1, <1>3, CommitInv
<1>4. ASSUME NEW i \in Tokens, Abort(i), UNCHANGED evict
      PROVE  StoreInv'
  BY <1>1, <1>4, AbortInv
<1>5. CASE Query /\ UNCHANGED evict
  BY <1>1, <1>5, QueryInv
<1>6. CASE Tick /\ UNCHANGED evict
  BY <1>1, <1>6, TickInv
<1>7. CASE UNCHANGED vars
  BY <1>1, <1>7, StutterInv
<1>8. QED
  BY <1>1, <1>2, <1>3, <1>4, <1>5, <1>6, <1>7 DEF Next

(* The inductive invariant holds of every behaviour of the store.          *)
THEOREM StoreInvariant == Spec => []StoreInv
  BY InitInv, NextInv, PTL DEF Spec

(* Types of the store, its histories and its answers.                      *)
THEOREM TypeCorrect == Spec => []TypeOK
<1>1. StoreInv => TypeOK
  <2>1. SUFFICES ASSUME StoreInv PROVE TypeOK
    OBVIOUS
  <2>2. EntriesOK
    BY <2>1 DEF StoreInv, Sound, Stores, EntriesOK, EntryOK, Tokens
  <2>3. HistoryOK
    BY <2>1 DEF StoreInv, Histories, HistoryOK
  <2>4. /\ store.order \in Seq(Keys) /\ store.cached \in Int
        /\ store.held \in Int /\ reply \in Reply
    BY <2>1 DEF StoreInv, Sound, Stores
  <2>5. QED
    BY <2>2, <2>3, <2>4 DEF TypeOK
<1>2. QED
  BY <1>1, StoreInvariant, PTL

(* Both byte counters are exact and both limits respected, in either       *)
(* mode, whatever expires, is evicted, or is presented late.               *)
THEOREM CountersAreExact == Spec => []Accounting
<1>1. StoreInv => Accounting
  <2>1. SUFFICES ASSUME StoreInv PROVE Accounting
    OBVIOUS
  <2>2. Lists(store.order, Present(store.entries))
    BY <2>1 DEF StoreInv, Sound
  <2>3. /\ Len(store.order) = Cardinality(Present(store.entries))
        /\ {store.order[i] : i \in 1..Len(store.order)} = Present(store.entries)
    BY <2>2, ListsFinite DEF Lists
  <2>4. QED
    BY <2>1, <2>3 DEF StoreInv, Sound, Bounded, Accounting
<1>2. QED
  BY <1>1, StoreInvariant, PTL

(* A replay is a response that its own ticket committed, for the same      *)
(* key and fingerprint, no longer than TTL ago.                            *)
THEOREM ReplaysAreFaithful == Spec => []ReplayFaithful
<1>1. StoreInv => ReplayFaithful
  BY DEF StoreInv
<1>2. QED
  BY <1>1, StoreInvariant, PTL
-----------------------------------------------------------------------------
(* The abstract specification's operators are the store's own.             *)
LEMMA PromiseWords ==
    /\ Promise!Absent = Absent
    /\ \A e, fp : Promise!Lookup(e, fp) = Lookup(e, fp)
    /\ \A e, fp, i : Promise!Owns(e, fp, i) = Owns(e, fp, i)
    /\ \A fp, i, t, h : Promise!Reserved(fp, i, t, h) = Reserved(fp, i, t, h)
    /\ \A e, r, t : Promise!Completed(e, r, t) = Completed(e, r, t)
    /\ \A L : Promise!Present(L) = Present(L)
    /\ \A L, t : Promise!Purge(L, t) = Purge(L, t)
    /\ Promise!Hold = HeldFor
<1>1. Promise!Absent = Absent
  BY DEF Promise!Absent, Absent
<1>2. \A e : Promise!IsPresent(e) = IsPresent(e)
  BY DEF Promise!IsPresent, IsPresent
<1>3. \A e, fp : Promise!Lookup(e, fp) = Lookup(e, fp)
  BY <1>2 DEF Promise!Lookup, Lookup
<1>4. \A e, fp, i : Promise!Owns(e, fp, i) = Owns(e, fp, i)
  BY DEF Promise!Owns, Owns
<1>5. \A fp, i, t, h : Promise!Reserved(fp, i, t, h) = Reserved(fp, i, t, h)
  BY DEF Promise!Reserved, Reserved
<1>6. \A e, r, t : Promise!Completed(e, r, t) = Completed(e, r, t)
  BY DEF Promise!Completed, Completed
<1>7. \A L : Promise!Present(L) = Present(L)
  BY <1>2 DEF Promise!Present, Present
<1>8. \A e, t : Promise!IsExpired(e, t) = IsExpired(e, t)
  BY <1>2 DEF Promise!IsExpired, IsExpired
<1>9. \A L, t : Promise!Purge(L, t) = Purge(L, t)
  BY <1>1, <1>8 DEF Promise!Purge, Purge
<1>10. Promise!Hold = HeldFor
  BY DEF Promise!Hold, HeldFor
<1>11. QED
  BY <1>1, <1>3, <1>4, <1>5, <1>6, <1>7, <1>9, <1>10

(* A ledger in which nothing is expired is its own purge.                  *)
LEMMA PurgeKeeps ==
    ASSUME NEW L \in [Keys -> Entry], NEW t,
           \A k \in Keys : ~IsExpired(L[k], t)
    PROVE  Purge(L, t) = L
  BY DEF Purge

(* An empty store is an empty ledger.                                      *)
LEMMA InitRefines == Init => Promise!Init
<1>1. SUFFICES ASSUME Init PROVE Promise!Init
  OBVIOUS
<1>2. PICK L : L = [k \in Keys |-> Absent]
  OBVIOUS
<1>3. store.entries = L /\ now = 0
  BY <1>1, <1>2 DEF Init
<1>4. Purge(L, 0) = L
  BY <1>2, AbsentFacts DEF Purge, IsExpired
<1>5. Purge(store.entries, now) = [k \in Keys |-> Promise!Absent]
  BY <1>2, <1>3, <1>4, PromiseWords
<1>6. QED
  BY <1>1, <1>5 DEF Init, Promise!Init, NoReply, Promise!NoReply

(* reserve() is a reserve of the ledger: the sweep is invisible, and the   *)
(* victims and the refusals are ones the ledger allows.                    *)
LEMMA ReserveRefines ==
    ASSUME StoreInv, NEW k \in Keys, NEW fp \in Fingerprints, Reserve(k, fp),
           UNCHANGED evict
    PROVE  Promise!Reserve(k, fp)
<1>1. PICK st : st = Expire(store, now)
  OBVIOUS
<1>2. PICK L : L = st.entries
  OBVIOUS
<1>3. PICK M : M = Purge(store.entries, now)'
  OBVIOUS
<1>4. PICK what : what = Lookup(L[k], fp)
  OBVIOUS
<1>5. /\ Sound(st, tickets, published) /\ Bounded(st)
      /\ L = Purge(store.entries, now) /\ L \in [Keys -> Entry]
      /\ \A j \in Keys : ~IsExpired(L[j], now)
      /\ Histories(tickets, published) /\ evict \in BOOLEAN /\ now \in Nat
  BY <1>1, <1>2, Swept DEF StoreInv, Sound, Stores
<1>6. Purge(L, now) = L
  BY <1>5, PurgeKeeps
<1>7. /\ what = Promise!Lookup(Purge(store.entries, now)[k], fp)
      /\ \A op, key, f, out, resp :
            Answer(op, key, f, out, resp) = Promise!Answer(op, key, f, out, resp)
  BY <1>4, <1>5, PromiseWords DEF Answer, Promise!Answer
<1>8. CASE /\ what \in {"conflict", "in_progress"}
           /\ store' = st
           /\ Answer("reserve", k, fp, what, None)
           /\ UNCHANGED <<now, tickets, published>>
  <2>1. M = L
    BY <1>2, <1>3, <1>6, <1>8
  <2>2. QED
    BY <1>3, <1>5, <1>7, <1>8, <2>1 DEF Promise!Reserve
<1>9. CASE /\ what = "replay"
           /\ store' = MoveToEnd(st, k)
           /\ Answer("reserve", k, fp, what, L[k].resp)
           /\ UNCHANGED <<now, tickets, published>>
  <2>1. store'.entries = L
    BY <1>2, <1>5, <1>9 DEF MoveToEnd, Sound, Stores
  <2>2. M = L
    BY <1>3, <1>6, <1>9, <2>1
  <2>3. QED
    BY <1>3, <1>5, <1>7, <1>9, <2>2 DEF Promise!Reserve
<1>10. CASE /\ what = "fresh" /\ ~CanReserve(st)
            /\ store' = st
            /\ Answer("reserve", k, fp, "capacity", None)
            /\ UNCHANGED <<now, tickets, published>>
  <2>1. M = L
    BY <1>2, <1>3, <1>6, <1>10
  <2>2. /\ Present(L) # {}
        /\ evict => /\ CompletedKeys(st) = {}
                    /\ Cardinality(Present(L)) = MaxEntries
    BY <1>2, <1>5, <1>10, RefusalFacts
  <2>3. Promise!CompletedIn(L) = CompletedKeys(st)
    BY <1>2 DEF Promise!CompletedIn, CompletedKeys
  <2>4. Promise!MayRefuse
    <3>1. Promise!Present(L) = Present(L)
      BY PromiseWords
    <3>2. \A S : Promise!Cardinality(S) = Cardinality(S)
      BY DEF Promise!Cardinality, Cardinality, Promise!IsFiniteSet, IsFiniteSet
    <3>3. evict => Promise!Cardinality(Present(L)) = MaxEntries
      BY <2>2, <3>2
    <3>4. QED
      BY <1>5, <2>2, <2>3, <3>1, <3>3 DEF Promise!MayRefuse
  <2>5. QED
    BY <1>3, <1>5, <1>7, <1>10, <2>1, <2>4 DEF Promise!Reserve
<1>11. CASE /\ what = "fresh" /\ CanReserve(st)
            /\ Len(tickets) < MaxTokens
            /\ store' = Insert(Remove(st, EntryVictims(st)), k, fp,
                               Len(tickets) + 1)
            /\ tickets' = Append(tickets, [key |-> k, fp |-> fp])
            /\ published' = Append(published, None)
            /\ Answer("reserve", k, fp, "reserved", None)
            /\ UNCHANGED now
  <2>1. PICK V : V = EntryVictims(st)
    OBVIOUS
  <2>2. PICK room : room = Remove(st, V)
    OBVIOUS
  <2>3. PICK new : new = Reserved(fp, Len(tickets) + 1, now + ReservationTTL, HeldFor)
    OBVIOUS
  <2>4. V \in SUBSET CompletedKeys(st) /\ (~evict => V = {})
    <3>1. OldestCompleted(st, 1) \in SUBSET CompletedKeys(st)
      BY <1>5, OldestFacts
    <3>2. QED
      BY <2>1, <3>1 DEF EntryVictims
  <2>5. V \in SUBSET Keys
    BY <2>4 DEF CompletedKeys
  <2>6. room.entries = Emptied(L, V)
    <3>1. PICK tk : tk = tickets
      OBVIOUS
    <3>2. PICK pb : pb = published
      OBVIOUS
    <3>3. Sound(st, tk, pb) /\ Histories(tk, pb)
      BY <1>5, <3>1, <3>2
    <3>4. room.entries = Emptied(st.entries, V)
      BY <1>5, <2>2, <2>5, <3>3, RemoveSound
    <3>5. QED
      BY <1>2, <3>4
  <2>7. store'.entries = [Emptied(L, V) EXCEPT ![k] = new]
    BY <1>11, <2>1, <2>2, <2>3, <2>6 DEF Insert
  <2>8. new \in Entry /\ ~IsExpired(new, now)
    <3>1. /\ Len(tickets) + 1 \in Nat /\ now + ReservationTTL \in Nat
          /\ HeldFor \in Nat /\ ~(now + ReservationTTL <= now)
      BY <1>5, StoreAssumption DEF Histories, HeldFor
    <3>2. QED
      BY <2>3, <3>1 DEF Reserved, Entry, States, IsExpired
  <2>9. Emptied(L, V) \in [Keys -> Entry] /\ \A j \in Keys : ~IsExpired(Emptied(L, V)[j], now)
    BY <1>5, AbsentFacts DEF Emptied, IsExpired
  <2>10. PICK N : N = [Emptied(L, V) EXCEPT ![k] = new]
    OBVIOUS
  <2>11. N \in [Keys -> Entry] /\ \A j \in Keys : ~IsExpired(N[j], now)
    BY <2>8, <2>9, <2>10
  <2>12. M = [Emptied(L, V) EXCEPT ![k] = new]
    BY <1>3, <1>11, <2>7, <2>10, <2>11, PurgeKeeps
  <2>13. Emptied(L, V) \in Promise!Evictions(L)
    <3>1. CASE evict
      <4>1. V \in SUBSET Promise!CompletedIn(L)
        BY <1>2, <2>4 DEF CompletedKeys, Promise!CompletedIn
      <4>2. QED
        BY <3>1, <4>1, PromiseWords DEF Promise!Evictions, Emptied
    <3>2. CASE ~evict
      <4>1. Emptied(L, V) = L
        BY <1>5, <2>4, <3>2 DEF Emptied
      <4>2. QED
        BY <3>2, <4>1 DEF Promise!Evictions
    <3>3. QED
      BY <3>1, <3>2
  <2>14. new = Promise!Reserved(fp, Len(tickets) + 1, now + ReservationTTL, Promise!Hold)
    BY <2>3, PromiseWords
  <2>15. \E K \in Promise!Evictions(Purge(store.entries, now)) :
            M = [K EXCEPT ![k] = Promise!Reserved(fp, Len(tickets) + 1,
                                    now + ReservationTTL, Promise!Hold)]
    BY <1>5, <2>12, <2>13, <2>14
  <2>16. QED
    BY <1>3, <1>7, <1>11, <2>15 DEF Promise!Reserve
<1>12. QED
  BY <1>1, <1>2, <1>4, <1>8, <1>9, <1>10, <1>11 DEF Reserve

(* commit() is a commit of the ledger.                                     *)
LEMMA CommitRefines ==
    ASSUME StoreInv, NEW i \in Tokens, NEW size \in Sizes, Commit(i, size),
           UNCHANGED evict
    PROVE  Promise!Commit(i, size)
<1>1. PICK st : st = Expire(store, now)
  OBVIOUS
<1>2. PICK L : L = st.entries
  OBVIOUS
<1>3. PICK M : M = Purge(store.entries, now)'
  OBVIOUS
<1>4. PICK tk : tk = tickets
  OBVIOUS
<1>5. PICK pb : pb = published
  OBVIOUS
<1>6. PICK k : k = tk[i].key
  OBVIOUS
<1>7. PICK owned \in BOOLEAN : owned = Owns(L[k], tk[i].fp, i)
  BY DEF Owns
<1>8. /\ Sound(st, tk, pb) /\ Bounded(st)
      /\ L = Purge(store.entries, now) /\ L \in [Keys -> Entry]
      /\ \A j \in Keys : ~IsExpired(L[j], now)
      /\ Histories(tk, pb) /\ evict \in BOOLEAN /\ now \in Nat
  BY <1>1, <1>2, <1>4, <1>5, Swept DEF StoreInv, Sound, Stores
<1>9. i \in 1..Len(tk) /\ k \in Keys
  BY <1>4, <1>6, <1>8, TicketKey DEF Tokens
<1>10. Purge(L, now) = L
  BY <1>8, PurgeKeeps
<1>11. /\ owned = Promise!Owns(Purge(store.entries, now)[k], tickets[i].fp, i)
       /\ \A op, key, f, out, resp :
             Answer(op, key, f, out, resp) = Promise!Answer(op, key, f, out, resp)
  BY <1>4, <1>7, <1>8, PromiseWords DEF Answer, Promise!Answer
<1>12. CASE /\ size > MaxResponseBytes
            /\ Answer("commit", None, None, "too_large", None)
            /\ UNCHANGED <<store, now, tickets, published>>
  <2>1. UNCHANGED Purge(store.entries, now)
    BY <1>12
  <2>2. QED
    BY <1>11, <1>12, <2>1 DEF Promise!Commit
<1>13. CASE /\ size <= MaxResponseBytes /\ ~owned
            /\ store' = st
            /\ Answer("commit", None, None, "invalid", None)
            /\ UNCHANGED <<now, tickets, published>>
  <2>1. UNCHANGED Purge(store.entries, now)
    BY <1>2, <1>8, <1>10, <1>13
  <2>2. QED
    BY <1>4, <1>6, <1>11, <1>13, <2>1 DEF Promise!Commit
<1>14. CASE /\ size <= MaxResponseBytes /\ owned
            /\ store' = IF CanPublish(st, k, size)
                        THEN Publish(st, k, size) ELSE GiveUp(st)
            /\ Answer("commit", None, None,
                      IF CanPublish(st, k, size)
                      THEN "committed" ELSE "capacity", None)
            /\ UNCHANGED <<now, tickets>>
  <2>1. PICK V : V = ResponseVictims(st, size)
    OBVIOUS
  <2>2. PICK done : done = Completed(L[k], [by |-> i, size |-> size], now + TTL)
    OBVIOUS
  <2>3. PICK N : N = [Emptied(L, V) EXCEPT ![k] = done]
    OBVIOUS
  <2>4. /\ L[k].state = "reserved" /\ L[k].token = i
        /\ done = Done(L[k], size)
    BY <1>7, <1>14, <2>2 DEF Owns, Done
  <2>5. Owns(st.entries[k], tk[i].fp, i)
    BY <1>2, <1>7, <1>14
  <2>6. PICK next : next = Publish(st, k, size)
    OBVIOUS
  <2>7. /\ Sound(next, tk, Stamped(pb, i, size))
        /\ next.entries = [Emptied(st.entries, V) EXCEPT
                             ![k] = Done(st.entries[k], size)]
        /\ V \in SUBSET CompletedKeys(st)
        /\ CanPublish(st, k, size)
    BY <1>6, <1>8, <1>9, <1>14, <2>1, <2>5, <2>6, PublishSound
  <2>8. next.entries = N
    BY <1>2, <2>3, <2>4, <2>7
  <2>9. store' = next
    BY <1>14, <2>6, <2>7
  <2>10. N \in [Keys -> Entry]
    BY <2>7, <2>8 DEF Sound, Stores
  <2>11. ~IsExpired(done, now)
    <3>1. done.expires = now + TTL
      BY <1>8, <1>9, <2>2 DEF Completed, Entry
    <3>2. QED
      BY <1>8, <3>1, StoreAssumption DEF IsExpired
  <2>12. \A j \in Keys : ~IsExpired(N[j], now)
    BY <1>8, <2>3, <2>11, AbsentFacts DEF Emptied, IsExpired
  <2>13. M = N
    BY <1>3, <1>14, <2>8, <2>9, <2>10, <2>12, PurgeKeeps
  <2>14. PICK K : K = Emptied(L, V)
    OBVIOUS
  <2>15. K \in Promise!Evictions(L)
    <3>1. CASE evict
      <4>1. V \in SUBSET Promise!CompletedIn(L)
        BY <1>2, <2>7 DEF CompletedKeys, Promise!CompletedIn
      <4>2. QED
        BY <2>14, <3>1, <4>1, PromiseWords DEF Promise!Evictions, Emptied
    <3>2. CASE ~evict
      <4>1. V = {}
        BY <2>1, <3>2 DEF ResponseVictims
      <4>2. Emptied(L, V) = L
        BY <1>8, <4>1 DEF Emptied
      <4>3. QED
        BY <2>14, <3>2, <4>2 DEF Promise!Evictions
    <3>3. QED
      BY <3>1, <3>2
  <2>16. K[k] = L[k]
    <3>1. k \notin V
      BY <1>2, <2>4, <2>7 DEF CompletedKeys
    <3>2. QED
      BY <1>9, <2>14, <3>1 DEF Emptied
  <2>17. M = [K EXCEPT ![k] = Promise!Completed(K[k], [by |-> i, size |-> size],
                                                now + TTL)]
    BY <2>2, <2>3, <2>13, <2>14, <2>16, PromiseWords
  <2>18. \E J \in Promise!Evictions(Purge(store.entries, now)) :
            M = [J EXCEPT ![k] = Promise!Completed(J[k],
                                    [by |-> i, size |-> size], now + TTL)]
    BY <1>8, <2>15, <2>17
  <2>19. Answer("commit", None, None, "committed", None)
    BY <1>14, <2>7
  <2>20. QED
    BY <1>3, <1>4, <1>6, <1>11, <1>14, <2>18, <2>19 DEF Promise!Commit
<1>15. QED
  BY <1>1, <1>2, <1>4, <1>6, <1>7, <1>12, <1>13, <1>14 DEF Commit

(* abort() is an abort of the ledger.                                      *)
LEMMA AbortRefines ==
    ASSUME StoreInv, NEW i \in Tokens, Abort(i), UNCHANGED evict
    PROVE  Promise!Abort(i)
<1>1. PICK st : st = Expire(store, now)
  OBVIOUS
<1>2. PICK L : L = st.entries
  OBVIOUS
<1>3. PICK M : M = Purge(store.entries, now)'
  OBVIOUS
<1>4. PICK tk : tk = tickets
  OBVIOUS
<1>5. PICK pb : pb = published
  OBVIOUS
<1>6. PICK k : k = tk[i].key
  OBVIOUS
<1>7. PICK owned \in BOOLEAN : owned = Owns(L[k], tk[i].fp, i)
  BY DEF Owns
<1>8. /\ Sound(st, tk, pb)
      /\ L = Purge(store.entries, now) /\ L \in [Keys -> Entry]
      /\ \A j \in Keys : ~IsExpired(L[j], now)
      /\ Histories(tk, pb) /\ evict \in BOOLEAN
  BY <1>1, <1>2, <1>4, <1>5, Swept DEF StoreInv, Sound, Stores
<1>9. k \in Keys
  BY <1>4, <1>6, <1>8, TicketKey DEF Tokens
<1>10. /\ owned = Promise!Owns(Purge(store.entries, now)[k], tickets[i].fp, i)
       /\ \A op, key, f, out, resp :
             Answer(op, key, f, out, resp) = Promise!Answer(op, key, f, out, resp)
  BY <1>4, <1>7, <1>8, PromiseWords DEF Answer, Promise!Answer
<1>11. /\ store' = IF owned THEN Remove(st, {k}) ELSE st
       /\ Answer("abort", None, None,
                 IF owned THEN "aborted" ELSE "not_owner", None)
       /\ UNCHANGED <<now, tickets>>
  BY <1>1, <1>2, <1>4, <1>6, <1>7 DEF Abort
<1>12. M = [L EXCEPT ![k] = IF owned THEN Absent ELSE L[k]]
  <2>1. CASE owned
    <3>1. PICK less : less = Remove(st, {k})
      OBVIOUS
    <3>2. Sound(less, tk, pb) /\ less.entries = Emptied(L, {k})
      <4>1. {k} \in SUBSET Keys
        BY <1>9
      <4>2. Sound(less, tk, pb) /\ less.entries = Emptied(st.entries, {k})
        BY <1>8, <3>1, <4>1, RemoveSound
      <4>3. QED
        BY <1>2, <4>2
    <3>3. Emptied(L, {k}) = [L EXCEPT ![k] = Absent]
      BY <1>8, <1>9 DEF Emptied
    <3>4. \A j \in Keys : ~IsExpired(less.entries[j], now)
      BY <1>8, <3>2, AbsentFacts DEF Emptied, IsExpired
    <3>5. less.entries \in [Keys -> Entry]
      BY <3>2 DEF Sound, Stores
    <3>6. Purge(less.entries, now) = less.entries
      BY <3>4, <3>5, PurgeKeeps
    <3>7. QED
      BY <1>3, <1>11, <2>1, <3>1, <3>2, <3>3, <3>6
  <2>2. CASE ~owned
    <3>1. M = L
      BY <1>2, <1>3, <1>8, <1>11, <2>2, PurgeKeeps
    <3>2. QED
      BY <1>8, <2>2, <3>1
  <2>3. QED
    BY <2>1, <2>2
<1>13. QED
  BY <1>3, <1>4, <1>6, <1>8, <1>10, <1>11, <1>12, PromiseWords
     DEF Promise!Abort

(* A read that sweeps changes nothing the ledger shows.                    *)
LEMMA QueryRefines ==
    ASSUME StoreInv, Query
    PROVE  UNCHANGED Purge(store.entries, now)
<1>1. PICK L : L = Expire(store, now).entries
  OBVIOUS
<1>2. /\ L = Purge(store.entries, now) /\ L \in [Keys -> Entry]
      /\ \A j \in Keys : ~IsExpired(L[j], now)
  BY <1>1, Swept DEF Sound, Stores
<1>3. QED
  BY <1>1, <1>2, PurgeKeeps DEF Query

(* Time passes in the ledger as in the store.                              *)
LEMMA TickRefines ==
    ASSUME StoreInv, Tick
    PROVE  Promise!Tick
<1>1. PICK L : L = store.entries
  OBVIOUS
<1>2. PICK t \in Nat : t = now
  BY DEF StoreInv
<1>3. L \in [Keys -> Entry] /\ \A k \in Keys : L[k].expires \in Nat
  BY <1>1, EntryFacts DEF StoreInv, Sound, Stores
<1>4. Purge(L, t + 1) = Purge(Purge(L, t), t + 1)
  BY <1>3, AbsentFacts DEF Purge, IsExpired
<1>5. Purge(store.entries, now)' = Purge(Purge(store.entries, now), now')
  BY <1>1, <1>2, <1>4 DEF Tick
<1>6. QED
  BY <1>5, PromiseWords DEF Tick, Promise!Tick, NoReply, Promise!NoReply

(* Every step of the store is a step of the ledger or a stutter.           *)
LEMMA NextRefines ==
    StoreInv /\ [Next]_vars => [Promise!Next]_(Promise!vars)
<1>1. SUFFICES ASSUME StoreInv, [Next]_vars
               PROVE  [Promise!Next]_(Promise!vars)
  OBVIOUS
<1>2. ASSUME NEW k \in Keys, NEW fp \in Fingerprints, Reserve(k, fp),
             UNCHANGED evict
      PROVE  Promise!Next
  BY <1>1, <1>2, ReserveRefines DEF Promise!Next
<1>3. ASSUME NEW i \in Tokens, NEW size \in Sizes, Commit(i, size),
             UNCHANGED evict
      PROVE  Promise!Next
  BY <1>1, <1>3, CommitRefines DEF Promise!Next, Tokens
<1>4. ASSUME NEW i \in Tokens, Abort(i), UNCHANGED evict
      PROVE  Promise!Next
  BY <1>1, <1>4, AbortRefines DEF Promise!Next, Tokens
<1>5. CASE Query /\ UNCHANGED evict
  BY <1>1, <1>5, QueryRefines DEF Query, Promise!vars
<1>6. CASE Tick /\ UNCHANGED evict
  BY <1>1, <1>6, TickRefines DEF Promise!Next
<1>7. CASE UNCHANGED vars
  BY <1>7 DEF vars, Promise!vars
<1>8. QED
  BY <1>1, <1>2, <1>3, <1>4, <1>5, <1>6, <1>7 DEF Next

(* The store, with its order, its counters and its sweeps, implements      *)
(* the ledger that ReplayLedger describes.                                 *)
THEOREM PromiseIsKept == Spec => ImplementsPromise
  BY InitRefines, NextRefines, StoreInvariant, PTL
     DEF Spec, ImplementsPromise, Promise!Spec
=============================================================================
