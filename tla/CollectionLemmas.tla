-------------------------- MODULE CollectionLemmas --------------------------
(***************************************************************************)
(* What the stores' proofs need about collections: induction over natural  *)
(* numbers and finite sets, in the form of a set of good values, which the *)
(* provers can instantiate; the sum of a function over a finite set; and   *)
(* sequences that list a set without repetition, as an OrderedDict's order *)
(* lists its keys.                                                         *)
(***************************************************************************)
EXTENDS OrderedDict, Functions, FiniteSetTheorems, TLAPS

(* A set of natural numbers has a least element.                           *)
LEMMA NatLeast ==
    ASSUME NEW P \in SUBSET Nat, P # {}
    PROVE  \E n \in P : \A m \in P : n <= m
<1>1. PICK n \in P : \A m \in P : ~(<<m, n>> \in OpToRel(<, Nat))
  BY NatLessThanWellFounded, WFMin
<1>2. ASSUME NEW m \in P PROVE ~(m < n)
  BY <1>1 DEF OpToRel
<1>3. QED
  BY <1>2

(* Induction up to n: what holds of 0 and passes to the successor holds    *)
(* up to n.                                                                *)
LEMMA NatUp ==
    ASSUME NEW n \in Nat, NEW Good, 0 \in Good,
           \A m \in 0..(n - 1) : m \in Good => m + 1 \in Good
    PROVE  0..n \subseteq Good
<1> DEFINE Bad == (0..n) \ Good
<1>1. SUFFICES ASSUME Bad # {} PROVE FALSE
  OBVIOUS
<1>2. PICK m \in Bad : \A j \in Bad : m <= j
  <2>1. Bad \in SUBSET Nat
    OBVIOUS
  <2> HIDE DEF Bad
  <2>2. QED
    BY <1>1, <2>1, NatLeast
<1>3. m # 0 /\ m - 1 \in 0..(n - 1) /\ m - 1 \in Good
  BY <1>2
<1>4. QED
  BY <1>2, <1>3

(* Induction over a finite set: what holds of the empty set and is kept    *)
(* when an element is added holds of the set.                              *)
LEMMA SetInduction ==
    ASSUME NEW S, IsFiniteSet(S), NEW Good, {} \in Good,
           \A T \in SUBSET S, x \in S :
               (x \notin T /\ T \in Good) => T \cup {x} \in Good
    PROVE  S \in Good
<1> DEFINE Bad == {T \in SUBSET S : T \notin Good}
<1>1. SUFFICES ASSUME Bad # {} PROVE FALSE
  OBVIOUS
<1>2. IsWellFoundedOn(StrictSubsetOrdering(S), SUBSET S)
  BY FS_StrictSubsetOrderingWellFounded, FS_FiniteSubsetsOfFinite
<1>3. PICK T \in Bad : \A U \in Bad : ~(<<U, T>> \in StrictSubsetOrdering(S))
  BY <1>1, <1>2, WFMin
<1>4. PICK x \in T : TRUE
  BY <1>3
<1>5. T \ {x} \in Good
  <2>1. T \ {x} \in SUBSET S /\ T \in SUBSET S /\ T \ {x} # T
    BY <1>3, <1>4
  <2>2. <<T \ {x}, T>> \in StrictSubsetOrdering(S)
    BY <2>1 DEF StrictSubsetOrdering
  <2>3. QED
    BY <1>3, <2>1, <2>2
<1>6. (T \ {x}) \cup {x} = T
  OBVIOUS
<1>7. QED
  BY <1>3, <1>5, <1>6
-----------------------------------------------------------------------------
(* The element FoldFunctionOnSet takes next, and the equation of the       *)
(* function it chooses; the sum is that function at the whole set.         *)
Chosen(s) == CHOOSE x \in s : TRUE

IsSum(f, S, g) ==
    g = [s \in SUBSET S |-> IF s = {} THEN 0
                            ELSE f[Chosen(s)] + g[s \ {Chosen(s)}]]

Sum(f, S) == SumFunctionOnSet(f, S)

(* The library's definition, unfolded once.                                *)
LEMMA SumIsIterated == \A f, S : Sum(f, S) = (CHOOSE g : IsSum(f, S, g))[S]
  BY DEF Sum, SumFunctionOnSet, FoldFunctionOnSet, MapThenFoldSet, IsSum, Chosen

(* Two functions that obey the equation, over a set and over a subset of   *)
(* it, agree on the subset.                                                *)
LEMMA SumUnique ==
    ASSUME NEW f, NEW S, IsFiniteSet(S), NEW T \in SUBSET S, NEW g, NEW h,
           IsSum(f, S, g), IsSum(f, T, h)
    PROVE  g[T] = h[T]
<1> DEFINE Bad == {U \in SUBSET T : g[U] # h[U]}
<1>1. SUFFICES ASSUME Bad # {} PROVE FALSE
  OBVIOUS
<1>2. IsFiniteSet(T)
  BY FS_Subset
<1>3. IsWellFoundedOn(StrictSubsetOrdering(T), SUBSET T)
  BY <1>2, FS_StrictSubsetOrderingWellFounded, FS_FiniteSubsetsOfFinite
<1>4. PICK U \in Bad : \A V \in Bad : ~(<<V, U>> \in StrictSubsetOrdering(T))
  BY <1>1, <1>3, WFMin
<1>5. U # {}
  BY <1>4 DEF IsSum
<1>6. Chosen(U) \in U
  BY <1>5 DEF Chosen
<1> DEFINE V == U \ {Chosen(U)}
<1>7. g[V] = h[V]
  <2>1. V \in SUBSET T /\ V # U
    BY <1>4, <1>6
  <2>2. <<V, U>> \in StrictSubsetOrdering(T)
    BY <1>4, <2>1 DEF StrictSubsetOrdering
  <2>3. QED
    BY <1>4, <2>1, <2>2
<1>8. g[U] = f[Chosen(U)] + g[V] /\ h[U] = f[Chosen(U)] + h[V]
  BY <1>4, <1>5 DEF IsSum
<1>9. QED
  BY <1>4, <1>7, <1>8

(* The equation has a solution.                                            *)
HasSum(f, S) == \E g : IsSum(f, S, g)

(* The equation holds of a set's sum if its subsets have sums.             *)
LEMMA SumStepIf ==
    ASSUME NEW f, NEW S, IsFiniteSet(S), HasSum(f, S),
           \A T \in SUBSET S : T # S => HasSum(f, T)
    PROVE  Sum(f, S) = IF S = {} THEN 0
                       ELSE f[Chosen(S)] + Sum(f, S \ {Chosen(S)})
<1>1. PICK g : g = (CHOOSE h : IsSum(f, S, h))
  OBVIOUS
<1>2. IsSum(f, S, g) /\ Sum(f, S) = g[S]
  BY <1>1, SumIsIterated DEF HasSum
<1>3. CASE S = {}
  BY <1>2, <1>3 DEF IsSum
<1>4. CASE S # {}
  <2>1. Chosen(S) \in S
    BY <1>4 DEF Chosen
  <2>2. PICK V : V = S \ {Chosen(S)}
    OBVIOUS
  <2>3. V \in SUBSET S /\ V # S /\ IsFiniteSet(V)
    BY <2>1, <2>2, FS_Subset
  <2>4. PICK h : h = (CHOOSE e : IsSum(f, V, e))
    OBVIOUS
  <2>5. IsSum(f, V, h) /\ Sum(f, V) = h[V]
    BY <2>3, <2>4, SumIsIterated DEF HasSum
  <2>6. g[V] = h[V]
    BY <1>2, <2>3, <2>5, SumUnique
  <2>7. g[S] = f[Chosen(S)] + g[V]
    BY <1>2, <1>4, <2>2 DEF IsSum
  <2>8. QED
    BY <1>2, <1>4, <2>2, <2>5, <2>6, <2>7
<1>5. QED
  BY <1>3, <1>4

(* A finite set has a sum: the equation has a solution.                    *)
LEMMA SumExists ==
    ASSUME NEW f, NEW S, IsFiniteSet(S)
    PROVE  HasSum(f, S)
<1> DEFINE Bad == {T \in SUBSET S : ~HasSum(f, T)}
<1>1. SUFFICES ASSUME Bad # {} PROVE FALSE
  BY DEF HasSum
<1>2. IsWellFoundedOn(StrictSubsetOrdering(S), SUBSET S)
  BY FS_StrictSubsetOrderingWellFounded, FS_FiniteSubsetsOfFinite
<1>3. PICK T \in Bad : \A U \in Bad : ~(<<U, T>> \in StrictSubsetOrdering(S))
  BY <1>1, <1>2, WFMin
<1>4. \A U \in SUBSET T : U # T => HasSum(f, U)
  <2>1. ASSUME NEW U \in SUBSET T, U # T PROVE HasSum(f, U)
    <3>1. <<U, T>> \in StrictSubsetOrdering(S) /\ U \in SUBSET S
      BY <1>3, <2>1 DEF StrictSubsetOrdering
    <3>2. QED
      BY <1>3, <3>1
  <2>2. QED
    BY <2>1
<1> DEFINE G == [s \in SUBSET T |-> IF s = {} THEN 0
                    ELSE f[Chosen(s)] + Sum(f, s \ {Chosen(s)})]
<1>5. ASSUME NEW s \in SUBSET T, s # {} PROVE G[s \ {Chosen(s)}] = Sum(f, s \ {Chosen(s)})
  <2>1. PICK V : V = s \ {Chosen(s)}
    OBVIOUS
  <2>2. V \in SUBSET T /\ V # T
    BY <1>5, <2>1 DEF Chosen
  <2>3. IsFiniteSet(V)
    BY <1>3, <2>2, FS_Subset
  <2>4. \A U \in SUBSET V : HasSum(f, U)
    BY <1>4, <2>2
  <2>5. Sum(f, V) = IF V = {} THEN 0 ELSE f[Chosen(V)] + Sum(f, V \ {Chosen(V)})
    BY <2>3, <2>4, SumStepIf
  <2>6. QED
    BY <2>1, <2>2, <2>5
<1>6. G = [s \in SUBSET T |-> IF s = {} THEN 0
              ELSE f[Chosen(s)] + G[s \ {Chosen(s)}]]
  BY <1>5
<1>7. HasSum(f, T)
  BY <1>6 DEF HasSum, IsSum
<1>8. QED
  BY <1>3, <1>7

(* The recursive equation of the sum over a finite set.                    *)
LEMMA SumStep ==
    ASSUME NEW f, NEW S, IsFiniteSet(S)
    PROVE  Sum(f, S) = IF S = {} THEN 0
                       ELSE f[Chosen(S)] + Sum(f, S \ {Chosen(S)})
<1>1. \A T \in SUBSET S : HasSum(f, T)
  BY SumExists, FS_Subset
<1>2. QED
  BY <1>1, SumStepIf

(* Strong induction over the subsets of a finite set.                      *)
LEMMA SubsetInduction ==
    ASSUME NEW S, IsFiniteSet(S), NEW Good,
           \A T \in SUBSET S :
               (\A U \in SUBSET T : U # T => U \in Good) => T \in Good
    PROVE  SUBSET S \subseteq Good
<1> DEFINE Bad == {T \in SUBSET S : T \notin Good}
<1>1. SUFFICES ASSUME Bad # {} PROVE FALSE
  OBVIOUS
<1>2. IsWellFoundedOn(StrictSubsetOrdering(S), SUBSET S)
  BY FS_StrictSubsetOrderingWellFounded, FS_FiniteSubsetsOfFinite
<1>3. PICK T \in Bad : \A U \in Bad : ~(<<U, T>> \in StrictSubsetOrdering(S))
  <2>1. Bad \subseteq SUBSET S
    OBVIOUS
  <2> HIDE DEF Bad
  <2>2. QED
    BY <1>1, <1>2, <2>1, WFMin
<1>4. ASSUME NEW U \in SUBSET T, U # T PROVE U \in Good
  <2>1. <<U, T>> \in StrictSubsetOrdering(S) /\ U \in SUBSET S
    BY <1>3, <1>4 DEF StrictSubsetOrdering
  <2>2. QED
    BY <1>3, <2>1
<1>5. QED
  BY <1>3, <1>4

(* Nothing sums up to 0.                                                   *)
LEMMA SumEmpty == \A f : Sum(f, {}) = 0
<1>1. TAKE f
<1>2. IsFiniteSet({})
  BY FS_EmptySet
<1>3. QED
  BY <1>2, SumStep

(* Integers sum up to an integer.                                          *)
LEMMA SumInt ==
    ASSUME NEW f, NEW S, IsFiniteSet(S), \A k \in S : f[k] \in Int
    PROVE  Sum(f, S) \in Int
<1> DEFINE Good == {T \in SUBSET S : Sum(f, T) \in Int}
<1>1. ASSUME NEW T \in SUBSET S, \A U \in SUBSET T : U # T => U \in Good
      PROVE  T \in Good
  <2>1. Sum(f, T) = IF T = {} THEN 0
                    ELSE f[Chosen(T)] + Sum(f, T \ {Chosen(T)})
    BY FS_Subset, SumStep
  <2>2. CASE T # {}
    <3>1. PICK c : c = Chosen(T)
      OBVIOUS
    <3>2. c \in T
      BY <2>2, <3>1 DEF Chosen
    <3>3. T \ {c} \in Good
      BY <1>1, <3>2
    <3>4. QED
      BY <2>1, <2>2, <3>1, <3>2, <3>3
  <2>3. QED
    BY <2>1, <2>2
<1>2. SUBSET S \subseteq Good
  <2> HIDE DEF Good
  <2> QED BY <1>1, SubsetInduction
<1>3. QED
  BY <1>2

(* Any element may be taken out first.                                     *)
LEMMA SumRemove ==
    ASSUME NEW f, NEW S, IsFiniteSet(S), \A k \in S : f[k] \in Int,
           NEW x \in S
    PROVE  Sum(f, S) = f[x] + Sum(f, S \ {x})
<1> DEFINE Good == {T \in SUBSET S :
                      \A y \in T : Sum(f, T) = f[y] + Sum(f, T \ {y})}
<1>1. ASSUME NEW T \in SUBSET S, \A U \in SUBSET T : U # T => U \in Good
      PROVE  T \in Good
  <2>1. SUFFICES ASSUME NEW y \in T
                 PROVE  Sum(f, T) = f[y] + Sum(f, T \ {y})
    OBVIOUS
  <2>2. PICK c : c = Chosen(T)
    OBVIOUS
  <2>3. c \in T
    BY <2>1, <2>2 DEF Chosen
  <2>4. Sum(f, T) = f[c] + Sum(f, T \ {c})
    BY <2>2, <2>3, FS_Subset, SumStep
  <2>5. CASE y # c
    <3>1. Sum(f, T \ {c}) = f[y] + Sum(f, (T \ {c}) \ {y})
      BY <1>1, <2>3, <2>5
    <3>2. Sum(f, T \ {y}) = f[c] + Sum(f, (T \ {y}) \ {c})
      BY <1>1, <2>3, <2>5
    <3>3. (T \ {c}) \ {y} = (T \ {y}) \ {c}
      OBVIOUS
    <3>4. Sum(f, (T \ {c}) \ {y}) \in Int
      BY FS_Subset, SumInt
    <3>5. f[y] \in Int /\ f[c] \in Int
      BY <2>3
    <3>6. PICK rest \in Int : /\ Sum(f, T \ {c}) = f[y] + rest
                              /\ Sum(f, T \ {y}) = f[c] + rest
      BY <3>1, <3>2, <3>3, <3>4
    <3>7. QED
      BY <2>4, <3>5, <3>6
  <2>6. QED
    BY <2>4, <2>5
<1>2. SUBSET S \subseteq Good
  <2> HIDE DEF Good
  <2> QED BY <1>1, SubsetInduction
<1>3. QED
  BY <1>2

(* The sum depends only on the values at the elements.                     *)
LEMMA SumAgree ==
    ASSUME NEW f, NEW h, NEW S, IsFiniteSet(S), \A k \in S : f[k] = h[k]
    PROVE  Sum(f, S) = Sum(h, S)
<1> DEFINE Good == {T \in SUBSET S : Sum(f, T) = Sum(h, T)}
<1>1. ASSUME NEW T \in SUBSET S, \A U \in SUBSET T : U # T => U \in Good
      PROVE  T \in Good
  <2>1. /\ Sum(f, T) = IF T = {} THEN 0
                       ELSE f[Chosen(T)] + Sum(f, T \ {Chosen(T)})
        /\ Sum(h, T) = IF T = {} THEN 0
                       ELSE h[Chosen(T)] + Sum(h, T \ {Chosen(T)})
    BY FS_Subset, SumStep
  <2>2. CASE T # {}
    <3>1. PICK c : c = Chosen(T)
      OBVIOUS
    <3>2. c \in T
      BY <2>2, <3>1 DEF Chosen
    <3>3. T \ {c} \in Good
      BY <1>1, <3>2
    <3>4. QED
      BY <2>1, <2>2, <3>1, <3>2, <3>3
  <2>3. QED
    BY <2>1, <2>2
<1>2. SUBSET S \subseteq Good
  <2> HIDE DEF Good
  <2> QED BY <1>1, SubsetInduction
<1>3. QED
  BY <1>2

(* Zeros sum up to 0.                                                      *)
LEMMA SumZero ==
    ASSUME NEW f, NEW S, IsFiniteSet(S), \A k \in S : f[k] = 0
    PROVE  Sum(f, S) = 0
<1> DEFINE Good == {T \in SUBSET S : Sum(f, T) = 0}
<1>1. {} \in Good
  BY SumEmpty
<1>2. ASSUME NEW T \in SUBSET S, NEW x \in S, x \notin T, T \in Good
      PROVE  T \cup {x} \in Good
  <2>1. Sum(f, T \cup {x}) = f[x] + Sum(f, (T \cup {x}) \ {x})
    BY FS_Subset, SumRemove
  <2>2. (T \cup {x}) \ {x} = T
    BY <1>2
  <2>3. f[x] = 0
    OBVIOUS
  <2>4. Sum(f, T) = 0
    BY <1>2
  <2>5. Sum(f, T \cup {x}) = 0
    BY <2>1, <2>2, <2>3, <2>4
  <2>6. QED
    BY <2>5
<1>3. S \in Good
  <2> HIDE DEF Good
  <2> QED BY <1>1, <1>2, SetInduction
<1>4. QED
  BY <1>3

(* Natural numbers sum up to a natural number.                             *)
LEMMA SumNat ==
    ASSUME NEW f, NEW S, IsFiniteSet(S), \A k \in S : f[k] \in Nat
    PROVE  Sum(f, S) \in Nat
<1> DEFINE Good == {T \in SUBSET S : Sum(f, T) \in Nat}
<1>1. {} \in Good
  BY SumEmpty
<1>2. ASSUME NEW T \in SUBSET S, NEW x \in S, x \notin T, T \in Good
      PROVE  T \cup {x} \in Good
  <2>1. Sum(f, T \cup {x}) = f[x] + Sum(f, (T \cup {x}) \ {x})
    BY FS_Subset, SumRemove
  <2>2. (T \cup {x}) \ {x} = T
    BY <1>2
  <2>3. f[x] \in Int
    OBVIOUS
  <2>4. QED
    BY <1>2, <2>1, <2>2, <2>3
<1>3. S \in Good
  <2> HIDE DEF Good
  <2> QED BY <1>1, <1>2, SetInduction
<1>4. QED
  BY <1>3

(* A sum splits along a subset.                                            *)
LEMMA SumSplit ==
    ASSUME NEW f, NEW S, IsFiniteSet(S), \A k \in S : f[k] \in Int,
           NEW K \in SUBSET S
    PROVE  Sum(f, S) = Sum(f, K) + Sum(f, S \ K)
<1> DEFINE Good == {T \in SUBSET S : Sum(f, S) = Sum(f, T) + Sum(f, S \ T)}
<1>1. {} \in Good
  <2>1. Sum(f, {}) = 0 /\ S \ {} = S /\ Sum(f, S) \in Int
    BY SumEmpty, SumInt
  <2>2. QED
    BY <2>1
<1>2. ASSUME NEW T \in SUBSET K, NEW x \in K, x \notin T, T \in Good
      PROVE  T \cup {x} \in Good
  <2>1. Sum(f, T \cup {x}) = f[x] + Sum(f, (T \cup {x}) \ {x})
    BY FS_Subset, SumRemove
  <2>2. (T \cup {x}) \ {x} = T
    BY <1>2
  <2>3. Sum(f, S \ T) = f[x] + Sum(f, (S \ T) \ {x})
    BY <1>2, FS_Subset, SumRemove
  <2>4. (S \ T) \ {x} = S \ (T \cup {x})
    OBVIOUS
  <2>5. Sum(f, T) \in Int /\ Sum(f, (S \ T) \ {x}) \in Int
    BY FS_Subset, SumInt
  <2>6. f[x] \in Int
    OBVIOUS
  <2>7. PICK a \in Int, b \in Int :
            /\ a = Sum(f, T) /\ Sum(f, T \cup {x}) = f[x] + a
            /\ b = Sum(f, S \ (T \cup {x})) /\ Sum(f, S \ T) = f[x] + b
    BY <2>1, <2>2, <2>3, <2>4, <2>5
  <2>8. Sum(f, S) = Sum(f, T) + Sum(f, S \ T)
    BY <1>2
  <2>9. Sum(f, S) = Sum(f, T \cup {x}) + Sum(f, S \ (T \cup {x}))
    BY <2>6, <2>7, <2>8
  <2>10. QED
    BY <2>9
<1>3. IsFiniteSet(K)
  BY FS_Subset
<1>4. K \in Good
  <2> HIDE DEF Good
  <2> QED BY <1>1, <1>2, <1>3, SetInduction
<1>5. QED
  BY <1>4
-----------------------------------------------------------------------------
(* s lists each element of S once and nothing else.                        *)
Lists(s, S) ==
    /\ s \in Seq(S)
    /\ \A i, j \in 1..Len(s) : s[i] = s[j] => i = j
    /\ S = {s[i] : i \in 1..Len(s)}

(* The empty sequence lists the empty set.                                 *)
LEMMA ListsEmpty == Lists(<<>>, {})
  BY DEF Lists

(* A new element at the end.                                               *)
LEMMA ListsAppend ==
    ASSUME NEW s, NEW S, Lists(s, S), NEW k, k \notin S
    PROVE  Lists(Append(s, k), S \cup {k})
<1>1. /\ Append(s, k) \in Seq(S \cup {k}) /\ Len(Append(s, k)) = Len(s) + 1
      /\ Len(s) \in Nat
      /\ \A i \in 1..Len(s) : Append(s, k)[i] = s[i] /\ s[i] \in S
      /\ Append(s, k)[Len(s) + 1] = k
  <2>1. s \in Seq(S \cup {k})
    BY DEF Lists
  <2>2. QED
    BY <2>1 DEF Lists
<1>2. PICK t : t = Append(s, k)
  OBVIOUS
<1>3. PICK n \in Nat : n = Len(s)
  BY <1>1
<1>4. /\ t \in Seq(S \cup {k}) /\ Len(t) = n + 1 /\ t[n + 1] = k
      /\ \A i \in 1..n : t[i] = s[i] /\ s[i] \in S
      /\ S = {s[i] : i \in 1..n}
      /\ \A i, j \in 1..n : s[i] = s[j] => i = j
  BY <1>1, <1>2, <1>3 DEF Lists
<1>5. \A i \in 1..(n + 1) : i \in 1..n \/ i = n + 1
  OBVIOUS
<1>6. \A i, j \in 1..(n + 1) : t[i] = t[j] => i = j
  BY <1>4, <1>5
<1>7. S \cup {k} = {t[i] : i \in 1..(n + 1)}
  <2>1. \A i \in 1..n : i \in 1..(n + 1)
    OBVIOUS
  <2>2. n + 1 \in 1..(n + 1)
    OBVIOUS
  <2>3. QED
    BY <1>4, <1>5, <2>1, <2>2
<1>8. PICK U : U = S \cup {k}
  OBVIOUS
<1>9. t \in Seq(U) /\ U = {t[i] : i \in 1..Len(t)}
  BY <1>4, <1>7, <1>8
<1>10. Lists(t, U)
  BY <1>4, <1>6, <1>9 DEF Lists
<1>11. QED
  BY <1>2, <1>8, <1>10

(* A listed set is finite, and as large as its list is long.               *)
LEMMA ListsFinite ==
    ASSUME NEW s, NEW S, Lists(s, S)
    PROVE  IsFiniteSet(S) /\ Cardinality(S) = Len(s) /\ Len(s) \in Nat
<1>1. s \in [1..Len(s) -> S] /\ Len(s) \in Nat
  BY DEF Lists
<1>2. s \in Bijection(1..Len(s), S)
  BY <1>1 DEF Lists, Bijection, Injection, Surjection, IsInjective
<1>3. ExistsBijection(1..Len(s), S)
  BY <1>2 DEF ExistsBijection
<1>4. QED
  BY <1>1, <1>3, FS_NatBijection, FS_CountingElements

(* A list of a set is a sequence over any larger set.                      *)
LEMMA ListsTyped ==
    ASSUME NEW s, NEW S, Lists(s, S), NEW T, S \subseteq T
    PROVE  s \in Seq(T)
  BY DEF Lists

(* The recursive equation in Without.                                      *)
IsKept(s, K, m, g) ==
    g = [n \in 0..m |-> IF n = 0 THEN <<>>
                        ELSE IF s[n] \in K THEN g[n - 1]
                        ELSE Append(g[n - 1], s[n])]

(* The recursion of Without has a solution.                                *)
LEMMA KeptExists ==
    ASSUME NEW s, NEW K, Len(s) \in Nat
    PROVE  \E g : IsKept(s, K, Len(s), g)
<1> DEFINE Good == {m \in 0..Len(s) : \E g : IsKept(s, K, m, g)}
<1>1. 0 \in Good
  <2>1. PICK g : g = [n \in 0..0 |-> <<>>]
    OBVIOUS
  <2>2. g = [n \in 0..0 |-> IF n = 0 THEN <<>>
                        ELSE IF s[n] \in K THEN g[n - 1]
                        ELSE Append(g[n - 1], s[n])]
    BY <2>1
  <2>3. QED
    BY <2>2 DEF IsKept
<1>2. ASSUME NEW m \in 0..(Len(s) - 1), m \in Good
      PROVE  m + 1 \in Good
  <2>1. PICK g : IsKept(s, K, m, g)
    BY <1>2
  <2>2. PICK h : h = [n \in 0..(m + 1) |->
                        IF n = m + 1
                        THEN IF s[n] \in K THEN g[m] ELSE Append(g[m], s[n])
                        ELSE g[n]]
    OBVIOUS
  <2>3. \A n \in 0..m : h[n] = g[n] /\ n \in 0..(m + 1) /\ n # m + 1
    BY <2>2
  <2>4. ASSUME NEW n \in 0..(m + 1)
        PROVE  h[n] = IF n = 0 THEN <<>>
                      ELSE IF s[n] \in K THEN h[n - 1]
                      ELSE Append(h[n - 1], s[n])
    <3>1. CASE n = m + 1
      <4>1. n # 0 /\ n - 1 = m /\ m \in 0..m
        BY <3>1
      <4>2. h[n - 1] = g[m]
        BY <2>3, <4>1
      <4>3. QED
        BY <2>2, <3>1, <4>1, <4>2
    <3>2. CASE n # m + 1
      <4>1. n \in 0..m
        BY <3>2
      <4>2. CASE n = 0
        BY <2>1, <2>3, <4>1, <4>2 DEF IsKept
      <4>3. CASE n # 0
        <5>1. n - 1 \in 0..m
          BY <4>1, <4>3
        <5>2. h[n - 1] = g[n - 1] /\ h[n] = g[n]
          BY <2>3, <4>1, <5>1
        <5>3. g[n] = IF s[n] \in K THEN g[n - 1] ELSE Append(g[n - 1], s[n])
          BY <2>1, <4>1, <4>3 DEF IsKept
        <5>4. QED
          BY <4>3, <5>2, <5>3
      <4>4. QED
        BY <4>2, <4>3
    <3>3. QED
      BY <3>1, <3>2
  <2>5. IsKept(s, K, m + 1, h)
    BY <2>2, <2>4 DEF IsKept
  <2>6. QED
    BY <2>5
<1>3. 0..Len(s) \subseteq Good
  <2> HIDE DEF Good
  <2> QED BY <1>1, <1>2, NatUp
<1>4. QED
  BY <1>3

(* Taking out the keys of K leaves a list of the other keys.               *)
LEMMA WithoutLists ==
    ASSUME NEW s, NEW S, Lists(s, S), NEW K
    PROVE  Lists(Without(s, K), S \ K)
<1>1. s \in Seq(S) /\ Len(s) \in Nat
  BY DEF Lists
<1>2. PICK g : g = CHOOSE e : IsKept(s, K, Len(s), e)
  OBVIOUS
<1>3. IsKept(s, K, Len(s), g)
  BY <1>1, <1>2, KeptExists
<1>4. Without(s, K) = g[Len(s)]
  BY <1>2 DEF Without, IsKept
<1> DEFINE Upto(n) == {s[i] : i \in 1..n}
           Good == {n \in 0..Len(s) : Lists(g[n], Upto(n) \ K)}
<1>5. 0 \in Good
  <2>1. Upto(0) \ K = {}
    OBVIOUS
  <2>2. g[0] = <<>>
    BY <1>1, <1>3 DEF IsKept
  <2>3. 0 \in 0..Len(s)
    BY <1>1
  <2> HIDE DEF Upto
  <2>4. QED
    BY <2>1, <2>2, <2>3, ListsEmpty
<1>6. ASSUME NEW m \in 0..(Len(s) - 1), m \in Good
      PROVE  m + 1 \in Good
  <2>1. PICK x : x = s[m + 1]
    OBVIOUS
  <2>2. m + 1 \in 1..Len(s) /\ m + 1 \in 0..Len(s) /\ (m + 1) - 1 = m /\ m + 1 # 0
    BY <1>1
  <2>4. g[m + 1] = IF x \in K THEN g[m] ELSE Append(g[m], x)
    BY <1>3, <2>1, <2>2 DEF IsKept
  <2>5. Upto(m + 1) = Upto(m) \cup {x}
    <3>1. \A i : i \in 1..(m + 1) <=> (i \in 1..m \/ i = m + 1)
      OBVIOUS
    <3>2. QED
      BY <2>1, <3>1
  <2>6. x \notin Upto(m)
    <3>1. \A i \in 1..m : i \in 1..Len(s) /\ i # m + 1
      BY <1>1
    <3>2. QED
      BY <2>1, <2>2, <3>1 DEF Lists
  <2>7. Lists(g[m], Upto(m) \ K)
    BY <1>6
  <2> HIDE DEF Upto
  <2>8. CASE x \in K
    <3>1. Upto(m + 1) \ K = Upto(m) \ K
      BY <2>5, <2>8
    <3>2. QED
      BY <2>2, <2>4, <2>7, <2>8, <3>1
  <2>9. CASE x \notin K
    <3>1. Upto(m + 1) \ K = (Upto(m) \ K) \cup {x}
      BY <2>5, <2>9
    <3>2. x \notin Upto(m) \ K
      BY <2>6
    <3>3. Lists(Append(g[m], x), (Upto(m) \ K) \cup {x})
      BY <2>7, <3>2, ListsAppend
    <3>4. QED
      BY <2>2, <2>4, <2>9, <3>1, <3>3
  <2>10. QED
    BY <2>8, <2>9
<1>7. 0..Len(s) \subseteq Good
  <2> HIDE DEF Good
  <2> QED BY <1>1, <1>5, <1>6, NatUp
<1>8. Lists(g[Len(s)], Upto(Len(s)) \ K)
  <2>1. Len(s) \in 0..Len(s)
    BY <1>1
  <2>2. Len(s) \in Good
    BY <1>7, <2>1
  <2> HIDE DEF Upto
  <2>3. QED
    BY <2>2
<1>9. S = Upto(Len(s))
  BY DEF Lists
<1>10. QED
  <2> HIDE DEF Upto
  <2> QED BY <1>4, <1>8, <1>9

(* A key moved to the end, or inserted there.                              *)
LEMMA ToEndLists ==
    ASSUME NEW s, NEW S, Lists(s, S), NEW k
    PROVE  Lists(ToEnd(s, k), S \cup {k})
<1>1. Lists(Without(s, {k}), S \ {k})
  BY WithoutLists
<1>2. Lists(Append(Without(s, {k}), k), (S \ {k}) \cup {k})
  BY <1>1, ListsAppend
<1>3. (S \ {k}) \cup {k} = S \cup {k}
  OBVIOUS
<1>4. QED
  BY <1>2, <1>3 DEF ToEnd
=============================================================================
