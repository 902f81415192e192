------------------------ MODULE ConcurrentCacheProofs ------------------------
(***************************************************************************)
(* Proofs about FlexibleCache for every set of keys, all sizes and every   *)
(* sequence of insertions, promotions, evictions and changes of limits,    *)
(* and about ConcurrentCache, which contains it, for every set of threads  *)
(* and every tree.                                                         *)
(*                                                                         *)
(* The totals of the cache are sums.  What is needed about sums is proved  *)
(* by the well-foundedness of the natural numbers and of finite sets: if   *)
(* a fact failed there would be a least number or set for which it fails.  *)
(***************************************************************************)
EXTENDS ConcurrentCache, FiniteSetTheorems, SequenceTheorems, TLAPS

-----------------------------------------------------------------------------
\* A non-empty set of natural numbers has a least one.
LEMMA LeastNumber ==
    ASSUME NEW T, T \subseteq Nat, T # {}
    PROVE  \E n \in T : \A m \in T : n <= m
  <1>1. PICK n \in T : \A m \in T : <<m, n>> \notin OpToRel(<, Nat)
    BY NatLessThanWellFounded, WFMin, Zenon
  <1>2. \A m \in T : ~(m < n)
    BY <1>1, Zenon DEF OpToRel
  <1> QED BY <1>2

\* A non-empty set of sets of keys has one with no smaller set among them.
LEMMA LeastSet ==
    ASSUME NEW T, T \subseteq SUBSET Key, T # {}
    PROVE  \E S \in T : \A R \in T : R \subseteq S => R = S
  <1>1. IsWellFoundedOn(StrictSubsetOrdering(Key), SUBSET Key)
    BY CacheAssumption, FS_StrictSubsetOrderingWellFounded, FS_FiniteSubsetsOfFinite
  <1>2. PICK S \in T : \A R \in T : <<R, S>> \notin StrictSubsetOrdering(Key)
    BY <1>1, WFMin
  <1> QED BY <1>2 DEF StrictSubsetOrdering

-----------------------------------------------------------------------------
(***************************************************************************)
(* The total size of a set of keys.                                        *)
(***************************************************************************)
Pick(s) == CHOOSE x \in s : TRUE

Sum(iter, s) == IF s = {} THEN 0 ELSE Size[Pick(s)] + iter[s \ {Pick(s)}]

\* The function by which TotalSize is computed.
IsTotal(iter, S) == iter = [s \in SUBSET S |-> Sum(iter, s)]

\* TotalSize is the value at S of the function that IsTotal defines.
LEMMA TotalSizeDef ==
    ASSUME NEW S
    PROVE  TotalSize(S) = (CHOOSE iter : IsTotal(iter, S))[S]
  BY DEF TotalSize, MapThenSumSet, MapThenFoldSet, IsTotal, Sum, Pick

\* The choice from a set that is not empty is one of its members.
LEMMA PickMember ==
    ASSUME NEW S, S # {}
    PROVE  Pick(S) \in S
  BY DEF Pick

\* The sets with at most n keys.
Upto(n) == {S \in SUBSET Key : Cardinality(S) <= n}

\* There is such a function on them.
LEMMA TotalUpto ==
    ASSUME NEW n \in Nat
    PROVE  \E f \in [Upto(n) -> Nat] : \A s \in Upto(n) : f[s] = Sum(f, s)
  <1> DEFINE Defined(m) == \E f \in [Upto(m) -> Nat] :
                              \A s \in Upto(m) : f[s] = Sum(f, s)
             Bad == {m \in Nat : ~Defined(m)}
  <1>c. \A s \in SUBSET Key : IsFiniteSet(s) /\ Cardinality(s) \in Nat
    BY CacheAssumption, FS_Subset, FS_CardinalityType
  <1>e. \A s \in SUBSET Key : Cardinality(s) = 0 <=> s = {}
    BY <1>c, FS_EmptySet
  <1>p. \A s \in SUBSET Key : s # {} =>
           /\ Pick(s) \in s /\ Size[Pick(s)] \in Nat
           /\ s \ {Pick(s)} \in SUBSET Key
           /\ Cardinality(s \ {Pick(s)}) = Cardinality(s) - 1
    BY <1>c, PickMember, FS_RemoveElement, CacheAssumption
  <1>1. Defined(0)
    <2> DEFINE f == [s \in Upto(0) |-> 0]
    <2>1. \A s \in Upto(0) : s = {}
      BY <1>c, <1>e DEF Upto
    <2>2. f \in [Upto(0) -> Nat] /\ \A s \in Upto(0) : f[s] = Sum(f, s)
      BY <2>1 DEF Sum
    <2> QED BY <2>2
  <1>2. ASSUME NEW m \in Nat, Defined(m) PROVE Defined(m + 1)
    <2>1. PICK f \in [Upto(m) -> Nat] : \A s \in Upto(m) : f[s] = Sum(f, s)
      BY <1>2
    <2> DEFINE g == [s \in Upto(m + 1) |-> Sum(f, s)]
    <2>2. ASSUME NEW s \in Upto(m + 1), s # {}
          PROVE  s \ {Pick(s)} \in Upto(m) /\ s \ {Pick(s)} \in Upto(m + 1)
      BY <1>c, <1>p, <2>2 DEF Upto
    <2>3. g \in [Upto(m + 1) -> Nat]
      <3>1. ASSUME NEW s \in Upto(m + 1) PROVE Sum(f, s) \in Nat
        <4>1. CASE s = {}
          BY <4>1 DEF Sum
        <4>2. CASE s # {}
          <5>1. f[s \ {Pick(s)}] \in Nat
            BY <2>2, <4>2
          <5>2. Size[Pick(s)] \in Nat
            BY <1>p, <4>2 DEF Upto
          <5> QED BY <4>2, <5>1, <5>2 DEF Sum
        <4> QED BY <4>1, <4>2
      <3> QED BY <3>1
    <2>4. ASSUME NEW s \in Upto(m + 1) PROVE g[s] = Sum(g, s)
      <3>1. CASE s = {}
        BY <3>1 DEF Sum
      <3>2. CASE s # {}
        <4> DEFINE r == s \ {Pick(s)}
        <4>1. r \in Upto(m) /\ r \in Upto(m + 1)
          BY <2>2, <3>2
        <4>2. g[r] = f[r]
          BY <2>1, <4>1
        <4> QED BY <3>2, <4>2 DEF Sum
      <3> QED BY <3>1, <3>2
    <2> HIDE DEF g
    <2> QED BY <2>3, <2>4
  <1> HIDE DEF Defined
  <1>3. CASE Bad # {}
    <2>1. PICK m \in Bad : \A i \in Bad : m <= i
      BY <1>3, LeastNumber
    <2>2. m # 0
      BY <1>1, <2>1
    <2>3. m - 1 \in Nat /\ m - 1 \notin Bad
      BY <2>1, <2>2
    <2>4. Defined((m - 1) + 1)
      BY <1>2, <2>3
    <2>5. (m - 1) + 1 = m
      BY <2>1
    <2> QED BY <2>1, <2>4, <2>5
  <1>4. CASE Bad = {}
    <2>1. Defined(n)
      BY <1>4
    <2> QED BY <2>1 DEF Defined
  <1> QED BY <1>3, <1>4

\* Two such functions on the subsets of a set are equal.
LEMMA TotalUnique ==
    ASSUME NEW S \in SUBSET Key, NEW f, NEW g,
           \A s \in SUBSET S : f[s] = Sum(f, s),
           \A s \in SUBSET S : g[s] = Sum(g, s)
    PROVE  \A s \in SUBSET S : f[s] = g[s]
  <1> DEFINE Bad == {s \in SUBSET S : f[s] # g[s]}
  <1> SUFFICES ASSUME Bad # {} PROVE FALSE
    OBVIOUS
  <1>0. Bad \subseteq SUBSET Key
    OBVIOUS
  <1>1. PICK s \in Bad : \A r \in Bad : r \subseteq s => r = s
    <2> HIDE DEF Bad
    <2> QED BY <1>0, LeastSet
  <1>2. s # {}
    BY <1>1 DEF Sum
  <1>3. Pick(s) \in s
    BY <1>2, PickMember
  <1>4. f[s \ {Pick(s)}] = g[s \ {Pick(s)}]
    BY <1>1, <1>3
  <1> QED BY <1>1, <1>2, <1>4 DEF Sum

\* TotalSize is one function that adds the sizes up.
LEMMA TotalFunction ==
    \E F \in [SUBSET Key -> Nat] :
        /\ \A s \in SUBSET Key : F[s] = Sum(F, s)
        /\ \A s \in SUBSET Key : TotalSize(s) = F[s]
  <1>1. Cardinality(Key) \in Nat
    BY CacheAssumption, FS_CardinalityType
  <1>2. Upto(Cardinality(Key)) = SUBSET Key
    BY CacheAssumption, FS_Subset DEF Upto
  <1>3. PICK F \in [SUBSET Key -> Nat] : \A s \in SUBSET Key : F[s] = Sum(F, s)
    BY <1>1, <1>2, TotalUpto
  <1>4. ASSUME NEW S \in SUBSET Key PROVE TotalSize(S) = F[S]
    <2> DEFINE G == [s \in SUBSET S |-> F[s]]
    <2>1. ASSUME NEW s \in SUBSET S PROVE G[s] = Sum(G, s)
      <3>1. CASE s = {}
        BY <1>3, <3>1 DEF Sum
      <3>2. CASE s # {}
        <4>1. s \ {Pick(s)} \in SUBSET S
          OBVIOUS
        <4> QED BY <1>3, <3>2, <4>1 DEF Sum
      <3> QED BY <3>1, <3>2
    <2>2. IsTotal(G, S)
      <3>1. \A s \in SUBSET S : G[s] = F[s] /\ F[s] = Sum(G, s)
        BY <2>1
      <3> QED BY <3>1 DEF IsTotal
    <2> HIDE DEF G
    <2> DEFINE H == CHOOSE iter : IsTotal(iter, S)
    <2>3. IsTotal(H, S)
      BY <2>2
    <2> HIDE DEF H
    <2>4. \A s \in SUBSET S : H[s] = Sum(H, s)
      BY <2>3 DEF IsTotal
    <2>5. H[S] = G[S]
      BY <2>1, <2>4, TotalUnique
    <2> QED BY <2>5, TotalSizeDef DEF H, G
  <1> QED BY <1>3, <1>4

\* The total of the empty set, and its type.
LEMMA TotalType ==
    /\ TotalSize({}) = 0
    /\ \A S \in SUBSET Key : TotalSize(S) \in Nat
  BY TotalFunction DEF Sum

\* One more key adds its size, whatever the order in which they are added up.
LEMMA TotalAdd ==
    ASSUME NEW S \in SUBSET Key, NEW k \in Key \ S
    PROVE  TotalSize(S \cup {k}) = TotalSize(S) + Size[k]
  <1>1. PICK F \in [SUBSET Key -> Nat] :
          /\ \A s \in SUBSET Key : F[s] = Sum(F, s)
          /\ \A s \in SUBSET Key : TotalSize(s) = F[s]
    BY TotalFunction
  <1> DEFINE Adds(s) == \A x \in Key \ s : F[s \cup {x}] = F[s] + Size[x]
             Bad == {s \in SUBSET Key : ~Adds(s)}
  <1>2. CASE Bad # {}
    <2>0. Bad \subseteq SUBSET Key
      OBVIOUS
    <2>1. PICK s \in Bad : \A r \in Bad : r \subseteq s => r = s
      <3> HIDE DEF Bad
      <3> QED BY <1>2, <2>0, LeastSet
    <2>2. PICK x \in Key \ s : F[s \cup {x}] # F[s] + Size[x]
      BY <2>1
    <2> DEFINE y == Pick(s \cup {x})
    <2>3. y \in s \cup {x}
      BY PickMember
    <2>4. s \cup {x} # {} /\ s \cup {x} \in SUBSET Key /\ s \in SUBSET Key
      BY <2>1
    <2>5. F[s \cup {x}] = Size[y] + F[(s \cup {x}) \ {y}]
      BY <1>1, <2>4 DEF Sum
    <2> HIDE DEF y
    <2>6. CASE y = x
      <3>1. (s \cup {x}) \ {y} = s
        BY <2>2, <2>6
      <3>2. F[s] \in Nat /\ Size[x] \in Nat
        BY <2>4, CacheAssumption
      <3>3. F[s \cup {x}] = Size[x] + F[s]
        BY <2>5, <2>6, <3>1
      <3> HIDE DEF Adds, Bad
      <3> QED BY <2>2, <3>2, <3>3
    <2>7. CASE y # x
      <3> DEFINE r == s \ {y}
      <3>1. y \in s /\ y \in Key
        BY <2>3, <2>4, <2>7
      <3>2. r \in SUBSET Key /\ r \subseteq s /\ r # s
        BY <2>4, <3>1
      <3>3. Adds(r)
        BY <2>1, <3>2
      <3>4. F[r \cup {x}] = F[r] + Size[x] /\ F[r \cup {y}] = F[r] + Size[y]
        BY <2>2, <3>1, <3>2, <3>3
      <3>5. r \cup {x} = (s \cup {x}) \ {y} /\ r \cup {y} = s
        BY <2>7, <3>1
      <3>6. F[r] \in Nat /\ Size[x] \in Nat /\ Size[y] \in Nat
        BY <3>1, <3>2, CacheAssumption
      <3>7. F[s \cup {x}] = Size[y] + F[r \cup {x}] /\ F[s] = F[r] + Size[y]
        BY <2>5, <3>4, <3>5
      <3> HIDE DEF r, Adds, Bad
      <3> QED BY <2>2, <3>4, <3>6, <3>7
    <2> QED BY <2>6, <2>7
  <1>3. CASE Bad = {}
    <2>1. Adds(S)
      BY <1>3
    <2>2. F[S \cup {k}] = F[S] + Size[k]
      BY <2>1
    <2> QED BY <1>1, <2>2
  <1> QED BY <1>2, <1>3

\* One key less takes its size away.
LEMMA TotalRemove ==
    ASSUME NEW S \in SUBSET Key, NEW k \in S
    PROVE  TotalSize(S \ {k}) = TotalSize(S) - Size[k]
  <1>1. S \ {k} \in SUBSET Key /\ k \in Key \ (S \ {k}) /\ (S \ {k}) \cup {k} = S
    OBVIOUS
  <1>2. TotalSize(S) = TotalSize(S \ {k}) + Size[k]
    BY <1>1, TotalAdd
  <1> QED BY <1>1, <1>2, TotalType, CacheAssumption

\* The totals of two disjoint sets add up.
LEMMA TotalUnion ==
    ASSUME NEW A \in SUBSET Key, NEW B \in SUBSET Key, A \cap B = {}
    PROVE  TotalSize(A \cup B) = TotalSize(A) + TotalSize(B)
  <1> DEFINE Adds(s) == TotalSize(A \cup s) = TotalSize(A) + TotalSize(s)
             Bad == {s \in SUBSET Key : A \cap s = {} /\ ~Adds(s)}
  <1> SUFFICES ASSUME Bad # {} PROVE FALSE
    OBVIOUS
  <1>0. Bad \subseteq SUBSET Key
    OBVIOUS
  <1>1. PICK s \in Bad : \A r \in Bad : r \subseteq s => r = s
    <2> HIDE DEF Bad
    <2> QED BY <1>0, LeastSet
  <1>2. s # {}
    <2>1. CASE s = {}
      <3>1. A \cup s = A /\ TotalSize(s) = 0 /\ TotalSize(A) \in Nat
        BY <2>1, TotalType
      <3>2. TotalSize(A \cup s) # TotalSize(A) + TotalSize(s)
        BY <1>1
      <3> HIDE DEF Bad
      <3> QED BY <3>1, <3>2
    <2> QED BY <2>1
  <1>3. PICK x : x \in s
    BY <1>2
  <1> DEFINE r == s \ {x}
  <1>4. r \in SUBSET Key /\ x \in Key \ r /\ r \subseteq s /\ r # s /\ A \cap r = {}
    BY <1>1, <1>3
  <1>5. Adds(r)
    BY <1>1, <1>4
  <1>6. TotalSize(r \cup {x}) = TotalSize(r) + Size[x]
    BY <1>4, TotalAdd
  <1>7. A \cup r \in SUBSET Key /\ x \in Key \ (A \cup r)
    BY <1>1, <1>3, <1>4
  <1>8. TotalSize((A \cup r) \cup {x}) = TotalSize(A \cup r) + Size[x]
    BY <1>7, TotalAdd
  <1>9. (A \cup r) \cup {x} = A \cup s /\ r \cup {x} = s
    BY <1>3
  <1>10. TotalSize(A) \in Nat /\ TotalSize(r) \in Nat /\ Size[x] \in Nat
    BY <1>4, TotalType, CacheAssumption
  <1>11. TotalSize(A \cup s) # TotalSize(A) + TotalSize(s)
    BY <1>1
  <1>12. TotalSize(A \cup r) = TotalSize(A) + TotalSize(r)
    BY <1>5
  <1> HIDE DEF r, Adds, Bad
  <1>13. /\ TotalSize(A \cup s) = TotalSize(A \cup r) + Size[x]
         /\ TotalSize(s) = TotalSize(r) + Size[x]
    BY <1>6, <1>8, <1>9
  <1> QED BY <1>10, <1>11, <1>12, <1>13

-----------------------------------------------------------------------------
(***************************************************************************)
(* The representation of the cache, and what the operations do to it.      *)
(***************************************************************************)
Elements(order) == {order[i] : i \in 1 .. Len(order)}

Distinct(order) ==
    \A i, j \in 1 .. Len(order) : order[i] = order[j] => i = j

CacheType ==
    [order : Seq(Key), pinned : SUBSET Key, sizeNonPinned : Nat, sizePinned : Nat]

\* Every key is held once and the totals are the sizes of the entries.
Good(c) ==
    /\ c \in CacheType
    /\ Distinct(c.order)
    /\ Elements(c.order) \cap c.pinned = {}
    /\ c.sizeNonPinned = TotalSize(Elements(c.order))
    /\ c.sizePinned = TotalSize(c.pinned)

\* The entries that are not pinned are keys.
LEMMA ElementsAreKeys ==
    ASSUME NEW order \in Seq(Key)
    PROVE  /\ Len(order) \in Nat
           /\ \A i \in 1 .. Len(order) : order[i] \in Key
           /\ Elements(order) \in SUBSET Key
  <1>1. /\ Len(order) \in Nat
        /\ \A i \in 1 .. Len(order) : order[i] \in Key
    BY ElementOfSeq, LenProperties
  <1> QED BY <1>1 DEF Elements

\* A cache assembled from its parts.
LEMMA MakeGood ==
    ASSUME NEW c, Good(c), NEW order \in Seq(Key), NEW pinned \in SUBSET Key,
           Distinct(order), Elements(order) \cap pinned = {},
           NEW np, np = TotalSize(Elements(order)), NEW p, p = TotalSize(pinned)
    PROVE  Good([c EXCEPT !.order = order, !.pinned = pinned,
                          !.sizeNonPinned = np, !.sizePinned = p])
  <1>1. np \in Nat /\ p \in Nat
    BY TotalType, ElementsAreKeys
  <1> DEFINE d == [c EXCEPT !.order = order, !.pinned = pinned,
                            !.sizeNonPinned = np, !.sizePinned = p]
  <1>2. /\ d \in CacheType
        /\ d.order = order /\ d.pinned = pinned
        /\ d.sizeNonPinned = np /\ d.sizePinned = p
    BY <1>1 DEF Good, CacheType
  <1> HIDE DEF d
  <1> QED BY <1>2 DEF Good, d

\* The first n of an order without repetitions.
LEMMA OldestPrefix ==
    ASSUME NEW order \in Seq(Key), Distinct(order), NEW n \in 0 .. Len(order) - 1
    PROVE  /\ {order[i] : i \in 1 .. n} \in SUBSET Key
           /\ order[n + 1] \in Key \ {order[i] : i \in 1 .. n}
           /\ {order[i] : i \in 1 .. n + 1}
                = {order[i] : i \in 1 .. n} \cup {order[n + 1]}
  <1>1. Len(order) \in Nat /\ \A i \in 1 .. Len(order) : order[i] \in Key
    BY ElementsAreKeys
  <1>2. \A i \in 1 .. n : i \in 1 .. Len(order) /\ i # n + 1
    BY <1>1
  <1>3. n + 1 \in 1 .. Len(order)
    BY <1>1
  <1>4. 1 .. n + 1 = (1 .. n) \cup {n + 1}
    BY <1>1
  <1>5. {order[i] : i \in 1 .. n} \in SUBSET Key
    BY <1>1, <1>2
  <1>6. order[n + 1] \in Key \ {order[i] : i \in 1 .. n}
    BY <1>1, <1>2, <1>3 DEF Distinct
  <1> QED BY <1>4, <1>5, <1>6

\* removeOneEntry, n times, subtracts the total of the n oldest entries.
LEMMA OldestTotal ==
    ASSUME NEW c, c \in CacheType, Distinct(c.order), NEW n \in 0 .. Len(c.order)
    PROVE  SizeOfOldest(c, n) = TotalSize({c.order[i] : i \in 1 .. n})
  <1> DEFINE order == c.order
             T(i) == TotalSize({order[j] : j \in 1 .. i})
             IsSum(f) == f = [i \in 0 .. n |->
                                IF i = 0 THEN 0 ELSE f[i - 1] + Size[order[i]]]
             f == CHOOSE g : IsSum(g)
  <1>0. order \in Seq(Key) /\ Len(order) \in Nat
    BY ElementsAreKeys DEF CacheType
  <1>1. SizeOfOldest(c, n) = f[n]
    BY DEF SizeOfOldest
  <1>2. T(0) = 0
    <2>1. {order[j] : j \in 1 .. 0} = {}
      OBVIOUS
    <2> QED BY <2>1, TotalType
  <1>3. ASSUME NEW i \in 1 .. n PROVE T(i) = T(i - 1) + Size[order[i]]
    <2>1. i - 1 \in 0 .. Len(order) - 1 /\ (i - 1) + 1 = i
      BY <1>0
    <2> HIDE DEF order
    <2>2. TotalSize({order[j] : j \in 1 .. i - 1} \cup {order[(i - 1) + 1]})
            = T(i - 1) + Size[order[(i - 1) + 1]]
      BY <1>0, <2>1, OldestPrefix, TotalAdd DEF order
    <2>3. {order[j] : j \in 1 .. (i - 1) + 1}
            = {order[j] : j \in 1 .. i - 1} \cup {order[(i - 1) + 1]}
      BY <1>0, <2>1, OldestPrefix DEF order
    <2> QED BY <2>1, <2>2, <2>3
  <1> HIDE DEF T
  <1>4. IsSum([i \in 0 .. n |-> T(i)])
    <2> DEFINE g == [i \in 0 .. n |-> T(i)]
    <2>1. ASSUME NEW i \in 0 .. n
          PROVE  T(i) = IF i = 0 THEN 0 ELSE g[i - 1] + Size[order[i]]
      <3>1. CASE i = 0
        BY <1>2, <3>1
      <3>2. CASE i # 0
        <4>1. i \in 1 .. n /\ i - 1 \in 0 .. n
          BY <3>2, <1>0
        <4> QED BY <1>3, <3>2, <4>1
      <3> QED BY <3>1, <3>2
    <2> QED BY <2>1
  <1>5. IsSum(f)
    BY <1>4
  <1> HIDE DEF f
  <1>6. f[0] = 0 /\ \A i \in 1 .. n : f[i] = f[i - 1] + Size[order[i]]
    <2>1. 0 \in 0 .. n /\ \A i \in 1 .. n : i \in 0 .. n /\ i # 0
      BY <1>0
    <2> QED BY <1>5, <2>1
  <1> DEFINE Bad == {i \in 0 .. n : f[i] # T(i)}
  <1>7. CASE Bad # {}
    <2>1. Bad \subseteq Nat
      BY <1>0
    <2>2. PICK i \in Bad : \A m \in Bad : i <= m
      <3> HIDE DEF Bad
      <3> QED BY <1>7, <2>1, LeastNumber
    <2>3. i \in 1 .. n /\ i - 1 \in 0 .. n /\ ~(i <= i - 1)
      BY <1>0, <1>2, <1>6, <2>2
    <2>4. f[i - 1] = T(i - 1)
      BY <2>2, <2>3
    <2> QED BY <1>3, <1>6, <2>2, <2>3, <2>4
  <1>8. CASE Bad = {}
    <2>1. n \in 0 .. n
      BY <1>0
    <2>2. f[n] = T(n)
      BY <1>8, <2>1
    <2> QED BY <1>1, <2>2 DEF T
  <1> QED BY <1>7, <1>8

\* Removing the n oldest entries keeps the cache good and its pinned part.
LEMMA RemoveOldestGood ==
    ASSUME NEW c, Good(c), NEW n \in 0 .. Len(c.order)
    PROVE  /\ Good(RemoveOldest(c, n))
           /\ Elements(RemoveOldest(c, n).order) \subseteq Elements(c.order)
           /\ RemoveOldest(c, n).pinned = c.pinned
           /\ RemoveOldest(c, n).sizePinned = c.sizePinned
           /\ RemoveOldest(c, n).sizeNonPinned
                = c.sizeNonPinned - SizeOfOldest(c, n)
           /\ RemoveOldest(c, n).sizeNonPinned <= c.sizeNonPinned
           /\ n = Len(c.order) => RemoveOldest(c, n).sizeNonPinned = 0
  <1> DEFINE old == {c.order[i] : i \in 1 .. n}
             rest == SubSeq(c.order, n + 1, Len(c.order))
  <1>0. /\ c \in CacheType /\ c.order \in Seq(Key) /\ Len(c.order) \in Nat
        /\ \A i \in 1 .. Len(c.order) : c.order[i] \in Key
        /\ Distinct(c.order)
    BY ElementsAreKeys DEF Good, CacheType
  <1>1. /\ rest \in Seq(Key)
        /\ Len(rest) = Len(c.order) - n
        /\ \A i \in 1 .. Len(rest) : rest[i] = c.order[n + i]
    <2>1. \A i \in n + 1 .. Len(c.order) : c.order[i] \in Key
      BY <1>0
    <2>2. n + 1 \in Int /\ Len(c.order) \in Int
      BY <1>0
    <2>3. /\ rest \in Seq(Key)
          /\ Len(rest) = IF n + 1 <= Len(c.order)
                           THEN Len(c.order) - (n + 1) + 1 ELSE 0
          /\ \A i \in 1 .. Len(c.order) - (n + 1) + 1 :
                rest[i] = c.order[(n + 1) + i - 1]
      BY <2>1, <2>2, SubSeqProperties
    <2> HIDE DEF rest
    <2>4. Len(rest) = Len(c.order) - n
      BY <1>0, <2>3
    <2>5. ASSUME NEW i \in 1 .. Len(rest) PROVE rest[i] = c.order[n + i]
      <3>1. i \in 1 .. Len(c.order) - (n + 1) + 1 /\ (n + 1) + i - 1 = n + i
        BY <1>0, <2>4
      <3> QED BY <2>3, <3>1
    <2> QED BY <2>3, <2>4, <2>5
  <1> HIDE DEF rest
  <1>2. \A i \in 1 .. Len(rest) : n + i \in 1 .. Len(c.order)
    BY <1>0, <1>1
  <1>3. Distinct(rest)
    <2> SUFFICES ASSUME NEW i \in 1 .. Len(rest), NEW j \in 1 .. Len(rest),
                        rest[i] = rest[j]
                 PROVE  i = j
      BY DEF Distinct
    <2>1. n + i = n + j
      BY <1>0, <1>1, <1>2 DEF Distinct
    <2> QED BY <1>0, <1>1, <2>1
  <1>4. Elements(c.order) = old \cup Elements(rest) /\ old \cap Elements(rest) = {}
    <2>1. \A i \in 1 .. n : i \in 1 .. Len(c.order)
      BY <1>0
    <2>2. ASSUME NEW i \in 1 .. Len(c.order), i \notin 1 .. n
          PROVE  i - n \in 1 .. Len(rest) /\ rest[i - n] = c.order[i]
      <3>1. i - n \in 1 .. Len(rest) /\ n + (i - n) = i
        BY <1>0, <1>1, <2>2
      <3> QED BY <1>1, <3>1
    <2>3. Elements(c.order) = old \cup Elements(rest)
      <3>1. ASSUME NEW x \in Elements(c.order) PROVE x \in old \cup Elements(rest)
        BY <2>2 DEF Elements
      <3>2. \A x \in old : x \in Elements(c.order)
        BY <2>1 DEF Elements
      <3>3. \A x \in Elements(rest) : x \in Elements(c.order)
        BY <1>1, <1>2 DEF Elements
      <3> HIDE DEF old
      <3> QED BY <3>1, <3>2, <3>3
    <2>4. ASSUME NEW i \in 1 .. n, NEW j \in 1 .. Len(rest), c.order[i] = rest[j]
          PROVE  FALSE
      <3>1. i = n + j
        BY <1>0, <1>1, <1>2, <2>1, <2>4 DEF Distinct
      <3> QED BY <1>0, <1>1, <3>1
    <2> QED BY <2>3, <2>4 DEF Elements
  <1>5. old \in SUBSET Key /\ Elements(rest) \in SUBSET Key
    BY <1>1, <1>4, ElementsAreKeys, <1>0
  <1>6. SizeOfOldest(c, n) = TotalSize(old)
    BY <1>0, OldestTotal
  <1> HIDE DEF old
  <1>7. TotalSize(Elements(c.order)) = TotalSize(old) + TotalSize(Elements(rest))
    BY <1>4, <1>5, TotalUnion
  <1>8. TotalSize(old) \in Nat /\ TotalSize(Elements(rest)) \in Nat
    BY <1>5, TotalType
  <1>9. /\ c.sizeNonPinned - SizeOfOldest(c, n) = TotalSize(Elements(rest))
        /\ TotalSize(Elements(rest)) <= c.sizeNonPinned
    BY <1>6, <1>7, <1>8 DEF Good
  <1>10. n = Len(c.order) => TotalSize(Elements(rest)) = 0
    <2>1. ASSUME n = Len(c.order) PROVE Elements(rest) = {}
      BY <1>0, <1>1, <2>1 DEF Elements
    <2> QED BY <2>1, TotalType
  <1>11. RemoveOldest(c, n) = [c EXCEPT !.order = rest, !.pinned = c.pinned,
                                        !.sizeNonPinned = TotalSize(Elements(rest)),
                                        !.sizePinned = c.sizePinned]
    BY <1>0, <1>9 DEF RemoveOldest, rest, CacheType
  <1>12. Good(RemoveOldest(c, n))
    <2>1. c.pinned \in SUBSET Key /\ Elements(rest) \cap c.pinned = {}
          /\ c.sizePinned = TotalSize(c.pinned)
      BY <1>4 DEF Good, CacheType
    <2> DEFINE t == TotalSize(Elements(rest))
    <2>2. Good([c EXCEPT !.order = rest, !.pinned = c.pinned,
                         !.sizeNonPinned = t, !.sizePinned = c.sizePinned])
      BY <1>1, <1>3, <2>1, MakeGood
    <2> QED BY <1>11, <2>2
  <1>13. /\ RemoveOldest(c, n).order = rest
         /\ RemoveOldest(c, n).pinned = c.pinned
         /\ RemoveOldest(c, n).sizePinned = c.sizePinned
         /\ RemoveOldest(c, n).sizeNonPinned = TotalSize(Elements(rest))
    BY <1>0, <1>11 DEF CacheType
  <1> QED BY <1>4, <1>9, <1>10, <1>12, <1>13

\* Taking one key out of the order.
LEMMA WithoutKey ==
    ASSUME NEW order \in Seq(Key), Distinct(order), NEW k \in Elements(order)
    PROVE  /\ Without(order, k) \in Seq(Key)
           /\ Distinct(Without(order, k))
           /\ Elements(Without(order, k)) = Elements(order) \ {k}
  <1> DEFINE w == Without(order, k)
  <1>0. /\ Len(order) \in Nat /\ DOMAIN order = 1 .. Len(order)
        /\ \A i \in 1 .. Len(order) : order[i] \in Key
    BY ElementsAreKeys, LenProperties
  <1>1. PICK p \in 1 .. Len(order) :
          order[p] = k /\ p = CHOOSE i \in DOMAIN order : order[i] = k
    BY <1>0 DEF Elements
  <1> DEFINE a == SubSeq(order, 1, p - 1)
             b == SubSeq(order, p + 1, Len(order))
  <1>2. w = a \o b
    BY <1>1 DEF Without, RemoveAt
  <1> HIDE DEF w
  <1>p. order[p] = k
    BY <1>1
  <1>q. p \in Nat /\ 1 <= p /\ p <= Len(order) /\ Len(order) \in Nat
    BY <1>0
  <1>3. /\ a \in Seq(Key) /\ Len(a) = p - 1
        /\ \A i \in 1 .. p - 1 : a[i] = order[i]
    <2>1. p - 1 \in Int /\ 1 \in Int /\ \A i \in 1 .. p - 1 : order[i] \in Key
      BY <1>0, <1>p
    <2>2. /\ a \in Seq(Key)
          /\ Len(a) = IF 1 <= p - 1 THEN (p - 1) - 1 + 1 ELSE 0
          /\ \A i \in 1 .. (p - 1) - 1 + 1 : a[i] = order[1 + i - 1]
      BY <2>1, SubSeqProperties
    <2> HIDE DEF a
    <2>3. Len(a) = p - 1
      BY <1>0, <1>p, <2>2
    <2>4. ASSUME NEW i \in 1 .. p - 1 PROVE a[i] = order[i]
      <3>1. i \in 1 .. (p - 1) - 1 + 1 /\ 1 + i - 1 = i
        BY <1>0, <1>p
      <3> QED BY <2>2, <3>1
    <2> QED BY <2>2, <2>3, <2>4
  <1>4. /\ b \in Seq(Key) /\ Len(b) = Len(order) - p
        /\ \A i \in 1 .. Len(order) - p : b[i] = order[p + i]
    <2>1. p + 1 \in Int /\ Len(order) \in Int
          /\ \A i \in p + 1 .. Len(order) : order[i] \in Key
      BY <1>0, <1>p
    <2>2. /\ b \in Seq(Key)
          /\ Len(b) = IF p + 1 <= Len(order) THEN Len(order) - (p + 1) + 1 ELSE 0
          /\ \A i \in 1 .. Len(order) - (p + 1) + 1 : b[i] = order[(p + 1) + i - 1]
      BY <2>1, SubSeqProperties
    <2> HIDE DEF b
    <2>3. Len(b) = Len(order) - p
      <3>1. Len(b) = IF p + 1 <= Len(order) THEN Len(order) - (p + 1) + 1 ELSE 0
        BY <2>2
      <3>2. CASE p = Len(order)
        BY <1>q, <3>1, <3>2
      <3>3. CASE p < Len(order)
        BY <1>q, <3>1, <3>3
      <3> QED BY <1>q, <3>2, <3>3
    <2>4. ASSUME NEW i \in 1 .. Len(order) - p PROVE b[i] = order[p + i]
      <3>1. i \in 1 .. Len(order) - (p + 1) + 1 /\ (p + 1) + i - 1 = p + i
        BY <1>0, <1>p
      <3> QED BY <2>2, <3>1
    <2> QED BY <2>2, <2>3, <2>4
  <1> HIDE DEF a, b
  <1>5. /\ w \in Seq(Key) /\ Len(w) = Len(order) - 1
        /\ \A i \in 1 .. Len(order) - 1 :
              w[i] = order[IF i < p THEN i ELSE i + 1]
    <2>1. /\ a \o b \in Seq(Key)
          /\ Len(a \o b) = Len(a) + Len(b)
          /\ \A i \in 1 .. Len(a) + Len(b) :
                (a \o b)[i] = IF i <= Len(a) THEN a[i] ELSE b[i - Len(a)]
      BY <1>3, <1>4, ConcatProperties
    <2>2. Len(a) + Len(b) = Len(order) - 1
      BY <1>0, <1>p, <1>3, <1>4
    <2>3. ASSUME NEW i \in 1 .. Len(order) - 1
          PROVE  w[i] = order[IF i < p THEN i ELSE i + 1]
      <3>1. CASE i < p
        <4>1. i \in 1 .. p - 1 /\ i <= Len(a)
          BY <1>0, <1>p, <1>3, <3>1
        <4> QED BY <1>2, <1>3, <2>1, <2>2, <3>1, <4>1
      <3>2. CASE ~(i < p)
        <4>1. i - (p - 1) \in 1 .. Len(order) - p /\ ~(i <= Len(a))
              /\ p + (i - (p - 1)) = i + 1 /\ i - Len(a) = i - (p - 1)
          BY <1>0, <1>p, <1>3, <3>2
        <4>2. w[i] = b[i - (p - 1)]
          BY <1>2, <2>1, <2>2, <4>1
        <4> QED BY <1>4, <3>2, <4>1, <4>2
      <3> QED BY <3>1, <3>2
    <2> QED BY <1>2, <2>1, <2>2, <2>3
  <1> DEFINE pos(i) == IF i < p THEN i ELSE i + 1
  <1>6. /\ \A i \in 1 .. Len(w) : pos(i) \in 1 .. Len(order) /\ pos(i) # p
        /\ \A i, j \in 1 .. Len(w) : pos(i) = pos(j) => i = j
        /\ \A i \in 1 .. Len(order) : i # p => \E j \in 1 .. Len(w) : pos(j) = i
    <2>1. \A i \in 1 .. Len(w) : pos(i) \in 1 .. Len(order) /\ pos(i) # p
      BY <1>0, <1>p, <1>5
    <2>2. \A i, j \in 1 .. Len(w) : pos(i) = pos(j) => i = j
      BY <1>0, <1>p, <1>5
    <2>3. ASSUME NEW i \in 1 .. Len(order), i # p
          PROVE  \E j \in 1 .. Len(w) : pos(j) = i
      <3>1. CASE i < p
        <4>1. i \in 1 .. Len(w) /\ pos(i) = i
          BY <1>0, <1>p, <1>5, <3>1
        <4> QED BY <4>1
      <3>2. CASE i > p
        <4>1. i - 1 \in 1 .. Len(w) /\ pos(i - 1) = i
          BY <1>0, <1>p, <1>5, <3>2
        <4> QED BY <4>1
      <3> QED BY <1>0, <1>p, <2>3, <3>1, <3>2
    <2> QED BY <2>1, <2>2, <2>3
  <1>7. \A i \in 1 .. Len(w) : w[i] = order[pos(i)]
    BY <1>0, <1>5
  <1> HIDE DEF pos
  <1>8. Distinct(w)
    BY <1>6, <1>7 DEF Distinct
  <1>9. Elements(w) = Elements(order) \ {k}
    <2>1. ASSUME NEW x \in Elements(w) PROVE x \in Elements(order) \ {k}
      BY <1>p, <1>6, <1>7 DEF Elements, Distinct
    <2>2. ASSUME NEW x \in Elements(order) \ {k} PROVE x \in Elements(w)
      <3>1. PICK i \in 1 .. Len(order) : order[i] = x
        BY DEF Elements
      <3>2. PICK j \in 1 .. Len(w) : pos(j) = i
        BY <1>p, <1>6, <3>1
      <3> QED BY <1>7, <3>1, <3>2 DEF Elements
    <2> QED BY <2>1, <2>2
  <1> QED BY <1>5, <1>8, <1>9 DEF w

\* Adding a key at the end of the order.
LEMMA AppendKey ==
    ASSUME NEW order \in Seq(Key), Distinct(order), NEW k \in Key \ Elements(order)
    PROVE  /\ Append(order, k) \in Seq(Key)
           /\ Distinct(Append(order, k))
           /\ Elements(Append(order, k)) = Elements(order) \cup {k}
  <1> DEFINE w == Append(order, k)
  <1>1. /\ w \in Seq(Key) /\ Len(w) = Len(order) + 1
        /\ \A i \in 1 .. Len(order) : w[i] = order[i]
        /\ w[Len(order) + 1] = k
    BY AppendProperties
  <1>2. Len(order) \in Nat
    BY ElementsAreKeys
  <1> HIDE DEF w
  <1>3. 1 .. Len(w) = (1 .. Len(order)) \cup {Len(order) + 1}
    BY <1>1, <1>2
  <1>4. Elements(w) = Elements(order) \cup {k}
    <2>1. \A x \in Elements(w) : x \in Elements(order) \cup {k}
      BY <1>1, <1>3 DEF Elements
    <2>2. \A x \in Elements(order) : x \in Elements(w)
      BY <1>1, <1>3 DEF Elements
    <2>3. k \in Elements(w)
      BY <1>1, <1>3 DEF Elements
    <2> QED BY <2>1, <2>2, <2>3
  <1>5. Distinct(w)
    <2> SUFFICES ASSUME NEW i \in 1 .. Len(w), NEW j \in 1 .. Len(w), w[i] = w[j]
                 PROVE  i = j
      BY DEF Distinct
    <2>1. CASE i \in 1 .. Len(order) /\ j \in 1 .. Len(order)
      BY <1>1, <2>1 DEF Distinct
    <2>2. \A m \in 1 .. Len(order) : w[m] # k
      BY <1>1 DEF Elements
    <2> QED BY <1>1, <1>3, <2>1, <2>2
  <1> QED BY <1>1, <1>4, <1>5 DEF w

\* operator[] keeps the entries.
LEMMA AccessGood ==
    ASSUME NEW c, Good(c), NEW k
    PROVE  /\ Good(Access(c, k))
           /\ Access(c, k).sizeNonPinned = c.sizeNonPinned
           /\ Access(c, k).sizePinned = c.sizePinned
           /\ Access(c, k).pinned = c.pinned
  <1>1. CASE k \notin NonPinned(c)
    BY <1>1 DEF Access
  <1>2. CASE k \in NonPinned(c)
    <2> DEFINE w == Append(Without(c.order, k), k)
    <2>1. c.order \in Seq(Key) /\ Distinct(c.order) /\ k \in Elements(c.order)
          /\ c \in CacheType
      BY <1>2 DEF Good, CacheType, NonPinned, Elements
    <2>2. k \in Key
      BY <2>1, ElementsAreKeys
    <2>3. /\ Without(c.order, k) \in Seq(Key) /\ Distinct(Without(c.order, k))
          /\ Elements(Without(c.order, k)) = Elements(c.order) \ {k}
      BY <2>1, WithoutKey
    <2>4. /\ w \in Seq(Key) /\ Distinct(w)
          /\ Elements(w) = (Elements(c.order) \ {k}) \cup {k}
      BY <2>2, <2>3, AppendKey
    <2> HIDE DEF w
    <2>5. Elements(w) = Elements(c.order)
      BY <2>1, <2>4
    <2>6. Access(c, k) = [c EXCEPT !.order = w, !.pinned = c.pinned,
                                   !.sizeNonPinned = c.sizeNonPinned,
                                   !.sizePinned = c.sizePinned]
      BY <1>2, <2>1 DEF Access, w, CacheType
    <2>7. /\ c.pinned \in SUBSET Key /\ Elements(w) \cap c.pinned = {}
          /\ c.sizeNonPinned = TotalSize(Elements(w))
          /\ c.sizePinned = TotalSize(c.pinned)
      BY <2>5 DEF Good, CacheType
    <2>8. Good(Access(c, k))
      <3> DEFINE n == c.sizeNonPinned
      <3>1. Good([c EXCEPT !.order = w, !.pinned = c.pinned,
                           !.sizeNonPinned = n, !.sizePinned = c.sizePinned])
        BY <2>4, <2>7, MakeGood
      <3> QED BY <2>6, <3>1
    <2> QED BY <2>1, <2>6, <2>8 DEF CacheType
  <1> QED BY <1>1, <1>2

\* containsAndMakePinnedIfExists moves a size from one total to the other.
LEMMA MakePinnedGood ==
    ASSUME NEW c, Good(c), NEW k
    PROVE  /\ Good(MakePinned(c, k))
           /\ MakePinned(c, k).sizePinned + MakePinned(c, k).sizeNonPinned
                = c.sizePinned + c.sizeNonPinned
           /\ MakePinned(c, k).sizePinned >= c.sizePinned
  <1>0. c.sizeNonPinned \in Nat /\ c.sizePinned \in Nat
    BY DEF Good, CacheType
  <1>1. CASE k \notin NonPinned(c)
    BY <1>0, <1>1 DEF MakePinned
  <1>2. CASE k \in NonPinned(c)
    <2> DEFINE w == Without(c.order, k)
               q == c.pinned \cup {k}
               m == c.sizeNonPinned - Size[k]
               n == c.sizePinned + Size[k]
    <2>1. c.order \in Seq(Key) /\ Distinct(c.order) /\ k \in Elements(c.order)
          /\ c \in CacheType /\ c.pinned \in SUBSET Key
          /\ Elements(c.order) \cap c.pinned = {}
      BY <1>2 DEF Good, CacheType, NonPinned, Elements
    <2>2. k \in Key /\ Size[k] \in Nat /\ Elements(c.order) \in SUBSET Key
      BY <2>1, ElementsAreKeys, CacheAssumption
    <2>3. w \in Seq(Key) /\ Distinct(w) /\ Elements(w) = Elements(c.order) \ {k}
      BY <2>1, WithoutKey
    <2>4. m = TotalSize(Elements(w))
      BY <2>1, <2>2, <2>3, TotalRemove DEF Good
    <2>5. k \in Key \ c.pinned
      BY <2>1, <2>2
    <2>6. n = TotalSize(q)
      BY <2>1, <2>5, TotalAdd DEF Good
    <2>7. q \in SUBSET Key /\ Elements(w) \cap q = {}
      BY <2>1, <2>2, <2>3
    <2>8. MakePinned(c, k) = [c EXCEPT !.order = w, !.pinned = q,
                                       !.sizeNonPinned = m, !.sizePinned = n]
      BY <1>2 DEF MakePinned
    <2>9. m + n = c.sizePinned + c.sizeNonPinned /\ n >= c.sizePinned
      BY <1>0, <2>2
    <2> HIDE DEF w, q, m, n
    <2>10. Good(MakePinned(c, k))
      <3>1. Good([c EXCEPT !.order = w, !.pinned = q,
                           !.sizeNonPinned = m, !.sizePinned = n])
        BY <2>3, <2>4, <2>6, <2>7, MakeGood
      <3> QED BY <2>8, <3>1
    <2>11. m \in Nat /\ n \in Nat
      BY <2>3, <2>4, <2>6, <2>7, TotalType, ElementsAreKeys
    <2>12. MakePinned(c, k).sizeNonPinned = m /\ MakePinned(c, k).sizePinned = n
      BY <2>1, <2>8 DEF CacheType
    <2> QED BY <1>0, <2>9, <2>10, <2>11, <2>12
  <1> QED BY <1>1, <1>2

\* A loop that ends at the latest after L steps has a first end.
LEMMA FirstEnd ==
    ASSUME NEW L \in Nat, NEW Q
    PROVE  \E n \in 0 .. L : /\ \A m \in 0 .. n - 1 : m \in Q
                             /\ n = L \/ n \notin Q
  <1> DEFINE T == {n \in 0 .. L : n = L \/ n \notin Q}
  <1>1. T \subseteq Nat /\ L \in T
    OBVIOUS
  <1>2. PICK n \in T : \A m \in T : n <= m
    <2> HIDE DEF T
    <2> QED BY <1>1, LeastNumber
  <1>3. ASSUME NEW m \in 0 .. n - 1 PROVE m \in Q
    <2>1. m \in 0 .. L /\ ~(n <= m) /\ m # L
      BY <1>2
    <2> QED BY <1>2, <2>1
  <1> QED BY <1>2, <1>3

\* makeRoomIfFits evicts until the new entry is within the limit on the size,
\* or everything that is not pinned.
LEMMA MakeRoomEvicts ==
    ASSUME NEW c, Good(c), NEW l \in LimitType, NEW sz \in Nat
    PROVE  \E n \in 0 .. Len(c.order) :
             /\ MakeRoom(c, l, sz) = RemoveOldest(c, n)
             /\ \/ n = Len(c.order)
                \/ ~(c.sizeNonPinned - SizeOfOldest(c, n) + c.sizePinned + sz
                        > l.size)
  <1> DEFINE P(n) ==
                 \/ Len(c.order) - n + Cardinality(c.pinned)
                       + (IF sz # 0 THEN 1 ELSE 0) > l.entries
                 \/ c.sizeNonPinned - SizeOfOldest(c, n) + c.sizePinned + sz
                       > l.size
             End(n) == /\ \A m \in 0 .. n - 1 : P(m)
                       /\ n = Len(c.order) \/ ~P(n)
             e == CHOOSE n \in 0 .. Len(c.order) : End(n)
  <1>1. Len(c.order) \in Nat
    BY ElementsAreKeys DEF Good, CacheType
  <1>2. MakeRoom(c, l, sz) = RemoveOldest(c, e)
    BY DEF MakeRoom, FirstNot
  <1> HIDE DEF P
  <1>3. \E n \in 0 .. Len(c.order) : End(n)
    <2> DEFINE Q == {n \in 0 .. Len(c.order) : P(n)}
    <2>1. PICK n \in 0 .. Len(c.order) :
            /\ \A m \in 0 .. n - 1 : m \in Q
            /\ n = Len(c.order) \/ n \notin Q
      <3> HIDE DEF Q
      <3> QED BY <1>1, FirstEnd
    <2> QED BY <2>1
  <1>4. e \in 0 .. Len(c.order) /\ End(e)
    BY <1>3
  <1> HIDE DEF e
  <1>5. e = Len(c.order)
        \/ ~(c.sizeNonPinned - SizeOfOldest(c, e) + c.sizePinned + sz > l.size)
    BY <1>4 DEF P
  <1> QED BY <1>2, <1>4, <1>5

\* The limit on the size, for an entry of size sz to come.
Within(c, l, sz) ==
    c.sizePinned + sz <= l.size =>
        c.sizePinned + c.sizeNonPinned + sz <= l.size

\* makeRoomIfFits evicts without touching the pinned entries, and then fits.
LEMMA MakeRoomGood ==
    ASSUME NEW c, Good(c), NEW l \in LimitType, NEW sz \in Nat
    PROVE  /\ Good(MakeRoom(c, l, sz))
           /\ Elements(MakeRoom(c, l, sz).order) \subseteq Elements(c.order)
           /\ MakeRoom(c, l, sz).pinned = c.pinned
           /\ MakeRoom(c, l, sz).sizePinned = c.sizePinned
           /\ MakeRoom(c, l, sz).sizeNonPinned <= c.sizeNonPinned
           /\ Within(MakeRoom(c, l, sz), l, sz)
  <1>1. PICK n \in 0 .. Len(c.order) :
          /\ MakeRoom(c, l, sz) = RemoveOldest(c, n)
          /\ \/ n = Len(c.order)
             \/ ~(c.sizeNonPinned - SizeOfOldest(c, n) + c.sizePinned + sz
                     > l.size)
    BY MakeRoomEvicts
  <1> DEFINE r == RemoveOldest(c, n)
  <1>2. /\ Good(r)
        /\ Elements(r.order) \subseteq Elements(c.order)
        /\ r.pinned = c.pinned
        /\ r.sizePinned = c.sizePinned
        /\ r.sizeNonPinned = c.sizeNonPinned - SizeOfOldest(c, n)
        /\ r.sizeNonPinned <= c.sizeNonPinned
        /\ n = Len(c.order) => r.sizeNonPinned = 0
    BY RemoveOldestGood
  <1> HIDE DEF r
  <1>3. /\ r.sizeNonPinned \in Nat /\ r.sizePinned \in Nat /\ l.size \in Nat
    BY <1>2 DEF Good, CacheType, LimitType
  <1>4. Within(r, l, sz)
    <2>1. CASE n = Len(c.order)
      BY <1>2, <1>3, <2>1 DEF Within
    <2>2. CASE ~(r.sizeNonPinned + r.sizePinned + sz > l.size)
      BY <1>3, <2>2 DEF Within
    <2> QED BY <1>1, <1>2, <2>1, <2>2
  <1>5. MakeRoom(c, l, sz) = r
    BY <1>1 DEF r
  <1> QED BY <1>2, <1>4, <1>5

\* The size does not count while there is nothing to come.
LEMMA WithinNow ==
    ASSUME NEW c, Good(c), NEW l \in LimitType
    PROVE  /\ Within(c, l, 0) <=>
                (c.sizePinned <= l.size => c.sizePinned + c.sizeNonPinned <= l.size)
           /\ c.sizePinned \in Nat /\ c.sizeNonPinned \in Nat /\ l.size \in Nat
  BY DEF Within, Good, CacheType, LimitType

\* insert.
LEMMA InsertGood ==
    ASSUME NEW c, Good(c), NEW l \in LimitType, Within(c, l, 0), NEW k \in Key,
           ~InsertThrows(c, l, k)
    PROVE  Good(Insert(c, l, k)) /\ Within(Insert(c, l, k), l, 0)
  <1>0. Size[k] \in Nat /\ k \notin Elements(c.order) /\ k \notin c.pinned
    BY CacheAssumption DEF InsertThrows, Present, NonPinned, Elements
  <1>1. CASE Size[k] > l.single \/ ~Fits(c, l, Size[k])
    BY <1>1 DEF Insert
  <1>2. CASE ~(Size[k] > l.single \/ ~Fits(c, l, Size[k]))
    <2> DEFINE r == MakeRoom(c, l, Size[k])
               w == Append(r.order, k)
               m == r.sizeNonPinned + Size[k]
    <2>1. /\ Good(r) /\ Elements(r.order) \subseteq Elements(c.order)
          /\ r.pinned = c.pinned /\ r.sizePinned = c.sizePinned
          /\ Within(r, l, Size[k])
      BY <1>0, MakeRoomGood
    <2>2. Insert(c, l, k) = [r EXCEPT !.order = w, !.sizeNonPinned = m]
      BY <1>2 DEF Insert
    <2> HIDE DEF r
    <2>3. /\ r \in CacheType /\ r.order \in Seq(Key) /\ Distinct(r.order)
          /\ r.pinned \in SUBSET Key /\ Elements(r.order) \cap r.pinned = {}
          /\ r.sizeNonPinned \in Nat /\ r.sizePinned \in Nat
          /\ r.sizePinned = TotalSize(r.pinned)
      BY <2>1 DEF Good, CacheType
    <2>4. k \in Key \ Elements(r.order)
      BY <1>0, <2>1
    <2>5. w \in Seq(Key) /\ Distinct(w) /\ Elements(w) = Elements(r.order) \cup {k}
      BY <2>3, <2>4, AppendKey
    <2>6. m = TotalSize(Elements(w))
      BY <2>1, <2>3, <2>4, <2>5, TotalAdd, ElementsAreKeys DEF Good
    <2>7. Elements(w) \cap r.pinned = {}
      BY <1>0, <2>1, <2>3, <2>5
    <2>8. m \in Nat
      BY <1>0, <2>3
    <2>9. c.sizePinned + Size[k] <= l.size
      BY <1>0, <1>2, WithinNow DEF Fits
    <2>10. r.sizePinned + m <= l.size
      BY <1>0, <2>1, <2>3, <2>9, WithinNow DEF Within
    <2> HIDE DEF w, m
    <2>11. Insert(c, l, k) = [r EXCEPT !.order = w, !.pinned = r.pinned,
                                       !.sizeNonPinned = m,
                                       !.sizePinned = r.sizePinned]
      BY <2>2, <2>3 DEF CacheType
    <2> DEFINE d == [r EXCEPT !.order = w, !.pinned = r.pinned,
                              !.sizeNonPinned = m, !.sizePinned = r.sizePinned]
    <2>12. Good(d)
      BY <2>1, <2>3, <2>5, <2>6, <2>7, MakeGood
    <2>13. d.sizePinned = r.sizePinned /\ d.sizeNonPinned = m
      BY <2>3 DEF CacheType
    <2> HIDE DEF d
    <2>14. Within(d, l, 0)
      BY <2>10, <2>12, <2>13, WithinNow
    <2> QED BY <2>11, <2>12, <2>14 DEF d
  <1> QED BY <1>1, <1>2

\* insertPinned: the entry is kept even when it does not fit.
LEMMA InsertPinnedGood ==
    ASSUME NEW c, Good(c), NEW l \in LimitType, Within(c, l, 0), NEW k \in Key,
           ~InsertPinnedThrows(c, l, k)
    PROVE  Good(InsertPinned(c, l, k)) /\ Within(InsertPinned(c, l, k), l, 0)
  <1>0. Size[k] \in Nat /\ k \notin Elements(c.order) /\ k \notin c.pinned
    BY CacheAssumption DEF InsertPinnedThrows, Present, NonPinned, Elements
  <1> DEFINE r == IF Fits(c, l, Size[k]) THEN MakeRoom(c, l, Size[k]) ELSE c
             q == r.pinned \cup {k}
             n == r.sizePinned + Size[k]
  <1>1. /\ Good(r) /\ Elements(r.order) \subseteq Elements(c.order)
        /\ r.pinned = c.pinned /\ r.sizePinned = c.sizePinned
        /\ Fits(c, l, Size[k]) => Within(r, l, Size[k])
    BY <1>0, MakeRoomGood
  <1>2. InsertPinned(c, l, k) = [r EXCEPT !.pinned = q, !.sizePinned = n]
    BY DEF InsertPinned
  <1> HIDE DEF r
  <1>3. /\ r \in CacheType /\ r.order \in Seq(Key) /\ Distinct(r.order)
        /\ r.pinned \in SUBSET Key /\ Elements(r.order) \cap r.pinned = {}
        /\ r.sizeNonPinned \in Nat /\ r.sizePinned \in Nat
        /\ r.sizeNonPinned = TotalSize(Elements(r.order))
    BY <1>1 DEF Good, CacheType
  <1>4. q \in SUBSET Key /\ Elements(r.order) \cap q = {} /\ k \in Key \ r.pinned
    BY <1>0, <1>1, <1>3
  <1>5. n = TotalSize(q) /\ n \in Nat
    BY <1>0, <1>1, <1>3, <1>4, TotalAdd DEF Good
  <1>6. n <= l.size => n + r.sizeNonPinned <= l.size
    <2>1. n <= l.size => Fits(c, l, Size[k])
      BY <1>0, <1>1, WithinNow DEF Fits
    <2> QED BY <1>0, <1>1, <1>3, <2>1, WithinNow DEF Within
  <1> HIDE DEF q, n
  <1>7. InsertPinned(c, l, k) = [r EXCEPT !.order = r.order, !.pinned = q,
                                          !.sizeNonPinned = r.sizeNonPinned,
                                          !.sizePinned = n]
    BY <1>2, <1>3 DEF CacheType
  <1> DEFINE d == [r EXCEPT !.order = r.order, !.pinned = q,
                            !.sizeNonPinned = r.sizeNonPinned, !.sizePinned = n]
  <1>8. Good(d)
    BY <1>1, <1>3, <1>4, <1>5, MakeGood
  <1>9. d.sizePinned = n /\ d.sizeNonPinned = r.sizeNonPinned
    BY <1>3 DEF CacheType
  <1> HIDE DEF d
  <1>10. Within(d, l, 0)
    BY <1>6, <1>8, <1>9, WithinNow
  <1> QED BY <1>7, <1>8, <1>10 DEF d

\* Pinning an entry keeps the limit: the total is the same.
LEMMA PinWithin ==
    ASSUME NEW c, Good(c), NEW l \in LimitType, Within(c, l, 0), NEW k
    PROVE  Good(MakePinned(c, k)) /\ Within(MakePinned(c, k), l, 0)
  <1> DEFINE d == MakePinned(c, k)
  <1>1. /\ Good(d) /\ d.sizePinned + d.sizeNonPinned = c.sizePinned + c.sizeNonPinned
        /\ d.sizePinned >= c.sizePinned
    BY MakePinnedGood
  <1> HIDE DEF d
  <1>2. Within(d, l, 0)
    BY <1>1, WithinNow
  <1> QED BY <1>1, <1>2 DEF d

\* tryInsertIfNotPresent.
LEMMA TryInsertGood ==
    ASSUME NEW c, Good(c), NEW l \in LimitType, Within(c, l, 0), NEW k \in Key,
           NEW pin \in BOOLEAN, ~TryInsertThrows(c, l, k, pin)
    PROVE  Good(TryInsert(c, l, k, pin)) /\ Within(TryInsert(c, l, k, pin), l, 0)
  <1>1. CASE Present(c, k) /\ pin
    BY <1>1, PinWithin DEF TryInsert
  <1>2. CASE Present(c, k) /\ ~pin
    BY <1>2 DEF TryInsert
  <1>3. CASE ~Present(c, k) /\ pin
    BY <1>3, InsertPinnedGood DEF TryInsert, TryInsertThrows
  <1>4. CASE ~Present(c, k) /\ ~pin
    BY <1>4, InsertGood DEF TryInsert, TryInsertThrows
  <1> QED BY <1>1, <1>2, <1>3, <1>4

\* Reading an entry, and pinning it first if that is asked for.
LEMMA ReadGood ==
    ASSUME NEW c, Good(c), NEW l \in LimitType, Within(c, l, 0), NEW k,
           NEW pin \in BOOLEAN
    PROVE  /\ Good(Access(IF pin THEN MakePinned(c, k) ELSE c, k))
           /\ Within(Access(IF pin THEN MakePinned(c, k) ELSE c, k), l, 0)
  <1> DEFINE d == IF pin THEN MakePinned(c, k) ELSE c
  <1>1. Good(d) /\ Within(d, l, 0)
    BY PinWithin
  <1> HIDE DEF d
  <1>2. Good(Access(d, k)) /\ Within(Access(d, k), l, 0)
    BY <1>1, AccessGood, WithinNow
  <1> QED BY <1>2 DEF d

-----------------------------------------------------------------------------
(***************************************************************************)
(* The operations together.                                                *)
(***************************************************************************)

\* The inductive invariant: the totals are exact because every key is held
\* once, and then the loop of makeRoomIfFits ends within the limit.
CacheInv ==
    /\ Good(cache)
    /\ limits \in LimitType
    /\ Within(cache, limits, 0)

\* The empty cache has the totals 0 and is within every limit.
LEMMA EmptyGood == Good(EmptyCache) /\ \A l \in LimitType : Within(EmptyCache, l, 0)
  <1>1. Elements(<<>>) = {} /\ Distinct(<<>>) /\ <<>> \in Seq(Key)
    BY EmptySeq DEF Elements, Distinct
  <1>2. Good(EmptyCache)
    BY <1>1, TotalType DEF Good, EmptyCache, CacheType
  <1>3. EmptyCache.sizePinned = 0 /\ EmptyCache.sizeNonPinned = 0
    BY DEF EmptyCache
  <1> QED BY <1>2, <1>3, WithinNow

\* clearUnpinnedOnly.
LEMMA ClearGood ==
    ASSUME NEW c, Good(c), NEW l \in LimitType
    PROVE  /\ Good([c EXCEPT !.order = <<>>, !.sizeNonPinned = 0])
           /\ Within([c EXCEPT !.order = <<>>, !.sizeNonPinned = 0], l, 0)
  <1> DEFINE d == [c EXCEPT !.order = <<>>, !.sizeNonPinned = 0]
  <1>1. Elements(<<>>) = {} /\ Distinct(<<>>) /\ <<>> \in Seq(Key)
    BY EmptySeq DEF Elements, Distinct
  <1>2. /\ d \in CacheType /\ d.order = <<>> /\ d.pinned = c.pinned
        /\ d.sizeNonPinned = 0 /\ d.sizePinned = c.sizePinned
    BY <1>1 DEF Good, CacheType
  <1> HIDE DEF d
  <1>3. Good(d)
    BY <1>1, <1>2, TotalType DEF Good
  <1>4. Within(d, l, 0)
    BY <1>2, <1>3, WithinNow
  <1> QED BY <1>3, <1>4 DEF d

\* A changed limit is enforced, unless the pinned entries exceed it.
LEMMA ShrinkGood ==
    ASSUME Good(cache), NEW l \in LimitType
    PROVE  Good(Shrink(l)) /\ Within(Shrink(l), l, 0)
  <1>1. CASE MakeRoomThrows(cache, l)
    BY <1>1, WithinNow DEF Shrink, MakeRoomThrows
  <1>2. CASE ~MakeRoomThrows(cache, l)
    BY <1>2, MakeRoomGood DEF Shrink
  <1> QED BY <1>1, <1>2

\* makeRoomAsMuchAsPossible.
LEMMA AsMuchAsPossibleGood ==
    ASSUME CacheInv, NEW sz \in SizeLimits, MakeRoomAsMuchAsPossible(sz)
    PROVE  CacheInv'
  <1>0. limits' = limits
    BY DEF MakeRoomAsMuchAsPossible
  <1>1. CASE sz > cache.sizeNonPinned
    BY <1>0, <1>1, ClearGood DEF MakeRoomAsMuchAsPossible, CacheInv
  <1>2. CASE ~(sz > cache.sizeNonPinned)
    <2> DEFINE P(n) == SizeOfOldest(cache, n) < sz
               End(n) == /\ \A m \in 0 .. n - 1 : P(m)
                         /\ n = Len(cache.order) \/ ~P(n)
               e == CHOOSE n \in 0 .. Len(cache.order) : End(n)
    <2>1. cache' = RemoveOldest(cache, e)
      BY <1>2 DEF MakeRoomAsMuchAsPossible, FirstNot
    <2>2. Len(cache.order) \in Nat
      BY ElementsAreKeys DEF CacheInv, Good, CacheType
    <2>3. \E n \in 0 .. Len(cache.order) : End(n)
      <3> HIDE DEF P
      <3> DEFINE Q == {n \in 0 .. Len(cache.order) : P(n)}
      <3>1. PICK n \in 0 .. Len(cache.order) :
              /\ \A m \in 0 .. n - 1 : m \in Q
              /\ n = Len(cache.order) \/ n \notin Q
        <4> HIDE DEF Q
        <4> QED BY <2>2, FirstEnd
      <3> QED BY <3>1
    <2>4. e \in 0 .. Len(cache.order)
      BY <2>3
    <2> HIDE DEF e
    <2>5. PICK n \in 0 .. Len(cache.order) : cache' = RemoveOldest(cache, n)
      BY <2>1, <2>4
    <2>6. /\ Good(cache') /\ cache'.sizePinned = cache.sizePinned
          /\ cache'.sizeNonPinned <= cache.sizeNonPinned
      BY <2>5, RemoveOldestGood DEF CacheInv
    <2>7. Within(cache', limits, 0)
      BY <2>6, WithinNow DEF CacheInv
    <2> QED BY <1>0, <2>6, <2>7 DEF CacheInv
  <1> QED BY <1>1, <1>2

\* The commands and runtime parameters keep the invariant.
LEMMA MaintainInv ==
    ASSUME CacheInv, Maintain
    PROVE  CacheInv'
  <1>1. CASE ClearUnpinnedOnly
    BY <1>1, ClearGood DEF ClearUnpinnedOnly, CacheInv
  <1>2. CASE ClearAll
    BY <1>2, EmptyGood DEF ClearAll, CacheInv
  <1>3. CASE \E sz \in SizeLimits : MakeRoomAsMuchAsPossible(sz)
    BY <1>3, AsMuchAsPossibleGood
  <1>4. CASE \E n \in EntryLimits : SetMaxNumEntries(n)
    <2>1. PICK n \in EntryLimits : SetMaxNumEntries(n)
      BY <1>4
    <2>2. limits' \in LimitType /\ cache' = Shrink(limits')
      BY <2>1, CacheAssumption DEF SetMaxNumEntries, CacheInv, LimitType
    <2> QED BY <2>2, ShrinkGood DEF CacheInv
  <1>5. CASE \E sz \in SizeLimits : SetMaxSize(sz)
    <2>1. PICK sz \in SizeLimits : SetMaxSize(sz)
      BY <1>5
    <2>2. limits' \in LimitType /\ cache' = Shrink(limits')
      BY <2>1, CacheAssumption DEF SetMaxSize, CacheInv, LimitType
    <2> QED BY <2>2, ShrinkGood DEF CacheInv
  <1>6. CASE \E sz \in SizeLimits : SetMaxSizeSingleEntry(sz)
    <2>1. PICK sz \in SizeLimits : SetMaxSizeSingleEntry(sz)
      BY <1>6
    <2>2. limits' \in LimitType /\ limits'.size = limits.size /\ cache' = cache
      BY <2>1, CacheAssumption DEF SetMaxSizeSingleEntry, CacheInv, LimitType
    <2> QED BY <2>2, WithinNow DEF CacheInv
  <1> QED BY <1>1, <1>2, <1>3, <1>4, <1>5, <1>6 DEF Maintain

\* The invariant implies that the totals are exact and within the limit.
LEMMA CacheInvSizes == CacheInv => CacheSizesRespected
  <1> SUFFICES ASSUME CacheInv PROVE CacheSizesRespected
    OBVIOUS
  <1>1. /\ cache.order \in Seq(Key) /\ Distinct(cache.order)
        /\ NonPinned(cache) = Elements(cache.order)
    BY DEF CacheInv, Good, CacheType, NonPinned, Elements
  <1>2. Cardinality(Elements(cache.order)) = Len(cache.order)
    <2>1. /\ Len(cache.order) \in Nat
          /\ cache.order \in [1 .. Len(cache.order) -> Key]
      BY <1>1, LenProperties
    <2>2. cache.order \in Bijection(1 .. Len(cache.order), Elements(cache.order))
      BY <1>1, <2>1 DEF Bijection, Injection, Surjection, IsInjective, Elements,
                        Distinct
    <2>3. ExistsBijection(1 .. Len(cache.order), Elements(cache.order))
      BY <2>2 DEF ExistsBijection
    <2> QED BY <2>1, <2>3, FS_CountingElements
  <1>3. SizesExact
    BY <1>1, <1>2 DEF SizesExact, CacheInv, Good
  <1>4. SizeWithinLimit
    BY WithinNow DEF SizeWithinLimit, CacheInv
  <1> QED BY <1>3, <1>4 DEF CacheSizesRespected

\* It holds at the start.
LEMMA InitCacheInv == CacheInit => CacheInv
  BY EmptyGood, CacheAssumption DEF CacheInit, CacheInv

\* Every operation keeps it.
LEMMA NextCacheInv == CacheInv /\ [CacheNext]_cacheVars => CacheInv'
  <1> SUFFICES ASSUME CacheInv, [CacheNext]_cacheVars PROVE CacheInv'
    OBVIOUS
  <1>0. /\ Good(cache) /\ limits \in LimitType /\ Within(cache, limits, 0)
    BY DEF CacheInv
  <1>1. ASSUME NEW k \in Key, Look(k) PROVE CacheInv'
    <2>1. cache' = Access(cache, k) /\ limits' = limits
      BY <1>1 DEF Look
    <2>2. Good(Access(cache, k)) /\ Within(Access(cache, k), limits, 0)
      BY <1>0, AccessGood, WithinNow
    <2> QED BY <1>0, <2>1, <2>2 DEF CacheInv
  <1>2. ASSUME NEW k \in Key, Pin(k) PROVE CacheInv'
    BY <1>0, <1>2, PinWithin DEF Pin, CacheInv
  <1>3. ASSUME NEW k \in Key, NEW pin \in BOOLEAN, Put(k, pin) PROVE CacheInv'
    BY <1>0, <1>3, TryInsertGood DEF Put, CacheInv
  <1>4. CASE Maintain
    BY <1>4, MaintainInv
  <1>5. CASE UNCHANGED cacheVars
    BY <1>0, <1>5 DEF cacheVars, CacheInv
  <1> QED BY <1>1, <1>2, <1>3, <1>4, <1>5 DEF CacheNext

\* For every set of keys with any sizes, and after every sequence of lookups,
\* insertions, promotions, evictions, clears and changes of the limits, the
\* totals of the cache are the sizes of its entries, no key is held twice, and
\* the limit on the size is respected unless pinned entries alone exceed it.
THEOREM SizesAlwaysRespected == CacheSpec => []CacheSizesRespected
  <1>1. CacheSpec => []CacheInv
    BY InitCacheInv, NextCacheInv, PTL DEF CacheSpec
  <1> QED BY <1>1, CacheInvSizes, PTL

-----------------------------------------------------------------------------
(* ConcurrentCache. *)

\* The height of a tree, the request being above all of them.
Decreasing(rank) ==
    /\ \A k \in Key : rank[k] < rank[TopLevel]
    /\ \A k \in Key : \A c \in Child[k] : rank[c] < rank[k]

Rank ==
    CHOOSE rank \in [Node -> 0 .. Cardinality(Key) + 1] : Decreasing(rank)

Active(t, n) == pc[<<t, n>>] # "none"

\* The calls of a thread form a stack along which trees grow.
Nested(t) ==
    /\ pc[<<t, TopLevel>>] \in {"none", "request", "throwing"}
    /\ mode[t] = "idle" => ~Active(t, TopLevel)
    /\ at[t] \in Key => Active(t, at[t]) /\ Active(t, TopLevel)
    /\ \A n \in Node :
         Active(t, n) => \/ n = at[t]
                         \/ Rank[at[t]] < Rank[n] /\ pc[<<t, n>>] \in Running
    /\ \A k \in Key :
         Active(t, k) => /\ Active(t, up[<<t, k>>])
                         /\ Rank[k] < Rank[up[<<t, k>>]]
    /\ \A k \in Key, n \in Node :
         Active(t, k) /\ Active(t, n) =>
            \/ n = k \/ n = up[<<t, k>>]
            \/ Rank[n] < Rank[k] \/ Rank[up[<<t, k>>]] < Rank[n]
    /\ \A n \in Node : \A c \in todo[<<t, n>>] : Rank[c] < Rank[n]

CallsNested == \A t \in Thread : Nested(t)

\* The inductive invariant.
IInv ==
    /\ TypeOK
    /\ CallsNested
    /\ InProgressOwned
    /\ WaitersHaveOwner

-----------------------------------------------------------------------------
\* There are such heights, because trees are larger than their children.
LEMMA RankExists ==
    /\ Rank \in [Node -> Int]
    /\ Decreasing(Rank)
  <1>1. Cardinality(Key) \in Nat
    BY CacheAssumption, FS_CardinalityType
  <1>2. PICK r \in [Key -> 0 .. Cardinality(Key)] :
          \A k \in Key : \A c \in Child[k] : r[c] < r[k]
    BY TreeAssumption
  <1> DEFINE s == [n \in Node |-> IF n = TopLevel THEN Cardinality(Key) + 1
                                                  ELSE r[n]]
  <1>3. s \in [Node -> 0 .. Cardinality(Key) + 1]
    BY <1>1, <1>2 DEF Node
  <1>4. \A k \in Key : s[k] = r[k] /\ s[k] < s[TopLevel]
    BY <1>1, <1>2, ThreadAssumption DEF Node
  <1>5. \A k \in Key : \A c \in Child[k] : c \in Key
    BY TreeAssumption
  <1>6. Decreasing(s)
    BY <1>2, <1>4, <1>5 DEF Decreasing
  <1>7. \E rank \in [Node -> 0 .. Cardinality(Key) + 1] : Decreasing(rank)
    BY <1>3, <1>6
  <1>8. Rank \in [Node -> 0 .. Cardinality(Key) + 1] /\ Decreasing(Rank)
    BY <1>7 DEF Rank
  <1> QED BY <1>1, <1>8

-----------------------------------------------------------------------------
(***************************************************************************)
(* What an action does to the stack of its thread.                         *)
(***************************************************************************)
\* The innermost call goes on, and may have to ask for all its children.
Moves(t, label) ==
    /\ Active(t, at[t])
    /\ label \in PCs \ {"none"}
    /\ at[t] = TopLevel => label = "throwing" /\ todo' = todo
    /\ pc' = [pc EXCEPT ![Now(t)] = label]
    /\ \/ todo' = todo
       \/ todo' = [todo EXCEPT ![Now(t)] = Child[at[t]]]
    /\ UNCHANGED <<mode, at, up>>

\* The innermost call makes one more call.
Calls(t) ==
    /\ pc[Now(t)] \in Running
    /\ \E k \in todo[Now(t)] :
         /\ at' = [at EXCEPT ![t] = k]
         /\ pc' = [pc EXCEPT ![<<t, k>>] = "lookup"]
         /\ up' = [up EXCEPT ![<<t, k>>] = at[t]]
    /\ UNCHANGED <<mode, todo>>

\* The innermost call ends, and its caller goes on at a label.
Ends(t, label) ==
    LET caller == <<t, up[Now(t)]>>
    IN  /\ at[t] \in Key
        /\ at' = [at EXCEPT ![t] = up[Now(t)]]
        /\ pc' \in [Call -> PCs]
        /\ \A c \in Call : pc'[c] = IF c = caller THEN label
                                  ELSE IF c = Now(t) THEN "none" ELSE pc[c]
        /\ label \in PCs \ {"none"}
        /\ up[Now(t)] = TopLevel => label \in {"request", "throwing"}
        /\ todo' \in [Call -> SUBSET Key]
        /\ \A c \in Call : todo'[c] \subseteq todo[c]
        /\ up' = [up EXCEPT ![Now(t)] = TopLevel]
        /\ UNCHANGED mode

-----------------------------------------------------------------------------
\* A step of the innermost call keeps the calls nested.
LEMMA MovesNested ==
    ASSUME TypeOK, CallsNested, NEW t \in Thread, NEW label \in PCs, Moves(t, label)
    PROVE  CallsNested'
  <1> USE RankExists, ThreadAssumption, TreeAssumption
  <1> SUFFICES ASSUME NEW u \in Thread
               PROVE  Nested(u)'
    BY DEF CallsNested
  <1>1. Nested(u)
    BY DEF CallsNested
  <1>2. \A n \in Node : pc'[<<u, n>>] =
                          IF u = t /\ n = at[t] THEN label ELSE pc[<<u, n>>]
    BY DEF Moves, TypeOK, Call, Now
  <1>3. \A n \in Node : \/ todo'[<<u, n>>] = todo[<<u, n>>]
                        \/ n \in Key /\ todo'[<<u, n>>] = Child[n]
    <2>1. CASE todo' = todo
      BY <2>1
    <2>2. CASE todo' # todo
      <3>1. at[t] \in Key /\ todo' = [todo EXCEPT ![Now(t)] = Child[at[t]]]
        BY <2>2 DEF Moves, TypeOK, Node
      <3>2. \A n \in Node : todo'[<<u, n>>] =
               IF u = t /\ n = at[t] THEN Child[n] ELSE todo[<<u, n>>]
        BY <3>1 DEF TypeOK, Call, Now
      <3> QED BY <3>1, <3>2
    <2> QED BY <2>1, <2>2
  <1>4. Active(u, at[u]) \/ u # t
    BY DEF Moves
  <1>5. \A n \in Node : pc'[<<u, n>>] # "none" <=> pc[<<u, n>>] # "none"
    BY <1>2, <1>4 DEF Active, Moves, PCs
  <1>6. at' = at /\ up' = up /\ mode' = mode /\ at[u] \in Node
    BY DEF Moves, TypeOK
  <1>7. TopLevel \in Node /\ \A k \in Key : k \in Node /\ up[<<u, k>>] \in Node
    BY DEF Node, TypeOK, Call
  <1>8. pc'[<<u, TopLevel>>] \in {"none", "request", "throwing"}
    BY <1>1, <1>2, <1>7 DEF Nested, Moves
  <1>9. \A n \in Node : \A c \in todo'[<<u, n>>] : Rank[c] < Rank[n]
    BY <1>1, <1>3 DEF Nested, Decreasing
  <1>10. \A n \in Node : Active(u, n) =>
           \/ n = at[u]
           \/ Rank[at[u]] < Rank[n] /\ pc'[<<u, n>>] \in Running
    BY <1>1, <1>2 DEF Nested
  <1> HIDE RankExists, ThreadAssumption, TreeAssumption
  <1> QED BY <1>1, <1>5, <1>6, <1>7, <1>8, <1>9, <1>10 DEF Nested, Active

\* A further call, for a child, keeps the calls nested.
LEMMA CallsPreserveNested ==
    ASSUME TypeOK, CallsNested, NEW t \in Thread, Calls(t)
    PROVE  CallsNested'
  <1> SUFFICES ASSUME NEW u \in Thread
               PROVE  Nested(u)'
    BY DEF CallsNested
  <1>1. Nested(u)
    BY DEF CallsNested
  <1>2. PICK k \in todo[Now(t)] :
          /\ at' = [at EXCEPT ![t] = k]
          /\ pc' = [pc EXCEPT ![<<t, k>>] = "lookup"]
          /\ up' = [up EXCEPT ![<<t, k>>] = at[t]]
    BY DEF Calls
  <1>3. mode' = mode /\ todo' = todo /\ pc[<<t, at[t]>>] \in Running
    BY DEF Calls, Now
  <1>4. k \in Key /\ at[t] \in Node /\ k # TopLevel
    BY ThreadAssumption DEF TypeOK, Now, Call
  <1>5. /\ TopLevel \in Node
        /\ \A j \in Key : j \in Node /\ up[<<u, j>>] \in Node
    BY DEF Node, TypeOK, Call
  <1>6. \A n \in Node : pc'[<<u, n>>] =
                          IF u = t /\ n = k THEN "lookup" ELSE pc[<<u, n>>]
    BY <1>2 DEF TypeOK, Call
  <1>7. \A n \in Node : up'[<<u, n>>] =
                          IF u = t /\ n = k THEN at[t] ELSE up[<<u, n>>]
    BY <1>2 DEF TypeOK, Call
  <1>8. at'[u] = IF u = t THEN k ELSE at[u]
    BY <1>2 DEF TypeOK
  <1>9. Rank \in [Node -> Int] /\ at[u] \in Node
    BY RankExists DEF TypeOK
  <1>10. CASE u # t
    BY <1>1, <1>3, <1>6, <1>7, <1>8, <1>10, <1>5 DEF Nested, Active
  <1>11. CASE u = t
    <2>1. Rank[k] < Rank[at[t]]
      BY <1>1, <1>4, <1>11 DEF Nested, Now
    <2>2. pc[<<t, k>>] = "none"
      BY <1>1, <1>4, <1>5, <1>9, <1>11, <2>1 DEF Nested, Active
    <2>3. pc[<<t, at[t]>>] # "none"
      BY <1>3 DEF Running
    <2>4. Active(t, TopLevel)
      BY <1>1, <1>4, <1>11, <2>3 DEF Nested, Active, Node
    <2>5. \A n \in Node : pc[<<t, n>>] # "none" =>
              n # k /\ Rank[k] < Rank[n] /\ pc[<<t, n>>] \in Running
      BY <1>1, <1>3, <1>4, <1>5, <1>9, <1>11, <2>1, <2>2 DEF Nested, Active
    <2>6. \A n \in Node : pc'[<<t, n>>] # "none" <=>
                            n = k \/ pc[<<t, n>>] # "none"
      BY <1>6, <1>11
    <2>7. \A j \in Key : pc'[<<t, j>>] # "none" =>
              /\ pc'[<<t, up'[<<t, j>>]>>] # "none"
              /\ Rank[j] < Rank[up'[<<t, j>>]]
      BY <1>1, <1>4, <1>5, <1>7, <1>11, <2>1, <2>3, <2>6 DEF Nested, Active
    <2>8. \A j \in Key, n \in Node :
            pc'[<<t, j>>] # "none" /\ pc'[<<t, n>>] # "none" =>
              \/ n = j \/ n = up'[<<t, j>>]
              \/ Rank[n] < Rank[j] \/ Rank[up'[<<t, j>>]] < Rank[n]
      <3> SUFFICES ASSUME NEW j \in Key, NEW n \in Node, n # j,
                          pc'[<<t, j>>] # "none", pc'[<<t, n>>] # "none"
                   PROVE  \/ n = up'[<<t, j>>]
                          \/ Rank[n] < Rank[j] \/ Rank[up'[<<t, j>>]] < Rank[n]
        OBVIOUS
      <3>1. CASE j = k
        BY <1>1, <1>5, <1>7, <1>11, <2>6, <3>1 DEF Nested, Active
      <3>2. CASE j # k /\ n = k
        BY <1>5, <2>5, <2>6, <3>2
      <3>3. CASE j # k /\ n # k
        BY <1>1, <1>5, <1>7, <1>11, <2>6, <3>3 DEF Nested, Active
      <3> QED BY <3>1, <3>2, <3>3
    <2>9. pc'[<<t, TopLevel>>] = pc[<<t, TopLevel>>]
      BY <1>4, <1>5, <1>6, <1>11
    <2>10. \A n \in Node : pc'[<<t, n>>] # "none" =>
             \/ n = at'[t]
             \/ Rank[at'[t]] < Rank[n] /\ pc'[<<t, n>>] \in Running
      BY <1>6, <1>8, <1>11, <2>5, <2>6
    <2> QED
      BY <1>1, <1>3, <1>4, <1>5, <1>8, <1>11, <2>4, <2>6, <2>7, <2>8, <2>9,
         <2>10 DEF Nested, Active
  <1> QED BY <1>10, <1>11

\* The end of the innermost call keeps the calls nested.
LEMMA EndsPreserveNested ==
    ASSUME TypeOK, CallsNested, NEW t \in Thread, NEW label \in PCs, Ends(t, label)
    PROVE  CallsNested'
  <1> SUFFICES ASSUME NEW u \in Thread
               PROVE  Nested(u)'
    BY DEF CallsNested
  <1> DEFINE k == at[t]
             v == up[<<t, k>>]
  <1>1. Nested(u) /\ Nested(t)
    BY DEF CallsNested
  <1>2. k \in Key /\ k \in Node /\ v \in Node /\ k # TopLevel
    BY ThreadAssumption DEF Ends, TypeOK, Node, Call
  <1>3. /\ TopLevel \in Node
        /\ \A j \in Key : j \in Node /\ up[<<u, j>>] \in Node
    BY DEF Node, TypeOK, Call
  <1>4. Active(t, k) /\ Active(t, v) /\ Rank[k] < Rank[v] /\ Active(t, TopLevel)
    BY <1>1, <1>2 DEF Nested
  <1>5. Rank \in [Node -> Int] /\ at[u] \in Node
    BY RankExists DEF TypeOK
  <1>6. k # v
    BY <1>2, <1>4, <1>5
  <1>7. \A n \in Node : pc'[<<u, n>>] =
          IF u = t /\ n = v THEN label
          ELSE IF u = t /\ n = k THEN "none" ELSE pc[<<u, n>>]
    BY <1>2, <1>6 DEF Ends, TypeOK, Call, Now
  <1>8. \A n \in Node : up'[<<u, n>>] =
                          IF u = t /\ n = k THEN TopLevel ELSE up[<<u, n>>]
    BY <1>2 DEF Ends, TypeOK, Call, Now
  <1>9. at'[u] = IF u = t THEN v ELSE at[u]
    BY DEF Ends, TypeOK, Now
  <1>10. /\ mode' = mode /\ label # "none"
         /\ \A n \in Node : todo'[<<u, n>>] \subseteq todo[<<u, n>>]
    BY DEF Ends, Call
  <1>11. v = TopLevel => label \in {"request", "throwing"}
    BY DEF Ends, Now
  <1> HIDE DEF k, v
  <1>12. CASE u # t
    BY <1>1, <1>3, <1>7, <1>8, <1>9, <1>10, <1>12 DEF Nested, Active
  <1>13. CASE u = t
    <2>1. \A n \in Node : pc'[<<t, n>>] # "none" <=>
                            n # k /\ pc[<<t, n>>] # "none"
      BY <1>2, <1>4, <1>6, <1>7, <1>10, <1>13 DEF Active
    <2>2. \A n \in Node : pc'[<<t, n>>] # "none" => Rank[k] < Rank[n]
      BY <1>1, <1>2, <1>5, <2>1 DEF Nested, Active, k
    <2>3. \A n \in Node : pc'[<<t, n>>] # "none" =>
             \/ n = v
             \/ Rank[v] < Rank[n] /\ pc'[<<t, n>>] \in Running
      <3> SUFFICES ASSUME NEW n \in Node, pc'[<<t, n>>] # "none", n # v
                   PROVE  Rank[v] < Rank[n] /\ pc'[<<t, n>>] \in Running
        OBVIOUS
      <3>1. pc[<<t, n>>] # "none" /\ n # k /\ Rank[k] < Rank[n]
        BY <2>1, <2>2
      <3>2. Rank[v] < Rank[n]
        BY <1>1, <1>2, <1>4, <1>5, <3>1 DEF Nested, Active, v
      <3>3. pc'[<<t, n>>] = pc[<<t, n>>]
        BY <1>7, <1>13, <3>1
      <3>4. pc[<<t, n>>] \in Running
        BY <1>1, <1>2, <3>1 DEF Nested, Active, k
      <3> QED BY <3>2, <3>3, <3>4
    <2>4. \A j \in Key : pc'[<<t, j>>] # "none" =>
              /\ up'[<<t, j>>] = up[<<t, j>>]
              /\ pc'[<<t, up[<<t, j>>]>>] # "none"
              /\ Rank[j] < Rank[up[<<t, j>>]]
      <3> SUFFICES ASSUME NEW j \in Key, pc'[<<t, j>>] # "none"
                   PROVE  /\ up'[<<t, j>>] = up[<<t, j>>]
                          /\ pc'[<<t, up[<<t, j>>]>>] # "none"
                          /\ Rank[j] < Rank[up[<<t, j>>]]
        OBVIOUS
      <3>1. pc[<<t, j>>] # "none" /\ j # k /\ Rank[k] < Rank[j] /\ j \in Node
        BY <1>3, <2>1, <2>2
      <3>2. /\ pc[<<t, up[<<t, j>>]>>] # "none"
            /\ Rank[j] < Rank[up[<<t, j>>]]
            /\ up[<<t, j>>] \in Node
        BY <1>1, <1>3, <1>13, <3>1 DEF Nested, Active
      <3>3. up[<<t, j>>] # k
        BY <1>2, <1>5, <3>1, <3>2
      <3>4. pc'[<<t, up[<<t, j>>]>>] # "none"
        BY <2>1, <3>2, <3>3
      <3>5. up'[<<t, j>>] = up[<<t, j>>]
        BY <1>8, <1>13, <3>1
      <3> QED BY <3>2, <3>4, <3>5
    <2>5. \A j \in Key, n \in Node :
            pc'[<<t, j>>] # "none" /\ pc'[<<t, n>>] # "none" =>
              \/ n = j \/ n = up'[<<t, j>>]
              \/ Rank[n] < Rank[j] \/ Rank[up'[<<t, j>>]] < Rank[n]
      BY <1>1, <1>3, <2>1, <2>4 DEF Nested, Active
    <2>6. /\ pc'[<<t, TopLevel>>] \in {"none", "request", "throwing"}
          /\ pc'[<<t, TopLevel>>] # "none"
          /\ pc'[<<t, v>>] # "none"
      BY <1>1, <1>2, <1>3, <1>4, <1>6, <1>7, <1>10, <1>11, <1>13
      DEF Nested, Active
    <2>7. mode[t] # "idle"
      BY <1>1, <1>4 DEF Nested
    <2> QED
      BY <1>1, <1>9, <1>10, <1>13, <2>3, <2>4, <2>5, <2>6, <2>7
      DEF Nested, Active
  <1> QED BY <1>12, <1>13

\* A thread that begins a query has the request as its only call.
LEMMA BeginNested ==
    ASSUME TypeOK, CallsNested, NEW t \in Thread, BeginQuery(t)
    PROVE  CallsNested'
  <1> SUFFICES ASSUME NEW u \in Thread
               PROVE  Nested(u)'
    BY DEF CallsNested
  <1>1. Nested(u) /\ Nested(t)
    BY DEF CallsNested
  <1>2. at[t] = TopLevel
    BY <1>1 DEF BeginQuery, Nested, TypeOK, Node
  <1>3. Rank \in [Node -> Int] /\ \A k \in Key : Rank[k] < Rank[TopLevel]
    BY RankExists DEF Decreasing
  <1>4. TopLevel \in Node /\ TopLevel \notin Key /\ \A k \in Key : k \in Node
    BY ThreadAssumption DEF Node
  <1>5. \A k \in Key : pc[<<t, k>>] = "none"
    BY <1>1, <1>2, <1>3, <1>4 DEF Nested, Active, BeginQuery
  <1>6. \A n \in Node : pc'[<<u, n>>] =
          IF u = t /\ n = TopLevel THEN "request" ELSE pc[<<u, n>>]
    BY <1>2 DEF BeginQuery, Goto, Now, TypeOK, Call
  <1>7. PICK root \in Key : todo' = [todo EXCEPT ![Now(t)] = {root}]
    BY DEF BeginQuery
  <1>8. \A n \in Node : todo'[<<u, n>>] =
          IF u = t /\ n = TopLevel THEN {root} ELSE todo[<<u, n>>]
    BY <1>2, <1>7 DEF Now, TypeOK, Call
  <1>9. \A n \in Node : \A c \in todo'[<<u, n>>] : Rank[c] < Rank[n]
    BY <1>1, <1>3, <1>8 DEF Nested
  <1>10. at' = at /\ up' = up
    BY DEF BeginQuery
  <1>11. CASE u # t
    <2>1. mode'[u] = mode[u]
      BY <1>11 DEF BeginQuery, TypeOK
    <2> QED BY <1>1, <1>4, <1>6, <1>9, <1>10, <1>11, <2>1
            DEF Nested, Active, TypeOK, Call
  <1>12. CASE u = t
    <2>1. mode'[t] # "idle"
      BY ThreadAssumption DEF BeginQuery, TypeOK
    <2> QED BY <1>2, <1>4, <1>5, <1>6, <1>9, <1>10, <1>12, <2>1
            DEF Nested, Active, Node
  <1> QED BY <1>11, <1>12

\* A thread that ends its query has no call left.
LEMMA EndQueryNested ==
    ASSUME TypeOK, CallsNested, NEW t \in Thread, EndQuery(t)
    PROVE  CallsNested'
  <1> SUFFICES ASSUME NEW u \in Thread
               PROVE  Nested(u)'
    BY DEF CallsNested
  <1>1. Nested(u) /\ Nested(t)
    BY DEF CallsNested
  <1>2. at[t] = TopLevel /\ at' = at /\ up' = up
    BY DEF EndQuery
  <1>3. Rank \in [Node -> Int] /\ \A k \in Key : Rank[k] < Rank[TopLevel]
    BY RankExists DEF Decreasing
  <1>4. TopLevel \in Node /\ TopLevel \notin Key /\ \A k \in Key : k \in Node
    BY ThreadAssumption DEF Node
  <1>5. \A k \in Key : pc[<<t, k>>] = "none"
    <2>1. \A k \in Key : Active(t, k) => k = at[t] \/ Rank[at[t]] < Rank[k]
      BY <1>1, <1>4 DEF Nested
    <2> QED BY <1>2, <1>3, <1>4, <2>1 DEF Active
  <1>6. \A n \in Node : pc'[<<u, n>>] =
          IF u = t /\ n = TopLevel THEN "none" ELSE pc[<<u, n>>]
    BY <1>2 DEF EndQuery, Goto, Now, TypeOK, Call
  <1>7. \A n \in Node : todo'[<<u, n>>] =
          IF u = t /\ n = TopLevel THEN {} ELSE todo[<<u, n>>]
    BY <1>2 DEF EndQuery, Now, TypeOK, Call
  <1>8. \A n \in Node : \A c \in todo'[<<u, n>>] : Rank[c] < Rank[n]
    BY <1>1, <1>7 DEF Nested
  <1>9. CASE u # t
    <2>1. mode'[u] = mode[u]
      BY <1>9 DEF EndQuery, TypeOK
    <2> QED BY <1>1, <1>2, <1>4, <1>6, <1>8, <1>9, <2>1
            DEF Nested, Active, TypeOK, Call
  <1>10. CASE u = t
    BY <1>2, <1>4, <1>5, <1>6, <1>8, <1>10 DEF Nested, Active, Node
  <1> QED BY <1>9, <1>10

\* A step that changes no call keeps the calls nested.
LEMMA StillNested ==
    ASSUME CallsNested, UNCHANGED <<mode, at, pc, up, todo>>
    PROVE  CallsNested'
  BY DEF CallsNested, Nested, Active

-----------------------------------------------------------------------------
(***************************************************************************)
(* The innermost call and its caller.                                      *)
(***************************************************************************)
\* Only calls for keys look up, compute, wait or announce.
LEMMA InKey ==
    ASSUME TypeOK, CallsNested, NEW t \in Thread,
           pc[Now(t)] \notin {"none", "request", "throwing"}
    PROVE  at[t] \in Key
  <1>1. Nested(t)
    BY DEF CallsNested
  <1> QED BY <1>1 DEF Nested, TypeOK, Node, Now

\* The caller of the innermost call is another call, and is running.
LEMMA CallerRuns ==
    ASSUME TypeOK, CallsNested, NEW t \in Thread, at[t] \in Key
    PROVE  /\ up[Now(t)] \in Node
           /\ up[Now(t)] # at[t]
           /\ pc[<<t, up[Now(t)]>>] \in Running
           /\ up[Now(t)] = TopLevel => pc[<<t, up[Now(t)]>>] = "request"
  <1>1. Nested(t)
    BY DEF CallsNested
  <1>2. up[Now(t)] \in Node /\ at[t] \in Node
    BY DEF TypeOK, Now, Call
  <1>3. Active(t, up[Now(t)]) /\ Rank[at[t]] < Rank[up[Now(t)]]
    BY <1>1 DEF Nested, Now
  <1>4. up[Now(t)] # at[t]
    BY <1>2, <1>3, RankExists
  <1>5. pc[<<t, up[Now(t)]>>] \in Running
    BY <1>1, <1>2, <1>3, <1>4 DEF Nested
  <1>6. up[Now(t)] = TopLevel => pc[<<t, up[Now(t)]>>] = "request"
    BY <1>1, <1>5 DEF Nested, Running
  <1> QED BY <1>2, <1>4, <1>5, <1>6

\* Return ends the innermost call, and its caller goes on where it was.
LEMMA ReturnEnds ==
    ASSUME TypeOK, CallsNested, NEW t \in Thread, at[t] \in Key,
           NEW L, Return(t, L)
    PROVE  Ends(t, pc[<<t, up[Now(t)]>>])
  <1> DEFINE caller == <<t, up[Now(t)]>>
  <1>1. /\ caller \in Call /\ Now(t) \in Call /\ caller # Now(t)
        /\ pc[caller] \in Running
        /\ up[Now(t)] = TopLevel => pc[caller] = "request"
    BY CallerRuns DEF Call, Now, Node
  <1>2. pc[caller] \in PCs \ {"none"}
    BY <1>1 DEF Running, PCs
  <1>3. pc' = [pc EXCEPT ![Now(t)] = "none"]
    BY DEF Return
  <1> HIDE DEF caller
  <1>4. /\ pc' \in [Call -> PCs]
        /\ \A c \in Call : pc'[c] = IF c = caller THEN pc[caller]
                                    ELSE IF c = Now(t) THEN "none" ELSE pc[c]
    BY <1>1, <1>3 DEF TypeOK, PCs
  <1>5. todo' = [todo EXCEPT ![Now(t)] = {}, ![caller] = @ \ {at[t]}]
    BY DEF Return, caller
  <1>6. /\ todo' \in [Call -> SUBSET Key]
        /\ \A c \in Call : todo'[c] \subseteq todo[c]
    BY <1>1, <1>5 DEF TypeOK
  <1>7. /\ at' = [at EXCEPT ![t] = up[Now(t)]]
        /\ up' = [up EXCEPT ![Now(t)] = TopLevel] /\ mode' = mode
    BY DEF Return
  <1> QED BY <1>1, <1>2, <1>4, <1>6, <1>7 DEF Ends, caller

\* Unwind ends the innermost call, and its caller handles the exception.
LEMMA UnwindEnds ==
    ASSUME TypeOK, CallsNested, NEW t \in Thread, Unwind(t)
    PROVE  Ends(t, Handler(pc[<<t, up[Now(t)]>>]))
  <1> DEFINE caller == <<t, up[Now(t)]>>
  <1>0. at[t] \in Key
    BY DEF Unwind, TypeOK, Node
  <1>1. /\ caller \in Call /\ Now(t) \in Call /\ caller # Now(t)
        /\ pc[caller] \in Running
        /\ up[Now(t)] = TopLevel => pc[caller] = "request"
    BY <1>0, CallerRuns DEF Call, Now, Node
  <1>2. Handler(pc[caller]) \in PCs \ {"none"}
    BY DEF Handler, PCs
  <1>3. pc' = [pc EXCEPT ![Now(t)] = "none", ![caller] = Handler(@)]
    BY DEF Unwind
  <1>4. up[Now(t)] = TopLevel => Handler(pc[caller]) = "throwing"
    BY <1>1 DEF Handler
  <1>5. todo' = [todo EXCEPT ![Now(t)] = {}] /\ mode' = mode
    BY DEF Unwind
  <1>6. /\ at' = [at EXCEPT ![t] = up[Now(t)]]
        /\ up' = [up EXCEPT ![Now(t)] = TopLevel]
    BY DEF Unwind
  <1> HIDE DEF caller
  <1>7. /\ pc' \in [Call -> PCs]
        /\ \A c \in Call : pc'[c] = IF c = caller THEN Handler(pc[caller])
                                    ELSE IF c = Now(t) THEN "none" ELSE pc[c]
    BY <1>1, <1>2, <1>3 DEF TypeOK, PCs
  <1>8. /\ todo' \in [Call -> SUBSET Key]
        /\ \A c \in Call : todo'[c] \subseteq todo[c]
    BY <1>1, <1>5 DEF TypeOK
  <1> QED BY <1>0, <1>2, <1>4, <1>5, <1>6, <1>7, <1>8 DEF Ends, caller

\* The labels of the calls for keys after a step of either kind.
Moved(t, label) ==
    \A u \in Thread, k \in Key :
        pc'[<<u, k>>] = IF u = t /\ k = at[t] THEN label ELSE pc[<<u, k>>]

Ended(t, label) ==
    \A u \in Thread, k \in Key :
        pc'[<<u, k>>] = IF u = t /\ k = up[Now(t)] THEN label
                        ELSE IF u = t /\ k = at[t] THEN "none"
                        ELSE pc[<<u, k>>]

\* A step of the innermost call changes the label of that call only.
LEMMA MovesLabels ==
    ASSUME TypeOK, NEW t \in Thread, NEW label \in PCs, Moves(t, label)
    PROVE  Moved(t, label)
  BY DEF Moves, Moved, TypeOK, Call, Node, Now

\* The same for a step that ends the innermost call.
LEMMA EndsLabels ==
    ASSUME TypeOK, NEW t \in Thread, NEW label \in PCs, Ends(t, label)
    PROVE  Ended(t, label)
  <1>1. \A u \in Thread, k \in Key : <<u, k>> \in Call
    BY DEF Call, Node
  <1> QED BY <1>1 DEF Ends, Ended, Now

\* The types of the variables the steps of both kinds change.
StackOK ==
    /\ mode \in [Thread -> {"idle", "plain", "pin", "pinSubtrees"}]
    /\ at \in [Thread -> Node]
    /\ pc \in [Call -> PCs]
    /\ up \in [Call -> Node]
    /\ todo \in [Call -> SUBSET Key]

\* A step of the innermost call keeps the types of the stack.
LEMMA MovesType ==
    ASSUME TypeOK, NEW t \in Thread, NEW label \in PCs, Moves(t, label)
    PROVE  StackOK'
  <1>1. Now(t) \in Call
    BY DEF Now, Call, TypeOK
  <1>2. pc' \in [Call -> PCs]
    BY <1>1 DEF Moves, TypeOK
  <1>3. todo' \in [Call -> SUBSET Key]
    <2>1. CASE todo' = todo
      BY <2>1 DEF TypeOK
    <2>2. CASE todo' # todo
      <3>1. Child[at[t]] \subseteq Key
        BY <2>2, TreeAssumption DEF Moves, TypeOK, Node
      <3> QED BY <1>1, <2>2, <3>1 DEF Moves, TypeOK
    <2> QED BY <2>1, <2>2
  <1> QED BY <1>2, <1>3 DEF StackOK, Moves, TypeOK

\* The end of the innermost call keeps the types of the stack.
LEMMA EndsType ==
    ASSUME TypeOK, NEW t \in Thread, NEW label \in PCs, Ends(t, label)
    PROVE  StackOK'
  <1>1. Now(t) \in Call /\ up[Now(t)] \in Node /\ TopLevel \in Node
    BY DEF Now, Call, TypeOK, Node
  <1> QED BY <1>1 DEF StackOK, Ends, TypeOK

-----------------------------------------------------------------------------
(***************************************************************************)
(* Who owns the entries of _inProgress and who waits for them.             *)
(***************************************************************************)
Busy == Owning \cup Announcing

\* The pair of invariants, which every action preserves together.
Shared == InProgressOwned /\ WaitersHaveOwner

\* A label may be replaced by another one without anybody noticing.
Alike(old, new) ==
    /\ old \in Owning <=> new \in Owning
    /\ old \in Busy => new \in Busy
    /\ new # "waiting"

\* Steps that leave _inProgress and the waiting threads alone.
LEMMA SharedKept ==
    ASSUME Shared, UNCHANGED <<inProgress, waits>>,
           \A u \in Thread, k \in Key :
              pc'[<<u, k>>] = pc[<<u, k>>] \/ Alike(pc[<<u, k>>], pc'[<<u, k>>])
    PROVE  Shared'
  <1>1. InProgressOwned'
    BY DEF Shared, InProgressOwned, Alike
  <1>2. ASSUME NEW w \in Thread, NEW k \in Key,
               pc'[<<w, k>>] = "waiting" /\ waits'[<<w, k>>].status = "pending"
        PROVE  /\ waits'[<<w, k>>].owner \in Thread \ {w}
               /\ pc'[<<waits'[<<w, k>>].owner, k>>] \in Busy
    <2>1. /\ waits[<<w, k>>].owner \in Thread \ {w}
          /\ pc[<<waits[<<w, k>>].owner, k>>] \in Busy
      BY <1>2 DEF Shared, WaitersHaveOwner, Alike, Busy
    <2> QED BY <2>1 DEF Alike
  <1>3. WaitersHaveOwner'
    BY <1>2 DEF WaitersHaveOwner, Busy
  <1> QED BY <1>1, <1>3 DEF Shared

\* A step of the innermost call that owners and waiters do not notice.
LEMMA MovesKept ==
    ASSUME TypeOK, Shared, NEW t \in Thread, NEW label \in PCs, Moves(t, label),
           UNCHANGED <<inProgress, waits>>, Alike(pc[Now(t)], label)
    PROVE  Shared'
  <1>1. Moved(t, label)
    BY MovesLabels
  <1> USE DEF Moved
  <1>2. \A u \in Thread, k \in Key :
          pc'[<<u, k>>] = pc[<<u, k>>] \/ Alike(pc[<<u, k>>], pc'[<<u, k>>])
    BY <1>1 DEF Now
  <1> QED BY <1>2, SharedKept

\* The end of an innermost call that owns nothing and announces nothing.
LEMMA EndsKept ==
    ASSUME TypeOK, CallsNested, Shared, NEW t \in Thread,
           NEW label \in PCs, Ends(t, label),
           UNCHANGED <<inProgress, waits>>,
           pc[Now(t)] \notin Busy,
           \/ label = pc[<<t, up[Now(t)]>>]
           \/ Alike(pc[<<t, up[Now(t)]>>], label)
    PROVE  Shared'
  <1>1. up[Now(t)] # at[t]
    BY CallerRuns DEF Ends
  <1>2. Ended(t, label)
    BY EndsLabels
  <1> USE DEF Ended
  <1>3. Alike(pc[Now(t)], "none")
    BY DEF Alike, Busy, Owning, Announcing
  <1>4. \A u \in Thread, k \in Key :
          pc'[<<u, k>>] = pc[<<u, k>>] \/ Alike(pc[<<u, k>>], pc'[<<u, k>>])
    BY <1>1, <1>2, <1>3 DEF Now
  <1> QED BY <1>4, SharedKept

\* The computing thread removes its entry and has yet to announce the result.
LEMMA EraseKept ==
    ASSUME TypeOK, Shared, NEW t \in Thread, at[t] \in Key,
           NEW label \in Announcing, Moves(t, label),
           pc[Now(t)] \in Owning, Erase(at[t]), UNCHANGED waits
    PROVE  Shared'
  <1>0. label \in PCs
    BY DEF Announcing, PCs
  <1>1. Moved(t, label)
    BY <1>0, MovesLabels
  <1> USE DEF Moved
  <1>2. \A k \in Key : inProgress'[k].owner =
                         IF k = at[t] THEN NoThread ELSE inProgress[k].owner
    BY DEF Erase, TypeOK, NotInProgress
  <1>3. inProgress[at[t]].owner = t
    BY DEF Shared, InProgressOwned, Now
  <1>4. label \notin Owning /\ label # "waiting"
    BY DEF Owning, Announcing
  <1>5. ASSUME NEW u \in Thread, NEW k \in Key
        PROVE  inProgress'[k].owner = u <=> pc'[<<u, k>>] \in Owning
    <2>1. inProgress[k].owner = u <=> pc[<<u, k>>] \in Owning
      BY DEF Shared, InProgressOwned
    <2>2. CASE k # at[t]
      BY <1>1, <1>2, <2>1, <2>2
    <2>3. CASE k = at[t]
      BY <1>1, <1>2, <1>3, <1>4, <2>1, <2>3, ThreadAssumption
    <2> QED BY <2>2, <2>3
  <1>6. WaitersHaveOwner'
    BY <1>1, <1>4 DEF Shared, WaitersHaveOwner
  <1> QED BY <1>5, <1>6 DEF Shared, InProgressOwned

\* The announcement reaches everybody who waits for it.
LEMMA NotifyEffect ==
    ASSUME TypeOK, NEW t \in Thread, NEW status \in {"finished", "empty", "aborted"},
           Notify(t, status), NEW w \in Thread, NEW k \in Key,
           waits'[<<w, k>>].status = "pending"
    PROVE  /\ waits'[<<w, k>>] = waits[<<w, k>>]
           /\ waits[<<w, k>>].owner = t => k # at[t]
  <1>1. <<w, k>> \in Call
    BY DEF Call, Node
  <1>2. waits'[<<w, k>>] =
          IF k = at[t] /\ waits[<<w, k>>] = [owner |-> t, status |-> "pending"]
            THEN [waits[<<w, k>>] EXCEPT !.status = status]
            ELSE waits[<<w, k>>]
    BY <1>1 DEF Notify
  <1>3. waits[<<w, k>>] \in [owner : Thread \cup {NoThread},
                             status : {"none", "pending", "finished", "empty",
                                       "aborted"}]
    BY <1>1 DEF TypeOK
  <1>4. [waits[<<w, k>>] EXCEPT !.status = status].status = status
    BY <1>3
  <1>5. waits'[<<w, k>>] = waits[<<w, k>>]
    BY <1>2, <1>4
  <1>6. waits[<<w, k>>].owner = t => k # at[t]
    <2> SUFFICES ASSUME waits[<<w, k>>].owner = t, k = at[t]
                 PROVE  FALSE
      OBVIOUS
    <2>1. waits[<<w, k>>] = [owner |-> t, status |-> "pending"]
      BY <1>3, <1>5
    <2> QED BY <1>2, <1>4, <2>1
  <1> QED BY <1>5, <1>6

\* A notification keeps the type of the waits.
LEMMA NotifyType ==
    ASSUME TypeOK, NEW t \in Thread, NEW status \in {"finished", "empty", "aborted"},
           Notify(t, status)
    PROVE  waits' \in [Call -> [owner : Thread \cup {NoThread},
                                status : {"none", "pending", "finished",
                                          "empty", "aborted"}]]
  BY DEF Notify, TypeOK

\* An announcement after which the innermost call goes on.
LEMMA AnnounceMoves ==
    ASSUME TypeOK, Shared, NEW t \in Thread, NEW label \in PCs, Moves(t, label),
           label \notin Busy \cup {"waiting"},
           pc[Now(t)] \in Announcing,
           NEW status \in {"finished", "empty", "aborted"}, Notify(t, status),
           UNCHANGED inProgress
    PROVE  Shared'
  <1>1. Moved(t, label)
    BY MovesLabels
  <1> USE DEF Moved
  <1>2. pc[Now(t)] \notin Owning /\ label \notin Owning
    BY DEF Owning, Announcing, Busy
  <1>3. ASSUME NEW u \in Thread, NEW k \in Key
        PROVE  inProgress'[k].owner = u <=> pc'[<<u, k>>] \in Owning
    <2>1. inProgress[k].owner = u <=> pc[<<u, k>>] \in Owning
      BY DEF Shared, InProgressOwned
    <2> QED BY <1>1, <1>2, <2>1 DEF Now
  <1>4. WaitersHaveOwner'
    BY <1>1, NotifyEffect DEF Shared, WaitersHaveOwner
  <1> QED BY <1>3, <1>4 DEF Shared, InProgressOwned

\* An announcement with which the innermost call ends.
LEMMA AnnounceEnds ==
    ASSUME TypeOK, CallsNested, Shared, NEW t \in Thread,
           NEW label \in PCs, Ends(t, label), label = pc[<<t, up[Now(t)]>>],
           pc[Now(t)] \in Announcing,
           NEW status \in {"finished", "empty", "aborted"}, Notify(t, status),
           UNCHANGED inProgress
    PROVE  Shared'
  <1>1. up[Now(t)] # at[t]
    BY CallerRuns DEF Ends
  <1>2. \A u \in Thread, k \in Key :
          pc'[<<u, k>>] = IF u = t /\ k = up[Now(t)] THEN label
                          ELSE IF u = t /\ k = at[t] THEN "none"
                          ELSE pc[<<u, k>>]
    <2>1. \A u \in Thread, k \in Key : <<u, k>> \in Call
      BY DEF Call, Node
    <2> QED BY <2>1 DEF Ends, Now
  <1>3. \A u \in Thread, k \in Key :
          pc'[<<u, k>>] = IF u = t /\ k = at[t] THEN "none" ELSE pc[<<u, k>>]
    BY <1>1, <1>2
  <1>4. pc[Now(t)] \notin Owning /\ "none" \notin Owning
    BY DEF Owning, Announcing
  <1>5. ASSUME NEW u \in Thread, NEW k \in Key
        PROVE  inProgress'[k].owner = u <=> pc'[<<u, k>>] \in Owning
    <2>1. inProgress[k].owner = u <=> pc[<<u, k>>] \in Owning
      BY DEF Shared, InProgressOwned
    <2> QED BY <1>3, <1>4, <2>1 DEF Now
  <1>6. WaitersHaveOwner'
    BY <1>3, NotifyEffect DEF Shared, WaitersHaveOwner
  <1> QED BY <1>5, <1>6 DEF Shared, InProgressOwned

\* A waiting thread wakes up, and waits no longer.
LEMMA WakeKept ==
    ASSUME TypeOK, Shared, NEW t \in Thread, UNCHANGED inProgress,
           waits' = [waits EXCEPT ![Now(t)] = NoWait],
           pc[Now(t)] = "waiting",
           \A u \in Thread, k \in Key :
              \/ pc'[<<u, k>>] = pc[<<u, k>>]
              \/ u = t /\ k = at[t] /\ pc'[<<u, k>>] \notin Busy
    PROVE  Shared'
  <1>1. pc[Now(t)] \notin Busy
    BY DEF Busy, Owning, Announcing
  <1>2. \A u \in Thread, k \in Key : pc[<<u, k>>] \in Busy =>
                                       pc'[<<u, k>>] = pc[<<u, k>>]
    BY <1>1 DEF Now
  <1>3. ASSUME NEW u \in Thread, NEW k \in Key
        PROVE  inProgress'[k].owner = u <=> pc'[<<u, k>>] \in Owning
    <2>1. inProgress[k].owner = u <=> pc[<<u, k>>] \in Owning
      BY DEF Shared, InProgressOwned
    <2> QED BY <1>1, <2>1 DEF Now, Busy
  <1>4. ASSUME NEW w \in Thread, NEW k \in Key,
               pc'[<<w, k>>] = "waiting", waits'[<<w, k>>].status = "pending"
        PROVE  /\ waits'[<<w, k>>].owner \in Thread \ {w}
               /\ pc'[<<waits'[<<w, k>>].owner, k>>] \in Busy
    <2>1. <<w, k>> \in Call
      BY DEF Call, Node
    <2>2. waits'[<<w, k>>] = IF <<w, k>> = Now(t) THEN NoWait ELSE waits[<<w, k>>]
      BY <2>1 DEF TypeOK
    <2>3. waits'[<<w, k>>] = waits[<<w, k>>] /\ <<w, k>> # Now(t)
      BY <1>4, <2>2 DEF NoWait
    <2>4. pc[<<w, k>>] = "waiting"
      BY <1>4, <2>3 DEF Now
    <2>5. /\ waits[<<w, k>>].owner \in Thread \ {w}
          /\ pc[<<waits[<<w, k>>].owner, k>>] \in Busy
      BY <1>4, <2>3, <2>4 DEF Shared, WaitersHaveOwner, Busy
    <2> QED BY <1>2, <2>3, <2>5
  <1>5. WaitersHaveOwner'
    BY <1>4 DEF WaitersHaveOwner, Busy
  <1> QED BY <1>3, <1>5 DEF Shared, InProgressOwned

\* A thread finds somebody who computes the result, and starts to wait.
LEMMA JoinKept ==
    ASSUME TypeOK, CallsNested, Shared, NEW t \in Thread,
           pc[Now(t)] = "lookup", Join(t), Moves(t, "waiting")
    PROVE  Shared'
  <1>1. at[t] \in Key
    BY InKey
  <1>2. \A u \in Thread, k \in Key : pc'[<<u, k>>] =
          IF u = t /\ k = at[t] THEN "waiting" ELSE pc[<<u, k>>]
    <2>1. "waiting" \in PCs
      BY DEF PCs
    <2> QED BY <2>1, MovesLabels DEF Moved
  <1>3. \A k \in Key : inProgress'[k].owner = inProgress[k].owner
    BY DEF Join, TypeOK
  <1>4. "lookup" \notin Busy /\ "waiting" \notin Busy
    BY DEF Busy, Owning, Announcing
  <1>5. ASSUME NEW u \in Thread, NEW k \in Key
        PROVE  inProgress'[k].owner = u <=> pc'[<<u, k>>] \in Owning
    <2>1. inProgress[k].owner = u <=> pc[<<u, k>>] \in Owning
      BY DEF Shared, InProgressOwned
    <2> QED BY <1>2, <1>3, <1>4, <2>1 DEF Now, Busy
  <1>6. \A u \in Thread, k \in Key : pc[<<u, k>>] \in Busy =>
                                       pc'[<<u, k>>] = pc[<<u, k>>]
    BY <1>2, <1>4 DEF Now
  <1>7. ASSUME NEW w \in Thread, NEW k \in Key,
               pc'[<<w, k>>] = "waiting", waits'[<<w, k>>].status = "pending"
        PROVE  /\ waits'[<<w, k>>].owner \in Thread \ {w}
               /\ pc'[<<waits'[<<w, k>>].owner, k>>] \in Busy
    <2>1. <<w, k>> \in Call
      BY DEF Call, Node
    <2>2. waits'[<<w, k>>] =
            IF <<w, k>> = Now(t)
              THEN [owner |-> inProgress[at[t]].owner, status |-> "pending"]
              ELSE waits[<<w, k>>]
      BY <2>1 DEF Join, TypeOK
    <2>3. CASE <<w, k>> = Now(t)
      <3>1. w = t /\ k = at[t]
        BY <2>3 DEF Now
      <3>2. waits'[<<w, k>>].owner = inProgress[at[t]].owner
        BY <2>2, <2>3
      <3>3. inProgress[at[t]].owner \in Thread
        BY <1>1 DEF Join, TypeOK
      <3>4. pc[<<inProgress[at[t]].owner, at[t]>>] \in Owning
        BY <1>1, <3>3 DEF Shared, InProgressOwned
      <3>5. inProgress[at[t]].owner # t
        BY <1>4, <3>4 DEF Now, Busy
      <3> QED BY <1>1, <1>6, <3>1, <3>2, <3>3, <3>4, <3>5 DEF Busy
    <2>4. CASE <<w, k>> # Now(t)
      <3>1. pc[<<w, k>>] = "waiting"
        BY <1>2, <1>7, <2>4 DEF Now
      <3>2. /\ waits[<<w, k>>].owner \in Thread \ {w}
            /\ pc[<<waits[<<w, k>>].owner, k>>] \in Busy
        BY <1>7, <2>2, <2>4, <3>1 DEF Shared, WaitersHaveOwner, Busy
      <3> QED BY <1>6, <2>2, <2>4, <3>2
    <2> QED BY <2>3, <2>4
  <1>8. WaitersHaveOwner'
    BY <1>7 DEF WaitersHaveOwner, Busy
  <1> QED BY <1>5, <1>8 DEF Shared, InProgressOwned

\* A thread finds nobody who computes the result, and becomes its owner.
LEMMA OwnKept ==
    ASSUME TypeOK, CallsNested, Shared, NEW t \in Thread,
           pc[Now(t)] = "lookup", Own(t), Moves(t, "computing")
    PROVE  Shared'
  <1>1. at[t] \in Key
    BY InKey
  <1>2. \A u \in Thread, k \in Key : pc'[<<u, k>>] =
          IF u = t /\ k = at[t] THEN "computing" ELSE pc[<<u, k>>]
    <2>1. "computing" \in PCs
      BY DEF PCs
    <2> QED BY <2>1, MovesLabels DEF Moved
  <1>3. \A k \in Key : inProgress'[k].owner =
                         IF k = at[t] THEN t ELSE inProgress[k].owner
    BY DEF Own, TypeOK
  <1>4. "computing" \in Owning
    BY DEF Owning
  <1>5. ASSUME NEW u \in Thread, NEW k \in Key
        PROVE  inProgress'[k].owner = u <=> pc'[<<u, k>>] \in Owning
    <2>1. inProgress[k].owner = u <=> pc[<<u, k>>] \in Owning
      BY DEF Shared, InProgressOwned
    <2>2. inProgress[at[t]].owner = NoThread
      BY DEF Own
    <2> QED BY <1>2, <1>3, <1>4, <2>1, <2>2, ThreadAssumption
  <1>6. WaitersHaveOwner'
    BY <1>2, <1>4 DEF Shared, WaitersHaveOwner, Own
  <1> QED BY <1>5, <1>6 DEF Shared, InProgressOwned

-----------------------------------------------------------------------------
(***************************************************************************)
(* Every step preserves the inductive invariant.                           *)
(***************************************************************************)
WaitType ==
    [owner : Thread \cup {NoThread},
     status : {"none", "pending", "finished", "empty", "aborted"}]

\* The types of the variables besides those in StackOK.
RestOK ==
    /\ inProgress \in [Key -> [owner : Thread \cup {NoThread}, pin : BOOLEAN]]
    /\ lazy \in [Call -> SUBSET Key]
    /\ waits \in [Call -> WaitType]
    /\ exc \in [Thread -> {"none", "compute", "cache", "waited"}]

\* The inductive invariant in the parts in which it is proved.
LEMMA IInvParts == IInv <=> StackOK /\ RestOK /\ CallsNested /\ Shared
  BY DEF IInv, TypeOK, StackOK, RestOK, WaitType, Shared

\* The same for the state after a step.
LEMMA IInvPartsPrime == IInv' <=> StackOK' /\ RestOK' /\ CallsNested' /\ Shared'
  BY DEF IInv, TypeOK, StackOK, RestOK, WaitType, Shared

\* The parts of the inductive invariant that the lemmas use.
LEMMA IInvUse == IInv => TypeOK /\ CallsNested /\ Shared
  BY DEF IInv, Shared

\* Steps of the innermost call.
LEMMA MoveStep ==
    ASSUME IInv, NEW t \in Thread, NEW label \in PCs, Moves(t, label),
           RestOK', Shared'
    PROVE  IInv'
  <1>1. StackOK'
    BY IInvUse, MovesType
  <1>2. CallsNested'
    BY IInvUse, MovesNested
  <1> QED BY <1>1, <1>2, IInvPartsPrime

\* A step of the innermost call that only changes its label.
LEMMA PlainMove ==
    ASSUME IInv, NEW t \in Thread, NEW label \in PCs, Moves(t, label),
           RestOK', UNCHANGED <<inProgress, waits>>, Alike(pc[Now(t)], label)
    PROVE  IInv'
  <1>1. Shared'
    BY IInvUse, MovesKept
  <1> QED BY <1>1, MoveStep

\* A step of the owner that removes its entry from _inProgress.
LEMMA EraseMove ==
    ASSUME IInv, NEW t \in Thread, at[t] \in Key, NEW label \in Announcing,
           Moves(t, label), RestOK',
           pc[Now(t)] \in Owning, Erase(at[t]), UNCHANGED waits
    PROVE  IInv'
  <1>1. Shared'
    BY IInvUse, EraseKept
  <1>2. label \in PCs
    BY DEF Announcing, PCs
  <1> QED BY <1>1, <1>2, MoveStep

\* An exception in the innermost call.
LEMMA RaiseMoves ==
    ASSUME IInv, NEW t \in Thread, NEW cause,
           pc[Now(t)] \in Running \cup {"store", "insert"}, Raise(t, cause)
    PROVE  /\ Handler(pc[Now(t)]) \in PCs \cap {"failing", "throwing"}
           /\ Moves(t, Handler(pc[Now(t)]))
  <1> DEFINE label == Handler(pc[Now(t)])
  <1>1. label \in PCs \cap {"failing", "throwing"}
    BY DEF Handler, PCs
  <1>2. at[t] = TopLevel => label = "throwing"
    <2> SUFFICES ASSUME at[t] = TopLevel
                 PROVE  label = "throwing"
      OBVIOUS
    <2>1. pc[Now(t)] \in {"none", "request", "throwing"}
      BY IInvUse DEF CallsNested, Nested, Now
    <2> QED BY <2>1 DEF Handler
  <1>3. Active(t, at[t])
    BY DEF Active, Running, Now
  <1>4. Moves(t, label)
    BY <1>1, <1>2, <1>3 DEF Moves, Raise, Goto
  <1> QED BY <1>1, <1>4

\* An exception preserves the inductive invariant.
LEMMA RaiseStep ==
    ASSUME IInv, NEW t \in Thread, NEW cause \in {"compute", "cache"},
           pc[Now(t)] \in Running \cup {"store", "insert"},
           Raise(t, cause), UNCHANGED inProgress
    PROVE  IInv'
  <1> DEFINE label == Handler(pc[Now(t)])
  <1>1. label \in PCs /\ Moves(t, label)
    BY RaiseMoves
  <1>2. Alike(pc[Now(t)], label)
    BY DEF Alike, Handler, Busy, Owning, Announcing, Running
  <1>3. RestOK'
    BY IInvUse DEF RestOK, WaitType, TypeOK, Raise
  <1>4. waits' = waits
    BY DEF Raise
  <1> HIDE DEF label
  <1> QED BY <1>1, <1>2, <1>3, <1>4, PlainMove

\* Steps in which the innermost call returns.
LEMMA ReturnRest ==
    ASSUME TypeOK, NEW t \in Thread, at[t] \in Key, NEW L \in SUBSET Key,
           Return(t, L)
    PROVE  lazy' \in [Call -> SUBSET Key] /\ exc' = exc
  BY DEF TypeOK, Return

\* A return that announces nothing preserves the inductive invariant.
LEMMA ReturnStep ==
    ASSUME IInv, NEW t \in Thread, at[t] \in Key, NEW L \in SUBSET Key,
           Return(t, L), pc[Now(t)] \notin Busy,
           UNCHANGED <<inProgress, waits>>
    PROVE  IInv'
  <1> DEFINE label == pc[<<t, up[Now(t)]>>]
  <1>1. TypeOK /\ CallsNested /\ Shared
    BY IInvUse
  <1>2. Ends(t, label)
    BY <1>1, ReturnEnds
  <1>3. label \in PCs
    BY <1>1, <1>2 DEF Ends
  <1>4. RestOK'
    BY <1>1, ReturnRest DEF RestOK, WaitType, TypeOK
  <1>5. label = pc[<<t, up[Now(t)]>>]
    OBVIOUS
  <1> HIDE DEF label
  <1>6. StackOK' /\ CallsNested'
    BY <1>1, <1>2, <1>3, EndsType, EndsPreserveNested
  <1>7. Shared'
    BY <1>1, <1>2, <1>3, <1>5, EndsKept
  <1> QED BY <1>4, <1>6, <1>7, IInvPartsPrime

\* A return with an announcement preserves the inductive invariant.
LEMMA AnnounceStep ==
    ASSUME IInv, NEW t \in Thread, at[t] \in Key, NEW L \in SUBSET Key,
           Return(t, L), pc[Now(t)] \in Announcing,
           NEW status \in {"finished", "empty", "aborted"}, Notify(t, status),
           UNCHANGED inProgress
    PROVE  IInv'
  <1> DEFINE label == pc[<<t, up[Now(t)]>>]
  <1>1. TypeOK /\ CallsNested /\ Shared
    BY IInvUse
  <1>2. Ends(t, label)
    BY <1>1, ReturnEnds
  <1>3. label \in PCs
    BY <1>1, <1>2 DEF Ends
  <1>4. RestOK'
    BY <1>1, ReturnRest, NotifyType DEF RestOK, WaitType, TypeOK
  <1>5. label = pc[<<t, up[Now(t)]>>]
    OBVIOUS
  <1> HIDE DEF label
  <1>6. StackOK' /\ CallsNested'
    BY <1>1, <1>2, <1>3, EndsType, EndsPreserveNested
  <1>7. Shared'
    BY <1>1, <1>2, <1>3, <1>5, AnnounceEnds
  <1> QED BY <1>4, <1>6, <1>7, IInvPartsPrime

-----------------------------------------------------------------------------
\* BeginQuery preserves the inductive invariant.
LEMMA BeginStep ==
    ASSUME IInv, NEW t \in Thread, BeginQuery(t)
    PROVE  IInv'
  <1>1. TypeOK /\ CallsNested /\ Shared
    BY IInvUse
  <1>2. at[t] = TopLevel
    BY <1>1 DEF CallsNested, Nested, BeginQuery, TypeOK, Node
  <1>3. Now(t) \in Call
    BY <1>1 DEF Now, Call, TypeOK
  <1>4. StackOK'
    BY <1>1, <1>3, ThreadAssumption DEF StackOK, TypeOK, BeginQuery, Goto, PCs
  <1>5. RestOK'
    BY <1>1 DEF RestOK, WaitType, TypeOK, BeginQuery
  <1>6. \A u \in Thread, k \in Key : pc'[<<u, k>>] = pc[<<u, k>>]
    BY <1>1, <1>2, ThreadAssumption DEF BeginQuery, Goto, Now, TypeOK, Call, Node
  <1>7. UNCHANGED <<inProgress, waits>>
    BY DEF BeginQuery
  <1>8. Shared'
    BY <1>1, <1>6, <1>7, SharedKept
  <1> QED BY <1>1, <1>4, <1>5, <1>8, BeginNested, IInvPartsPrime

\* EndQuery preserves the inductive invariant.
LEMMA EndStep ==
    ASSUME IInv, NEW t \in Thread, EndQuery(t)
    PROVE  IInv'
  <1>1. TypeOK /\ CallsNested /\ Shared
    BY IInvUse
  <1>2. at[t] = TopLevel
    BY DEF EndQuery
  <1>3. Now(t) \in Call
    BY <1>1 DEF Now, Call, TypeOK
  <1>4. StackOK'
    BY <1>1, <1>3 DEF StackOK, TypeOK, EndQuery, Goto, PCs
  <1>5. RestOK'
    BY <1>1, <1>3 DEF RestOK, WaitType, TypeOK, EndQuery
  <1>6. \A u \in Thread, k \in Key : pc'[<<u, k>>] = pc[<<u, k>>]
    BY <1>1, <1>2, ThreadAssumption DEF EndQuery, Goto, Now, TypeOK, Call, Node
  <1>7. UNCHANGED <<inProgress, waits>>
    BY DEF EndQuery
  <1>8. Shared'
    BY <1>1, <1>6, <1>7, SharedKept
  <1> QED BY <1>1, <1>4, <1>5, <1>8, EndQueryNested, IInvPartsPrime

\* CallChild preserves the inductive invariant.
LEMMA CallStep ==
    ASSUME IInv, NEW t \in Thread, CallChild(t)
    PROVE  IInv'
  <1>1. TypeOK /\ CallsNested /\ Shared
    BY IInvUse
  <1>2. Calls(t)
    BY DEF Calls, CallChild
  <1>3. PICK k \in todo[Now(t)] :
          /\ at' = [at EXCEPT ![t] = k]
          /\ pc' = [pc EXCEPT ![<<t, k>>] = "lookup"]
          /\ up' = [up EXCEPT ![<<t, k>>] = at[t]]
    BY DEF CallChild
  <1>4. k \in Key /\ k \in Node /\ at[t] \in Node /\ <<t, k>> \in Call
    BY <1>1 DEF TypeOK, Now, Call, Node
  <1>5. StackOK'
    BY <1>1, <1>3, <1>4 DEF StackOK, TypeOK, CallChild, PCs
  <1>6. RestOK'
    BY <1>1 DEF RestOK, WaitType, TypeOK, CallChild
  <1>7. pc[<<t, k>>] = "none"
    <2>1. Nested(t)
      BY <1>1 DEF CallsNested
    <2>2. Rank[k] < Rank[at[t]]
      BY <1>4, <2>1 DEF Nested, Now
    <2> QED BY <1>4, <2>1, <2>2, RankExists DEF Nested, Active
  <1>8. Alike("none", "lookup")
    BY DEF Alike, Busy, Owning, Announcing
  <1>9. \A u \in Thread, j \in Key :
          pc'[<<u, j>>] = IF u = t /\ j = k THEN "lookup" ELSE pc[<<u, j>>]
    BY <1>1, <1>3, <1>4 DEF TypeOK, Call, Node
  <1>10. \A u \in Thread, j \in Key :
          pc'[<<u, j>>] = pc[<<u, j>>] \/ Alike(pc[<<u, j>>], pc'[<<u, j>>])
    BY <1>7, <1>8, <1>9
  <1>11. UNCHANGED <<inProgress, waits>>
    BY DEF CallChild
  <1>12. Shared'
    BY <1>1, <1>10, <1>11, SharedKept
  <1> QED BY <1>1, <1>2, <1>5, <1>6, <1>12, CallsPreserveNested, IInvPartsPrime

\* Steps that leave the stacks, _inProgress and the waiting threads alone.
LEMMA StillStep ==
    ASSUME IInv, UNCHANGED <<inProgress, mode, at, pc, up, todo, waits, exc>>,
           lazy' \in [Call -> SUBSET Key]
    PROVE  IInv'
  <1>1. CallsNested'
    BY IInvUse, StillNested
  <1>2. StackOK' /\ RestOK'
    BY IInvParts DEF StackOK, RestOK
  <1>3. Shared'
    BY IInvUse, SharedKept
  <1> QED BY <1>1, <1>2, <1>3, IInvPartsPrime

\* Consume preserves the inductive invariant.
LEMMA ConsumeStep ==
    ASSUME IInv, NEW t \in Thread, Consume(t)
    PROVE  IInv'
  <1>1. TypeOK /\ Now(t) \in Call
    BY IInvUse DEF TypeOK, Now, Call
  <1>2. PICK k \in lazy[Now(t)] :
          \/ /\ lazy' = [lazy EXCEPT ![Now(t)] = @ \ ({k} \cup Child[k])]
             /\ UNCHANGED <<mode, at, pc, up, todo, waits, exc>>
          \/ Raise(t, "cache")
    BY DEF Consume
  <1>3. CASE Raise(t, "cache")
    BY <1>3, RaiseStep DEF Consume
  <1>4. CASE /\ lazy' = [lazy EXCEPT ![Now(t)] = @ \ ({k} \cup Child[k])]
             /\ UNCHANGED <<mode, at, pc, up, todo, waits, exc>>
    <2>1. lazy' \in [Call -> SUBSET Key]
      BY <1>1, <1>4 DEF TypeOK
    <2> QED BY <1>4, <2>1, StillStep DEF Consume
  <1> QED BY <1>2, <1>3, <1>4

\* Fail preserves the inductive invariant.
LEMMA FailStep ==
    ASSUME IInv, NEW t \in Thread, Fail(t)
    PROVE  IInv'
  BY RaiseStep DEF Fail

\* A call for a key goes on at a label.
LEMMA GotoMoves ==
    ASSUME IInv, NEW t \in Thread, NEW label \in PCs,
           pc[Now(t)] \notin {"none", "request", "throwing"},
           Goto(t, label), label # "none", UNCHANGED <<mode, at, up>>,
           \/ todo' = todo
           \/ todo' = [todo EXCEPT ![Now(t)] = Child[at[t]]]
    PROVE  at[t] \in Key /\ Moves(t, label)
  <1>1. at[t] \in Key
    BY IInvUse, InKey
  <1>2. at[t] # TopLevel
    BY <1>1, ThreadAssumption
  <1> QED BY <1>1, <1>2 DEF Moves, Goto, Active, Now

\* A call for a key goes on and nobody notices.
LEMMA PlainGoto ==
    ASSUME IInv, NEW t \in Thread, NEW label \in PCs,
           pc[Now(t)] \notin {"none", "request", "throwing"},
           Goto(t, label), label # "none", Alike(pc[Now(t)], label),
           UNCHANGED <<inProgress, mode, at, up, lazy, waits, exc>>,
           \/ todo' = todo
           \/ todo' = [todo EXCEPT ![Now(t)] = Child[at[t]]]
    PROVE  IInv'
  <1>1. Moves(t, label)
    BY GotoMoves
  <1>2. RestOK'
    BY IInvParts DEF RestOK
  <1> QED BY <1>1, <1>2, PlainMove

\* The owner of a key removes its entry and goes on to announce.
LEMMA EraseGoto ==
    ASSUME IInv, NEW t \in Thread, NEW label \in Announcing,
           pc[Now(t)] \in Owning, Goto(t, label), Erase(at[t]),
           UNCHANGED <<mode, at, up, todo, lazy, waits, exc>>
    PROVE  IInv'
  <1>1. label \in PCs /\ label # "none"
    BY DEF Announcing, PCs
  <1>2. pc[Now(t)] \notin {"none", "request", "throwing"}
    BY DEF Owning
  <1>3. at[t] \in Key /\ Moves(t, label)
    BY <1>1, <1>2, GotoMoves
  <1>4. inProgress' \in [Key -> [owner : Thread \cup {NoThread}, pin : BOOLEAN]]
    BY <1>3, IInvParts DEF RestOK, Erase, NotInProgress
  <1>5. RestOK'
    BY <1>4, IInvParts DEF RestOK
  <1> QED BY <1>3, <1>5, EraseMove

\* ReturnMaterialized preserves the inductive invariant.
LEMMA MaterializedStep ==
    ASSUME IInv, NEW t \in Thread, ReturnMaterialized(t)
    PROVE  IInv'
  <1>1. CASE pc[Now(t)] = "computing" /\ Goto(t, "store")
    <2>1. Alike("computing", "store") /\ "store" \in PCs
      BY DEF Alike, Busy, Owning, Announcing, PCs
    <2> QED BY <1>1, <2>1, PlainGoto DEF ReturnMaterialized
  <1>2. CASE pc[Now(t)] = "fallback" /\ Goto(t, "insert")
    <2>1. Alike("fallback", "insert") /\ "insert" \in PCs
      BY DEF Alike, Busy, Owning, Announcing, PCs
    <2> QED BY <1>2, <2>1, PlainGoto DEF ReturnMaterialized
  <1>3. CASE pc[Now(t)] = "uncached" /\ Return(t, {})
    <2>1. at[t] \in Key
      BY <1>3, IInvUse, InKey
    <2>2. "uncached" \notin Busy
      BY DEF Busy, Owning, Announcing
    <2> QED BY <1>3, <2>1, <2>2, ReturnStep DEF ReturnMaterialized
  <1> QED BY <1>1, <1>2, <1>3 DEF ReturnMaterialized

\* ReturnLazy preserves the inductive invariant.
LEMMA LazyStep ==
    ASSUME IInv, NEW t \in Thread, ReturnLazy(t)
    PROVE  IInv'
  <1>1. CASE pc[Now(t)] = "computing" /\ Goto(t, "discard")
    <2>1. Alike("computing", "discard") /\ "discard" \in PCs
      BY DEF Alike, Busy, Owning, Announcing, PCs
    <2> QED BY <1>1, <2>1, PlainGoto DEF ReturnLazy
  <1>2. CASE /\ pc[Now(t)] \in {"fallback", "uncached"}
             /\ \/ Return(t, lazy[Now(t)] \cup {at[t]})
                \/ Return(t, lazy[Now(t)])
    <2>1. at[t] \in Key
      BY <1>2, IInvUse, InKey
    <2>2. lazy[Now(t)] \in SUBSET Key /\ lazy[Now(t)] \cup {at[t]} \in SUBSET Key
      BY <2>1, IInvUse DEF TypeOK, Now, Call, Node
    <2>3. pc[Now(t)] \notin Busy
      BY <1>2 DEF Busy, Owning, Announcing
    <2> QED BY <1>2, <2>1, <2>2, <2>3, ReturnStep DEF ReturnLazy
  <1> QED BY <1>1, <1>2 DEF ReturnLazy

\* The first critical section preserves the inductive invariant.
LEMMA LookupStep ==
    ASSUME IInv, NEW t \in Thread, Lookup(t)
    PROVE  IInv'
  <1>1. pc[Now(t)] = "lookup"
    BY DEF Lookup
  <1>2. at[t] \in Key /\ TypeOK /\ CallsNested /\ Shared
    BY <1>1, IInvUse, InKey
  <1>3. "lookup" \notin Busy
    BY DEF Busy, Owning, Announcing
  <1>4. CASE Hit(t)
    BY <1>1, <1>2, <1>3, <1>4, ReturnStep DEF Hit
  <1>5. CASE Join(t)
    <2>1. "waiting" \in PCs
      BY DEF PCs
    <2>2. Moves(t, "waiting")
      BY <1>1, <1>5, <2>1, GotoMoves DEF Join
    <2>3. Shared'
      BY <1>1, <1>2, <1>5, <2>2, JoinKept
    <2>4. inProgress[at[t]].owner \in Thread \cup {NoThread}
      BY <1>2 DEF TypeOK
    <2>5. [owner |-> inProgress[at[t]].owner, status |-> "pending"] \in WaitType
      BY <2>4 DEF WaitType
    <2>6. waits' \in [Call -> WaitType]
      BY <1>2, <1>5, <2>5 DEF Join, TypeOK, WaitType
    <2>7. inProgress' \in [Key -> [owner : Thread \cup {NoThread}, pin : BOOLEAN]]
      <3> DEFINE q == inProgress[at[t]].pin \/ Pinned(t, at[t])
      <3>1. q \in BOOLEAN
        OBVIOUS
      <3>2. inProgress' = [inProgress EXCEPT ![at[t]].pin = q]
        BY <1>5 DEF Join
      <3> HIDE DEF q
      <3> QED BY <1>2, <3>1, <3>2 DEF TypeOK
    <2>8. RestOK'
      BY <1>5, <2>6, <2>7, IInvParts DEF RestOK, Join
    <2> QED BY <2>1, <2>2, <2>3, <2>8, MoveStep
  <1>6. CASE Own(t)
    <2>1. "computing" \in PCs
      BY DEF PCs
    <2>2. Moves(t, "computing")
      BY <1>1, <1>6, <2>1, GotoMoves DEF Own
    <2>3. Shared'
      BY <1>1, <1>2, <1>6, <2>2, OwnKept
    <2>4. inProgress' \in [Key -> [owner : Thread \cup {NoThread}, pin : BOOLEAN]]
      BY <1>2, <1>6 DEF Own, TypeOK, Pinned
    <2>5. RestOK'
      BY <1>6, <2>4, IInvParts DEF RestOK, Own
    <2> QED BY <2>1, <2>2, <2>3, <2>5, MoveStep
  <1>7. CASE DontStore(t)
    <2>1. Alike("lookup", "uncached") /\ "uncached" \in PCs
      BY DEF Alike, Busy, Owning, Announcing, PCs
    <2> QED BY <1>1, <1>7, <2>1, PlainGoto DEF DontStore
  <1> QED BY <1>4, <1>5, <1>6, <1>7 DEF Lookup

\* Store preserves the inductive invariant.
LEMMA StoreStep ==
    ASSUME IInv, NEW t \in Thread, Store(t)
    PROVE  IInv'
  <1>1. pc[Now(t)] = "store" /\ "store" \in Owning
    BY DEF Store, Owning
  <1>2. CASE Raise(t, "cache") /\ UNCHANGED inProgress
    BY <1>1, <1>2, RaiseStep
  <1>3. CASE /\ Goto(t, "finish") /\ Erase(at[t])
             /\ UNCHANGED <<mode, at, up, todo, lazy, waits, exc>>
    <2>1. "finish" \in Announcing
      BY DEF Announcing
    <2> QED BY <1>1, <1>3, <2>1, EraseGoto
  <1> QED BY <1>2, <1>3 DEF Store

\* Finish and FinishEmpty preserve the inductive invariant.
LEMMA FinishStep ==
    ASSUME IInv, NEW t \in Thread, Finish(t) \/ FinishEmpty(t)
    PROVE  IInv'
  <1>1. pc[Now(t)] \in {"finish", "finishEmpty"} /\ pc[Now(t)] \in Announcing
    BY DEF Finish, FinishEmpty, Announcing
  <1>2. at[t] \in Key
    BY <1>1, IInvUse, InKey
  <1>3. lazy[Now(t)] \cup {at[t]} \in SUBSET Key /\ {} \in SUBSET Key
    BY <1>2, IInvUse DEF TypeOK, Now, Call, Node
  <1>4. CASE Finish(t)
    BY <1>1, <1>2, <1>3, <1>4, AnnounceStep DEF Finish
  <1>5. CASE FinishEmpty(t)
    BY <1>1, <1>2, <1>3, <1>5, AnnounceStep DEF FinishEmpty
  <1> QED BY <1>4, <1>5

\* Discard preserves the inductive invariant.
LEMMA DiscardStep ==
    ASSUME IInv, NEW t \in Thread, Discard(t)
    PROVE  IInv'
  <1>1. pc[Now(t)] \in Owning /\ "finishEmpty" \in Announcing
    BY DEF Discard, Owning, Announcing
  <1> QED BY <1>1, EraseGoto DEF Discard

\* Failing preserves the inductive invariant.
LEMMA FailingStep ==
    ASSUME IInv, NEW t \in Thread, Failing(t)
    PROVE  IInv'
  <1>1. pc[Now(t)] \in Owning /\ "abort" \in Announcing
    BY DEF Failing, Owning, Announcing
  <1> QED BY <1>1, EraseGoto DEF Failing

\* Abort preserves the inductive invariant.
LEMMA AbortStep ==
    ASSUME IInv, NEW t \in Thread, Abort(t)
    PROVE  IInv'
  <1>1. /\ pc[Now(t)] = "abort" /\ pc[Now(t)] \in Announcing
        /\ "throwing" \in PCs /\ "throwing" \notin Busy \cup {"waiting"}
    BY DEF Abort, Busy, Owning, Announcing, PCs
  <1>2. Moves(t, "throwing")
    BY <1>1, GotoMoves DEF Abort
  <1>3. Shared'
    BY <1>1, <1>2, IInvUse, AnnounceMoves DEF Abort
  <1>4. RestOK'
    BY IInvUse, IInvParts, NotifyType DEF Abort, RestOK, WaitType
  <1> QED BY <1>1, <1>2, <1>3, <1>4, MoveStep

\* Unwind preserves the inductive invariant.
LEMMA UnwindStep ==
    ASSUME IInv, NEW t \in Thread, Unwind(t)
    PROVE  IInv'
  <1> DEFINE label == Handler(pc[<<t, up[Now(t)]>>])
  <1>1. TypeOK /\ CallsNested /\ Shared
    BY IInvUse
  <1>2. Ends(t, label)
    BY <1>1, UnwindEnds
  <1>3. label \in PCs
    BY <1>2 DEF Ends
  <1>4. at[t] \in Key /\ pc[Now(t)] = "throwing"
    BY <1>1 DEF Unwind, TypeOK, Node
  <1>5. pc[<<t, up[Now(t)]>>] \in Running
    BY <1>1, <1>4, CallerRuns
  <1>6. Alike(pc[<<t, up[Now(t)]>>], label)
    BY <1>5 DEF Alike, Handler, Busy, Owning, Announcing, Running
  <1>7. pc[Now(t)] \notin Busy
    BY <1>4 DEF Busy, Owning, Announcing
  <1>8. UNCHANGED <<inProgress, waits>>
    BY DEF Unwind
  <1>9. RestOK'
    BY <1>1, IInvParts DEF RestOK, Unwind
  <1> HIDE DEF label
  <1>10. StackOK' /\ CallsNested'
    BY <1>1, <1>2, <1>3, EndsType, EndsPreserveNested
  <1>11. Shared'
    BY <1>1, <1>2, <1>3, <1>6, <1>7, <1>8, EndsKept
  <1> QED BY <1>9, <1>10, <1>11, IInvPartsPrime

\* Wake preserves the inductive invariant.
LEMMA WakeStep ==
    ASSUME IInv, NEW t \in Thread, Wake(t)
    PROVE  IInv'
  <1>1. TypeOK /\ CallsNested /\ Shared
    BY IInvUse
  <1>2. /\ pc[Now(t)] = "waiting" /\ UNCHANGED inProgress
        /\ waits' = [waits EXCEPT ![Now(t)] = NoWait]
    BY DEF Wake
  <1>3. at[t] \in Key /\ Now(t) \in Call
    BY <1>1, <1>2, InKey DEF Now, Call, Node
  <1>4. NoWait \in WaitType
    BY DEF NoWait, WaitType
  <1>5. waits' \in [Call -> WaitType]
    BY <1>2, <1>3, <1>4, IInvParts DEF RestOK
  <1>6. CASE Return(t, {})
    <2> DEFINE label == pc[<<t, up[Now(t)]>>]
    <2>1. Ends(t, label) /\ up[Now(t)] # at[t]
      BY <1>1, <1>3, <1>6, ReturnEnds, CallerRuns
    <2>2. label \in PCs
      BY <2>1 DEF Ends
    <2>3. \A u \in Thread, k \in Key :
             pc'[<<u, k>>] = IF u = t /\ k = at[t] THEN "none" ELSE pc[<<u, k>>]
      BY <1>1, <1>3, <1>6 DEF Return, TypeOK, Now, Call, Node
    <2>4. "none" \notin Busy
      BY DEF Busy, Owning, Announcing
    <2>5. \A u \in Thread, k \in Key :
            \/ pc'[<<u, k>>] = pc[<<u, k>>]
            \/ u = t /\ k = at[t] /\ pc'[<<u, k>>] \notin Busy
      BY <2>3, <2>4
    <2>6. Shared'
      BY <1>1, <1>2, <2>5, WakeKept
    <2>7. RestOK'
      BY <1>1, <1>2, <1>3, <1>5, <1>6, ReturnRest, IInvParts DEF RestOK
    <2> HIDE DEF label
    <2>8. StackOK' /\ CallsNested'
      BY <1>1, <2>1, <2>2, EndsType, EndsPreserveNested
    <2> QED BY <2>6, <2>7, <2>8, IInvPartsPrime
  <1>7. ASSUME NEW label \in {"throwing", "fallback"}, Goto(t, label),
               UNCHANGED <<mode, at, up, lazy>>,
               \/ todo' = todo
               \/ todo' = [todo EXCEPT ![Now(t)] = Child[at[t]]],
               exc' = exc \/ exc' = [exc EXCEPT ![t] = "waited"]
        PROVE  IInv'
    <2>1. label \in PCs /\ label # "none" /\ label \notin Busy
      BY DEF PCs, Busy, Owning, Announcing
    <2>2. Moves(t, label)
      BY <1>2, <1>7, <2>1, GotoMoves
    <2>3. Moved(t, label)
      BY <1>1, <2>1, <2>2, MovesLabels
    <2> USE DEF Moved
    <2>4. \A u \in Thread, k \in Key :
            \/ pc'[<<u, k>>] = pc[<<u, k>>]
            \/ u = t /\ k = at[t] /\ pc'[<<u, k>>] \notin Busy
      BY <2>1, <2>3
    <2>5. Shared'
      BY <1>1, <1>2, <2>4, WakeKept
    <2>6. RestOK'
      BY <1>2, <1>5, <1>7, IInvParts DEF RestOK
    <2> QED BY <2>1, <2>2, <2>5, <2>6, MoveStep
  <1>8. CASE waits[Now(t)].status = "finished"
    BY <1>6, <1>8 DEF Wake
  <1>9. CASE waits[Now(t)].status = "aborted"
    BY <1>7, <1>9 DEF Wake
  <1>10. CASE waits[Now(t)].status \notin {"finished", "aborted"}
    BY <1>7, <1>10 DEF Wake
  <1> QED BY <1>8, <1>9, <1>10

\* InsertFallback preserves the inductive invariant.
LEMMA InsertStep ==
    ASSUME IInv, NEW t \in Thread, InsertFallback(t)
    PROVE  IInv'
  <1>1. pc[Now(t)] = "insert" /\ UNCHANGED inProgress /\ "insert" \notin Busy
    BY DEF InsertFallback, Busy, Owning, Announcing
  <1>2. at[t] \in Key
    BY <1>1, IInvUse, InKey
  <1>3. CASE Raise(t, "cache")
    BY <1>1, <1>3, RaiseStep
  <1>4. CASE Return(t, {}) /\ UNCHANGED waits
    BY <1>1, <1>2, <1>4, ReturnStep
  <1> QED BY <1>3, <1>4 DEF InsertFallback

-----------------------------------------------------------------------------
\* The inductive invariant holds initially.
LEMMA InitIInv == Init => IInv
  <1> SUFFICES ASSUME Init
               PROVE  IInv
    OBVIOUS
  <1>1. TypeOK
    BY DEF Init, TypeOK, Node, PCs, NotInProgress, NoWait
  <1>2. \A t \in Thread, n \in Node :
          pc[<<t, n>>] = "none" /\ todo[<<t, n>>] = {}
    BY DEF Init, Call
  <1>3. \A t \in Thread : at[t] = TopLevel
    BY DEF Init
  <1>4. TopLevel \in Node /\ TopLevel \notin Key /\ \A k \in Key : k \in Node
    BY ThreadAssumption DEF Node
  <1>5. CallsNested
    BY <1>2, <1>3, <1>4 DEF CallsNested, Nested, Active
  <1>6. InProgressOwned
    BY <1>2, <1>4, ThreadAssumption DEF Init, InProgressOwned, NotInProgress, Owning
  <1>7. WaitersHaveOwner
    BY <1>2, <1>4 DEF WaitersHaveOwner
  <1> QED BY <1>1, <1>5, <1>6, <1>7 DEF IInv

\* Every step preserves the inductive invariant.
LEMMA NextIInv == IInv /\ [Next]_vars => IInv'
  <1> SUFFICES ASSUME IInv, [Next]_vars
               PROVE  IInv'
    OBVIOUS
  <1>1. lazy \in [Call -> SUBSET Key]
    BY IInvUse DEF TypeOK
  <1>2. ASSUME NEW t \in Thread, Step(t)
        PROVE  IInv'
    BY <1>2, EndStep, CallStep, ConsumeStep, FailStep, MaterializedStep,
       LazyStep, LookupStep, StoreStep, FinishStep, DiscardStep, FailingStep,
       AbortStep, UnwindStep, WakeStep, InsertStep DEF Step
  <1>3. ASSUME NEW t \in Thread, BeginQuery(t)
        PROVE  IInv'
    BY <1>3, BeginStep
  <1>4. ASSUME NEW t \in Thread, ReadFromCache(t)
        PROVE  IInv'
    BY <1>1, <1>4, StillStep DEF ReadFromCache, threadVars
  <1>5. CASE Command
    BY <1>1, <1>5, StillStep DEF Command, threadVars
  <1>6. CASE UNCHANGED vars
    BY <1>1, <1>6, StillStep DEF vars
  <1> QED BY <1>2, <1>3, <1>4, <1>5, <1>6 DEF Next

\* The stacks of calls, _inProgress and the waiting threads of ConcurrentCache
\* fit together in every reachable state.
THEOREM IInvAlways == Spec => []IInv
  BY InitIInv, NextIInv, PTL DEF Spec

\* The state of computeOnceImpl and its callers always has its type.
THEOREM TypeCorrect == Spec => []TypeOK
  <1>1. IInv => TypeOK
    BY DEF IInv
  <1> QED BY <1>1, IInvAlways, PTL

\* However many threads evaluate however many queries, a key is in _inProgress
\* exactly while one thread computes it for everybody, although the entries
\* are erased by key and not by owner.
THEOREM InProgressAlwaysOwned == Spec => []InProgressOwned
  <1>1. IInv => InProgressOwned
    BY DEF IInv
  <1> QED BY <1>1, IInvAlways, PTL

\* A thread that waits in ResultInProgress::getResult waits for another thread
\* that has yet to call finish or abort: no notification is lost.
THEOREM WaitersAlwaysHaveOwner == Spec => []WaitersHaveOwner
  <1>1. IInv => WaitersHaveOwner
    BY DEF IInv
  <1> QED BY <1>1, IInvAlways, PTL

-----------------------------------------------------------------------------
(***************************************************************************)
(* The cache itself: every critical section of ConcurrentCache leaves it   *)
(* with exact totals and within its limits.                                *)
(***************************************************************************)
\* What the step of a thread may do to the cache.
CacheStep(k, pin) ==
    \/ cache' = Access(IF pin THEN MakePinned(cache, k) ELSE cache, k)
    \/ /\ ~TryInsertThrows(cache, limits, k, pin)
       /\ cache' = TryInsert(cache, limits, k, pin)
    \/ /\ ~InsertPinnedThrows(cache, limits, k)
       /\ cache' = InsertPinned(cache, limits, k)
    \/ /\ ~InsertThrows(cache, limits, k)
       /\ cache' = Insert(cache, limits, k)

\* Every step of a thread does one of these to the cache, or leaves it.
LEMMA StepOnCache ==
    ASSUME IInv, NEW t \in Thread, Step(t)
    PROVE  /\ limits' = limits
           /\ \/ cache' = cache
              \/ \E k \in Key, pin \in BOOLEAN : CacheStep(k, pin)
  <1>1. CASE UNCHANGED cacheVars
    BY <1>1 DEF cacheVars
  <1>2. CASE Consume(t)
    <2>1. lazy[Now(t)] \subseteq Key
      BY IInvUse DEF TypeOK, Now, Call
    <2> QED BY <1>2, <2>1 DEF Consume, CacheStep
  <1>3. CASE Lookup(t) /\ Hit(t)
    <2> DEFINE q == Pinned(t, at[t]) /\ at[t] \notin Uncacheable
    <2>1. at[t] \in Key
      <3>1. pc[Now(t)] = "lookup"
        BY <1>3 DEF Lookup
      <3> QED BY <3>1, IInvUse, InKey
    <2>2. q \in BOOLEAN
      OBVIOUS
    <2>3. cache' = Access(IF q THEN MakePinned(cache, at[t]) ELSE cache, at[t])
      BY <1>3 DEF Hit
    <2>4. limits' = limits
      BY <1>3 DEF Lookup
    <2> HIDE DEF q
    <2> QED BY <2>1, <2>2, <2>3, <2>4 DEF CacheStep
  <1>4. CASE Store(t)
    <2>1. at[t] \in Key
      <3>1. pc[Now(t)] = "store"
        BY <1>4 DEF Store
      <3> QED BY <3>1, IInvUse, InKey
    <2> QED BY <1>4, <2>1 DEF Store, CacheStep
  <1>5. CASE InsertFallback(t)
    <2>1. at[t] \in Key
      <3>1. pc[Now(t)] = "insert"
        BY <1>5 DEF InsertFallback
      <3> QED BY <3>1, IInvUse, InKey
    <2>2. Pinned(t, at[t]) \in BOOLEAN
      BY DEF Pinned
    <2> QED BY <1>5, <2>1, <2>2 DEF InsertFallback, CacheStep
  <1>6. CASE Lookup(t) /\ ~Hit(t)
    BY <1>1, <1>6 DEF Lookup, Join, Own, DontStore, cacheVars
  <1> QED
    BY <1>1, <1>2, <1>3, <1>4, <1>5, <1>6
    DEF Step, EndQuery, CallChild, Fail, ReturnMaterialized, ReturnLazy, Finish,
        Discard, FinishEmpty, Failing, Abort, Unwind, Wake

\* Every step of a thread keeps the totals exact and within the limit.
LEMMA StepCacheInv ==
    ASSUME IInv, CacheInv, NEW t \in Thread, Step(t)
    PROVE  CacheInv'
  <1>0. Good(cache) /\ limits \in LimitType /\ Within(cache, limits, 0)
    BY DEF CacheInv
  <1>1. limits' = limits
    BY StepOnCache
  <1>2. CASE cache' = cache
    BY <1>1, <1>2 DEF CacheInv
  <1>3. ASSUME NEW k \in Key, NEW pin \in BOOLEAN, CacheStep(k, pin)
        PROVE  CacheInv'
    BY <1>0, <1>1, <1>3, ReadGood, TryInsertGood, InsertPinnedGood, InsertGood
    DEF CacheStep, CacheInv
  <1> QED BY <1>2, <1>3, StepOnCache

\* Every step keeps the totals exact and within the limit.
LEMMA ConcurrentCacheInv == IInv /\ CacheInv /\ [Next]_vars => CacheInv'
  <1> SUFFICES ASSUME IInv, CacheInv, [Next]_vars PROVE CacheInv'
    OBVIOUS
  <1>1. ASSUME NEW t \in Thread, BeginQuery(t) PROVE CacheInv'
    BY <1>1 DEF BeginQuery, CacheInv, cacheVars
  <1>2. ASSUME NEW t \in Thread, ReadFromCache(t) PROVE CacheInv'
    BY <1>2, ReadGood DEF ReadFromCache, CacheInv
  <1>3. CASE Command
    BY <1>3, MaintainInv DEF Command
  <1>4. CASE UNCHANGED vars
    BY <1>4 DEF vars, CacheInv
  <1> QED BY <1>1, <1>2, <1>3, <1>4, StepCacheInv DEF Next

\* Whatever the threads look up, pin, compute and store concurrently, and
\* however commands clear the cache and change its limits meanwhile, the
\* totals are exact and the limit on the size is respected.
THEOREM ConcurrentSizesRespected == Spec => []CacheSizesRespected
  <1>1. Spec => []CacheInv
    <2>1. Init => CacheInv
      BY InitCacheInv DEF Init
    <2> QED BY <2>1, ConcurrentCacheInv, IInvAlways, PTL DEF Spec
  <1> QED BY <1>1, CacheInvSizes, PTL

-----------------------------------------------------------------------------
(***************************************************************************)
(* The pinned results: only clearing the whole cache removes any.          *)
(***************************************************************************)
\* insert pins and unpins nothing.
LEMMA InsertKeepsPinned ==
    ASSUME NEW c, Good(c), NEW l \in LimitType, NEW k \in Key
    PROVE  Insert(c, l, k).pinned = c.pinned
  <1>1. Size[k] \in Nat
    BY CacheAssumption
  <1> DEFINE room == MakeRoom(c, l, Size[k])
  <1>2. room \in CacheType /\ room.pinned = c.pinned
    BY <1>1, MakeRoomGood DEF Good
  <1> HIDE DEF room
  <1>3. [room EXCEPT !.order = Append(@, k),
                     !.sizeNonPinned = @ + Size[k]].pinned = room.pinned
    BY <1>2 DEF CacheType
  <1> QED BY <1>2, <1>3 DEF Insert, room

\* insertPinned pins the key.
LEMMA InsertPinnedPins ==
    ASSUME NEW c, Good(c), NEW l \in LimitType, NEW k \in Key
    PROVE  InsertPinned(c, l, k).pinned = c.pinned \cup {k}
  <1>1. Size[k] \in Nat
    BY CacheAssumption
  <1> DEFINE room == IF Fits(c, l, Size[k]) THEN MakeRoom(c, l, Size[k]) ELSE c
  <1>2. room \in CacheType /\ room.pinned = c.pinned
    BY <1>1, MakeRoomGood DEF Good
  <1> HIDE DEF room
  <1>3. [room EXCEPT !.pinned = @ \cup {k},
                     !.sizePinned = @ + Size[k]].pinned = room.pinned \cup {k}
    BY <1>2 DEF CacheType
  <1> QED BY <1>2, <1>3 DEF InsertPinned, room

\* containsAndMakePinnedIfExists pins an entry that is present.
LEMMA MakePinnedPins ==
    ASSUME NEW c, Good(c), NEW k
    PROVE  /\ c.pinned \subseteq MakePinned(c, k).pinned
           /\ Present(c, k) => k \in MakePinned(c, k).pinned
  <1>1. c \in CacheType
    BY DEF Good
  <1>2. CASE k \in NonPinned(c)
    <2>1. MakePinned(c, k) =
            [c EXCEPT !.order = Without(@, k), !.pinned = @ \cup {k},
                      !.sizeNonPinned = @ - Size[k], !.sizePinned = @ + Size[k]]
      BY <1>2 DEF MakePinned
    <2>2. MakePinned(c, k).pinned = c.pinned \cup {k}
      BY <1>1, <2>1 DEF CacheType
    <2> QED BY <2>2
  <1>3. CASE k \notin NonPinned(c)
    BY <1>3 DEF MakePinned, Present
  <1> QED BY <1>2, <1>3

\* Reading an entry pins and unpins nothing.
LEMMA AccessKeepsPinned ==
    ASSUME NEW c, Good(c), NEW k
    PROVE  Access(c, k).pinned = c.pinned
  BY DEF Access, Good, CacheType

\* A lookup that pins finds the entry and pins it.
LEMMA ReadPins ==
    ASSUME NEW c, Good(c), NEW k, NEW pin \in BOOLEAN
    PROVE  LET d == Access(IF pin THEN MakePinned(c, k) ELSE c, k)
           IN  /\ c.pinned \subseteq d.pinned
               /\ pin /\ Present(c, k) => k \in d.pinned
  <1>1. Good(MakePinned(c, k))
    BY MakePinnedGood
  <1> QED BY <1>1, MakePinnedPins, AccessKeepsPinned

\* tryInsertIfNotPresent pins what it is asked to pin.
LEMMA TryInsertPins ==
    ASSUME NEW c, Good(c), NEW l \in LimitType, NEW k \in Key, NEW pin \in BOOLEAN
    PROVE  /\ c.pinned \subseteq TryInsert(c, l, k, pin).pinned
           /\ pin => k \in TryInsert(c, l, k, pin).pinned
  <1>1. CASE Present(c, k) /\ pin
    BY <1>1, MakePinnedPins DEF TryInsert
  <1>2. CASE Present(c, k) /\ ~pin
    BY <1>2 DEF TryInsert
  <1>3. CASE ~Present(c, k) /\ pin
    BY <1>3, InsertPinnedPins DEF TryInsert
  <1>4. CASE ~Present(c, k) /\ ~pin
    BY <1>4, InsertKeepsPinned DEF TryInsert
  <1> QED BY <1>1, <1>2, <1>3, <1>4

\* Among the commands, only clearing the whole cache unpins.
LEMMA MaintainPins ==
    ASSUME CacheInv, Maintain
    PROVE  cache.pinned = cache'.pinned \/ cache' = EmptyCache
  <1>0. Good(cache) /\ cache \in CacheType /\ limits \in LimitType
    BY DEF CacheInv, Good
  <1>1. [cache EXCEPT !.order = <<>>, !.sizeNonPinned = 0].pinned = cache.pinned
    BY <1>0 DEF CacheType
  <1>2. ASSUME NEW l \in LimitType PROVE Shrink(l).pinned = cache.pinned
    BY <1>0, MakeRoomGood DEF Shrink
  <1>3. ASSUME NEW n PROVE RemoveOldest(cache, n).pinned = cache.pinned
    BY <1>0 DEF CacheType, RemoveOldest
  <1>4. CASE ClearUnpinnedOnly
    BY <1>1, <1>4 DEF ClearUnpinnedOnly
  <1>5. CASE ClearAll
    BY <1>5 DEF ClearAll
  <1>6. ASSUME NEW sz \in SizeLimits, MakeRoomAsMuchAsPossible(sz)
        PROVE  cache.pinned = cache'.pinned
    BY <1>1, <1>3, <1>6 DEF MakeRoomAsMuchAsPossible
  <1>7. ASSUME NEW n \in EntryLimits, SetMaxNumEntries(n)
        PROVE  cache.pinned = cache'.pinned
    <2>1. limits' \in LimitType
      BY <1>0, <1>7, CacheAssumption DEF SetMaxNumEntries, LimitType
    <2> QED BY <1>2, <1>7, <2>1 DEF SetMaxNumEntries
  <1>8. ASSUME NEW sz \in SizeLimits, SetMaxSize(sz)
        PROVE  cache.pinned = cache'.pinned
    <2>1. limits' \in LimitType
      BY <1>0, <1>8, CacheAssumption DEF SetMaxSize, LimitType
    <2> QED BY <1>2, <1>8, <2>1 DEF SetMaxSize
  <1>9. ASSUME NEW sz \in SizeLimits, SetMaxSizeSingleEntry(sz)
        PROVE  cache.pinned = cache'.pinned
    BY <1>9 DEF SetMaxSizeSingleEntry
  <1> QED BY <1>4, <1>5, <1>6, <1>7, <1>8, <1>9 DEF Maintain

\* No step of a thread unpins anything.
LEMMA StepPins ==
    ASSUME IInv, CacheInv, NEW t \in Thread, Step(t)
    PROVE  cache.pinned \subseteq cache'.pinned
  <1>0. Good(cache) /\ limits \in LimitType
    BY DEF CacheInv
  <1>1. ASSUME NEW k \in Key, NEW pin \in BOOLEAN, CacheStep(k, pin)
        PROVE  cache.pinned \subseteq cache'.pinned
    <2>1. CASE cache' = Access(IF pin THEN MakePinned(cache, k) ELSE cache, k)
      BY <1>0, <2>1, ReadPins
    <2>2. CASE cache' = TryInsert(cache, limits, k, pin)
      BY <1>0, <2>2, TryInsertPins
    <2>3. CASE cache' = InsertPinned(cache, limits, k)
      BY <1>0, <2>3, InsertPinnedPins
    <2>4. CASE cache' = Insert(cache, limits, k)
      BY <1>0, <2>4, InsertKeepsPinned
    <2> QED BY <1>1, <2>1, <2>2, <2>3, <2>4 DEF CacheStep
  <1> QED BY <1>1, StepOnCache

\* A step unpins results only by clearing the cache, and then the calls that
\* want them pinned are remembered.
Remembered ==
    /\ cleared \cap Pinning' \subseteq cleared'
    /\ Pinning' \subseteq cleared' \/ cache.pinned \subseteq cache'.pinned

\* Every step unpins nothing or remembers the calls that pin.
LEMMA ClearsRemembered ==
    ASSUME IInv, CacheInv, [TrackedNext]_trackedVars
    PROVE  Remembered
  <1>1. CASE UNCHANGED trackedVars
    BY <1>1 DEF trackedVars, vars, Remembered
  <1>2. CASE TrackedNext
    <2>1. CASE cache' = EmptyCache /\ UNCHANGED <<inProgress, threadVars>>
      <3>1. cleared' = Pinning
        BY <1>2, <2>1 DEF TrackedNext
      <3>2. Pinning' = Pinning
        BY <2>1 DEF Pinning, Pinned, threadVars
      <3> QED BY <3>1, <3>2 DEF Remembered
    <2>2. CASE ~(cache' = EmptyCache /\ UNCHANGED <<inProgress, threadVars>>)
      <3>1. cleared' = cleared \cap Pinning'
        BY <1>2, <2>2 DEF TrackedNext
      <3>2. ASSUME NEW t \in Thread, BeginQuery(t)
            PROVE  cache.pinned \subseteq cache'.pinned
        BY <3>2 DEF BeginQuery, cacheVars
      <3>3. ASSUME NEW t \in Thread, ReadFromCache(t)
            PROVE  cache.pinned \subseteq cache'.pinned
        BY <3>3, ReadPins DEF ReadFromCache, CacheInv
      <3>4. ASSUME Command
            PROVE  cache.pinned \subseteq cache'.pinned
        BY <2>2, <3>4, MaintainPins DEF Command
      <3>5. cache.pinned \subseteq cache'.pinned
        BY <1>2, <3>2, <3>3, <3>4, StepPins DEF TrackedNext, Next
      <3> QED BY <3>1, <3>5 DEF Remembered
    <2> QED BY <2>1, <2>2
  <1> QED BY <1>1, <1>2

-----------------------------------------------------------------------------
(***************************************************************************)
(* A request to pin a result travels with whoever computes it, until the   *)
(* result is in the cache.                                                 *)
(***************************************************************************)
\* The owner a call waits for knows that it has to pin, or has done so.
Waited(t, k) ==
    LET r == waits[<<t, k>>]
    IN  /\ r.status = "finished" => k \in cache.pinned
        /\ r.status = "pending" =>
             /\ pc[<<r.owner, k>>] \in {"computing", "store"} => inProgress[k].pin
             /\ pc[<<r.owner, k>>] = "finish" => k \in cache.pinned

Duty(t, k) ==
    /\ pc[<<t, k>>] = "uncached" => k \in Uncacheable
    /\ Pinned(t, k) =>
         /\ pc[<<t, k>>] \in {"computing", "store"} => inProgress[k].pin
         /\ pc[<<t, k>>] \notin {"discard", "finishEmpty"}
    /\ Pinned(t, k) /\ <<t, k>> \notin cleared =>
         /\ pc[<<t, k>>] = "finish" => k \in cache.pinned
         /\ pc[<<t, k>>] = "waiting" => Waited(t, k)

PinInv == \A t \in Thread, k \in Key : Duty(t, k)

\* What a step may do to the calls, to the requests to pin and to the waits.
ModeStep ==
    \A u \in Thread, k \in Key :
        pc[<<u, k>>] # "none" /\ pc'[<<u, k>>] # "none" /\ Pinned(u, k)'
            => Pinned(u, k)

RequestStep ==
    \A k \in Key :
        inProgress[k].pin /\ inProgress'[k].owner = inProgress[k].owner
            => inProgress'[k].pin

Neutral == {"none", "lookup", "fallback", "insert", "throwing", "failing", "abort"}

LabelStep(u, k) ==
    LET old == pc[<<u, k>>]
        new == pc'[<<u, k>>]
    IN  \/ new = old
        \/ new \in Neutral
        \/ old = "computing" /\ new = "store"
        \/ /\ old \in {"computing", "discard"} /\ new \in {"discard", "finishEmpty"}
           /\ ~Pinned(u, k)
        \/ /\ old = "store" /\ new = "finish"
           /\ inProgress[k].pin => k \in cache'.pinned
        \/ /\ old = "lookup" /\ new = "computing"
           /\ Pinned(u, k) => inProgress'[k].pin
        \/ old = "lookup" /\ new = "waiting"
        \/ old = "lookup" /\ new = "uncached" /\ k \in Uncacheable

WaitStep(u, k) ==
    LET old == waits[<<u, k>>]
        new == waits'[<<u, k>>]
    IN  pc'[<<u, k>>] = "waiting" =>
          \/ pc[<<u, k>>] = "waiting" /\ new = old
          \/ pc[<<u, k>>] = "waiting" /\ new.status \in {"empty", "aborted"}
          \/ /\ pc[<<u, k>>] = "waiting" /\ new.status = "finished"
             /\ old.status = "pending" /\ pc[<<old.owner, k>>] = "finish"
          \/ /\ pc[<<u, k>>] = "lookup" /\ new.status = "pending"
             /\ pc'[<<new.owner, k>>] # "finish"
             /\ Pinned(u, k) => inProgress'[k].pin

PinStep ==
    /\ ModeStep
    /\ RequestStep
    /\ \A u \in Thread, k \in Key : LabelStep(u, k) /\ WaitStep(u, k)

\* Such steps keep the promises to the calls that pin.
LEMMA PinStepKeeps ==
    ASSUME IInv, IInv', PinInv, Remembered, PinStep
    PROVE  PinInv'
  <1> SUFFICES ASSUME NEW u \in Thread, NEW k \in Key
               PROVE  Duty(u, k)'
    BY DEF PinInv
  <1>1. Duty(u, k) /\ LabelStep(u, k) /\ WaitStep(u, k)
    BY DEF PinInv, PinStep
  <1>2. ASSUME NEW o \in Thread,
               pc[<<o, k>>] \in {"computing", "store"}, inProgress[k].pin,
               pc'[<<o, k>>] \in {"computing", "store"}
        PROVE  inProgress'[k].pin
    <2>1. inProgress[k].owner = o /\ inProgress'[k].owner = o
      BY <1>2 DEF IInv, InProgressOwned, Owning
    <2> QED BY <1>2, <2>1 DEF PinStep, RequestStep
  <1>3. pc'[<<u, k>>] = "uncached" => k \in Uncacheable
    BY <1>1 DEF Duty, LabelStep, Neutral
  <1> SUFFICES ASSUME Pinned(u, k)', pc'[<<u, k>>] \notin Neutral
               PROVE  /\ pc'[<<u, k>>] \in {"computing", "store"} => inProgress'[k].pin
                      /\ pc'[<<u, k>>] \notin {"discard", "finishEmpty"}
                      /\ <<u, k>> \notin cleared' =>
                           /\ pc'[<<u, k>>] = "finish" => k \in cache'.pinned
                           /\ pc'[<<u, k>>] = "waiting" => Waited(u, k)'
    BY <1>3 DEF Duty, Neutral
  <1>4. pc[<<u, k>>] # "none" /\ pc'[<<u, k>>] # "none" /\ Pinned(u, k)
    <2>1. pc[<<u, k>>] # "none" /\ pc'[<<u, k>>] # "none"
      BY <1>1 DEF LabelStep, Neutral
    <2> QED BY <2>1 DEF PinStep, ModeStep
  <1>5. pc'[<<u, k>>] \in {"computing", "store"} => inProgress'[k].pin
    BY <1>1, <1>2, <1>4 DEF Duty, LabelStep, Neutral
  <1>6. pc'[<<u, k>>] \notin {"discard", "finishEmpty"}
    BY <1>1, <1>4 DEF Duty, LabelStep, Neutral
  <1>7. ASSUME <<u, k>> \notin cleared'
        PROVE  <<u, k>> \notin cleared /\ cache.pinned \subseteq cache'.pinned
    <2>1. <<u, k>> \in Pinning'
      BY <1>4 DEF Pinning
    <2> QED BY <1>7, <2>1 DEF Remembered
  <1>8. ASSUME <<u, k>> \notin cleared', pc'[<<u, k>>] = "finish"
        PROVE  k \in cache'.pinned
    BY <1>1, <1>4, <1>7, <1>8 DEF Duty, LabelStep, Neutral
  <1>9. ASSUME <<u, k>> \notin cleared', pc'[<<u, k>>] = "waiting"
        PROVE  Waited(u, k)'
    <2>1. <<u, k>> \notin cleared /\ cache.pinned \subseteq cache'.pinned
      BY <1>7, <1>9
    <2>2. CASE pc[<<u, k>>] = "waiting" /\ waits'[<<u, k>>] = waits[<<u, k>>]
      <3> DEFINE o == waits[<<u, k>>].owner
      <3>1. Waited(u, k)
        BY <1>1, <1>4, <2>1, <2>2 DEF Duty
      <3>2. waits[<<u, k>>].status = "finished" => k \in cache'.pinned
        BY <2>1, <3>1 DEF Waited
      <3> SUFFICES ASSUME waits[<<u, k>>].status = "pending"
                   PROVE  /\ pc'[<<o, k>>] \in {"computing", "store"} => inProgress'[k].pin
                          /\ pc'[<<o, k>>] = "finish" => k \in cache'.pinned
        BY <2>2, <3>2 DEF Waited
      <3>3. o \in Thread /\ pc[<<o, k>>] \in Busy
        BY <2>2 DEF IInv, WaitersHaveOwner, Busy
      <3>4. /\ pc[<<o, k>>] \in {"computing", "store"} => inProgress[k].pin
            /\ pc[<<o, k>>] = "finish" => k \in cache.pinned
        BY <3>1 DEF Waited
      <3> HIDE DEF o
      <3>5. LabelStep(o, k) /\ pc[<<o, k>>] # "lookup"
        BY <3>3 DEF PinStep, Busy, Owning, Announcing
      <3>6. pc'[<<o, k>>] \in {"computing", "store"} =>
              pc[<<o, k>>] \in {"computing", "store"}
        BY <3>5 DEF LabelStep, Neutral
      <3>7. pc'[<<o, k>>] = "finish" => k \in cache'.pinned
        BY <2>1, <3>4, <3>5 DEF LabelStep, Neutral
      <3> QED BY <1>2, <3>3, <3>4, <3>6, <3>7
    <2>3. CASE waits'[<<u, k>>].status \in {"empty", "aborted"}
      BY <2>3 DEF Waited
    <2>4. CASE /\ pc[<<u, k>>] = "waiting" /\ waits'[<<u, k>>].status = "finished"
               /\ waits[<<u, k>>].status = "pending"
               /\ pc[<<waits[<<u, k>>].owner, k>>] = "finish"
      <3>1. k \in cache.pinned
        BY <1>1, <1>4, <2>1, <2>4 DEF Duty, Waited
      <3> QED BY <2>1, <2>4, <3>1 DEF Waited
    <2>5. CASE /\ waits'[<<u, k>>].status = "pending" /\ inProgress'[k].pin
               /\ pc'[<<waits'[<<u, k>>].owner, k>>] # "finish"
      BY <2>5 DEF Waited
    <2> QED BY <1>1, <1>4, <1>9, <2>2, <2>3, <2>4, <2>5 DEF WaitStep
  <1> QED BY <1>5, <1>6, <1>8, <1>9

\* What the property asks of a step: a call that pins and returns has its
\* result pinned.
Delivers(t, k) ==
    (/\ pc[<<t, k>>] \notin {"none", "throwing"} /\ pc'[<<t, k>>] = "none"
     /\ Pinned(t, k) /\ <<t, k>> \notin cleared)
    => k \in cache'.pinned

PinsKept == PinStep /\ \A t \in Thread : \A k \in Key \ Uncacheable : Delivers(t, k)

\* Steps that leave _inProgress alone.
LEMMA SameRequests ==
    ASSUME UNCHANGED inProgress
    PROVE  RequestStep
  BY DEF RequestStep

\* The owner of a key removes its entry, and with it the request to pin.
LEMMA EraseRequests ==
    ASSUME IInv, NEW t \in Thread, at[t] \in Key, pc[Now(t)] \in Owning, Erase(at[t])
    PROVE  RequestStep
  <1>1. inProgress[at[t]].owner = t
    BY DEF IInv, InProgressOwned, Now
  <1>2. \A k \in Key : inProgress'[k] = IF k = at[t] THEN NotInProgress ELSE inProgress[k]
    BY IInvUse DEF Erase, TypeOK
  <1> QED BY <1>1, <1>2, ThreadAssumption DEF RequestStep, NotInProgress

\* Steps that change no call.
LEMMA StillPins ==
    ASSUME UNCHANGED <<inProgress, mode, pc, up, waits>>
    PROVE  PinsKept
  <1>1. ModeStep
    BY DEF ModeStep, Pinned
  <1>2. \A u \in Thread, k \in Key : LabelStep(u, k) /\ WaitStep(u, k)
    BY DEF LabelStep, WaitStep
  <1> QED BY <1>1, <1>2, SameRequests DEF PinsKept, PinStep, Delivers

\* Steps of the innermost call in which nobody starts or stops to wait.
LEMMA MovePins ==
    ASSUME TypeOK, NEW t \in Thread, NEW label \in PCs \ {"waiting"}, Moves(t, label),
           UNCHANGED waits, RequestStep,
           at[t] \in Key => LabelStep(t, at[t])
    PROVE  PinsKept
  <1>1. ModeStep
    BY DEF ModeStep, Pinned, Moves
  <1>2. Moved(t, label)
    BY MovesLabels
  <1> USE DEF Moved
  <1>3. ASSUME NEW u \in Thread, NEW k \in Key
        PROVE  LabelStep(u, k) /\ WaitStep(u, k) /\ Delivers(u, k)
    <2>1. CASE u = t /\ k = at[t]
      <3>1. pc'[<<u, k>>] # "waiting" /\ pc'[<<u, k>>] # "none"
        BY <1>2, <2>1 DEF Moves
      <3> QED BY <2>1, <3>1 DEF WaitStep, Delivers
    <2>2. CASE ~(u = t /\ k = at[t])
      <3>1. pc'[<<u, k>>] = pc[<<u, k>>]
        BY <1>2, <2>2
      <3> QED BY <3>1 DEF LabelStep, WaitStep, Delivers
    <2> QED BY <2>1, <2>2
  <1> QED BY <1>1, <1>3 DEF PinsKept, PinStep

\* Steps in which the innermost call ends.
LEMMA EndsMode ==
    ASSUME TypeOK, CallsNested, NEW t \in Thread, NEW label \in PCs, Ends(t, label)
    PROVE  ModeStep
  <1>1. at[t] \in Key /\ up[Now(t)] # at[t]
    BY CallerRuns DEF Ends
  <1>2. Ended(t, label)
    BY EndsLabels
  <1> USE DEF Ended
  <1>3. \A u \in Thread, k \in Key :
          up'[<<u, k>>] = IF u = t /\ k = at[t] THEN TopLevel ELSE up[<<u, k>>]
    BY <1>1 DEF Ends, TypeOK, Call, Node, Now
  <1>4. mode' = mode
    BY DEF Ends
  <1>5. ASSUME NEW u \in Thread, NEW k \in Key,
               pc'[<<u, k>>] # "none", Pinned(u, k)'
        PROVE  Pinned(u, k)
    <2>1. ~(u = t /\ k = at[t])
      BY <1>1, <1>2, <1>5
    <2>2. up'[<<u, k>>] = up[<<u, k>>]
      BY <1>3, <2>1
    <2> QED BY <1>4, <1>5, <2>2 DEF Pinned
  <1> QED BY <1>5 DEF ModeStep

\* The innermost call returns, and has its result pinned if it pins.
LEMMA ReturnPins ==
    ASSUME IInv, NEW t \in Thread, at[t] \in Key, NEW L, Return(t, L), RequestStep,
           \A u \in Thread, k \in Key : <<u, k>> # Now(t) => WaitStep(u, k),
           Pinned(t, at[t]) /\ at[t] \notin Uncacheable /\ Now(t) \notin cleared
              => at[t] \in cache'.pinned
    PROVE  PinsKept
  <1> DEFINE label == pc[<<t, up[Now(t)]>>]
  <1>1. TypeOK /\ CallsNested
    BY IInvUse
  <1>2. Ends(t, label) /\ label \in PCs
    BY <1>1, ReturnEnds DEF Ends
  <1>3. ModeStep
    BY <1>1, <1>2, EndsMode
  <1>4. \A u \in Thread, k \in Key :
          pc'[<<u, k>>] = IF u = t /\ k = at[t] THEN "none" ELSE pc[<<u, k>>]
    BY <1>1 DEF Return, TypeOK, Call, Node, Now
  <1>5. ASSUME NEW u \in Thread, NEW k \in Key
        PROVE  LabelStep(u, k) /\ WaitStep(u, k)
    <2>1. CASE u = t /\ k = at[t]
      BY <1>4, <2>1 DEF LabelStep, WaitStep, Neutral
    <2>2. CASE ~(u = t /\ k = at[t])
      <3>1. pc'[<<u, k>>] = pc[<<u, k>>] /\ <<u, k>> # Now(t)
        BY <1>4, <2>2 DEF Now
      <3> QED BY <3>1 DEF LabelStep
    <2> QED BY <2>1, <2>2
  <1>6. ASSUME NEW u \in Thread, NEW k \in Key \ Uncacheable
        PROVE  Delivers(u, k)
    BY <1>4 DEF Delivers, Now
  <1> QED BY <1>3, <1>5, <1>6 DEF PinsKept, PinStep

\* Nobody starts or stops to wait.
LEMMA SameWaits ==
    ASSUME UNCHANGED waits, NEW u \in Thread, NEW k \in Key,
           pc'[<<u, k>>] = pc[<<u, k>>] \/ pc'[<<u, k>>] # "waiting"
    PROVE  WaitStep(u, k)
  BY DEF WaitStep

-----------------------------------------------------------------------------
\* While a thread is idle or at the request itself it has no call for a key.
LEMMA NoCalls ==
    ASSUME TypeOK, CallsNested, NEW t \in Thread, at[t] = TopLevel
    PROVE  \A k \in Key : pc[<<t, k>>] = "none"
  <1>1. Nested(t) /\ Rank \in [Node -> Int] /\ Decreasing(Rank)
    BY RankExists DEF CallsNested
  <1>2. \A k \in Key : k \in Node /\ k # TopLevel /\ TopLevel \in Node
    BY ThreadAssumption DEF Node
  <1> QED BY <1>1, <1>2 DEF Nested, Active, Decreasing

\* The request begins and ends while the thread has no call for a key.
LEMMA RequestPins ==
    ASSUME IInv, NEW t \in Thread, BeginQuery(t) \/ EndQuery(t)
    PROVE  PinsKept
  <1>1. TypeOK /\ CallsNested
    BY IInvUse
  <1>2. at[t] = TopLevel
    BY <1>1 DEF CallsNested, Nested, BeginQuery, EndQuery, TypeOK, Node
  <1>3. \A k \in Key : pc[<<t, k>>] = "none"
    BY <1>1, <1>2, NoCalls
  <1>4. \A u \in Thread, k \in Key : pc'[<<u, k>>] = pc[<<u, k>>]
    BY <1>1, <1>2, ThreadAssumption
    DEF BeginQuery, EndQuery, Goto, Now, TypeOK, Call, Node
  <1>5. UNCHANGED <<inProgress, up, waits>> /\ \A u \in Thread \ {t} : mode'[u] = mode[u]
    BY <1>1 DEF BeginQuery, EndQuery, TypeOK
  <1>6. ModeStep
    BY <1>3, <1>5 DEF ModeStep, Pinned
  <1>7. \A u \in Thread, k \in Key : LabelStep(u, k) /\ WaitStep(u, k) /\ Delivers(u, k)
    <2> SUFFICES ASSUME NEW u \in Thread, NEW k \in Key
                 PROVE  LabelStep(u, k) /\ WaitStep(u, k) /\ Delivers(u, k)
      OBVIOUS
    <2>1. LabelStep(u, k)
      BY <1>4 DEF LabelStep
    <2>2. WaitStep(u, k)
      BY <1>4, <1>5 DEF WaitStep
    <2>3. Delivers(u, k)
      BY <1>4 DEF Delivers
    <2> QED BY <2>1, <2>2, <2>3
  <1> QED BY <1>5, <1>6, <1>7, SameRequests DEF PinsKept, PinStep

\* A call that begins has promised nothing yet.
LEMMA CallPins ==
    ASSUME IInv, NEW t \in Thread, CallChild(t)
    PROVE  PinsKept
  <1>1. TypeOK /\ CallsNested
    BY IInvUse
  <1>2. PICK j \in todo[Now(t)] :
          /\ pc' = [pc EXCEPT ![<<t, j>>] = "lookup"]
          /\ up' = [up EXCEPT ![<<t, j>>] = at[t]]
    BY DEF CallChild
  <1>3. j \in Key /\ j \in Node /\ at[t] \in Node
    BY <1>1 DEF TypeOK, Now, Call, Node
  <1>4. pc[<<t, j>>] = "none"
    <2>1. Nested(t)
      BY <1>1 DEF CallsNested
    <2>2. Rank[j] < Rank[at[t]]
      BY <1>3, <2>1 DEF Nested, Now
    <2> QED BY <1>3, <2>1, <2>2, RankExists DEF Nested, Active
  <1>5. \A u \in Thread, k \in Key :
          /\ pc'[<<u, k>>] = IF u = t /\ k = j THEN "lookup" ELSE pc[<<u, k>>]
          /\ up'[<<u, k>>] = IF u = t /\ k = j THEN at[t] ELSE up[<<u, k>>]
    BY <1>1, <1>2, <1>3 DEF TypeOK, Call, Node
  <1>6. UNCHANGED <<inProgress, mode, waits>>
    BY DEF CallChild
  <1>7. ModeStep
    BY <1>4, <1>5, <1>6 DEF ModeStep, Pinned
  <1>8. \A u \in Thread, k \in Key : LabelStep(u, k) /\ WaitStep(u, k) /\ Delivers(u, k)
    <2> SUFFICES ASSUME NEW u \in Thread, NEW k \in Key
                 PROVE  LabelStep(u, k) /\ WaitStep(u, k) /\ Delivers(u, k)
      OBVIOUS
    <2>1. pc'[<<u, k>>] = pc[<<u, k>>] \/ pc'[<<u, k>>] = "lookup"
      BY <1>5
    <2>2. LabelStep(u, k)
      BY <2>1 DEF LabelStep, Neutral
    <2>3. WaitStep(u, k)
      BY <1>6, <2>1 DEF WaitStep
    <2>4. Delivers(u, k)
      BY <2>1 DEF Delivers
    <2> QED BY <2>2, <2>3, <2>4
  <1> QED BY <1>6, <1>7, <1>8, SameRequests DEF PinsKept, PinStep

\* A call with an exception need not pin.
LEMMA RaisePins ==
    ASSUME IInv, NEW t \in Thread, NEW cause, Raise(t, cause), UNCHANGED inProgress,
           pc[Now(t)] \in Running \cup {"store", "insert"}
    PROVE  PinsKept
  <1> DEFINE label == Handler(pc[Now(t)])
  <1>1. label \in PCs \cap {"failing", "throwing"} /\ Moves(t, label)
    BY RaiseMoves
  <1>2. waits' = waits
    BY DEF Raise
  <1> HIDE DEF label
  <1>3. at[t] \in Key => pc'[<<t, at[t]>>] = label
    BY <1>1, IInvUse, MovesLabels DEF Moved
  <1>4. at[t] \in Key => LabelStep(t, at[t])
    BY <1>1, <1>3 DEF LabelStep, Neutral
  <1> QED BY <1>1, <1>2, <1>4, IInvUse, SameRequests, MovePins

\* A call for a key goes on at a label.
LEMMA GotoPins ==
    ASSUME IInv, NEW t \in Thread, NEW label \in PCs \ {"none", "waiting"},
           pc[Now(t)] \notin {"none", "request", "throwing"},
           Goto(t, label), UNCHANGED <<mode, at, up, waits>>,
           \/ todo' = todo
           \/ todo' = [todo EXCEPT ![Now(t)] = Child[at[t]]],
           RequestStep, pc'[<<t, at[t]>>] = label => LabelStep(t, at[t])
    PROVE  PinsKept
  <1>1. at[t] \in Key /\ Moves(t, label)
    BY GotoMoves
  <1>2. pc'[<<t, at[t]>>] = label
    BY <1>1, IInvUse, MovesLabels DEF Moved
  <1> QED BY <1>1, <1>2, IInvUse, MovePins

\* A call returns and leaves those who wait alone.
LEMMA QuietReturn ==
    ASSUME IInv, NEW t \in Thread, at[t] \in Key, NEW L, Return(t, L),
           UNCHANGED <<inProgress, waits>>,
           Pinned(t, at[t]) /\ at[t] \notin Uncacheable /\ Now(t) \notin cleared
              => at[t] \in cache'.pinned
    PROVE  PinsKept
  <1>1. \A u \in Thread, k \in Key : <<u, k>> # Now(t) => pc'[<<u, k>>] = pc[<<u, k>>]
    BY IInvUse DEF Return, TypeOK, Call, Node, Now
  <1>2. \A u \in Thread, k \in Key : <<u, k>> # Now(t) => WaitStep(u, k)
    BY <1>1, SameWaits
  <1> QED BY <1>2, SameRequests, ReturnPins

-----------------------------------------------------------------------------
\* The steps of a computation.
LEMMA ComputePins ==
    ASSUME IInv, PinInv, NEW t \in Thread,
           \/ Consume(t) \/ Fail(t) \/ ReturnMaterialized(t) \/ ReturnLazy(t)
    PROVE  PinsKept
  <1>1. CASE Consume(t)
    <2>1. pc[Now(t)] \in Running /\ UNCHANGED inProgress
      BY <1>1 DEF Consume
    <2>2. Raise(t, "cache") \/ UNCHANGED <<mode, at, pc, up, todo, waits, exc>>
      BY <1>1 DEF Consume
    <2> QED BY <2>1, <2>2, RaisePins, StillPins
  <1>2. CASE Fail(t)
    BY <1>2, RaisePins DEF Fail
  <1>3. CASE pc[Now(t)] = "computing" /\ Goto(t, "store") /\ ReturnMaterialized(t)
    <2>1. "store" \in PCs \ {"none", "waiting"}
      BY DEF PCs
    <2>2. pc'[<<t, at[t]>>] = "store" => LabelStep(t, at[t])
      BY <1>3 DEF LabelStep, Now
    <2>3. UNCHANGED <<inProgress, mode, at, up, todo, waits>>
      BY <1>3 DEF ReturnMaterialized
    <2> QED BY <1>3, <2>1, <2>2, <2>3, SameRequests, GotoPins
  <1>4. CASE pc[Now(t)] = "fallback" /\ Goto(t, "insert") /\ ReturnMaterialized(t)
    <2>1. "insert" \in PCs \ {"none", "waiting"}
      BY DEF PCs
    <2>2. pc'[<<t, at[t]>>] = "insert" => LabelStep(t, at[t])
      BY DEF LabelStep, Neutral
    <2>3. UNCHANGED <<inProgress, mode, at, up, todo, waits>>
      BY <1>4 DEF ReturnMaterialized
    <2> QED BY <1>4, <2>1, <2>2, <2>3, SameRequests, GotoPins
  <1>5. CASE pc[Now(t)] = "uncached" /\ Return(t, {}) /\ ReturnMaterialized(t)
    <2>1. at[t] \in Key
      BY <1>5, IInvUse, InKey
    <2>2. at[t] \in Uncacheable
      BY <1>5, <2>1 DEF PinInv, Duty, Now
    <2>3. UNCHANGED <<inProgress, waits>>
      BY <1>5 DEF ReturnMaterialized
    <2> QED BY <1>5, <2>1, <2>2, <2>3, QuietReturn
  <1>6. CASE pc[Now(t)] = "computing" /\ Goto(t, "discard") /\ ReturnLazy(t)
    <2>1. "discard" \in PCs \ {"none", "waiting"}
      BY DEF PCs
    <2>2. pc'[<<t, at[t]>>] = "discard" => LabelStep(t, at[t])
      BY <1>6 DEF LabelStep, Now, ReturnLazy
    <2>3. UNCHANGED <<inProgress, mode, at, up, todo, waits>>
      BY <1>6 DEF ReturnLazy
    <2> QED BY <1>6, <2>1, <2>2, <2>3, SameRequests, GotoPins
  <1>7. ASSUME NEW L, Return(t, L), ReturnLazy(t), pc[Now(t)] \in {"fallback", "uncached"}
        PROVE  PinsKept
    <2>1. at[t] \in Key
      BY <1>7, IInvUse, InKey
    <2>2. ~Pinned(t, at[t]) /\ UNCHANGED <<inProgress, waits>>
      BY <1>7 DEF ReturnLazy
    <2> QED BY <1>7, <2>1, <2>2, QuietReturn
  <1> QED
    BY <1>1, <1>2, <1>3, <1>4, <1>5, <1>6, <1>7 DEF ReturnMaterialized, ReturnLazy

\* A thread that finds the result in the cache pins it there.
LEMMA HitPins ==
    ASSUME IInv, CacheInv, NEW t \in Thread, Lookup(t), Hit(t)
    PROVE  PinsKept
  <1>1. pc[Now(t)] = "lookup" /\ Good(cache)
    BY DEF Lookup, CacheInv
  <1>2. at[t] \in Key
    BY <1>1, IInvUse, InKey
  <1> DEFINE q == Pinned(t, at[t]) /\ at[t] \notin Uncacheable
  <1>3. q \in BOOLEAN /\ (Pinned(t, at[t]) /\ at[t] \notin Uncacheable => q)
    OBVIOUS
  <1>4. /\ cache' = Access(IF q THEN MakePinned(cache, at[t]) ELSE cache, at[t])
        /\ Present(cache, at[t]) /\ Return(t, {}) /\ UNCHANGED <<inProgress, waits>>
    BY DEF Hit
  <1> HIDE DEF q
  <1>5. q => at[t] \in cache'.pinned
    BY <1>1, <1>3, <1>4, ReadPins
  <1> QED BY <1>2, <1>3, <1>4, <1>5, QuietReturn

\* The thread that starts to wait passes its request to pin to the owner.
LEMMA JoinPins ==
    ASSUME IInv, NEW t \in Thread, pc[Now(t)] = "lookup", Join(t)
    PROVE  PinsKept
  <1> DEFINE j == at[t]
             o == inProgress[j].owner
             q == inProgress[j].pin \/ Pinned(t, j)
  <1>1. TypeOK /\ j \in Key /\ j \in Node
    BY IInvUse, InKey DEF Node
  <1>2. /\ inProgress' = [inProgress EXCEPT ![j].pin = q]
        /\ waits' = [waits EXCEPT ![<<t, j>>] = [owner |-> o, status |-> "pending"]]
        /\ pc' = [pc EXCEPT ![<<t, j>>] = "waiting"]
        /\ UNCHANGED <<mode, up>>
    BY DEF Join, Goto, Now
  <1>3. o \in Thread /\ pc[<<o, j>>] \in Owning
    <2>1. o \in Thread
      BY <1>1 DEF Join, TypeOK
    <2> QED BY <1>1, <2>1 DEF IInv, InProgressOwned
  <1>4. q \in BOOLEAN /\ (inProgress[j].pin => q) /\ (Pinned(t, j) => q)
    OBVIOUS
  <1>5. pc[<<t, j>>] = "lookup"
    BY DEF Now
  <1> HIDE DEF j, o, q
  <1>6. \A k \in Key :
          /\ inProgress'[k].owner = inProgress[k].owner
          /\ inProgress'[k].pin = IF k = j THEN q ELSE inProgress[k].pin
    BY <1>1, <1>2, <1>4 DEF TypeOK
  <1>7. \A u \in Thread, k \in Key :
          /\ pc'[<<u, k>>] = IF u = t /\ k = j THEN "waiting" ELSE pc[<<u, k>>]
          /\ waits'[<<u, k>>] = IF u = t /\ k = j
                                  THEN [owner |-> o, status |-> "pending"]
                                  ELSE waits[<<u, k>>]
    BY <1>1, <1>2 DEF TypeOK, Call, Node
  <1>8. RequestStep
    BY <1>4, <1>6 DEF RequestStep
  <1>9. ModeStep
    BY <1>2 DEF ModeStep, Pinned
  <1>10. ASSUME NEW u \in Thread, NEW k \in Key
         PROVE  LabelStep(u, k) /\ WaitStep(u, k) /\ Delivers(u, k)
    <2>1. CASE u = t /\ k = j
      <3>1. /\ pc'[<<u, k>>] = "waiting" /\ pc[<<u, k>>] = "lookup"
            /\ waits'[<<u, k>>].status = "pending" /\ waits'[<<u, k>>].owner = o
        BY <1>5, <1>7, <2>1
      <3>2. pc'[<<o, k>>] # "finish"
        BY <1>1, <1>3, <1>7, <2>1 DEF Owning
      <3>3. Pinned(u, k) => inProgress'[k].pin
        BY <1>1, <1>4, <1>6, <2>1
      <3> QED BY <3>1, <3>2, <3>3 DEF LabelStep, WaitStep, Delivers
    <2>2. CASE ~(u = t /\ k = j)
      <3>1. pc'[<<u, k>>] = pc[<<u, k>>] /\ waits'[<<u, k>>] = waits[<<u, k>>]
        BY <1>7, <2>2
      <3> QED BY <3>1 DEF LabelStep, WaitStep, Delivers
    <2> QED BY <2>1, <2>2
  <1> QED BY <1>8, <1>9, <1>10 DEF PinsKept, PinStep

\* The owner of a key notes its own request to pin.
LEMMA OwnPins ==
    ASSUME IInv, NEW t \in Thread, pc[Now(t)] = "lookup", Own(t)
    PROVE  PinsKept
  <1> DEFINE q == Pinned(t, at[t])
  <1>1. TypeOK /\ at[t] \in Key
    BY IInvUse, InKey
  <1>2. /\ inProgress' = [inProgress EXCEPT ![at[t]] = [owner |-> t, pin |-> q]]
        /\ inProgress[at[t]].owner = NoThread
    BY DEF Own
  <1> HIDE DEF q
  <1>3. \A k \in Key : inProgress'[k] = IF k = at[t] THEN [owner |-> t, pin |-> q]
                                        ELSE inProgress[k]
    BY <1>1, <1>2 DEF TypeOK
  <1>4. RequestStep
    BY <1>2, <1>3, ThreadAssumption DEF RequestStep
  <1>5. Pinned(t, at[t]) => inProgress'[at[t]].pin
    BY <1>1, <1>3 DEF q
  <1>6. pc'[<<t, at[t]>>] = "computing" => LabelStep(t, at[t])
    BY <1>5 DEF LabelStep, Now
  <1>7. "computing" \in PCs \ {"none", "waiting"}
    BY DEF PCs
  <1> QED BY <1>4, <1>6, <1>7, GotoPins DEF Own

\* The first critical section.
LEMMA LookupPins ==
    ASSUME IInv, CacheInv, NEW t \in Thread, Lookup(t)
    PROVE  PinsKept
  <1>1. pc[Now(t)] = "lookup"
    BY DEF Lookup
  <1>2. CASE DontStore(t)
    <2>1. "uncached" \in PCs \ {"none", "waiting"}
      BY DEF PCs
    <2>2. pc'[<<t, at[t]>>] = "uncached" => LabelStep(t, at[t])
      BY <1>1, <1>2 DEF LabelStep, Now, DontStore
    <2>3. RequestStep
      BY <1>2, SameRequests DEF DontStore
    <2> QED BY <1>1, <1>2, <2>1, <2>2, <2>3, GotoPins DEF DontStore
  <1> QED BY <1>1, <1>2, HitPins, JoinPins, OwnPins DEF Lookup

\* The owner pins the result if anybody has asked for that.
LEMMA StorePins ==
    ASSUME IInv, CacheInv, NEW t \in Thread, Store(t)
    PROVE  PinsKept
  <1>1. pc[Now(t)] = "store" /\ pc[Now(t)] \in Owning
    BY DEF Store, Owning
  <1>2. at[t] \in Key
    BY <1>1, IInvUse, InKey
  <1>3. CASE Raise(t, "cache") /\ UNCHANGED inProgress
    BY <1>1, <1>3, RaisePins
  <1>4. CASE /\ inProgress[at[t]].pin => cache' = InsertPinned(cache, limits, at[t])
             /\ Goto(t, "finish") /\ Erase(at[t])
             /\ UNCHANGED <<mode, at, up, todo, waits>>
    <2>1. inProgress[at[t]].pin => at[t] \in cache'.pinned
      BY <1>2, <1>4, InsertPinnedPins DEF CacheInv
    <2>2. pc'[<<t, at[t]>>] = "finish" => LabelStep(t, at[t])
      BY <1>1, <2>1 DEF LabelStep, Now
    <2>3. RequestStep
      BY <1>1, <1>2, <1>4, EraseRequests
    <2>4. "finish" \in PCs \ {"none", "waiting"}
      BY DEF PCs
    <2> QED BY <1>1, <1>4, <2>2, <2>3, <2>4, GotoPins
  <1> QED BY <1>3, <1>4 DEF Store

\* The results of Discard and Failing.
LEMMA DropPins ==
    ASSUME IInv, PinInv, NEW t \in Thread, Discard(t) \/ Failing(t)
    PROVE  PinsKept
  <1>1. pc[Now(t)] \in {"discard", "failing"} /\ pc[Now(t)] \in Owning
    BY DEF Discard, Failing, Owning
  <1>2. at[t] \in Key
    BY <1>1, IInvUse, InKey
  <1>3. RequestStep
    BY <1>1, <1>2, EraseRequests DEF Discard, Failing
  <1>4. CASE Discard(t)
    <2>1. ~Pinned(t, at[t]) /\ pc[<<t, at[t]>>] = "discard"
      BY <1>2, <1>4 DEF Discard, PinInv, Duty, Now
    <2>2. pc'[<<t, at[t]>>] = "finishEmpty" => LabelStep(t, at[t])
      BY <2>1 DEF LabelStep
    <2>3. "finishEmpty" \in PCs \ {"none", "waiting"}
      BY DEF PCs
    <2> QED BY <1>1, <1>3, <1>4, <2>2, <2>3, GotoPins DEF Discard
  <1>5. CASE Failing(t)
    <2>1. pc'[<<t, at[t]>>] = "abort" => LabelStep(t, at[t])
      BY DEF LabelStep, Neutral
    <2>2. "abort" \in PCs \ {"none", "waiting"}
      BY DEF PCs
    <2> QED BY <1>1, <1>3, <1>5, <2>1, <2>2, GotoPins DEF Failing
  <1> QED BY <1>4, <1>5

\* The announcement tells those who wait what the owner has done.
LEMMA NotifyWaits ==
    ASSUME IInv, NEW t \in Thread, at[t] \in Key, NEW status, Notify(t, status),
           \/ status \in {"empty", "aborted"}
           \/ status = "finished" /\ pc[Now(t)] = "finish",
           NEW u \in Thread, NEW k \in Key,
           pc'[<<u, k>>] = pc[<<u, k>>] \/ pc'[<<u, k>>] # "waiting"
    PROVE  WaitStep(u, k)
  <1>1. <<u, k>> \in Call /\ waits[<<u, k>>] \in WaitType
    BY IInvParts DEF Call, Node, RestOK
  <1>2. waits'[<<u, k>>] =
          IF k = at[t] /\ waits[<<u, k>>] = [owner |-> t, status |-> "pending"]
            THEN [waits[<<u, k>>] EXCEPT !.status = status]
            ELSE waits[<<u, k>>]
    BY <1>1 DEF Notify
  <1>3. CASE k = at[t] /\ waits[<<u, k>>] = [owner |-> t, status |-> "pending"]
    <2>1. /\ waits'[<<u, k>>].status = status /\ waits[<<u, k>>].status = "pending"
          /\ waits[<<u, k>>].owner = t
      BY <1>1, <1>2, <1>3 DEF WaitType
    <2> QED BY <1>3, <2>1 DEF WaitStep, Now
  <1>4. CASE waits'[<<u, k>>] = waits[<<u, k>>]
    BY <1>4 DEF WaitStep
  <1> QED BY <1>2, <1>3, <1>4

\* The owner announces the result after it was pinned.
LEMMA AnnouncePins ==
    ASSUME IInv, PinInv, NEW t \in Thread, Finish(t) \/ FinishEmpty(t)
    PROVE  PinsKept
  <1>1. pc[Now(t)] \in {"finish", "finishEmpty"}
    BY DEF Finish, FinishEmpty
  <1>2. at[t] \in Key
    BY <1>1, IInvUse, InKey
  <1>3. PICK L : Return(t, L)
    BY DEF Finish, FinishEmpty
  <1>4. PICK status : /\ Notify(t, status)
                      /\ \/ status \in {"empty", "aborted"}
                         \/ status = "finished" /\ pc[Now(t)] = "finish"
    BY DEF Finish, FinishEmpty
  <1>5. \A u \in Thread, k \in Key : <<u, k>> # Now(t) => pc'[<<u, k>>] = pc[<<u, k>>]
    BY <1>3, IInvUse DEF Return, TypeOK, Call, Node, Now
  <1>6. ASSUME NEW u \in Thread, NEW k \in Key, <<u, k>> # Now(t)
        PROVE  WaitStep(u, k)
    <2>1. pc'[<<u, k>>] = pc[<<u, k>>]
      BY <1>5, <1>6
    <2> QED BY <1>2, <1>4, <2>1, NotifyWaits
  <1>7. UNCHANGED <<cache, inProgress>>
    BY DEF Finish, FinishEmpty, cacheVars
  <1>8. Pinned(t, at[t]) /\ Now(t) \notin cleared => at[t] \in cache'.pinned
    BY <1>1, <1>2, <1>7 DEF PinInv, Duty, Now
  <1>9. RequestStep
    BY <1>7, SameRequests
  <1> QED BY <1>2, <1>3, <1>6, <1>8, <1>9, ReturnPins

\* The owner announces its failure.
LEMMA AbortPins ==
    ASSUME IInv, NEW t \in Thread, Abort(t)
    PROVE  PinsKept
  <1>1. pc[Now(t)] = "abort" /\ "throwing" \in PCs /\ UNCHANGED <<inProgress, mode, up>>
    BY DEF Abort, PCs
  <1>2. at[t] \in Key /\ Moves(t, "throwing")
    BY <1>1, GotoMoves DEF Abort
  <1>3. \A u \in Thread, k \in Key :
          pc'[<<u, k>>] = IF u = t /\ k = at[t] THEN "throwing" ELSE pc[<<u, k>>]
    BY <1>1, <1>2, IInvUse, MovesLabels DEF Moved
  <1>4. ModeStep
    BY <1>1 DEF ModeStep, Pinned
  <1>5. \A u \in Thread, k \in Key : LabelStep(u, k) /\ Delivers(u, k)
    BY <1>3, ZenonT(40) DEF LabelStep, Delivers, Neutral
  <1>6. \A u \in Thread, k \in Key :
          pc'[<<u, k>>] = pc[<<u, k>>] \/ pc'[<<u, k>>] # "waiting"
    BY <1>3
  <1>7. ASSUME NEW u \in Thread, NEW k \in Key
        PROVE  WaitStep(u, k)
    <2>1. Notify(t, "aborted")
      BY DEF Abort
    <2>2. pc'[<<u, k>>] = pc[<<u, k>>] \/ pc'[<<u, k>>] # "waiting"
      BY <1>6
    <2> QED BY <1>2, <2>1, <2>2, NotifyWaits
  <1> QED BY <1>1, <1>4, <1>5, <1>7, SameRequests DEF PinsKept, PinStep

\* A call that ends with an exception need not pin.
LEMMA UnwindPins ==
    ASSUME IInv, NEW t \in Thread, Unwind(t)
    PROVE  PinsKept
  <1> DEFINE label == Handler(pc[<<t, up[Now(t)]>>])
  <1>1. TypeOK /\ CallsNested
    BY IInvUse
  <1>2. Ends(t, label)
    BY <1>1, UnwindEnds
  <1>3. label \in PCs /\ label \in {"failing", "throwing"}
    BY DEF Handler, PCs
  <1>4. pc[<<t, at[t]>>] = "throwing" /\ UNCHANGED <<inProgress, waits>>
    BY DEF Unwind, Now
  <1> HIDE DEF label
  <1>5. ModeStep
    BY <1>1, <1>2, <1>3, EndsMode
  <1>6. Ended(t, label)
    BY <1>1, <1>2, <1>3, EndsLabels
  <1> USE DEF Ended
  <1>7. ASSUME NEW u \in Thread, NEW k \in Key
        PROVE  LabelStep(u, k) /\ WaitStep(u, k) /\ Delivers(u, k)
    <2>1. CASE u = t /\ k = up[Now(t)]
      BY <1>3, <1>6, <2>1 DEF LabelStep, WaitStep, Delivers, Neutral
    <2>2. CASE u = t /\ k = at[t] /\ k # up[Now(t)]
      BY <1>4, <1>6, <2>2 DEF LabelStep, WaitStep, Delivers, Neutral
    <2>3. CASE ~(u = t /\ k \in {at[t], up[Now(t)]})
      <3>1. pc'[<<u, k>>] = pc[<<u, k>>]
        BY <1>6, <2>3
      <3> QED BY <1>4, <3>1 DEF LabelStep, WaitStep, Delivers
    <2> QED BY <2>1, <2>2, <2>3
  <1> QED BY <1>4, <1>5, <1>7, SameRequests DEF PinsKept, PinStep

\* A thread that is told of the result finds it pinned.
LEMMA WakePins ==
    ASSUME IInv, PinInv, NEW t \in Thread, Wake(t)
    PROVE  PinsKept
  <1>1. pc[Now(t)] = "waiting" /\ UNCHANGED <<cache, inProgress>>
    BY DEF Wake, cacheVars
  <1>2. at[t] \in Key /\ TypeOK
    BY <1>1, IInvUse, InKey
  <1>3. \A u \in Thread, k \in Key : <<u, k>> # Now(t) => waits'[<<u, k>>] = waits[<<u, k>>]
    BY <1>2 DEF Wake, TypeOK, Call, Node
  <1>4. CASE Return(t, {}) /\ waits[Now(t)].status = "finished"
    <2>1. Pinned(t, at[t]) /\ Now(t) \notin cleared => at[t] \in cache'.pinned
      BY <1>1, <1>2, <1>4 DEF PinInv, Duty, Waited, Now
    <2>2. \A u \in Thread, k \in Key : <<u, k>> # Now(t) => pc'[<<u, k>>] = pc[<<u, k>>]
      BY <1>2, <1>4 DEF Return, TypeOK, Call, Node, Now
    <2>3. \A u \in Thread, k \in Key : <<u, k>> # Now(t) => WaitStep(u, k)
      BY <1>3, <2>2 DEF WaitStep
    <2>4. RequestStep
      BY <1>1, SameRequests
    <2> QED BY <1>2, <1>4, <2>1, <2>3, <2>4, ReturnPins
  <1>5. ASSUME NEW label \in {"throwing", "fallback"}, Goto(t, label), UNCHANGED <<mode, up>>
        PROVE  PinsKept
    <2>1. \A u \in Thread, k \in Key :
            /\ <<u, k>> # Now(t) => pc'[<<u, k>>] = pc[<<u, k>>]
            /\ <<u, k>> = Now(t) => pc'[<<u, k>>] = label
      BY <1>2, <1>5 DEF Goto, TypeOK, Call, Node
    <2>2. \A u \in Thread, k \in Key : LabelStep(u, k) /\ WaitStep(u, k) /\ Delivers(u, k)
      <3> SUFFICES ASSUME NEW u \in Thread, NEW k \in Key
                   PROVE  LabelStep(u, k) /\ WaitStep(u, k) /\ Delivers(u, k)
        OBVIOUS
      <3>1. CASE <<u, k>> = Now(t)
        <4>1. pc'[<<u, k>>] = label
          BY <2>1, <3>1
        <4> QED BY <4>1 DEF LabelStep, WaitStep, Delivers, Neutral
      <3>2. CASE <<u, k>> # Now(t)
        <4>1. pc'[<<u, k>>] = pc[<<u, k>>] /\ waits'[<<u, k>>] = waits[<<u, k>>]
          BY <1>3, <2>1, <3>2
        <4> QED BY <4>1 DEF LabelStep, WaitStep, Delivers
      <3> QED BY <3>1, <3>2
    <2>3. ModeStep
      BY <1>5 DEF ModeStep, Pinned
    <2> QED BY <1>1, <2>2, <2>3, SameRequests DEF PinsKept, PinStep
  <1>6. CASE waits[Now(t)].status = "finished"
    BY <1>4, <1>6 DEF Wake
  <1>7. CASE waits[Now(t)].status = "aborted"
    BY <1>5, <1>7 DEF Wake
  <1>8. CASE waits[Now(t)].status \notin {"finished", "aborted"}
    BY <1>5, <1>8 DEF Wake
  <1> QED BY <1>6, <1>7, <1>8

\* A thread that computes the result itself pins it itself.
LEMMA FallbackPins ==
    ASSUME IInv, CacheInv, NEW t \in Thread, InsertFallback(t)
    PROVE  PinsKept
  <1>1. pc[Now(t)] = "insert" /\ UNCHANGED inProgress
    BY DEF InsertFallback
  <1>2. at[t] \in Key
    BY <1>1, IInvUse, InKey
  <1>3. CASE Raise(t, "cache")
    BY <1>1, <1>3, RaisePins
  <1>4. CASE /\ cache' = TryInsert(cache, limits, at[t], Pinned(t, at[t]))
             /\ Return(t, {}) /\ UNCHANGED waits
    <2>1. Pinned(t, at[t]) \in BOOLEAN
      BY DEF Pinned
    <2>2. Pinned(t, at[t]) => at[t] \in cache'.pinned
      BY <1>2, <1>4, <2>1, TryInsertPins DEF CacheInv
    <2> QED BY <1>1, <1>2, <1>4, <2>2, QuietReturn
  <1> QED BY <1>3, <1>4 DEF InsertFallback

\* All steps.
LEMMA NextPins ==
    ASSUME IInv, CacheInv, PinInv, [TrackedNext]_trackedVars
    PROVE  PinsKept
  <1>1. ASSUME NEW t \in Thread, Step(t)
        PROVE  PinsKept
    BY <1>1, RequestPins, CallPins, ComputePins, LookupPins, StorePins, DropPins,
       AnnouncePins, AbortPins, UnwindPins, WakePins, FallbackPins DEF Step
  <1>2. ASSUME NEW t \in Thread, BeginQuery(t)
        PROVE  PinsKept
    BY <1>2, RequestPins
  <1>3. ASSUME NEW t \in Thread, ReadFromCache(t)
        PROVE  PinsKept
    BY <1>3, StillPins DEF ReadFromCache, threadVars
  <1>4. CASE Command
    BY <1>4, StillPins DEF Command, threadVars
  <1>5. CASE UNCHANGED trackedVars
    BY <1>5, StillPins DEF trackedVars, vars
  <1> QED BY <1>1, <1>2, <1>3, <1>4, <1>5 DEF TrackedNext, Next

\* When a call of computeOnce that pins its result returns without an
\* exception, the result is pinned, whichever thread computed it and whether
\* or not that thread meant to pin it, unless the whole cache was cleared
\* during the call.
THEOREM PinsDelivered == TrackedSpec => PinnedWhenReturned
  <1>1. TrackedInit => IInv /\ CacheInv /\ PinInv
    <2> SUFFICES ASSUME TrackedInit PROVE IInv /\ CacheInv /\ PinInv
      OBVIOUS
    <2>1. IInv /\ CacheInv
      BY InitIInv, InitCacheInv DEF TrackedInit, Init
    <2>2. \A t \in Thread, k \in Key : pc[<<t, k>>] = "none"
      BY DEF TrackedInit, Init, Call, Node
    <2> QED BY <2>1, <2>2 DEF PinInv, Duty
  <1>2. IInv /\ CacheInv /\ PinInv /\ [TrackedNext]_trackedVars => IInv' /\ CacheInv' /\ PinInv'
    <2> SUFFICES ASSUME IInv, CacheInv, PinInv, [TrackedNext]_trackedVars
                 PROVE  IInv' /\ CacheInv' /\ PinInv'
      OBVIOUS
    <2>1. [Next]_vars
      BY DEF TrackedNext, trackedVars
    <2>2. IInv' /\ CacheInv'
      BY <2>1, NextIInv, ConcurrentCacheInv
    <2>3. PinStep /\ Remembered
      BY NextPins, ClearsRemembered DEF PinsKept
    <2> QED BY <2>2, <2>3, PinStepKeeps
  <1>3. IInv /\ CacheInv /\ PinInv /\ [TrackedNext]_trackedVars =>
          [\A t \in Thread : \A k \in Key \ Uncacheable :
             (pc[<<t, k>>] \notin {"none", "throwing"} /\ pc'[<<t, k>>] = "none"
                /\ Pinned(t, k) /\ <<t, k>> \notin cleared)
             => k \in cache'.pinned]_trackedVars
    BY NextPins DEF PinsKept, Delivers
  <1> QED BY <1>1, <1>2, <1>3, PTL DEF TrackedSpec, PinnedWhenReturned
=============================================================================
