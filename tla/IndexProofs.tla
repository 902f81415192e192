----------------------------- MODULE IndexProofs -----------------------------
(***************************************************************************)
(* Proofs about IndexBuilder for every input, every size of batches, every *)
(* number of item maps and of writers, and every interleaving of them, and *)
(* about IndexRebuilder for every vocabulary, every set of new words and   *)
(* every set of blocks of blank nodes.                                     *)
(***************************************************************************)
EXTENDS IndexBuilder, IndexRebuilder, FiniteSetTheorems, SequenceTheorems, TLAPS

-----------------------------------------------------------------------------
(***************************************************************************)
(* Sequences of sequences.                                                 *)
(***************************************************************************)

\* A non-empty set of natural numbers has a least one.
LEMMA LeastNumber ==
    ASSUME NEW T, T \subseteq Nat, T # {}
    PROVE  \E n \in T : \A m \in T : n <= m
  <1>1. PICK n \in T : \A m \in T : <<m, n>> \notin OpToRel(<, Nat)
    BY NatLessThanWellFounded, WFMin, Zenon
  <1>2. \A m \in T : ~(m < n)
    BY <1>1, Zenon DEF OpToRel
  <1> QED BY <1>2

\* A set that has 0 and with each of its numbers the next one, up to a
\* limit, has all of them.
LEMMA AllUpTo ==
    ASSUME NEW limit \in Nat, NEW T, 0 \in T,
           \A n \in 0 .. limit - 1 : n \in T => n + 1 \in T
    PROVE  \A n \in 0 .. limit : n \in T
  <1> DEFINE Bad == {n \in 0 .. limit : n \notin T}
  <1>1. CASE Bad # {}
    <2>1. Bad \subseteq Nat
      OBVIOUS
    <2>2. PICK n \in Bad : \A m \in Bad : n <= m
      <3> HIDE DEF Bad
      <3> QED BY <1>1, <2>1, LeastNumber
    <2>3. n # 0 /\ n - 1 \in 0 .. limit - 1 /\ n - 1 \notin Bad
      BY <2>2
    <2>4. n - 1 \in T
      BY <2>3
    <2>5. (n - 1) + 1 \in T
      BY <2>3, <2>4
    <2> QED BY <2>2, <2>5
  <1> QED BY <1>1

\* A sequence that begins like a and goes on like b.
LEMMA ConcatIs ==
    ASSUME NEW X, NEW a \in Seq(X), NEW b \in Seq(X), NEW c \in Seq(X), Len(c) = Len(a) + Len(b),
           \A i \in 1 .. Len(a) : c[i] = a[i], \A i \in 1 .. Len(b) : c[Len(a) + i] = b[i]
    PROVE  c = a \o b
  <1>1. PICK d : d = a \o b
    OBVIOUS
  <1>2. /\ d \in Seq(X) /\ Len(d) = Len(a) + Len(b) /\ Len(a) \in Nat /\ Len(b) \in Nat
        /\ \A i \in 1 .. Len(a) : d[i] = a[i]
        /\ \A i \in 1 .. Len(b) : d[Len(a) + i] = b[i]
    BY <1>1
  <1>3. ASSUME NEW i \in 1 .. Len(c) PROVE c[i] = d[i]
    <2>1. CASE i <= Len(a)
      BY <1>2, <2>1
    <2>2. CASE i > Len(a)
      <3>1. i - Len(a) \in 1 .. Len(b) /\ i = Len(a) + (i - Len(a))
        BY <1>2, <2>2
      <3>2. c[Len(a) + (i - Len(a))] = d[Len(a) + (i - Len(a))]
        BY <1>2, <3>1
      <3> QED BY <3>1, <3>2
    <2> QED BY <1>2, <2>1, <2>2
  <1> QED BY <1>1, <1>2, <1>3, SeqEqual

\* A sequence with one more element, and a function that is a sequence.
LEMMA AppendIs ==
    ASSUME NEW X, NEW s \in Seq(X), NEW t \in Seq(X), NEW e \in X, Len(t) = Len(s) + 1,
           \A i \in 1 .. Len(s) : t[i] = s[i], t[Len(s) + 1] = e
    PROVE  t = Append(s, e)
  OBVIOUS

\* A function on 1 .. n is a sequence.
LEMMA IsSeq ==
    ASSUME NEW X, NEW n \in Nat, NEW f, f = [i \in 1 .. n |-> f[i]], \A i \in 1 .. n : f[i] \in X
    PROVE  f \in Seq(X) /\ Len(f) = n
  OBVIOUS

\* A part of a sequence.
LEMMA Part ==
    ASSUME NEW X, NEW s \in Seq(X), NEW m \in 1 .. Len(s) + 1, NEW n \in m - 1 .. Len(s)
    PROVE  /\ SubSeq(s, m, n) \in Seq(X) /\ Len(SubSeq(s, m, n)) = n - m + 1
           /\ \A i \in 1 .. n - m + 1 : SubSeq(s, m, n)[i] = s[m + i - 1]
  OBVIOUS

\* The two parts of a sequence.
LEMMA TwoParts ==
    ASSUME NEW X, NEW s \in Seq(X), NEW n \in 0 .. Len(s)
    PROVE  s = SubSeq(s, 1, n) \o SubSeq(s, n + 1, Len(s))
  <1>1. PICK a, b : a = SubSeq(s, 1, n) /\ b = SubSeq(s, n + 1, Len(s))
    OBVIOUS
  <1>2. a \in Seq(X) /\ Len(a) = n /\ \A i \in 1 .. n : a[i] = s[i]
    BY <1>1
  <1>3. b \in Seq(X) /\ Len(b) = Len(s) - n /\ \A i \in 1 .. Len(b) : b[i] = s[n + i]
    BY <1>1
  <1>4. Len(s) = Len(a) + Len(b)
    BY <1>2, <1>3
  <1>5. (\A i \in 1 .. Len(a) : s[i] = a[i]) /\ (\A i \in 1 .. Len(b) : s[Len(a) + i] = b[i])
    BY <1>2, <1>3
  <1>6. s = a \o b
    BY <1>2, <1>3, <1>4, <1>5, ConcatIs
  <1> QED BY <1>1, <1>6

\* The parts of the end of a sequence.
LEMMA PartsOfEnd ==
    ASSUME NEW X, NEW s \in Seq(X), NEW m \in 1 .. Len(s) + 1, NEW t, t = SubSeq(s, m, Len(s)),
           NEW k \in 0 .. Len(t)
    PROVE  /\ SubSeq(t, 1, k) = SubSeq(s, m, m + k - 1)
           /\ SubSeq(t, k + 1, Len(t)) = SubSeq(s, m + k, Len(s))
  <1>1. t \in Seq(X) /\ Len(t) = Len(s) - m + 1 /\ \A i \in 1 .. Len(t) : t[i] = s[m + i - 1]
    BY Part
  <1>2. PICK a, b, c, d : /\ a = SubSeq(t, 1, k) /\ b = SubSeq(s, m, m + k - 1)
                          /\ c = SubSeq(t, k + 1, Len(t)) /\ d = SubSeq(s, m + k, Len(s))
    OBVIOUS
  <1>3. a \in Seq(X) /\ Len(a) = k /\ \A i \in 1 .. k : a[i] = t[i]
    BY <1>1, <1>2
  <1>4. b \in Seq(X) /\ Len(b) = k /\ \A i \in 1 .. k : b[i] = s[m + i - 1]
    BY <1>1, <1>2
  <1>5. a = b
    <2>1. \A i \in 1 .. k : i \in 1 .. Len(t)
      BY <1>1
    <2>2. \A i \in 1 .. Len(a) : a[i] = b[i]
      BY <1>1, <1>3, <1>4, <2>1
    <2> QED BY <1>3, <1>4, <2>2, SeqEqual
  <1>6. c \in Seq(X) /\ Len(c) = Len(t) - k /\ \A i \in 1 .. Len(t) - k : c[i] = t[k + i]
    <2>1. PICK n \in 1 .. Len(t) + 1 : n = k + 1
      BY <1>1
    <2>2. Len(t) \in n - 1 .. Len(t) /\ Len(t) - n + 1 = Len(t) - k
      BY <1>1, <2>1
    <2>3. c = SubSeq(t, n, Len(t))
      BY <1>2, <2>1
    <2>4. c \in Seq(X) /\ Len(c) = Len(t) - n + 1 /\ \A i \in 1 .. Len(t) - n + 1 : c[i] = t[n + i - 1]
      <3>1. t \in Seq(X)
        BY <1>1
      <3> QED BY <2>2, <2>3, <3>1, Part, SMTT(30)
    <2>5. \A i \in 1 .. Len(t) - k : n + i - 1 = k + i
      BY <1>1, <2>1
    <2> QED BY <2>2, <2>4, <2>5
  <1>7. d \in Seq(X) /\ Len(d) = Len(t) - k /\ \A i \in 1 .. Len(t) - k : d[i] = s[m + k + i - 1]
    <2>1. /\ m + k \in 1 .. Len(s) + 1 /\ Len(s) \in (m + k) - 1 .. Len(s)
          /\ Len(s) - (m + k) + 1 = Len(t) - k
      BY <1>1
    <2>2. /\ d \in Seq(X) /\ Len(d) = Len(s) - (m + k) + 1
          /\ \A i \in 1 .. Len(s) - (m + k) + 1 : d[i] = s[(m + k) + i - 1]
      BY <1>2, <2>1, Part
    <2> QED BY <2>1, <2>2
  <1>8. ASSUME NEW i \in 1 .. Len(t) - k PROVE c[i] = d[i]
    <2>1. k + i \in 1 .. Len(t) /\ m + (k + i) - 1 = m + k + i - 1
      BY <1>1
    <2>2. t[k + i] = s[m + (k + i) - 1]
      BY <1>1, <2>1
    <2> QED BY <1>6, <1>7, <2>1, <2>2
  <1>9. c = d
    BY <1>6, <1>7, <1>8, SeqEqual
  <1> QED BY <1>2, <1>5, <1>9

\* The function by which FlattenSeq is computed.
FlatStep(F, s, i) == IF i = 1 THEN s[i] ELSE F[i - 1] \o s[i]
IsFlat(F, s) == F = [i \in 1 .. Len(s) |-> FlatStep(F, s, i)]
FlatOn(F, s, n) == \A i \in 1 .. n : F[i] = FlatStep(F, s, i)

\* FlattenSeq is the last value of the function that IsFlat defines.
LEMMA FlattenDef ==
    ASSUME NEW s, Len(s) # 0
    PROVE  FlattenSeq(s) = (CHOOSE F : IsFlat(F, s))[Len(s)]
  BY DEF FlattenSeq, IsFlat, FlatStep

\* There is such a function.
LEMMA FlatExists ==
    ASSUME NEW X, NEW s \in Seq(Seq(X))
    PROVE  \E F \in [1 .. Len(s) -> Seq(X)] : FlatOn(F, s, Len(s))
  <1> DEFINE Good(n) == \E F \in [1 .. n -> Seq(X)] : \A i \in 1 .. n : F[i] = FlatStep(F, s, i)
             T == {n \in 0 .. Len(s) : Good(n)}
  <1>0. Len(s) \in Nat
    OBVIOUS
  <1>1. 0 \in T
    <2>1. [i \in 1 .. 0 |-> <<>>] \in [1 .. 0 -> Seq(X)]
      OBVIOUS
    <2>2. \A i \in 1 .. 0 : FALSE
      OBVIOUS
    <2>3. Good(0)
      BY <2>1, <2>2
    <2> HIDE DEF Good
    <2> QED BY <1>0, <2>3
  <1>2. ASSUME NEW n \in 0 .. Len(s) - 1, n \in T
        PROVE  n + 1 \in T
    <2>1. PICK F \in [1 .. n -> Seq(X)] : \A i \in 1 .. n : F[i] = FlatStep(F, s, i)
      BY <1>2
    <2> DEFINE G == [i \in 1 .. n + 1 |-> IF i <= n THEN F[i] ELSE FlatStep(F, s, i)]
    <2>2. s[n + 1] \in Seq(X)
      BY <1>0
    <2>3. FlatStep(F, s, n + 1) \in Seq(X)
      BY <2>1, <2>2, ConcatProperties DEF FlatStep
    <2>4. G \in [1 .. n + 1 -> Seq(X)]
      BY <2>1, <2>3
    <2>5. ASSUME NEW i \in 1 .. n + 1 PROVE G[i] = FlatStep(G, s, i)
      <3>1. i # 1 => G[i - 1] = F[i - 1]
        OBVIOUS
      <3>2. FlatStep(G, s, i) = FlatStep(F, s, i)
        BY <3>1 DEF FlatStep
      <3> QED BY <2>1, <3>2
    <2>6. Good(n + 1)
      BY <2>4, <2>5
    <2> HIDE DEF Good
    <2> QED BY <1>0, <2>6
  <1>3. \A n \in 0 .. Len(s) : n \in T
    <2> HIDE DEF T
    <2> QED BY <1>0, <1>1, <1>2, AllUpTo
  <1>4. Good(Len(s))
    <2> HIDE DEF Good
    <2> QED BY <1>0, <1>3
  <1> QED BY <1>4 DEF FlatOn

\* Two such functions agree.
LEMMA FlatUnique ==
    ASSUME NEW s, NEW n \in Nat, NEW F, NEW G,
           FlatOn(F, s, n), FlatOn(G, s, n)
    PROVE  \A i \in 1 .. n : F[i] = G[i]
  <1> DEFINE T == {m \in 0 .. n : m = 0 \/ F[m] = G[m]}
  <1>1. 0 \in T
    OBVIOUS
  <1>2. ASSUME NEW m \in 0 .. n - 1, m \in T
        PROVE  m + 1 \in T
    <2>1. FlatStep(F, s, m + 1) = FlatStep(G, s, m + 1)
      BY <1>2 DEF FlatStep
    <2> QED BY <2>1 DEF FlatOn
  <1>3. \A m \in 0 .. n : m \in T
    <2> HIDE DEF T
    <2> QED BY <1>1, <1>2, AllUpTo
  <1> QED BY <1>3

\* FlattenSeq is the last value of any function that is computed like it.
LEMMA FlattenIs ==
    ASSUME NEW X, NEW s \in Seq(Seq(X)), NEW n \in Nat, Len(s) = n, n # 0, NEW G, FlatOn(G, s, n)
    PROVE  FlattenSeq(s) = G[n]
  <1>1. PICK F \in [1 .. n -> Seq(X)] : FlatOn(F, s, n)
    BY FlatExists
  <1>2. IsFlat(F, s)
    <2> DEFINE H == [i \in 1 .. Len(s) |-> FlatStep(F, s, i)]
    <2>1. F = H
      BY <1>1 DEF FlatOn
    <2> QED BY <2>1 DEF IsFlat
  <1>3. PICK H : H = (CHOOSE f : IsFlat(f, s))
    OBVIOUS
  <1>4. IsFlat(H, s)
    BY <1>2, <1>3
  <1>5. FlatOn(H, s, n)
    BY <1>4 DEF IsFlat, FlatOn
  <1>6. \A i \in 1 .. n : H[i] = G[i]
    BY <1>5, FlatUnique
  <1>7. FlattenSeq(s) = H[n]
    BY <1>3, FlattenDef
  <1> QED BY <1>6, <1>7

\* No sequences flatten to the empty one, and one more is appended.
LEMMA FlattenEmpty == FlattenSeq(<<>>) = <<>>
  BY DEF FlattenSeq

\* A sequence of sequences that goes on for one more.
LEMMA FlattenLast ==
    ASSUME NEW X, NEW s \in Seq(Seq(X)), NEW t \in Seq(Seq(X)), NEW n \in Nat,
           Len(s) = n, Len(t) = n + 1, \A i \in 1 .. n : t[i] = s[i]
    PROVE  /\ FlattenSeq(s) \in Seq(X)
           /\ FlattenSeq(t) = FlattenSeq(s) \o t[n + 1]
  <1>1. PICK G \in [1 .. n + 1 -> Seq(X)] : FlatOn(G, t, n + 1)
    <2>1. \E G \in [1 .. Len(t) -> Seq(X)] : FlatOn(G, t, Len(t))
      BY FlatExists, ZenonT(30)
    <2> QED BY <2>1, ZenonT(30)
  <1>2. FlattenSeq(t) = G[n + 1]
    BY <1>1, FlattenIs
  <1>3. t[n + 1] \in Seq(X)
    OBVIOUS
  <1>4. CASE n = 0
    <2>1. s = <<>>
      BY <1>4
    <2>2. FlattenSeq(s) = <<>>
      BY <2>1, FlattenEmpty
    <2>3. G[n + 1] = t[n + 1]
      BY <1>1, <1>4 DEF FlatStep, FlatOn
    <2> QED BY <1>2, <1>3, <2>2, <2>3, ConcatEmptySeq, EmptySeq
  <1>5. CASE n # 0
    <2>1. ASSUME NEW i \in 1 .. n PROVE G[i] = FlatStep(G, s, i)
      <3>1. FlatStep(G, s, i) = FlatStep(G, t, i)
        BY DEF FlatStep
      <3> QED BY <1>1, <3>1 DEF FlatOn
    <2>2. FlatOn(G, s, n)
      BY <2>1 DEF FlatOn
    <2>3. FlattenSeq(s) = G[n]
      BY <1>5, <2>2, FlattenIs
    <2>4. n \in 1 .. n + 1 /\ n + 1 \in 1 .. n + 1
      BY <1>5
    <2>5. G[n + 1] = G[n] \o t[n + 1]
      BY <1>1, <1>5, <2>4 DEF FlatStep, FlatOn
    <2> QED BY <1>1, <1>2, <2>3, <2>4, <2>5
  <1> QED BY <1>4, <1>5

\* The same, with the last one appended.
LEMMA FlattenAppend ==
    ASSUME NEW X, NEW s \in Seq(Seq(X)), NEW e \in Seq(X)
    PROVE  /\ FlattenSeq(s) \in Seq(X)
           /\ FlattenSeq(Append(s, e)) = FlattenSeq(s) \o e
  <1>1. /\ Append(s, e) \in Seq(Seq(X)) /\ Len(Append(s, e)) = Len(s) + 1
        /\ \A i \in 1 .. Len(s) : Append(s, e)[i] = s[i]
        /\ Append(s, e)[Len(s) + 1] = e /\ Len(s) \in Nat
    BY AppendProperties
  <1> QED BY <1>1, FlattenLast

\* The beginning of a sequence of sequences.
LEMMA FlattenPrefix ==
    ASSUME NEW X, NEW s \in Seq(Seq(X)), NEW m \in 0 .. Len(s) - 1
    PROVE  /\ FlattenSeq(SubSeq(s, 1, m)) \in Seq(X)
           /\ FlattenSeq(SubSeq(s, 1, m + 1)) = FlattenSeq(SubSeq(s, 1, m)) \o s[m + 1]
  <1>1. PICK u : u = SubSeq(s, 1, m)
    OBVIOUS
  <1>2. PICK v : v = SubSeq(s, 1, m + 1)
    OBVIOUS
  <1>3. u \in Seq(Seq(X)) /\ Len(u) = m /\ \A i \in 1 .. m : u[i] = s[i]
    BY <1>1
  <1>4. v \in Seq(Seq(X)) /\ Len(v) = m + 1 /\ \A i \in 1 .. m + 1 : v[i] = s[i]
    BY <1>2
  <1>5. m \in Nat /\ m + 1 \in 1 .. m + 1
    OBVIOUS
  <1>6. ASSUME NEW i \in 1 .. m PROVE v[i] = u[i]
    <2>1. i \in 1 .. m + 1
      BY <1>5
    <2> QED BY <1>3, <1>4, <2>1
  <1>7. v[m + 1] = s[m + 1]
    BY <1>4, <1>5
  <1>8. FlattenSeq(u) \in Seq(X) /\ FlattenSeq(v) = FlattenSeq(u) \o v[m + 1]
    BY <1>3, <1>4, <1>5, <1>6, FlattenLast
  <1> QED BY <1>1, <1>2, <1>7, <1>8

\* The shortest and the longest beginning of a sequence.
LEMMA PrefixEnds ==
    ASSUME NEW X, NEW s \in Seq(X)
    PROVE  SubSeq(s, 1, 0) = <<>> /\ SubSeq(s, 1, Len(s)) = s
  BY SubSeqEmpty, SubSeqFull

Regroups(a, b, c) == (a \o b) \o c = a \o (b \o c)

\* Concatenation is associative.
LEMMA Regroup ==
    ASSUME NEW X, NEW a \in Seq(X), NEW b \in Seq(X), NEW c \in Seq(X)
    PROVE  Regroups(a, b, c)
  BY ConcatAssociative DEF Regroups

\* Two sequences of sequences are flattened one after the other.
LEMMA FlattenConcat ==
    ASSUME NEW X, NEW s \in Seq(Seq(X)), NEW t \in Seq(Seq(X))
    PROVE  FlattenSeq(s \o t) = FlattenSeq(s) \o FlattenSeq(t)
  <1> DEFINE Good(m) == FlattenSeq(s \o SubSeq(t, 1, m)) = FlattenSeq(s) \o FlattenSeq(SubSeq(t, 1, m))
             T == {m \in 0 .. Len(t) : Good(m)}
  <1>0. Len(t) \in Nat /\ FlattenSeq(s) \in Seq(X)
    BY FlattenAppend, EmptySeq
  <1>1. 0 \in T
    <2>1. SubSeq(t, 1, 0) = <<>>
      BY PrefixEnds
    <2>2. s \o <<>> = s /\ FlattenSeq(s) \o <<>> = FlattenSeq(s)
      BY <1>0, ConcatEmptySeq
    <2>3. Good(0)
      BY <2>1, <2>2, FlattenEmpty
    <2> HIDE DEF Good
    <2> QED BY <1>0, <2>3
  <1>2. ASSUME NEW m \in 0 .. Len(t) - 1, m \in T
        PROVE  m + 1 \in T
    <2>1. PICK u : u = SubSeq(t, 1, m)
      OBVIOUS
    <2>2. PICK e : e = t[m + 1]
      OBVIOUS
    <2>3. u \in Seq(Seq(X)) /\ e \in Seq(X)
      BY <2>1, <2>2
    <2>4. SubSeq(t, 1, m + 1) = Append(u, e)
      BY <2>1, <2>2
    <2>5. s \o Append(u, e) = Append(s \o u, e) /\ s \o u \in Seq(Seq(X))
      BY <2>3, SMTT(30)
    <2>6. FlattenSeq(Append(s \o u, e)) = FlattenSeq(s \o u) \o e
      BY <2>3, <2>5, FlattenAppend
    <2>7. FlattenSeq(Append(u, e)) = FlattenSeq(u) \o e /\ FlattenSeq(u) \in Seq(X)
      BY <2>3, FlattenAppend
    <2>8. FlattenSeq(s \o u) = FlattenSeq(s) \o FlattenSeq(u)
      BY <1>2, <2>1
    <2>9. Regroups(FlattenSeq(s), FlattenSeq(u), e)
      BY <1>0, <2>3, <2>7, Regroup
    <2>10. FlattenSeq(s \o Append(u, e)) = FlattenSeq(s) \o FlattenSeq(Append(u, e))
      BY <2>5, <2>6, <2>7, <2>8, <2>9, Zenon DEF Regroups
    <2>11. Good(m + 1)
      BY <2>4, <2>10
    <2> HIDE DEF Good
    <2> QED BY <1>0, <2>11
  <1>3. \A m \in 0 .. Len(t) : m \in T
    <2> HIDE DEF T
    <2> QED BY <1>0, <1>1, <1>2, AllUpTo
  <1>4. Good(Len(t))
    <2> HIDE DEF Good
    <2> QED BY <1>0, <1>3
  <1> QED BY <1>4, PrefixEnds

\* The part in the middle of a sequence.
LEMMA MiddlePart ==
    ASSUME NEW X, NEW a \in Seq(X), NEW b \in Seq(X), NEW c \in Seq(X), NEW s, s = (a \o b) \o c
    PROVE  SubSeq(s, Len(a) + 1, Len(a) + Len(b)) = b
  <1>1. PICK d : d = a \o b
    OBVIOUS
  <1>2. /\ d \in Seq(X) /\ Len(d) = Len(a) + Len(b) /\ Len(a) \in Nat /\ Len(b) \in Nat /\ Len(c) \in Nat
        /\ \A i \in 1 .. Len(b) : d[Len(a) + i] = b[i]
    BY <1>1
  <1>3. /\ s \in Seq(X) /\ Len(s) = Len(d) + Len(c)
        /\ \A i \in 1 .. Len(d) : s[i] = d[i]
    BY <1>1, <1>2
  <1>4. PICK m, n : m = Len(a) + 1 /\ n = Len(a) + Len(b)
    OBVIOUS
  <1>5. m \in 1 .. Len(s) + 1 /\ n \in m - 1 .. Len(s) /\ n - m + 1 = Len(b)
    BY <1>2, <1>3, <1>4
  <1>6. PICK t : t = SubSeq(s, m, n)
    OBVIOUS
  <1>7. t \in Seq(X) /\ Len(t) = Len(b) /\ \A i \in 1 .. Len(b) : t[i] = s[m + i - 1]
    BY <1>3, <1>5, <1>6, Part, SMTT(30)
  <1>8. ASSUME NEW i \in 1 .. Len(b) PROVE t[i] = b[i]
    <2>1. m + i - 1 = Len(a) + i /\ Len(a) + i \in 1 .. Len(d)
      BY <1>2, <1>4
    <2> QED BY <1>2, <1>3, <1>7, <2>1
  <1>9. t = b
    BY <1>7, <1>8, SeqEqual
  <1> QED BY <1>4, <1>6, <1>9

\* One of the parts of a flattened sequence.
LEMMA FlattenSlice ==
    ASSUME NEW X, NEW s \in Seq(Seq(X)), NEW m \in 0 .. Len(s) - 1,
           NEW before, before = Len(FlattenSeq(SubSeq(s, 1, m))),
           NEW after, after = Len(FlattenSeq(SubSeq(s, 1, m + 1)))
    PROVE  /\ after = before + Len(s[m + 1])
           /\ SubSeq(FlattenSeq(s), before + 1, before + Len(s[m + 1])) = s[m + 1]
  <1>1. PICK a, b : a = FlattenSeq(SubSeq(s, 1, m)) /\ b = s[m + 1]
    OBVIOUS
  <1>2. PICK d : d = FlattenSeq(SubSeq(s, 1, m + 1))
    OBVIOUS
  <1>3. a \in Seq(X) /\ d = a \o b
    BY <1>1, <1>2, FlattenPrefix
  <1>4. b \in Seq(X)
    BY <1>1
  <1>5. after = Len(a) + Len(b)
    BY <1>2, <1>3, <1>4
  <1>6. PICK u, v : u = SubSeq(s, 1, m + 1) /\ v = SubSeq(s, m + 2, Len(s))
    OBVIOUS
  <1>7. m + 1 \in 0 .. Len(s) /\ (m + 1) + 1 = m + 2 /\ m + 1 \in 1 - 1 .. Len(s)
        /\ 1 \in 1 .. Len(s) + 1 /\ m + 2 \in 1 .. Len(s) + 1 /\ Len(s) \in (m + 2) - 1 .. Len(s)
    OBVIOUS
  <1>8. u \in Seq(Seq(X)) /\ v \in Seq(Seq(X))
    BY <1>6, <1>7, Part
  <1>9. s = u \o v
    BY <1>6, <1>7, TwoParts
  <1>10. FlattenSeq(s) = FlattenSeq(u) \o FlattenSeq(v)
    BY <1>8, <1>9, FlattenConcat
  <1>11. PICK c : c = FlattenSeq(v)
    OBVIOUS
  <1>12. c \in Seq(X)
    BY <1>4, <1>8, <1>11, FlattenAppend
  <1>13. FlattenSeq(s) = (a \o b) \o c
    BY <1>2, <1>3, <1>6, <1>10, <1>11
  <1>14. SubSeq(FlattenSeq(s), Len(a) + 1, Len(a) + Len(b)) = b
    BY <1>3, <1>4, <1>12, <1>13, MiddlePart
  <1> QED BY <1>1, <1>5, <1>14

\* Two sequences of sequences with the same lengths: each element of the one
\* is where the corresponding element of the other one is.
SameShape(s, t) == Len(s) = Len(t) /\ \A i \in 1 .. Len(s) : Len(s[i]) = Len(t[i])

At(f, g, s, t, p, i, k) == f[p] = s[i][k] /\ g[p] = t[i][k]

Aligned(f, g, s, t, m) ==
    /\ Len(f) = Len(g)
    /\ \A p \in 1 .. Len(f) : \E i \in 1 .. m : \E k \in 1 .. Len(s[i]) : At(f, g, s, t, p, i, k)
    /\ \A i \in 1 .. m : \A k \in 1 .. Len(s[i]) : \E p \in 1 .. Len(f) : At(f, g, s, t, p, i, k)

\* The next of the sequences is where it is in both.
LEMMA AlignedStep ==
    ASSUME NEW X, NEW Y, NEW s \in Seq(Seq(X)), NEW t \in Seq(Seq(Y)), SameShape(s, t),
           NEW m \in 0 .. Len(s) - 1, NEW f \in Seq(X), NEW g \in Seq(Y), Aligned(f, g, s, t, m)
    PROVE  Aligned(f \o s[m + 1], g \o t[m + 1], s, t, m + 1)
  <1>1. PICK a \in Seq(X) : a = s[m + 1]
    OBVIOUS
  <1>2. PICK b \in Seq(Y) : b = t[m + 1]
    BY DEF SameShape
  <1>3. PICK ff \in Seq(X) : ff = f \o a
    BY ConcatProperties
  <1>4. PICK gg \in Seq(Y) : gg = g \o b
    BY ConcatProperties
  <1>5. Len(a) = Len(b) /\ Len(f) = Len(g)
    BY <1>1, <1>2 DEF SameShape, Aligned
  <1>6. Len(a) \in Nat /\ Len(f) \in Nat
    OBVIOUS
  <1>7. Len(ff) = Len(f) + Len(a) /\ Len(gg) = Len(f) + Len(a)
    <2>1. Len(f \o a) = Len(f) + Len(a)
      BY ConcatProperties
    <2>2. Len(g \o b) = Len(g) + Len(b)
      BY ConcatProperties
    <2> QED BY <1>3, <1>4, <1>5, <2>1, <2>2
  <1>8. \A p \in 1 .. Len(f) : ff[p] = f[p] /\ gg[p] = g[p]
    BY <1>3, <1>4, <1>5
  <1>9. \A k \in 1 .. Len(a) : ff[Len(f) + k] = a[k] /\ gg[Len(f) + k] = b[k]
    BY <1>3, <1>4, <1>5, SMTT(30)
  <1>10. ASSUME NEW p \in 1 .. Len(ff)
         PROVE  \E i \in 1 .. m + 1 : \E k \in 1 .. Len(s[i]) : At(ff, gg, s, t, p, i, k)
    <2>1. CASE p <= Len(f)
      <3>1. p \in 1 .. Len(f)
        BY <1>6, <2>1
      <3>2. PICK i \in 1 .. m : \E k \in 1 .. Len(s[i]) : At(f, g, s, t, p, i, k)
        BY <3>1 DEF Aligned
      <3>3. PICK k \in 1 .. Len(s[i]) : At(f, g, s, t, p, i, k)
        BY <3>2
      <3>4. At(ff, gg, s, t, p, i, k)
        BY <1>8, <3>1, <3>3 DEF At
      <3>5. i \in 1 .. m + 1
        OBVIOUS
      <3> QED BY <3>4, <3>5
    <2>2. CASE p > Len(f)
      <3>1. PICK k \in 1 .. Len(a) : p = Len(f) + k
        <4>1. p - Len(f) \in 1 .. Len(a) /\ p = Len(f) + (p - Len(f))
          BY <1>6, <1>7, <2>2
        <4> QED BY <4>1
      <3>2. At(ff, gg, s, t, p, m + 1, k) /\ k \in 1 .. Len(s[m + 1])
        BY <1>1, <1>2, <1>9, <3>1 DEF At
      <3>3. m + 1 \in 1 .. m + 1
        OBVIOUS
      <3> QED BY <3>2, <3>3
    <2> QED BY <1>6, <1>7, <2>1, <2>2
  <1>11. ASSUME NEW i \in 1 .. m + 1, NEW k \in 1 .. Len(s[i])
         PROVE  \E p \in 1 .. Len(ff) : At(ff, gg, s, t, p, i, k)
    <2>1. CASE i = m + 1
      <3>1. Len(f) + k \in 1 .. Len(ff)
        BY <1>1, <1>6, <1>7, <2>1, SMTT(30)
      <3>2. At(ff, gg, s, t, Len(f) + k, i, k)
        BY <1>1, <1>2, <1>9, <2>1 DEF At
      <3> QED BY <3>1, <3>2
    <2>2. CASE i # m + 1
      <3>1. i \in 1 .. m
        BY <2>2
      <3>2. PICK p \in 1 .. Len(f) : At(f, g, s, t, p, i, k)
        BY <3>1 DEF Aligned
      <3>3. At(ff, gg, s, t, p, i, k) /\ p \in 1 .. Len(ff)
        BY <1>6, <1>7, <1>8, <3>2 DEF At
      <3> QED BY <3>3
    <2> QED BY <2>1, <2>2
  <1>12. Aligned(ff, gg, s, t, m + 1)
    BY <1>7, <1>10, <1>11 DEF Aligned
  <1> QED BY <1>1, <1>2, <1>3, <1>4, <1>12

\* So all of them are.
LEMMA FlattenAligned ==
    ASSUME NEW X, NEW Y, NEW s \in Seq(Seq(X)), NEW t \in Seq(Seq(Y)), SameShape(s, t)
    PROVE  /\ FlattenSeq(s) \in Seq(X) /\ FlattenSeq(t) \in Seq(Y)
           /\ Aligned(FlattenSeq(s), FlattenSeq(t), s, t, Len(s))
  <1> DEFINE Good(m) == Aligned(FlattenSeq(SubSeq(s, 1, m)), FlattenSeq(SubSeq(t, 1, m)), s, t, m)
             T == {m \in 0 .. Len(s) : Good(m)}
  <1>0. Len(s) \in Nat /\ Len(t) = Len(s)
    BY DEF SameShape
  <1>1. 0 \in T
    <2>1. SubSeq(s, 1, 0) = <<>> /\ SubSeq(t, 1, 0) = <<>>
      BY PrefixEnds
    <2>2. Aligned(<<>>, <<>>, s, t, 0)
      BY DEF Aligned
    <2>3. Good(0)
      BY <2>1, <2>2, FlattenEmpty
    <2> HIDE DEF Good
    <2> QED BY <1>0, <2>3
  <1>2. ASSUME NEW m \in 0 .. Len(s) - 1, m \in T
        PROVE  m + 1 \in T
    <2>1. PICK f \in Seq(X) : f = FlattenSeq(SubSeq(s, 1, m))
      BY FlattenPrefix
    <2>2. PICK g \in Seq(Y) : g = FlattenSeq(SubSeq(t, 1, m))
      BY <1>0, FlattenPrefix
    <2>3. FlattenSeq(SubSeq(s, 1, m + 1)) = f \o s[m + 1]
      BY <2>1, FlattenPrefix
    <2>4. FlattenSeq(SubSeq(t, 1, m + 1)) = g \o t[m + 1]
      BY <1>0, <2>2, FlattenPrefix
    <2>5. Aligned(f, g, s, t, m)
      BY <1>2, <2>1, <2>2
    <2>6. Aligned(f \o s[m + 1], g \o t[m + 1], s, t, m + 1)
      BY <2>5, AlignedStep
    <2>7. Good(m + 1)
      BY <2>3, <2>4, <2>6
    <2> HIDE DEF Good
    <2> QED BY <1>0, <2>7
  <1>3. \A m \in 0 .. Len(s) : m \in T
    <2> HIDE DEF T
    <2> QED BY <1>0, <1>1, <1>2, AllUpTo
  <1>4. Good(Len(s))
    <2> HIDE DEF Good
    <2> QED BY <1>0, <1>3
  <1>5. SubSeq(s, 1, Len(s)) = s /\ SubSeq(t, 1, Len(s)) = t
    BY <1>0, PrefixEnds
  <1>6. FlattenSeq(s) \in Seq(X) /\ FlattenSeq(t) \in Seq(Y)
    BY FlattenAppend, EmptySeq
  <1> QED BY <1>4, <1>5, <1>6

-----------------------------------------------------------------------------
(***************************************************************************)
(* The elements of a finite set in an order.                               *)
(***************************************************************************)
IsOrder(S, R) ==
    /\ \A x \in S : <<x, x>> \in R
    /\ \A x, y \in S : <<x, y>> \in R \/ <<y, x>> \in R
    /\ \A x, y \in S : <<x, y>> \in R /\ <<y, x>> \in R => x = y
    /\ \A x, y, z \in S : <<x, y>> \in R /\ <<y, z>> \in R => <<x, z>> \in R

UpTo(S, R, x) == {y \in S : <<y, x>> \in R}
Rank(S, R, x) == Cardinality(UpTo(S, R, x))

\* A rank in an order of a finite set is at most the size of the set.
LEMMA RankRange ==
    ASSUME NEW S, IsFiniteSet(S), NEW R, IsOrder(S, R), NEW x \in S
    PROVE  /\ IsFiniteSet(UpTo(S, R, x))
           /\ Rank(S, R, x) \in 1 .. Cardinality(S)
           /\ Cardinality(S) \in Nat
  <1>1. UpTo(S, R, x) \in SUBSET S /\ x \in UpTo(S, R, x)
    BY DEF UpTo, IsOrder
  <1>2. IsFiniteSet(UpTo(S, R, x)) /\ Cardinality(UpTo(S, R, x)) <= Cardinality(S)
    BY <1>1, FS_Subset
  <1>3. Cardinality(UpTo(S, R, x)) \in Nat /\ Cardinality(S) \in Nat
    BY <1>2, FS_CardinalityType
  <1>4. Cardinality(UpTo(S, R, x)) # 0
    BY <1>1, <1>2, FS_EmptySet
  <1> QED BY <1>2, <1>3, <1>4 DEF Rank

\* A later element has a greater rank.
LEMMA RankLess ==
    ASSUME NEW S, IsFiniteSet(S), NEW R, IsOrder(S, R), NEW x \in S, NEW y \in S,
           <<x, y>> \in R, x # y
    PROVE  Rank(S, R, x) < Rank(S, R, y)
  <1>1. UpTo(S, R, x) \in SUBSET UpTo(S, R, y)
    BY DEF UpTo, IsOrder
  <1>2. y \in UpTo(S, R, y) /\ y \notin UpTo(S, R, x)
    BY DEF UpTo, IsOrder
  <1>3. IsFiniteSet(UpTo(S, R, y)) /\ Rank(S, R, x) \in Nat /\ Rank(S, R, y) \in Nat
    BY RankRange
  <1>4. Rank(S, R, x) <= Rank(S, R, y) /\ Rank(S, R, x) # Rank(S, R, y)
    BY <1>1, <1>2, <1>3, FS_Subset DEF Rank
  <1> QED BY <1>3, <1>4

\* Each rank is that of one element.
LEMMA RankUnique ==
    ASSUME NEW S, IsFiniteSet(S), NEW R, IsOrder(S, R), NEW x \in S, NEW y \in S,
           Rank(S, R, x) = Rank(S, R, y)
    PROVE  x = y
  <1>1. Rank(S, R, x) \in Nat /\ Rank(S, R, y) \in Nat
    BY RankRange
  <1>2. <<x, y>> \in R \/ <<y, x>> \in R
    BY DEF IsOrder
  <1> QED BY <1>1, <1>2, RankLess

\* Every number up to the size of the set is the rank of an element.
LEMMA RankOnto ==
    ASSUME NEW S, IsFiniteSet(S), NEW R, IsOrder(S, R), NEW k \in 1 .. Cardinality(S)
    PROVE  \E x \in S : Rank(S, R, x) = k
  <1> DEFINE T == 1 .. Cardinality(S)
             f == [x \in S |-> Rank(S, R, x)]
  <1>1. Cardinality(S) \in Nat
    BY FS_CardinalityType
  <1>2. IsFiniteSet(T) /\ Cardinality(T) = Cardinality(S)
    BY <1>1, FS_Interval
  <1>3. f \in [S -> T]
    BY RankRange
  <1>4. \A x, y \in S : f[x] = f[y] => x = y
    BY RankUnique
  <1>5. f \in Injection(S, T)
    <2> HIDE DEF f, T
    <2> QED BY <1>3, <1>4 DEF Injection, IsInjective
  <1>6. f \in Surjection(S, T)
    <2> HIDE DEF f, T
    <2> QED BY <1>2, <1>5, FS_Injection
  <1>7. \E x \in S : f[x] = k
    <2>1. k \in T
      OBVIOUS
    <2> HIDE DEF f, T
    <2> QED BY <1>6, <2>1 DEF Surjection
  <1> QED BY <1>7

\* e lists the elements of s at the positions P: the place of a position is
\* that of its element.
Lists(e, s, P) ==
    /\ Len(e) = Cardinality(P)
    /\ \A n \in P : PlaceAmong(P, n) \in 1 .. Len(e) /\ e[PlaceAmong(P, n)] = s[n]
    /\ \A k \in 1 .. Len(e) : \E n \in P : PlaceAmong(P, n) = k
    /\ \A m, n \in P : m < n => PlaceAmong(P, m) < PlaceAmong(P, n)

\* ElementsAt lists the elements.
LEMMA ElementsAtLists ==
    ASSUME NEW X, NEW s \in Seq(X), NEW P \in SUBSET DOMAIN s
    PROVE  ElementsAt(s, P) \in Seq(X) /\ Lists(ElementsAt(s, P), s, P)
  <1> DEFINE R == {r \in P \X P : r[1] <= r[2]}
             N == Cardinality(P)
             pick == [k \in 1 .. N |-> CHOOSE n \in P : PlaceAmong(P, n) = k]
             e == [k \in 1 .. N |-> s[CHOOSE n \in P : PlaceAmong(P, n) = k]]
  <1>1. P \subseteq Int /\ DOMAIN s = 1 .. Len(s) /\ Len(s) \in Nat
    OBVIOUS
  <1>2. IsFiniteSet(P)
    <2>1. IsFiniteSet(1 .. Len(s))
      BY <1>1, FS_Interval
    <2>2. P \in SUBSET (1 .. Len(s))
      BY <1>1
    <2> QED BY <2>1, <2>2, FS_Subset
  <1>3. N \in Nat
    BY <1>2, FS_CardinalityType
  <1>4. \A m, n \in P : <<m, n>> \in R <=> m <= n
    OBVIOUS
  <1>5. IsOrder(P, R)
    <2> HIDE DEF R
    <2> QED BY <1>1, <1>4 DEF IsOrder
  <1>6. ASSUME NEW n \in P PROVE PlaceAmong(P, n) = Rank(P, R, n)
    <2>1. {m \in P : m <= n} = UpTo(P, R, n)
      BY <1>4 DEF UpTo
    <2> QED BY <2>1 DEF PlaceAmong, Rank
  <1>7. ASSUME NEW n \in P PROVE PlaceAmong(P, n) \in 1 .. N
    <2> HIDE DEF R
    <2> QED BY <1>2, <1>5, <1>6, RankRange
  <1>8. ASSUME NEW k \in 1 .. N PROVE \E n \in P : PlaceAmong(P, n) = k
    <2> HIDE DEF R
    <2> QED BY <1>2, <1>5, <1>6, RankOnto
  <1>9. ASSUME NEW m \in P, NEW n \in P, PlaceAmong(P, m) = PlaceAmong(P, n) PROVE m = n
    <2> HIDE DEF R
    <2> QED BY <1>2, <1>5, <1>6, <1>9, RankUnique
  <1>10. ASSUME NEW m \in P, NEW n \in P, m < n PROVE PlaceAmong(P, m) < PlaceAmong(P, n)
    <2>1. <<m, n>> \in R /\ m # n
      BY <1>1, <1>4, <1>10
    <2> HIDE DEF R
    <2> QED BY <1>2, <1>5, <1>6, <2>1, RankLess
  <1>11. ASSUME NEW k \in 1 .. N PROVE pick[k] \in P /\ PlaceAmong(P, pick[k]) = k
    BY <1>8
  <1>12. \A k \in 1 .. N : e[k] = s[pick[k]]
    OBVIOUS
  <1>13. ASSUME NEW n \in P PROVE e[PlaceAmong(P, n)] = s[n]
    <2>1. PICK k \in 1 .. N : k = PlaceAmong(P, n)
      BY <1>7
    <2>2. pick[k] = n
      <3> HIDE DEF pick
      <3> QED BY <1>9, <1>11, <2>1
    <2> HIDE DEF e, pick
    <2> QED BY <1>12, <2>1, <2>2
  <1>14. e \in Seq(X) /\ Len(e) = N
    <2>1. \A k \in 1 .. N : s[pick[k]] \in X
      <3> HIDE DEF pick
      <3> QED BY <1>1, <1>11
    <2>2. e \in [1 .. N -> X]
      <3> HIDE DEF N
      <3> QED BY <2>1
    <2> HIDE DEF e, N
    <2> QED BY <1>3, <2>2
  <1>15. ElementsAt(s, P) = e
    <2>1. ElementsAt(s, P) = <<>> \o e
      BY DEF ElementsAt
    <2> HIDE DEF e
    <2> QED BY <1>14, <2>1, ConcatEmptySeq
  <1>16. Lists(e, s, P)
    <2> HIDE DEF e
    <2> QED BY <1>7, <1>8, <1>10, <1>13, <1>14 DEF Lists
  <1> HIDE DEF e
  <1> QED BY <1>14, <1>15, <1>16

\* A place among positions is that of the last position up to there.
LEMMA PlaceOfLast ==
    ASSUME NEW P \in SUBSET Int, NEW f \in P, NEW n \in Int, f <= n,
           \A m \in P : m <= n => m <= f
    PROVE  PlaceAmong(P, n) = PlaceAmong(P, f)
  <1>1. ASSUME NEW m \in P PROVE m <= n <=> m <= f
    <2>1. m \in Int /\ f \in Int
      OBVIOUS
    <2> QED BY <2>1
  <1>2. {m \in P : m <= n} = {m \in P : m <= f}
    BY <1>1
  <1> QED BY <1>2 DEF PlaceAmong

-----------------------------------------------------------------------------
(***************************************************************************)
(* Sorting by words.                                                       *)
(***************************************************************************)
WordEntries(X) == \A x \in X : x.word \in Int /\ x.external \in BOOLEAN

InOrder(v) == \A i, j \in 1 .. Len(v) : i <= j => v[i].word <= v[j].word

Permutes(v, s, pos) ==
    /\ \A n \in DOMAIN s : v[pos[n]] = s[n]
    /\ \A k \in DOMAIN s : \E n \in DOMAIN s : pos[n] = k
    /\ \A m, n \in DOMAIN s : pos[m] = pos[n] => m = n

NotAfter(s, m, n) ==
    \/ isLessInTotalWithExternalFlag(s[m], s[n])
    \/ ~isLessInTotalWithExternalFlag(s[n], s[m]) /\ m <= n

\* The order of the sort as one of numbers.
Flag(x) == IF x.external THEN 0 ELSE 1

\* The order of SortedWords, by the word, the flag and the position.
LEMMA NotAfterByNumbers ==
    ASSUME NEW X, WordEntries(X), NEW s \in Seq(X), NEW m \in DOMAIN s, NEW n \in DOMAIN s
    PROVE  NotAfter(s, m, n) <=>
               \/ s[m].word < s[n].word
               \/ s[m].word = s[n].word /\ Flag(s[m]) < Flag(s[n])
               \/ s[m].word = s[n].word /\ Flag(s[m]) = Flag(s[n]) /\ m <= n
  <1>1. /\ s[m].word \in Int /\ s[n].word \in Int
        /\ s[m].external \in BOOLEAN /\ s[n].external \in BOOLEAN
    <2>1. s[m] \in X /\ s[n] \in X
      OBVIOUS
    <2> QED BY <2>1 DEF WordEntries
  <1> DEFINE a == s[m].word
             b == s[n].word
  <1>2. a \in Int /\ b \in Int
    BY <1>1
  <1>3. /\ isLessInTotalWithExternalFlag(s[m], s[n]) <=> a < b \/ (a = b /\ s[m].external /\ ~s[n].external)
        /\ isLessInTotalWithExternalFlag(s[n], s[m]) <=> b < a \/ (a = b /\ s[n].external /\ ~s[m].external)
    BY DEF isLessInTotalWithExternalFlag
  <1> HIDE DEF a, b
  <1>4. CASE s[m].external /\ s[n].external
    <2>1. Flag(s[m]) = 0 /\ Flag(s[n]) = 0
      BY <1>4 DEF Flag
    <2>2. NotAfter(s, m, n) <=> a < b \/ (~(b < a) /\ m <= n)
      BY <1>3, <1>4 DEF NotAfter
    <2> QED BY <1>2, <2>1, <2>2 DEF a, b
  <1>5. CASE s[m].external /\ ~s[n].external
    <2>1. Flag(s[m]) = 0 /\ Flag(s[n]) = 1
      BY <1>5 DEF Flag
    <2>2. NotAfter(s, m, n) <=> (a < b \/ a = b) \/ (~(b < a) /\ m <= n)
      BY <1>3, <1>5 DEF NotAfter
    <2> QED BY <1>2, <2>1, <2>2 DEF a, b
  <1>6. CASE ~s[m].external /\ s[n].external
    <2>1. Flag(s[m]) = 1 /\ Flag(s[n]) = 0
      BY <1>6 DEF Flag
    <2>2. NotAfter(s, m, n) <=> a < b \/ (~(b < a \/ a = b) /\ m <= n)
      BY <1>3, <1>6 DEF NotAfter
    <2> QED BY <1>2, <2>1, <2>2 DEF a, b
  <1>7. CASE ~s[m].external /\ ~s[n].external
    <2>1. Flag(s[m]) = 1 /\ Flag(s[n]) = 1
      BY <1>7 DEF Flag
    <2>2. NotAfter(s, m, n) <=> a < b \/ (~(b < a) /\ m <= n)
      BY <1>3, <1>7 DEF NotAfter
    <2> QED BY <1>2, <2>1, <2>2 DEF a, b
  <1> QED BY <1>4, <1>5, <1>6, <1>7

\* The positions in the order of the sort.
SortOrder(s) == {r \in (DOMAIN s) \X (DOMAIN s) : NotAfter(s, r[1], r[2])}

\* It is a total order.
LEMMA SortOrderIsOrder ==
    ASSUME NEW X, WordEntries(X), NEW s \in Seq(X)
    PROVE  IsOrder(DOMAIN s, SortOrder(s))
  <1>1. \A m, n \in DOMAIN s : <<m, n>> \in SortOrder(s) <=> NotAfter(s, m, n)
    BY DEF SortOrder
  <1>2. \A n \in DOMAIN s : s[n].word \in Int /\ Flag(s[n]) \in Int /\ n \in Int
    <2>1. \A n \in DOMAIN s : s[n] \in X /\ n \in Int
      OBVIOUS
    <2> QED BY <2>1 DEF WordEntries, Flag
  <1> DEFINE W == [n \in DOMAIN s |-> s[n].word]
             F == [n \in DOMAIN s |-> Flag(s[n])]
  <1>3. W \in [DOMAIN s -> Int] /\ F \in [DOMAIN s -> Int] /\ DOMAIN s \subseteq Int
    BY <1>2
  <1>4. \A m, n \in DOMAIN s : <<m, n>> \in SortOrder(s) <=>
            W[m] < W[n] \/ (W[m] = W[n] /\ (F[m] < F[n] \/ (F[m] = F[n] /\ m <= n)))
    BY <1>1, NotAfterByNumbers
  <1> HIDE DEF W, F
  <1>5. ASSUME NEW x \in DOMAIN s PROVE <<x, x>> \in SortOrder(s)
    BY <1>3, <1>4
  <1>6. ASSUME NEW x \in DOMAIN s, NEW y \in DOMAIN s
        PROVE  /\ <<x, y>> \in SortOrder(s) \/ <<y, x>> \in SortOrder(s)
               /\ <<x, y>> \in SortOrder(s) /\ <<y, x>> \in SortOrder(s) => x = y
    <2>1. W[x] \in Int /\ W[y] \in Int /\ F[x] \in Int /\ F[y] \in Int /\ x \in Int /\ y \in Int
      BY <1>3
    <2>2. /\ <<x, y>> \in SortOrder(s) <=>
                W[x] < W[y] \/ (W[x] = W[y] /\ (F[x] < F[y] \/ (F[x] = F[y] /\ x <= y)))
          /\ <<y, x>> \in SortOrder(s) <=>
                W[y] < W[x] \/ (W[y] = W[x] /\ (F[y] < F[x] \/ (F[y] = F[x] /\ y <= x)))
      BY <1>4
    <2> QED BY <2>1, <2>2
  <1>7. ASSUME NEW x \in DOMAIN s, NEW y \in DOMAIN s, NEW z \in DOMAIN s,
               <<x, y>> \in SortOrder(s), <<y, z>> \in SortOrder(s)
        PROVE  <<x, z>> \in SortOrder(s)
    <2>1. /\ W[x] \in Int /\ W[y] \in Int /\ W[z] \in Int
          /\ F[x] \in Int /\ F[y] \in Int /\ F[z] \in Int
          /\ x \in Int /\ y \in Int /\ z \in Int
      BY <1>3
    <2>2. /\ W[x] < W[y] \/ (W[x] = W[y] /\ (F[x] < F[y] \/ (F[x] = F[y] /\ x <= y)))
          /\ W[y] < W[z] \/ (W[y] = W[z] /\ (F[y] < F[z] \/ (F[y] = F[z] /\ y <= z)))
      BY <1>4, <1>7
    <2>3. W[x] < W[z] \/ (W[x] = W[z] /\ (F[x] < F[z] \/ (F[x] = F[z] /\ x <= z)))
      BY <2>1, <2>2
    <2> QED BY <1>4, <2>3
  <1> QED BY <1>5, <1>6, <1>7 DEF IsOrder

\* SortedWords permutes its elements and puts them in the order of the words.
LEMMA SortedFacts ==
    ASSUME NEW X, WordEntries(X), NEW s \in Seq(X)
    PROVE  /\ SortedWords(s) \in Seq(X) /\ Len(SortedWords(s)) = Len(s)
           /\ InOrder(SortedWords(s))
           /\ \E pos \in [DOMAIN s -> DOMAIN s] : Permutes(SortedWords(s), s, pos)
  <1> DEFINE D == DOMAIN s
             R == SortOrder(s)
             pos == [n \in D |-> Rank(D, R, n)]
             Position(n) == Cardinality({m \in DOMAIN s :
                 \/ isLessInTotalWithExternalFlag(s[m], s[n])
                 \/ ~isLessInTotalWithExternalFlag(s[n], s[m]) /\ m <= n})
             pick == [k \in D |-> CHOOSE n \in D : Position(n) = k]
             v == [k \in D |-> s[pick[k]]]
  <1>1. IsOrder(D, R)
    BY SortOrderIsOrder
  <1>2. D = 1 .. Len(s) /\ Len(s) \in Nat
    OBVIOUS
  <1>3. IsFiniteSet(D) /\ Cardinality(D) = Len(s)
    BY <1>2, FS_Interval, SMTT(30)
  <1>4. ASSUME NEW n \in D PROVE Position(n) = Rank(D, R, n)
    <2>1. {m \in DOMAIN s : \/ isLessInTotalWithExternalFlag(s[m], s[n])
                            \/ ~isLessInTotalWithExternalFlag(s[n], s[m]) /\ m <= n} = UpTo(D, R, n)
      BY DEF UpTo, SortOrder, NotAfter
    <2> QED BY <2>1 DEF Rank
  <1>5. SortedWords(s) = <<>> \o v
    BY DEF SortedWords
  <1> HIDE DEF D, R, Position
  <1>6. \A n \in D : Rank(D, R, n) \in D
    BY <1>1, <1>2, <1>3, RankRange
  <1>7. \A k \in D : \E n \in D : Rank(D, R, n) = k
    BY <1>1, <1>2, <1>3, RankOnto
  <1>8. \A m, n \in D : Rank(D, R, m) = Rank(D, R, n) => m = n
    BY <1>1, <1>3, RankUnique
  <1>9. pos \in [D -> D] /\ \A n \in D : pos[n] = Rank(D, R, n)
    BY <1>6
  <1>10. \A k \in D : pick[k] \in D /\ Rank(D, R, pick[k]) = k
    BY <1>4, <1>7
  <1> HIDE DEF pos, pick
  <1>11. ASSUME NEW n \in D PROVE v[pos[n]] = s[n]
    <2>1. pos[n] \in D /\ pick[pos[n]] = n
      BY <1>8, <1>9, <1>10
    <2> QED BY <2>1
  <1>12. v \in Seq(X) /\ Len(v) = Len(s)
    <2>1. \A k \in D : s[pick[k]] \in X
      BY <1>2, <1>10
    <2>2. v \in [1 .. Len(s) -> X]
      BY <1>2, <2>1
    <2> HIDE DEF v
    <2> QED BY <1>2, <2>2
  <1>13. SortedWords(s) = v
    <2> HIDE DEF v
    <2> QED BY <1>12, <1>5, ConcatEmptySeq
  <1> HIDE DEF v
  <1>14. Permutes(v, s, pos)
    <2>1. \A k \in D : \E n \in D : pos[n] = k
      BY <1>7, <1>9
    <2>2. \A m, n \in D : pos[m] = pos[n] => m = n
      BY <1>8, <1>9
    <2> QED BY <1>11, <2>1, <2>2 DEF Permutes, D
  <1>15. InOrder(v)
    <2> SUFFICES ASSUME NEW i \in D, NEW j \in D, i <= j
                 PROVE  v[i].word <= v[j].word
      BY <1>2, <1>12 DEF InOrder
    <2>1. PICK m \in D : pos[m] = i
      BY <1>7, <1>9
    <2>2. PICK n \in D : pos[n] = j
      BY <1>7, <1>9
    <2>3. v[i] = s[m] /\ v[j] = s[n]
      BY <1>11, <2>1, <2>2
    <2>4. s[m].word \in Int /\ s[n].word \in Int
      BY <1>2 DEF WordEntries
    <2>5. CASE m = n
      BY <2>3, <2>4, <2>5
    <2>6. CASE m # n
      <3>1. ~(<<n, m>> \in R)
        <4>1. SUFFICES ASSUME <<n, m>> \in R PROVE FALSE
          OBVIOUS
        <4>2. Rank(D, R, n) < Rank(D, R, m)
          BY <1>1, <1>3, <2>6, <4>1, RankLess
        <4> QED BY <1>2, <1>9, <2>1, <2>2, <4>2
      <3>2. <<m, n>> \in R
        BY <1>1, <3>1 DEF IsOrder
      <3>3. NotAfter(s, m, n)
        BY <3>2 DEF R, D, SortOrder
      <3>4. s[m].word < s[n].word \/ s[m].word = s[n].word
        BY <3>3, NotAfterByNumbers DEF D
      <3> QED BY <2>3, <2>4, <3>4
    <2> QED BY <2>5, <2>6
  <1> QED BY <1>9, <1>12, <1>13, <1>14, <1>15 DEF D

\* In a sorted sequence equal words are neighbours, so that the first of them
\* is the last position up to any of them where a word is new.
LEMMA GroupStart ==
    ASSUME NEW X, WordEntries(X), NEW v \in Seq(X), InOrder(v), NEW q \in 1 .. Len(v)
    PROVE  \E f \in NewPositions(v) : /\ f <= q /\ v[f].word = v[q].word
                                      /\ \A m \in NewPositions(v) : m <= q => m <= f
  <1> DEFINE T == {n \in 1 .. Len(v) : v[n].word = v[q].word}
  <1>1. T # {} /\ T \subseteq Nat /\ T \subseteq 1 .. Len(v) /\ q \in T
    OBVIOUS
  <1>2. PICK f \in T : \A n \in T : f <= n
    <2> HIDE DEF T
    <2> QED BY <1>1, LeastNumber
  <1>3. f \in 1 .. Len(v) /\ f \in Int /\ f <= q /\ v[f].word = v[q].word
    BY <1>1, <1>2
  <1>4. DOMAIN v = 1 .. Len(v) /\ Len(v) \in Nat
    OBVIOUS
  <1>5. \A n \in 1 .. Len(v) : v[n].word \in Int
    BY <1>4 DEF WordEntries
  <1>6. f \in NewPositions(v)
    <2>1. CASE f = 1
      BY <1>3, <1>4, <2>1 DEF NewPositions
    <2>2. CASE f # 1
      <3>1. f - 1 \in 1 .. Len(v)
        BY <1>3, <1>4, <2>2
      <3>2. f - 1 \notin T
        BY <1>2, <1>3
      <3>3. v[f - 1].word # v[f].word
        BY <1>3, <3>1, <3>2
      <3> QED BY <1>3, <1>4, <3>3 DEF NewPositions
    <2> QED BY <2>1, <2>2
  <1>7. ASSUME NEW m \in NewPositions(v), m <= q, ~(m <= f)
        PROVE  FALSE
    <2>1. m \in 1 .. Len(v) /\ (m = 1 \/ v[m].word # v[m - 1].word)
      BY <1>4 DEF NewPositions
    <2>2. m > f /\ m # 1 /\ m - 1 \in 1 .. Len(v) /\ f <= m - 1
      BY <1>3, <1>4, <1>7, <2>1
    <2>3. v[f].word <= v[m - 1].word /\ v[m - 1].word <= v[m].word /\ v[m].word <= v[q].word
      <3>1. m - 1 <= m /\ m \in 1 .. Len(v)
        BY <2>1
      <3> QED BY <1>3, <1>7, <2>1, <2>2, <3>1 DEF InOrder
    <2>4. v[m].word \in Int /\ v[m - 1].word \in Int /\ v[f].word \in Int
      BY <1>3, <1>5, <2>1, <2>2
    <2> QED BY <1>3, <2>1, <2>2, <2>3, <2>4
  <1> QED BY <1>3, <1>6, <1>7

Increasing(e) == \A i, j \in 1 .. Len(e) : i < j => e[i].word < e[j].word

\* A list of new words: each of them once, and where the word of any element
\* is in the list.
ListsNew(e, v, Q) ==
    /\ Increasing(e)
    /\ \A i \in 1 .. Len(e) : \E n \in Q : e[i] = v[n]
    /\ \A q \in 1 .. Len(v) :
           (\A n \in NewPositions(v) : v[n].word = v[q].word => n \in Q)
           => PlaceAmong(Q, q) \in 1 .. Len(e) /\ e[PlaceAmong(Q, q)].word = v[q].word

\* Some of the new words of a sorted sequence make such a list.
LEMMA ListOfNew ==
    ASSUME NEW X, WordEntries(X), NEW v \in Seq(X), InOrder(v), NEW Q \in SUBSET NewPositions(v),
           NEW e, e = ElementsAt(v, Q)
    PROVE  e \in Seq(X) /\ ListsNew(e, v, Q)
  <1>1. DOMAIN v = 1 .. Len(v) /\ Len(v) \in Nat
    OBVIOUS
  <1>2. Q \in SUBSET DOMAIN v /\ Q \in SUBSET Int /\ Q \subseteq 1 .. Len(v)
    BY <1>1 DEF NewPositions
  <1>3. e \in Seq(X) /\ Lists(e, v, Q)
    BY <1>2, ElementsAtLists
  <1>4. \A n \in 1 .. Len(v) : v[n].word \in Int
    BY <1>1 DEF WordEntries
  <1>5. ASSUME NEW i \in 1 .. Len(e), NEW j \in 1 .. Len(e), i < j
        PROVE  e[i].word < e[j].word
    <2>1. PICK m \in Q : PlaceAmong(Q, m) = i
      BY <1>3 DEF Lists
    <2>2. PICK n \in Q : PlaceAmong(Q, n) = j
      BY <1>3 DEF Lists
    <2>3. e[i] = v[m] /\ e[j] = v[n]
      BY <1>3, <2>1, <2>2 DEF Lists
    <2>4. m \in 1 .. Len(v) /\ n \in 1 .. Len(v) /\ i \in Int /\ j \in Int
      BY <1>2
    <2>5. m < n
      <3>1. m # n
        BY <1>5, <2>1, <2>2, <2>4
      <3>2. ~(n < m)
        BY <1>3, <1>5, <2>1, <2>2, <2>4 DEF Lists
      <3> QED BY <2>4, <3>1, <3>2
    <2>6. n - 1 \in 1 .. Len(v) /\ m <= n - 1 /\ n - 1 <= n
      BY <1>1, <2>4, <2>5
    <2>7. v[m].word <= v[n - 1].word /\ v[n - 1].word <= v[n].word
      BY <2>4, <2>6 DEF InOrder
    <2>8. v[n].word # v[n - 1].word
      BY <2>4, <2>5 DEF NewPositions
    <2>9. v[m].word \in Int /\ v[n - 1].word \in Int /\ v[n].word \in Int
      BY <1>4, <2>4, <2>6
    <2> QED BY <2>3, <2>7, <2>8, <2>9
  <1>6. ASSUME NEW i \in 1 .. Len(e)
        PROVE  \E n \in Q : e[i] = v[n]
    BY <1>3 DEF Lists
  <1>7. ASSUME NEW q \in 1 .. Len(v), \A n \in NewPositions(v) : v[n].word = v[q].word => n \in Q
        PROVE  PlaceAmong(Q, q) \in 1 .. Len(e) /\ e[PlaceAmong(Q, q)].word = v[q].word
    <2>1. PICK f \in NewPositions(v) : /\ f <= q /\ v[f].word = v[q].word
                                       /\ \A m \in NewPositions(v) : m <= q => m <= f
      BY GroupStart
    <2>2. f \in Q
      BY <1>7, <2>1
    <2>3. \A m \in Q : m <= q => m <= f
      BY <2>1
    <2>4. q \in Int
      OBVIOUS
    <2>5. PlaceAmong(Q, q) = PlaceAmong(Q, f)
      BY <1>2, <2>1, <2>2, <2>3, <2>4, PlaceOfLast
    <2>6. PlaceAmong(Q, f) \in 1 .. Len(e) /\ e[PlaceAmong(Q, f)] = v[f]
      BY <1>3, <2>2 DEF Lists
    <2> QED BY <2>1, <2>5, <2>6
  <1> QED BY <1>3, <1>5, <1>6, <1>7 DEF Increasing, ListsNew

-----------------------------------------------------------------------------
(***************************************************************************)
(* The words of a batch.                                                   *)
(***************************************************************************)

Key == [word : Int \ {0}, external : BOOLEAN]
RawTriple == [1 .. 3 -> Int \ {0}]

\* A finite set as a sequence.
LEMMA SetAsSeq ==
    ASSUME NEW S, IsFiniteSet(S)
    PROVE  SetToSeq(S) \in Seq(S) /\ Len(SetToSeq(S)) = Cardinality(S)
  <1>1. Cardinality(S) \in Nat
    BY FS_CardinalityType
  <1>2. PICK f : f \in Bijection(1 .. Cardinality(S), S)
    BY FS_CardinalityType DEF ExistsBijection
  <1>3. f \in [1 .. Cardinality(S) -> S] /\ IsInjective(f)
    BY <1>2 DEF Bijection, Injection, IsInjective
  <1>4. SetToSeq(S) \in [1 .. Cardinality(S) -> S]
    BY <1>3, Zenon DEF SetToSeq
  <1> QED BY <1>1, <1>4

\* All components of some triples, and all words of some keys.
Components(ts) == {w \in Int : \E n \in 1 .. Len(ts) : \E k \in 1 .. 3 : ts[n][k] = w}
KeyWords(keys) == {w \in Int : \E n \in 1 .. Len(keys) : keys[n].word = w}

\* The words of two sequences of keys.
LEMMA KeyWordsConcat ==
    ASSUME NEW a \in Seq(Key), NEW b \in Seq(Key)
    PROVE  a \o b \in Seq(Key) /\ KeyWords(a \o b) = KeyWords(a) \union KeyWords(b)
  <1>1. a \o b \in Seq(Key)
    OBVIOUS
  <1>2. ASSUME NEW w \in Int, NEW n \in 1 .. Len(a \o b), (a \o b)[n].word = w
        PROVE  w \in KeyWords(a) \union KeyWords(b)
    <2>1. CASE n <= Len(a)
      BY <1>2, <2>1 DEF KeyWords
    <2>2. CASE n > Len(a)
      <3>1. n - Len(a) \in 1 .. Len(b) /\ (a \o b)[n] = b[n - Len(a)]
        BY <2>2
      <3> QED BY <1>2, <3>1 DEF KeyWords
    <2> QED BY <2>1, <2>2
  <1>3. ASSUME NEW w \in Int, NEW n \in 1 .. Len(a), a[n].word = w
        PROVE  w \in KeyWords(a \o b)
    <2>1. n \in 1 .. Len(a \o b) /\ (a \o b)[n] = a[n]
      OBVIOUS
    <2> QED BY <1>3, <2>1 DEF KeyWords
  <1>4. ASSUME NEW w \in Int, NEW n \in 1 .. Len(b), b[n].word = w
        PROVE  w \in KeyWords(a \o b)
    <2>1. Len(a) + n \in 1 .. Len(a \o b) /\ (a \o b)[Len(a) + n] = b[n]
      OBVIOUS
    <2> QED BY <1>4, <2>1 DEF KeyWords
  <1>5. KeyWords(a \o b) \subseteq KeyWords(a) \union KeyWords(b)
    <2> SUFFICES ASSUME NEW w \in KeyWords(a \o b) PROVE w \in KeyWords(a) \union KeyWords(b)
      OBVIOUS
    <2> QED BY <1>2 DEF KeyWords
  <1>6. KeyWords(a) \subseteq KeyWords(a \o b)
    <2> SUFFICES ASSUME NEW w \in KeyWords(a) PROVE w \in KeyWords(a \o b)
      OBVIOUS
    <2> QED BY <1>3 DEF KeyWords
  <1>7. KeyWords(b) \subseteq KeyWords(a \o b)
    <2> SUFFICES ASSUME NEW w \in KeyWords(b) PROVE w \in KeyWords(a \o b)
      OBVIOUS
    <2> QED BY <1>4 DEF KeyWords
  <1> QED BY <1>1, <1>5, <1>6, <1>7

\* The components of two sequences of triples.
LEMMA ComponentsConcat ==
    ASSUME NEW a \in Seq(RawTriple), NEW b \in Seq(RawTriple)
    PROVE  /\ a \o b \in Seq(RawTriple)
           /\ Components(a \o b) = Components(a) \union Components(b)
  <1>1. a \o b \in Seq(RawTriple)
    OBVIOUS
  <1>2. ASSUME NEW w \in Int, NEW n \in 1 .. Len(a \o b), NEW k \in 1 .. 3, (a \o b)[n][k] = w
        PROVE  w \in Components(a) \union Components(b)
    <2>1. CASE n <= Len(a)
      <3>1. n \in 1 .. Len(a) /\ (a \o b)[n] = a[n]
        BY <2>1
      <3> QED BY <1>2, <3>1 DEF Components
    <2>2. CASE n > Len(a)
      <3>1. n - Len(a) \in 1 .. Len(b) /\ (a \o b)[n] = b[n - Len(a)]
        BY <2>2
      <3> QED BY <1>2, <3>1 DEF Components
    <2> QED BY <2>1, <2>2
  <1>3. ASSUME NEW w \in Int, NEW n \in 1 .. Len(a), NEW k \in 1 .. 3, a[n][k] = w
        PROVE  w \in Components(a \o b)
    <2>1. n \in 1 .. Len(a \o b) /\ (a \o b)[n] = a[n]
      OBVIOUS
    <2> QED BY <1>3, <2>1 DEF Components
  <1>4. ASSUME NEW w \in Int, NEW n \in 1 .. Len(b), NEW k \in 1 .. 3, b[n][k] = w
        PROVE  w \in Components(a \o b)
    <2>1. Len(a) + n \in 1 .. Len(a \o b) /\ (a \o b)[Len(a) + n] = b[n]
      OBVIOUS
    <2> QED BY <1>4, <2>1 DEF Components
  <1>5. Components(a \o b) \subseteq Components(a) \union Components(b)
    <2> SUFFICES ASSUME NEW w \in Components(a \o b) PROVE w \in Components(a) \union Components(b)
      OBVIOUS
    <2> QED BY <1>2 DEF Components
  <1>6. Components(a) \subseteq Components(a \o b)
    <2> SUFFICES ASSUME NEW w \in Components(a) PROVE w \in Components(a \o b)
      OBVIOUS
    <2> QED BY <1>3 DEF Components
  <1>7. Components(b) \subseteq Components(a \o b)
    <2> SUFFICES ASSUME NEW w \in Components(b) PROVE w \in Components(a \o b)
      OBVIOUS
    <2> QED BY <1>4 DEF Components
  <1> QED BY <1>1, <1>5, <1>6, <1>7

\* The item map is asked for exactly the components of the triples.
LEMMA TriplesAndKeys ==
    ASSUME NEW t \in ParsedTriple
    PROVE  /\ TriplesOf(t) \in Seq(RawTriple) /\ KeysOf(t) \in Seq(Key)
           /\ KeyWords(KeysOf(t)) = Components(TriplesOf(t))
  <1> DEFINE ws == SetToSeq(t.words)
             o == t.spo[3]
             WordKey(w, e) == [word |-> w, external |-> e]
             t1 == <<t.spo>>
             t2 == IF t.lang = <<>> THEN <<>>
                   ELSE << <<t.spo[1], t.lang[2], o>>, <<o, LANGUAGE_PREDICATE, t.lang[1]>> >>
             t3 == [n \in DOMAIN ws |-> <<o, HAS_WORD_PREDICATE, ws[n]>>]
             k1 == [n \in 1 .. 3 |-> WordKey(t.spo[n], t.spo[n] \in Externalized)]
             k2 == IF t.lang = <<>> THEN <<>>
                   ELSE <<WordKey(t.lang[1], FALSE), WordKey(t.lang[2], FALSE),
                          WordKey(LANGUAGE_PREDICATE, FALSE)>>
             k3 == IF t.words = {} THEN <<>> ELSE <<WordKey(HAS_WORD_PREDICATE, FALSE)>>
             k4 == [n \in DOMAIN ws |-> WordKey(ws[n], FALSE)]
  <1>1. /\ t.spo \in RawTriple /\ t.words \subseteq Word /\ IsFiniteSet(t.words)
        /\ t.lang = <<>> \/ t.lang \in Word \X Word
    BY DEF ParsedTriple, RawTriple
  <1>2. ws \in Seq(t.words) /\ Len(ws) \in Nat /\ DOMAIN ws = 1 .. Len(ws)
    BY <1>1, SetAsSeq
  <1>3. t.words = {} <=> Len(ws) = 0
    <2>1. Len(ws) = Cardinality(t.words)
      BY <1>1, SetAsSeq
    <2> QED BY <1>1, <2>1, FS_EmptySet
  <1>4. \A n \in 1 .. Len(ws) : ws[n] \in Word
    BY <1>1, <1>2
  <1>5. t.spo[1] \in Int \ {0} /\ t.spo[2] \in Int \ {0} /\ t.spo[3] \in Int \ {0}
    BY <1>1 DEF RawTriple
  <1>6. t1 \in Seq(RawTriple) /\ Components(t1) = {t.spo[1], t.spo[2], t.spo[3]}
    <2>1. t1 \in Seq(RawTriple) /\ Len(t1) = 1 /\ t1[1] = t.spo
      BY <1>1
    <2> QED BY <1>5, <2>1 DEF Components
  <1>7. /\ t2 \in Seq(RawTriple)
        /\ t.lang = <<>> => Components(t2) = {}
        /\ t.lang # <<>> => Components(t2) = {t.spo[1], o, t.lang[1], t.lang[2], LANGUAGE_PREDICATE}
    <2>1. CASE t.lang = <<>>
      <3>1. t2 \in Seq(RawTriple) /\ Len(t2) = 0
        BY <2>1
      <3> QED BY <2>1, <3>1 DEF Components
    <2>2. CASE t.lang # <<>>
      <3>1. t.lang[1] \in Word /\ t.lang[2] \in Word /\ LANGUAGE_PREDICATE \in Word
        BY <1>1, <2>2, BuildWords
      <3>2. t2 = << <<t.spo[1], t.lang[2], o>>, <<o, LANGUAGE_PREDICATE, t.lang[1]>> >>
        BY <2>2
      <3>3. /\ <<t.spo[1], t.lang[2], o>> \in RawTriple
            /\ <<o, LANGUAGE_PREDICATE, t.lang[1]>> \in RawTriple
        BY <1>5, <3>1 DEF Word, RawTriple
      <3>4. /\ t2 \in Seq(RawTriple) /\ Len(t2) = 2 /\ t2[1] = <<t.spo[1], t.lang[2], o>>
            /\ t2[2] = <<o, LANGUAGE_PREDICATE, t.lang[1]>>
        BY <3>2, <3>3
      <3> HIDE DEF t2
      <3> QED BY <1>5, <2>2, <3>1, <3>4 DEF Components, Word
    <2> QED BY <2>1, <2>2
  <1>8. /\ t3 \in Seq(RawTriple)
        /\ Components(t3) = IF t.words = {} THEN {}
                            ELSE {o, HAS_WORD_PREDICATE} \union {ws[n] : n \in 1 .. Len(ws)}
    <2>1. HAS_WORD_PREDICATE \in Word
      BY BuildWords
    <2>2. \A n \in 1 .. Len(ws) : <<o, HAS_WORD_PREDICATE, ws[n]>> \in RawTriple
      BY <1>4, <1>5, <2>1 DEF Word, RawTriple
    <2>3. /\ t3 \in Seq(RawTriple) /\ Len(t3) = Len(ws)
          /\ \A n \in 1 .. Len(ws) : t3[n] = <<o, HAS_WORD_PREDICATE, ws[n]>>
      BY <1>2, <2>2
    <2>4. \A n \in 1 .. Len(ws) : t3[n][1] = o /\ t3[n][2] = HAS_WORD_PREDICATE /\ t3[n][3] = ws[n]
      BY <2>3
    <2>5. Components(t3) \subseteq {o, HAS_WORD_PREDICATE} \union {ws[n] : n \in 1 .. Len(ws)}
      <3> HIDE DEF t3
      <3> QED BY <2>3, <2>4 DEF Components
    <2>6. Len(ws) # 0 => {o, HAS_WORD_PREDICATE} \subseteq Components(t3)
      <3>1. ASSUME Len(ws) # 0 PROVE 1 \in 1 .. Len(ws)
        BY <1>2, <3>1
      <3> HIDE DEF t3, o
      <3> QED BY <1>5, <2>1, <2>3, <2>4, <3>1 DEF Components, Word, o
    <2>7. {ws[n] : n \in 1 .. Len(ws)} \subseteq Components(t3)
      <3> HIDE DEF t3, ws
      <3> QED BY <1>4, <2>3, <2>4 DEF Components, Word
    <2>8. Len(ws) = 0 => Components(t3) = {}
      <3> HIDE DEF t3, ws
      <3> QED BY <2>3 DEF Components
    <2> HIDE DEF t3, ws, o
    <2> QED BY <1>3, <2>3, <2>5, <2>6, <2>7, <2>8
  <1>9. k1 \in Seq(Key) /\ KeyWords(k1) = {t.spo[1], t.spo[2], t.spo[3]}
    <2>1. k1 \in Seq(Key) /\ Len(k1) = 3 /\ \A n \in 1 .. 3 : k1[n].word = t.spo[n]
      BY <1>5, \A n \in 1 .. 3 : t.spo[n] \in Int \ {0} DEF Key
    <2> HIDE DEF k1
    <2> QED BY <1>5, <2>1 DEF KeyWords
  <1>10. /\ k2 \in Seq(Key)
         /\ t.lang = <<>> => KeyWords(k2) = {}
         /\ t.lang # <<>> => KeyWords(k2) = {t.lang[1], t.lang[2], LANGUAGE_PREDICATE}
    <2>1. CASE t.lang = <<>>
      <3>1. k2 \in Seq(Key) /\ Len(k2) = 0
        BY <2>1
      <3> QED BY <2>1, <3>1 DEF KeyWords
    <2>2. CASE t.lang # <<>>
      <3>1. t.lang[1] \in Word /\ t.lang[2] \in Word /\ LANGUAGE_PREDICATE \in Word
        BY <1>1, <2>2, BuildWords
      <3>2. /\ k2 \in Seq(Key) /\ Len(k2) = 3 /\ k2[1].word = t.lang[1] /\ k2[2].word = t.lang[2]
            /\ k2[3].word = LANGUAGE_PREDICATE
        BY <2>2, <3>1 DEF Key, Word
      <3> HIDE DEF k2
      <3> QED BY <2>2, <3>1, <3>2 DEF KeyWords, Word
    <2> QED BY <2>1, <2>2
  <1>11. k3 \in Seq(Key) /\ KeyWords(k3) = IF t.words = {} THEN {} ELSE {HAS_WORD_PREDICATE}
    <2>1. HAS_WORD_PREDICATE \in Word
      BY BuildWords
    <2>2. CASE t.words = {}
      <3>1. k3 \in Seq(Key) /\ Len(k3) = 0
        BY <2>2
      <3> QED BY <2>2, <3>1 DEF KeyWords
    <2>3. CASE t.words # {}
      <3>1. PICK key : key = WordKey(HAS_WORD_PREDICATE, FALSE)
        OBVIOUS
      <3>2. key \in Key /\ key.word = HAS_WORD_PREDICATE
        BY <2>1, <3>1 DEF Key, Word
      <3>3. k3 = <<key>>
        BY <2>3, <3>1
      <3> HIDE DEF k3
      <3>4. k3 \in Seq(Key) /\ Len(k3) = 1 /\ k3[1].word = HAS_WORD_PREDICATE
        BY <3>2, <3>3
      <3> QED BY <2>1, <2>3, <3>4 DEF KeyWords, Word
    <2> QED BY <2>2, <2>3
  <1>12. k4 \in Seq(Key) /\ KeyWords(k4) = {ws[n] : n \in 1 .. Len(ws)}
    <2>1. k4 \in Seq(Key) /\ Len(k4) = Len(ws) /\ \A n \in 1 .. Len(ws) : k4[n].word = ws[n]
      BY <1>2, <1>4 DEF Key, Word
    <2> HIDE DEF k4, ws
    <2> QED BY <1>4, <2>1 DEF KeyWords, Word
  <1>13. TriplesOf(t) = (t1 \o t2) \o t3 /\ KeysOf(t) = ((k1 \o k2) \o k3) \o k4
    BY DEF TriplesOf, KeysOf
  <1>14. {ws[n] : n \in 1 .. Len(ws)} = {} \/ t.words # {}
    BY <1>2, <1>3
  <1> HIDE DEF t1, t2, t3, k1, k2, k3, k4, ws
  <1>15. /\ TriplesOf(t) \in Seq(RawTriple)
         /\ Components(TriplesOf(t)) = (Components(t1) \union Components(t2)) \union Components(t3)
    <2>1. t1 \o t2 \in Seq(RawTriple) /\ Components(t1 \o t2) = Components(t1) \union Components(t2)
      BY <1>6, <1>7, ComponentsConcat
    <2>2. PICK a : a = t1 \o t2
      OBVIOUS
    <2>3. a \o t3 \in Seq(RawTriple) /\ Components(a \o t3) = Components(a) \union Components(t3)
      BY <1>8, <2>1, <2>2, ComponentsConcat
    <2> QED BY <1>13, <2>1, <2>2, <2>3
  <1>16. /\ KeysOf(t) \in Seq(Key)
         /\ KeyWords(KeysOf(t)) = ((KeyWords(k1) \union KeyWords(k2)) \union KeyWords(k3)) \union KeyWords(k4)
    <2>1. k1 \o k2 \in Seq(Key) /\ KeyWords(k1 \o k2) = KeyWords(k1) \union KeyWords(k2)
      BY <1>9, <1>10, KeyWordsConcat
    <2>2. PICK a : a = k1 \o k2
      OBVIOUS
    <2>3. a \o k3 \in Seq(Key) /\ KeyWords(a \o k3) = KeyWords(a) \union KeyWords(k3)
      BY <1>11, <2>1, <2>2, KeyWordsConcat
    <2>4. PICK b : b = a \o k3
      OBVIOUS
    <2>5. b \o k4 \in Seq(Key) /\ KeyWords(b \o k4) = KeyWords(b) \union KeyWords(k4)
      BY <1>12, <2>3, <2>4, KeyWordsConcat
    <2> QED BY <1>13, <2>1, <2>2, <2>3, <2>4, <2>5
  <1> QED BY <1>6, <1>7, <1>8, <1>9, <1>10, <1>11, <1>12, <1>14, <1>15, <1>16

\* Every element of f is in one of the parts s, and the other way round.
FromParts(f, s) ==
    /\ \A p \in 1 .. Len(f) : \E i \in 1 .. Len(s) : \E k \in 1 .. Len(s[i]) : f[p] = s[i][k]
    /\ \A i \in 1 .. Len(s) : \A k \in 1 .. Len(s[i]) : \E p \in 1 .. Len(f) : f[p] = s[i][k]

\* The elements of a flattened sequence are those of its parts.
LEMMA FlattenElements ==
    ASSUME NEW X, NEW s \in Seq(Seq(X)), NEW f, f = FlattenSeq(s)
    PROVE  f \in Seq(X) /\ FromParts(f, s)
  <1>1. SameShape(s, s)
    BY DEF SameShape
  <1>2. f \in Seq(X) /\ Aligned(f, f, s, s, Len(s))
    BY <1>1, FlattenAligned
  <1> QED BY <1>2 DEF Aligned, At, FromParts

\* The words of flattened keys, and the components of flattened triples.
LEMMA FlattenKeyWords ==
    ASSUME NEW s \in Seq(Seq(Key)), NEW f, f = FlattenSeq(s)
    PROVE  /\ f \in Seq(Key)
           /\ \A w \in Int : w \in KeyWords(f) <=> \E i \in 1 .. Len(s) : w \in KeyWords(s[i])
  <1>1. f \in Seq(Key) /\ FromParts(f, s)
    BY FlattenElements
  <1>2. ASSUME NEW w \in Int, w \in KeyWords(f)
        PROVE  \E i \in 1 .. Len(s) : w \in KeyWords(s[i])
    <2>1. PICK p \in 1 .. Len(f) : f[p].word = w
      BY <1>2 DEF KeyWords
    <2>2. PICK i \in 1 .. Len(s) : \E k \in 1 .. Len(s[i]) : f[p] = s[i][k]
      BY <1>1 DEF FromParts
    <2> QED BY <2>1, <2>2 DEF KeyWords
  <1>3. ASSUME NEW w \in Int, NEW i \in 1 .. Len(s), w \in KeyWords(s[i])
        PROVE  w \in KeyWords(f)
    <2>1. PICK k \in 1 .. Len(s[i]) : s[i][k].word = w
      BY <1>3 DEF KeyWords
    <2>2. PICK p \in 1 .. Len(f) : f[p] = s[i][k]
      BY <1>1 DEF FromParts
    <2> QED BY <2>1, <2>2 DEF KeyWords
  <1> QED BY <1>1, <1>2, <1>3

\* The components of flattened triples.
LEMMA FlattenComponents ==
    ASSUME NEW s \in Seq(Seq(RawTriple)), NEW f, f = FlattenSeq(s)
    PROVE  /\ f \in Seq(RawTriple)
           /\ \A w \in Int : w \in Components(f) <=> \E i \in 1 .. Len(s) : w \in Components(s[i])
  <1>1. f \in Seq(RawTriple) /\ FromParts(f, s)
    BY FlattenElements
  <1>2. ASSUME NEW w \in Int, w \in Components(f)
        PROVE  \E i \in 1 .. Len(s) : w \in Components(s[i])
    <2>1. PICK p \in 1 .. Len(f), c \in 1 .. 3 : f[p][c] = w
      BY <1>2 DEF Components
    <2>2. PICK i \in 1 .. Len(s) : \E k \in 1 .. Len(s[i]) : f[p] = s[i][k]
      BY <1>1 DEF FromParts
    <2> QED BY <2>1, <2>2 DEF Components
  <1>3. ASSUME NEW w \in Int, NEW i \in 1 .. Len(s), w \in Components(s[i])
        PROVE  w \in Components(f)
    <2>1. PICK k \in 1 .. Len(s[i]), c \in 1 .. 3 : s[i][k][c] = w
      BY <1>3 DEF Components
    <2>2. PICK p \in 1 .. Len(f) : f[p] = s[i][k]
      BY <1>1 DEF FromParts
    <2> QED BY <2>1, <2>2 DEF Components
  <1> QED BY <1>1, <1>2, <1>3

\* An item map has the words that it was asked for, those of folded values
\* excepted.
LEMMA FirstPositionsFacts ==
    ASSUME NEW keys \in Seq(Key), NEW m, m = ElementsAt(keys, FirstPositions(keys))
    PROVE  /\ m \in Seq(Key)
           /\ \A w \in Int : w \in KeyWords(m) <=> w \in KeyWords(keys) /\ w > 0
  <1> DEFINE P == FirstPositions(keys)
  <1>1. DOMAIN keys = 1 .. Len(keys) /\ Len(keys) \in Nat
    OBVIOUS
  <1>2. P \in SUBSET DOMAIN keys
    BY DEF FirstPositions
  <1>3. m \in Seq(Key) /\ Lists(m, keys, P)
    BY <1>2, ElementsAtLists
  <1>4. ASSUME NEW k \in 1 .. Len(m)
        PROVE  m[k].word \in KeyWords(keys) /\ m[k].word > 0
    <2>1. PICK n \in P : PlaceAmong(P, n) = k
      BY <1>3, <1>4 DEF Lists
    <2>2. m[k] = keys[n] /\ n \in 1 .. Len(keys) /\ keys[n].word > 0
      BY <1>1, <1>2, <1>3, <2>1 DEF Lists, FirstPositions
    <2>3. keys[n] \in Key
      BY <1>1, <2>2
    <2>4. keys[n].word \in Int
      BY <2>3 DEF Key
    <2> QED BY <2>2, <2>4 DEF KeyWords
  <1>5. ASSUME NEW q \in 1 .. Len(keys), keys[q].word > 0
        PROVE  \E k \in 1 .. Len(m) : m[k].word = keys[q].word
    <2> DEFINE T == {n \in 1 .. Len(keys) : keys[n].word = keys[q].word}
    <2>1. T \subseteq Nat /\ q \in T
      BY <1>1
    <2>2. PICK n \in T : \A i \in T : n <= i
      <3> HIDE DEF T
      <3> QED BY <2>1, LeastNumber
    <2>3. n \in 1 .. Len(keys) /\ keys[n].word = keys[q].word
      BY <2>2
    <2>4. \A i \in 1 .. n - 1 : keys[i].word # keys[n].word
      <3> SUFFICES ASSUME NEW i \in 1 .. n - 1, keys[i].word = keys[n].word PROVE FALSE
        OBVIOUS
      <3>1. i \in T /\ i \in Int /\ n \in Int /\ i < n
        BY <1>1, <2>3
      <3> QED BY <2>2, <3>1
    <2>5. n \in P
      BY <1>1, <1>5, <2>3, <2>4 DEF FirstPositions
    <2> HIDE DEF P
    <2> QED BY <1>3, <2>3, <2>5 DEF Lists
  <1>6. ASSUME NEW w \in Int, w \in KeyWords(m)
        PROVE  w \in KeyWords(keys) /\ w > 0
    <2>1. PICK k \in 1 .. Len(m) : m[k].word = w
      BY <1>6 DEF KeyWords
    <2> QED BY <1>4, <2>1
  <1>7. ASSUME NEW w \in Int, w \in KeyWords(keys), w > 0
        PROVE  w \in KeyWords(m)
    <2>1. PICK q \in 1 .. Len(keys) : keys[q].word = w
      BY <1>7 DEF KeyWords
    <2> QED BY <1>5, <1>7, <2>1 DEF KeyWords
  <1> QED BY <1>3, <1>6, <1>7

AssignedTriple == [triple : ParsedTriple, map : 1 .. NumItemMaps]

ComponentsOf(assigned, n) == Components(TriplesOf(assigned[n].triple))

SpecialWords == {SpecialIris[n] : n \in 1 .. Len(SpecialIris)}

\* The item map of a triple has its words, and it has no others but those of
\* the triples of the batch and the special IRIs.
LEMMA ItemMapFacts ==
    ASSUME NEW assigned \in Seq(AssignedTriple), NEW j \in 1 .. NumItemMaps,
           NEW m, m = ItemMap(assigned, j)
    PROVE  /\ m \in Seq(Key)
           /\ \A w \in Int : w \in KeyWords(m) <=>
                  /\ w > 0
                  /\ \/ w \in SpecialWords
                     \/ \E n \in 1 .. Len(assigned) : assigned[n].map = j /\ w \in ComponentsOf(assigned, n)
  <1> DEFINE parts == [n \in DOMAIN assigned |->
                          IF assigned[n].map = j THEN KeysOf(assigned[n].triple) ELSE <<>>]
  <1>1. DOMAIN assigned = 1 .. Len(assigned) /\ Len(assigned) \in Nat
    OBVIOUS
  <1>2. \A n \in 1 .. Len(assigned) :
           /\ assigned[n].triple \in ParsedTriple
           /\ KeysOf(assigned[n].triple) \in Seq(Key)
           /\ KeyWords(KeysOf(assigned[n].triple)) = ComponentsOf(assigned, n)
    <2> TAKE n \in 1 .. Len(assigned)
    <2>1. assigned[n] \in AssignedTriple
      BY <1>1
    <2>2. assigned[n].triple \in ParsedTriple
      BY <2>1 DEF AssignedTriple
    <2> QED BY <2>2, TriplesAndKeys DEF ComponentsOf
  <1>3. parts \in Seq(Seq(Key)) /\ Len(parts) = Len(assigned)
    BY <1>1, <1>2
  <1>4. \A n \in 1 .. Len(assigned) : parts[n] = IF assigned[n].map = j THEN KeysOf(assigned[n].triple) ELSE <<>>
    BY <1>1
  <1>5. \A n \in 1 .. Len(assigned), w \in Int : w \in KeyWords(parts[n]) <=>
                                         assigned[n].map = j /\ w \in ComponentsOf(assigned, n)
    <2> TAKE n \in 1 .. Len(assigned), w \in Int
    <2>1. CASE assigned[n].map = j
      BY <1>2, <1>4, <2>1
    <2>2. CASE assigned[n].map # j
      <3>1. KeyWords(<<>>) = {}
        BY DEF KeyWords
      <3> QED BY <1>4, <2>2, <3>1
    <2> QED BY <2>1, <2>2
  <1>6. SpecialKeys \in Seq(Key) /\ KeyWords(SpecialKeys) = SpecialWords
    <2>1. SpecialIris \in Seq(Word) /\ DOMAIN SpecialIris = 1 .. Len(SpecialIris) /\ Len(SpecialIris) \in Nat
      BY BuildWords
    <2>2. \A n \in 1 .. Len(SpecialIris) : SpecialIris[n] \in Word
      BY <2>1
    <2>3. /\ SpecialKeys \in Seq(Key) /\ Len(SpecialKeys) = Len(SpecialIris)
          /\ \A n \in 1 .. Len(SpecialIris) : SpecialKeys[n].word = SpecialIris[n]
      BY <2>1, <2>2 DEF SpecialKeys, Key, Word
    <2> QED BY <2>2, <2>3, SMTT(30) DEF KeyWords, SpecialWords, Word
  <1> HIDE DEF parts
  <1>7. PICK f : f = FlattenSeq(parts)
    OBVIOUS
  <1>8. /\ f \in Seq(Key)
        /\ \A w \in Int : w \in KeyWords(f) <=> \E n \in 1 .. Len(parts) : w \in KeyWords(parts[n])
    BY <1>3, <1>7, FlattenKeyWords
  <1>9. PICK keys : keys = SpecialKeys \o f
    OBVIOUS
  <1>10. keys \in Seq(Key) /\ KeyWords(keys) = SpecialWords \union KeyWords(f)
    BY <1>6, <1>8, <1>9, KeyWordsConcat
  <1>11. m = ElementsAt(keys, FirstPositions(keys))
    BY <1>7, <1>9 DEF ItemMap, parts
  <1>12. m \in Seq(Key) /\ \A w \in Int : w \in KeyWords(m) <=> w \in KeyWords(keys) /\ w > 0
    BY <1>10, <1>11, FirstPositionsFacts
  <1> QED BY <1>3, <1>5, <1>8, <1>10, <1>12

\* The number of an item map.
LEMMA RangeOfMaps ==
    ASSUME NEW size \in Nat, NEW position \in 1 .. size
    PROVE  getBatchRange(size, position) \in 1 .. NumItemMaps
  <1>1. NumItemMaps \in Nat /\ NumItemMaps > 0 /\ 1 \in 1 .. NumItemMaps /\ NumItemMaps \in 1 .. NumItemMaps
    BY BuildNumbers
  <1>2. CASE size < NumItemMaps
    BY <1>1, <1>2 DEF getBatchRange
  <1>3. CASE ~(size < NumItemMaps)
    <2>1. \A a \in Nat, b \in Nat \ {0} : a \div b \in Nat /\ (a >= b => a \div b >= 1)
      BY SMTT(30)
    <2>2. PICK q : q = size \div NumItemMaps
      OBVIOUS
    <2>3. q \in Nat \ {0}
      BY <1>1, <1>3, <2>1, <2>2
    <2>4. position - 1 \in Nat
      OBVIOUS
    <2>5. PICK d : d = (position - 1) \div q
      OBVIOUS
    <2>6. d \in Nat
      BY <2>1, <2>3, <2>4, <2>5
    <2>7. getBatchRange(size, position) = Min({d + 1, NumItemMaps})
      BY <1>3, <2>2, <2>5 DEF getBatchRange
    <2>8. \E x \in {d + 1, NumItemMaps} : \A y \in {d + 1, NumItemMaps} : x <= y
      BY <1>1, <2>6
    <2>9. PICK x \in {d + 1, NumItemMaps} : x = Min({d + 1, NumItemMaps}) /\ x <= NumItemMaps
      BY <2>8 DEF Min
    <2> QED BY <1>1, <2>6, <2>7, <2>9
  <1> QED BY <1>2, <1>3

\* The batches of the parser, each triple with an item map.
LEMMA AssignedFacts ==
    ASSUME NEW batches \in Seq(Seq(ParsedTriple)), NEW a, a = Assigned(batches)
    PROVE  /\ a \in Seq(AssignedTriple) /\ FlattenSeq(batches) \in Seq(ParsedTriple)
           /\ Len(a) = Len(FlattenSeq(batches))
           /\ \A n \in 1 .. Len(a) : a[n].triple = FlattenSeq(batches)[n]
  <1> DEFINE Of(b) == [n \in DOMAIN b |-> [triple |-> b[n], map |-> getBatchRange(Len(b), n)]]
             parts == [b \in DOMAIN batches |-> Of(batches[b])]
  <1>1. ASSUME NEW b \in Seq(ParsedTriple)
        PROVE  /\ Of(b) \in Seq(AssignedTriple) /\ Len(Of(b)) = Len(b)
               /\ \A n \in 1 .. Len(b) : Of(b)[n].triple = b[n]
    <2>1. Len(b) \in Nat /\ DOMAIN b = 1 .. Len(b) /\ \A n \in 1 .. Len(b) : b[n] \in ParsedTriple
      OBVIOUS
    <2>2. \A n \in 1 .. Len(b) : [triple |-> b[n], map |-> getBatchRange(Len(b), n)] \in AssignedTriple
      BY <2>1, RangeOfMaps DEF AssignedTriple
    <2> QED BY <2>1, <2>2
  <1> HIDE DEF Of
  <1>2. \A i \in 1 .. Len(batches) : batches[i] \in Seq(ParsedTriple)
    OBVIOUS
  <1>3. parts \in Seq(Seq(AssignedTriple)) /\ Len(parts) = Len(batches)
    <2>1. \A i \in 1 .. Len(batches) : Of(batches[i]) \in Seq(AssignedTriple)
      BY <1>1, <1>2
    <2>2. DOMAIN batches = 1 .. Len(batches) /\ Len(batches) \in Nat
      OBVIOUS
    <2> QED BY <2>1, <2>2
  <1>4. \A i \in 1 .. Len(batches) : parts[i] = Of(batches[i])
    OBVIOUS
  <1>5. SameShape(parts, batches)
    BY <1>1, <1>2, <1>3, <1>4 DEF SameShape
  <1>6. a = FlattenSeq(parts)
    BY DEF Assigned, Of
  <1> HIDE DEF parts
  <1>7. PICK g : g = FlattenSeq(batches)
    OBVIOUS
  <1>8. a \in Seq(AssignedTriple) /\ g \in Seq(ParsedTriple) /\ Aligned(a, g, parts, batches, Len(parts))
    BY <1>3, <1>5, <1>6, <1>7, FlattenAligned
  <1>9. ASSUME NEW p \in 1 .. Len(a) PROVE a[p].triple = g[p]
    <2>1. PICK i \in 1 .. Len(parts) : \E k \in 1 .. Len(parts[i]) : At(a, g, parts, batches, p, i, k)
      BY <1>8 DEF Aligned
    <2>2. PICK k \in 1 .. Len(parts[i]) : At(a, g, parts, batches, p, i, k)
      BY <2>1
    <2>3. parts[i] = Of(batches[i]) /\ k \in 1 .. Len(batches[i]) /\ i \in 1 .. Len(batches)
      BY <1>1, <1>2, <1>3, <1>4, <2>1, <2>2
    <2>4. Of(batches[i])[k].triple = batches[i][k]
      BY <1>1, <1>2, <2>3
    <2> QED BY <2>2, <2>3, <2>4 DEF At
  <1> QED BY <1>7, <1>8, <1>9 DEF Aligned

-----------------------------------------------------------------------------
(***************************************************************************)
(* The writer of a batch.                                                  *)
(***************************************************************************)

Entry == [word : Int, external : BOOLEAN, id : Int]

\* The id of word n of item map j.
IdOf(j, n) == (j - 1) * IdsPerMap + n - 1

\* Ids of different words are different, as long as the ids suffice.
LEMMA IdsUnique ==
    ASSUME NEW i \in Nat, NEW j \in Nat, NEW m \in 1 .. IdsPerMap, NEW n \in 1 .. IdsPerMap,
           IdOf(i, m) = IdOf(j, n)
    PROVE  i = j /\ m = n
  <1>1. IdsPerMap \in Nat
    BY BuildNumbers
  <1>2. ASSUME NEW a \in Nat, NEW b \in Nat, a < b,
               NEW x \in 1 .. IdsPerMap, NEW y \in 1 .. IdsPerMap
        PROVE  IdOf(a, x) < IdOf(b, y)
    <2>1. PICK d \in Nat : b = a + 1 + d
      <3>1. b - a - 1 \in Nat /\ b = a + 1 + (b - a - 1)
        BY <1>2
      <3> QED BY <3>1
    <2>2. PICK e : e = d * IdsPerMap
      OBVIOUS
    <2>3. e \in Nat
      BY <1>1, <2>2, SMTT(30)
    <2>4. PICK f : f = (a - 1) * IdsPerMap
      OBVIOUS
    <2>5. f \in Int
      BY <1>1, <2>4
    <2>6. (b - 1) * IdsPerMap = f + IdsPerMap + e
      BY <1>1, <2>1, <2>2, <2>4, SMTT(30)
    <2> QED BY <1>1, <2>3, <2>4, <2>5, <2>6 DEF IdOf
  <1>3. IdOf(i, m) \in Int /\ IdOf(j, n) \in Int
    BY <1>1 DEF IdOf
  <1>4. ~(i < j) /\ ~(j < i)
    BY <1>2, <1>3
  <1>5. i = j
    BY <1>4
  <1>6. PICK c : c = (i - 1) * IdsPerMap
    OBVIOUS
  <1>7. c \in Int /\ c + m - 1 = c + n - 1
    BY <1>1, <1>5, <1>6 DEF IdOf
  <1> QED BY <1>5, <1>7

\* The words of the item maps with their ids, in any order.
VectorOf(vec, maps) ==
    /\ \A j \in 1 .. NumItemMaps : \A n \in 1 .. Len(maps[j]) : \E p \in 1 .. Len(vec) :
           vec[p].word = maps[j][n].word /\ vec[p].id = IdOf(j, n)
    /\ \A p \in 1 .. Len(vec) : \E j \in 1 .. NumItemMaps : \E n \in 1 .. Len(maps[j]) :
           vec[p].word = maps[j][n].word /\ vec[p].id = IdOf(j, n)

\* The vector of a batch (vocabMapsToVector) has the words of its item maps.
LEMMA VectorFacts ==
    ASSUME NEW maps \in [1 .. NumItemMaps -> Seq(Key)], NEW vec, vec = vocabMapsToVector(maps)
    PROVE  vec \in Seq(Entry) /\ VectorOf(vec, maps)
  <1> DEFINE Of(j) == [n \in DOMAIN maps[j] |->
                          [word |-> maps[j][n].word, external |-> maps[j][n].external,
                           id |-> (j - 1) * IdsPerMap + n - 1]]
             parts == [j \in DOMAIN maps |-> Of(j)]
  <1>1. IdsPerMap \in Nat /\ NumItemMaps \in Nat
    BY BuildNumbers
  <1>2. ASSUME NEW j \in 1 .. NumItemMaps
        PROVE  /\ Of(j) \in Seq(Entry) /\ Len(Of(j)) = Len(maps[j])
               /\ \A n \in 1 .. Len(maps[j]) : Of(j)[n].word = maps[j][n].word /\ Of(j)[n].id = IdOf(j, n)
    <2>1. maps[j] \in Seq(Key)
      OBVIOUS
    <2>2. Len(maps[j]) \in Nat /\ DOMAIN maps[j] = 1 .. Len(maps[j]) /\ \A n \in 1 .. Len(maps[j]) : maps[j][n] \in Key
      BY <2>1
    <2>3. \A n \in 1 .. Len(maps[j]) : /\ IdOf(j, n) \in Int
                                       /\ maps[j][n].word \in Int /\ maps[j][n].external \in BOOLEAN
      BY <1>1, <2>2 DEF IdOf, Key
    <2>4. \A n \in 1 .. Len(maps[j]) :
             [word |-> maps[j][n].word, external |-> maps[j][n].external, id |-> IdOf(j, n)] \in Entry
      BY <2>3 DEF Entry
    <2>5. Of(j) = [n \in 1 .. Len(maps[j]) |->
                     [word |-> maps[j][n].word, external |-> maps[j][n].external, id |-> IdOf(j, n)]]
      BY <2>2 DEF IdOf
    <2> HIDE DEF Of
    <2> QED BY <2>2, <2>4, <2>5
  <1> HIDE DEF Of
  <1>3. parts \in Seq(Seq(Entry)) /\ Len(parts) = NumItemMaps
    <2>1. \A j \in 1 .. NumItemMaps : Of(j) \in Seq(Entry)
      BY <1>2
    <2> QED BY <1>1, <2>1
  <1>4. \A j \in 1 .. NumItemMaps : parts[j] = Of(j)
    OBVIOUS
  <1>5. vec = FlattenSeq(parts)
    BY DEF vocabMapsToVector, Of
  <1> HIDE DEF parts
  <1>6. vec \in Seq(Entry) /\ FromParts(vec, parts)
    BY <1>3, <1>5, FlattenElements
  <1>7. ASSUME NEW j \in 1 .. NumItemMaps, NEW n \in 1 .. Len(maps[j])
        PROVE  \E p \in 1 .. Len(vec) : vec[p].word = maps[j][n].word /\ vec[p].id = IdOf(j, n)
    <2>1. PICK p \in 1 .. Len(vec) : vec[p] = parts[j][n]
      BY <1>2, <1>3, <1>4, <1>6 DEF FromParts
    <2> QED BY <1>2, <1>4, <2>1
  <1>8. ASSUME NEW p \in 1 .. Len(vec)
        PROVE  \E j \in 1 .. NumItemMaps : \E n \in 1 .. Len(maps[j]) :
                   vec[p].word = maps[j][n].word /\ vec[p].id = IdOf(j, n)
    <2>1. PICK j \in 1 .. NumItemMaps : \E n \in 1 .. Len(parts[j]) : vec[p] = parts[j][n]
      BY <1>3, <1>6 DEF FromParts
    <2>2. PICK n \in 1 .. Len(parts[j]) : vec[p] = parts[j][n]
      BY <2>1
    <2>3. n \in 1 .. Len(maps[j])
      BY <1>2, <1>4, <2>2
    <2> QED BY <1>2, <1>4, <2>2, <2>3
  <1> QED BY <1>6, <1>7, <1>8 DEF VectorOf

\* The sorted vector of a writer.
LEMMA SortedVector ==
    ASSUME NEW maps \in [1 .. NumItemMaps -> Seq(Key)],
           NEW vec, vec = SortedWords(vocabMapsToVector(maps))
    PROVE  vec \in Seq(Entry) /\ InOrder(vec) /\ VectorOf(vec, maps)
  <1>1. PICK v : v = vocabMapsToVector(maps)
    OBVIOUS
  <1>2. v \in Seq(Entry) /\ VectorOf(v, maps)
    BY <1>1, VectorFacts
  <1>3. WordEntries(Entry)
    BY DEF WordEntries, Entry
  <1>4. /\ vec \in Seq(Entry) /\ Len(vec) = Len(v) /\ InOrder(vec)
        /\ \E pos \in [DOMAIN v -> DOMAIN v] : Permutes(vec, v, pos)
    BY <1>1, <1>2, <1>3, SortedFacts
  <1>5. PICK pos \in [DOMAIN v -> DOMAIN v] : Permutes(vec, v, pos)
    BY <1>4
  <1>6. DOMAIN v = 1 .. Len(v) /\ \A n \in 1 .. Len(v) : pos[n] \in 1 .. Len(vec) /\ vec[pos[n]] = v[n]
    <2>1. DOMAIN v = 1 .. Len(v)
      BY <1>2
    <2>2. \A n \in DOMAIN v : vec[pos[n]] = v[n]
      BY <1>5 DEF Permutes
    <2>3. \A n \in DOMAIN v : pos[n] \in DOMAIN v
      BY <1>5
    <2> QED BY <1>4, <2>1, <2>2, <2>3
  <1>7. \A k \in 1 .. Len(vec) : \E n \in 1 .. Len(v) : vec[k] = v[n]
    <2> TAKE k \in 1 .. Len(vec)
    <2>1. PICK n \in DOMAIN v : pos[n] = k
      BY <1>4, <1>5, <1>6 DEF Permutes
    <2> QED BY <1>6, <2>1
  <1>8. ASSUME NEW j \in 1 .. NumItemMaps, NEW n \in 1 .. Len(maps[j])
        PROVE  \E p \in 1 .. Len(vec) : vec[p].word = maps[j][n].word /\ vec[p].id = IdOf(j, n)
    <2>1. PICK p \in 1 .. Len(v) : v[p].word = maps[j][n].word /\ v[p].id = IdOf(j, n)
      BY <1>2 DEF VectorOf
    <2> QED BY <1>6, <2>1
  <1>9. ASSUME NEW p \in 1 .. Len(vec)
        PROVE  \E j \in 1 .. NumItemMaps : \E n \in 1 .. Len(maps[j]) :
                   vec[p].word = maps[j][n].word /\ vec[p].id = IdOf(j, n)
    <2>1. PICK q \in 1 .. Len(v) : vec[p] = v[q]
      BY <1>7
    <2> QED BY <1>2, <2>1 DEF VectorOf
  <1> QED BY <1>4, <1>8, <1>9 DEF VectorOf

\* The file of a writer, and where a word of the vector is in it.
FileOf(file, vec) ==
    /\ \A p \in 1 .. Len(file) : file[p].id = p - 1
    /\ \A p \in 1 .. Len(file) : \E q \in 1 .. Len(vec) : file[p].word = vec[q].word
    /\ \A q \in 1 .. Len(vec) : /\ createInternalMapping(vec)[q] \in Int
                                /\ createInternalMapping(vec)[q] + 1 \in 1 .. Len(file)
                                /\ file[createInternalMapping(vec)[q] + 1].word = vec[q].word

\* The file of a writer has each word of the vector once.
LEMMA FileFacts ==
    ASSUME NEW vec \in Seq(Entry), InOrder(vec), NEW file, file = PartialVocabulary(vec)
    PROVE  file \in Seq(Entry) /\ FileOf(file, vec)
  <1>1. WordEntries(Entry)
    BY DEF WordEntries, Entry
  <1>2. PICK u : u = ElementsAt(vec, NewPositions(vec))
    OBVIOUS
  <1>3. NewPositions(vec) \subseteq 1 .. Len(vec)
    BY DEF NewPositions
  <1>4. u \in Seq(Entry) /\ ListsNew(u, vec, NewPositions(vec))
    BY <1>1, <1>2, ListOfNew, NewPositions(vec) \in SUBSET NewPositions(vec)
  <1>5. Len(u) \in Nat /\ DOMAIN u = 1 .. Len(u) /\ \A i \in 1 .. Len(u) : u[i] \in Entry
    BY <1>4
  <1>6. file = [n \in 1 .. Len(u) |-> [u[n] EXCEPT !.id = n - 1]]
    BY <1>2, <1>5 DEF PartialVocabulary
  <1>7. \A n \in 1 .. Len(u) : /\ [u[n] EXCEPT !.id = n - 1] \in Entry
                               /\ [u[n] EXCEPT !.id = n - 1].word = u[n].word
                               /\ [u[n] EXCEPT !.id = n - 1].id = n - 1
    BY <1>5 DEF Entry
  <1>8. /\ file \in Seq(Entry) /\ Len(file) = Len(u)
        /\ \A n \in 1 .. Len(u) : file[n].word = u[n].word /\ file[n].id = n - 1
    <2>1. \A n \in 1 .. Len(u) : file[n] = [u[n] EXCEPT !.id = n - 1]
      BY <1>6
    <2>2. file \in Seq(Entry) /\ Len(file) = Len(u)
      BY <1>5, <1>6, <1>7
    <2> QED BY <1>7, <2>1, <2>2
  <1>9. ASSUME NEW q \in 1 .. Len(vec)
        PROVE  /\ createInternalMapping(vec)[q] \in Int
               /\ createInternalMapping(vec)[q] + 1 \in 1 .. Len(file)
               /\ file[createInternalMapping(vec)[q] + 1].word = vec[q].word
    <2>1. PICK c : c = PlaceAmong(NewPositions(vec), q)
      OBVIOUS
    <2>2. c \in 1 .. Len(u) /\ u[c].word = vec[q].word
      BY <1>4, <2>1 DEF ListsNew
    <2>3. createInternalMapping(vec)[q] = c - 1
      BY <2>1 DEF createInternalMapping
    <2>4. c \in Int /\ (c - 1) + 1 = c
      BY <1>5, <2>2
    <2> QED BY <1>8, <2>2, <2>3, <2>4
  <1>10. ASSUME NEW p \in 1 .. Len(file)
         PROVE  \E q \in 1 .. Len(vec) : file[p].word = vec[q].word
    <2>1. PICK n \in NewPositions(vec) : u[p] = vec[n]
      BY <1>4, <1>8 DEF ListsNew
    <2> QED BY <1>3, <1>8, <2>1
  <1> QED BY <1>8, <1>9, <1>10 DEF FileOf

\* What an id of a writer stands for, given its file of words.
RawOf(file, id) == IF id[1] = VocabIndex THEN file[id[2] + 1].word ELSE -id[2]

IdOk(file, id) ==
    /\ id \in Int \X Int
    /\ \/ id[1] = VocabIndex /\ id[2] + 1 \in 1 .. Len(file)
       \/ id[1] = IntType /\ id[2] > 0

MappedId(vec, id) ==
    IF id[1] # VocabIndex THEN id
    ELSE <<VocabIndex, createInternalMapping(vec)[CHOOSE n \in DOMAIN vec : vec[n].id = id[2]]>>

\* A component of a triple is a folded value or in the item map.
HasWord(maps, j, w) == w > 0 => w \in KeyWords(maps[j])

\* The id of a component of a triple in its item map.
LEMMA LocalIdFacts ==
    ASSUME NEW maps \in [1 .. NumItemMaps -> Seq(Key)], NEW j \in 1 .. NumItemMaps,
           NEW w \in Int \ {0}, HasWord(maps, j, w)
    PROVE  /\ w < 0 => LocalId(maps, j, w) = <<IntType, -w>>
           /\ w > 0 => \E n \in 1 .. Len(maps[j]) : /\ LocalId(maps, j, w) = <<VocabIndex, IdOf(j, n)>>
                                                    /\ maps[j][n].word = w
           /\ LocalId(maps, j, w) \in Int \X Int
  <1>1. CASE w < 0
    BY <1>1 DEF LocalId, IntType
  <1>2. CASE w > 0
    <2>1. maps[j] \in Seq(Key) /\ DOMAIN maps[j] = 1 .. Len(maps[j])
      OBVIOUS
    <2>2. \E n \in DOMAIN maps[j] : maps[j][n].word = w
      BY <1>2, <2>1 DEF HasWord, KeyWords
    <2>3. PICK n : n = CHOOSE m \in DOMAIN maps[j] : maps[j][m].word = w
      OBVIOUS
    <2>4. n \in 1 .. Len(maps[j]) /\ maps[j][n].word = w
      BY <2>1, <2>2, <2>3, Zenon
    <2>5. LocalId(maps, j, w) = <<VocabIndex, IdOf(j, n)>>
      BY <1>2, <2>3 DEF LocalId, IdOf
    <2>6. IdOf(j, n) \in Int /\ VocabIndex \in Int
      BY <2>1, <2>4, BuildNumbers DEF IdOf, VocabIndex
    <2> QED BY <1>2, <2>4, <2>5, <2>6
  <1> QED BY <1>1, <1>2

\* No item map has more words than ids.
MapsFit(maps) == \A j \in 1 .. NumItemMaps : Len(maps[j]) <= IdsPerMap

\* After the mapping of a writer, the id of a component stands for it.
LEMMA MappedComponent ==
    ASSUME NEW maps \in [1 .. NumItemMaps -> Seq(Key)],
           MapsFit(maps),
           NEW vec, vec = SortedWords(vocabMapsToVector(maps)),
           NEW file, file = PartialVocabulary(vec),
           NEW j \in 1 .. NumItemMaps, NEW w \in Int \ {0}, HasWord(maps, j, w),
           NEW id, id = MappedId(vec, LocalId(maps, j, w))
    PROVE  IdOk(file, id) /\ RawOf(file, id) = w
  <1>1. vec \in Seq(Entry) /\ InOrder(vec) /\ VectorOf(vec, maps)
    BY SortedVector
  <1>2. \A q \in 1 .. Len(vec) : /\ createInternalMapping(vec)[q] \in Int
                                 /\ createInternalMapping(vec)[q] + 1 \in 1 .. Len(file)
                                 /\ file[createInternalMapping(vec)[q] + 1].word = vec[q].word
    <2>1. FileOf(file, vec)
      BY <1>1, FileFacts
    <2> QED BY <2>1 DEF FileOf
  <1>3. IntType = 2 /\ VocabIndex = 4
    BY DEF IntType, VocabIndex
  <1>4. CASE w < 0
    <2>1. LocalId(maps, j, w) = <<IntType, -w>>
      BY <1>4, LocalIdFacts
    <2>2. id = <<IntType, -w>>
      BY <1>3, <2>1 DEF MappedId
    <2>3. -w > 0 /\ -(-w) = w /\ -w \in Int
      BY <1>4
    <2> QED BY <1>3, <2>2, <2>3 DEF IdOk, RawOf
  <1>5. CASE w > 0
    <2>1. PICK n \in 1 .. Len(maps[j]) : /\ LocalId(maps, j, w) = <<VocabIndex, IdOf(j, n)>>
                                         /\ maps[j][n].word = w
      BY <1>5, LocalIdFacts
    <2>2. DOMAIN vec = 1 .. Len(vec)
      BY <1>1
    <2>3. \E q \in DOMAIN vec : vec[q].id = IdOf(j, n)
      BY <1>1, <2>1, <2>2, ZenonT(40) DEF VectorOf
    <2>4. PICK q : q = CHOOSE p \in DOMAIN vec : vec[p].id = IdOf(j, n)
      OBVIOUS
    <2>5. q \in 1 .. Len(vec) /\ vec[q].id = IdOf(j, n)
      BY <2>2, <2>3, <2>4, Zenon
    <2>6. PICK i \in 1 .. NumItemMaps : \E m \in 1 .. Len(maps[i]) :
             vec[q].word = maps[i][m].word /\ vec[q].id = IdOf(i, m)
      BY <1>1, <2>5 DEF VectorOf
    <2>7. PICK m \in 1 .. Len(maps[i]) : vec[q].word = maps[i][m].word /\ vec[q].id = IdOf(i, m)
      BY <2>6
    <2>8. i = j /\ m = n
      <3>1. Len(maps[i]) \in Nat /\ Len(maps[j]) \in Nat /\ IdsPerMap \in Nat
        BY BuildNumbers
      <3>2. m \in 1 .. IdsPerMap /\ n \in 1 .. IdsPerMap
        BY <2>1, <2>7, <3>1 DEF MapsFit
      <3>3. i \in Nat /\ j \in Nat /\ IdOf(i, m) = IdOf(j, n)
        BY <2>5, <2>7, BuildNumbers, SMTT(30)
      <3> QED BY <3>2, <3>3, IdsUnique
    <2>9. id = <<VocabIndex, createInternalMapping(vec)[q]>>
      BY <2>1, <2>4 DEF MappedId
    <2>10. vec[q].word = w
      BY <2>1, <2>7, <2>8
    <2>11. PICK c : c = createInternalMapping(vec)[q]
      OBVIOUS
    <2>12. c \in Int /\ c + 1 \in 1 .. Len(file) /\ file[c + 1].word = w
      BY <1>2, <2>5, <2>10, <2>11
    <2> QED BY <1>3, <2>9, <2>11, <2>12 DEF IdOk, RawOf
  <1> QED BY <1>4, <1>5

IdTriple == [1 .. 3 -> Int \X Int]
Outcome == {"running", "done", "error"}
WriteOutcome == Outcome \union {"none"}
JobRecord == [file : Seq(Entry), triples : Seq(IdTriple), words : Outcome, write : WriteOutcome]

\* The triples of a writer, decoded with its own file of words.
SourceOf(job) ==
    [n \in 1 .. Len(job.triples) |-> [k \in 1 .. 3 |-> RawOf(job.file, job.triples[n][k])]]

\* What a writer writes: its ids are positions in its file, which has the
\* words of its triples and the special IRIs, and no others.
ContentOk(job) ==
    /\ \A p \in 1 .. Len(job.file) : job.file[p].id = p - 1
    /\ \A n \in 1 .. Len(job.triples) : \A k \in 1 .. 3 : IdOk(job.file, job.triples[n][k])
    /\ SourceOf(job) \in Seq(RawTriple)
    /\ \A w \in Int : w \in KeyWords(job.file) <=>
           w > 0 /\ (w \in SpecialWords \/ w \in Components(SourceOf(job)))

\* The words of a triple are in its item map, and the triple of ids at each
\* position is that of the raw one.
Covers(maps, a) ==
    \A n \in 1 .. Len(a) : \A w \in ComponentsOf(a, n) : w > 0 => w \in KeyWords(maps[a[n].map])

LocalTriple(local, raw, maps, p, j) ==
    \A k \in 1 .. 3 : /\ local[p][k] = LocalId(maps, j, raw[p][k])
                      /\ raw[p][k] > 0 => raw[p][k] \in KeyWords(maps[j])

LocalTriples(local, raw, maps) ==
    \A p \in 1 .. Len(raw) : \E j \in 1 .. NumItemMaps : LocalTriple(local, raw, maps, p, j)

ComponentsFrom(raw, a) ==
    \A w \in Int : w \in Components(raw) <=> \E n \in 1 .. Len(a) : w \in ComponentsOf(a, n)

\* The triples of a batch, as the item maps and as the properties see them.
LEMMA BatchTriples ==
    ASSUME NEW a \in Seq(AssignedTriple), NEW maps \in [1 .. NumItemMaps -> Seq(Key)],
           Covers(maps, a),
           NEW local, local = localWriter([assigned |-> a, maps |-> maps]),
           NEW raw, raw = FlattenSeq([n \in 1 .. Len(a) |-> TriplesOf(a[n].triple)])
    PROVE  /\ local \in Seq(IdTriple) /\ raw \in Seq(RawTriple) /\ Len(local) = Len(raw)
           /\ LocalTriples(local, raw, maps) /\ ComponentsFrom(raw, a)
  <1> DEFINE ts(n) == TriplesOf(a[n].triple)
             Local(n) == [i \in DOMAIN ts(n) |-> [k \in 1 .. 3 |-> LocalId(maps, a[n].map, ts(n)[i][k])]]
             parts == [n \in 1 .. Len(a) |-> Local(n)]
             rparts == [n \in 1 .. Len(a) |-> ts(n)]
  <1>1. /\ Len(a) \in Nat /\ DOMAIN a = 1 .. Len(a)
        /\ \A n \in 1 .. Len(a) : a[n].triple \in ParsedTriple /\ a[n].map \in 1 .. NumItemMaps
    <2>1. Len(a) \in Nat /\ DOMAIN a = 1 .. Len(a) /\ \A n \in 1 .. Len(a) : a[n] \in AssignedTriple
      OBVIOUS
    <2> QED BY <2>1 DEF AssignedTriple
  <1>2. ASSUME NEW n \in 1 .. Len(a)
        PROVE  /\ ts(n) \in Seq(RawTriple) /\ Len(ts(n)) \in Nat /\ DOMAIN ts(n) = 1 .. Len(ts(n))
               /\ \A i \in 1 .. Len(ts(n)) : ts(n)[i] \in RawTriple
    <2>1. ts(n) \in Seq(RawTriple)
      BY <1>1, TriplesAndKeys
    <2> HIDE DEF ts
    <2> QED BY <2>1
  <1>3. ASSUME NEW n \in 1 .. Len(a), NEW i \in 1 .. Len(ts(n)), NEW k \in 1 .. 3
        PROVE  /\ ts(n)[i][k] \in Int \ {0}
               /\ ts(n)[i][k] > 0 => ts(n)[i][k] \in KeyWords(maps[a[n].map])
               /\ LocalId(maps, a[n].map, ts(n)[i][k]) \in Int \X Int
    <2>1. PICK w : w = ts(n)[i][k]
      OBVIOUS
    <2>2. w \in Int \ {0}
      BY <1>2, <2>1 DEF RawTriple
    <2>3. w \in ComponentsOf(a, n)
      BY <2>1, <2>2 DEF ComponentsOf, Components
    <2>4. HasWord(maps, a[n].map, w)
      BY <2>3 DEF Covers, HasWord
    <2>5. LocalId(maps, a[n].map, w) \in Int \X Int
      BY <1>1, <2>2, <2>4, LocalIdFacts
    <2> QED BY <2>1, <2>2, <2>4, <2>5 DEF HasWord
  <1>4. ASSUME NEW n \in 1 .. Len(a)
        PROVE  /\ Local(n) \in Seq(IdTriple) /\ Len(Local(n)) = Len(ts(n))
               /\ \A i \in 1 .. Len(ts(n)) :
                     Local(n)[i] = [k \in 1 .. 3 |-> LocalId(maps, a[n].map, ts(n)[i][k])]
    <2>1. \A i \in 1 .. Len(ts(n)) : [k \in 1 .. 3 |-> LocalId(maps, a[n].map, ts(n)[i][k])] \in IdTriple
      BY <1>3 DEF IdTriple
    <2>2. PICK t : t = ts(n)
      OBVIOUS
    <2>3. Len(t) \in Nat /\ DOMAIN t = 1 .. Len(t)
      BY <1>2, <2>2
    <2>4. PICK m : m = a[n].map
      OBVIOUS
    <2> DEFINE Id(i) == [k \in 1 .. 3 |-> LocalId(maps, m, t[i][k])]
    <2>5. Local(n) = [i \in 1 .. Len(t) |-> Id(i)]
      BY <2>2, <2>3, <2>4
    <2>6. \A i \in 1 .. Len(t) : Id(i) \in IdTriple
      BY <2>1, <2>2, <2>4
    <2>7. PICK l : l = Local(n)
      OBVIOUS
    <2>8. l \in Seq(IdTriple) /\ Len(l) = Len(t) /\ \A i \in 1 .. Len(t) : l[i] = Id(i)
      <3> HIDE DEF Id, Local
      <3> QED BY <2>3, <2>5, <2>6, <2>7
    <2> HIDE DEF Local, ts
    <2> QED BY <2>2, <2>4, <2>7, <2>8
  <1> HIDE DEF ts, Local
  <1>5. /\ parts \in Seq(Seq(IdTriple)) /\ rparts \in Seq(Seq(RawTriple))
        /\ Len(parts) = Len(a) /\ Len(rparts) = Len(a)
    <2>1. \A n \in 1 .. Len(a) : Local(n) \in Seq(IdTriple) /\ ts(n) \in Seq(RawTriple)
      BY <1>2, <1>4
    <2> QED BY <1>1, <2>1
  <1>6. \A n \in 1 .. Len(a) : parts[n] = Local(n) /\ rparts[n] = ts(n)
    OBVIOUS
  <1>7. SameShape(parts, rparts)
    BY <1>4, <1>5, <1>6 DEF SameShape
  <1>8. local = FlattenSeq(parts) /\ raw = FlattenSeq(rparts)
    BY <1>1 DEF localWriter, Local, ts
  <1> HIDE DEF parts, rparts
  <1>9. local \in Seq(IdTriple) /\ raw \in Seq(RawTriple) /\ Aligned(local, raw, parts, rparts, Len(a))
    BY <1>5, <1>7, <1>8, FlattenAligned
  <1>10. Len(local) = Len(raw)
    BY <1>9 DEF Aligned
  <1>11. ASSUME NEW p \in 1 .. Len(raw)
         PROVE  \E j \in 1 .. NumItemMaps : LocalTriple(local, raw, maps, p, j)
    <2>1. PICK n \in 1 .. Len(a) : \E i \in 1 .. Len(parts[n]) : At(local, raw, parts, rparts, p, n, i)
      BY <1>9, <1>10 DEF Aligned
    <2>2. PICK i \in 1 .. Len(parts[n]) : At(local, raw, parts, rparts, p, n, i)
      BY <2>1
    <2>3. i \in 1 .. Len(ts(n)) /\ local[p] = Local(n)[i] /\ raw[p] = ts(n)[i]
      BY <1>4, <1>6, <2>2 DEF At
    <2>4. local[p] = [k \in 1 .. 3 |-> LocalId(maps, a[n].map, ts(n)[i][k])]
      BY <1>4, <2>3
    <2>5. PICK m \in 1 .. NumItemMaps : m = a[n].map
      BY <1>1
    <2>6. \A k \in 1 .. 3 : local[p][k] = LocalId(maps, m, raw[p][k])
      BY <2>3, <2>4, <2>5
    <2>7. \A k \in 1 .. 3 : raw[p][k] > 0 => raw[p][k] \in KeyWords(maps[m])
      BY <1>3, <2>3, <2>5
    <2> QED BY <2>6, <2>7 DEF LocalTriple
  <1>12. ComponentsFrom(raw, a)
    <2>1. \A w \in Int : w \in Components(raw) <=> \E n \in 1 .. Len(rparts) : w \in Components(rparts[n])
      BY <1>5, <1>8, FlattenComponents
    <2> QED BY <1>5, <1>6, <2>1 DEF ComponentsOf, ComponentsFrom, ts
  <1> QED BY <1>9, <1>10, <1>11, <1>12 DEF LocalTriples

BatchOf(batches) == [assigned |-> Assigned(batches), maps |-> ItemMaps(Assigned(batches))]

\* A writer writes the triples of its batch.
LEMMA JobFacts ==
    ASSUME NEW batches \in Seq(Seq(ParsedTriple)), IdsSuffice(batches),
           NEW job, job = Job(BatchOf(batches))
    PROVE  /\ job \in JobRecord /\ job.words = "running" /\ job.write = "running"
           /\ ContentOk(job) /\ SourceOf(job) = AllTriplesOf(FlattenSeq(batches))
  <1>1. PICK a : a = Assigned(batches)
    OBVIOUS
  <1>2. PICK flat : flat = FlattenSeq(batches)
    OBVIOUS
  <1>3. /\ a \in Seq(AssignedTriple) /\ flat \in Seq(ParsedTriple) /\ Len(a) = Len(flat)
        /\ \A n \in 1 .. Len(a) : a[n].triple = flat[n]
    BY <1>1, <1>2, AssignedFacts
  <1>4. PICK maps : maps = ItemMaps(a)
    OBVIOUS
  <1>5. /\ maps \in [1 .. NumItemMaps -> Seq(Key)]
        /\ \A j \in 1 .. NumItemMaps : \A w \in Int : w \in KeyWords(maps[j]) <=>
              /\ w > 0
              /\ \/ w \in SpecialWords
                 \/ \E n \in 1 .. Len(a) : a[n].map = j /\ w \in ComponentsOf(a, n)
        /\ MapsFit(maps)
    <2>1. maps = [j \in 1 .. NumItemMaps |-> ItemMap(a, j)]
      BY <1>4 DEF ItemMaps
    <2>2. \A j \in 1 .. NumItemMaps : ItemMap(a, j) \in Seq(Key)
      BY <1>3, ItemMapFacts
    <2>3. ASSUME NEW j \in 1 .. NumItemMaps, NEW w \in Int
          PROVE  w \in KeyWords(maps[j]) <=>
                   /\ w > 0
                   /\ \/ w \in SpecialWords
                      \/ \E n \in 1 .. Len(a) : a[n].map = j /\ w \in ComponentsOf(a, n)
      <3>1. PICK m : m = ItemMap(a, j)
        OBVIOUS
      <3>2. m = maps[j]
        BY <2>1, <3>1
      <3> QED BY <1>3, <3>1, <3>2, ItemMapFacts
    <2>4. MapsFit(maps)
      BY <1>1, <2>1 DEF IdsSuffice, MapsFit
    <2> QED BY <2>1, <2>2, <2>3, <2>4
  <1>6. Covers(maps, a)
    <2> SUFFICES ASSUME NEW n \in 1 .. Len(a), NEW w \in ComponentsOf(a, n), w > 0
                 PROVE  w \in KeyWords(maps[a[n].map])
      BY DEF Covers
    <2>1. a[n] \in AssignedTriple
      BY <1>3
    <2>2. PICK j \in 1 .. NumItemMaps : j = a[n].map
      BY <2>1 DEF AssignedTriple
    <2>3. w \in Int
      BY DEF ComponentsOf, Components
    <2> QED BY <1>5, <2>2, <2>3
  <1>7. PICK local : local = localWriter([assigned |-> a, maps |-> maps])
    OBVIOUS
  <1>8. PICK raw : raw = FlattenSeq([n \in 1 .. Len(a) |-> TriplesOf(a[n].triple)])
    OBVIOUS
  <1>9. /\ local \in Seq(IdTriple) /\ raw \in Seq(RawTriple) /\ Len(local) = Len(raw)
        /\ LocalTriples(local, raw, maps) /\ ComponentsFrom(raw, a)
    BY <1>3, <1>5, <1>6, <1>7, <1>8, BatchTriples
  <1>10. raw = AllTriplesOf(flat)
    <2>1. DOMAIN flat = 1 .. Len(a)
      BY <1>3
    <2>2. [n \in 1 .. Len(a) |-> TriplesOf(a[n].triple)] = [n \in DOMAIN flat |-> TriplesOf(flat[n])]
      BY <1>3, <2>1
    <2> QED BY <1>8, <2>2 DEF AllTriplesOf
  <1>11. PICK vec : vec = SortedWords(vocabMapsToVector(maps))
    OBVIOUS
  <1>12. vec \in Seq(Entry) /\ InOrder(vec) /\ VectorOf(vec, maps)
    BY <1>5, <1>11, SortedVector
  <1>13. PICK file : file = PartialVocabulary(vec)
    OBVIOUS
  <1>14. file \in Seq(Entry) /\ FileOf(file, vec)
    BY <1>12, <1>13, FileFacts
  <1>15. PICK triples : triples = MappedIds(local, vec)
    OBVIOUS
  <1>16. /\ DOMAIN local = 1 .. Len(raw) /\ Len(raw) \in Nat
         /\ triples = [p \in 1 .. Len(raw) |-> [k \in 1 .. 3 |-> MappedId(vec, local[p][k])]]
    <2>1. DOMAIN local = 1 .. Len(raw) /\ Len(raw) \in Nat
      BY <1>9
    <2> QED BY <1>15, <2>1 DEF MappedIds, MappedId
  <1>17. ASSUME NEW p \in 1 .. Len(raw), NEW k \in 1 .. 3
         PROVE  /\ raw[p][k] \in Int \ {0}
                /\ IdOk(file, triples[p][k]) /\ RawOf(file, triples[p][k]) = raw[p][k]
    <2>1. PICK j \in 1 .. NumItemMaps : LocalTriple(local, raw, maps, p, j)
      BY <1>9 DEF LocalTriples
    <2>2. raw[p][k] \in Int \ {0}
      BY <1>9, SMTT(30) DEF RawTriple
    <2>3. PICK w : w = raw[p][k]
      OBVIOUS
    <2>4. HasWord(maps, j, w)
      BY <2>1, <2>3 DEF LocalTriple, HasWord
    <2>5. triples[p][k] = MappedId(vec, LocalId(maps, j, w))
      BY <1>16, <2>1, <2>3 DEF LocalTriple
    <2>6. IdOk(file, triples[p][k]) /\ RawOf(file, triples[p][k]) = w
      <3>1. PICK id : id = triples[p][k] /\ id = MappedId(vec, LocalId(maps, j, w))
        BY <2>5
      <3>2. maps \in [1 .. NumItemMaps -> Seq(Key)] /\ MapsFit(maps)
        BY <1>5
      <3>3. w \in Int \ {0}
        BY <2>2, <2>3
      <3>4. IdOk(file, id) /\ RawOf(file, id) = w
        BY <1>11, <1>13, <2>4, <3>1, <3>2, <3>3, MappedComponent
      <3> QED BY <3>1, <3>4
    <2> QED BY <2>2, <2>3, <2>6
  <1>18. triples \in Seq(IdTriple) /\ Len(triples) = Len(raw)
    <2>1. \A p \in 1 .. Len(raw) : triples[p] \in IdTriple
      BY <1>16, <1>17 DEF IdOk, IdTriple
    <2> QED BY <1>16, <2>1
  <1>19. job = [file |-> file, triples |-> triples, words |-> "running", write |-> "running"]
    BY <1>1, <1>4, <1>7, <1>11, <1>13, <1>15 DEF Job, BatchOf
  <1>20. job \in JobRecord /\ job.words = "running" /\ job.write = "running" /\ job.file = file /\ job.triples = triples
    BY <1>14, <1>18, <1>19 DEF JobRecord, Outcome, WriteOutcome
  <1>21. SourceOf(job) = raw
    <2>1. SourceOf(job) = [p \in 1 .. Len(raw) |-> [k \in 1 .. 3 |-> raw[p][k]]]
      BY <1>17, <1>18, <1>20 DEF SourceOf
    <2>2. \A p \in 1 .. Len(raw) : raw[p] = [k \in 1 .. 3 |-> raw[p][k]]
      <3>1. \A p \in 1 .. Len(raw) : raw[p] \in RawTriple
        BY <1>9
      <3> QED BY <3>1 DEF RawTriple
    <2>3. raw = [p \in 1 .. Len(raw) |-> raw[p]]
      BY <1>9
    <2> QED BY <2>1, <2>2, <2>3
  <1>22. ASSUME NEW w \in Int
         PROVE  w \in KeyWords(file) <=> w > 0 /\ (w \in SpecialWords \/ w \in Components(raw))
    <2>1. w \in KeyWords(file) <=> w \in KeyWords(vec)
      <3>1. ASSUME w \in KeyWords(file) PROVE w \in KeyWords(vec)
        <4>1. PICK p \in 1 .. Len(file) : file[p].word = w
          BY <3>1 DEF KeyWords
        <4> QED BY <1>14, <4>1 DEF FileOf, KeyWords
      <3>2. ASSUME w \in KeyWords(vec) PROVE w \in KeyWords(file)
        <4>1. PICK q \in 1 .. Len(vec) : vec[q].word = w
          BY <3>2 DEF KeyWords
        <4>2. PICK p \in 1 .. Len(file) : file[p].word = w
          BY <1>14, <4>1 DEF FileOf
        <4> QED BY <4>2 DEF KeyWords
      <3> QED BY <3>1, <3>2
    <2>2. w \in KeyWords(vec) <=> \E j \in 1 .. NumItemMaps : w \in KeyWords(maps[j])
      <3>1. ASSUME w \in KeyWords(vec) PROVE \E j \in 1 .. NumItemMaps : w \in KeyWords(maps[j])
        <4>1. PICK q \in 1 .. Len(vec) : vec[q].word = w
          BY <3>1 DEF KeyWords
        <4>2. PICK j \in 1 .. NumItemMaps : \E n \in 1 .. Len(maps[j]) : w = maps[j][n].word
          BY <1>12, <4>1 DEF VectorOf
        <4> QED BY <4>2 DEF KeyWords
      <3>2. ASSUME NEW j \in 1 .. NumItemMaps, w \in KeyWords(maps[j]) PROVE w \in KeyWords(vec)
        <4>1. PICK n \in 1 .. Len(maps[j]) : maps[j][n].word = w
          BY <3>2 DEF KeyWords
        <4>2. PICK q \in 1 .. Len(vec) : vec[q].word = w
          BY <1>12, <4>1 DEF VectorOf
        <4> QED BY <4>2 DEF KeyWords
      <3> QED BY <3>1, <3>2
    <2>3. 1 \in 1 .. NumItemMaps
      BY BuildNumbers
    <2>4. \A n \in 1 .. Len(a) : a[n].map \in 1 .. NumItemMaps
      <3>1. \A n \in 1 .. Len(a) : a[n] \in AssignedTriple
        BY <1>3
      <3> QED BY <3>1 DEF AssignedTriple
    <2>5. w \in Components(raw) <=> \E n \in 1 .. Len(a) : w \in ComponentsOf(a, n)
      BY <1>9 DEF ComponentsFrom
    <2> QED BY <1>5, <2>1, <2>2, <2>3, <2>4, <2>5
  <1>23. ContentOk(job)
    <2>1. \A p \in 1 .. Len(file) : file[p].id = p - 1
      BY <1>14 DEF FileOf
    <2> QED BY <1>9, <1>17, <1>18, <1>20, <1>21, <1>22, <2>1 DEF ContentOk
  <1> QED BY <1>2, <1>10, <1>20, <1>21, <1>23

-----------------------------------------------------------------------------
(***************************************************************************)
(* The merged vocabulary.                                                  *)
(***************************************************************************)

QueueEntry == [word : Int, external : BOOLEAN, id : Int, partialFileId : Int]

\* The queue has the words of the files, and no others.
FromFile(x, js, j, n) == x.word = js[j].file[n].word /\ x.id = js[j].file[n].id /\ x.partialFileId = j

QueueOf(queue, js) ==
    /\ \A j \in 1 .. Len(js) : \A n \in 1 .. Len(js[j].file) :
           \E q \in 1 .. Len(queue) : FromFile(queue[q], js, j, n)
    /\ \A q \in 1 .. Len(queue) : \E j \in 1 .. Len(js) : \E n \in 1 .. Len(js[j].file) :
           FromFile(queue[q], js, j, n)

\* The queue of the merge has the words of all files, in their order.
LEMMA QueueFacts ==
    ASSUME jobs \in Seq(JobRecord), NEW queue, queue = QueueWords
    PROVE  queue \in Seq(QueueEntry) /\ InOrder(queue) /\ QueueOf(queue, jobs)
  <1> DEFINE Of(j) == [n \in DOMAIN jobs[j].file |->
                          [word |-> jobs[j].file[n].word, external |-> jobs[j].file[n].external,
                           id |-> jobs[j].file[n].id, partialFileId |-> j]]
             parts == [j \in DOMAIN jobs |-> Of(j)]
  <1>1. DOMAIN jobs = 1 .. Len(jobs) /\ Len(jobs) \in Nat /\ \A j \in 1 .. Len(jobs) : jobs[j] \in JobRecord
    OBVIOUS
  <1>2. ASSUME NEW j \in 1 .. Len(jobs)
        PROVE  /\ Of(j) \in Seq(QueueEntry) /\ Len(Of(j)) = Len(jobs[j].file)
               /\ \A n \in 1 .. Len(jobs[j].file) : FromFile(Of(j)[n], jobs, j, n)
    <2>1. PICK file : file = jobs[j].file
      OBVIOUS
    <2>2. file \in Seq(Entry)
      BY <1>1, <2>1 DEF JobRecord
    <2>3. Len(file) \in Nat /\ DOMAIN file = 1 .. Len(file) /\ \A n \in 1 .. Len(file) : file[n] \in Entry
      BY <2>2
    <2> DEFINE En(n) == [word |-> file[n].word, external |-> file[n].external, id |-> file[n].id,
                         partialFileId |-> j]
    <2>4. \A n \in 1 .. Len(file) : En(n) \in QueueEntry
      BY <1>1, <2>3 DEF Entry, QueueEntry
    <2>5. PICK f : f = Of(j)
      OBVIOUS
    <2>6. f = [n \in 1 .. Len(file) |-> En(n)]
      BY <2>1, <2>3, <2>5
    <2>7. \A n \in 1 .. Len(file) : En(n).word = file[n].word /\ En(n).id = file[n].id /\ En(n).partialFileId = j
      OBVIOUS
    <2> HIDE DEF En, Of
    <2>8. f \in Seq(QueueEntry) /\ Len(f) = Len(file) /\ \A n \in 1 .. Len(file) : f[n] = En(n)
      BY <2>3, <2>4, <2>6
    <2> QED BY <2>1, <2>5, <2>7, <2>8 DEF FromFile
  <1> HIDE DEF Of
  <1>3. parts \in Seq(Seq(QueueEntry)) /\ Len(parts) = Len(jobs)
    <2>1. \A j \in 1 .. Len(jobs) : Of(j) \in Seq(QueueEntry)
      BY <1>2
    <2> QED BY <1>1, <2>1
  <1>4. \A j \in 1 .. Len(jobs) : parts[j] = Of(j)
    BY <1>1
  <1>5. PICK v : v = FlattenSeq(parts)
    OBVIOUS
  <1>6. queue = SortedWords(v)
    BY <1>5 DEF QueueWords, Of
  <1> HIDE DEF parts
  <1>7. v \in Seq(QueueEntry) /\ FromParts(v, parts)
    BY <1>3, <1>5, FlattenElements
  <1>8. WordEntries(QueueEntry)
    BY DEF WordEntries, QueueEntry
  <1>9. /\ queue \in Seq(QueueEntry) /\ Len(queue) = Len(v) /\ InOrder(queue)
        /\ \E pos \in [DOMAIN v -> DOMAIN v] : Permutes(queue, v, pos)
    BY <1>6, <1>7, <1>8, SortedFacts
  <1>10. PICK pos \in [DOMAIN v -> DOMAIN v] : Permutes(queue, v, pos)
    BY <1>9
  <1>11. DOMAIN v = 1 .. Len(v)
    BY <1>7
  <1>12. \A n \in 1 .. Len(v) : pos[n] \in 1 .. Len(queue) /\ queue[pos[n]] = v[n]
    <2>1. \A n \in DOMAIN v : queue[pos[n]] = v[n]
      BY <1>10 DEF Permutes
    <2>2. \A n \in DOMAIN v : pos[n] \in DOMAIN v
      BY <1>10
    <2> QED BY <1>9, <1>11, <2>1, <2>2
  <1>13. \A q \in 1 .. Len(queue) : \E n \in 1 .. Len(v) : queue[q] = v[n]
    <2> TAKE q \in 1 .. Len(queue)
    <2>1. PICK n \in DOMAIN v : pos[n] = q
      BY <1>9, <1>10, <1>11 DEF Permutes
    <2> QED BY <1>11, <1>12, <2>1
  <1>14. ASSUME NEW j \in 1 .. Len(jobs), NEW n \in 1 .. Len(jobs[j].file)
         PROVE  \E q \in 1 .. Len(queue) : FromFile(queue[q], jobs, j, n)
    <2>1. PICK p \in 1 .. Len(v) : v[p] = parts[j][n]
      BY <1>2, <1>3, <1>4, <1>7, SMTT(30) DEF FromParts
    <2>2. FromFile(v[p], jobs, j, n)
      BY <1>2, <1>4, <2>1
    <2> QED BY <1>12, <2>2
  <1>15. ASSUME NEW q \in 1 .. Len(queue)
         PROVE  \E j \in 1 .. Len(jobs) : \E n \in 1 .. Len(jobs[j].file) : FromFile(queue[q], jobs, j, n)
    <2>1. PICK p \in 1 .. Len(v) : queue[q] = v[p]
      BY <1>13
    <2>2. PICK j \in 1 .. Len(jobs) : \E n \in 1 .. Len(parts[j]) : v[p] = parts[j][n]
      BY <1>3, <1>7 DEF FromParts
    <2>3. PICK n \in 1 .. Len(parts[j]) : v[p] = parts[j][n]
      BY <2>2
    <2>4. n \in 1 .. Len(jobs[j].file)
      BY <1>2, <1>4, <2>3
    <2> QED BY <1>2, <1>4, <2>1, <2>3, <2>4
  <1> QED BY <1>9, <1>14, <1>15 DEF QueueOf

\* What an id stands for in a merged vocabulary.
StandsFor(vocab, blank, id, w) ==
    /\ id \in Int \X Int
    /\ \/ id[1] = VocabIndex /\ id[2] + 1 \in 1 .. Len(vocab) /\ vocab[id[2] + 1].word = w /\ w \notin BlankNodes
       \/ id[1] = BlankNodeIndex /\ id[2] + 1 \in 1 .. Len(blank) /\ blank[id[2] + 1].word = w /\ w \in BlankNodes
       \/ id[1] = IntType /\ id[2] = -w /\ w < 0

\* The vocabulary and the blank nodes of a queue: sorted, each word once, and
\* the target of every word of the queue stands for the word.
LEMMA MergedQueue ==
    ASSUME NEW queue \in Seq(QueueEntry), InOrder(queue),
           NEW vocab, vocab = ElementsAt(queue, WordPositions(queue)),
           NEW blank, blank = ElementsAt(queue, BlankPositions(queue))
    PROVE  /\ vocab \in Seq(QueueEntry) /\ Increasing(vocab)
           /\ blank \in Seq(QueueEntry) /\ Increasing(blank)
           /\ \A w \in Int : w \in KeyWords(vocab) <=> w \in KeyWords(queue) /\ w \notin BlankNodes
           /\ \A q \in 1 .. Len(queue) : StandsFor(vocab, blank, TargetId(queue, q), queue[q].word)
  <1>1. WordEntries(QueueEntry)
    BY DEF WordEntries, QueueEntry
  <1>2. /\ WordPositions(queue) \in SUBSET NewPositions(queue)
        /\ BlankPositions(queue) \in SUBSET NewPositions(queue)
        /\ NewPositions(queue) \subseteq 1 .. Len(queue)
    BY DEF WordPositions, BlankPositions, NewPositions
  <1>3. vocab \in Seq(QueueEntry) /\ ListsNew(vocab, queue, WordPositions(queue))
    BY <1>1, <1>2, ListOfNew
  <1>4. blank \in Seq(QueueEntry) /\ ListsNew(blank, queue, BlankPositions(queue))
    BY <1>1, <1>2, ListOfNew
  <1>5. ASSUME NEW q \in 1 .. Len(queue), queue[q].word \notin BlankNodes
        PROVE  /\ PlaceAmong(WordPositions(queue), q) \in 1 .. Len(vocab)
               /\ vocab[PlaceAmong(WordPositions(queue), q)].word = queue[q].word
    <2>1. \A n \in NewPositions(queue) : queue[n].word = queue[q].word => n \in WordPositions(queue)
      BY <1>5 DEF WordPositions
    <2> QED BY <1>3, <2>1 DEF ListsNew
  <1>6. ASSUME NEW q \in 1 .. Len(queue), queue[q].word \in BlankNodes
        PROVE  /\ PlaceAmong(BlankPositions(queue), q) \in 1 .. Len(blank)
               /\ blank[PlaceAmong(BlankPositions(queue), q)].word = queue[q].word
    <2>1. \A n \in NewPositions(queue) : queue[n].word = queue[q].word => n \in BlankPositions(queue)
      BY <1>6 DEF BlankPositions
    <2> QED BY <1>4, <2>1 DEF ListsNew
  <1>7. ASSUME NEW q \in 1 .. Len(queue)
        PROVE  StandsFor(vocab, blank, TargetId(queue, q), queue[q].word)
    <2>1. CASE queue[q].word \in BlankNodes
      <3>1. PICK c : c = PlaceAmong(BlankPositions(queue), q)
        OBVIOUS
      <3>2. c \in 1 .. Len(blank) /\ blank[c].word = queue[q].word
        BY <1>6, <2>1, <3>1
      <3>3. TargetId(queue, q) = <<BlankNodeIndex, c - 1>>
        BY <2>1, <3>1 DEF TargetId
      <3>4. c \in Int /\ c - 1 \in Int /\ (c - 1) + 1 = c /\ BlankNodeIndex \in Int
        BY <1>4, <3>2 DEF BlankNodeIndex
      <3> QED BY <2>1, <3>2, <3>3, <3>4 DEF StandsFor
    <2>2. CASE queue[q].word \notin BlankNodes
      <3>1. PICK c : c = PlaceAmong(WordPositions(queue), q)
        OBVIOUS
      <3>2. c \in 1 .. Len(vocab) /\ vocab[c].word = queue[q].word
        BY <1>5, <2>2, <3>1
      <3>3. TargetId(queue, q) = <<VocabIndex, c - 1>>
        BY <2>2, <3>1 DEF TargetId
      <3>4. c \in Int /\ c - 1 \in Int /\ (c - 1) + 1 = c /\ VocabIndex \in Int
        BY <1>3, <3>2 DEF VocabIndex
      <3> QED BY <2>2, <3>2, <3>3, <3>4 DEF StandsFor
    <2> QED BY <2>1, <2>2
  <1>8. ASSUME NEW w \in Int, w \in KeyWords(vocab)
        PROVE  w \in KeyWords(queue) /\ w \notin BlankNodes
    <2>1. PICK i \in 1 .. Len(vocab) : vocab[i].word = w
      BY <1>8 DEF KeyWords
    <2>2. PICK n \in WordPositions(queue) : vocab[i] = queue[n]
      BY <1>3, <2>1 DEF ListsNew
    <2>3. n \in 1 .. Len(queue) /\ queue[n].word \notin BlankNodes
      BY <1>2, <2>2 DEF WordPositions
    <2> QED BY <2>1, <2>2, <2>3 DEF KeyWords
  <1>9. ASSUME NEW w \in Int, w \in KeyWords(queue), w \notin BlankNodes
        PROVE  w \in KeyWords(vocab)
    <2>1. PICK q \in 1 .. Len(queue) : queue[q].word = w
      BY <1>9 DEF KeyWords
    <2> QED BY <1>5, <1>9, <2>1 DEF KeyWords
  <1>10. Increasing(vocab) /\ Increasing(blank)
    BY <1>3, <1>4 DEF ListsNew
  <1> QED BY <1>3, <1>4, <1>7, <1>8, <1>9, <1>10

NewId(idMap, id) == IF id[1] # VocabIndex THEN id ELSE (CHOOSE e \in idMap : e.from = id).to

\* The id map of a writer translates an id to one that stands for the same.
Translates(idMap, vocab, blank, file, id) ==
    /\ id[1] = VocabIndex => \E e \in idMap : e.from = id
    /\ StandsFor(vocab, blank, NewId(idMap, id), RawOf(file, id))

\* The id maps of the merge translate the ids of the writers.
LEMMA IdMapTranslates ==
    ASSUME jobs \in Seq(JobRecord), NEW queue, queue = QueueWords,
           NEW vocab, vocab = ElementsAt(queue, WordPositions(queue)),
           NEW blank, blank = ElementsAt(queue, BlankPositions(queue)),
           NEW j \in 1 .. Len(jobs), ContentOk(jobs[j]),
           NEW id, IdOk(jobs[j].file, id)
    PROVE  Translates(IdMap(queue, j), vocab, blank, jobs[j].file, id)
  <1>1. queue \in Seq(QueueEntry) /\ InOrder(queue) /\ QueueOf(queue, jobs)
    BY QueueFacts
  <1>2. \A q \in 1 .. Len(queue) : StandsFor(vocab, blank, TargetId(queue, q), queue[q].word)
    BY <1>1, MergedQueue
  <1>3. PICK file : file = jobs[j].file
    OBVIOUS
  <1>4. PICK idMap : idMap = IdMap(queue, j)
    OBVIOUS
  <1>5. DOMAIN queue = 1 .. Len(queue)
    BY <1>1
  <1>6. CASE id[1] = VocabIndex
    <2>1. PICK n : n = id[2] + 1
      OBVIOUS
    <2>2. n \in 1 .. Len(file) /\ id[2] \in Int /\ id = <<VocabIndex, id[2]>>
      BY <1>3, <1>6, <2>1 DEF IdOk, VocabIndex, IntType
    <2>3. file[n].id = id[2]
      BY <1>3, <2>1, <2>2 DEF ContentOk
    <2>4. ASSUME NEW q \in 1 .. Len(queue), queue[q].partialFileId = j
          PROVE  [from |-> <<VocabIndex, queue[q].id>>, to |-> TargetId(queue, q)] \in idMap
      BY <1>4, <1>5, <2>4 DEF IdMap
    <2>5. ASSUME NEW e \in idMap, e.from = id
          PROVE  StandsFor(vocab, blank, e.to, file[n].word)
      <3>1. PICK q \in 1 .. Len(queue) :
               queue[q].partialFileId = j /\ e = [from |-> <<VocabIndex, queue[q].id>>, to |-> TargetId(queue, q)]
        BY <1>4, <1>5, <2>5 DEF IdMap
      <3>2. queue[q].id = id[2] /\ e.to = TargetId(queue, q)
        BY <2>2, <2>5, <3>1
      <3>3. PICK i \in 1 .. Len(jobs) : \E m \in 1 .. Len(jobs[i].file) : FromFile(queue[q], jobs, i, m)
        BY <1>1 DEF QueueOf
      <3>4. PICK m \in 1 .. Len(jobs[i].file) : FromFile(queue[q], jobs, i, m)
        BY <3>3
      <3>5. i = j
        BY <3>1, <3>4 DEF FromFile
      <3>6. m \in 1 .. Len(file) /\ queue[q].word = file[m].word /\ queue[q].id = file[m].id
        BY <1>3, <3>4, <3>5 DEF FromFile
      <3>7. file[m].id = m - 1
        BY <1>3, <3>6 DEF ContentOk
      <3>8. m \in Int /\ n \in Int
        <4>1. jobs[j] \in JobRecord
          OBVIOUS
        <4>2. Len(file) \in Nat
          BY <1>3, <4>1 DEF JobRecord
        <4> QED BY <2>2, <3>6, <4>2
      <3>9. m = n
        BY <2>1, <2>2, <3>2, <3>6, <3>7, <3>8
      <3> QED BY <1>2, <3>2, <3>6, <3>9
    <2>6. \E e \in idMap : e.from = id
      <3>1. PICK q \in 1 .. Len(queue) : FromFile(queue[q], jobs, j, n)
        BY <1>1, <1>3, <2>2 DEF QueueOf
      <3>2. queue[q].partialFileId = j /\ queue[q].id = id[2]
        BY <1>3, <2>3, <3>1 DEF FromFile
      <3>3. PICK e : e = [from |-> <<VocabIndex, queue[q].id>>, to |-> TargetId(queue, q)]
        OBVIOUS
      <3>4. e \in idMap
        BY <2>4, <3>2, <3>3
      <3>5. e.from = id
        BY <2>2, <3>2, <3>3
      <3> QED BY <3>4, <3>5
    <2>7. PICK e : e = CHOOSE x \in idMap : x.from = id
      OBVIOUS
    <2>8. e \in idMap /\ e.from = id
      BY <2>6, <2>7, Zenon
    <2>9. NewId(idMap, id) = e.to
      BY <1>6, <2>7 DEF NewId
    <2>10. RawOf(file, id) = file[n].word
      BY <1>6, <2>1 DEF RawOf
    <2> QED BY <1>3, <1>4, <2>5, <2>6, <2>8, <2>9, <2>10 DEF Translates
  <1>7. CASE id[1] # VocabIndex
    <2>1. id \in Int \X Int /\ id[1] = IntType /\ id[2] > 0
      BY <1>7 DEF IdOk
    <2>2. NewId(idMap, id) = id /\ RawOf(file, id) = -id[2]
      BY <1>7 DEF NewId, RawOf
    <2>3. id[2] \in Int /\ id[2] = -(-id[2]) /\ -id[2] < 0
      BY <2>1
    <2>4. StandsFor(vocab, blank, id, -id[2])
      BY <2>1, <2>3 DEF StandsFor
    <2> QED BY <1>3, <1>4, <1>7, <2>2, <2>4 DEF Translates
  <1> QED BY <1>6, <1>7

\* The range of the ids of the words with a prefix has exactly their ids.
LEMMA RangeExact ==
    ASSUME NEW vocab \in Seq(QueueEntry), Increasing(vocab), NEW blank,
           NEW words, PrefixWords(words), NEW id, NEW w \in Int, StandsFor(vocab, blank, id, w)
    PROVE  InRange(IdRangeForPrefix(vocab, words), id) <=> w \in words
  <1> DEFINE M == {n \in DOMAIN vocab : vocab[n].word \in words}
  <1>1. /\ DOMAIN vocab = 1 .. Len(vocab) /\ Len(vocab) \in Nat
        /\ \A n \in 1 .. Len(vocab) : vocab[n].word \in Int
    <2>1. DOMAIN vocab = 1 .. Len(vocab) /\ Len(vocab) \in Nat /\ \A n \in 1 .. Len(vocab) : vocab[n] \in QueueEntry
      OBVIOUS
    <2> QED BY <2>1 DEF QueueEntry
  <1>2. words \subseteq Word /\ words \intersect BlankNodes = {} /\ \A a, b \in words : \A c \in a .. b : c \in words
    BY DEF PrefixWords
  <1>3. id \in Int \X Int /\ id[1] \in Int /\ id[2] \in Int
    BY DEF StandsFor
  <1>4. VocabIndex = 4 /\ IntType = 2 /\ BlankNodeIndex = 10
    BY DEF VocabIndex, IntType, BlankNodeIndex
  <1>5. CASE M = {}
    <2>1. IdRangeForPrefix(vocab, words) = [begin |-> <<0, 0>>, end |-> <<0, 0>>]
      BY <1>5 DEF IdRangeForPrefix
    <2>2. ~InRange(IdRangeForPrefix(vocab, words), id)
      BY <1>3, <2>1 DEF InRange
    <2>3. w \notin words
      <3>1. CASE id[1] = VocabIndex
        BY <1>1, <1>4, <1>5, <3>1 DEF StandsFor
      <3>2. CASE id[1] # VocabIndex
        BY <1>2, <3>2 DEF StandsFor, Word
      <3> QED BY <3>1, <3>2
    <2> QED BY <2>2, <2>3
  <1>6. CASE M # {}
    <2>1. M \subseteq 1 .. Len(vocab) /\ M \subseteq Nat
      BY <1>1
    <2>2. PICK a : a = Min(M)
      OBVIOUS
    <2>3. a \in M /\ \A x \in M : a <= x
      <3>1. \E x \in M : \A y \in M : x <= y
        <4> HIDE DEF M
        <4> QED BY <1>6, <2>1, LeastNumber
      <3> HIDE DEF M
      <3> QED BY <2>2, <3>1, Zenon DEF Min
    <2>4. PICK b : b = Max(M)
      OBVIOUS
    <2>5. b \in M /\ \A x \in M : b >= x
      <3> DEFINE D == {d \in Nat : \E x \in M : d = Len(vocab) - x}
      <3>1. D \subseteq Nat /\ D # {}
        <4>1. PICK x \in M : TRUE
          BY <1>6
        <4>2. x \in 1 .. Len(vocab) /\ Len(vocab) - x \in Nat
          BY <1>1, <2>1
        <4>3. Len(vocab) - x \in D
          BY <4>2
        <4> QED BY <4>3
      <3>2. PICK d \in D : \A e \in D : d <= e
        <4> HIDE DEF D
        <4> QED BY <3>1, LeastNumber
      <3>3. PICK x \in M : d = Len(vocab) - x
        BY <3>2
      <3>4. \A y \in M : x >= y
        <4> TAKE y \in M
        <4>1. y \in 1 .. Len(vocab) /\ x \in 1 .. Len(vocab) /\ Len(vocab) - y \in D
          BY <1>1, <2>1
        <4> QED BY <1>1, <3>2, <3>3, <4>1
      <3> HIDE DEF M, D
      <3>5. \E z \in M : \A y \in M : z >= y
        BY <3>4
      <3> QED BY <2>4, <3>5, Zenon DEF Max
    <2>6. IdRangeForPrefix(vocab, words) = [begin |-> <<VocabIndex, a - 1>>, end |-> <<VocabIndex, b>>]
      BY <1>6, <2>2, <2>4 DEF IdRangeForPrefix
    <2>7. a \in Int /\ b \in Int
      BY <2>1, <2>3, <2>5
    <2>8. InRange(IdRangeForPrefix(vocab, words), id) <=>
            id[1] = VocabIndex /\ a - 1 <= id[2] /\ id[2] < b
      <3>1. /\ BitsLess(id, <<VocabIndex, a - 1>>) <=> id[1] < VocabIndex \/ (id[1] = VocabIndex /\ id[2] < a - 1)
            /\ BitsLess(id, <<VocabIndex, b>>) <=> id[1] < VocabIndex \/ (id[1] = VocabIndex /\ id[2] < b)
        BY DEF BitsLess
      <3>2. InRange(IdRangeForPrefix(vocab, words), id) <=>
              ~BitsLess(id, <<VocabIndex, a - 1>>) /\ BitsLess(id, <<VocabIndex, b>>)
        BY <2>6 DEF InRange
      <3> HIDE DEF M
      <3> QED BY <1>3, <1>4, <2>7, <3>1, <3>2
    <2>9. CASE id[1] = VocabIndex
      <3>1. PICK p : p = id[2] + 1
        OBVIOUS
      <3>2. p \in 1 .. Len(vocab) /\ vocab[p].word = w /\ p \in Int
        BY <1>1, <1>4, <2>9, <3>1 DEF StandsFor
      <3>3. InRange(IdRangeForPrefix(vocab, words), id) <=> a <= p /\ p <= b
        <4> HIDE DEF M
        <4> QED BY <1>3, <2>7, <2>8, <2>9, <3>1
      <3>4. ASSUME w \in words PROVE a <= p /\ p <= b
        <4>1. p \in M
          BY <1>1, <3>2, <3>4
        <4> HIDE DEF M
        <4> QED BY <2>3, <2>5, <2>7, <3>2, <4>1
      <3>5. ASSUME a <= p, p <= b PROVE w \in words
        <4>1. a \in 1 .. Len(vocab) /\ b \in 1 .. Len(vocab) /\ vocab[a].word \in words /\ vocab[b].word \in words
          BY <1>1, <2>3, <2>5
        <4>2. vocab[a].word \in Int /\ vocab[b].word \in Int
          BY <1>1, <4>1
        <4>3. vocab[a].word <= w
          <5>1. CASE a = p
            BY <3>2, <4>2, <5>1
          <5>2. CASE a # p
            <6>1. a < p
              BY <2>7, <3>2, <3>5, <5>2
            <6> QED BY <3>2, <4>1, <4>2, <6>1 DEF Increasing
          <5> QED BY <5>1, <5>2
        <4>4. w <= vocab[b].word
          <5>1. CASE b = p
            BY <3>2, <4>2, <5>1
          <5>2. CASE b # p
            <6>1. p < b
              BY <2>7, <3>2, <3>5, <5>2
            <6> QED BY <3>2, <4>1, <4>2, <6>1 DEF Increasing
          <5> QED BY <5>1, <5>2
        <4>5. w \in vocab[a].word .. vocab[b].word
          BY <4>2, <4>3, <4>4
        <4> QED BY <1>2, <4>1, <4>5
      <3> QED BY <3>3, <3>4, <3>5
    <2>10. CASE id[1] # VocabIndex
      <3>1. w \notin words
        BY <1>2, <2>10 DEF StandsFor, Word
      <3> QED BY <2>8, <2>10, <3>1
    <2> QED BY <2>9, <2>10
  <1> QED BY <1>5, <1>6

\* The result of the merge, as far as its vocabulary and its ranges go.
MergedOk ==
    /\ merged.vocab \in Seq(QueueEntry) /\ Increasing(merged.vocab)
    /\ merged.blank \in Seq(QueueEntry) /\ Increasing(merged.blank)
    /\ merged.internalEntities = IdRangeForPrefix(merged.vocab, InternalEntities)
    /\ merged.langTaggedPredicates = IdRangeForPrefix(merged.vocab, LangTaggedPredicates)

\* The triples of a sorter, and the words of one.
PushedRecord == [triple : IdTriple, internal : BOOLEAN]

DecodedTriple(x) ==
    [triple |-> [k \in 1 .. 3 |-> Decoded(x.triple[k])], internal |-> x.internal]

TranslatesTriple(idMap, file, triple) ==
    \A k \in 1 .. 3 : Translates(idMap, merged.vocab, merged.blank, file, triple[k])

RawTripleOf(raw, file, triple) == \A k \in 1 .. 3 : raw[k] = RawOf(file, triple[k])

\* A pushed triple is the one of the parser, and goes to the right sorter.
LEMMA PushedFacts ==
    ASSUME MergedOk, NEW file, NEW triple, NEW idMap, TranslatesTriple(idMap, file, triple),
           NEW raw \in RawTriple, RawTripleOf(raw, file, triple)
    PROVE  /\ Pushed(triple, idMap) \in PushedRecord
           /\ DecodedTriple(Pushed(triple, idMap)) = [triple |-> raw, internal |-> IsInternal(raw)]
  <1>1. PICK new : new = transformTriple(triple, idMap)
    OBVIOUS
  <1>2. new = [k \in 1 .. 3 |-> NewId(idMap, triple[k])]
    BY <1>1 DEF transformTriple, NewId
  <1>3. \A k \in 1 .. 3 : StandsFor(merged.vocab, merged.blank, new[k], raw[k])
    BY <1>2 DEF Translates, TranslatesTriple, RawTripleOf
  <1>4. ASSUME NEW k \in 1 .. 3 PROVE Decoded(new[k]) = raw[k]
    <2>1. raw[k] \in Int /\ StandsFor(merged.vocab, merged.blank, new[k], raw[k])
      BY <1>3 DEF RawTriple
    <2>2. VocabIndex = 4 /\ IntType = 2 /\ BlankNodeIndex = 10
      BY DEF VocabIndex, IntType, BlankNodeIndex
    <2>3. CASE new[k][1] = VocabIndex
      BY <2>1, <2>2, <2>3 DEF StandsFor, Decoded
    <2>4. CASE new[k][1] = BlankNodeIndex
      BY <2>1, <2>2, <2>4 DEF StandsFor, Decoded
    <2>5. CASE new[k][1] = IntType
      <3>1. Decoded(new[k]) = -new[k][2]
        BY <2>2, <2>5 DEF Decoded
      <3>2. new[k][2] = -raw[k]
        BY <2>1, <2>2, <2>5 DEF StandsFor
      <3>3. -(-raw[k]) = raw[k]
        BY <2>1
      <3> QED BY <3>1, <3>2, <3>3
    <2> QED BY <2>1, <2>3, <2>4, <2>5 DEF StandsFor
  <1>5. [k \in 1 .. 3 |-> Decoded(new[k])] = raw
    <2>1. raw = [k \in 1 .. 3 |-> raw[k]]
      BY DEF RawTriple
    <2> QED BY <1>4, <2>1
  <1>6. ASSUME NEW k \in 1 .. 3
        PROVE  /\ InRange(merged.internalEntities, new[k]) <=> raw[k] \in InternalEntities
               /\ InRange(merged.langTaggedPredicates, new[k]) <=> raw[k] \in LangTaggedPredicates
    <2>1. raw[k] \in Int /\ StandsFor(merged.vocab, merged.blank, new[k], raw[k])
      BY <1>3 DEF RawTriple
    <2>2. PrefixWords(InternalEntities) /\ PrefixWords(LangTaggedPredicates)
      BY BuildWords
    <2>3. PICK v, b : v = merged.vocab /\ b = merged.blank
      OBVIOUS
    <2>4. v \in Seq(QueueEntry) /\ Increasing(v) /\ StandsFor(v, b, new[k], raw[k])
      BY <2>1, <2>3 DEF MergedOk
    <2>5. InRange(IdRangeForPrefix(v, InternalEntities), new[k]) <=> raw[k] \in InternalEntities
      BY <2>1, <2>2, <2>4, RangeExact
    <2>6. InRange(IdRangeForPrefix(v, LangTaggedPredicates), new[k]) <=> raw[k] \in LangTaggedPredicates
      BY <2>1, <2>2, <2>4, RangeExact
    <2> QED BY <2>3, <2>5, <2>6 DEF MergedOk
  <1>7. isQleverInternalTriple(new) = IsInternal(raw)
    <2>1. isQleverInternalTriple(new) <=> IsInternal(raw)
      BY <1>6 DEF isQleverInternalTriple, IsInternal
    <2> QED BY <2>1 DEF isQleverInternalTriple, IsInternal
  <1>8. Pushed(triple, idMap) = [triple |-> new, internal |-> isQleverInternalTriple(new)]
    BY <1>1 DEF Pushed
  <1>9. Pushed(triple, idMap) \in PushedRecord
    <2>1. \A k \in 1 .. 3 : new[k] \in Int \X Int
      BY <1>3 DEF StandsFor
    <2>2. new \in IdTriple
      BY <1>2, <2>1 DEF IdTriple
    <2>3. isQleverInternalTriple(new) \in BOOLEAN
      BY DEF isQleverInternalTriple
    <2> QED BY <1>8, <2>2, <2>3 DEF PushedRecord
  <1>10. DecodedTriple(Pushed(triple, idMap)) = [triple |-> raw, internal |-> IsInternal(raw)]
    BY <1>5, <1>7, <1>8 DEF DecodedTriple
  <1> QED BY <1>9, <1>10

\* The vocabulary has the words of the files but for the blank nodes.
VocabularyOf(vocab, js) ==
    \A w \in Int : w \in KeyWords(vocab) <=>
        w \notin BlankNodes /\ \E j \in 1 .. Len(js) : w \in KeyWords(js[j].file)

TranslatesAll(idMap, vocab, blank, file) ==
    \A id : IdOk(file, id) => Translates(idMap, vocab, blank, file, id)

\* What the merge results in.
LEMMA MergeFacts ==
    ASSUME jobs \in Seq(JobRecord), \A j \in 1 .. Len(jobs) : ContentOk(jobs[j]),
           merged = mergeVocabulary
    PROVE  /\ MergedOk /\ VocabularyOf(merged.vocab, jobs)
           /\ \A j \in 1 .. Len(jobs) : TranslatesAll(merged.idMaps[j], merged.vocab, merged.blank, jobs[j].file)
  <1>1. PICK queue : queue = QueueWords
    OBVIOUS
  <1>2. PICK vocab : vocab = ElementsAt(queue, WordPositions(queue))
    OBVIOUS
  <1>3. PICK blank : blank = ElementsAt(queue, BlankPositions(queue))
    OBVIOUS
  <1>4. /\ merged.vocab = vocab /\ merged.blank = blank
        /\ merged.internalEntities = IdRangeForPrefix(vocab, InternalEntities)
        /\ merged.langTaggedPredicates = IdRangeForPrefix(vocab, LangTaggedPredicates)
        /\ merged.idMaps = [j \in DOMAIN jobs |-> IdMap(queue, j)]
    BY <1>1, <1>2, <1>3 DEF mergeVocabulary
  <1>5. queue \in Seq(QueueEntry) /\ InOrder(queue) /\ QueueOf(queue, jobs)
    BY <1>1, QueueFacts
  <1>6. /\ vocab \in Seq(QueueEntry) /\ Increasing(vocab)
        /\ blank \in Seq(QueueEntry) /\ Increasing(blank)
        /\ \A w \in Int : w \in KeyWords(vocab) <=> w \in KeyWords(queue) /\ w \notin BlankNodes
    BY <1>2, <1>3, <1>5, MergedQueue
  <1>7. MergedOk
    BY <1>4, <1>6 DEF MergedOk
  <1>8. ASSUME NEW w \in Int
        PROVE  w \in KeyWords(queue) <=> \E j \in 1 .. Len(jobs) : w \in KeyWords(jobs[j].file)
    <2>1. ASSUME w \in KeyWords(queue) PROVE \E j \in 1 .. Len(jobs) : w \in KeyWords(jobs[j].file)
      <3>1. PICK q \in 1 .. Len(queue) : queue[q].word = w
        BY <2>1 DEF KeyWords
      <3>2. PICK j \in 1 .. Len(jobs) : \E n \in 1 .. Len(jobs[j].file) : FromFile(queue[q], jobs, j, n)
        BY <1>5 DEF QueueOf
      <3>3. PICK n \in 1 .. Len(jobs[j].file) : queue[q].word = jobs[j].file[n].word
        BY <3>2 DEF FromFile
      <3> QED BY <3>1, <3>3 DEF KeyWords
    <2>2. ASSUME NEW j \in 1 .. Len(jobs), w \in KeyWords(jobs[j].file) PROVE w \in KeyWords(queue)
      <3>1. PICK n \in 1 .. Len(jobs[j].file) : jobs[j].file[n].word = w
        BY <2>2 DEF KeyWords
      <3>2. PICK q \in 1 .. Len(queue) : queue[q].word = w
        BY <1>5, <3>1 DEF QueueOf, FromFile
      <3> QED BY <3>2 DEF KeyWords
    <2> QED BY <2>1, <2>2
  <1>9. VocabularyOf(vocab, jobs)
    BY <1>6, <1>8 DEF VocabularyOf
  <1>10. ASSUME NEW j \in 1 .. Len(jobs)
         PROVE  TranslatesAll(merged.idMaps[j], vocab, blank, jobs[j].file)
    <2>1. DOMAIN jobs = 1 .. Len(jobs)
      OBVIOUS
    <2>2. merged.idMaps[j] = IdMap(queue, j)
      BY <1>4, <2>1
    <2>3. ASSUME NEW id, IdOk(jobs[j].file, id) PROVE Translates(IdMap(queue, j), vocab, blank, jobs[j].file, id)
      BY <1>1, <1>2, <1>3, <2>3, IdMapTranslates
    <2> QED BY <2>2, <2>3 DEF TranslatesAll
  <1> QED BY <1>4, <1>7, <1>9, <1>10

\* The triples ps of a sorter are the triples raw of the parser.
PushedAs(ps, raw) ==
    /\ ps \in Seq(PushedRecord) /\ Len(ps) = Len(raw)
    /\ \A n \in 1 .. Len(raw) : DecodedTriple(ps[n]) = [triple |-> raw[n], internal |-> IsInternal(raw[n])]

\* More triples are pushed after those that have been.
LEMMA PushedConcat ==
    ASSUME NEW a, NEW b, NEW r \in Seq(RawTriple), NEW s \in Seq(RawTriple), PushedAs(a, r), PushedAs(b, s)
    PROVE  PushedAs(a \o b, r \o s)
  <1>1. a \in Seq(PushedRecord) /\ b \in Seq(PushedRecord) /\ Len(a) = Len(r) /\ Len(b) = Len(s)
    BY DEF PushedAs
  <1>2. PICK c : c = a \o b
    OBVIOUS
  <1>3. PICK t : t = r \o s
    OBVIOUS
  <1>4. /\ c \in Seq(PushedRecord) /\ Len(c) = Len(r) + Len(s) /\ Len(t) = Len(r) + Len(s)
        /\ Len(r) \in Nat /\ Len(s) \in Nat
    <2>1. Len(r) \in Nat /\ Len(s) \in Nat /\ Len(t) = Len(r) + Len(s)
      BY <1>3
    <2>2. c \in Seq(PushedRecord) /\ Len(c) = Len(a) + Len(b)
      BY <1>1, <1>2, ConcatProperties
    <2> QED BY <1>1, <2>1, <2>2
  <1>5. ASSUME NEW n \in 1 .. Len(t)
        PROVE  DecodedTriple(c[n]) = [triple |-> t[n], internal |-> IsInternal(t[n])]
    <2>1. CASE n <= Len(r)
      <3>1. n \in 1 .. Len(r) /\ c[n] = a[n] /\ t[n] = r[n]
        BY <1>1, <1>2, <1>3, <1>4, <2>1
      <3> QED BY <3>1 DEF PushedAs
    <2>2. CASE n > Len(r)
      <3>1. PICK m : m = n - Len(r)
        OBVIOUS
      <3>2. m \in 1 .. Len(s) /\ c[n] = b[m] /\ t[n] = s[m]
        BY <1>1, <1>2, <1>3, <1>4, <2>2, <3>1
      <3> QED BY <3>2 DEF PushedAs
    <2> QED BY <1>4, <2>1, <2>2
  <1> QED BY <1>2, <1>3, <1>4, <1>5 DEF PushedAs

\* The triples of one batch: all of them can be converted, and what is pushed
\* are the triples of the parser.
LEMMA ConvertedBatch ==
    ASSUME jobs \in Seq(JobRecord), \A i \in 1 .. Len(jobs) : ContentOk(jobs[i]),
           merged = mergeVocabulary, NEW j \in 1 .. Len(jobs),
           NEW slice, slice = jobs[j].triples, NEW idMap, idMap = merged.idMaps[j]
    PROVE  /\ Convertible(slice, idMap)
           /\ PushedAs([n \in DOMAIN slice |-> Pushed(slice[n], idMap)], SourceOf(jobs[j]))
  <1>1. MergedOk /\ TranslatesAll(idMap, merged.vocab, merged.blank, jobs[j].file)
    BY MergeFacts
  <1>2. PICK file : file = jobs[j].file
    OBVIOUS
  <1>3. PICK raw : raw = SourceOf(jobs[j])
    OBVIOUS
  <1>4. slice \in Seq(IdTriple) /\ Len(slice) \in Nat /\ DOMAIN slice = 1 .. Len(slice)
    <2>1. jobs[j] \in JobRecord
      OBVIOUS
    <2>2. slice \in Seq(IdTriple)
      BY <2>1 DEF JobRecord
    <2> QED BY <2>2
  <1>5. raw \in Seq(RawTriple)
    BY <1>3 DEF ContentOk
  <1>6. raw = [n \in 1 .. Len(slice) |-> [k \in 1 .. 3 |-> RawOf(file, slice[n][k])]]
    BY <1>2, <1>3 DEF SourceOf
  <1>7. Len(raw) = Len(slice)
    BY <1>4, <1>5, <1>6
  <1>8. ASSUME NEW n \in 1 .. Len(slice)
        PROVE  /\ \A k \in 1 .. 3 : Translates(idMap, merged.vocab, merged.blank, file, slice[n][k])
               /\ raw[n] \in RawTriple /\ \A k \in 1 .. 3 : raw[n][k] = RawOf(file, slice[n][k])
    <2>1. \A k \in 1 .. 3 : IdOk(file, slice[n][k])
      BY <1>2 DEF ContentOk
    <2>2. \A k \in 1 .. 3 : Translates(idMap, merged.vocab, merged.blank, file, slice[n][k])
      BY <1>1, <1>2, <2>1 DEF TranslatesAll
    <2>3. raw[n] \in RawTriple
      BY <1>5, <1>7
    <2>4. raw[n] = [k \in 1 .. 3 |-> RawOf(file, slice[n][k])]
      BY <1>6
    <2> QED BY <2>2, <2>3, <2>4
  <1>9. Convertible(slice, idMap)
    BY <1>4, <1>8 DEF Convertible, Translates
  <1>10. ASSUME NEW n \in 1 .. Len(slice)
         PROVE  /\ Pushed(slice[n], idMap) \in PushedRecord
                /\ DecodedTriple(Pushed(slice[n], idMap)) = [triple |-> raw[n], internal |-> IsInternal(raw[n])]
    <2>1. PICK x, r : x = slice[n] /\ r = raw[n]
      OBVIOUS
    <2>2. TranslatesTriple(idMap, file, x)
      BY <1>8, <2>1 DEF TranslatesTriple
    <2>3. r \in RawTriple /\ RawTripleOf(r, file, x)
      BY <1>8, <2>1 DEF RawTripleOf
    <2>4. Pushed(x, idMap) \in PushedRecord /\ DecodedTriple(Pushed(x, idMap)) = [triple |-> r, internal |-> IsInternal(r)]
      BY <1>1, <2>2, <2>3, PushedFacts
    <2> QED BY <2>1, <2>4
  <1>11. PICK ps : ps = [n \in DOMAIN slice |-> Pushed(slice[n], idMap)]
    OBVIOUS
  <1>12. \A n \in 1 .. Len(slice) : ps[n] = Pushed(slice[n], idMap)
    BY <1>4, <1>11
  <1>13. ps = [n \in 1 .. Len(slice) |-> ps[n]] /\ \A n \in 1 .. Len(slice) : ps[n] \in PushedRecord
    <2>1. ps = [n \in 1 .. Len(slice) |-> ps[n]]
      BY <1>4, <1>11
    <2> QED BY <1>10, <1>12, <2>1
  <1>14. ps \in Seq(PushedRecord) /\ Len(ps) = Len(slice)
    BY <1>4, <1>13, IsSeq
  <1>15. PushedAs(ps, raw)
    BY <1>7, <1>10, <1>12, <1>14 DEF PushedAs
  <1> QED BY <1>3, <1>9, <1>11, <1>15

-----------------------------------------------------------------------------
(***************************************************************************)
(* The inductive invariant.                                                *)
(***************************************************************************)

Phases == {"idle", "parse", "launch", "wait", "unwind", "failed", "convert", "done"}

\* The turns of the writers: those that wait for theirs or never ask for it are
\* the last ones.  And the writers that are waited for: the last ones too.  All
\* before them have succeeded.
TurnsOk ==
    \A j \in 1 .. Len(jobs) : jobs[j].write \in {"running", "none"} <=> j >= nextOrderedRequest

WindowOk ==
    /\ Len(futures) <= NumFutures /\ Len(futures) <= Len(jobs)
    /\ \A i \in 1 .. Len(futures) : futures[i] = Len(jobs) - Len(futures) + i
    /\ \A j \in 1 .. Len(jobs) - Len(futures) : jobs[j].words = "done" /\ jobs[j].write = "done"

SomeFailed == \E j \in 1 .. Len(jobs) : Failed(jobs[j])

WritersInv ==
    /\ phase \in Phases
    /\ jobs \in Seq(JobRecord) /\ futures \in Seq(Nat)
    /\ nextOrderedRequest \in 1 .. Len(jobs) + 1
    /\ TurnsOk
    /\ WindowOk
    /\ phase \in {"convert", "done"} => futures = <<>>
    /\ phase \in {"unwind", "failed"} /\ exhausted => SomeFailed

\* The triples of the writers, of a batch that has been read, and those that
\* have still to be read are all triples, in their order.
Sources == [j \in 1 .. Len(jobs) |-> SourceOf(jobs[j])]
Unread == AllTriplesOf(FlattenSeq(parsed))
AllWith(raw) == FlattenSeq(Sources) \o (raw \o Unread) = AllTriples

\* The ids suffice for the batch that has been read.
LaunchOk ==
    phase = "launch" => \E batches \in Seq(Seq(ParsedTriple)) :
                            /\ IdsSuffice(batches) /\ current = BatchOf(batches)
                            /\ AllWith(AllTriplesOf(FlattenSeq(batches)))

\* A writer starts with both of its outcomes open.
LEMMA LaunchedJob ==
    ASSUME LaunchOk, phase = "launch"
    PROVE  Job(current) \in JobRecord /\ Job(current).words = "running" /\ Job(current).write = "running"
  <1>1. PICK batches \in Seq(Seq(ParsedTriple)) : IdsSuffice(batches) /\ current = BatchOf(batches)
    BY DEF LaunchOk
  <1> QED BY <1>1, JobFacts

\* A step of a writer changes the outcomes of one job only.
SameOthers(j) ==
    /\ jobs' \in Seq(JobRecord) /\ Len(jobs') = Len(jobs)
    /\ \A i \in 1 .. Len(jobs) : i # j => jobs'[i] = jobs[i]
    /\ jobs'[j].file = jobs[j].file /\ jobs'[j].triples = jobs[j].triples

\* The end of the words of a batch.
LEMMA WordsStep ==
    ASSUME jobs \in Seq(JobRecord), NEW j \in DOMAIN jobs, NEW outcome \in {"done", "error"},
           EndOfWords(j, outcome)
    PROVE  SameOthers(j) /\ jobs'[j].words = outcome /\ jobs'[j].write = jobs[j].write
  <1>1. jobs' = [jobs EXCEPT ![j].words = outcome]
    BY DEF EndOfWords
  <1>2. Len(jobs) \in Nat /\ DOMAIN jobs = 1 .. Len(jobs) /\ jobs[j] \in JobRecord
    OBVIOUS
  <1>3. PICK new : new = [jobs[j] EXCEPT !.words = outcome]
    OBVIOUS
  <1>4. /\ new \in JobRecord /\ new.words = outcome /\ new.write = jobs[j].write
        /\ new.file = jobs[j].file /\ new.triples = jobs[j].triples
    BY <1>2, <1>3 DEF JobRecord, Outcome, WriteOutcome
  <1>5. jobs' = [jobs EXCEPT ![j] = new]
    BY <1>1, <1>3
  <1>6. jobs' \in Seq(JobRecord) /\ Len(jobs') = Len(jobs) /\ jobs'[j] = new
    BY <1>2, <1>4, <1>5
  <1>7. \A i \in 1 .. Len(jobs) : i # j => jobs'[i] = jobs[i]
    BY <1>2, <1>5
  <1> QED BY <1>4, <1>6, <1>7 DEF SameOthers

\* The end of the triples of a batch.
LEMMA WriteStep ==
    ASSUME jobs \in Seq(JobRecord), NEW j \in DOMAIN jobs, NEW outcome \in {"done", "error"},
           NEW written, EndOfWrite(j, written, outcome)
    PROVE  SameOthers(j) /\ jobs'[j].write = outcome /\ jobs'[j].words = jobs[j].words
  <1>1. jobs' = [jobs EXCEPT ![j].write = outcome]
    BY DEF EndOfWrite
  <1>2. Len(jobs) \in Nat /\ DOMAIN jobs = 1 .. Len(jobs) /\ jobs[j] \in JobRecord
    OBVIOUS
  <1>3. PICK new : new = [jobs[j] EXCEPT !.write = outcome]
    OBVIOUS
  <1>4. /\ new \in JobRecord /\ new.write = outcome /\ new.words = jobs[j].words
        /\ new.file = jobs[j].file /\ new.triples = jobs[j].triples
    BY <1>2, <1>3 DEF JobRecord, Outcome, WriteOutcome
  <1>5. jobs' = [jobs EXCEPT ![j] = new]
    BY <1>1, <1>3
  <1>6. jobs' \in Seq(JobRecord) /\ Len(jobs') = Len(jobs) /\ jobs'[j] = new
    BY <1>2, <1>4, <1>5
  <1>7. \A i \in 1 .. Len(jobs) : i # j => jobs'[i] = jobs[i]
    BY <1>2, <1>5
  <1> QED BY <1>4, <1>6, <1>7 DEF SameOthers

\* A writer that fails before it asks for its turn.
LEMMA SortStep ==
    ASSUME jobs \in Seq(JobRecord), NEW j \in DOMAIN jobs, SortFails(j)
    PROVE  SameOthers(j) /\ jobs'[j].words = "error" /\ jobs'[j].write = "none"
  <1>1. jobs' = [jobs EXCEPT ![j].words = "error", ![j].write = "none"]
    BY DEF SortFails
  <1>2. Len(jobs) \in Nat /\ DOMAIN jobs = 1 .. Len(jobs) /\ jobs[j] \in JobRecord
    OBVIOUS
  <1>3. PICK new : new = [jobs[j] EXCEPT !.words = "error", !.write = "none"]
    OBVIOUS
  <1>4. /\ new \in JobRecord /\ new.words = "error" /\ new.write = "none"
        /\ new.file = jobs[j].file /\ new.triples = jobs[j].triples
    BY <1>2, <1>3 DEF JobRecord, Outcome, WriteOutcome
  <1>5. jobs' = [jobs EXCEPT ![j] = new]
    BY <1>1, <1>2, <1>3
  <1>6. jobs' \in Seq(JobRecord) /\ Len(jobs') = Len(jobs) /\ jobs'[j] = new
    BY <1>2, <1>4, <1>5
  <1>7. \A i \in 1 .. Len(jobs) : i # j => jobs'[i] = jobs[i]
    BY <1>2, <1>5
  <1> QED BY <1>4, <1>6, <1>7 DEF SameOthers

\* The invariant of the writers is kept by the end of the words of a batch.
LEMMA WritersWords ==
    ASSUME WritersInv, NEW j \in DOMAIN jobs, NEW outcome \in {"done", "error"}, EndOfWords(j, outcome)
    PROVE  WritersInv'
  <1>1. jobs \in Seq(JobRecord) /\ DOMAIN jobs = 1 .. Len(jobs) /\ Len(jobs) \in Nat
    BY DEF WritersInv
  <1>2. SameOthers(j) /\ jobs'[j].words = outcome /\ jobs'[j].write = jobs[j].write
    BY <1>1, WordsStep
  <1>3. jobs[j].words = "running" /\ UNCHANGED <<phase, exhausted, futures, nextOrderedRequest>>
    BY DEF EndOfWords
  <1>4. jobs' \in Seq(JobRecord) /\ Len(jobs') = Len(jobs) /\ \A i \in 1 .. Len(jobs) : i # j => jobs'[i] = jobs[i]
    BY <1>2 DEF SameOthers
  <1>5. TurnsOk'
    BY <1>1, <1>2, <1>3, <1>4 DEF WritersInv, TurnsOk
  <1>6. WindowOk'
    <2>1. \A i \in 1 .. Len(jobs) - Len(futures) : i \in 1 .. Len(jobs) /\ i # j
      <3> TAKE i \in 1 .. Len(jobs) - Len(futures)
      <3>1. Len(futures) \in Nat
        BY DEF WritersInv
      <3>2. jobs[i].words = "done" /\ jobs[i].write = "done"
        BY DEF WritersInv, WindowOk
      <3> QED BY <1>1, <1>3, <3>1, <3>2
    <2> QED BY <1>3, <1>4, <2>1 DEF WritersInv, WindowOk
  <1>7. SomeFailed => SomeFailed'
    <2> SUFFICES ASSUME NEW i \in 1 .. Len(jobs), Failed(jobs[i]) PROVE Failed(jobs'[i])
      BY <1>4 DEF SomeFailed
    <2>1. CASE i = j
      BY <1>2, <1>3, <2>1 DEF Failed
    <2>2. CASE i # j
      BY <1>4, <2>2
    <2> QED BY <2>1, <2>2
  <1> QED BY <1>3, <1>4, <1>5, <1>6, <1>7 DEF WritersInv

\* It is kept by a writer that fails before it asks for its turn.
LEMMA WritersSort ==
    ASSUME WritersInv, NEW j \in DOMAIN jobs, SortFails(j)
    PROVE  WritersInv'
  <1>1. jobs \in Seq(JobRecord) /\ DOMAIN jobs = 1 .. Len(jobs) /\ Len(jobs) \in Nat
    BY DEF WritersInv
  <1>2. SameOthers(j) /\ jobs'[j].words = "error" /\ jobs'[j].write = "none"
    BY <1>1, SortStep
  <1>3. jobs[j].write = "running" /\ UNCHANGED <<phase, exhausted, futures, nextOrderedRequest>>
    BY DEF SortFails
  <1>4. jobs' \in Seq(JobRecord) /\ Len(jobs') = Len(jobs) /\ \A i \in 1 .. Len(jobs) : i # j => jobs'[i] = jobs[i]
    BY <1>2 DEF SameOthers
  <1>5. TurnsOk'
    BY <1>1, <1>2, <1>3, <1>4 DEF WritersInv, TurnsOk
  <1>6. WindowOk'
    <2>1. \A i \in 1 .. Len(jobs) - Len(futures) : i \in 1 .. Len(jobs) /\ i # j
      <3> TAKE i \in 1 .. Len(jobs) - Len(futures)
      <3>1. Len(futures) \in Nat
        BY DEF WritersInv
      <3>2. jobs[i].words = "done" /\ jobs[i].write = "done"
        BY DEF WritersInv, WindowOk
      <3> QED BY <1>1, <1>3, <3>1, <3>2
    <2> QED BY <1>3, <1>4, <2>1 DEF WritersInv, WindowOk
  <1>7. SomeFailed'
    BY <1>1, <1>2, <1>4 DEF SomeFailed, Failed
  <1> QED BY <1>3, <1>4, <1>5, <1>6, <1>7 DEF WritersInv

\* It is kept by the end of the triples of a batch.
LEMMA WritersWrite ==
    ASSUME WritersInv, NEW j \in DOMAIN jobs, NEW outcome \in {"done", "error"}, NEW written,
           EndOfWrite(j, written, outcome)
    PROVE  WritersInv'
  <1>1. jobs \in Seq(JobRecord) /\ DOMAIN jobs = 1 .. Len(jobs) /\ Len(jobs) \in Nat
    BY DEF WritersInv
  <1>2. SameOthers(j) /\ jobs'[j].write = outcome /\ jobs'[j].words = jobs[j].words
    BY <1>1, WriteStep
  <1>3. /\ jobs[j].write = "running" /\ j = nextOrderedRequest /\ nextOrderedRequest' = nextOrderedRequest + 1
        /\ UNCHANGED <<phase, exhausted, futures>>
    BY DEF EndOfWrite
  <1>4. jobs' \in Seq(JobRecord) /\ Len(jobs') = Len(jobs) /\ \A i \in 1 .. Len(jobs) : i # j => jobs'[i] = jobs[i]
    BY <1>2 DEF SameOthers
  <1>5. TurnsOk'
    <2> SUFFICES ASSUME NEW i \in 1 .. Len(jobs)
                 PROVE  jobs'[i].write \in {"running", "none"} <=> i >= nextOrderedRequest'
      BY <1>4 DEF TurnsOk
    <2>1. jobs[i].write \in {"running", "none"} <=> i >= nextOrderedRequest
      BY DEF WritersInv, TurnsOk
    <2>2. i \in Int /\ j \in Int
      BY <1>1
    <2>3. CASE i = j
      BY <1>2, <1>3, <2>2, <2>3
    <2>4. CASE i # j
      BY <1>3, <1>4, <2>1, <2>2, <2>4
    <2> QED BY <2>3, <2>4
  <1>6. WindowOk'
    <2>1. \A i \in 1 .. Len(jobs) - Len(futures) : i \in 1 .. Len(jobs) /\ i # j
      <3> TAKE i \in 1 .. Len(jobs) - Len(futures)
      <3>1. Len(futures) \in Nat
        BY DEF WritersInv
      <3>2. jobs[i].words = "done" /\ jobs[i].write = "done"
        BY DEF WritersInv, WindowOk
      <3> QED BY <1>1, <1>3, <3>1, <3>2
    <2> QED BY <1>3, <1>4, <2>1 DEF WritersInv, WindowOk
  <1>7. SomeFailed => SomeFailed'
    <2> SUFFICES ASSUME NEW i \in 1 .. Len(jobs), Failed(jobs[i]) PROVE Failed(jobs'[i])
      BY <1>4 DEF SomeFailed
    <2>1. CASE i = j
      BY <1>2, <1>3, <2>1 DEF Failed
    <2>2. CASE i # j
      BY <1>4, <2>2
    <2> QED BY <2>1, <2>2
  <1>8. nextOrderedRequest' \in 1 .. Len(jobs') + 1
    BY <1>1, <1>3, <1>4
  <1> QED BY <1>3, <1>4, <1>5, <1>6, <1>7, <1>8 DEF WritersInv

\* It is kept by the start of a writer, which may end the wait for another.
LEMMA WritersLaunch ==
    ASSUME WritersInv, LaunchOk, exhausted \in BOOLEAN, Launch
    PROVE  WritersInv'
  <1>1. PICK job : job = Job(current)
    OBVIOUS
  <1>2. phase = "launch" /\ job \in JobRecord /\ job.words = "running" /\ job.write = "running"
    BY <1>1, LaunchedJob DEF Launch
  <1>3. /\ jobs \in Seq(JobRecord) /\ futures \in Seq(Nat) /\ Len(jobs) \in Nat /\ Len(futures) \in Nat
        /\ NumFutures \in Nat \ {0} /\ WindowOk /\ TurnsOk /\ nextOrderedRequest \in 1 .. Len(jobs) + 1
    BY BuildNumbers DEF WritersInv
  <1>4. /\ jobs' = Append(jobs, job) /\ nextOrderedRequest' = nextOrderedRequest
        /\ futures' = Append(IF Len(futures) = NumFutures THEN Tail(futures) ELSE futures, Len(jobs) + 1)
        /\ phase' = IF exhausted THEN "wait" ELSE "parse"
        /\ Len(futures) = NumFutures => Finished(jobs[Head(futures)]) /\ ~Failed(jobs[Head(futures)])
    BY <1>1 DEF Launch
  <1>5. /\ jobs' \in Seq(JobRecord) /\ Len(jobs') = Len(jobs) + 1
        /\ \A i \in 1 .. Len(jobs) : jobs'[i] = jobs[i]
        /\ jobs'[Len(jobs) + 1] = job
    BY <1>2, <1>3, <1>4
  <1>6. TurnsOk'
    <2> SUFFICES ASSUME NEW i \in 1 .. Len(jobs) + 1
                 PROVE  jobs'[i].write \in {"running", "none"} <=> i >= nextOrderedRequest
      BY <1>4, <1>5 DEF TurnsOk
    <2>1. CASE i = Len(jobs) + 1
      BY <1>2, <1>3, <1>5, <2>1
    <2>2. CASE i # Len(jobs) + 1
      <3>1. i \in 1 .. Len(jobs)
        BY <1>3, <2>2
      <3> QED BY <1>3, <1>5, <3>1 DEF TurnsOk
    <2> QED BY <2>1, <2>2
  <1>7. CASE Len(futures) = NumFutures
    <2>1. PICK f : f = Tail(futures)
      OBVIOUS
    <2>2. /\ f \in Seq(Nat) /\ Len(f) = Len(futures) - 1
          /\ \A i \in 1 .. Len(futures) - 1 : f[i] = futures[i + 1]
      BY <1>3, <1>7, <2>1
    <2>3. futures' = Append(f, Len(jobs) + 1)
      BY <1>4, <1>7, <2>1
    <2>4. /\ futures' \in Seq(Nat) /\ Len(futures') = Len(futures)
          /\ \A i \in 1 .. Len(futures) - 1 : futures'[i] = futures[i + 1]
          /\ futures'[Len(futures)] = Len(jobs) + 1
      BY <1>3, <2>2, <2>3
    <2>5. Head(futures) = futures[1] /\ 1 \in 1 .. Len(futures)
      BY <1>3, <1>7
    <2>6. PICK o : o = Len(jobs) - Len(futures) + 1
      OBVIOUS
    <2>7. o \in 1 .. Len(jobs) /\ Head(futures) = o
      BY <1>3, <2>5, <2>6 DEF WindowOk
    <2>8. jobs[o].words = "done" /\ jobs[o].write = "done"
      <3>1. jobs[o] \in JobRecord /\ Finished(jobs[o]) /\ ~Failed(jobs[o])
        BY <1>3, <1>4, <1>7, <2>7
      <3> QED BY <3>1 DEF Finished, Failed, JobRecord, Outcome, WriteOutcome
    <2>9. \A i \in 1 .. Len(futures') : futures'[i] = Len(jobs') - Len(futures') + i
      <3> TAKE i \in 1 .. Len(futures')
      <3>1. CASE i = Len(futures)
        BY <1>3, <1>5, <2>4, <3>1
      <3>2. CASE i # Len(futures)
        <4>1. i \in 1 .. Len(futures) - 1 /\ i + 1 \in 1 .. Len(futures)
          BY <1>3, <2>4, <3>2
        <4>2. futures'[i] = Len(jobs) - Len(futures) + (i + 1)
          BY <1>3, <2>4, <4>1 DEF WindowOk
        <4> QED BY <1>3, <1>5, <2>4, <4>1, <4>2
      <3> QED BY <3>1, <3>2
    <2>10. \A i \in 1 .. Len(jobs') - Len(futures') : jobs'[i].words = "done" /\ jobs'[i].write = "done"
      <3> TAKE i \in 1 .. Len(jobs') - Len(futures')
      <3>1. i \in 1 .. o
        BY <1>3, <1>5, <2>4, <2>6
      <3>2. i \in 1 .. Len(jobs) /\ i \in Int /\ o \in Int
        BY <1>3, <2>7, <3>1
      <3>3. CASE i = o
        BY <1>5, <2>8, <3>2, <3>3
      <3>4. CASE i # o
        <4>1. i \in 1 .. Len(jobs) - Len(futures)
          BY <1>3, <2>6, <3>1, <3>4
        <4> QED BY <1>3, <1>5, <3>2, <4>1 DEF WindowOk
      <3> QED BY <3>3, <3>4
    <2>11. WindowOk'
      <3>1. Len(futures') <= NumFutures /\ Len(futures') <= Len(jobs')
        BY <1>3, <1>5, <2>4 DEF WindowOk
      <3> QED BY <2>9, <2>10, <3>1 DEF WindowOk
    <2> QED BY <1>2, <1>3, <1>4, <1>5, <1>6, <2>4, <2>11 DEF WritersInv, Phases
  <1>8. CASE Len(futures) # NumFutures
    <2>1. futures' = Append(futures, Len(jobs) + 1)
      BY <1>4, <1>8
    <2>2. /\ futures' \in Seq(Nat) /\ Len(futures') = Len(futures) + 1
          /\ \A i \in 1 .. Len(futures) : futures'[i] = futures[i]
          /\ futures'[Len(futures) + 1] = Len(jobs) + 1
      BY <1>3, <2>1
    <2>3. \A i \in 1 .. Len(futures') : futures'[i] = Len(jobs') - Len(futures') + i
      <3> TAKE i \in 1 .. Len(futures')
      <3>1. CASE i = Len(futures) + 1
        BY <1>3, <1>5, <2>2, <3>1
      <3>2. CASE i # Len(futures) + 1
        <4>1. i \in 1 .. Len(futures)
          BY <1>3, <2>2, <3>2
        <4>2. futures'[i] = Len(jobs) - Len(futures) + i
          BY <1>3, <2>2, <4>1 DEF WindowOk
        <4> QED BY <1>3, <1>5, <2>2, <4>1, <4>2
      <3> QED BY <3>1, <3>2
    <2>4. \A i \in 1 .. Len(jobs') - Len(futures') : jobs'[i].words = "done" /\ jobs'[i].write = "done"
      <3> TAKE i \in 1 .. Len(jobs') - Len(futures')
      <3>1. i \in 1 .. Len(jobs) - Len(futures) /\ i \in 1 .. Len(jobs)
        BY <1>3, <1>5, <2>2
      <3> QED BY <1>3, <1>5, <3>1 DEF WindowOk
    <2>5. WindowOk'
      <3>1. Len(futures') <= NumFutures /\ Len(futures') <= Len(jobs')
        BY <1>3, <1>5, <1>8, <2>2, BuildNumbers DEF WindowOk
      <3> QED BY <2>3, <2>4, <3>1 DEF WindowOk
    <2> QED BY <1>2, <1>3, <1>4, <1>5, <1>6, <2>2, <2>5 DEF WritersInv, Phases
  <1> QED BY <1>7, <1>8

\* It is kept by the end of a wait for the oldest writer.
LEMMA WritersGet ==
    ASSUME WritersInv, GetNext
    PROVE  WritersInv'
  <1>1. /\ jobs \in Seq(JobRecord) /\ futures \in Seq(Nat) /\ Len(jobs) \in Nat /\ Len(futures) \in Nat
        /\ WindowOk
    BY DEF WritersInv
  <1>2. /\ phase = "wait" /\ futures # <<>> /\ futures' = Tail(futures)
        /\ UNCHANGED <<phase, exhausted, jobs, nextOrderedRequest>>
        /\ Finished(jobs[Head(futures)]) /\ ~Failed(jobs[Head(futures)])
    BY DEF GetNext
  <1>3. /\ futures' \in Seq(Nat) /\ Len(futures') = Len(futures) - 1 /\ Len(futures) > 0
        /\ \A i \in 1 .. Len(futures) - 1 : futures'[i] = futures[i + 1]
        /\ Head(futures) = futures[1]
    BY <1>1, <1>2
  <1>4. PICK o : o = Len(jobs) - Len(futures) + 1
    OBVIOUS
  <1>5. o \in 1 .. Len(jobs) /\ Head(futures) = o
    BY <1>1, <1>3, <1>4 DEF WindowOk
  <1>6. jobs[o].words = "done" /\ jobs[o].write = "done"
    <2>1. jobs[o] \in JobRecord /\ Finished(jobs[o]) /\ ~Failed(jobs[o])
      BY <1>1, <1>2, <1>5
    <2> QED BY <2>1 DEF Finished, Failed, JobRecord, Outcome, WriteOutcome
  <1>7. \A i \in 1 .. Len(futures') : futures'[i] = Len(jobs) - Len(futures') + i
    <2> TAKE i \in 1 .. Len(futures')
    <2>1. i \in 1 .. Len(futures) - 1 /\ i + 1 \in 1 .. Len(futures)
      BY <1>1, <1>3
    <2>2. futures'[i] = Len(jobs) - Len(futures) + (i + 1)
      BY <1>1, <1>3, <2>1 DEF WindowOk
    <2> QED BY <1>1, <1>3, <2>1, <2>2
  <1>8. \A i \in 1 .. Len(jobs) - Len(futures') : jobs[i].words = "done" /\ jobs[i].write = "done"
    <2> TAKE i \in 1 .. Len(jobs) - Len(futures')
    <2>1. i \in 1 .. o /\ i \in Int /\ o \in Int
      BY <1>1, <1>3, <1>4
    <2>2. CASE i = o
      BY <1>6, <2>2
    <2>3. CASE i # o
      <3>1. i \in 1 .. Len(jobs) - Len(futures)
        BY <1>1, <1>4, <2>1, <2>3
      <3> QED BY <1>1, <3>1 DEF WindowOk
    <2> QED BY <2>2, <2>3
  <1>9. WindowOk'
    BY <1>1, <1>2, <1>3, <1>7, <1>8, BuildNumbers DEF WindowOk, WritersInv
  <1>10. TurnsOk' /\ (SomeFailed => SomeFailed')
    BY <1>2 DEF TurnsOk, WritersInv, SomeFailed
  <1> QED BY <1>2, <1>3, <1>9, <1>10 DEF WritersInv

\* The triples that are made of some parsed ones.
LEMMA AllTriplesFacts ==
    ASSUME NEW s \in Seq(ParsedTriple), NEW t \in Seq(ParsedTriple)
    PROVE  /\ AllTriplesOf(s) \in Seq(RawTriple)
           /\ AllTriplesOf(s \o t) = AllTriplesOf(s) \o AllTriplesOf(t)
  <1> DEFINE Of(u) == [n \in DOMAIN u |-> TriplesOf(u[n])]
  <1>1. ASSUME NEW u \in Seq(ParsedTriple)
        PROVE  /\ Of(u) \in Seq(Seq(RawTriple)) /\ Len(Of(u)) = Len(u)
               /\ \A n \in 1 .. Len(u) : Of(u)[n] = TriplesOf(u[n])
    <2>1. Len(u) \in Nat /\ DOMAIN u = 1 .. Len(u) /\ \A n \in 1 .. Len(u) : u[n] \in ParsedTriple
      OBVIOUS
    <2>2. \A n \in 1 .. Len(u) : TriplesOf(u[n]) \in Seq(RawTriple)
      BY <2>1, TriplesAndKeys
    <2> QED BY <2>1, <2>2
  <1>2. \A u : AllTriplesOf(u) = FlattenSeq(Of(u))
    BY DEF AllTriplesOf
  <1> HIDE DEF Of
  <1>3. PICK st : st = s \o t
    OBVIOUS
  <1>4. /\ st \in Seq(ParsedTriple) /\ Len(st) = Len(s) + Len(t)
        /\ \A n \in 1 .. Len(s) : st[n] = s[n]
        /\ \A n \in 1 .. Len(t) : st[Len(s) + n] = t[n]
    BY <1>3
  <1>5. PICK a, b, c : a = Of(s) /\ b = Of(t) /\ c = Of(st)
    OBVIOUS
  <1>6. /\ a \in Seq(Seq(RawTriple)) /\ Len(a) = Len(s) /\ \A n \in 1 .. Len(s) : a[n] = TriplesOf(s[n])
        /\ b \in Seq(Seq(RawTriple)) /\ Len(b) = Len(t) /\ \A n \in 1 .. Len(t) : b[n] = TriplesOf(t[n])
        /\ c \in Seq(Seq(RawTriple)) /\ Len(c) = Len(st) /\ \A n \in 1 .. Len(st) : c[n] = TriplesOf(st[n])
    BY <1>1, <1>4, <1>5
  <1>7. c = a \o b
    <2>1. Len(s) \in Nat /\ Len(t) \in Nat /\ Len(c) = Len(a) + Len(b)
      BY <1>4, <1>6
    <2>2. ASSUME NEW n \in 1 .. Len(a) PROVE c[n] = a[n]
      <3>1. n \in 1 .. Len(s) /\ n \in 1 .. Len(st)
        BY <1>4, <1>6, <2>1
      <3> QED BY <1>4, <1>6, <3>1
    <2>3. ASSUME NEW n \in 1 .. Len(b) PROVE c[Len(a) + n] = b[n]
      <3>1. n \in 1 .. Len(t) /\ Len(s) + n \in 1 .. Len(st)
        BY <1>4, <1>6, <2>1
      <3> QED BY <1>4, <1>6, <3>1
    <2> QED BY <1>6, <2>1, <2>2, <2>3, ConcatIs
  <1>8. FlattenSeq(c) = FlattenSeq(a) \o FlattenSeq(b)
    BY <1>6, <1>7, FlattenConcat
  <1>9. FlattenSeq(a) \in Seq(RawTriple)
    BY <1>6, FlattenElements
  <1> QED BY <1>2, <1>3, <1>5, <1>8, <1>9

\* What has still to be read is the end of the input.
EndOf(s, t) == \E n \in 1 .. Len(t) + 1 : s = SubSeq(t, n, Len(t))
Suffix == EndOf(parsed, total)

\* The batches that are taken are at the beginning of what has still to be
\* read, their ids suffice, and if they are not enough they are all.
LEMMA ParseFacts ==
    ASSUME total \in ParsedInputs, Suffix,
           NEW n, n = NumTaken, NEW batches, batches = SubSeq(parsed, 1, n),
           NEW rest, rest = SubSeq(parsed, n + 1, Len(parsed))
    PROVE  /\ parsed \in Seq(Seq(ParsedTriple)) /\ parsed = batches \o rest
           /\ batches \in Seq(Seq(ParsedTriple)) /\ rest \in Seq(Seq(ParsedTriple))
           /\ IdsSuffice(batches)
           /\ ~Complete(batches) => rest = <<>>
           /\ EndOf(rest, total)
  <1>1. total \in Seq(Seq(ParsedTriple)) /\ Len(total) \in Nat
    BY BuildInputs
  <1>2. PICK first \in 1 .. Len(total) + 1 : parsed = SubSeq(total, first, Len(total))
    BY DEF Suffix, EndOf
  <1>3. parsed \in Seq(Seq(ParsedTriple)) /\ Len(parsed) \in Nat /\ Len(parsed) = Len(total) - first + 1
    BY <1>1, <1>2, Part
  <1> DEFINE T == {k \in 0 .. Len(parsed) : Complete(SubSeq(parsed, 1, k))} \union {Len(parsed)}
  <1>4. T \subseteq 0 .. Len(parsed) /\ T \subseteq Nat /\ Len(parsed) \in T
    BY <1>3
  <1>5. n \in T /\ \A k \in T : n <= k
    <2>1. n = Min(T)
      BY DEF NumTaken
    <2> HIDE DEF T
    <2>2. \E x \in T : \A y \in T : x <= y
      BY <1>4, LeastNumber
    <2> QED BY <2>1, <2>2, Zenon DEF Min
  <1>6. n \in 0 .. Len(parsed) /\ n \in Int
    BY <1>4, <1>5
  <1>7. batches \in Seq(Seq(ParsedTriple)) /\ rest \in Seq(Seq(ParsedTriple)) /\ Len(rest) = Len(parsed) - n
    BY <1>3, <1>6, Part
  <1>8. parsed = batches \o rest
    BY <1>3, <1>6, TwoParts
  <1>9. \A k \in 0 .. Len(parsed) : /\ SubSeq(parsed, 1, k) = SubSeq(total, first, first + k - 1)
                                    /\ SubSeq(parsed, k + 1, Len(parsed)) = SubSeq(total, first + k, Len(total))
    BY <1>1, <1>2, PartsOfEnd, SMTT(30)
  <1>10. EndOf(rest, total)
    <2>1. first + n \in 1 .. Len(total) + 1
      BY <1>1, <1>3, <1>6
    <2> QED BY <1>6, <1>9, <2>1 DEF EndOf
  <1>11. ~Complete(batches) => rest = <<>>
    <2> SUFFICES ASSUME ~Complete(batches) PROVE rest = <<>>
      OBVIOUS
    <2>1. n = Len(parsed)
      BY <1>5
    <2> QED BY <1>3, <1>7, <2>1
  <1>12. IdsSuffice(batches)
    <2>1. PICK last : last = first + n - 1
      OBVIOUS
    <2>2. last \in first - 1 .. Len(total)
      BY <1>1, <1>3, <1>6, <2>1
    <2>3. batches = SubSeq(total, first, last)
      BY <1>6, <1>9, <2>1
    <2>4. ASSUME last >= first PROVE ~Complete(SubSeq(total, first, last - 1))
      <3>1. n - 1 \in 0 .. Len(parsed) /\ first + (n - 1) - 1 = last - 1
        BY <1>3, <1>6, <2>1, <2>4
      <3>2. SubSeq(parsed, 1, n - 1) = SubSeq(total, first, last - 1)
        BY <1>9, <3>1
      <3>3. n - 1 \notin T
        BY <1>5, <1>6
      <3>4. ~Complete(SubSeq(parsed, 1, n - 1))
        BY <3>1, <3>3
      <3> QED BY <3>2, <3>4
    <2> QED BY <1>2, <2>2, <2>3, <2>4, BuildIds
  <1> QED BY <1>3, <1>7, <1>8, <1>10, <1>11, <1>12

\* The triples that the first n writers have written.
Written(js, n) == [j \in 1 .. n |-> IF js[j].write = "done" THEN js[j].triples ELSE <<>>]

\* What the writers write, and what has been written: the triples of those
\* that have had their turn, in the order of the batches.
ContentInv ==
    /\ \A j \in 1 .. Len(jobs) : ContentOk(jobs[j])
    /\ idTriples = FlattenSeq(Written(jobs, nextOrderedRequest - 1))

\* The content of a job does not depend on its outcomes.
LEMMA SameContent ==
    ASSUME NEW a, NEW b, a.file = b.file, a.triples = b.triples
    PROVE  SourceOf(a) = SourceOf(b) /\ (ContentOk(a) <=> ContentOk(b))
  <1>1. SourceOf(a) = SourceOf(b)
    BY DEF SourceOf
  <1> QED BY <1>1 DEF ContentOk

\* What has been written are sequences of triples.
LEMMA WrittenType ==
    ASSUME NEW js \in Seq(JobRecord), NEW n \in 0 .. Len(js)
    PROVE  Written(js, n) \in Seq(Seq(IdTriple)) /\ Len(Written(js, n)) = n
  <1>1. \A j \in 1 .. n : js[j] \in JobRecord
    OBVIOUS
  <1>2. \A j \in 1 .. n : js[j].triples \in Seq(IdTriple)
    BY <1>1 DEF JobRecord
  <1>3. \A j \in 1 .. n : (IF js[j].write = "done" THEN js[j].triples ELSE <<>>) \in Seq(IdTriple)
    BY <1>2
  <1>4. n \in Nat
    OBVIOUS
  <1>5. PICK w : w = Written(js, n)
    OBVIOUS
  <1>6. \A j \in 1 .. n : w[j] \in Seq(IdTriple)
    BY <1>3, <1>5 DEF Written
  <1>7. w = [j \in 1 .. n |-> w[j]]
    BY <1>5 DEF Written
  <1> QED BY <1>4, <1>5, <1>6, <1>7, IsSeq, SMTT(30)

\* A step of a writer leaves the contents of all jobs as they are.
LEMMA OthersContent ==
    ASSUME jobs \in Seq(JobRecord), NEW j \in 1 .. Len(jobs), SameOthers(j)
    PROVE  /\ (\A i \in 1 .. Len(jobs) : ContentOk(jobs[i])) => (\A i \in 1 .. Len(jobs') : ContentOk(jobs'[i]))
           /\ Sources' = Sources
           /\ \A i \in 1 .. Len(jobs) : jobs'[i].triples = jobs[i].triples
  <1>1. ASSUME NEW i \in 1 .. Len(jobs) PROVE jobs'[i].file = jobs[i].file /\ jobs'[i].triples = jobs[i].triples
    <2>1. CASE i = j
      BY <2>1 DEF SameOthers
    <2>2. CASE i # j
      BY <2>2 DEF SameOthers
    <2> QED BY <2>1, <2>2
  <1>2. \A i \in 1 .. Len(jobs) : /\ SourceOf(jobs'[i]) = SourceOf(jobs[i])
                                  /\ ContentOk(jobs'[i]) <=> ContentOk(jobs[i])
    BY <1>1, SameContent
  <1>3. Len(jobs') = Len(jobs)
    BY DEF SameOthers
  <1>4. Sources' = Sources
    BY <1>2, <1>3 DEF Sources
  <1> QED BY <1>1, <1>2, <1>3, <1>4

\* The content is kept by the steps of the writers.
LEMMA ContentWords ==
    ASSUME WritersInv, ContentInv, NEW j \in DOMAIN jobs, NEW outcome \in {"done", "error"},
           EndOfWords(j, outcome)
    PROVE  ContentInv' /\ Sources' = Sources
  <1>1. jobs \in Seq(JobRecord) /\ DOMAIN jobs = 1 .. Len(jobs) /\ Len(jobs) \in Nat
    BY DEF WritersInv
  <1>2. SameOthers(j) /\ jobs'[j].write = jobs[j].write
    BY <1>1, WordsStep
  <1>3. /\ \A i \in 1 .. Len(jobs') : ContentOk(jobs'[i])
        /\ Sources' = Sources
        /\ \A i \in 1 .. Len(jobs) : jobs'[i].triples = jobs[i].triples
    BY <1>1, <1>2, OthersContent DEF ContentInv
  <1>4. PICK n : n = nextOrderedRequest - 1
    OBVIOUS
  <1>5. nextOrderedRequest' - 1 = n /\ n \in 0 .. Len(jobs) /\ idTriples' = idTriples
    BY <1>1, <1>4 DEF WritersInv, EndOfWords
  <1>6. \A i \in 1 .. n : i \in 1 .. Len(jobs) /\ jobs'[i].write = jobs[i].write
    BY <1>1, <1>2, <1>5 DEF SameOthers
  <1>7. Written(jobs', n) = Written(jobs, n)
    BY <1>3, <1>6 DEF Written
  <1> QED BY <1>3, <1>4, <1>5, <1>7 DEF ContentInv

LEMMA ContentSort ==
    ASSUME WritersInv, ContentInv, NEW j \in DOMAIN jobs, SortFails(j)
    PROVE  ContentInv' /\ Sources' = Sources
  <1>1. jobs \in Seq(JobRecord) /\ DOMAIN jobs = 1 .. Len(jobs) /\ Len(jobs) \in Nat
    BY DEF WritersInv
  <1>2. SameOthers(j) /\ jobs'[j].write = "none" /\ jobs[j].write = "running"
    BY <1>1, SortStep DEF SortFails
  <1>3. /\ \A i \in 1 .. Len(jobs') : ContentOk(jobs'[i])
        /\ Sources' = Sources
        /\ \A i \in 1 .. Len(jobs) : jobs'[i].triples = jobs[i].triples
    BY <1>1, <1>2, OthersContent DEF ContentInv
  <1>4. PICK n : n = nextOrderedRequest - 1
    OBVIOUS
  <1>5. nextOrderedRequest' - 1 = n /\ n \in 0 .. Len(jobs) /\ idTriples' = idTriples
    BY <1>1, <1>4 DEF WritersInv, SortFails
  <1>6. \A i \in 1 .. n : i \in 1 .. Len(jobs) /\ (jobs'[i].write = "done" <=> jobs[i].write = "done")
    BY <1>1, <1>2, <1>5 DEF SameOthers
  <1>7. Written(jobs', n) = Written(jobs, n)
    BY <1>3, <1>6 DEF Written
  <1> QED BY <1>3, <1>4, <1>5, <1>7 DEF ContentInv

\* The triples of a writer whose turn it is follow those of the ones before.
LEMMA ContentWrite ==
    ASSUME WritersInv, ContentInv, NEW j \in DOMAIN jobs, WriteTriples(j) \/ WriteTriplesFails(j)
    PROVE  ContentInv' /\ Sources' = Sources
  <1>1. jobs \in Seq(JobRecord) /\ DOMAIN jobs = 1 .. Len(jobs) /\ Len(jobs) \in Nat
    BY DEF WritersInv
  <1>2. PICK outcome \in {"done", "error"} :
           EndOfWrite(j, IF outcome = "done" THEN jobs[j].triples ELSE <<>>, outcome)
    BY DEF WriteTriples, WriteTriplesFails
  <1>3. PICK written : written = IF outcome = "done" THEN jobs[j].triples ELSE <<>>
    OBVIOUS
  <1>4. SameOthers(j) /\ jobs'[j].write = outcome
    BY <1>1, <1>2, WriteStep
  <1>5. /\ \A i \in 1 .. Len(jobs') : ContentOk(jobs'[i])
        /\ Sources' = Sources
        /\ \A i \in 1 .. Len(jobs) : jobs'[i].triples = jobs[i].triples
    BY <1>1, <1>4, OthersContent DEF ContentInv
  <1>6. PICK n : n = nextOrderedRequest - 1
    OBVIOUS
  <1>7. nextOrderedRequest' - 1 = n + 1 /\ j = n + 1 /\ n \in 0 .. Len(jobs) /\ idTriples' = idTriples \o written
    BY <1>1, <1>2, <1>3, <1>6 DEF WritersInv, EndOfWrite
  <1>8. \A i \in 1 .. n : i \in 1 .. Len(jobs) /\ jobs'[i].write = jobs[i].write
    <2> TAKE i \in 1 .. n
    <2>1. i \in 1 .. Len(jobs) /\ i # j
      BY <1>1, <1>7
    <2> QED BY <1>4, <2>1 DEF SameOthers
  <1>9. PICK w, v : w = Written(jobs, n) /\ v = Written(jobs', n + 1)
    OBVIOUS
  <1>10. w \in Seq(Seq(IdTriple)) /\ Len(w) = n
    BY <1>1, <1>7, <1>9, WrittenType
  <1>11. v \in Seq(Seq(IdTriple)) /\ Len(v) = n + 1
    <2>1. jobs' \in Seq(JobRecord) /\ n + 1 \in 0 .. Len(jobs')
      BY <1>1, <1>4, <1>7 DEF SameOthers
    <2> QED BY <1>9, <2>1, WrittenType
  <1>12. \A i \in 1 .. n : v[i] = w[i]
    <2> TAKE i \in 1 .. n
    <2>1. i \in 1 .. n + 1 /\ i \in 1 .. Len(jobs)
      BY <1>7, <1>8
    <2>2. v[i] = IF jobs'[i].write = "done" THEN jobs'[i].triples ELSE <<>>
      BY <1>9, <2>1 DEF Written
    <2>3. w[i] = IF jobs[i].write = "done" THEN jobs[i].triples ELSE <<>>
      BY <1>9 DEF Written
    <2> QED BY <1>5, <1>8, <2>1, <2>2, <2>3
  <1>13. v[n + 1] = written
    <2>1. n + 1 \in 1 .. n + 1
      BY <1>7
    <2>2. v[n + 1] = IF jobs'[j].write = "done" THEN jobs'[j].triples ELSE <<>>
      BY <1>7, <1>9, <2>1 DEF Written
    <2> QED BY <1>1, <1>3, <1>4, <1>5, <2>2
  <1>14. FlattenSeq(v) = FlattenSeq(w) \o v[n + 1]
    <2>1. n \in Nat
      BY <1>7
    <2> QED BY <1>10, <1>11, <1>12, <2>1, FlattenLast
  <1>15. idTriples' = FlattenSeq(v)
    BY <1>6, <1>7, <1>9, <1>13, <1>14 DEF ContentInv
  <1> QED BY <1>5, <1>7, <1>9, <1>15 DEF ContentInv

\* It is kept by the start of a writer, which takes over the batch.
LEMMA ContentLaunch ==
    ASSUME WritersInv, ContentInv, LaunchOk, Launch
    PROVE  /\ ContentInv'
           /\ \E raw \in Seq(RawTriple) : AllWith(raw) /\ Sources' = Append(Sources, raw)
  <1>1. phase = "launch" /\ jobs' = Append(jobs, Job(current)) /\ UNCHANGED <<nextOrderedRequest, idTriples>>
    BY DEF Launch
  <1>2. PICK batches \in Seq(Seq(ParsedTriple)) :
           IdsSuffice(batches) /\ current = BatchOf(batches) /\ AllWith(AllTriplesOf(FlattenSeq(batches)))
    BY <1>1 DEF LaunchOk
  <1>3. PICK job : job = Job(current)
    OBVIOUS
  <1>4. job \in JobRecord /\ ContentOk(job) /\ SourceOf(job) = AllTriplesOf(FlattenSeq(batches))
    BY <1>2, <1>3, JobFacts
  <1>5. /\ jobs \in Seq(JobRecord) /\ Len(jobs) \in Nat
        /\ nextOrderedRequest - 1 \in 0 .. Len(jobs)
    BY DEF WritersInv
  <1>6. /\ jobs' \in Seq(JobRecord) /\ Len(jobs') = Len(jobs) + 1 /\ jobs'[Len(jobs) + 1] = job
        /\ \A i \in 1 .. Len(jobs) : jobs'[i] = jobs[i]
    BY <1>1, <1>3, <1>4, <1>5
  <1>7. \A i \in 1 .. Len(jobs') : ContentOk(jobs'[i])
    <2> TAKE i \in 1 .. Len(jobs')
    <2>1. i = Len(jobs) + 1 \/ i \in 1 .. Len(jobs)
      BY <1>5, <1>6
    <2> QED BY <1>4, <1>6, <2>1 DEF ContentInv
  <1>8. Written(jobs', nextOrderedRequest - 1) = Written(jobs, nextOrderedRequest - 1)
    <2>1. \A i \in 1 .. nextOrderedRequest - 1 : jobs'[i] = jobs[i]
      BY <1>5, <1>6
    <2> QED BY <2>1 DEF Written
  <1>9. ContentInv'
    BY <1>1, <1>7, <1>8 DEF ContentInv
  <1>10. SourceOf(job) \in Seq(RawTriple)
    BY <1>4 DEF ContentOk
  <1>11. \A i \in 1 .. Len(jobs) : SourceOf(jobs[i]) \in Seq(RawTriple)
    BY DEF ContentInv, ContentOk
  <1>12. Sources' = Append(Sources, SourceOf(job))
    <2>1. PICK s, t : s = Sources /\ t = Sources'
      OBVIOUS
    <2>2. s \in Seq(Seq(RawTriple)) /\ Len(s) = Len(jobs) /\ \A i \in 1 .. Len(jobs) : s[i] = SourceOf(jobs[i])
      BY <1>5, <1>11, <2>1 DEF Sources
    <2>3. t = [i \in 1 .. Len(jobs) + 1 |-> SourceOf(jobs'[i])]
      BY <1>6, <2>1 DEF Sources
    <2>4. \A i \in 1 .. Len(jobs) : SourceOf(jobs'[i]) = s[i]
      BY <1>6, <2>2
    <2>5. SourceOf(jobs'[Len(jobs) + 1]) = SourceOf(job)
      BY <1>6
    <2>6. PICK raw : raw = SourceOf(job)
      OBVIOUS
    <2>7. \A i \in 1 .. Len(jobs) : t[i] = s[i] /\ s[i] \in Seq(RawTriple)
      BY <1>5, <1>11, <2>2, <2>3, <2>4
    <2>8. t[Len(jobs) + 1] = raw
      BY <1>5, <2>3, <2>5, <2>6
    <2>9. \A i \in 1 .. Len(jobs) + 1 : t[i] \in Seq(RawTriple)
      <3> TAKE i \in 1 .. Len(jobs) + 1
      <3>1. i = Len(jobs) + 1 \/ i \in 1 .. Len(jobs)
        BY <1>5
      <3> QED BY <1>10, <2>6, <2>7, <2>8, <3>1
    <2>10. t = [i \in 1 .. Len(jobs) + 1 |-> t[i]]
      BY <2>3
    <2>11. t \in Seq(Seq(RawTriple)) /\ Len(t) = Len(jobs) + 1
      BY <1>5, <2>9, <2>10, IsSeq
    <2>12. t = Append(s, raw)
      BY <1>10, <2>2, <2>6, <2>7, <2>8, <2>11, AppendIs
    <2> QED BY <2>1, <2>6, <2>12
  <1> QED BY <1>2, <1>4, <1>9, <1>10, <1>12

\* What has been read, and that nothing of it has been lost.
ReadInv ==
    /\ phase = "idle" => jobs = <<>> /\ ~exhausted
    /\ phase # "idle" => total \in ParsedInputs /\ Suffix
    /\ exhausted \in BOOLEAN /\ (exhausted => parsed = <<>>)
    /\ phase \in {"wait", "convert", "done"} => exhausted
    /\ phase \in {"parse", "wait", "convert", "done"} => AllWith(<<>>)
    /\ LaunchOk

\* The types of the triples of the writers,
LEMMA SourcesType ==
    ASSUME WritersInv, ContentInv
    PROVE  /\ Sources \in Seq(Seq(RawTriple)) /\ Len(Sources) = Len(jobs)
           /\ FlattenSeq(Sources) \in Seq(RawTriple)
  <1>1. Len(jobs) \in Nat
    BY DEF WritersInv
  <1>2. \A i \in 1 .. Len(jobs) : SourceOf(jobs[i]) \in Seq(RawTriple)
    BY DEF ContentInv, ContentOk
  <1>3. PICK s : s = Sources
    OBVIOUS
  <1>4. s = [i \in 1 .. Len(jobs) |-> s[i]] /\ \A i \in 1 .. Len(jobs) : s[i] \in Seq(RawTriple)
    BY <1>2, <1>3 DEF Sources
  <1>5. s \in Seq(Seq(RawTriple)) /\ Len(s) = Len(jobs)
    BY <1>1, <1>4, IsSeq
  <1>6. FlattenSeq(s) \in Seq(RawTriple)
    BY <1>5, FlattenElements
  <1> QED BY <1>3, <1>5, <1>6

\* of those of some batches,
LEMMA TriplesType ==
    ASSUME NEW batches \in Seq(Seq(ParsedTriple))
    PROVE  AllTriplesOf(FlattenSeq(batches)) \in Seq(RawTriple)
  <1>1. FlattenSeq(batches) \in Seq(ParsedTriple)
    BY FlattenElements
  <1> QED BY <1>1, AllTriplesFacts

\* and of what the parser has still to deliver.
LEMMA SuffixType ==
    ASSUME total \in ParsedInputs, Suffix
    PROVE  parsed \in Seq(Seq(ParsedTriple))
  BY ParseFacts

\* The main thread reads the next batch.
LEMMA ReadParse ==
    ASSUME WritersInv, ContentInv, ReadInv, ParseBatch
    PROVE  ReadInv'
  <1>1. /\ phase = "parse" /\ phase' = "launch" /\ ~exhausted
        /\ UNCHANGED <<total, jobs>>
    BY DEF ParseBatch
  <1>2. PICK n : n = NumTaken
    OBVIOUS
  <1>3. PICK batches : batches = SubSeq(parsed, 1, n)
    OBVIOUS
  <1>4. PICK rest : rest = SubSeq(parsed, n + 1, Len(parsed))
    OBVIOUS
  <1>5. /\ parsed' = rest /\ exhausted' = ~Complete(batches) /\ current' = BatchOf(batches)
    BY <1>2, <1>3, <1>4 DEF ParseBatch, BatchOf
  <1>6. total \in ParsedInputs /\ Suffix /\ AllWith(<<>>)
    BY <1>1 DEF ReadInv
  <1>7. /\ parsed \in Seq(Seq(ParsedTriple)) /\ parsed = batches \o rest
        /\ batches \in Seq(Seq(ParsedTriple)) /\ rest \in Seq(Seq(ParsedTriple))
        /\ IdsSuffice(batches)
        /\ ~Complete(batches) => rest = <<>>
        /\ EndOf(rest, total)
    BY <1>2, <1>3, <1>4, <1>6, ParseFacts
  <1>8. PICK raw : raw = AllTriplesOf(FlattenSeq(batches))
    OBVIOUS
  <1>9. Unread = raw \o Unread'
    <2>1. FlattenSeq(parsed) = FlattenSeq(batches) \o FlattenSeq(rest)
      BY <1>7, FlattenConcat
    <2>2. FlattenSeq(batches) \in Seq(ParsedTriple) /\ FlattenSeq(rest) \in Seq(ParsedTriple)
      BY <1>7, FlattenElements
    <2>3. PICK a, b : a = FlattenSeq(batches) /\ b = FlattenSeq(rest)
      OBVIOUS
    <2>4. AllTriplesOf(a \o b) = AllTriplesOf(a) \o AllTriplesOf(b)
      BY <2>2, <2>3, AllTriplesFacts
    <2> QED BY <1>5, <1>8, <2>1, <2>3, <2>4 DEF Unread
  <1>10. Unread \in Seq(RawTriple)
    BY <1>7, TriplesType DEF Unread
  <1>11. <<>> \o Unread = Unread
    BY <1>10
  <1>12. AllWith(raw)'
    <2>1. FlattenSeq(Sources) \o (raw \o Unread') = AllTriples
      BY <1>6, <1>9, <1>11 DEF AllWith
    <2>2. Sources' = Sources /\ AllTriples' = AllTriples
      BY <1>1 DEF Sources, AllTriples
    <2> QED BY <2>1, <2>2 DEF AllWith
  <1>13. LaunchOk'
    BY <1>5, <1>7, <1>8, <1>12 DEF LaunchOk
  <1>14. Suffix'
    BY <1>1, <1>5, <1>7 DEF Suffix
  <1>15. exhausted' \in BOOLEAN /\ (exhausted' => parsed' = <<>>)
    BY <1>5, <1>7 DEF Complete
  <1> QED BY <1>1, <1>6, <1>13, <1>14, <1>15 DEF ReadInv

\* The writer takes over what has been read.
LEMMA ReadLaunch ==
    ASSUME WritersInv, ContentInv, ReadInv, Launch
    PROVE  ReadInv'
  <1>1. /\ phase = "launch" /\ phase' = IF exhausted THEN "wait" ELSE "parse"
        /\ UNCHANGED <<total, parsed, exhausted>>
    BY DEF Launch
  <1>2. total \in ParsedInputs /\ Suffix /\ LaunchOk /\ exhausted \in BOOLEAN /\ (exhausted => parsed = <<>>)
    BY <1>1 DEF ReadInv
  <1>3. PICK raw \in Seq(RawTriple) : AllWith(raw) /\ Sources' = Append(Sources, raw)
    BY <1>2, ContentLaunch
  <1>4. Unread \in Seq(RawTriple)
    BY <1>2, SuffixType, TriplesType DEF Unread
  <1>5. Sources \in Seq(Seq(RawTriple)) /\ FlattenSeq(Sources) \in Seq(RawTriple)
    BY SourcesType
  <1>6. PICK f, u : f = FlattenSeq(Sources) /\ u = Unread
    OBVIOUS
  <1>7. FlattenSeq(Sources') = f \o raw
    BY <1>3, <1>5, <1>6, FlattenAppend
  <1>8. Regroups(f, raw, u)
    BY <1>4, <1>5, <1>6, Regroup
  <1>9. (f \o raw) \o (<<>> \o u) = f \o (raw \o u)
    <2>1. <<>> \o u = u
      BY <1>4, <1>6
    <2> QED BY <1>8, <2>1 DEF Regroups
  <1>10. Unread' = u /\ AllTriples' = AllTriples
    BY <1>1, <1>6 DEF Unread, AllTriples
  <1>11. AllWith(<<>>)'
    BY <1>3, <1>6, <1>7, <1>9, <1>10 DEF AllWith
  <1>12. Suffix'
    BY <1>1, <1>2 DEF Suffix
  <1> QED BY <1>1, <1>2, <1>11, <1>12 DEF ReadInv, LaunchOk

\* At the start nothing has been read.
LEMMA ReadStart ==
    ASSUME WritersInv, ReadInv, StartBuild
    PROVE  ReadInv'
  <1>1. phase = "idle" /\ phase' = "parse" /\ parsed' = total' /\ total' \in ParsedInputs /\ UNCHANGED <<jobs, exhausted>>
    BY DEF StartBuild
  <1>2. jobs = <<>> /\ exhausted \in BOOLEAN /\ ~exhausted
    BY <1>1 DEF ReadInv
  <1>3. total' \in Seq(Seq(ParsedTriple)) /\ Len(total') \in Nat
    BY <1>1, BuildInputs
  <1>4. Suffix'
    <2>1. total' = SubSeq(total', 1, Len(total')) /\ 1 \in 1 .. Len(total') + 1
      BY <1>3, PrefixEnds
    <2> QED BY <1>1, <2>1 DEF Suffix, EndOf
  <1>5. Sources' = <<>>
    BY <1>1, <1>2 DEF Sources
  <1>6. AllWith(<<>>)'
    <2>1. Unread' = AllTriples' /\ Unread' \in Seq(RawTriple)
      BY <1>1, <1>3, TriplesType DEF Unread, AllTriples
    <2>2. FlattenSeq(Sources') = <<>>
      BY <1>5, FlattenEmpty
    <2>3. PICK u : u = Unread'
      OBVIOUS
    <2>4. <<>> \o (<<>> \o u) = u
      BY <2>1, <2>3
    <2> QED BY <2>1, <2>2, <2>3, <2>4 DEF AllWith
  <1> QED BY <1>1, <1>2, <1>4, <1>6 DEF ReadInv, LaunchOk

\* Once the main thread waits for no writer, all of them have succeeded.
LEMMA AllSucceeded ==
    ASSUME WritersInv, futures = <<>>
    PROVE  /\ nextOrderedRequest = Len(jobs) + 1
           /\ \A j \in 1 .. Len(jobs) : jobs[j].words = "done" /\ jobs[j].write = "done"
  <1>1. Len(jobs) \in Nat /\ nextOrderedRequest \in 1 .. Len(jobs) + 1 /\ Len(futures) = 0
    BY DEF WritersInv
  <1>2. \A j \in 1 .. Len(jobs) : jobs[j].words = "done" /\ jobs[j].write = "done"
    BY <1>1 DEF WritersInv, WindowOk
  <1>3. \A j \in 1 .. Len(jobs) : ~(j >= nextOrderedRequest)
    BY <1>2 DEF WritersInv, TurnsOk
  <1> QED BY <1>1, <1>2, <1>3

\* What has been converted: the triples of the first batches.
AllWritten == Written(jobs, Len(jobs))
SourcesUpTo(n) == FlattenSeq(SubSeq(Sources, 1, n))

ConvInv ==
    /\ phase \in {"idle", "parse", "launch", "wait"} => converted = 0 /\ it = 0 /\ pushed = <<>>
    /\ phase \in {"wait", "convert", "done"} => jobs # <<>>
    /\ phase \in {"convert", "done"} =>
           /\ merged = mergeVocabulary
           /\ converted \in 0 .. Len(jobs)
           /\ it = Len(FlattenSeq(SubSeq(AllWritten, 1, converted)))
           /\ PushedAs(pushed, SourcesUpTo(converted))
    /\ phase = "done" => converted = Len(jobs)

\* The start of the conversion.
LEMMA ConvMerge ==
    ASSUME WritersInv, ContentInv, ConvInv, Merge
    PROVE  ConvInv'
  <1>1. /\ phase = "wait" /\ phase' = "convert" /\ merged' = mergeVocabulary
        /\ UNCHANGED <<jobs, converted, it, pushed>>
    BY DEF Merge
  <1>2. converted = 0 /\ it = 0 /\ pushed = <<>> /\ jobs # <<>>
    BY <1>1 DEF ConvInv
  <1>3. merged' = mergeVocabulary'
    BY <1>1 DEF mergeVocabulary, QueueWords
  <1>4. Sources \in Seq(Seq(RawTriple)) /\ Len(jobs) \in Nat /\ jobs \in Seq(JobRecord)
    BY SourcesType DEF WritersInv
  <1>5. Sources' = Sources /\ AllWritten' = AllWritten
    BY <1>1 DEF Sources, AllWritten
  <1>6. AllWritten \in Seq(Seq(IdTriple))
    BY <1>4, WrittenType DEF AllWritten
  <1>7. PICK s, w : s = Sources /\ w = AllWritten
    OBVIOUS
  <1>8. FlattenSeq(SubSeq(s, 1, 0)) = <<>> /\ FlattenSeq(SubSeq(w, 1, 0)) = <<>>
    BY <1>4, <1>6, <1>7, PrefixEnds, FlattenEmpty
  <1>9. PushedAs(<<>>, <<>>)'
    BY DEF PushedAs
  <1>10. SourcesUpTo(converted)' = <<>>
    BY <1>1, <1>2, <1>5, <1>7, <1>8 DEF SourcesUpTo
  <1>11. PushedAs(pushed, SourcesUpTo(converted))'
    BY <1>1, <1>2, <1>9, <1>10
  <1>12. it' = Len(FlattenSeq(SubSeq(AllWritten', 1, converted')))
    BY <1>1, <1>2, <1>5, <1>7, <1>8
  <1>13. converted' \in 0 .. Len(jobs')
    BY <1>1, <1>2, <1>4
  <1> QED BY <1>1, <1>2, <1>3, <1>11, <1>12, <1>13 DEF ConvInv

\* The triples of the next batch are those that its writer wrote, and they
\* can be converted.
LEMMA NextBatch ==
    ASSUME WritersInv, ContentInv, ConvInv, phase = "convert", converted < Len(jobs),
           NEW j, j = converted + 1, NEW end, end = it + NumTriplesPerPartialVocab(j),
           NEW slice, slice = SubSeq(idTriples, it + 1, end),
           NEW idMap, idMap = merged.idMaps[j]
    PROVE  /\ j \in 1 .. Len(jobs) /\ Convertible(slice, idMap)
           /\ end = Len(FlattenSeq(SubSeq(AllWritten, 1, j)))
           /\ PushedAs(pushed \o [n \in DOMAIN slice |-> Pushed(slice[n], idMap)], SourcesUpTo(j))
  <1>1. /\ jobs \in Seq(JobRecord) /\ Len(jobs) \in Nat
        /\ \A i \in 1 .. Len(jobs) : ContentOk(jobs[i])
    BY DEF WritersInv, ContentInv
  <1>2. /\ merged = mergeVocabulary /\ converted \in 0 .. Len(jobs)
        /\ it = Len(FlattenSeq(SubSeq(AllWritten, 1, converted)))
        /\ PushedAs(pushed, SourcesUpTo(converted))
    BY DEF ConvInv
  <1>3. j \in 1 .. Len(jobs) /\ converted \in 0 .. Len(jobs) - 1
    BY <1>1, <1>2
  <1>4. futures = <<>>
    BY DEF WritersInv
  <1>5. nextOrderedRequest = Len(jobs) + 1 /\ jobs[j].write = "done"
    BY <1>3, <1>4, AllSucceeded
  <1>6. PICK w : w = AllWritten
    OBVIOUS
  <1>7. w \in Seq(Seq(IdTriple)) /\ Len(w) = Len(jobs)
    BY <1>1, <1>6, WrittenType DEF AllWritten
  <1>8. w[j] = jobs[j].triples
    BY <1>3, <1>5, <1>6 DEF AllWritten, Written
  <1>9. idTriples = FlattenSeq(w)
    <2>1. nextOrderedRequest - 1 = Len(jobs)
      BY <1>1, <1>5
    <2> QED BY <1>6, <2>1 DEF ContentInv, AllWritten
  <1>10. /\ Len(FlattenSeq(SubSeq(w, 1, j))) = it + Len(w[j])
         /\ SubSeq(idTriples, it + 1, it + Len(w[j])) = w[j]
    <2>1. PICK m : m = converted
      OBVIOUS
    <2>2. m \in 0 .. Len(w) - 1 /\ it = Len(FlattenSeq(SubSeq(w, 1, m))) /\ j = m + 1
      BY <1>2, <1>3, <1>6, <1>7, <2>1
    <2> QED BY <1>7, <1>9, <2>2, FlattenSlice
  <1>11. end = Len(FlattenSeq(SubSeq(AllWritten, 1, j))) /\ slice = jobs[j].triples
    BY <1>6, <1>8, <1>10 DEF NumTriplesPerPartialVocab
  <1>12. PICK ps : ps = [n \in DOMAIN slice |-> Pushed(slice[n], idMap)]
    OBVIOUS
  <1>13. Convertible(slice, idMap) /\ PushedAs(ps, SourceOf(jobs[j]))
    BY <1>1, <1>2, <1>3, <1>11, <1>12, ConvertedBatch
  <1>14. PICK s : s = Sources
    OBVIOUS
  <1>15. s \in Seq(Seq(RawTriple)) /\ Len(s) = Len(jobs) /\ s[j] = SourceOf(jobs[j])
    <2>1. s[j] = SourceOf(jobs[j])
      BY <1>3, <1>14 DEF Sources
    <2> QED BY <1>14, <2>1, SourcesType
  <1>16. PICK f, r : f = FlattenSeq(SubSeq(s, 1, converted)) /\ r = s[j]
    OBVIOUS
  <1>17. f \in Seq(RawTriple) /\ r \in Seq(RawTriple) /\ FlattenSeq(SubSeq(s, 1, j)) = f \o r
    <2>1. PICK m : m = converted
      OBVIOUS
    <2>2. m \in 0 .. Len(s) - 1 /\ j = m + 1
      BY <1>3, <1>15, <2>1
    <2>3. f \in Seq(RawTriple) /\ FlattenSeq(SubSeq(s, 1, j)) = f \o r
      BY <1>15, <1>16, <2>1, <2>2, FlattenPrefix
    <2>4. SourceOf(jobs[j]) \in Seq(RawTriple)
      BY <1>1, <1>3 DEF ContentOk
    <2> QED BY <1>15, <1>16, <2>3, <2>4
  <1>18. PushedAs(pushed, f) /\ PushedAs(ps, r)
    BY <1>2, <1>13, <1>14, <1>15, <1>16 DEF SourcesUpTo
  <1>19. PushedAs(pushed \o ps, f \o r)
    BY <1>17, <1>18, PushedConcat
  <1> QED BY <1>3, <1>11, <1>12, <1>13, <1>14, <1>17, <1>19 DEF SourcesUpTo

\* The conversion of a batch keeps the invariant and does not fail.
LEMMA ConvConvert ==
    ASSUME WritersInv, ContentInv, ConvInv, ConvertBatch
    PROVE  ConvInv' /\ phase' \in {"convert", "done"}
  <1>1. PICK j : j = converted + 1
    OBVIOUS
  <1>2. PICK end : end = it + NumTriplesPerPartialVocab(j)
    OBVIOUS
  <1>3. PICK slice : slice = SubSeq(idTriples, it + 1, end)
    OBVIOUS
  <1>4. PICK idMap : idMap = merged.idMaps[j]
    OBVIOUS
  <1>5. phase = "convert" /\ converted < Len(jobs) /\ UNCHANGED <<jobs, merged>>
    BY DEF ConvertBatch
  <1>6. /\ j \in 1 .. Len(jobs) /\ Convertible(slice, idMap)
        /\ end = Len(FlattenSeq(SubSeq(AllWritten, 1, j)))
        /\ PushedAs(pushed \o [n \in DOMAIN slice |-> Pushed(slice[n], idMap)], SourcesUpTo(j))
    BY <1>1, <1>2, <1>3, <1>4, <1>5, NextBatch
  <1>7. /\ converted' = j /\ it' = end /\ phase' = IF j = Len(jobs) THEN "done" ELSE "convert"
        /\ pushed' = pushed \o [n \in DOMAIN slice |-> Pushed(slice[n], idMap)]
    BY <1>1, <1>2, <1>3, <1>4, <1>6 DEF ConvertBatch
  <1>8. merged' = mergeVocabulary'
    <2>1. merged = mergeVocabulary
      BY <1>5 DEF ConvInv
    <2> QED BY <1>5, <2>1 DEF mergeVocabulary, QueueWords
  <1>9. Sources' = Sources /\ AllWritten' = AllWritten /\ jobs' # <<>>
    BY <1>5 DEF Sources, AllWritten, ConvInv
  <1>10. PICK ps : ps = pushed \o [n \in DOMAIN slice |-> Pushed(slice[n], idMap)]
    OBVIOUS
  <1>11. PushedAs(ps, SourcesUpTo(j))
    BY <1>6, <1>10
  <1>12. PushedAs(pushed, SourcesUpTo(converted))'
    <2>1. SourcesUpTo(converted)' = SourcesUpTo(j)
      BY <1>7, <1>9 DEF SourcesUpTo
    <2>2. PICK raw : raw = SourcesUpTo(j)
      OBVIOUS
    <2>3. ASSUME NEW x PROVE DecodedTriple(x)' = DecodedTriple(x)
      BY <1>5 DEF DecodedTriple, Decoded
    <2>4. PushedAs(ps, raw)'
      BY <1>11, <2>2, <2>3 DEF PushedAs
    <2> QED BY <1>7, <1>10, <2>1, <2>2, <2>4
  <1>13. it' = Len(FlattenSeq(SubSeq(AllWritten', 1, converted'))) /\ converted' \in 0 .. Len(jobs')
    BY <1>5, <1>6, <1>7, <1>9
  <1> QED BY <1>5, <1>7, <1>8, <1>9, <1>12, <1>13 DEF ConvInv

\* The steps of the main thread between the writers.
LEMMA WritersSame ==
    ASSUME WritersInv, UNCHANGED <<jobs, futures, nextOrderedRequest>>, phase' \in Phases,
           phase' \in {"convert", "done"} => futures = <<>>,
           phase' \in {"unwind", "failed"} /\ exhausted' => SomeFailed
    PROVE  WritersInv'
  <1>1. TurnsOk' /\ WindowOk' /\ (SomeFailed => SomeFailed')
    BY DEF WritersInv, TurnsOk, WindowOk, SomeFailed
  <1> QED BY <1>1 DEF WritersInv

\* Other steps leave the content as it is,
LEMMA ContentSame ==
    ASSUME ContentInv, UNCHANGED <<jobs, nextOrderedRequest, idTriples>>
    PROVE  ContentInv' /\ Sources' = Sources
  BY DEF ContentInv, Sources

\* and what has been read,
LEMMA ReadSame ==
    ASSUME ReadInv, phase # "idle", phase' # "idle", UNCHANGED <<parsed, total, current, exhausted>>,
           Sources' = Sources,
           phase' \in {"parse", "launch"} => phase' = phase,
           phase' \in {"wait", "convert", "done"} => phase \in {"wait", "convert", "done"}
    PROVE  ReadInv'
  <1>1. Suffix' = Suffix
    BY DEF Suffix
  <1>2. Unread' = Unread /\ AllTriples' = AllTriples
    BY DEF Unread, AllTriples
  <1>3. ASSUME NEW raw PROVE AllWith(raw)' = AllWith(raw)
    BY <1>2 DEF AllWith
  <1>4. LaunchOk'
    BY <1>3 DEF ReadInv, LaunchOk
  <1>5. AllWith(<<>>)' = AllWith(<<>>)
    BY <1>3
  <1> QED BY <1>1, <1>4, <1>5 DEF ReadInv

\* and nothing is converted before the merge.
LEMMA ConvBefore ==
    ASSUME ConvInv, phase' \notin {"convert", "done"}, UNCHANGED <<converted, it, pushed>>,
           phase' \in {"idle", "parse", "launch", "wait"} => phase \in {"idle", "parse", "launch", "wait"},
           phase' = "wait" => jobs' # <<>>
    PROVE  ConvInv'
  BY DEF ConvInv

\* The invariant, and that each kind of step keeps it.
BuildInv == WritersInv /\ ContentInv /\ ReadInv /\ ConvInv

\* A writer is running only while the main thread reads or waits.
LEMMA BuildWriter ==
    ASSUME BuildInv, NEW j \in DOMAIN jobs, WriterStep(j)
    PROVE  BuildInv'
  <1>1. /\ jobs \in Seq(JobRecord) /\ DOMAIN jobs = 1 .. Len(jobs) /\ Len(jobs) \in Nat
        /\ WritersInv /\ ContentInv /\ ReadInv /\ ConvInv
    BY DEF BuildInv, WritersInv
  <1>2. UNCHANGED <<phase, parsed, total, current, exhausted, converted, it, pushed>>
    BY DEF WriterStep, SortFails, WriteWords, WriteWordsFails, WriteTriples, WriteTriplesFails,
           EndOfWords, EndOfWrite
  <1>3. jobs[j].words = "running" \/ jobs[j].write = "running"
    BY DEF WriterStep, SortFails, WriteWords, WriteWordsFails, WriteTriples, WriteTriplesFails,
           EndOfWords, EndOfWrite
  <1>4. phase \notin {"convert", "done"}
    <2> SUFFICES ASSUME phase \in {"convert", "done"} PROVE FALSE
      OBVIOUS
    <2>1. futures = <<>>
      BY <1>1 DEF WritersInv
    <2> QED BY <1>1, <1>3, <2>1, AllSucceeded
  <1>5. phase # "idle"
    <2>1. phase = "idle" => Len(jobs) = 0
      BY <1>1 DEF ReadInv
    <2> QED BY <1>1, <2>1
  <1>6. WritersInv' /\ ContentInv' /\ Sources' = Sources
    <2>1. CASE WriteWords(j)
      BY <1>1, <2>1, WritersWords, ContentWords DEF WriteWords
    <2>2. CASE WriteWordsFails(j)
      BY <1>1, <2>2, WritersWords, ContentWords DEF WriteWordsFails
    <2>3. CASE WriteTriples(j)
      <3>1. WritersInv'
        BY <1>1, <2>3, WritersWrite DEF WriteTriples
      <3> QED BY <1>1, <2>3, <3>1, ContentWrite
    <2>4. CASE WriteTriplesFails(j)
      <3>1. WritersInv'
        BY <1>1, <2>4, WritersWrite DEF WriteTriplesFails
      <3> QED BY <1>1, <2>4, <3>1, ContentWrite
    <2>5. CASE SortFails(j)
      BY <1>1, <2>5, WritersSort, ContentSort
    <2> QED BY <2>1, <2>2, <2>3, <2>4, <2>5 DEF WriterStep
  <1>7. ReadInv'
    BY <1>1, <1>2, <1>5, <1>6, ReadSame
  <1>8. ConvInv'
    <2>1. jobs' # <<>>
      <3>1. Len(jobs') = Len(jobs)
        BY <1>1, <1>3, WordsStep, WriteStep, SortStep
           DEF WriterStep, WriteWords, WriteWordsFails, WriteTriples, WriteTriplesFails, SameOthers
      <3>2. Len(jobs') > 0
        BY <1>1, <3>1
      <3> QED BY <3>2
    <2> QED BY <1>1, <1>2, <1>4, <2>1, ConvBefore
  <1> QED BY <1>6, <1>7, <1>8 DEF BuildInv

\* The steps that read the triples and start the writers.
LEMMA BuildReads ==
    ASSUME BuildInv, StartBuild \/ ParseBatch \/ ParseFails \/ Launch
    PROVE  BuildInv'
  <1>1. WritersInv /\ ContentInv /\ ReadInv /\ ConvInv
    BY DEF BuildInv
  <1>2. CASE StartBuild
    <2>1. /\ phase = "idle" /\ phase' = "parse"
          /\ UNCHANGED <<jobs, futures, nextOrderedRequest, idTriples, converted, it, pushed>>
      BY <1>2 DEF StartBuild
    <2>2. WritersInv'
      BY <1>1, <2>1, WritersSame DEF Phases
    <2>3. ContentInv' /\ ReadInv' /\ ConvInv'
      BY <1>1, <1>2, <2>1, ContentSame, ReadStart, ConvBefore
    <2> QED BY <2>2, <2>3 DEF BuildInv
  <1>3. CASE ParseBatch
    <2>1. /\ phase = "parse" /\ phase' = "launch"
          /\ UNCHANGED <<jobs, futures, nextOrderedRequest, idTriples, converted, it, pushed>>
      BY <1>3 DEF ParseBatch
    <2>2. WritersInv'
      BY <1>1, <2>1, WritersSame DEF Phases
    <2>3. ContentInv' /\ ReadInv' /\ ConvInv'
      BY <1>1, <1>3, <2>1, ContentSame, ReadParse, ConvBefore
    <2> QED BY <2>2, <2>3 DEF BuildInv
  <1>4. CASE Launch
    <2>1. /\ phase = "launch" /\ phase' \in {"parse", "wait"}
          /\ jobs' = Append(jobs, Job(current)) /\ UNCHANGED <<converted, it, pushed>>
      BY <1>4 DEF Launch
    <2>2. LaunchOk /\ exhausted \in BOOLEAN
      BY <1>1 DEF ReadInv
    <2>3. WritersInv' /\ ContentInv' /\ ReadInv'
      BY <1>1, <1>4, <2>2, WritersLaunch, ContentLaunch, ReadLaunch
    <2>4. jobs' # <<>>
      <3>1. jobs \in Seq(JobRecord) /\ Job(current) \in JobRecord
        BY <1>1, <2>1, <2>2, LaunchedJob DEF WritersInv
      <3> QED BY <2>1, <3>1
    <2>5. ConvInv'
      BY <1>1, <2>1, <2>4, ConvBefore
    <2> QED BY <2>3, <2>5 DEF BuildInv
  <1>5. CASE ParseFails
    <2>1. /\ phase = "parse" /\ phase' = "unwind" /\ ~exhausted
          /\ UNCHANGED <<parsed, total, current, exhausted, jobs, futures, nextOrderedRequest, idTriples,
                         converted, it, pushed>>
      BY <1>5 DEF ParseFails
    <2>2. WritersInv'
      BY <1>1, <2>1, WritersSame DEF Phases
    <2>3. ContentInv' /\ Sources' = Sources
      BY <1>1, <2>1, ContentSame
    <2>4. ReadInv' /\ ConvInv'
      BY <1>1, <2>1, <2>3, ReadSame, ConvBefore
    <2> QED BY <2>2, <2>3, <2>4 DEF BuildInv
  <1> QED BY <1>2, <1>3, <1>4, <1>5

\* The steps that wait for a writer.
LEMMA BuildWaits ==
    ASSUME BuildInv, GetThrows \/ Unwind \/ GetNext
    PROVE  BuildInv'
  <1>1. WritersInv /\ ContentInv /\ ReadInv /\ ConvInv
    BY DEF BuildInv
  <1>2. CASE GetThrows
    <2>1. /\ phase \in {"launch", "wait"} /\ phase' = "unwind"
          /\ UNCHANGED <<parsed, total, current, exhausted, jobs, futures, nextOrderedRequest, idTriples,
                         converted, it, pushed>>
          /\ Failed(jobs[Head(futures)])
      BY <1>2 DEF GetThrows
    <2>2. futures \in Seq(Nat) /\ Len(futures) # 0
      <3>1. NumFutures \in Nat \ {0} /\ futures \in Seq(Nat)
        BY <1>1, BuildNumbers DEF WritersInv
      <3> QED BY <1>2, <3>1 DEF GetThrows
    <2>3. SomeFailed
      <3>1. Len(jobs) \in Nat /\ Len(futures) \in Nat /\ Len(futures) <= Len(jobs)
        BY <1>1, <2>2 DEF WritersInv, WindowOk
      <3>2. Head(futures) = futures[1] /\ 1 \in 1 .. Len(futures)
        BY <2>2
      <3>3. futures[1] = Len(jobs) - Len(futures) + 1
        BY <1>1, <3>2 DEF WritersInv, WindowOk
      <3>4. Head(futures) \in 1 .. Len(jobs)
        BY <2>2, <3>1, <3>2, <3>3
      <3> QED BY <2>1, <3>4 DEF SomeFailed
    <2>4. WritersInv'
      BY <1>1, <2>1, <2>3, WritersSame DEF Phases
    <2>5. ContentInv' /\ Sources' = Sources
      BY <1>1, <2>1, ContentSame
    <2>6. ReadInv' /\ ConvInv'
      BY <1>1, <2>1, <2>5, ReadSame, ConvBefore
    <2> QED BY <2>4, <2>5, <2>6 DEF BuildInv
  <1>3. CASE Unwind
    <2>1. /\ phase = "unwind" /\ phase' = "failed"
          /\ UNCHANGED <<parsed, total, current, exhausted, jobs, futures, nextOrderedRequest, idTriples,
                         converted, it, pushed>>
      BY <1>3 DEF Unwind
    <2>2. exhausted => SomeFailed
      BY <1>1, <2>1 DEF WritersInv
    <2>3. WritersInv'
      BY <1>1, <2>1, <2>2, WritersSame DEF Phases
    <2>4. ContentInv' /\ Sources' = Sources
      BY <1>1, <2>1, ContentSame
    <2>5. ReadInv' /\ ConvInv'
      BY <1>1, <2>1, <2>4, ReadSame, ConvBefore
    <2> QED BY <2>3, <2>4, <2>5 DEF BuildInv
  <1>4. CASE GetNext
    <2>1. /\ phase = "wait" /\ phase' = "wait"
          /\ UNCHANGED <<parsed, total, current, exhausted, jobs, nextOrderedRequest, idTriples,
                         converted, it, pushed>>
      BY <1>4 DEF GetNext
    <2>2. WritersInv'
      BY <1>1, <1>4, WritersGet
    <2>3. ContentInv' /\ Sources' = Sources
      BY <1>1, <2>1, ContentSame
    <2>4. jobs' # <<>>
      BY <1>1, <2>1 DEF ConvInv
    <2>5. ReadInv' /\ ConvInv'
      BY <1>1, <2>1, <2>3, <2>4, ReadSame, ConvBefore
    <2> QED BY <2>2, <2>3, <2>5 DEF BuildInv
  <1> QED BY <1>2, <1>3, <1>4

\* The steps that merge the vocabularies and convert the triples.
LEMMA BuildConverts ==
    ASSUME BuildInv, Merge \/ ConvertBatch
    PROVE  BuildInv'
  <1>1. WritersInv /\ ContentInv /\ ReadInv /\ ConvInv
    BY DEF BuildInv
  <1>2. /\ UNCHANGED <<parsed, total, current, exhausted, jobs, futures, nextOrderedRequest, idTriples>>
        /\ phase \in {"wait", "convert"}
    BY DEF Merge, ConvertBatch
  <1>3. ConvInv' /\ phase' \in {"convert", "done"}
    BY <1>1, ConvMerge, ConvConvert DEF Merge
  <1>4. futures = <<>>
    BY <1>1 DEF Merge, ConvertBatch, WritersInv
  <1>5. WritersInv'
    BY <1>1, <1>2, <1>3, <1>4, WritersSame DEF Phases
  <1>6. ContentInv' /\ Sources' = Sources
    BY <1>1, <1>2, ContentSame
  <1>7. ReadInv'
    BY <1>1, <1>2, <1>3, <1>6, ReadSame
  <1> QED BY <1>3, <1>5, <1>6, <1>7 DEF BuildInv

\* The invariant holds at first.
LEMMA BuildInvInit ==
    ASSUME BuildInit PROVE BuildInv
  <1>1. /\ phase = "idle" /\ jobs = <<>> /\ futures = <<>> /\ nextOrderedRequest = 1 /\ idTriples = <<>>
        /\ exhausted = FALSE /\ converted = 0 /\ it = 0 /\ pushed = <<>>
    BY DEF BuildInit
  <1>2. Len(jobs) = 0 /\ Len(futures) = 0 /\ jobs \in Seq(JobRecord) /\ futures \in Seq(Nat)
    BY <1>1
  <1>3. WritersInv
    BY <1>1, <1>2, BuildNumbers DEF WritersInv, Phases, TurnsOk, WindowOk
  <1>4. ContentInv
    <2>1. Written(jobs, 0) = <<>>
      BY DEF Written
    <2> QED BY <1>1, <1>2, <2>1, FlattenEmpty DEF ContentInv
  <1>5. ReadInv /\ ConvInv
    BY <1>1 DEF ReadInv, LaunchOk, ConvInv
  <1> QED BY <1>3, <1>4, <1>5 DEF BuildInv

\* It is kept by a stuttering step.
LEMMA BuildInvStutter ==
    ASSUME BuildInv, UNCHANGED buildVars PROVE BuildInv'
  <1>1. /\ WritersInv /\ ContentInv /\ ReadInv /\ ConvInv
        /\ UNCHANGED <<phase, parsed, total, current, exhausted, jobs, futures,
                       nextOrderedRequest, idTriples, merged, converted, it, pushed>>
    BY DEF BuildInv, buildVars
  <1>2. WritersInv'
    BY <1>1 DEF WritersInv, TurnsOk, WindowOk, SomeFailed
  <1>3. ContentInv' /\ Sources' = Sources
    BY <1>1, ContentSame
  <1>4. ReadInv'
    BY <1>1 DEF ReadInv, LaunchOk, AllWith, Sources, Unread, AllTriples, Suffix
  <1>5. ConvInv'
    <2>1. mergeVocabulary' = mergeVocabulary
      BY <1>1 DEF mergeVocabulary, QueueWords
    <2>2. AllWritten' = AllWritten
      BY <1>1 DEF AllWritten
    <2>3. SourcesUpTo(converted)' = SourcesUpTo(converted)
      BY <1>1, <1>3 DEF SourcesUpTo
    <2>4. ASSUME NEW x PROVE DecodedTriple(x)' = DecodedTriple(x)
      BY <1>1 DEF DecodedTriple, Decoded
    <2>5. ASSUME NEW ps, NEW raw PROVE PushedAs(ps, raw)' = PushedAs(ps, raw)
      BY <2>4 DEF PushedAs
    <2>6. PushedAs(pushed, SourcesUpTo(converted))' = PushedAs(pushed, SourcesUpTo(converted))
      BY <1>1, <2>3, <2>5
    <2> QED BY <1>1, <2>1, <2>2, <2>6 DEF ConvInv
  <1> QED BY <1>2, <1>3, <1>4, <1>5 DEF BuildInv

\* The invariant holds throughout a build.
LEMMA BuildInvHolds == BuildSpec => []BuildInv
  <1>1. BuildInit => BuildInv
    BY BuildInvInit
  <1>2. BuildInv /\ [BuildNext]_buildVars => BuildInv'
    <2> SUFFICES ASSUME BuildInv, [BuildNext]_buildVars PROVE BuildInv'
      OBVIOUS
    <2>1. CASE StartBuild \/ ParseBatch \/ ParseFails \/ Launch
      BY <2>1, BuildReads
    <2>2. CASE GetThrows \/ Unwind \/ GetNext
      BY <2>2, BuildWaits
    <2>3. CASE Merge \/ ConvertBatch
      BY <2>3, BuildConverts
    <2>4. CASE \E j \in DOMAIN jobs : WriterStep(j)
      BY <2>4, BuildWriter
    <2>5. CASE UNCHANGED buildVars
      BY <2>5, BuildInvStutter
    <2> QED BY <2>1, <2>2, <2>3, <2>4, <2>5 DEF BuildNext
  <1> QED BY <1>1, <1>2, PTL DEF BuildSpec

\* A writer that has asked for its turn to write triples passes it on whether
\* it fails or not (withWriteLockAndOrdered); the writers behind one that failed
\* before, while it sorted, wait for ever and are never let past it; and no build
\* goes on to merge the vocabularies after a writer has failed.
THEOREM TurnsAlwaysPassOnAfterSort == BuildSpec => []TurnsPassOnAfterSort
  <1>1. BuildInv => TurnsPassOnAfterSort
    <2> SUFFICES ASSUME BuildInv PROVE TurnsPassOnAfterSort
      OBVIOUS
    <2>1. /\ WritersInv /\ DOMAIN jobs = 1 .. Len(jobs) /\ Len(jobs) \in Nat
          /\ nextOrderedRequest \in 1 .. Len(jobs) + 1 /\ TurnsOk
      BY DEF BuildInv, WritersInv
    <2>2. ASSUME NEW j \in DOMAIN jobs, jobs[j].write = "running"
          PROVE  \E k \in 1 .. j : k = nextOrderedRequest /\ jobs[k].write \in {"running", "none"}
      <3>1. j \in 1 .. Len(jobs) /\ j >= nextOrderedRequest
        BY <2>1, <2>2 DEF TurnsOk
      <3>2. nextOrderedRequest \in 1 .. j /\ nextOrderedRequest \in 1 .. Len(jobs)
        BY <2>1, <3>1
      <3>3. jobs[nextOrderedRequest].write \in {"running", "none"}
        BY <2>1, <3>2 DEF TurnsOk
      <3> QED BY <3>2, <3>3
    <2>4. ASSUME NEW j \in DOMAIN jobs, jobs[j].write = "none"
          PROVE  nextOrderedRequest <= j
      BY <2>1, <2>4 DEF TurnsOk
    <2>3. ASSUME phase \in {"convert", "done"} PROVE \A j \in DOMAIN jobs : ~Failed(jobs[j])
      <3>1. futures = <<>>
        BY <2>1, <2>3 DEF WritersInv
      <3> QED BY <2>1, <3>1, AllSucceeded DEF Failed
    <2> QED BY <2>2, <2>3, <2>4 DEF TurnsPassOnAfterSort
  <1> QED BY <1>1, BuildInvHolds, PTL

\* At the end, all triples of the parser have been pushed.
LEMMA AllPushed ==
    ASSUME BuildInv, phase = "done"
    PROVE  /\ AllTriples = FlattenSeq(Sources) /\ AllTriples \in Seq(RawTriple)
           /\ DecodedPushed = Tagged(AllTriples)
  <1>1. WritersInv /\ ContentInv /\ ReadInv /\ ConvInv
    BY DEF BuildInv
  <1>2. Sources \in Seq(Seq(RawTriple)) /\ Len(Sources) = Len(jobs) /\ FlattenSeq(Sources) \in Seq(RawTriple)
    BY <1>1, SourcesType
  <1>3. PICK f : f = FlattenSeq(Sources)
    OBVIOUS
  <1>4. Unread = <<>>
    <2>1. parsed = <<>>
      BY <1>1 DEF ReadInv
    <2>2. AllTriplesOf(<<>>) = FlattenSeq(<<>>)
      BY DEF AllTriplesOf
    <2> QED BY <2>1, <2>2, FlattenEmpty DEF Unread
  <1>5. AllTriples = f
    <2>1. f \o (<<>> \o <<>>) = AllTriples
      BY <1>1, <1>3, <1>4 DEF ReadInv, AllWith
    <2>2. <<>> \o <<>> = <<>> /\ f \o <<>> = f
      BY <1>2, <1>3
    <2> QED BY <2>1, <2>2
  <1>6. PushedAs(pushed, f)
    <2>1. PICK s : s = Sources
      OBVIOUS
    <2>2. SubSeq(s, 1, Len(s)) = s
      BY <1>2, <2>1, PrefixEnds
    <2>3. PushedAs(pushed, FlattenSeq(SubSeq(s, 1, Len(s))))
      BY <1>1, <1>2, <2>1 DEF ConvInv, SourcesUpTo
    <2> QED BY <1>3, <2>1, <2>2, <2>3
  <1>7. DecodedPushed = Tagged(f)
    <2>1. Len(pushed) = Len(f) /\ DOMAIN pushed = 1 .. Len(f) /\ DOMAIN f = 1 .. Len(f)
      BY <1>2, <1>3, <1>6 DEF PushedAs
    <2>2. \A n \in 1 .. Len(f) : DecodedTriple(pushed[n]) = [triple |-> f[n], internal |-> IsInternal(f[n])]
      BY <1>6 DEF PushedAs
    <2>3. DecodedPushed = [n \in 1 .. Len(f) |-> DecodedTriple(pushed[n])]
      BY <2>1 DEF DecodedPushed, DecodedTriple
    <2>4. Tagged(f) = [n \in 1 .. Len(f) |-> [triple |-> f[n], internal |-> IsInternal(f[n])]]
      BY <2>1 DEF Tagged
    <2> QED BY <2>2, <2>3, <2>4
  <1> QED BY <1>2, <1>3, <1>5, <1>7

\* The words of triples, as the properties and as the lemmas write them.
LEMMA WordsAre ==
    ASSUME NEW ts \in Seq(RawTriple), NEW w
    PROVE  w \in WordsIn(ts) <=> w \in Components(ts) /\ w > 0
  <1>1. DOMAIN ts = 1 .. Len(ts)
    OBVIOUS
  <1>2. ASSUME NEW n \in 1 .. Len(ts), NEW k \in 1 .. 3 PROVE ts[n][k] \in Int
    <2>1. ts[n] \in RawTriple
      OBVIOUS
    <2> QED BY <2>1 DEF RawTriple
  <1>3. w \in UNION {{t[k] : k \in 1 .. 3} : t \in ToSet(ts)}
          <=> \E n \in 1 .. Len(ts) : \E k \in 1 .. 3 : w = ts[n][k]
    <2>1. w \in UNION {{t[k] : k \in 1 .. 3} : t \in ToSet(ts)}
            <=> \E t \in ToSet(ts) : \E k \in 1 .. 3 : w = t[k]
      OBVIOUS
    <2>2. ToSet(ts) = {ts[n] : n \in 1 .. Len(ts)}
      BY <1>1 DEF ToSet
    <2>3. (\E t \in ToSet(ts) : \E k \in 1 .. 3 : w = t[k])
            <=> \E n \in 1 .. Len(ts) : \E k \in 1 .. 3 : w = ts[n][k]
      BY <2>2, Zenon
    <2> QED BY <2>1, <2>3
  <1>4. w \in Components(ts) <=> \E n \in 1 .. Len(ts) : \E k \in 1 .. 3 : w = ts[n][k]
    BY <1>2 DEF Components
  <1> QED BY <1>3, <1>4 DEF WordsIn

\* At the end, the vocabulary has exactly the words of the triples and the
\* special IRIs, but for the blank nodes.
LEMMA VocabularyExact ==
    ASSUME BuildInv, phase = "done"
    PROVE  {merged.vocab[n].word : n \in DOMAIN merged.vocab}
             = (WordsIn(AllTriples) \union ToSet(SpecialIris)) \ BlankNodes
  <1>1. WritersInv /\ ContentInv /\ ReadInv /\ ConvInv /\ jobs \in Seq(JobRecord)
    BY DEF BuildInv, WritersInv
  <1>2. MergedOk /\ VocabularyOf(merged.vocab, jobs)
    BY <1>1, MergeFacts DEF ContentInv, ConvInv
  <1>3. PICK vocab : vocab = merged.vocab
    OBVIOUS
  <1>4. /\ vocab \in Seq(QueueEntry) /\ DOMAIN vocab = 1 .. Len(vocab)
        /\ \A n \in 1 .. Len(vocab) : vocab[n].word \in Int
    <2>1. vocab \in Seq(QueueEntry)
      BY <1>2, <1>3 DEF MergedOk
    <2>2. \A n \in 1 .. Len(vocab) : vocab[n] \in QueueEntry
      BY <2>1
    <2> QED BY <2>1, <2>2 DEF QueueEntry
  <1>5. {vocab[n].word : n \in DOMAIN vocab} = KeyWords(vocab)
    BY <1>4 DEF KeyWords
  <1>6. AllTriples = FlattenSeq(Sources) /\ AllTriples \in Seq(RawTriple)
    BY AllPushed
  <1>7. PICK s : s = Sources
    OBVIOUS
  <1>8. s \in Seq(Seq(RawTriple)) /\ Len(s) = Len(jobs) /\ \A i \in 1 .. Len(jobs) : s[i] = SourceOf(jobs[i])
    BY <1>1, <1>7, SourcesType DEF Sources
  <1>9. \A w \in Int : w \in Components(AllTriples) <=> \E i \in 1 .. Len(s) : w \in Components(s[i])
    BY <1>6, <1>7, <1>8, FlattenComponents
  <1>10. 1 \in 1 .. Len(jobs)
    <2>1. jobs # <<>>
      BY <1>1 DEF ConvInv
    <2> QED BY <1>1, <2>1
  <1>11. ASSUME NEW w \in Int
         PROVE  (\E j \in 1 .. Len(jobs) : w \in KeyWords(jobs[j].file))
                  <=> w > 0 /\ (w \in SpecialWords \/ w \in Components(AllTriples))
    <2>1. \A j \in 1 .. Len(jobs) : w \in KeyWords(jobs[j].file) <=>
              w > 0 /\ (w \in SpecialWords \/ w \in Components(s[j]))
      BY <1>1, <1>8 DEF ContentInv, ContentOk
    <2> QED BY <1>8, <1>9, <1>10, <2>1
  <1>12. /\ ToSet(SpecialIris) = SpecialWords /\ \A w \in SpecialWords : w \in Int /\ w > 0
    <2>1. DOMAIN SpecialIris = 1 .. Len(SpecialIris) /\ \A n \in 1 .. Len(SpecialIris) : SpecialIris[n] \in Word
      BY BuildWords
    <2>2. ToSet(SpecialIris) = SpecialWords
      BY <2>1 DEF ToSet, SpecialWords
    <2> QED BY <2>1, <2>2 DEF SpecialWords, Word
  <1>13. ASSUME NEW w
         PROVE  w \in KeyWords(vocab) <=> w \in (WordsIn(AllTriples) \union ToSet(SpecialIris)) \ BlankNodes
    <2>1. w \in WordsIn(AllTriples) <=> w \in Components(AllTriples) /\ w > 0
      BY <1>6, WordsAre
    <2>2. (w \in KeyWords(vocab) => w \in Int) /\ (w \in Components(AllTriples) => w \in Int)
      BY DEF KeyWords, Components
    <2>3. w \in Int => (w \in KeyWords(vocab) <=> w \notin BlankNodes /\ \E j \in 1 .. Len(jobs) : w \in KeyWords(jobs[j].file))
      BY <1>2, <1>3 DEF VocabularyOf
    <2> QED BY <1>11, <1>12, <2>1, <2>2, <2>3
  <1>14. KeyWords(vocab) = (WordsIn(AllTriples) \union ToSet(SpecialIris)) \ BlankNodes
    BY <1>13
  <1> QED BY <1>3, <1>5, <1>14

\* A finished build has lost, changed and mixed up nothing, however its writers
\* were interleaved (createIdTriplesAndVocab): decoded with the vocabulary, the
\* triples that have been pushed are those of the parser and those added for
\* them, each in its sorter; the vocabulary is sorted and has exactly their
\* words.  And a build fails only if the parser or one of its writers has failed.
THEOREM BuildAlwaysExact == BuildSpec => []BuildExact
  <1>1. BuildInv => BuildExact
    <2> SUFFICES ASSUME BuildInv PROVE BuildExact
      OBVIOUS
    <2>1. WritersInv /\ ContentInv /\ ConvInv /\ jobs \in Seq(JobRecord) /\ DOMAIN jobs = 1 .. Len(jobs)
      BY DEF BuildInv, WritersInv
    <2>2. ASSUME phase = "failed", exhausted PROVE \E j \in DOMAIN jobs : Failed(jobs[j])
      BY <2>1, <2>2 DEF WritersInv, SomeFailed
    <2>3. ASSUME phase = "done"
          PROVE  /\ SameElements(DecodedPushed, Tagged(AllTriples))
                 /\ \A n \in 2 .. Len(merged.vocab) : merged.vocab[n - 1].word < merged.vocab[n].word
                 /\ \A n \in 2 .. Len(merged.blank) : merged.blank[n - 1].word < merged.blank[n].word
      <3>1. MergedOk
        BY <2>1, <2>3, MergeFacts DEF ContentInv, ConvInv
      <3>2. ASSUME NEW e \in Seq(QueueEntry), Increasing(e), NEW n \in 2 .. Len(e)
            PROVE  e[n - 1].word < e[n].word
        <4>1. n - 1 \in 1 .. Len(e) /\ n \in 1 .. Len(e) /\ n - 1 < n
          OBVIOUS
        <4> QED BY <3>2, <4>1 DEF Increasing
      <3>3. SameElements(DecodedPushed, Tagged(AllTriples))
        BY <2>3, AllPushed DEF SameElements
      <3> QED BY <3>1, <3>2, <3>3 DEF MergedOk
    <2> QED BY <2>2, <2>3, VocabularyExact DEF BuildExact
  <1> QED BY <1>1, BuildInvHolds, PTL

-----------------------------------------------------------------------------
(***************************************************************************)
(* The new ids of a rebuilt index.                                         *)
(***************************************************************************)

NotFalling(s) == \A i, j \in 1 .. Len(s) : i < j => s[i] <= s[j]
Rising(s) == \A i, j \in 1 .. Len(s) : i < j => s[i] < s[j]

\* A strictly sorted sequence is sorted.
LEMMA RisingNotFalling ==
    ASSUME NEW s \in Seq(Int), Rising(s)
    PROVE  NotFalling(s)
  <1>1. \A k \in 1 .. Len(s) : s[k] \in Int
    OBVIOUS
  <1> QED BY <1>1 DEF Rising, NotFalling

\* A set of numbers that has with a number all smaller ones consists of the
\* first numbers.
LEMMA FirstNumbers ==
    ASSUME NEW N \in Nat, NEW S \in SUBSET (1 .. N),
           \A i, j \in 1 .. N : i < j /\ j \in S => i \in S
    PROVE  /\ Cardinality(S) \in 0 .. N
           /\ \A k \in 1 .. N : k \in S <=> k <= Cardinality(S)
  <1>1. IsFiniteSet(1 .. N) /\ Cardinality(1 .. N) = N
    BY FS_Interval
  <1>2. IsFiniteSet(S) /\ Cardinality(S) <= N /\ Cardinality(S) \in Nat
    BY <1>1, FS_Subset, FS_CardinalityType
  <1>3. ASSUME NEW k \in 1 .. N, k \in S PROVE k <= Cardinality(S)
    <2>1. 1 .. k \subseteq S
      BY <1>3
    <2>2. Cardinality(1 .. k) = k
      BY FS_Interval
    <2> QED BY <1>2, <2>1, <2>2, FS_Subset
  <1>4. ASSUME NEW k \in 1 .. N, k \notin S PROVE ~(k <= Cardinality(S))
    <2>1. S \subseteq 1 .. k - 1
      BY <1>4
    <2>2. Cardinality(1 .. k - 1) = k - 1 /\ IsFiniteSet(1 .. k - 1)
      BY FS_Interval
    <2>3. Cardinality(S) <= k - 1
      BY <2>1, <2>2, FS_Subset, ZenonT(40)
    <2> QED BY <1>2, <2>3
  <1> QED BY <1>2, <1>3, <1>4

\* How many elements of a sorted sequence are not larger than x tells which.
LEMMA UpToCounts ==
    ASSUME NEW s \in Seq(Int), NotFalling(s), NEW x \in Int
    PROVE  /\ NumUpTo(s, x) \in 0 .. Len(s)
           /\ \A k \in 1 .. Len(s) : s[k] <= x <=> k <= NumUpTo(s, x)
  <1> DEFINE S == {n \in DOMAIN s : s[n] <= x}
  <1>1. S \in SUBSET (1 .. Len(s)) /\ Len(s) \in Nat
    OBVIOUS
  <1>2. \A k \in 1 .. Len(s) : s[k] \in Int
    OBVIOUS
  <1>3. \A k \in 1 .. Len(s) : k \in S <=> s[k] <= x
    OBVIOUS
  <1>4. NumUpTo(s, x) = Cardinality(S)
    BY DEF NumUpTo
  <1> HIDE DEF S
  <1>5. \A i, j \in 1 .. Len(s) : i < j /\ j \in S => i \in S
    BY <1>2, <1>3 DEF NotFalling
  <1> QED BY <1>1, <1>3, <1>4, <1>5, FirstNumbers

\* The same for the smaller elements.
LEMMA BelowCounts ==
    ASSUME NEW s \in Seq(Int), NotFalling(s), NEW x \in Int
    PROVE  /\ NumBelow(s, x) \in 0 .. Len(s)
           /\ \A k \in 1 .. Len(s) : s[k] < x <=> k <= NumBelow(s, x)
  <1> DEFINE S == {n \in DOMAIN s : s[n] < x}
  <1>1. S \in SUBSET (1 .. Len(s)) /\ Len(s) \in Nat
    OBVIOUS
  <1>2. \A k \in 1 .. Len(s) : s[k] \in Int
    OBVIOUS
  <1>3. \A k \in 1 .. Len(s) : k \in S <=> s[k] < x
    OBVIOUS
  <1>4. NumBelow(s, x) = Cardinality(S)
    BY DEF NumBelow
  <1> HIDE DEF S
  <1>5. \A i, j \in 1 .. Len(s) : i < j /\ j \in S => i \in S
    BY <1>2, <1>3 DEF NotFalling
  <1> QED BY <1>1, <1>3, <1>4, <1>5, FirstNumbers

\* A set of numbers in ascending order.
LEMMA AscendingLists ==
    ASSUME NEW S \in SUBSET Int, IsFiniteSet(S)
    PROVE  /\ Ascending(S) \in Seq(S) /\ Len(Ascending(S)) = Cardinality(S)
           /\ Rising(Ascending(S))
           /\ \A x \in S : \E k \in 1 .. Len(Ascending(S)) : Ascending(S)[k] = x
  <1> DEFINE R == {r \in S \X S : r[1] <= r[2]}
             N == Cardinality(S)
             e == [k \in 1 .. N |-> CHOOSE x \in S : Cardinality({y \in S : y <= x}) = k]
  <1>1. N \in Nat
    BY FS_CardinalityType
  <1>2. \A x, y \in S : <<x, y>> \in R <=> x <= y
    OBVIOUS
  <1>3. IsOrder(S, R)
    <2> HIDE DEF R
    <2> QED BY <1>2 DEF IsOrder
  <1>4. ASSUME NEW x \in S PROVE Cardinality({y \in S : y <= x}) = Rank(S, R, x)
    <2>1. {y \in S : y <= x} = UpTo(S, R, x)
      BY <1>2 DEF UpTo
    <2> QED BY <2>1 DEF Rank
  <1>5. ASSUME NEW k \in 1 .. N PROVE e[k] \in S /\ Rank(S, R, e[k]) = k
    <2>1. \E x \in S : Rank(S, R, x) = k
      <3> HIDE DEF R
      <3> QED BY <1>3, RankOnto
    <2>2. \E x \in S : Cardinality({y \in S : y <= x}) = k
      <3> HIDE DEF R
      <3> QED BY <1>4, <2>1
    <2>3. e[k] = CHOOSE x \in S : Cardinality({y \in S : y <= x}) = k
      OBVIOUS
    <2>4. e[k] \in S /\ Cardinality({y \in S : y <= e[k]}) = k
      <3> HIDE DEF e
      <3> QED BY <2>2, <2>3
    <2> HIDE DEF e, R
    <2> QED BY <1>4, <2>4
  <1>6. e \in [1 .. N -> S]
    <2>1. e = [k \in 1 .. N |-> e[k]]
      BY SMTT(30)
    <2> HIDE DEF e, N
    <2> QED BY <1>5, <2>1
  <1>7. e \in Seq(S) /\ Len(e) = N
    <2> HIDE DEF e, N
    <2> QED BY <1>1, <1>6
  <1>8. Ascending(S) = e
    <2>1. Ascending(S) = <<>> \o e
      BY DEF Ascending
    <2> HIDE DEF e
    <2> QED BY <1>7, <2>1, ConcatEmptySeq
  <1>9. ASSUME NEW i \in 1 .. N, NEW j \in 1 .. N, i < j PROVE e[i] < e[j]
    <2>1. e[i] \in S /\ e[j] \in S /\ Rank(S, R, e[i]) = i /\ Rank(S, R, e[j]) = j
      BY <1>5
    <2>2. e[i] \in Int /\ e[j] \in Int
      <3> HIDE DEF e
      <3> QED BY <2>1
    <2>3. CASE e[j] <= e[i]
      <3>1. <<e[j], e[i]>> \in R /\ e[j] # e[i]
        <4> HIDE DEF e, R
        <4> QED BY <1>2, <1>9, <2>2, <2>1, <2>3
      <3>2. Rank(S, R, e[j]) < Rank(S, R, e[i])
        <4> HIDE DEF e, R
        <4> QED BY <1>3, <2>1, <3>1, RankLess
      <3> HIDE DEF e, R
      <3> QED BY <1>9, <2>1, <3>2
    <2> HIDE DEF e, R
    <2> QED BY <2>2, <2>3
  <1>10. ASSUME NEW x \in S PROVE \E k \in 1 .. N : e[k] = x
    <2>1. PICK k \in 1 .. N : k = Rank(S, R, x)
      <3> HIDE DEF R
      <3> QED BY <1>3, RankRange
    <2>2. e[k] = x
      <3> HIDE DEF e, R
      <3> QED BY <1>3, <1>5, <2>1, RankUnique
    <2> QED BY <2>2
  <1>11. Rising(e)
    <2> HIDE DEF e, N
    <2> QED BY <1>7, <1>9 DEF Rising
  <1> HIDE DEF e
  <1> QED BY <1>7, <1>8, <1>10, <1>11

\* The entries of the updates, in ascending order and with the place of each.
Info == [insertionPosition : Int, word : Int]

InfosOf(infos, entries, vocab) ==
    /\ infos \in Seq(Info)
    /\ \A n \in 1 .. Len(infos) :
           /\ infos[n].word \in entries
           /\ infos[n].insertionPosition = NumUpTo(vocab, infos[n].word)
    /\ \A m, n \in 1 .. Len(infos) : m < n => infos[m].word < infos[n].word
    /\ \A w \in entries : \E n \in 1 .. Len(infos) : infos[n].word = w

\* A larger word has no smaller place.
LEMMA PlacesGrow ==
    ASSUME NEW s \in Seq(Int), NotFalling(s), NEW x \in Int, NEW y \in Int, x <= y
    PROVE  NumUpTo(s, x) <= NumUpTo(s, y)
  <1>1. /\ NumUpTo(s, x) \in 0 .. Len(s) /\ NumUpTo(s, y) \in 0 .. Len(s)
        /\ \A k \in 1 .. Len(s) : s[k] <= x <=> k <= NumUpTo(s, x)
        /\ \A k \in 1 .. Len(s) : s[k] <= y <=> k <= NumUpTo(s, y)
    BY UpToCounts
  <1>2. Len(s) \in Nat /\ \A k \in 1 .. Len(s) : s[k] \in Int
    OBVIOUS
  <1>3. CASE NumUpTo(s, x) # 0
    <2>1. PICK k \in 1 .. Len(s) : k = NumUpTo(s, x)
      BY <1>1, <1>2, <1>3
    <2>2. s[k] <= x /\ s[k] \in Int
      BY <1>1, <1>2, <2>1
    <2>3. s[k] <= y
      BY <2>2
    <2> QED BY <1>1, <2>1, <2>3
  <1> QED BY <1>1, <1>3

\* InsertionInfos makes such a sequence.
LEMMA InfosFacts ==
    ASSUME NEW vocab \in Seq(Int), Rising(vocab), NEW entries \in SUBSET Int, IsFiniteSet(entries)
    PROVE  InfosOf(InsertionInfos(entries, vocab), entries, vocab)
  <1>1. PICK words : words = Ascending(entries)
    OBVIOUS
  <1>2. PICK infos : infos = InsertionInfos(entries, vocab)
    OBVIOUS
  <1>3. /\ words \in Seq(entries) /\ Rising(words)
        /\ \A w \in entries : \E k \in 1 .. Len(words) : words[k] = w
    BY <1>1, AscendingLists
  <1>4. infos = [n \in DOMAIN words |-> [insertionPosition |-> NumUpTo(vocab, words[n]),
                                         word |-> words[n]]]
    BY <1>1, <1>2 DEF InsertionInfos, positionInVocab
  <1>5. DOMAIN words = 1 .. Len(words) /\ Len(words) \in Nat
    BY <1>3
  <1>6. ASSUME NEW n \in 1 .. Len(words)
        PROVE  /\ words[n] \in entries /\ words[n] \in Int
               /\ NumUpTo(vocab, words[n]) \in Int
               /\ infos[n] = [insertionPosition |-> NumUpTo(vocab, words[n]), word |-> words[n]]
    <2>1. words \in Seq(entries)
      BY <1>3
    <2>2. words[n] \in entries
      BY <2>1
    <2>3. words[n] \in Int
      BY <2>2
    <2>4. NotFalling(vocab)
      BY DEF Rising, NotFalling
    <2>5. NumUpTo(vocab, words[n]) \in 0 .. Len(vocab)
      BY <2>3, <2>4, UpToCounts
    <2>6. NumUpTo(vocab, words[n]) \in Int
      <3>1. Len(vocab) \in Nat
        OBVIOUS
      <3> QED BY <2>5, <3>1
    <2> QED BY <1>4, <1>5, <2>2, <2>3, <2>6
  <1>7. infos \in Seq(Info) /\ Len(infos) = Len(words)
    <2>1. ASSUME NEW n \in 1 .. Len(words) PROVE infos[n] \in Info
      <3>1. PICK p : p = NumUpTo(vocab, words[n])
        OBVIOUS
      <3>2. words[n] \in Int /\ p \in Int /\ infos[n] = [insertionPosition |-> p, word |-> words[n]]
        BY <1>6, <3>1
      <3> QED BY <3>2 DEF Info
    <2>2. infos = [n \in 1 .. Len(words) |-> infos[n]]
      BY <1>4, <1>5
    <2> QED BY <1>5, <2>1, <2>2
  <1>8. ASSUME NEW n \in 1 .. Len(words)
        PROVE  /\ infos[n].word = words[n] /\ infos[n].word \in entries
               /\ infos[n].insertionPosition = NumUpTo(vocab, infos[n].word)
    <2>1. PICK p : p = NumUpTo(vocab, words[n])
      OBVIOUS
    <2>2. words[n] \in entries /\ infos[n] = [insertionPosition |-> p, word |-> words[n]]
      BY <1>6, <2>1
    <2>3. infos[n].word = words[n] /\ infos[n].insertionPosition = p
      BY <2>2
    <2> QED BY <2>1, <2>2, <2>3
  <1>9. \A m, n \in 1 .. Len(infos) : m < n => infos[m].word < infos[n].word
    BY <1>3, <1>7, <1>8 DEF Rising
  <1>10. \A w \in entries : \E n \in 1 .. Len(infos) : infos[n].word = w
    BY <1>3, <1>7, <1>8
  <1>11. InfosOf(infos, entries, vocab)
    BY <1>7, <1>8, <1>9, <1>10 DEF InfosOf
  <1> QED BY <1>2, <1>11

\* The function by which the merge is computed.
MergeStart == [index |-> 0, next |-> 0, written |-> <<>>]
MergeStep(F, vocab, infos, n) == IF n = 0 THEN MergeStart ELSE MergeRound(vocab, infos, F[n - 1])
IsMerge(F, vocab, infos) == F = [n \in 0 .. Len(vocab) + Len(infos) |-> MergeStep(F, vocab, infos, n)]

\* MergedWords is what has been written after the last round.
LEMMA MergeDef ==
    ASSUME NEW vocab, NEW infos
    PROVE  MergedWords(vocab, infos)
             = (CHOOSE F : IsMerge(F, vocab, infos))[Len(vocab) + Len(infos)].written
  BY DEF MergedWords, IsMerge, MergeStep, MergeStart

\* There is such a function.
LEMMA MergeExists ==
    ASSUME NEW vocab, NEW infos, NEW N \in Nat, N = Len(vocab) + Len(infos)
    PROVE  \E F : IsMerge(F, vocab, infos)
  <1> DEFINE On(F, n) == F = [i \in 0 .. n |-> MergeStep(F, vocab, infos, i)]
             T == {n \in 0 .. N : \E F : On(F, n)}
  <1>1. 0 \in T
    <2> DEFINE F == [i \in 0 .. 0 |-> MergeStart]
    <2>1. On(F, 0)
      BY DEF MergeStep
    <2>2. \E f : On(f, 0)
      <3> HIDE DEF On, F
      <3> QED BY <2>1
    <2> HIDE DEF On
    <2> QED BY <2>2
  <1>2. ASSUME NEW n \in 0 .. N - 1, n \in T
        PROVE  n + 1 \in T
    <2>1. PICK F : On(F, n)
      BY <1>2
    <2> DEFINE G == [i \in 0 .. n + 1 |-> MergeStep(F, vocab, infos, i)]
    <2>2. ASSUME NEW i \in 0 .. n PROVE F[i] = MergeStep(F, vocab, infos, i)
      BY <2>1
    <2>3. ASSUME NEW i \in 0 .. n + 1 PROVE MergeStep(G, vocab, infos, i) = MergeStep(F, vocab, infos, i)
      <3>1. CASE i = 0
        BY <3>1 DEF MergeStep
      <3>2. CASE i # 0
        <4>1. i - 1 \in 0 .. n /\ i - 1 \in 0 .. n + 1
          BY <3>2
        <4>2. G[i - 1] = F[i - 1]
          BY <2>2, <4>1
        <4> HIDE DEF G
        <4> QED BY <4>2, <3>2 DEF MergeStep
      <3> QED BY <3>1, <3>2
    <2>4. G = [i \in 0 .. n + 1 |-> MergeStep(G, vocab, infos, i)]
      BY <2>3
    <2>5. \E f : On(f, n + 1)
      <3>1. On(G, n + 1)
        BY <2>4
      <3> HIDE DEF On, G
      <3> QED BY <3>1
    <2> HIDE DEF On
    <2> QED BY <2>5
  <1>3. \A n \in 0 .. N : n \in T
    <2> HIDE DEF T
    <2> QED BY <1>1, <1>2, AllUpTo
  <1>4. \E F : On(F, N)
    <2> HIDE DEF On
    <2> QED BY <1>3
  <1> QED BY <1>4 DEF IsMerge

\* What has been written is found by following the rounds.
LEMMA MergeFollows ==
    ASSUME NEW vocab, NEW infos, NEW N \in Nat, N = Len(vocab) + Len(infos), NEW T,
           MergeStart \in T,
           \A n \in 0 .. N - 1 : \A s \in T :
               s.index + s.next = n => /\ MergeRound(vocab, infos, s) \in T
                                       /\ MergeRound(vocab, infos, s).index
                                          + MergeRound(vocab, infos, s).next = n + 1
    PROVE  \E s \in T : s.index + s.next = N /\ MergedWords(vocab, infos) = s.written
  <1>1. PICK F : F = CHOOSE f : IsMerge(f, vocab, infos)
    OBVIOUS
  <1>2. IsMerge(F, vocab, infos)
    BY <1>1, MergeExists
  <1>3. \A n \in 0 .. N : F[n] = MergeStep(F, vocab, infos, n)
    BY <1>2 DEF IsMerge
  <1> DEFINE U == {n \in 0 .. N : F[n] \in T /\ F[n].index + F[n].next = n}
  <1>4. 0 \in U
    <2>1. F[0] = MergeStart
      BY <1>3 DEF MergeStep
    <2>2. MergeStart.index + MergeStart.next = 0
      BY DEF MergeStart
    <2> QED BY <2>1, <2>2
  <1>5. ASSUME NEW n \in 0 .. N - 1, n \in U
        PROVE  n + 1 \in U
    <2>1. F[n + 1] = MergeRound(vocab, infos, F[n])
      BY <1>3 DEF MergeStep
    <2>2. F[n] \in T /\ F[n].index + F[n].next = n
      BY <1>5
    <2> QED BY <2>1, <2>2
  <1>6. \A n \in 0 .. N : n \in U
    <2> HIDE DEF U
    <2> QED BY <1>4, <1>5, AllUpTo
  <1>7. F[N] \in T /\ F[N].index + F[N].next = N
    BY <1>6
  <1>8. MergedWords(vocab, infos) = F[N].written
    BY <1>1, MergeDef
  <1> QED BY <1>7, <1>8

\* The rounds of the merge: i old words and j entries have been written.
Positions(infos) == [n \in DOMAIN infos |-> infos[n].insertionPosition]

\* What has been written comes before what has not been.
BeforeRest(vocab, infos, i, j, w) ==
    \A p \in 1 .. Len(w) : /\ \A k \in i + 1 .. Len(vocab) : w[p] < vocab[k]
                           /\ \A k \in j + 1 .. Len(infos) : w[p] < infos[k].word

\* The old words are where remapVocabId looks for them.
OldPlaced(vocab, infos, i, j, w) ==
    \A k \in 1 .. i : LET c == NumUpTo(Positions(infos), k - 1)
                      IN  c \in 0 .. j /\ w[k + c] = vocab[k]

EntriesPlaced(infos, i, j, w) ==
    \A k \in 1 .. j : /\ infos[k].insertionPosition <= i
                      /\ \E p \in 1 .. Len(w) : w[p] = infos[k].word

NothingElse(vocab, infos, i, j, w) ==
    \A p \in 1 .. Len(w) : \/ \E k \in 1 .. i : w[p] = vocab[k]
                           \/ \E k \in 1 .. j : w[p] = infos[k].word

MergeOk(vocab, infos, i, j, w) ==
    /\ i \in 0 .. Len(vocab) /\ j \in 0 .. Len(infos)
    /\ w \in Seq(Int) /\ Len(w) = i + j /\ Rising(w)
    /\ BeforeRest(vocab, infos, i, j, w)
    /\ OldPlaced(vocab, infos, i, j, w)
    /\ EntriesPlaced(infos, i, j, w)
    /\ NothingElse(vocab, infos, i, j, w)

\* The inputs of a merge.
MergeInput(vocab, infos, entries) ==
    /\ vocab \in Seq(Int) /\ Rising(vocab)
    /\ entries \in SUBSET Int /\ \A n \in 1 .. Len(vocab) : vocab[n] \notin entries
    /\ InfosOf(infos, entries, vocab)

\* Facts about them that both kinds of rounds need.
LEMMA MergeInputFacts ==
    ASSUME NEW vocab, NEW infos, NEW entries, MergeInput(vocab, infos, entries)
    PROVE  /\ Len(vocab) \in Nat /\ Len(infos) \in Nat
           /\ \A k \in 1 .. Len(vocab) : vocab[k] \in Int
           /\ \A k \in 1 .. Len(infos) : /\ infos[k].word \in Int
                                         /\ infos[k].insertionPosition \in 0 .. Len(vocab)
           /\ \A n \in 1 .. Len(vocab) : \A k \in 1 .. Len(infos) :
                  /\ vocab[n] # infos[k].word
                  /\ vocab[n] <= infos[k].word <=> n <= infos[k].insertionPosition
           /\ Positions(infos) \in Seq(Int) /\ Len(Positions(infos)) = Len(infos)
           /\ \A k \in 1 .. Len(infos) : Positions(infos)[k] = infos[k].insertionPosition
           /\ NotFalling(Positions(infos))
  <1>1. vocab \in Seq(Int) /\ infos \in Seq(Info) /\ NotFalling(vocab)
    <2>1. vocab \in Seq(Int) /\ Rising(vocab)
      BY DEF MergeInput
    <2>2. infos \in Seq(Info)
      BY DEF MergeInput, InfosOf
    <2> QED BY <2>1, <2>2, RisingNotFalling
  <1>2. Len(vocab) \in Nat /\ Len(infos) \in Nat /\ DOMAIN infos = 1 .. Len(infos)
    BY <1>1
  <1>3. \A k \in 1 .. Len(vocab) : vocab[k] \in Int
    BY <1>1
  <1>4. ASSUME NEW k \in 1 .. Len(infos)
        PROVE  /\ infos[k].word \in Int /\ infos[k].insertionPosition \in Int
               /\ infos[k].word \in entries
               /\ infos[k].insertionPosition = NumUpTo(vocab, infos[k].word)
    <2>1. infos[k] \in Info
      BY <1>1
    <2> QED BY <2>1 DEF MergeInput, InfosOf, Info
  <1>5. ASSUME NEW k \in 1 .. Len(infos)
        PROVE  /\ infos[k].insertionPosition \in 0 .. Len(vocab)
               /\ \A n \in 1 .. Len(vocab) :
                      vocab[n] <= infos[k].word <=> n <= infos[k].insertionPosition
    BY <1>1, <1>4, UpToCounts
  <1>6. ASSUME NEW n \in 1 .. Len(vocab), NEW k \in 1 .. Len(infos)
        PROVE  vocab[n] # infos[k].word
    BY <1>4 DEF MergeInput
  <1>7. PICK pos : pos = Positions(infos)
    OBVIOUS
  <1>8. pos = [n \in 1 .. Len(infos) |-> infos[n].insertionPosition]
    BY <1>2, <1>7 DEF Positions
  <1>9. pos \in Seq(Int) /\ Len(pos) = Len(infos)
    BY <1>2, <1>4, <1>8
  <1>10. \A k \in 1 .. Len(infos) : pos[k] = infos[k].insertionPosition
    BY <1>8
  <1>11. ASSUME NEW m \in 1 .. Len(infos), NEW n \in 1 .. Len(infos), m < n
         PROVE  pos[m] <= pos[n]
    <2>1. infos[m].word < infos[n].word
      BY <1>11 DEF MergeInput, InfosOf
    <2>2. infos[m].word \in Int /\ infos[n].word \in Int /\ infos[m].word <= infos[n].word
      BY <1>4, <2>1
    <2>3. NumUpTo(vocab, infos[m].word) <= NumUpTo(vocab, infos[n].word)
      BY <1>1, <2>2, PlacesGrow
    <2> QED BY <1>4, <1>10, <2>3
  <1>12. NotFalling(pos)
    BY <1>9, <1>11 DEF NotFalling
  <1> QED BY <1>2, <1>3, <1>4, <1>5, <1>6, <1>7, <1>9, <1>10, <1>12

\* One more word.
LEMMA OneMore ==
    ASSUME NEW w \in Seq(Int), Rising(w), NEW x \in Int, \A p \in 1 .. Len(w) : w[p] < x,
           NEW t, t = Append(w, x)
    PROVE  /\ t \in Seq(Int) /\ Len(t) = Len(w) + 1 /\ Rising(t)
           /\ \A p \in 1 .. Len(w) : t[p] = w[p]
           /\ t[Len(w) + 1] = x
  <1>1. /\ t \in Seq(Int) /\ Len(t) = Len(w) + 1 /\ Len(w) \in Nat
        /\ \A p \in 1 .. Len(w) : t[p] = w[p]
        /\ t[Len(w) + 1] = x
    OBVIOUS
  <1>2. ASSUME NEW p \in 1 .. Len(t), NEW q \in 1 .. Len(t), p < q PROVE t[p] < t[q]
    <2>1. p \in 1 .. Len(w) /\ (q \in 1 .. Len(w) \/ q = Len(w) + 1)
      BY <1>1, <1>2
    <2> QED BY <1>1, <1>2, <2>1 DEF Rising
  <1> QED BY <1>1, <1>2 DEF Rising

\* A round that writes an entry.
LEMMA EntryRound ==
    ASSUME NEW vocab, NEW infos, NEW entries, MergeInput(vocab, infos, entries),
           NEW i, NEW j, NEW w, MergeOk(vocab, infos, i, j, w),
           j < Len(infos), infos[j + 1].insertionPosition <= i,
           NEW t, t = Append(w, infos[j + 1].word)
    PROVE  MergeOk(vocab, infos, i, j + 1, t)
  <1>1. /\ Len(vocab) \in Nat /\ Len(infos) \in Nat
        /\ \A k \in 1 .. Len(vocab) : vocab[k] \in Int
        /\ \A k \in 1 .. Len(infos) : infos[k].word \in Int
        /\ \A n \in 1 .. Len(vocab) : \A k \in 1 .. Len(infos) :
               vocab[n] <= infos[k].word <=> n <= infos[k].insertionPosition
        /\ \A k \in 1 .. Len(infos) : infos[k].insertionPosition \in Int
    <2>1. \A k \in 1 .. Len(infos) : infos[k].insertionPosition \in 0 .. Len(vocab)
      BY MergeInputFacts
    <2>2. Len(vocab) \in Nat /\ \A k \in 0 .. Len(vocab) : k \in Int
      BY MergeInputFacts
    <2>3. \A k \in 1 .. Len(infos) : infos[k].insertionPosition \in Int
      BY <2>1, <2>2
    <2> QED BY <2>3, MergeInputFacts, Zenon
  <1>2. /\ i \in 0 .. Len(vocab) /\ j \in 0 .. Len(infos)
        /\ w \in Seq(Int) /\ Rising(w) /\ Len(w) = i + j
    BY DEF MergeOk
  <1>3. j + 1 \in 1 .. Len(infos)
    BY <1>1, <1>2
  <1>4. PICK x : x = infos[j + 1].word
    OBVIOUS
  <1>5. x \in Int /\ \A p \in 1 .. Len(w) : w[p] < x
    BY <1>1, <1>3, <1>4 DEF MergeOk, BeforeRest
  <1>6. /\ t \in Seq(Int) /\ Len(t) = Len(w) + 1 /\ Rising(t)
        /\ \A p \in 1 .. Len(w) : t[p] = w[p]
        /\ t[Len(w) + 1] = x
    <2>1. t = Append(w, x) /\ w \in Seq(Int) /\ Rising(w)
      BY <1>2, <1>4
    <2> QED BY <1>5, <2>1, OneMore
  <1>7. \A p \in 1 .. Len(t) : p \in 1 .. Len(w) \/ p = Len(w) + 1
    <2>1. Len(w) \in Nat /\ Len(t) = Len(w) + 1
      BY <1>2, <1>6
    <2> QED BY <2>1
  <1>8. BeforeRest(vocab, infos, i, j + 1, t)
    <2>1. ASSUME NEW k \in i + 1 .. Len(vocab) PROVE x < vocab[k]
      <3>1. k \in 1 .. Len(vocab) /\ ~(k <= infos[j + 1].insertionPosition)
        BY <1>1, <1>2, <1>3
      <3>2. ~(vocab[k] <= x) /\ vocab[k] \in Int
        BY <1>1, <1>3, <1>4, <3>1
      <3> QED BY <1>5, <3>2
    <2>2. ASSUME NEW k \in (j + 1) + 1 .. Len(infos) PROVE x < infos[k].word
      <3>1. k \in 1 .. Len(infos) /\ j + 1 < k
        BY <1>1, <1>2
      <3> QED BY <1>3, <1>4, <3>1 DEF MergeInput, InfosOf
    <2>3. \A k \in (j + 1) + 1 .. Len(infos) : k \in j + 1 .. Len(infos)
      BY <1>1, <1>2
    <2>4. BeforeRest(vocab, infos, i, j, w)
      BY DEF MergeOk
    <2>5. ASSUME NEW p \in 1 .. Len(w)
          PROVE  /\ \A k \in i + 1 .. Len(vocab) : t[p] < vocab[k]
                 /\ \A k \in (j + 1) + 1 .. Len(infos) : t[p] < infos[k].word
      BY <1>6, <2>3, <2>4 DEF BeforeRest
    <2> QED BY <1>6, <1>7, <2>1, <2>2, <2>5 DEF BeforeRest
  <1>9. OldPlaced(vocab, infos, i, j + 1, t)
    <2>1. ASSUME NEW k \in 1 .. i, NEW c, c = NumUpTo(Positions(infos), k - 1)
          PROVE  c \in 0 .. j + 1 /\ t[k + c] = vocab[k]
      <3>1. c \in 0 .. j /\ w[k + c] = vocab[k]
        BY <2>1 DEF MergeOk, OldPlaced
      <3>2. k + c \in 1 .. Len(w) /\ c \in 0 .. j + 1
        <4>1. i \in Int /\ j \in Int /\ Len(w) = i + j
          BY <1>2
        <4> QED BY <3>1, <4>1
      <3> QED BY <1>6, <3>1, <3>2
    <2> QED BY <2>1 DEF OldPlaced
  <1>10. EntriesPlaced(infos, i, j + 1, t)
    <2>1. ASSUME NEW k \in 1 .. j
          PROVE  infos[k].insertionPosition <= i /\ \E p \in 1 .. Len(t) : t[p] = infos[k].word
      <3>1. infos[k].insertionPosition <= i /\ \E p \in 1 .. Len(w) : w[p] = infos[k].word
        BY DEF MergeOk, EntriesPlaced
      <3>2. PICK p \in 1 .. Len(w) : w[p] = infos[k].word
        BY <3>1
      <3>3. p \in 1 .. Len(t) /\ t[p] = infos[k].word
        <4>1. Len(w) \in Nat /\ Len(t) = Len(w) + 1
          BY <1>2, <1>6
        <4>2. p \in 1 .. Len(t)
          BY <4>1
        <4> QED BY <1>6, <3>2, <4>2
      <3> QED BY <3>1, <3>3
    <2>2. \E p \in 1 .. Len(t) : t[p] = infos[j + 1].word
      <3>1. Len(w) + 1 \in 1 .. Len(t)
        BY <1>1, <1>2, <1>6
      <3> QED BY <1>4, <1>6, <3>1
    <2>3. \A k \in 1 .. j + 1 : k \in 1 .. j \/ k = j + 1
      BY <1>1, <1>2
    <2> QED BY <2>1, <2>2, <2>3 DEF EntriesPlaced
  <1>11. NothingElse(vocab, infos, i, j + 1, t)
    <2>1. ASSUME NEW p \in 1 .. Len(w)
          PROVE  \/ \E k \in 1 .. i : t[p] = vocab[k]
                 \/ \E k \in 1 .. j + 1 : t[p] = infos[k].word
      <3>1. \/ \E k \in 1 .. i : w[p] = vocab[k]
            \/ \E k \in 1 .. j : w[p] = infos[k].word
        BY DEF MergeOk, NothingElse
      <3>2. \A k \in 1 .. j : k \in 1 .. j + 1
        BY <1>1, <1>2
      <3>3. t[p] = w[p]
        BY <1>6
      <3> QED BY <3>1, <3>2, <3>3
    <2>2. \E k \in 1 .. j + 1 : t[Len(w) + 1] = infos[k].word
      <3>1. j + 1 \in 1 .. j + 1
        BY <1>1, <1>2
      <3> QED BY <1>4, <1>6, <3>1
    <2> QED BY <1>7, <2>1, <2>2 DEF NothingElse
  <1>12. j + 1 \in 0 .. Len(infos) /\ Len(t) = i + (j + 1)
    BY <1>1, <1>2, <1>3, <1>6
  <1> QED BY <1>2, <1>6, <1>8, <1>9, <1>10, <1>11, <1>12 DEF MergeOk

\* A round that writes an old word.
LEMMA OldWordRound ==
    ASSUME NEW vocab, NEW infos, NEW entries, MergeInput(vocab, infos, entries),
           NEW i, NEW j, NEW w, MergeOk(vocab, infos, i, j, w),
           i < Len(vocab), j < Len(infos) => i < infos[j + 1].insertionPosition,
           NEW t, t = Append(w, vocab[i + 1])
    PROVE  MergeOk(vocab, infos, i + 1, j, t)
  <1>1. /\ Len(vocab) \in Nat /\ Len(infos) \in Nat
        /\ \A k \in 1 .. Len(vocab) : vocab[k] \in Int
        /\ \A k \in 1 .. Len(infos) : infos[k].word \in Int
        /\ \A n \in 1 .. Len(vocab) : \A k \in 1 .. Len(infos) :
               /\ vocab[n] # infos[k].word
               /\ vocab[n] <= infos[k].word <=> n <= infos[k].insertionPosition
        /\ \A k \in 1 .. Len(infos) : infos[k].insertionPosition \in Int
    <2>1. \A k \in 1 .. Len(infos) : infos[k].insertionPosition \in 0 .. Len(vocab)
      BY MergeInputFacts
    <2>2. Len(vocab) \in Nat /\ \A k \in 0 .. Len(vocab) : k \in Int
      BY MergeInputFacts
    <2>3. \A k \in 1 .. Len(infos) : infos[k].insertionPosition \in Int
      BY <2>1, <2>2
    <2> QED BY <2>3, MergeInputFacts, Zenon
  <1>2. /\ i \in 0 .. Len(vocab) /\ j \in 0 .. Len(infos)
        /\ w \in Seq(Int) /\ Rising(w) /\ Len(w) = i + j
    BY DEF MergeOk
  <1>3. i + 1 \in 1 .. Len(vocab)
    BY <1>1, <1>2
  <1>4. PICK x : x = vocab[i + 1]
    OBVIOUS
  <1>5. x \in Int /\ \A p \in 1 .. Len(w) : w[p] < x
    <2>1. i + 1 \in i + 1 .. Len(vocab)
      BY <1>1, <1>2
    <2> QED BY <1>1, <1>3, <1>4, <2>1 DEF MergeOk, BeforeRest
  <1>6. /\ t \in Seq(Int) /\ Len(t) = Len(w) + 1 /\ Rising(t)
        /\ \A p \in 1 .. Len(w) : t[p] = w[p]
        /\ t[Len(w) + 1] = x
    <2>1. t = Append(w, x) /\ w \in Seq(Int) /\ Rising(w)
      BY <1>2, <1>4
    <2> QED BY <1>5, <2>1, OneMore
  <1>7. \A p \in 1 .. Len(t) : p \in 1 .. Len(w) \/ p = Len(w) + 1
    <2>1. Len(w) \in Nat /\ Len(t) = Len(w) + 1
      BY <1>2, <1>6
    <2> QED BY <2>1
  <1>8. PICK pos : pos = Positions(infos)
    OBVIOUS
  <1>9. /\ pos \in Seq(Int) /\ Len(pos) = Len(infos) /\ NotFalling(pos)
        /\ \A k \in 1 .. Len(infos) : pos[k] = infos[k].insertionPosition /\ pos[k] \in Int
    BY <1>1, <1>8, MergeInputFacts
  <1>10. ASSUME NEW k \in j + 1 .. Len(infos) PROVE i < pos[k]
    <2>1. j + 1 \in 1 .. Len(infos) /\ k \in 1 .. Len(infos) /\ j < Len(infos)
      BY <1>1, <1>2
    <2>2. i < pos[j + 1]
      BY <1>9, <2>1
    <2>3. k = j + 1 \/ j + 1 < k
      BY <1>1, <1>2
    <2>4. pos[j + 1] <= pos[k]
      BY <1>9, <2>1, <2>3 DEF NotFalling
    <2> QED BY <1>2, <1>9, <2>1, <2>2, <2>4, SMTT(30)
  <1>11. BeforeRest(vocab, infos, i + 1, j, t)
    <2>1. ASSUME NEW k \in j + 1 .. Len(infos) PROVE x < infos[k].word
      <3>1. k \in 1 .. Len(infos)
        BY <1>1, <1>2
      <3>2. i < infos[k].insertionPosition
        BY <1>9, <1>10, <3>1
      <3>3. i + 1 <= infos[k].insertionPosition
        BY <1>1, <1>2, <3>1, <3>2
      <3>4. x <= infos[k].word /\ x # infos[k].word
        BY <1>1, <1>3, <1>4, <3>1, <3>3
      <3> QED BY <1>1, <1>5, <3>1, <3>4
    <2>2. ASSUME NEW k \in (i + 1) + 1 .. Len(vocab) PROVE x < vocab[k]
      <3>1. k \in 1 .. Len(vocab) /\ i + 1 < k
        BY <1>1, <1>2
      <3> QED BY <1>3, <1>4, <3>1 DEF MergeInput, Rising
    <2>3. \A k \in (i + 1) + 1 .. Len(vocab) : k \in i + 1 .. Len(vocab)
      BY <1>1, <1>2
    <2>4. BeforeRest(vocab, infos, i, j, w)
      BY DEF MergeOk
    <2>5. ASSUME NEW p \in 1 .. Len(w)
          PROVE  /\ \A k \in (i + 1) + 1 .. Len(vocab) : t[p] < vocab[k]
                 /\ \A k \in j + 1 .. Len(infos) : t[p] < infos[k].word
      BY <1>6, <2>3, <2>4 DEF BeforeRest
    <2> QED BY <1>6, <1>7, <2>1, <2>2, <2>5 DEF BeforeRest
  <1>12. NumUpTo(pos, i) = j
    <2>1. PICK c : c = NumUpTo(pos, i)
      OBVIOUS
    <2>2. c \in 0 .. Len(infos) /\ \A k \in 1 .. Len(infos) : pos[k] <= i <=> k <= c
      <3>1. i \in Int
        BY <1>2
      <3>2. c \in 0 .. Len(pos) /\ \A k \in 1 .. Len(pos) : pos[k] <= i <=> k <= c
        BY <1>9, <2>1, <3>1, UpToCounts
      <3> QED BY <1>9, <3>2
    <2>3. ~(j < c)
      <3>1. SUFFICES ASSUME j < c PROVE FALSE
        OBVIOUS
      <3>2. j + 1 \in 1 .. Len(infos) /\ j + 1 <= c /\ j + 1 \in j + 1 .. Len(infos)
        BY <1>1, <1>2, <2>2, <3>1
      <3>3. pos[j + 1] <= i /\ i < pos[j + 1] /\ pos[j + 1] \in Int
        BY <1>9, <1>10, <2>2, <3>2
      <3> QED BY <1>2, <3>3
    <2>4. ~(c < j)
      <3>1. SUFFICES ASSUME c < j PROVE FALSE
        OBVIOUS
      <3>2. j \in 1 .. j /\ j \in 1 .. Len(infos)
        BY <1>1, <1>2, <2>2, <3>1
      <3>3. pos[j] <= i
        BY <1>9, <3>2 DEF MergeOk, EntriesPlaced
      <3> QED BY <1>2, <2>2, <3>1, <3>2, <3>3
    <2> QED BY <1>2, <2>1, <2>2, <2>3, <2>4
  <1>13. OldPlaced(vocab, infos, i + 1, j, t)
    <2>1. ASSUME NEW k \in 1 .. i, NEW c, c = NumUpTo(Positions(infos), k - 1)
          PROVE  c \in 0 .. j /\ t[k + c] = vocab[k]
      <3>1. c \in 0 .. j /\ w[k + c] = vocab[k]
        BY <2>1 DEF MergeOk, OldPlaced
      <3>2. k + c \in 1 .. Len(w)
        <4>1. i \in Int /\ j \in Int /\ Len(w) = i + j
          BY <1>2
        <4> QED BY <3>1, <4>1
      <3> QED BY <1>6, <3>1, <3>2
    <2>2. ASSUME NEW c, c = NumUpTo(Positions(infos), (i + 1) - 1)
          PROVE  c \in 0 .. j /\ t[(i + 1) + c] = vocab[i + 1]
      <3>1. (i + 1) - 1 = i
        BY <1>2
      <3>2. c = j
        BY <1>8, <1>12, <2>2, <3>1
      <3>3. (i + 1) + c = Len(w) + 1 /\ c \in 0 .. j
        BY <1>1, <1>2, <3>2
      <3> QED BY <1>4, <1>6, <3>3
    <2>3. \A k \in 1 .. i + 1 : k \in 1 .. i \/ k = i + 1
      BY <1>1, <1>2
    <2>4. ASSUME NEW k \in 1 .. i + 1, NEW c, c = NumUpTo(Positions(infos), k - 1)
          PROVE  c \in 0 .. j /\ t[k + c] = vocab[k]
      BY <2>1, <2>2, <2>3, <2>4
    <2> QED BY <2>4 DEF OldPlaced
  <1>14. EntriesPlaced(infos, i + 1, j, t)
    <2>1. ASSUME NEW k \in 1 .. j
          PROVE  infos[k].insertionPosition <= i + 1 /\ \E p \in 1 .. Len(t) : t[p] = infos[k].word
      <3>1. infos[k].insertionPosition <= i /\ \E p \in 1 .. Len(w) : w[p] = infos[k].word
        BY DEF MergeOk, EntriesPlaced
      <3>2. PICK p \in 1 .. Len(w) : w[p] = infos[k].word
        BY <3>1
      <3>3. p \in 1 .. Len(t) /\ t[p] = infos[k].word
        <4>1. Len(w) \in Nat /\ Len(t) = Len(w) + 1
          BY <1>2, <1>6
        <4>2. p \in 1 .. Len(t)
          BY <4>1
        <4> QED BY <1>6, <3>2, <4>2
      <3>4. k \in 1 .. Len(infos)
        BY <1>1, <1>2
      <3>5. infos[k].insertionPosition <= i + 1
        <4>1. i \in Int /\ infos[k].insertionPosition \in Int
          BY <1>1, <1>2, <3>4
        <4> QED BY <3>1, <4>1
      <3> QED BY <3>3, <3>5
    <2> QED BY <2>1 DEF EntriesPlaced
  <1>15. NothingElse(vocab, infos, i + 1, j, t)
    <2>1. ASSUME NEW p \in 1 .. Len(w)
          PROVE  \/ \E k \in 1 .. i + 1 : t[p] = vocab[k]
                 \/ \E k \in 1 .. j : t[p] = infos[k].word
      <3>1. \/ \E k \in 1 .. i : w[p] = vocab[k]
            \/ \E k \in 1 .. j : w[p] = infos[k].word
        BY DEF MergeOk, NothingElse
      <3>2. \A k \in 1 .. i : k \in 1 .. i + 1
        BY <1>1, <1>2
      <3>3. t[p] = w[p]
        BY <1>6
      <3> QED BY <3>1, <3>2, <3>3
    <2>2. \E k \in 1 .. i + 1 : t[Len(w) + 1] = vocab[k]
      <3>1. i + 1 \in 1 .. i + 1
        BY <1>1, <1>2
      <3> QED BY <1>4, <1>6, <3>1
    <2> QED BY <1>7, <2>1, <2>2 DEF NothingElse
  <1>16. i + 1 \in 0 .. Len(vocab) /\ Len(t) = (i + 1) + j
    BY <1>1, <1>2, <1>3, <1>6
  <1> QED BY <1>2, <1>6, <1>11, <1>13, <1>14, <1>15, <1>16 DEF MergeOk

\* The new vocabulary: it is sorted, has exactly the old words and the entries,
\* and has each old word where remapVocabId looks for it.
NewVocabulary(new, vocab, infos, entries) ==
    /\ new \in Seq(Int) /\ Rising(new) /\ Len(new) = Len(vocab) + Len(infos)
    /\ \A k \in 1 .. Len(vocab) : LET c == NumUpTo(Positions(infos), k - 1)
                                  IN  k + c \in 1 .. Len(new) /\ c \in Nat /\ new[k + c] = vocab[k]
    /\ \A w \in entries : \E p \in 1 .. Len(new) : new[p] = w
    /\ \A p \in 1 .. Len(new) : new[p] \in entries \/ \E k \in 1 .. Len(vocab) : new[p] = vocab[k]

\* The merge of the vocabularies makes it.
LEMMA MergedVocabulary ==
    ASSUME NEW vocab, NEW infos, NEW entries, MergeInput(vocab, infos, entries)
    PROVE  NewVocabulary(MergedWords(vocab, infos), vocab, infos, entries)
  <1> DEFINE State == [index : Nat, next : Nat, written : Seq(Int)]
             T == {s \in State : MergeOk(vocab, infos, s.index, s.next, s.written)}
  <1>1. PICK L, M, N : L = Len(vocab) /\ M = Len(infos) /\ N = L + M
    OBVIOUS
  <1>2. L \in Nat /\ M \in Nat /\ N \in Nat
    BY <1>1, MergeInputFacts
  <1>3. MergeStart \in T
    <2>1. MergeStart \in State /\ MergeStart.index = 0 /\ MergeStart.next = 0 /\ MergeStart.written = <<>>
      BY DEF MergeStart
    <2>2. MergeOk(vocab, infos, 0, 0, <<>>)
      <3>1. <<>> \in Seq(Int) /\ Len(<<>>) = 0 /\ 0 \in 0 .. L /\ 0 \in 0 .. M
        BY <1>2
      <3>2. \A p \in 1 .. 0 : FALSE
        OBVIOUS
      <3> QED BY <1>1, <3>1, <3>2
          DEF MergeOk, Rising, BeforeRest, OldPlaced, EntriesPlaced, NothingElse
    <2> QED BY <2>1, <2>2
  <1>4. ASSUME NEW n \in 0 .. N - 1, NEW s \in T, s.index + s.next = n,
               NEW r, r = MergeRound(vocab, infos, s)
        PROVE  r \in T /\ r.index + r.next = n + 1
    <2>1. PICK i, j, w : i = s.index /\ j = s.next /\ w = s.written
      OBVIOUS
    <2>2. MergeOk(vocab, infos, i, j, w) /\ i \in Nat /\ j \in Nat /\ w \in Seq(Int) /\ i + j = n
      BY <1>4, <2>1
    <2>3. i \in 0 .. L /\ j \in 0 .. M
      BY <1>1, <2>2 DEF MergeOk
    <2>4. CASE j < M /\ (i >= L \/ infos[j + 1].insertionPosition <= i)
      <3>1. PICK t : t = Append(w, infos[j + 1].word)
        OBVIOUS
      <3>2. r = [index |-> i, next |-> j + 1, written |-> t]
        BY <1>1, <1>4, <2>1, <2>4, <3>1 DEF MergeRound
      <3>3. infos[j + 1].insertionPosition <= i
        <4>1. j + 1 \in 1 .. M
          BY <1>2, <2>2, <2>4
        <4>2. infos[j + 1].insertionPosition \in 0 .. L
          BY <1>1, <4>1, MergeInputFacts
        <4> QED BY <1>2, <2>2, <2>4, <4>2
      <3>4. MergeOk(vocab, infos, i, j + 1, t)
        BY <1>1, <2>2, <2>4, <3>1, <3>3, EntryRound
      <3>5. r \in State /\ r.index = i /\ r.next = j + 1 /\ r.written = t
        <4>1. t \in Seq(Int)
          BY <3>4 DEF MergeOk
        <4> QED BY <2>2, <3>2, <4>1
      <3>6. r.index + r.next = n + 1
        BY <2>2, <3>5
      <3> QED BY <3>4, <3>5, <3>6
    <2>5. CASE ~(j < M /\ (i >= L \/ infos[j + 1].insertionPosition <= i))
      <3>1. PICK t : t = Append(w, vocab[i + 1])
        OBVIOUS
      <3>2. r = [index |-> i + 1, next |-> j, written |-> t]
        BY <1>1, <1>4, <2>1, <2>5, <3>1 DEF MergeRound
      <3>3. i < L
        BY <1>1, <1>2, <2>2, <2>3, <2>5
      <3>4. j < M => i < infos[j + 1].insertionPosition
        <4>1. SUFFICES ASSUME j < M PROVE i < infos[j + 1].insertionPosition
          OBVIOUS
        <4>2. j + 1 \in 1 .. M
          BY <1>2, <2>2, <4>1
        <4>3. infos[j + 1].insertionPosition \in 0 .. L
          BY <1>1, <4>2, MergeInputFacts
        <4> QED BY <1>2, <2>2, <2>5, <4>1, <4>3
      <3>5. MergeOk(vocab, infos, i + 1, j, t)
        BY <1>1, <2>2, <3>1, <3>3, <3>4, OldWordRound
      <3>6. r \in State /\ r.index = i + 1 /\ r.next = j /\ r.written = t
        <4>1. t \in Seq(Int)
          BY <3>5 DEF MergeOk
        <4> QED BY <2>2, <3>2, <4>1
      <3>7. r.index + r.next = n + 1
        BY <2>2, <3>6
      <3> QED BY <3>5, <3>6, <3>7
    <2> QED BY <2>4, <2>5
  <1>5. PICK s \in T : s.index + s.next = N /\ MergedWords(vocab, infos) = s.written
    <2> HIDE DEF T
    <2>1. N = Len(vocab) + Len(infos)
      BY <1>1
    <2>2. \A n \in 0 .. N - 1 : \A s \in T :
              s.index + s.next = n => /\ MergeRound(vocab, infos, s) \in T
                                      /\ MergeRound(vocab, infos, s).index
                                         + MergeRound(vocab, infos, s).next = n + 1
      BY <1>4
    <2> QED BY <1>2, <1>3, <2>1, <2>2, MergeFollows
  <1>6. PICK new : new = MergedWords(vocab, infos)
    OBVIOUS
  <1>7. MergeOk(vocab, infos, L, M, new)
    <2>1. PICK i, j : i = s.index /\ j = s.next
      OBVIOUS
    <2>2. MergeOk(vocab, infos, i, j, new) /\ i + j = N
      BY <1>5, <1>6, <2>1
    <2>3. i \in 0 .. L /\ j \in 0 .. M
      BY <1>1, <2>2 DEF MergeOk
    <2>4. i = L /\ j = M
      BY <1>1, <1>2, <2>2, <2>3
    <2> QED BY <2>2, <2>4
  <1>8. new \in Seq(Int) /\ Rising(new) /\ Len(new) = L + M
    BY <1>7 DEF MergeOk
  <1>9. ASSUME NEW k \in 1 .. L, NEW c, c = NumUpTo(Positions(infos), k - 1)
        PROVE  k + c \in 1 .. Len(new) /\ c \in Nat /\ new[k + c] = vocab[k]
    <2>1. c \in 0 .. M /\ new[k + c] = vocab[k]
      BY <1>7, <1>9 DEF MergeOk, OldPlaced
    <2> QED BY <1>2, <1>8, <2>1
  <1>10. ASSUME NEW w \in entries PROVE \E p \in 1 .. Len(new) : new[p] = w
    <2>1. PICK n \in 1 .. M : infos[n].word = w
      BY <1>1 DEF MergeInput, InfosOf
    <2> QED BY <1>7, <2>1 DEF MergeOk, EntriesPlaced
  <1>11. ASSUME NEW p \in 1 .. Len(new)
         PROVE  new[p] \in entries \/ \E k \in 1 .. L : new[p] = vocab[k]
    <2>1. \/ \E k \in 1 .. L : new[p] = vocab[k]
          \/ \E k \in 1 .. M : new[p] = infos[k].word
      BY <1>7 DEF MergeOk, NothingElse
    <2>2. \A k \in 1 .. M : infos[k].word \in entries
      BY <1>1 DEF MergeInput, InfosOf
    <2> QED BY <2>1, <2>2
  <1> QED BY <1>1, <1>6, <1>8, <1>9, <1>10, <1>11 DEF NewVocabulary

\* What a rebuild starts from: a sorted vocabulary, new words, and blocks.
RebuildInput(vocab, entries, blocks, minIndex) ==
    /\ vocab \in Seq(Int) /\ Rising(vocab)
    /\ entries \in SUBSET Int /\ IsFiniteSet(entries) /\ EntriesAreNew(entries, vocab)
    /\ blocks \in SUBSET Nat /\ IsFiniteSet(blocks) /\ minIndex \in Nat

\* The check of materializeLocalVocab means that the words are new.
LEMMA NewWords ==
    ASSUME NEW vocab \in Seq(Int), Rising(vocab), NEW entries \in SUBSET Int,
           EntriesAreNew(entries, vocab), NEW n \in 1 .. Len(vocab)
    PROVE  vocab[n] \notin entries
  <1>1. SUFFICES ASSUME vocab[n] \in entries PROVE FALSE
    OBVIOUS
  <1>2. PICK w : w = vocab[n]
    OBVIOUS
  <1>3. w \in entries /\ w \in Int
    BY <1>1, <1>2
  <1>4. NumBelow(vocab, w) = NumUpTo(vocab, w)
    <2>1. positionInVocab(vocab, w).lower = positionInVocab(vocab, w).upper
      BY <1>3 DEF EntriesAreNew
    <2>2. <<VocabIndex, NumBelow(vocab, w)>> = <<VocabIndex, NumUpTo(vocab, w)>>
      BY <2>1 DEF positionInVocab
    <2> QED BY <2>2
  <1>5. vocab[n] <= w <=> n <= NumUpTo(vocab, w)
    BY <1>3, RisingNotFalling, UpToCounts
  <1>6. vocab[n] < w <=> n <= NumBelow(vocab, w)
    BY <1>3, RisingNotFalling, BelowCounts
  <1> QED BY <1>2, <1>3, <1>4, <1>5, <1>6

\* The parts of the mapping.
MappingOf(m, vocab, entries, blocks, minIndex) ==
    /\ m.vocab \in Seq(Int) /\ Rising(m.vocab)
    /\ \A k \in 1 .. Len(vocab) :
           LET c == NumUpTo(m.insertionPositions, k - 1)
           IN  k + c \in 1 .. Len(m.vocab) /\ c \in Nat /\ m.vocab[k + c] = vocab[k]
    /\ DOMAIN m.localVocabMapping = entries
    /\ \A w \in entries : \E p \in 1 .. Len(m.vocab) :
           m.vocab[p] = w /\ m.localVocabMapping[w] = <<VocabIndex, p - 1>>
    /\ \A p \in 1 .. Len(m.vocab) :
           m.vocab[p] \in entries \/ \E k \in 1 .. Len(vocab) : m.vocab[p] = vocab[k]
    /\ m.blankNodeBlocks = Ascending(blocks)
    /\ m.minBlankNodeIndex = minIndex
    /\ m.numBlankNodesTotal = minIndex + Cardinality(blocks) * BlankBlockSize

\* A rebuild makes such a mapping.
LEMMA MappingFacts ==
    ASSUME NEW vocab, NEW entries, NEW ownedBlocks, NEW minIndex,
           RebuildInput(vocab, entries, UNION ownedBlocks, minIndex)
    PROVE  MappingOf(IndexRebuildMapping(vocab, entries, ownedBlocks, minIndex),
                     vocab, entries, UNION ownedBlocks, minIndex)
  <1>1. PICK infos : infos = InsertionInfos(entries, vocab)
    OBVIOUS
  <1>2. PICK new : new = MergedWords(vocab, infos)
    OBVIOUS
  <1>3. PICK blocks : blocks = UNION ownedBlocks
    OBVIOUS
  <1>4. PICK m : m = IndexRebuildMapping(vocab, entries, ownedBlocks, minIndex)
    OBVIOUS
  <1>5. PICK local : local = mergeVocabs(vocab, infos).localVocabMapping
    OBVIOUS
  <1>6. /\ m.vocab = new /\ m.localVocabMapping = local
        /\ m.insertionPositions = Positions(infos)
        /\ m.blankNodeBlocks = Ascending(blocks)
        /\ m.minBlankNodeIndex = minIndex
        /\ m.numBlankNodesTotal = minIndex + Len(Ascending(blocks)) * BlankBlockSize
    BY <1>1, <1>2, <1>3, <1>4, <1>5
       DEF IndexRebuildMapping, mergeVocabs, flattenBlankNodeBlocks, Positions
  <1>7. Len(Ascending(blocks)) = Cardinality(blocks)
    BY <1>3, AscendingLists DEF RebuildInput
  <1>8. InfosOf(infos, entries, vocab)
    BY <1>1, InfosFacts DEF RebuildInput
  <1>9. MergeInput(vocab, infos, entries)
    BY <1>8, NewWords DEF RebuildInput, MergeInput
  <1>10. NewVocabulary(new, vocab, infos, entries)
    BY <1>2, <1>9, MergedVocabulary
  <1>11. new \in Seq(Int)
    BY <1>10 DEF NewVocabulary
  <1>12. DOMAIN local = entries
    <2>1. DOMAIN local = {infos[n].word : n \in DOMAIN infos}
      BY <1>5 DEF mergeVocabs
    <2>2. DOMAIN infos = 1 .. Len(infos)
      BY <1>8 DEF InfosOf
    <2> QED BY <1>8, <2>1, <2>2 DEF InfosOf
  <1>13. ASSUME NEW w \in entries
         PROVE  \E p \in 1 .. Len(new) : new[p] = w /\ local[w] = <<VocabIndex, p - 1>>
    <2>1. w \in {infos[n].word : n \in DOMAIN infos}
      <3>1. DOMAIN infos = 1 .. Len(infos)
        BY <1>8 DEF InfosOf
      <3> QED BY <1>8, <3>1 DEF InfosOf
    <2>2. PICK p : p = CHOOSE n \in DOMAIN new : new[n] = w
      OBVIOUS
    <2>3. local[w] = <<VocabIndex, p - 1>>
      BY <1>2, <1>5, <2>1, <2>2 DEF mergeVocabs
    <2>4. DOMAIN new = 1 .. Len(new)
      BY <1>11
    <2>5. \E n \in DOMAIN new : new[n] = w
      BY <1>10, <2>4 DEF NewVocabulary
    <2>6. p \in DOMAIN new /\ new[p] = w
      BY <2>2, <2>5, Zenon
    <2> QED BY <2>3, <2>4, <2>6
  <1>14. MappingOf(m, vocab, entries, blocks, minIndex)
    <2>1. m.vocab \in Seq(Int) /\ Rising(m.vocab)
      BY <1>6, <1>10 DEF NewVocabulary
    <2>2. ASSUME NEW k \in 1 .. Len(vocab), NEW c, c = NumUpTo(m.insertionPositions, k - 1)
          PROVE  k + c \in 1 .. Len(m.vocab) /\ c \in Nat /\ m.vocab[k + c] = vocab[k]
      BY <1>6, <1>10, <2>2 DEF NewVocabulary
    <2>3. \A p \in 1 .. Len(m.vocab) :
              m.vocab[p] \in entries \/ \E k \in 1 .. Len(vocab) : m.vocab[p] = vocab[k]
      BY <1>6, <1>10 DEF NewVocabulary
    <2>4. /\ DOMAIN m.localVocabMapping = entries
          /\ \A w \in entries : \E p \in 1 .. Len(m.vocab) :
                 m.vocab[p] = w /\ m.localVocabMapping[w] = <<VocabIndex, p - 1>>
      BY <1>6, <1>12, <1>13
    <2>5. /\ m.blankNodeBlocks = Ascending(blocks) /\ m.minBlankNodeIndex = minIndex
          /\ m.numBlankNodesTotal = minIndex + Cardinality(blocks) * BlankBlockSize
      BY <1>6, <1>7
    <2> QED BY <2>1, <2>2, <2>3, <2>4, <2>5 DEF MappingOf
  <1> QED BY <1>3, <1>4, <1>14

\* The cases of the two ways to remap an id.
LEMMA RemapCases ==
    ASSUME NEW id, NEW m
    PROVE  /\ id[1] = VocabIndex => /\ RemapForNewIndex(id, m) = remapVocabId(id, m)
                                    /\ remapId(id, m) = remapVocabId(id, m)
           /\ id[1] = LocalVocabIndex =>
                  /\ RemapForNewIndex(id, m) = m.localVocabMapping[id[2]]
                  /\ remapId(id, m) = IF id[2] \in DOMAIN m.localVocabMapping
                                        THEN m.localVocabMapping[id[2]] ELSE id
           /\ id[1] = BlankNodeIndex =>
                  /\ RemapForNewIndex(id, m) = tryRemapBlankNodeId(id, m)
                  /\ remapId(id, m) = IF tryRemapBlankNodeId(id, m) = <<>> THEN id
                                      ELSE tryRemapBlankNodeId(id, m)
           /\ id[1] \notin {VocabIndex, LocalVocabIndex, BlankNodeIndex} =>
                  RemapForNewIndex(id, m) = id /\ remapId(id, m) = id
  <1>1. VocabIndex = 4 /\ LocalVocabIndex = 5 /\ BlankNodeIndex = 10
    BY DEF VocabIndex, LocalVocabIndex, BlankNodeIndex
  <1>2. /\ id[1] = VocabIndex => RemapForNewIndex(id, m) = remapVocabId(id, m)
        /\ id[1] = LocalVocabIndex => RemapForNewIndex(id, m) = m.localVocabMapping[id[2]]
        /\ id[1] = BlankNodeIndex => RemapForNewIndex(id, m) = tryRemapBlankNodeId(id, m)
        /\ id[1] \notin {VocabIndex, LocalVocabIndex, BlankNodeIndex} => RemapForNewIndex(id, m) = id
    BY <1>1 DEF RemapForNewIndex
  <1>3. /\ id[1] = VocabIndex => remapId(id, m) = remapVocabId(id, m)
        /\ id[1] = LocalVocabIndex => remapId(id, m) = IF id[2] \in DOMAIN m.localVocabMapping
                                                         THEN m.localVocabMapping[id[2]] ELSE id
        /\ id[1] = BlankNodeIndex =>
               remapId(id, m) = IF tryRemapBlankNodeId(id, m) = <<>> THEN id
                                ELSE tryRemapBlankNodeId(id, m)
        /\ id[1] \notin {VocabIndex, LocalVocabIndex, BlankNodeIndex} => remapId(id, m) = id
    BY <1>1 DEF remapId
  <1> QED BY <1>2, <1>3, Zenon

\* The id of an old word becomes the place of the word in the new vocabulary.
LEMMA WordIdRemapped ==
    ASSUME NEW vocab, NEW entries, NEW blocks, NEW minIndex, NEW m,
           RebuildInput(vocab, entries, blocks, minIndex),
           MappingOf(m, vocab, entries, blocks, minIndex),
           NEW id \in WordIds(vocab, entries)
    PROVE  /\ \E p \in 1 .. Len(m.vocab) : /\ RemapForNewIndex(id, m) = <<VocabIndex, p - 1>>
                                           /\ m.vocab[p] = WordOf(vocab, id)
           /\ remapId(id, m) = RemapForNewIndex(id, m)
           /\ id[1] \in {VocabIndex, LocalVocabIndex} /\ WordOf(vocab, id) \in Int
  <1>1. vocab \in Seq(Int) /\ entries \in SUBSET Int
    BY DEF RebuildInput
  <1>2. DOMAIN vocab = 1 .. Len(vocab) /\ Len(vocab) \in Nat
    BY <1>1
  <1>3. CASE id \in VocabIds(vocab)
    <2>1. PICK k \in 1 .. Len(vocab) : id = <<VocabIndex, k - 1>>
      BY <1>2, <1>3 DEF VocabIds
    <2>2. PICK c : c = NumUpTo(m.insertionPositions, k - 1)
      OBVIOUS
    <2>3. k + c \in 1 .. Len(m.vocab) /\ c \in Nat /\ m.vocab[k + c] = vocab[k]
      BY <2>2 DEF MappingOf
    <2>4. id[1] = VocabIndex /\ id[2] = k - 1
      BY <2>1
    <2>5. RemapForNewIndex(id, m) = <<VocabIndex, (k - 1) + c>> /\ remapId(id, m) = RemapForNewIndex(id, m)
      <3>1. remapVocabId(id, m) = <<VocabIndex, (k - 1) + c>>
        BY <2>2, <2>4 DEF remapVocabId
      <3> QED BY <2>4, <3>1, RemapCases
    <2>6. (k - 1) + c = (k + c) - 1 /\ (k - 1) + 1 = k
      BY <2>3
    <2>7. WordOf(vocab, id) = vocab[k] /\ vocab[k] \in Int
      BY <1>1, <2>4, <2>6 DEF WordOf, VocabIndex, LocalVocabIndex
    <2> QED BY <2>3, <2>4, <2>5, <2>6, <2>7
  <1>4. CASE id \in LocalIds(entries)
    <2>1. PICK w \in entries : id = <<LocalVocabIndex, w>>
      BY <1>4 DEF LocalIds
    <2>2. id[1] = LocalVocabIndex /\ id[2] = w
      BY <2>1
    <2>3. PICK p \in 1 .. Len(m.vocab) : m.vocab[p] = w /\ m.localVocabMapping[w] = <<VocabIndex, p - 1>>
      BY DEF MappingOf
    <2>4. w \in DOMAIN m.localVocabMapping
      BY DEF MappingOf
    <2>5. RemapForNewIndex(id, m) = m.localVocabMapping[w] /\ remapId(id, m) = m.localVocabMapping[w]
      BY <2>2, <2>4, RemapCases, Zenon
    <2>6. WordOf(vocab, id) = w /\ w \in Int
      BY <1>1, <2>2 DEF WordOf
    <2> QED BY <2>2, <2>3, <2>5, <2>6
  <1> QED BY <1>3, <1>4 DEF WordIds

\* The ids of words are in the order of the words.
LEMMA WordIdsOrdered ==
    ASSUME NEW vocab, NEW entries, NEW blocks, NEW minIndex,
           RebuildInput(vocab, entries, blocks, minIndex),
           NEW a \in WordIds(vocab, entries), NEW b \in WordIds(vocab, entries),
           IdLess(vocab, a, b)
    PROVE  WordOf(vocab, a) < WordOf(vocab, b)
  <1>1. vocab \in Seq(Int) /\ Rising(vocab) /\ entries \in SUBSET Int
    BY DEF RebuildInput
  <1>2. DOMAIN vocab = 1 .. Len(vocab) /\ Len(vocab) \in Nat /\ \A k \in 1 .. Len(vocab) : vocab[k] \in Int
    BY <1>1
  <1>3. ASSUME NEW w \in Int
        PROVE  /\ NumBelow(vocab, w) \in Int /\ NumUpTo(vocab, w) \in Int
               /\ \A k \in 1 .. Len(vocab) : vocab[k] < w <=> k <= NumBelow(vocab, w)
               /\ \A k \in 1 .. Len(vocab) : vocab[k] <= w <=> k <= NumUpTo(vocab, w)
    <2>1. NumBelow(vocab, w) \in 0 .. Len(vocab)
          /\ \A k \in 1 .. Len(vocab) : vocab[k] < w <=> k <= NumBelow(vocab, w)
      BY <1>1, RisingNotFalling, BelowCounts
    <2>2. NumUpTo(vocab, w) \in 0 .. Len(vocab)
          /\ \A k \in 1 .. Len(vocab) : vocab[k] <= w <=> k <= NumUpTo(vocab, w)
      BY <1>1, RisingNotFalling, UpToCounts
    <2> QED BY <1>2, <2>1, <2>2
  <1>4. ASSUME NEW id \in WordIds(vocab, entries)
        PROVE  \/ \E k \in 1 .. Len(vocab) : id = <<VocabIndex, k - 1>> /\ WordOf(vocab, id) = vocab[k]
               \/ \E w \in entries : id = <<LocalVocabIndex, w>> /\ WordOf(vocab, id) = w
    <2>1. CASE id \in VocabIds(vocab)
      <3>1. PICK k \in 1 .. Len(vocab) : id = <<VocabIndex, k - 1>>
        BY <1>2, <2>1 DEF VocabIds
      <3>2. id[1] = VocabIndex /\ id[2] + 1 = k
        BY <3>1
      <3>3. WordOf(vocab, id) = vocab[k]
        BY <3>2 DEF WordOf, VocabIndex, LocalVocabIndex
      <3> QED BY <3>1, <3>3
    <2>2. CASE id \in LocalIds(entries)
      BY <2>2 DEF LocalIds, WordOf
    <2> QED BY <2>1, <2>2 DEF WordIds
  <1>5. CASE /\ \E k \in 1 .. Len(vocab) : a = <<VocabIndex, k - 1>> /\ WordOf(vocab, a) = vocab[k]
             /\ \E k \in 1 .. Len(vocab) : b = <<VocabIndex, k - 1>> /\ WordOf(vocab, b) = vocab[k]
    <2>1. PICK i \in 1 .. Len(vocab) : a = <<VocabIndex, i - 1>> /\ WordOf(vocab, a) = vocab[i]
      BY <1>5
    <2>2. PICK j \in 1 .. Len(vocab) : b = <<VocabIndex, j - 1>> /\ WordOf(vocab, b) = vocab[j]
      BY <1>5
    <2>3. i < j
      BY <2>1, <2>2 DEF IdLess, IsVocab, IsLocal, BitsLess, VocabIndex, EncodedVal, LocalVocabIndex
    <2> QED BY <1>1, <2>1, <2>2, <2>3 DEF Rising
  <1>6. CASE /\ \E k \in 1 .. Len(vocab) : a = <<VocabIndex, k - 1>> /\ WordOf(vocab, a) = vocab[k]
             /\ \E w \in entries : b = <<LocalVocabIndex, w>> /\ WordOf(vocab, b) = w
    <2>1. PICK i \in 1 .. Len(vocab) : a = <<VocabIndex, i - 1>> /\ WordOf(vocab, a) = vocab[i]
      BY <1>6
    <2>2. PICK w \in entries : b = <<LocalVocabIndex, w>> /\ WordOf(vocab, b) = w
      BY <1>6
    <2>3. PICK n \in Int : n = NumBelow(vocab, w) /\ (vocab[i] < w <=> i <= n)
      BY <1>1, <1>3
    <2>4. i - 1 < n
      BY <2>1, <2>2, <2>3
         DEF IdLess, IsVocab, IsLocal, BitsLess, positionInVocab, VocabIndex, EncodedVal, LocalVocabIndex
    <2> QED BY <2>1, <2>2, <2>3, <2>4
  <1>7. CASE /\ \E w \in entries : a = <<LocalVocabIndex, w>> /\ WordOf(vocab, a) = w
             /\ \E k \in 1 .. Len(vocab) : b = <<VocabIndex, k - 1>> /\ WordOf(vocab, b) = vocab[k]
    <2>1. PICK w \in entries : a = <<LocalVocabIndex, w>> /\ WordOf(vocab, a) = w
      BY <1>7
    <2>2. PICK j \in 1 .. Len(vocab) : b = <<VocabIndex, j - 1>> /\ WordOf(vocab, b) = vocab[j]
      BY <1>7
    <2>3. PICK n \in Int : n = NumUpTo(vocab, w) /\ (vocab[j] <= w <=> j <= n)
      BY <1>1, <1>3
    <2>4. ~(j - 1 < n)
      BY <2>1, <2>2, <2>3
         DEF IdLess, IsVocab, IsLocal, BitsLess, positionInVocab, VocabIndex, EncodedVal, LocalVocabIndex
    <2>5. vocab[j] \in Int /\ w \in Int
      BY <1>1, <1>2
    <2> QED BY <2>1, <2>2, <2>3, <2>4, <2>5
  <1>8. CASE /\ \E w \in entries : a = <<LocalVocabIndex, w>> /\ WordOf(vocab, a) = w
             /\ \E w \in entries : b = <<LocalVocabIndex, w>> /\ WordOf(vocab, b) = w
    BY <1>8 DEF IdLess, IsVocab, IsLocal, BitsLess, VocabIndex, EncodedVal, LocalVocabIndex
  <1> QED BY <1>4, <1>5, <1>6, <1>7, <1>8

\* Different ids of words are ids of different words.
LEMMA WordsHaveOneId ==
    ASSUME NEW vocab, NEW entries, NEW blocks, NEW minIndex,
           RebuildInput(vocab, entries, blocks, minIndex),
           NEW a \in WordIds(vocab, entries), NEW b \in WordIds(vocab, entries),
           WordOf(vocab, a) = WordOf(vocab, b)
    PROVE  a = b
  <1>1. vocab \in Seq(Int) /\ Rising(vocab) /\ entries \in SUBSET Int
    BY DEF RebuildInput
  <1>2. /\ DOMAIN vocab = 1 .. Len(vocab) /\ Len(vocab) \in Nat
        /\ \A k \in 1 .. Len(vocab) : vocab[k] \in Int /\ vocab[k] \notin entries
    BY <1>1, NewWords DEF RebuildInput
  <1>3. ASSUME NEW id \in WordIds(vocab, entries)
        PROVE  \/ \E k \in 1 .. Len(vocab) : id = <<VocabIndex, k - 1>> /\ WordOf(vocab, id) = vocab[k]
               \/ \E w \in entries : id = <<LocalVocabIndex, w>> /\ WordOf(vocab, id) = w
    <2>1. CASE id \in VocabIds(vocab)
      <3>1. PICK k \in 1 .. Len(vocab) : id = <<VocabIndex, k - 1>>
        BY <1>2, <2>1 DEF VocabIds
      <3>2. id[1] = VocabIndex /\ id[2] + 1 = k
        BY <3>1
      <3>3. WordOf(vocab, id) = vocab[k]
        BY <3>2 DEF WordOf, VocabIndex, LocalVocabIndex
      <3> QED BY <3>1, <3>3
    <2>2. CASE id \in LocalIds(entries)
      BY <2>2 DEF LocalIds, WordOf
    <2> QED BY <2>1, <2>2 DEF WordIds
  <1>4. ASSUME NEW k \in 1 .. Len(vocab), NEW l \in 1 .. Len(vocab), vocab[k] = vocab[l]
        PROVE  k = l
    <2>1. ~(k < l) /\ ~(l < k)
      BY <1>1, <1>2, <1>4 DEF Rising
    <2> QED BY <2>1
  <1> QED BY <1>2, <1>3, <1>4

\* The place of a block among the sorted blocks.
LEMMA BlockPlaces ==
    ASSUME NEW blocks \in SUBSET Nat, IsFiniteSet(blocks), NEW sorted, sorted = Ascending(blocks)
    PROVE  /\ ToSet(sorted) = blocks
           /\ Cardinality(blocks) \in Nat
           /\ \A b \in blocks : NumBelow(sorted, b) \in 0 .. Cardinality(blocks) - 1
           /\ \A b, c \in blocks : b < c => NumBelow(sorted, b) < NumBelow(sorted, c)
  <1>1. /\ sorted \in Seq(blocks) /\ Len(sorted) = Cardinality(blocks) /\ Rising(sorted)
        /\ \A x \in blocks : \E k \in 1 .. Len(sorted) : sorted[k] = x
    BY AscendingLists
  <1>2. sorted \in Seq(Int) /\ NotFalling(sorted)
    <2>1. sorted \in Seq(Int)
      <3>1. sorted \in Seq(blocks)
        BY <1>1
      <3>2. Len(sorted) \in Nat /\ sorted = [k \in 1 .. Len(sorted) |-> sorted[k]]
        BY <3>1
      <3>3. ASSUME NEW k \in 1 .. Len(sorted) PROVE sorted[k] \in Int
        <4>1. sorted[k] \in blocks
          BY <3>1
        <4>2. \A x \in blocks : x \in Int
          OBVIOUS
        <4> QED BY <4>1, <4>2, Zenon
      <3> QED BY <3>2, <3>3, IsSeq
    <2> QED BY <1>1, <2>1, RisingNotFalling
  <1>3. Len(sorted) \in Nat /\ DOMAIN sorted = 1 .. Len(sorted)
    BY <1>2
  <1>4. ToSet(sorted) = blocks
    <2>1. \A k \in 1 .. Len(sorted) : sorted[k] \in blocks
      BY <1>1
    <2> QED BY <1>1, <1>3, <2>1 DEF ToSet
  <1>5. ASSUME NEW k \in 1 .. Len(sorted) PROVE NumBelow(sorted, sorted[k]) = k - 1
    <2>1. PICK c : c = NumBelow(sorted, sorted[k])
      OBVIOUS
    <2>2. \A i \in 1 .. Len(sorted) : sorted[i] \in Int
      BY <1>2
    <2>3. c \in 0 .. Len(sorted) /\ \A i \in 1 .. Len(sorted) : sorted[i] < sorted[k] <=> i <= c
      BY <1>2, <2>1, <2>2, BelowCounts
    <2>4. ~(k <= c)
      BY <2>2, <2>3
    <2>5. k - 1 \in 1 .. Len(sorted) => k - 1 <= c
      <3>1. SUFFICES ASSUME k - 1 \in 1 .. Len(sorted) PROVE k - 1 <= c
        OBVIOUS
      <3>2. sorted[k - 1] < sorted[k]
        BY <1>1, <3>1 DEF Rising
      <3> QED BY <2>3, <3>1, <3>2
    <2> QED BY <1>3, <2>1, <2>3, <2>4, <2>5
  <1>6. ASSUME NEW b \in blocks
        PROVE  NumBelow(sorted, b) \in 0 .. Len(sorted) - 1
    <2>1. PICK k \in 1 .. Len(sorted) : sorted[k] = b
      BY <1>1
    <2>2. NumBelow(sorted, b) = k - 1
      BY <1>5, <2>1
    <2> QED BY <1>3, <2>2
  <1>7. ASSUME NEW b \in blocks, NEW c \in blocks, b < c
        PROVE  NumBelow(sorted, b) < NumBelow(sorted, c)
    <2>1. PICK k \in 1 .. Len(sorted) : sorted[k] = b
      BY <1>1
    <2>2. PICK l \in 1 .. Len(sorted) : sorted[l] = c
      BY <1>1
    <2>3. k < l
      <3>1. SUFFICES ASSUME l <= k PROVE FALSE
        BY <1>3
      <3>2. sorted[l] <= sorted[k]
        BY <1>2, <2>1, <2>2, <3>1 DEF NotFalling
      <3> QED BY <1>7, <2>1, <2>2, <3>2
    <2>4. NumBelow(sorted, b) = k - 1 /\ NumBelow(sorted, c) = l - 1
      BY <1>5, <2>1, <2>2
    <2> QED BY <2>3, <2>4
  <1> QED BY <1>1, <1>3, <1>4, <1>6, <1>7

\* Blocks of indices.
InBlock(minIndex, b, k) == minIndex + b * BlankBlockSize + k
Offsets == 0 .. BlankBlockSize - 1

\* The block of an index and the place in it, as the code computes them.
LEMMA BlockOfIndex ==
    ASSUME NEW minIndex \in Nat, NEW b \in Nat, NEW k \in Offsets
    PROVE  /\ InBlock(minIndex, b, k) \in Nat /\ ~(InBlock(minIndex, b, k) < minIndex)
           /\ (InBlock(minIndex, b, k) - minIndex) \div BlankBlockSize = b
           /\ (InBlock(minIndex, b, k) - minIndex) % BlankBlockSize = k
  <1>1. PICK B \in Nat \ {0} : B = BlankBlockSize
    BY BlankBlocks
  <1>2. k \in 0 .. B - 1
    BY <1>1 DEF Offsets
  <1>3. PICK x : x = b * B + k
    OBVIOUS
  <1>4. b * B \in Nat
    BY <1>1
  <1>5. x \in Nat /\ InBlock(minIndex, b, k) = minIndex + x
    BY <1>1, <1>2, <1>3, <1>4 DEF InBlock
  <1>6. (minIndex + x) - minIndex = x
    BY <1>5
  <1>7. x \div B = b
    BY <1>1, <1>2, <1>3
  <1>8. x % B = k
    BY <1>1, <1>2, <1>3
  <1>9. InBlock(minIndex, b, k) - minIndex = x
    BY <1>5, <1>6
  <1> QED BY <1>1, <1>5, <1>7, <1>8, <1>9

\* Indices of blocks are ordered by block and then by place.
LEMMA BlocksOrdered ==
    ASSUME NEW minIndex \in Nat, NEW b \in Nat, NEW c \in Nat, NEW k \in Offsets, NEW l \in Offsets
    PROVE  InBlock(minIndex, b, k) < InBlock(minIndex, c, l) <=> b < c \/ (b = c /\ k < l)
  <1>1. PICK B \in Nat \ {0} : B = BlankBlockSize
    BY BlankBlocks
  <1>2. k \in 0 .. B - 1 /\ l \in 0 .. B - 1
    BY <1>1 DEF Offsets
  <1>3. PICK x, y : x = b * B /\ y = c * B
    OBVIOUS
  <1>4. x \in Nat /\ y \in Nat
    BY <1>1, <1>3
  <1>5. InBlock(minIndex, b, k) = minIndex + x + k /\ InBlock(minIndex, c, l) = minIndex + y + l
    BY <1>1, <1>3 DEF InBlock
  <1>6. CASE b < c
    <2>1. x + B <= y
      BY <1>1, <1>3, <1>6
    <2> QED BY <1>1, <1>2, <1>4, <1>5, <1>6, <2>1
  <1>7. CASE c < b
    <2>1. y + B <= x
      BY <1>1, <1>3, <1>7
    <2> QED BY <1>1, <1>2, <1>4, <1>5, <1>7, <2>1
  <1>8. CASE b = c
    BY <1>1, <1>2, <1>3, <1>4, <1>5, <1>8
  <1> QED BY <1>6, <1>7, <1>8

\* The new index of an old blank node, and of one of a later block.
LEMMA BlankRemapped ==
    ASSUME NEW blocks \in SUBSET Nat, IsFiniteSet(blocks), NEW minIndex \in Nat, NEW m,
           m.blankNodeBlocks = Ascending(blocks), m.minBlankNodeIndex = minIndex
    PROVE  /\ \A n \in 0 .. minIndex - 1 :
                  tryRemapBlankNodeId(<<BlankNodeIndex, n>>, m) = <<BlankNodeIndex, n>>
           /\ \A b \in blocks : \A k \in Offsets :
                  tryRemapBlankNodeId(<<BlankNodeIndex, InBlock(minIndex, b, k)>>, m)
                    = <<BlankNodeIndex, InBlock(minIndex, NumBelow(Ascending(blocks), b), k)>>
           /\ \A b \in Nat \ blocks : \A k \in Offsets :
                  tryRemapBlankNodeId(<<BlankNodeIndex, InBlock(minIndex, b, k)>>, m) = <<>>
  <1>1. ASSUME NEW n \in 0 .. minIndex - 1
        PROVE  tryRemapBlankNodeId(<<BlankNodeIndex, n>>, m) = <<BlankNodeIndex, n>>
    <2>1. <<BlankNodeIndex, n>>[2] < m.minBlankNodeIndex
      OBVIOUS
    <2> QED BY <2>1 DEF tryRemapBlankNodeId
  <1>2. ASSUME NEW b \in Nat, NEW k \in Offsets
        PROVE  tryRemapBlankNodeId(<<BlankNodeIndex, InBlock(minIndex, b, k)>>, m)
                 = IF b \notin blocks THEN <<>>
                   ELSE <<BlankNodeIndex, k + NumBelow(Ascending(blocks), b) * BlankBlockSize + minIndex>>
    <2>1. PICK n : n = InBlock(minIndex, b, k)
      OBVIOUS
    <2>2. /\ n \in Nat /\ ~(n < minIndex)
          /\ (n - minIndex) \div BlankBlockSize = b
          /\ (n - minIndex) % BlankBlockSize = k
      BY <2>1, BlockOfIndex
    <2>3. ToSet(m.blankNodeBlocks) = blocks
      BY BlockPlaces
    <2>4. tryRemapBlankNodeId(<<BlankNodeIndex, n>>, m)
            = IF b \notin blocks THEN <<>>
              ELSE <<BlankNodeIndex, k + NumBelow(m.blankNodeBlocks, b) * BlankBlockSize + minIndex>>
      BY <2>2, <2>3 DEF tryRemapBlankNodeId
    <2> QED BY <2>1, <2>4
  <1>3. ASSUME NEW b \in blocks, NEW k \in Offsets
        PROVE  tryRemapBlankNodeId(<<BlankNodeIndex, InBlock(minIndex, b, k)>>, m)
                 = <<BlankNodeIndex, InBlock(minIndex, NumBelow(Ascending(blocks), b), k)>>
    <2>1. PICK c : c = NumBelow(Ascending(blocks), b)
      OBVIOUS
    <2>2. c \in Nat
      <3>1. c \in 0 .. Cardinality(blocks) - 1
        BY <2>1, BlockPlaces
      <3> QED BY <3>1
    <2>3. k \in Int
      BY BlankBlocks DEF Offsets
    <2>4. PICK x : x = c * BlankBlockSize
      OBVIOUS
    <2>5. x \in Nat
      BY <2>2, <2>4, BlankBlocks
    <2>6. k + x + minIndex = minIndex + x + k
      BY <2>3, <2>5
    <2>7. b \in Nat
      OBVIOUS
    <2> QED BY <1>2, <2>1, <2>4, <2>6, <2>7 DEF InBlock
  <1> QED BY <1>1, <1>2, <1>3

\* The type an id has after a rebuild.
NewType(id) == IF id[1] = LocalVocabIndex THEN VocabIndex ELSE id[1]

\* An order of ids of different types is that of the types after a rebuild.
LEMMA TypesOrdered ==
    ASSUME NEW vocab, NEW a \in Int \X Int, NEW b \in Int \X Int, IdLess(vocab, a, b)
    PROVE  NewType(a) <= NewType(b)
  <1>1. /\ VocabIndex = 4 /\ LocalVocabIndex = 5 /\ EncodedVal = 11
        /\ a[1] \in Int /\ a[2] \in Int /\ b[1] \in Int /\ b[2] \in Int
    BY DEF VocabIndex, LocalVocabIndex, EncodedVal
  <1>2. CASE IsVocab(a) /\ IsLocal(b)
    <2>1. PICK low : low = positionInVocab(vocab, b[2]).lower
      OBVIOUS
    <2>2. BitsLess(a, low) /\ low[1] = VocabIndex
      BY <1>1, <1>2, <2>1 DEF IdLess, positionInVocab, IsVocab, IsLocal
    <2>3. a[1] = VocabIndex
      BY <1>1, <1>2, <2>2 DEF IsVocab, BitsLess
    <2> QED BY <1>1, <1>2, <2>3 DEF NewType, IsLocal
  <1>3. CASE IsLocal(a) /\ IsVocab(b)
    BY <1>1, <1>3 DEF IsLocal, IsVocab, NewType
  <1>4. CASE ~(IsVocab(a) /\ IsLocal(b)) /\ ~(IsLocal(a) /\ IsVocab(b))
    <2>1. BitsLess(a, b)
      BY <1>4 DEF IdLess
    <2>2. a[1] <= b[1]
      BY <1>1, <2>1 DEF BitsLess
    <2> QED BY <1>1, <1>4, <2>2 DEF NewType, IsLocal, IsVocab
  <1> QED BY <1>2, <1>3, <1>4

\* Ids that are not local are ordered by their bits.
LEMMA BitsOrder ==
    ASSUME NEW vocab, NEW a, NEW b, a[1] # LocalVocabIndex, b[1] # LocalVocabIndex
    PROVE  IdLess(vocab, a, b) <=> BitsLess(a, b)
  BY DEF IdLess, IsLocal

\* The indices of old blank nodes.
OldIndices(blocks, minIndex) == 0 .. minIndex - 1 \union BlockIndices(blocks, minIndex)

\* An old blank node gets an index of the new index, in the order of the old
\* indices.
LEMMA BlankOrder ==
    ASSUME NEW blocks \in SUBSET Nat, IsFiniteSet(blocks), NEW minIndex \in Nat, NEW m,
           m.blankNodeBlocks = Ascending(blocks), m.minBlankNodeIndex = minIndex,
           NEW numBlanks, numBlanks = minIndex + Cardinality(blocks) * BlankBlockSize
    PROVE  \E f \in [OldIndices(blocks, minIndex) -> 0 .. numBlanks - 1] :
              /\ \A x \in OldIndices(blocks, minIndex) :
                     tryRemapBlankNodeId(<<BlankNodeIndex, x>>, m) = <<BlankNodeIndex, f[x]>>
              /\ \A x, y \in OldIndices(blocks, minIndex) : x < y => f[x] < f[y]
  <1> DEFINE O == OldIndices(blocks, minIndex)
             f == [x \in O |-> tryRemapBlankNodeId(<<BlankNodeIndex, x>>, m)[2]]
  <1>1. PICK sorted : sorted = Ascending(blocks)
    OBVIOUS
  <1>2. PICK N \in Nat : N = Cardinality(blocks)
    BY BlockPlaces
  <1>3. PICK size \in Nat : size = N * BlankBlockSize
    <2>1. N * BlankBlockSize \in Nat
      BY BlankBlocks
    <2> QED BY <2>1
  <1>4. numBlanks = minIndex + size
    BY <1>2, <1>3
  <1>5. /\ \A b \in blocks : NumBelow(sorted, b) \in 0 .. N - 1
        /\ \A b, c \in blocks : b < c => NumBelow(sorted, b) < NumBelow(sorted, c)
    BY <1>1, <1>2, BlockPlaces
  <1>6. ASSUME NEW x \in O
        PROVE  \/ x \in 0 .. minIndex - 1
               \/ \E b \in blocks : \E k \in Offsets : x = InBlock(minIndex, b, k)
    BY DEF OldIndices, BlockIndices, InBlock, Offsets
  <1>7. ASSUME NEW x \in 0 .. minIndex - 1
        PROVE  tryRemapBlankNodeId(<<BlankNodeIndex, x>>, m) = <<BlankNodeIndex, x>>
    BY BlankRemapped
  <1>8. ASSUME NEW b \in blocks, NEW k \in Offsets, NEW x, x = InBlock(minIndex, b, k),
               NEW c, c = NumBelow(sorted, b)
        PROVE  tryRemapBlankNodeId(<<BlankNodeIndex, x>>, m)
                 = <<BlankNodeIndex, InBlock(minIndex, c, k)>>
    BY <1>1, <1>8, BlankRemapped
  <1>9. ASSUME NEW b \in 0 .. N - 1, NEW k \in Offsets
        PROVE  InBlock(minIndex, b, k) \in minIndex .. numBlanks - 1
    <2>1. PICK B \in Nat \ {0} : B = BlankBlockSize
      BY BlankBlocks
    <2>2. k \in 0 .. B - 1
      BY <2>1 DEF Offsets
    <2>3. PICK y : y = b * B
      OBVIOUS
    <2>4. y \in Nat
      BY <2>1, <2>3
    <2>5. y + B <= N * B
      BY <2>1, <2>3
    <2>6. size = N * B
      BY <1>3, <2>1
    <2>7. InBlock(minIndex, b, k) = minIndex + y + k
      BY <2>1, <2>3 DEF InBlock
    <2> QED BY <1>4, <2>1, <2>2, <2>4, <2>5, <2>6, <2>7
  <1>10. ASSUME NEW x \in O
         PROVE  /\ tryRemapBlankNodeId(<<BlankNodeIndex, x>>, m) = <<BlankNodeIndex, f[x]>>
                /\ f[x] \in 0 .. numBlanks - 1
    <2>1. CASE x \in 0 .. minIndex - 1
      <3>1. tryRemapBlankNodeId(<<BlankNodeIndex, x>>, m) = <<BlankNodeIndex, x>>
        BY <1>7, <2>1
      <3>2. f[x] = x
        BY <3>1
      <3>3. x \in 0 .. numBlanks - 1
        BY <1>4, <2>1
      <3> HIDE DEF f
      <3> QED BY <3>1, <3>2, <3>3
    <2>2. CASE \E b \in blocks : \E k \in Offsets : x = InBlock(minIndex, b, k)
      <3>1. PICK b \in blocks, k \in Offsets : x = InBlock(minIndex, b, k)
        BY <2>2
      <3>2. PICK c \in 0 .. N - 1 : c = NumBelow(sorted, b)
        BY <1>5
      <3>3. tryRemapBlankNodeId(<<BlankNodeIndex, x>>, m) = <<BlankNodeIndex, InBlock(minIndex, c, k)>>
        BY <1>8, <3>1, <3>2
      <3>4. f[x] = InBlock(minIndex, c, k)
        BY <3>3
      <3>5. InBlock(minIndex, c, k) \in minIndex .. numBlanks - 1
        BY <1>9
      <3>6. InBlock(minIndex, c, k) \in 0 .. numBlanks - 1
        BY <1>4, <3>5
      <3> HIDE DEF f
      <3> QED BY <3>3, <3>4, <3>6
    <2> QED BY <1>6, <2>1, <2>2
  <1>11. ASSUME NEW x \in O, NEW y \in O, x < y PROVE f[x] < f[y]
    <2>1. CASE x \in 0 .. minIndex - 1 /\ y \in 0 .. minIndex - 1
      <3>1. f[x] = x /\ f[y] = y
        BY <1>7, <2>1
      <3> HIDE DEF f
      <3> QED BY <1>11, <3>1
    <2>2. CASE /\ x \in 0 .. minIndex - 1
               /\ \E b \in blocks : \E k \in Offsets : y = InBlock(minIndex, b, k)
      <3>1. PICK b \in blocks, k \in Offsets : y = InBlock(minIndex, b, k)
        BY <2>2
      <3>2. PICK c \in 0 .. N - 1 : c = NumBelow(sorted, b)
        BY <1>5
      <3>3. f[x] = x
        BY <1>7, <2>2
      <3>4. f[y] = InBlock(minIndex, c, k)
        BY <1>8, <3>1, <3>2
      <3>5. InBlock(minIndex, c, k) \in minIndex .. numBlanks - 1
        BY <1>9
      <3> HIDE DEF f
      <3> QED BY <1>4, <2>2, <3>3, <3>4, <3>5
    <2>3. CASE /\ \E b \in blocks : \E k \in Offsets : x = InBlock(minIndex, b, k)
               /\ y \in 0 .. minIndex - 1
      <3>1. PICK b \in blocks, k \in Offsets : x = InBlock(minIndex, b, k)
        BY <2>3
      <3>2. x \in Nat /\ ~(x < minIndex)
        BY <3>1, BlockOfIndex
      <3> QED BY <1>11, <2>3, <3>2
    <2>4. CASE /\ \E b \in blocks : \E k \in Offsets : x = InBlock(minIndex, b, k)
               /\ \E b \in blocks : \E k \in Offsets : y = InBlock(minIndex, b, k)
      <3>1. PICK b \in blocks, k \in Offsets : x = InBlock(minIndex, b, k)
        BY <2>4
      <3>2. PICK c \in blocks, l \in Offsets : y = InBlock(minIndex, c, l)
        BY <2>4
      <3>3. PICK d \in 0 .. N - 1 : d = NumBelow(sorted, b)
        BY <1>5
      <3>4. PICK e \in 0 .. N - 1 : e = NumBelow(sorted, c)
        BY <1>5
      <3>5. f[x] = InBlock(minIndex, d, k) /\ f[y] = InBlock(minIndex, e, l)
        BY <1>8, <3>1, <3>2, <3>3, <3>4
      <3>6. b < c \/ (b = c /\ k < l)
        BY <1>11, <3>1, <3>2, BlocksOrdered
      <3>7. d < e \/ (d = e /\ k < l)
        BY <1>5, <3>3, <3>4, <3>6
      <3>8. d \in Nat /\ e \in Nat
        OBVIOUS
      <3>9. InBlock(minIndex, d, k) < InBlock(minIndex, e, l)
        BY <3>7, <3>8, BlocksOrdered
      <3> HIDE DEF f
      <3> QED BY <3>5, <3>9
    <2> QED BY <1>6, <2>1, <2>2, <2>3, <2>4
  <1>12. f \in [O -> 0 .. numBlanks - 1]
    <2>1. f = [x \in O |-> f[x]]
      OBVIOUS
    <2> HIDE DEF f, O
    <2> QED BY <1>10, <2>1
  <1> HIDE DEF f
  <1> QED BY <1>10, <1>11, <1>12

\* Ids whose value is folded into them.
FoldedIds == (Int \ {VocabIndex, LocalVocabIndex, BlankNodeIndex}) \X Int

\* How an id is remapped: those of words to the place of the word, those of
\* blank nodes by an increasing function, and others not at all.
Remapped(vocab, entries, blocks, minIndex, m, f) ==
    /\ \A id \in WordIds(vocab, entries) :
           /\ \E p \in 1 .. Len(m.vocab) : /\ RemapForNewIndex(id, m) = <<VocabIndex, p - 1>>
                                           /\ m.vocab[p] = WordOf(vocab, id)
           /\ remapId(id, m) = RemapForNewIndex(id, m)
           /\ id[1] \in {VocabIndex, LocalVocabIndex}
           /\ id \in Int \X Int
    /\ f \in [OldIndices(blocks, minIndex) -> 0 .. m.numBlankNodesTotal - 1]
    /\ \A id \in AllBlankIds(blocks, minIndex) :
           /\ id[1] = BlankNodeIndex /\ id[2] \in OldIndices(blocks, minIndex)
           /\ id = <<BlankNodeIndex, id[2]>> /\ id[2] \in Int
           /\ RemapForNewIndex(id, m) = <<BlankNodeIndex, f[id[2]]>>
           /\ remapId(id, m) = RemapForNewIndex(id, m)
    /\ \A x, y \in OldIndices(blocks, minIndex) : x < y => f[x] < f[y]
    /\ \A id \in FoldedIds : RemapForNewIndex(id, m) = id /\ remapId(id, m) = id

\* The ids are remapped in this way.
LEMMA IdsRemapped ==
    ASSUME NEW vocab, NEW entries, NEW blocks, NEW minIndex, NEW m,
           RebuildInput(vocab, entries, blocks, minIndex),
           MappingOf(m, vocab, entries, blocks, minIndex)
    PROVE  \E f : Remapped(vocab, entries, blocks, minIndex, m, f)
  <1>1. blocks \in SUBSET Nat /\ IsFiniteSet(blocks) /\ minIndex \in Nat
    BY DEF RebuildInput
  <1>2. /\ m.blankNodeBlocks = Ascending(blocks) /\ m.minBlankNodeIndex = minIndex
        /\ m.numBlankNodesTotal = minIndex + Cardinality(blocks) * BlankBlockSize
    BY DEF MappingOf
  <1>3. PICK O : O = OldIndices(blocks, minIndex)
    OBVIOUS
  <1>4. PICK f \in [O -> 0 .. m.numBlankNodesTotal - 1] :
            /\ \A x \in O : tryRemapBlankNodeId(<<BlankNodeIndex, x>>, m) = <<BlankNodeIndex, f[x]>>
            /\ \A x, y \in O : x < y => f[x] < f[y]
    BY <1>1, <1>2, <1>3, BlankOrder
  <1>5. ASSUME NEW id \in AllBlankIds(blocks, minIndex)
        PROVE  /\ id[1] = BlankNodeIndex /\ id[2] \in O
               /\ id = <<BlankNodeIndex, id[2]>> /\ id[2] \in Int
               /\ RemapForNewIndex(id, m) = <<BlankNodeIndex, f[id[2]]>>
               /\ remapId(id, m) = RemapForNewIndex(id, m)
    <2>1. PICK x \in O : id = <<BlankNodeIndex, x>>
      BY <1>3 DEF AllBlankIds, BlankIds, OldIndices
    <2>2. id[1] = BlankNodeIndex /\ id[2] = x
      BY <2>1
    <2>3. tryRemapBlankNodeId(id, m) = <<BlankNodeIndex, f[x]>>
      BY <1>4, <2>1
    <2>4. <<BlankNodeIndex, f[x]>> # <<>>
      OBVIOUS
    <2>5. RemapForNewIndex(id, m) = <<BlankNodeIndex, f[x]>> /\ remapId(id, m) = <<BlankNodeIndex, f[x]>>
      <3>1. /\ RemapForNewIndex(id, m) = tryRemapBlankNodeId(id, m)
            /\ remapId(id, m) = IF tryRemapBlankNodeId(id, m) = <<>> THEN id
                                ELSE tryRemapBlankNodeId(id, m)
        BY <2>2, RemapCases, Zenon
      <3> QED BY <2>3, <2>4, <3>1
    <2>6. x \in Int
      <3>1. CASE x \in 0 .. minIndex - 1
        BY <3>1
      <3>2. CASE x \in BlockIndices(blocks, minIndex)
        <4>1. PICK b \in blocks, k \in Offsets : x = InBlock(minIndex, b, k)
          BY <3>2 DEF BlockIndices, Offsets, InBlock
        <4>2. b \in Nat
          BY <1>1
        <4> QED BY <1>1, <4>1, <4>2, BlockOfIndex
      <3> QED BY <1>3, <3>1, <3>2 DEF OldIndices
    <2> QED BY <2>1, <2>2, <2>5, <2>6
  <1>6. ASSUME NEW id \in FoldedIds PROVE RemapForNewIndex(id, m) = id /\ remapId(id, m) = id
    BY RemapCases DEF FoldedIds
  <1>7. ASSUME NEW id \in WordIds(vocab, entries)
        PROVE  /\ \E p \in 1 .. Len(m.vocab) : /\ RemapForNewIndex(id, m) = <<VocabIndex, p - 1>>
                                               /\ m.vocab[p] = WordOf(vocab, id)
               /\ remapId(id, m) = RemapForNewIndex(id, m)
               /\ id[1] \in {VocabIndex, LocalVocabIndex}
    BY WordIdRemapped
  <1>8. ASSUME NEW id \in WordIds(vocab, entries) PROVE id \in Int \X Int
    <2>1. vocab \in Seq(Int) /\ entries \in SUBSET Int
      BY DEF RebuildInput
    <2>2. DOMAIN vocab \subseteq Int
      BY <2>1
    <2> QED BY <2>1, <2>2 DEF WordIds, VocabIds, LocalIds, VocabIndex, LocalVocabIndex
  <1>9. Remapped(vocab, entries, blocks, minIndex, m, f)
    BY <1>3, <1>4, <1>5, <1>6, <1>7, <1>8 DEF Remapped
  <1> QED BY <1>9

\* A rebuild keeps the meaning and the order of every id, for any vocabulary,
\* any new words of the updates and any blocks of blank nodes: the permutations
\* that readIndexAndRemap rewrites row by row stay sorted.
THEOREM RebuildKeepsMeaning ==
    ASSUME NEW vocab, NEW entries, NEW ownedBlocks, NEW minIndex,
           RebuildInput(vocab, entries, UNION ownedBlocks, minIndex),
           NEW others \in SUBSET FoldedIds
    PROVE  KeepsMeaning(vocab, entries, UNION ownedBlocks, others,
                        IndexRebuildMapping(vocab, entries, ownedBlocks, minIndex))
  <1>1. PICK blocks : blocks = UNION ownedBlocks
    OBVIOUS
  <1>2. PICK m : m = IndexRebuildMapping(vocab, entries, ownedBlocks, minIndex)
    OBVIOUS
  <1>3. RebuildInput(vocab, entries, blocks, minIndex) /\ MappingOf(m, vocab, entries, blocks, minIndex)
    BY <1>1, <1>2, MappingFacts
  <1>4. PICK f : Remapped(vocab, entries, blocks, minIndex, m, f)
    BY <1>3, IdsRemapped
  <1>5. m.vocab \in Seq(Int) /\ Rising(m.vocab) /\ m.minBlankNodeIndex = minIndex
    BY <1>3 DEF MappingOf
  <1>6. DOMAIN m.vocab = 1 .. Len(m.vocab) /\ Len(m.vocab) \in Nat
    BY <1>5
  <1>7. \A id \in others : id \in FoldedIds
    OBVIOUS
  <1>8. VocabIndex = 4 /\ LocalVocabIndex = 5 /\ BlankNodeIndex = 10
    BY DEF VocabIndex, LocalVocabIndex, BlankNodeIndex
  <1> DEFINE words == WordIds(vocab, entries)
             blanks == AllBlankIds(blocks, minIndex)
             New(id) == RemapForNewIndex(id, m)
  <1>9. ASSUME NEW id \in words
        PROVE  /\ New(id) \in VocabIds(m.vocab)
               /\ WordOf(m.vocab, New(id)) = WordOf(vocab, id)
    <2>1. PICK p \in 1 .. Len(m.vocab) : New(id) = <<VocabIndex, p - 1>> /\ m.vocab[p] = WordOf(vocab, id)
      BY <1>4 DEF Remapped
    <2>2. New(id) \in VocabIds(m.vocab)
      BY <1>6, <2>1 DEF VocabIds
    <2>3. New(id)[1] = VocabIndex /\ New(id)[2] + 1 = p
      BY <2>1
    <2>4. WordOf(m.vocab, New(id)) = m.vocab[p]
      BY <1>8, <2>3 DEF WordOf
    <2> QED BY <2>1, <2>2, <2>4
  <1>10. ASSUME NEW id \in blanks
         PROVE  New(id) \in BlankIds(0 .. m.numBlankNodesTotal - 1)
    <2>1. id[2] \in OldIndices(blocks, minIndex) /\ New(id) = <<BlankNodeIndex, f[id[2]]>>
      BY <1>4 DEF Remapped
    <2>2. f[id[2]] \in 0 .. m.numBlankNodesTotal - 1
      BY <1>4, <2>1 DEF Remapped
    <2> QED BY <2>1, <2>2 DEF BlankIds
  <1>11. ASSUME NEW id \in others \union words \union blanks
         PROVE  id \in Int \X Int /\ New(id)[1] = NewType(id) /\ New(id)[1] # LocalVocabIndex
    <2>1. CASE id \in others
      <3>1. id \in FoldedIds /\ New(id) = id
        BY <1>4, <1>7, <2>1 DEF Remapped
      <3>2. id \in Int \X Int /\ id[1] # LocalVocabIndex
        BY <3>1 DEF FoldedIds
      <3> QED BY <3>1, <3>2 DEF NewType
    <2>2. CASE id \in words
      <3>1. /\ \E p \in 1 .. Len(m.vocab) : New(id) = <<VocabIndex, p - 1>>
            /\ id[1] \in {VocabIndex, LocalVocabIndex} /\ id \in Int \X Int
        BY <1>4, <2>2 DEF Remapped
      <3>2. New(id)[1] = VocabIndex
        BY <3>1
      <3> QED BY <1>8, <3>1, <3>2 DEF NewType
    <2>3. CASE id \in blanks
      <3>1. id[1] = BlankNodeIndex /\ id = <<BlankNodeIndex, id[2]>> /\ id[2] \in Int
            /\ New(id) = <<BlankNodeIndex, f[id[2]]>>
        BY <1>4, <2>3 DEF Remapped
      <3>2. New(id)[1] = BlankNodeIndex /\ id \in Int \X Int
        BY <1>8, <3>1
      <3> QED BY <1>8, <3>1, <3>2 DEF NewType
    <2> QED BY <2>1, <2>2, <2>3
  <1>12. ASSUME NEW a \in others \union words \union blanks, NEW b \in others \union words \union blanks,
                IdLess(vocab, a, b)
         PROVE  IdLess(m.vocab, New(a), New(b))
    <2>1. /\ a \in Int \X Int /\ b \in Int \X Int
          /\ New(a)[1] = NewType(a) /\ New(b)[1] = NewType(b)
          /\ New(a)[1] # LocalVocabIndex /\ New(b)[1] # LocalVocabIndex
      BY <1>11
    <2>2. SUFFICES BitsLess(New(a), New(b))
      BY <2>1, BitsOrder
    <2>3. NewType(a) <= NewType(b)
      BY <1>12, <2>1, TypesOrdered
    <2>4. NewType(a) \in Int /\ NewType(b) \in Int
      BY <1>8, <2>1 DEF NewType
    <2>5. CASE NewType(a) # NewType(b)
      <3>1. NewType(a) < NewType(b)
        BY <2>3, <2>4, <2>5
      <3> HIDE DEF New
      <3> QED BY <2>1, <3>1 DEF BitsLess
    <2>6. CASE a \in words /\ b \in words
      <3>1. WordOf(vocab, a) < WordOf(vocab, b)
        BY <1>3, <1>12, <2>6, WordIdsOrdered
      <3>2. PICK p \in 1 .. Len(m.vocab) : New(a) = <<VocabIndex, p - 1>> /\ m.vocab[p] = WordOf(vocab, a)
        BY <1>4, <2>6 DEF Remapped
      <3>3. PICK q \in 1 .. Len(m.vocab) : New(b) = <<VocabIndex, q - 1>> /\ m.vocab[q] = WordOf(vocab, b)
        BY <1>4, <2>6 DEF Remapped
      <3>4. m.vocab[p] \in Int /\ m.vocab[q] \in Int /\ m.vocab[p] < m.vocab[q]
        BY <1>5, <3>1, <3>2, <3>3
      <3>5. p < q
        BY <1>5, <3>4 DEF Rising
      <3> HIDE DEF New
      <3> QED BY <3>2, <3>3, <3>5 DEF BitsLess
    <2>7. CASE a \in blanks /\ b \in blanks
      <3>1. /\ a[1] = BlankNodeIndex /\ b[1] = BlankNodeIndex
            /\ a[2] \in OldIndices(blocks, minIndex) /\ b[2] \in OldIndices(blocks, minIndex)
            /\ New(a) = <<BlankNodeIndex, f[a[2]]>> /\ New(b) = <<BlankNodeIndex, f[b[2]]>>
        BY <1>4, <2>7 DEF Remapped
      <3>2. BitsLess(a, b)
        BY <1>8, <1>12, <3>1, BitsOrder
      <3>3. a[2] < b[2]
        BY <1>8, <3>1, <3>2 DEF BitsLess
      <3>4. f[a[2]] < f[b[2]]
        BY <1>4, <3>1, <3>3 DEF Remapped
      <3> HIDE DEF New
      <3> QED BY <3>1, <3>4 DEF BitsLess
    <2>8. CASE a \in others /\ b \in others
      <3>1. New(a) = a /\ New(b) = b
        BY <1>4, <1>7, <2>8 DEF Remapped
      <3>2. a[1] # LocalVocabIndex /\ b[1] # LocalVocabIndex
        BY <2>8 DEF FoldedIds
      <3>3. BitsLess(a, b)
        BY <1>12, <3>2, BitsOrder
      <3> QED BY <3>1, <3>3
    <2>9. ASSUME NEW id \in others \union words \union blanks
          PROVE  /\ id \in words <=> NewType(id) = VocabIndex
                 /\ id \in blanks <=> NewType(id) = BlankNodeIndex
      <3>1. id \in others => NewType(id) \notin {VocabIndex, BlankNodeIndex}
        BY <1>8 DEF FoldedIds, NewType
      <3>2. id \in words => NewType(id) = VocabIndex
        <4>1. id \in words => id[1] \in {VocabIndex, LocalVocabIndex}
          BY <1>4 DEF Remapped
        <4> QED BY <4>1 DEF NewType
      <3>3. id \in blanks => NewType(id) = BlankNodeIndex
        <4>1. id \in blanks => id[1] = BlankNodeIndex
          BY <1>4 DEF Remapped
        <4> QED BY <1>8, <4>1 DEF NewType
      <3> HIDE DEF words, blanks
      <3> QED BY <1>8, <3>1, <3>2, <3>3
    <2>10. CASE NewType(a) = NewType(b)
      <3>1. (a \in words <=> b \in words) /\ (a \in blanks <=> b \in blanks)
        BY <2>9, <2>10
      <3> HIDE DEF words, blanks, New
      <3> QED BY <2>6, <2>7, <2>8, <3>1
    <2> QED BY <2>5, <2>10
  <1>13. KeepsMeaning(vocab, entries, blocks, others, m)
    BY <1>5, <1>9, <1>10, <1>12 DEF KeepsMeaning
  <1> QED BY <1>1, <1>2, <1>13

\* The updates that came during a rebuild fit to the new index, for any words
\* and any blocks of blank nodes, as long as none of the later blocks has an
\* index below the number of blocks that were in use: DeltaTriples::remapId
\* gives no id two meanings, and what the mapping does not know is new for the
\* new index, too.
THEOREM LaterUpdatesFitIn ==
    ASSUME NEW vocab, NEW entries, NEW ownedBlocks, NEW minIndex,
           RebuildInput(vocab, entries, UNION ownedBlocks, minIndex),
           NEW others \in SUBSET FoldedIds,
           NEW laterWords \in SUBSET Int, laterWords \intersect entries = {},
           \A n \in 1 .. Len(vocab) : vocab[n] \notin laterWords,
           NEW laterBlocks \in SUBSET Nat, laterBlocks \intersect UNION ownedBlocks = {},
           \A b \in laterBlocks : b >= Cardinality(UNION ownedBlocks)
    PROVE  FitsLater(vocab, entries, UNION ownedBlocks, others, laterWords, laterBlocks,
                     IndexRebuildMapping(vocab, entries, ownedBlocks, minIndex))
  <1>1. PICK blocks : blocks = UNION ownedBlocks
    OBVIOUS
  <1>2. PICK m : m = IndexRebuildMapping(vocab, entries, ownedBlocks, minIndex)
    OBVIOUS
  <1>3. RebuildInput(vocab, entries, blocks, minIndex) /\ MappingOf(m, vocab, entries, blocks, minIndex)
    BY <1>1, <1>2, MappingFacts
  <1>4. PICK f : Remapped(vocab, entries, blocks, minIndex, m, f)
    BY <1>3, IdsRemapped
  <1>5. /\ m.vocab \in Seq(Int) /\ Rising(m.vocab)
        /\ m.blankNodeBlocks = Ascending(blocks) /\ m.minBlankNodeIndex = minIndex
        /\ m.numBlankNodesTotal = minIndex + Cardinality(blocks) * BlankBlockSize
        /\ blocks \in SUBSET Nat /\ IsFiniteSet(blocks) /\ minIndex \in Nat
    BY <1>3 DEF MappingOf, RebuildInput
  <1>6. VocabIndex = 4 /\ LocalVocabIndex = 5 /\ BlankNodeIndex = 10
    BY DEF VocabIndex, LocalVocabIndex, BlankNodeIndex
  <1>7. PICK numBlanks \in Nat : numBlanks = m.numBlankNodesTotal
    <2>1. Cardinality(blocks) \in Nat
      BY <1>5, FS_CardinalityType
    <2>2. Cardinality(blocks) * BlankBlockSize \in Nat
      BY <2>1, BlankBlocks
    <2> QED BY <1>5, <2>2
  <1> DEFINE words == WordIds(vocab, entries)
             blanks == AllBlankIds(blocks, minIndex)
             later == LocalIds(laterWords)
             laterBlanks == BlankIds(BlockIndices(laterBlocks, minIndex))
             New(id) == remapId(id, m)
  <1>8. ASSUME NEW id \in others \union words \union blanks
        PROVE  New(id) = RemapForNewIndex(id, m)
    <2>1. CASE id \in others
      <3>1. id \in FoldedIds
        BY <2>1
      <3> QED BY <1>4, <3>1 DEF Remapped
    <2>2. CASE id \in words
      BY <1>4, <2>2 DEF Remapped
    <2>3. CASE id \in blanks
      BY <1>4, <2>3 DEF Remapped
    <2> QED BY <2>1, <2>2, <2>3
  <1>9. ASSUME NEW id \in later
        PROVE  New(id) = id /\ id[1] = LocalVocabIndex /\ id[2] \in laterWords
    <2>1. PICK w \in laterWords : id = <<LocalVocabIndex, w>>
      BY DEF LocalIds
    <2>2. w \notin DOMAIN m.localVocabMapping
      BY <1>3 DEF MappingOf
    <2>3. id[1] = LocalVocabIndex /\ id[2] = w
      BY <2>1
    <2>4. New(id) = id
      BY <2>2, <2>3, RemapCases, Zenon
    <2> QED BY <2>3, <2>4
  <1>10. ASSUME NEW id \in laterBlanks
         PROVE  New(id) = id /\ id[1] = BlankNodeIndex /\ id[2] \in Nat /\ id[2] >= numBlanks
    <2>1. PICK b \in laterBlocks, k \in Offsets : id = <<BlankNodeIndex, InBlock(minIndex, b, k)>>
      BY DEF BlankIds, BlockIndices, InBlock, Offsets
    <2>2. b \in Nat \ blocks
      BY <1>1
    <2>3. id[1] = BlankNodeIndex /\ id[2] = InBlock(minIndex, b, k)
      BY <2>1
    <2>4. tryRemapBlankNodeId(id, m) = <<>>
      BY <1>5, <2>1, <2>2, BlankRemapped
    <2>5. New(id) = id
      <3>1. remapId(id, m) = IF tryRemapBlankNodeId(id, m) = <<>> THEN id ELSE tryRemapBlankNodeId(id, m)
        BY <2>3, RemapCases, Zenon
      <3> QED BY <2>4, <3>1
    <2>6. InBlock(minIndex, b, k) \in Nat
      BY <1>5, <2>2, BlockOfIndex
    <2>7. InBlock(minIndex, b, k) >= numBlanks
      <3>1. PICK B \in Nat \ {0} : B = BlankBlockSize
        BY BlankBlocks
      <3>2. PICK N \in Nat : N = Cardinality(blocks)
        BY <1>5, FS_CardinalityType
      <3>3. N <= b
        BY <1>1, <2>2, <3>2
      <3>4. N * B <= b * B /\ N * B \in Nat /\ b * B \in Nat
        BY <2>2, <3>1, <3>2, <3>3
      <3>5. PICK x, y : x = N * B /\ y = b * B
        OBVIOUS
      <3>6. InBlock(minIndex, b, k) = minIndex + y + k /\ numBlanks = minIndex + x
        BY <1>5, <1>7, <3>1, <3>2, <3>5 DEF InBlock
      <3>7. k \in 0 .. B - 1
        BY <3>1 DEF Offsets
      <3>8. x \in Nat /\ y \in Nat /\ x <= y
        BY <3>4, <3>5
      <3>9. minIndex \in Nat /\ k \in Nat
        BY <1>5, <3>1, <3>7
      <3>10. minIndex + y + k >= minIndex + x
        BY <3>8, <3>9
      <3> QED BY <3>6, <3>10
    <2> QED BY <2>3, <2>5, <2>6, <2>7
  <1>11. ASSUME NEW id \in words
         PROVE  \E p \in 1 .. Len(m.vocab) : New(id) = <<VocabIndex, p - 1>> /\ m.vocab[p] = WordOf(vocab, id)
    BY <1>4 DEF Remapped
  <1>12. ASSUME NEW id \in blanks
         PROVE  /\ id[2] \in OldIndices(blocks, minIndex) /\ id = <<BlankNodeIndex, id[2]>>
                /\ id[2] \in Int /\ New(id) = <<BlankNodeIndex, f[id[2]]>> /\ f[id[2]] \in 0 .. numBlanks - 1
    <2>1. /\ id[2] \in OldIndices(blocks, minIndex) /\ id = <<BlankNodeIndex, id[2]>>
          /\ id[2] \in Int /\ New(id) = <<BlankNodeIndex, f[id[2]]>>
      BY <1>4 DEF Remapped
    <2>2. f[id[2]] \in 0 .. numBlanks - 1
      BY <1>4, <1>7, <2>1 DEF Remapped
    <2> QED BY <2>1, <2>2
  <1>13. ASSUME NEW id \in others PROVE New(id) = id /\ id[1] \notin {VocabIndex, LocalVocabIndex, BlankNodeIndex}
    <2>1. id \in FoldedIds
      OBVIOUS
    <2> QED BY <1>4, <2>1 DEF Remapped, FoldedIds
  <1>14. ASSUME NEW id \in later PROVE New(id)[2] \notin ToSet(m.vocab)
    <2>1. New(id)[2] \in laterWords
      BY <1>9
    <2>2. SUFFICES ASSUME New(id)[2] \in ToSet(m.vocab) PROVE FALSE
      OBVIOUS
    <2>3. PICK p \in 1 .. Len(m.vocab) : m.vocab[p] = New(id)[2]
      <3>1. DOMAIN m.vocab = 1 .. Len(m.vocab)
        BY <1>5
      <3> QED BY <2>2, <3>1 DEF ToSet
    <2>4. m.vocab[p] \in entries \/ \E k \in 1 .. Len(vocab) : m.vocab[p] = vocab[k]
      BY <1>3 DEF MappingOf
    <2> HIDE DEF New
    <2> QED BY <2>1, <2>3, <2>4
  <1>15. ASSUME NEW a \in words, NEW b \in words, New(a) = New(b) PROVE a = b
    <2>1. WordOf(vocab, a) = WordOf(vocab, b)
      <3>1. PICK p \in 1 .. Len(m.vocab) : New(a) = <<VocabIndex, p - 1>> /\ m.vocab[p] = WordOf(vocab, a)
        BY <1>11
      <3>2. PICK q \in 1 .. Len(m.vocab) : New(b) = <<VocabIndex, q - 1>> /\ m.vocab[q] = WordOf(vocab, b)
        BY <1>11
      <3>3. p = q
        <4> HIDE DEF New
        <4>1. <<VocabIndex, p - 1>> = <<VocabIndex, q - 1>>
          BY <1>15, <3>1, <3>2
        <4>2. p - 1 = q - 1
          BY <4>1
        <4> QED BY <4>2
      <3> QED BY <3>1, <3>2, <3>3
    <2> QED BY <1>3, <2>1, WordsHaveOneId
  <1>16. ASSUME NEW a \in blanks, NEW b \in blanks, New(a) = New(b) PROVE a = b
    <2>1. f[a[2]] = f[b[2]]
      BY <1>12, <1>16
    <2>2. f[a[2]] \in Int /\ f[b[2]] \in Int
      BY <1>12
    <2>3. ~(a[2] < b[2]) /\ ~(b[2] < a[2])
      BY <1>4, <1>12, <2>1, <2>2 DEF Remapped
    <2>4. a[2] = b[2]
      BY <1>12, <2>3
    <2> QED BY <1>12, <2>4
  <1>17. ASSUME NEW a \in others \union words \union blanks \union later \union laterBlanks,
                NEW b \in others \union words \union blanks \union later \union laterBlanks,
                New(a) = New(b)
         PROVE  a = b
    <2>1. ASSUME NEW id \in others \union words \union blanks \union later \union laterBlanks
          PROVE  /\ id \in words <=> New(id)[1] = VocabIndex
                 /\ id \in later <=> New(id)[1] = LocalVocabIndex
                 /\ id \in blanks <=> New(id)[1] = BlankNodeIndex /\ New(id)[2] < numBlanks
                 /\ id \in laterBlanks <=> New(id)[1] = BlankNodeIndex /\ ~(New(id)[2] < numBlanks)
      <3>1. id \in words => New(id)[1] = VocabIndex
        BY <1>11
      <3>2. id \in later => New(id)[1] = LocalVocabIndex
        BY <1>9
      <3>3. id \in blanks => New(id)[1] = BlankNodeIndex /\ New(id)[2] < numBlanks
        BY <1>12
      <3>4. id \in laterBlanks => New(id)[1] = BlankNodeIndex /\ ~(New(id)[2] < numBlanks)
        BY <1>10
      <3>5. id \in others => New(id)[1] \notin {VocabIndex, LocalVocabIndex, BlankNodeIndex}
        BY <1>13
      <3> HIDE DEF words, blanks, later, laterBlanks, New
      <3> QED BY <1>6, <3>1, <3>2, <3>3, <3>4, <3>5
    <2>2. /\ a \in words <=> b \in words
          /\ a \in later <=> b \in later
          /\ a \in blanks <=> b \in blanks
          /\ a \in laterBlanks <=> b \in laterBlanks
      BY <1>17, <2>1
    <2>3. CASE a \in others /\ b \in others
      BY <1>13, <1>17, <2>3
    <2>4. CASE a \in later /\ b \in later
      BY <1>9, <1>17, <2>4
    <2>5. CASE a \in laterBlanks /\ b \in laterBlanks
      BY <1>10, <1>17, <2>5
    <2> HIDE DEF words, blanks, later, laterBlanks, New
    <2> QED BY <1>15, <1>16, <1>17, <2>2, <2>3, <2>4, <2>5
  <1>18. \A id \in laterBlanks : New(id)[2] >= m.numBlankNodesTotal
    BY <1>7, <1>10
  <1>19. FitsLater(vocab, entries, blocks, others, laterWords, laterBlocks, m)
    BY <1>5, <1>8, <1>14, <1>17, <1>18 DEF FitsLater
  <1> QED BY <1>1, <1>2, <1>19

=============================================================================
