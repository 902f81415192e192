------------------------- MODULE DeltaTriplesProofs -------------------------
(***************************************************************************)
(* Proofs about DeltaTriples for every set of quads, every number of       *)
(* permutations and every combination of commands and faults.  First that  *)
(* the maps and the permutations are sound; then, from that, what the      *)
(* contents of the live state, the snapshots and the file are.             *)
(***************************************************************************)
EXTENDS DeltaTriples, WellFoundedInduction, TLAPS

\* The located triples of a permutation are modelled as a set of pairs, but
\* represent a std::set ordered by the triple: they have one flag for each.
OneFlagPerTriple ==
    \A s \in Permutations : \A t \in TriplesOf(s[1]) :
        ~(<<t, "insert">> \in located[s] /\ <<t, "delete">> \in located[s])

\* The part of the state modifyTriplesImpl and vacuum work on.
Core ==
    /\ MapOK(inserted) /\ MapOK(deleted) /\ LocatedOK(located)
    /\ HandlesValid
    /\ OneFlagPerTriple

\* The permutations hold exactly the triples of the maps.
Exact == \A s \in Permutations : located[s] = Handles(s[1])

-----------------------------------------------------------------------------
\* A permutation is a pair of its kind and its number.
LEMMA PermutationPair ==
    ASSUME NEW s \in Permutations
    PROVE  /\ s[1] \in Kind
           /\ s[2] \in 1 .. NumPermutations[s[1]]
           /\ s = <<s[1], s[2]>>
    BY BoundAssumption DEF Permutations, Kind

\* The internal triples derived from quads are internal triples.
LEMMA InternalTriplesType ==
    ASSUME NEW S \in SUBSET Triple, NEW flag
    PROVE  makeInternalTriples(S, flag) \subseteq TriplesOf("internal")
    BY DEF makeInternalTriples, TriplesOf, InternalTriple, InternalsOf

\* The internal triples of a quad are its own, apart from shared tags.
LEMMA InternalsDistinct ==
    ASSUME NEW t, NEW u
    PROVE  /\ LangPredicate(t) = LangPredicate(u) <=> t = u
           /\ LangPredicate(t) # LangTag(u)
  BY DEF LangPredicate, LangTag

\* A quad with another blank node is the same quad up to its blank node.
LEMMA WithSubjectType ==
    ASSUME NEW t \in Triple, Subject[t] \in Node, NEW n \in Node
    PROVE  /\ WithSubject[t][n] \in Triple
           /\ Subject[WithSubject[t][n]] = n
           /\ Object[WithSubject[t][n]] = Object[t]
           /\ WithSubject[t][n] \in LangTagged <=> t \in LangTagged
           /\ UpToNode(WithSubject[t][n]) = UpToNode(t)
  <1> DEFINE u == WithSubject[t][n]
  <1>1. /\ u \in Triple /\ Subject[u] = n /\ Object[u] = Object[t]
        /\ u \in LangTagged <=> t \in LangTagged
        /\ \A m \in Node : WithSubject[u][m] = WithSubject[t][m]
    BY NodeAssumption
  <1>2. UpToNode(u) = {WithSubject[u][m] : m \in Node}
    BY <1>1, Zenon DEF UpToNode
  <1>3. UpToNode(t) = {WithSubject[t][m] : m \in Node}
    BY Zenon DEF UpToNode
  <1>4. UpToNode(u) = UpToNode(t)
    BY <1>1, <1>2, <1>3
  <1> QED BY <1>1, <1>4

\* Renaming blank nodes keeps the quads without one; the others keep all but
\* their blank node, and those that are renamed get one the map gives.
LEMMA RenamedQuads ==
    ASSUME NEW f, \A n \in DOMAIN f : n \in Node /\ f[n] \in Node,
           NEW S, S \subseteq Triple
    PROVE  /\ Renamed(f, S) \subseteq Triple
           /\ \A t : Subject[t] \notin Node => (t \in Renamed(f, S) <=> t \in S)
           /\ \A t \in Renamed(f, S) : \E u \in S :
                 /\ Object[u] = Object[t] /\ UpToNode(u) = UpToNode(t)
                 /\ u \in LangTagged <=> t \in LangTagged
           /\ \A u \in S : \E t \in Renamed(f, S) : UpToNode(t) = UpToNode(u)
           /\ \A t \in Renamed(f, S) :
                 \/ \E n \in DOMAIN f : Subject[t] = f[n]
                 \/ t \in S /\ Subject[t] \notin DOMAIN f
  <1> DEFINE r(t) == IF Subject[t] \in DOMAIN f
                       THEN WithSubject[t][f[Subject[t]]] ELSE t
  <1>1. Renamed(f, S) = {r(t) : t \in S}
    BY DEF Renamed
  <1>2. ASSUME NEW t \in S
        PROVE  /\ r(t) \in Triple /\ Object[t] = Object[r(t)]
               /\ UpToNode(t) = UpToNode(r(t))
               /\ t \in LangTagged <=> r(t) \in LangTagged
               /\ Subject[t] \in DOMAIN f => Subject[r(t)] = f[Subject[t]]
               /\ Subject[t] \notin DOMAIN f => r(t) = t
    <2>1. CASE Subject[t] \in DOMAIN f
      <3>1. f[Subject[t]] \in Node /\ Subject[t] \in Node /\ t \in Triple
        BY <2>1
      <3>2. r(t) = WithSubject[t][f[Subject[t]]]
        BY <2>1
      <3> QED BY <2>1, <3>1, <3>2, WithSubjectType
    <2>2. CASE Subject[t] \notin DOMAIN f
      BY <2>2
    <2> QED BY <2>1, <2>2
  <1> HIDE DEF r
  <1>3. ASSUME NEW t, Subject[t] \notin Node
        PROVE  t \in Renamed(f, S) <=> t \in S
    <2>1. ASSUME t \in S PROVE t \in Renamed(f, S)
      BY <1>1, <1>2, <1>3, <2>1
    <2>2. ASSUME NEW u \in S, t = r(u) PROVE t \in S
      BY <1>2, <1>3, <2>2
    <2> QED BY <1>1, <2>1, <2>2
  <1>4. ASSUME NEW t \in Renamed(f, S)
        PROVE  \/ \E n \in DOMAIN f : Subject[t] = f[n]
               \/ t \in S /\ Subject[t] \notin DOMAIN f
    <2>1. PICK u \in S : t = r(u)
      BY <1>1
    <2> QED BY <1>2, <2>1
  <1> QED BY <1>1, <1>2, <1>3, <1>4

\* What the rewriting does to the normal triples of a call.
LEMMA RewriteNormal ==
    ASSUME NEW S \in SUBSET Triple,
           NEW T \in rewriteLocalVocabEntriesAndBlankNodes("normal", S)
    PROVE  /\ T \subseteq Triple
           /\ \A t : Subject[t] \notin Node => (t \in T <=> t \in S)
           /\ \A t \in T : \E u \in S :
                 /\ Object[u] = Object[t] /\ UpToNode(u) = UpToNode(t)
                 /\ u \in LangTagged <=> t \in LangTagged
           /\ \A u \in S : \E t \in T : UpToNode(t) = UpToNode(u)
           /\ NodesIn(S) \cap OwnedNodes = {} => NodesIn(T) \cap UsedNodes = {}
  <1>1. PICK f \in [NodesOf("normal", S) \ OwnedNodes -> Node \ UsedNodes] :
          T = Renamed(f, S)
    BY DEF rewriteLocalVocabEntriesAndBlankNodes
  <1>2. /\ DOMAIN f = NodesIn(S) \ OwnedNodes
        /\ \A n \in DOMAIN f : n \in Node /\ f[n] \in Node /\ f[n] \notin UsedNodes
    BY DEF NodesOf, NodesIn
  <1>3. /\ T \subseteq Triple
        /\ \A t : Subject[t] \notin Node => (t \in T <=> t \in S)
        /\ \A t \in T : \E u \in S :
              /\ Object[u] = Object[t] /\ UpToNode(u) = UpToNode(t)
              /\ u \in LangTagged <=> t \in LangTagged
        /\ \A u \in S : \E t \in T : UpToNode(t) = UpToNode(u)
        /\ \A t \in T : \/ \E n \in DOMAIN f : Subject[t] = f[n]
                        \/ t \in S /\ Subject[t] \notin DOMAIN f
    BY <1>1, <1>2, RenamedQuads, Zenon
  <1>4. ASSUME NodesIn(S) \cap OwnedNodes = {}, NEW t \in T, Subject[t] \in Node
        PROVE  Subject[t] \notin UsedNodes
    BY <1>2, <1>3, <1>4 DEF NodesIn
  <1> QED BY <1>3, <1>4 DEF NodesIn

\* What it does to the internal triples of a call.
LEMMA RewriteInternal ==
    ASSUME NEW S \in SUBSET TriplesOf("internal"),
           NEW T \in rewriteLocalVocabEntriesAndBlankNodes("internal", S)
    PROVE  /\ T \subseteq TriplesOf("internal")
           /\ \A t \in LangTagged :
                 /\ Subject[t] \notin Node =>
                      (LangPredicate(t) \in T <=> LangPredicate(t) \in S)
                 /\ LangTag(t) \in T <=> LangTag(t) \in S
           /\ NodesIn(CopiedIn(S)) \cap OwnedNodes = {} =>
                 NodesIn(CopiedIn(T)) \cap UsedNodes = {}
  <1> DEFINE C == CopiedIn(S)
  <1>1. PICK f \in [NodesOf("internal", S) \ OwnedNodes -> Node \ UsedNodes] :
          T = {LangPredicate(t) : t \in Renamed(f, C)}
                \cup (S \ {LangPredicate(t) : t \in C})
    BY DEF rewriteLocalVocabEntriesAndBlankNodes
  <1>2. /\ DOMAIN f = NodesIn(C) \ OwnedNodes
        /\ \A n \in DOMAIN f : n \in Node /\ f[n] \in Node /\ f[n] \notin UsedNodes
    BY DEF NodesOf, NodesIn
  <1>3. C \subseteq Triple /\ C \subseteq LangTagged
    BY TripleAssumption DEF CopiedIn
  <1> DEFINE R == Renamed(f, C)
  <1>r. /\ \A t : Subject[t] \notin Node => (t \in R <=> t \in C)
        /\ \A t \in R : \E u \in C :
              /\ Object[u] = Object[t] /\ UpToNode(u) = UpToNode(t)
              /\ u \in LangTagged <=> t \in LangTagged
        /\ \A t \in R : \/ \E n \in DOMAIN f : Subject[t] = f[n]
                        \/ t \in C /\ Subject[t] \notin DOMAIN f
    <2> HIDE DEF C
    <2> QED BY <1>2, <1>3, RenamedQuads, Zenon
  <1> HIDE DEF R
  <1>4. R \subseteq LangTagged
    BY <1>3, <1>r
  <1>5. \A t \in LangTagged : LangPredicate(t) \in S <=> t \in C
    BY DEF CopiedIn
  <1> HIDE DEF C
  <1>6. \A t \in LangTagged : LangPredicate(t) \in T <=> t \in R
    <2> TAKE t \in LangTagged
    <2>1. LangPredicate(t) \in S => LangPredicate(t) \in {LangPredicate(u) : u \in C}
      BY <1>5
    <2>2. LangPredicate(t) \in {LangPredicate(u) : u \in R} <=> t \in R
      BY InternalsDistinct, Zenon
    <2> QED BY <1>1, <2>1, <2>2 DEF R
  <1>7. \A t : LangTag(t) \in T <=> LangTag(t) \in S
    <2> TAKE t
    <2>1. /\ LangTag(t) \notin {LangPredicate(u) : u \in C}
          /\ LangTag(t) \notin {LangPredicate(u) : u \in R}
      BY InternalsDistinct, Zenon
    <2> QED BY <1>1, <2>1 DEF R
  <1>8. T \subseteq TriplesOf("internal")
    <2>1. {LangPredicate(u) : u \in R} \subseteq TriplesOf("internal")
      BY <1>4 DEF TriplesOf, InternalTriple, InternalsOf
    <2> QED BY <1>1, <2>1 DEF R
  <1>9. CopiedIn(T) = R
    BY <1>4, <1>6 DEF CopiedIn
  <1>10. ASSUME NodesIn(C) \cap OwnedNodes = {}, NEW t \in R, Subject[t] \in Node
         PROVE  Subject[t] \notin UsedNodes
    BY <1>2, <1>r, <1>10 DEF NodesIn
  <1>11. ASSUME NodesIn(C) \cap OwnedNodes = {}
         PROVE  NodesIn(CopiedIn(T)) \cap UsedNodes = {}
    BY <1>9, <1>10, <1>11 DEF NodesIn
  <1>12. \A t \in LangTagged :
            Subject[t] \notin Node => (LangPredicate(t) \in T <=> LangPredicate(t) \in S)
    BY <1>5, <1>6, <1>r
  <1> QED BY <1>7, <1>8, <1>11, <1>12 DEF C

\* In exactly matching maps and permutations, adding never meets a triple that
\* is already there: the check in LocatedTriplesPerBlock::add holds.
LEMMA ExactNoConflicts ==
    ASSUME Exact, NEW k \in Kind, NEW flag \in Flag, NEW S,
           NEW p \in 1 .. NumPermutations[k]
    PROVE  Conflicts(k, flag, S, p) = {}
  <1>1. <<k, p>> \in Permutations
    BY BoundAssumption DEF Permutations, Kind
  <1>2. located[<<k, p>>] = Handles(k)
    BY <1>1 DEF Exact
  <1>3. ASSUME NEW t \in Fresh(k, flag, S), NEW f \in Flag,
               <<t, f>> \in located[<<k, p>>] \ Erased(k, flag, S)
        PROVE  FALSE
    <2>1. <<t, f>> \in Located(Target(k, f), f)
      BY <1>2, <1>3 DEF Handles, Target, Located, Flag
    <2>2. t \in Target(k, f)
      BY <2>1 DEF Located
    <2>3. f # flag
      BY <2>2 DEF Fresh
    <2>4. f = Inverse(flag)
      BY <2>3 DEF Inverse, Flag
    <2>5. <<t, f>> \in Erased(k, flag, S)
      BY <2>2, <2>4 DEF Erased, Located
    <2> QED BY <1>3, <2>5
  <1> QED BY <1>3 DEF Conflicts

-----------------------------------------------------------------------------
\* How the two maps change when modifyTriplesImpl adds Marked.
LEMMA RemapTargets ==
    ASSUME MapOK(inserted), MapOK(deleted),
           NEW k \in Kind, NEW flag \in Flag, NEW S, NEW Marked,
           S \subseteq TriplesOf(k), Marked \subseteq S,
           Remap(k, flag, S, Marked)
    PROVE  /\ MapOK(inserted)' /\ MapOK(deleted)'
           /\ Target(k, flag)' = Target(k, flag) \cup Marked
           /\ Target(k, Inverse(flag))'
                = Target(k, Inverse(flag)) \ Fresh(k, flag, S)
           /\ \A j \in Kind \ {k} : \A f \in Flag : Target(j, f)' = Target(j, f)
  <1>1. CASE flag = "insert"
    BY <1>1 DEF MapOK, Remap, Target, Inverse, Flag, Fresh
  <1>2. CASE flag = "delete"
    BY <1>2 DEF MapOK, Remap, Target, Inverse, Flag, Fresh
  <1> QED BY <1>1, <1>2 DEF Flag

\* A located triple belongs to the handles when its map has it.
LEMMA HandlesMember ==
    ASSUME NEW k \in Kind
    PROVE  /\ \A t : \A f \in Flag :
                 <<t, f>> \in Handles(k) <=> t \in Target(k, f)
           /\ \A x \in Handles(k) : x = <<x[1], x[2]>> /\ x[2] \in Flag
  BY DEF Handles, Target, Located, Flag

\* The same in the next state.
LEMMA HandlesMemberPrime ==
    ASSUME NEW k \in Kind
    PROVE  /\ \A t : \A f \in Flag :
                 <<t, f>> \in Handles(k)' <=> t \in Target(k, f)'
           /\ \A x \in Handles(k)' : x = <<x[1], x[2]>> /\ x[2] \in Flag
  BY DEF Handles, Target, Located, Flag

\* Two sets of located triples are equal when they have the same triples with
\* the same flags.
LEMMA LocatedExtensionality ==
    ASSUME NEW A, NEW B,
           \A x \in A : x = <<x[1], x[2]>> /\ x[2] \in Flag,
           \A x \in B : x = <<x[1], x[2]>> /\ x[2] \in Flag,
           \A t : \A f \in Flag : <<t, f>> \in A <=> <<t, f>> \in B
    PROVE  A = B
  <1>1. \A x \in A : x \in B
    OBVIOUS
  <1>2. \A x \in B : x \in A
    OBVIOUS
  <1> QED BY <1>1, <1>2

\* modifyTriplesImpl, complete or interrupted, keeps the handles valid and
\* each triple's flag unique, provided it adds, in each permutation, fresh
\* triples without a conflict there, and marks only what it added everywhere.
LEMMA RelocateCore ==
    ASSUME Core, NEW k \in Kind, NEW flag \in Flag, NEW S, NEW Marked,
           S \subseteq TriplesOf(k),
           NEW added \in [1 .. NumPermutations[k] -> SUBSET Fresh(k, flag, S)],
           \A p \in 1 .. NumPermutations[k] :
               /\ added[p] \cap Conflicts(k, flag, S, p) = {}
               /\ Marked \subseteq added[p],
           Marked \subseteq S,
           Relocate(k, flag, S, added), Remap(k, flag, S, Marked)
    PROVE  Core'
  <1> USE DEF Core
  <1>r. /\ MapOK(inserted)' /\ MapOK(deleted)'
        /\ Target(k, flag)' = Target(k, flag) \cup Marked
        /\ Target(k, Inverse(flag))'
             = Target(k, Inverse(flag)) \ Fresh(k, flag, S)
        /\ \A j \in Kind \ {k} : \A f \in Flag : Target(j, f)' = Target(j, f)
    BY RemapTargets
  <1>i. Inverse(flag) \in Flag /\ Inverse(flag) # flag
        /\ Flag = {flag, Inverse(flag)}
    BY DEF Inverse, Flag
  <1>1. LocatedOK(located)'
    <2>1. ASSUME NEW s \in Permutations
          PROVE  located'[s] \subseteq Entries(s[1])
      <3>1. CASE s[1] = k
        <4>1. added[s[2]] \subseteq S
          BY <3>1, PermutationPair DEF Fresh
        <4> QED BY <2>1, <3>1, <4>1 DEF LocatedOK, Relocate, Entries, Located
      <3>2. CASE s[1] # k
        BY <2>1, <3>2 DEF LocatedOK, Relocate
      <3> QED BY <3>1, <3>2
    <2> QED BY <2>1 DEF LocatedOK, Relocate
  <1>2. HandlesValid'
    <2>1. ASSUME NEW s \in Permutations, NEW x \in Handles(s[1])'
          PROVE  x \in located'[s]
      <3>0. s[1] \in Kind /\ s[2] \in 1 .. NumPermutations[s[1]]
        BY PermutationPair
      <3>1. PICK t, f : x = <<t, f>> /\ f \in Flag /\ t \in Target(s[1], f)'
        BY <2>1, <3>0, HandlesMemberPrime
      <3>2. CASE s[1] # k
        <4>1. x \in Handles(s[1])
          BY <1>r, <3>0, <3>1, <3>2, HandlesMember
        <4> QED BY <4>1, <3>2 DEF HandlesValid, Relocate
      <3>3. CASE s[1] = k /\ f = flag /\ t \in Marked
        BY <3>0, <3>1, <3>3 DEF Relocate, Located
      <3>4. CASE s[1] = k /\ f = flag /\ t \notin Marked
        <4>1. x \in Handles(s[1])
          BY <1>r, <3>0, <3>1, <3>4, HandlesMember
        <4>2. x \notin Erased(k, flag, S)
          BY <1>i, <3>1, <3>4 DEF Erased, Located
        <4> QED BY <4>1, <4>2, <3>4 DEF HandlesValid, Relocate
      <3>5. CASE s[1] = k /\ f = Inverse(flag)
        <4>1. t \in Target(k, f) /\ t \notin Fresh(k, flag, S)
          BY <1>r, <3>1, <3>5
        <4>2. x \in Handles(s[1])
          BY <3>0, <3>1, <3>5, <4>1, HandlesMember
        <4>3. x \notin Erased(k, flag, S)
          BY <3>1, <4>1 DEF Erased, Located
        <4> QED BY <4>2, <4>3, <3>5 DEF HandlesValid, Relocate
      <3> QED BY <1>i, <3>1, <3>2, <3>3, <3>4, <3>5
    <2> QED BY <2>1 DEF HandlesValid
  <1>3. OneFlagPerTriple'
    <2>1. ASSUME NEW s \in Permutations, NEW t \in TriplesOf(s[1]),
                 <<t, "insert">> \in located'[s], <<t, "delete">> \in located'[s]
          PROVE  FALSE
      <3>0. s[1] \in Kind /\ s[2] \in 1 .. NumPermutations[s[1]]
            /\ s = <<s[1], s[2]>>
        BY PermutationPair
      <3>1. CASE s[1] # k
        BY <2>1, <3>1 DEF OneFlagPerTriple, Relocate
      <3>2. CASE s[1] = k
        <4>1. <<t, flag>> \in located'[s] /\ <<t, Inverse(flag)>> \in located'[s]
          BY <2>1 DEF Flag, Inverse
        <4>2. <<t, Inverse(flag)>> \in located[s] \ Erased(k, flag, S)
          BY <4>1, <3>2, <1>i DEF Relocate, Located
        <4>3. CASE t \in added[s[2]]
          <5>1. t \in Fresh(k, flag, S)
            BY <4>3, <3>0, <3>2
          <5>2. t \in Conflicts(k, flag, S, s[2])
            BY <5>1, <4>2, <3>0, <3>2, <1>i DEF Conflicts
          <5> QED BY <5>2, <4>3, <3>0, <3>2
        <4>4. CASE t \notin added[s[2]]
          <5>1. <<t, flag>> \in located[s]
            BY <4>1, <4>4, <3>2 DEF Relocate, Located
          <5> QED BY <5>1, <4>2, <2>1 DEF OneFlagPerTriple, Flag, Inverse
        <4> QED BY <4>3, <4>4
      <3> QED BY <3>1, <3>2
    <2> QED BY <2>1 DEF OneFlagPerTriple
  <1> QED BY <1>r, <1>1, <1>2, <1>3

\* A complete modifyTriplesImpl keeps Core.
LEMMA ModifyCore ==
    ASSUME Core, NEW k \in Kind, NEW flag \in Flag, NEW S,
           S \subseteq TriplesOf(k), modifyTriplesImpl(k, flag, S)
    PROVE  Core'
  <1> DEFINE added == [p \in 1 .. NumPermutations[k] |-> Fresh(k, flag, S)]
  <1>1. added \in [1 .. NumPermutations[k] -> SUBSET Fresh(k, flag, S)]
    OBVIOUS
  <1>2. Relocate(k, flag, S, added) /\ Remap(k, flag, S, Fresh(k, flag, S))
    BY DEF modifyTriplesImpl
  <1>3. \A p \in 1 .. NumPermutations[k] :
            /\ added[p] \cap Conflicts(k, flag, S, p) = {}
            /\ Fresh(k, flag, S) \subseteq added[p]
    BY DEF modifyTriplesImpl
  <1>4. Fresh(k, flag, S) \subseteq S
    BY DEF Fresh
  <1> HIDE DEF added
  <1> QED BY <1>1, <1>2, <1>3, <1>4, RelocateCore

\* An interrupted modifyTriplesImpl keeps Core, too.
LEMMA InterruptedCore ==
    ASSUME Core, NEW k \in Kind, NEW flag \in Flag, NEW S,
           S \subseteq TriplesOf(k), modifyTriplesInterrupted(k, flag, S)
    PROVE  Core'
  <1>1. PICK n \in 0 .. NumPermutations[k],
             partial \in SUBSET Fresh(k, flag, S) :
          /\ \A p \in 1 .. n : Conflicts(k, flag, S, p) = {}
          /\ partial = {} \/ (/\ n < NumPermutations[k]
                             /\ partial \cap Conflicts(k, flag, S, n + 1) = {})
          /\ Relocate(k, flag, S,
                      [p \in 1 .. NumPermutations[k] |->
                         IF p <= n THEN Fresh(k, flag, S)
                         ELSE IF p = n + 1 THEN partial ELSE {}])
          /\ Remap(k, flag, S, {})
    BY DEF modifyTriplesInterrupted
  <1> DEFINE added == [p \in 1 .. NumPermutations[k] |->
                         IF p <= n THEN Fresh(k, flag, S)
                         ELSE IF p = n + 1 THEN partial ELSE {}]
  <1>2. added \in [1 .. NumPermutations[k] -> SUBSET Fresh(k, flag, S)]
    OBVIOUS
  <1>3. ASSUME NEW p \in 1 .. NumPermutations[k]
        PROVE  added[p] \cap Conflicts(k, flag, S, p) = {}
    <2>1. CASE p <= n
      <3>1. p \in 1 .. n
        BY <2>1
      <3> QED BY <3>1, <1>1
    <2>2. CASE p = n + 1
      <3>1. added[p] = partial
        BY <2>2
      <3> QED BY <3>1, <2>2, <1>1
    <2>3. CASE p > n + 1
      <3>1. added[p] = {}
        BY <2>3
      <3> QED BY <3>1
    <2> QED BY <2>1, <2>2, <2>3
  <1>4. Relocate(k, flag, S, added)
    BY <1>1
  <1> HIDE DEF added
  <1> QED BY <1>1, <1>2, <1>3, <1>4, RelocateCore

\* A complete modifyTriplesImpl keeps maps and permutations equal.
LEMMA ModifyExact ==
    ASSUME Core, Exact, NEW k \in Kind, NEW flag \in Flag, NEW S,
           S \subseteq TriplesOf(k), modifyTriplesImpl(k, flag, S)
    PROVE  Exact'
  <1>1. /\ Target(k, flag)' = Target(k, flag) \cup Fresh(k, flag, S)
        /\ Target(k, Inverse(flag))'
             = Target(k, Inverse(flag)) \ Fresh(k, flag, S)
        /\ \A j \in Kind \ {k} : \A f \in Flag : Target(j, f)' = Target(j, f)
    <2>1. Fresh(k, flag, S) \subseteq S
      BY DEF Fresh
    <2> QED BY <2>1, RemapTargets DEF modifyTriplesImpl, Core
  <1>2. Inverse(flag) \in Flag /\ Inverse(flag) # flag
        /\ Flag = {flag, Inverse(flag)}
    BY DEF Inverse, Flag
  <1>3. ASSUME NEW s \in Permutations
        PROVE  located'[s] = Handles(s[1])'
    <2>0. s[1] \in Kind /\ s[2] \in 1 .. NumPermutations[s[1]]
      BY PermutationPair
    <2>1. CASE s[1] # k
      <3>1. located'[s] = located[s]
        BY <2>1 DEF modifyTriplesImpl, Relocate
      <3>2. Handles(s[1])' = Handles(s[1])
        <4>1. /\ Target(s[1], "insert")' = Target(s[1], "insert")
              /\ Target(s[1], "delete")' = Target(s[1], "delete")
          BY <1>1, <2>0, <2>1 DEF Flag
        <4> QED BY <4>1 DEF Handles, Target
      <3> QED BY <3>1, <3>2 DEF Exact
    <2>2. CASE s[1] = k
      <3>1. located'[s] = (Handles(k) \ Erased(k, flag, S))
                             \cup Located(Fresh(k, flag, S), flag)
        BY <2>0, <2>2 DEF modifyTriplesImpl, Relocate, Exact
      <3>2. ASSUME NEW t, NEW f \in Flag
            PROVE  <<t, f>> \in located'[s] <=> t \in Target(k, f)'
        <4>1. <<t, f>> \in Handles(k) <=> t \in Target(k, f)
          BY HandlesMember
        <4>2. CASE f = flag
          <5>1. <<t, f>> \notin Erased(k, flag, S)
            BY <4>2, <1>2 DEF Erased, Located
          <5> QED BY <3>1, <4>1, <4>2, <5>1, <1>1 DEF Located
        <4>3. CASE f = Inverse(flag)
          BY <3>1, <4>1, <4>3, <1>1, <1>2 DEF Erased, Located
        <4> QED BY <4>2, <4>3, <1>2
      <3>3. \A x \in located'[s] : x = <<x[1], x[2]>> /\ x[2] \in Flag
        BY <3>1, HandlesMember DEF Located
      <3>4. /\ \A t : \A f \in Flag :
                  <<t, f>> \in Handles(k)' <=> t \in Target(k, f)'
            /\ \A x \in Handles(k)' : x = <<x[1], x[2]>> /\ x[2] \in Flag
        BY HandlesMemberPrime
      <3>5. located'[s] = Handles(k)'
        BY <3>2, <3>3, <3>4, LocatedExtensionality
      <3> QED BY <2>2, <3>5
    <2> QED BY <2>1, <2>2
  <1> QED BY <1>3 DEF Exact

\* Erasing located triples through their handles keeps Core and Exact.
LEMMA EraseCore ==
    ASSUME Core, NEW k \in Kind, NEW X, EraseLocated(k, X)
    PROVE  Core' /\ (Exact => Exact')
  <1> USE DEF Core
  <1>0. MapOK(inserted)' /\ MapOK(deleted)'
    BY DEF MapOK, EraseLocated
  <1>1. \A j \in Kind, f \in Flag : \A t :
           t \in Target(j, f)' <=>
               t \in Target(j, f) /\ ~(j = k /\ <<t, f>> \in X)
    BY DEF EraseLocated, Target, Flag, MapOK
  <1>2. \A s \in Permutations :
           located'[s] = IF s[1] = k THEN located[s] \ X ELSE located[s]
    BY DEF EraseLocated
  <1>3. ASSUME NEW j \in Kind
        PROVE  Handles(j)' = IF j = k THEN Handles(j) \ X ELSE Handles(j)
    <2> DEFINE B == IF j = k THEN Handles(j) \ X ELSE Handles(j)
    <2>1. /\ \A t : \A f \in Flag :
                <<t, f>> \in Handles(j) <=> t \in Target(j, f)
          /\ \A x \in Handles(j) : x = <<x[1], x[2]>> /\ x[2] \in Flag
      BY HandlesMember
    <2>2. /\ \A t : \A f \in Flag :
                <<t, f>> \in Handles(j)' <=> t \in Target(j, f)'
          /\ \A x \in Handles(j)' : x = <<x[1], x[2]>> /\ x[2] \in Flag
      BY HandlesMemberPrime
    <2>3. \A x \in B : x = <<x[1], x[2]>> /\ x[2] \in Flag
      BY <2>1
    <2>4. \A t : \A f \in Flag : <<t, f>> \in Handles(j)' <=> <<t, f>> \in B
      BY <1>1, <2>1, <2>2
    <2> HIDE DEF B
    <2>5. Handles(j)' = B
      BY <2>2, <2>3, <2>4, LocatedExtensionality
    <2> QED BY <2>5 DEF B
  <1>4. LocatedOK(located)'
    BY <1>2 DEF LocatedOK, EraseLocated
  <1>5. HandlesValid'
    BY <1>2, <1>3, PermutationPair DEF HandlesValid
  <1>6. OneFlagPerTriple'
    BY <1>2 DEF OneFlagPerTriple
  <1>7. Exact => Exact'
    BY <1>2, <1>3, PermutationPair DEF Exact
  <1> QED BY <1>0, <1>4, <1>5, <1>6, <1>7

-----------------------------------------------------------------------------
\* The inductive invariant.
IInv ==
    /\ TypeOK
    /\ HandlesValid
    /\ OneFlagPerTriple
    /\ MapsMatchPermutations

\* The conjuncts of the type invariant besides those in Core.
RestOK ==
    /\ LocatedOK(augmented)
    /\ index \in Nat
    /\ snapshot = [located |-> snapshot.located,
                   augmented |-> snapshot.augmented, index |-> snapshot.index]
    /\ LocatedOK(snapshot.located) /\ LocatedOK(snapshot.augmented)
    /\ snapshot.index \in Nat
    /\ file \in FileType
    /\ pc \in PCs
    /\ mode \in {"none", "restore", "update", "vacuum", "clear"}
    /\ where \in BOOLEAN
    /\ op \in [del : SUBSET Triple, ins : SUBSET Triple]
    /\ opsDone \in Nat
    /\ torn \in BOOLEAN

\* The invariant by parts: what the modifications work on, and the rest.
LEMMA IInvParts == IInv <=> Core /\ (~torn => Exact) /\ RestOK
  BY DEF IInv, TypeOK, Core, Exact, MapsMatchPermutations, RestOK

\* The same in the next state.
LEMMA IInvPartsPrime == IInv' <=> Core' /\ (~torn => Exact)' /\ RestOK'
  BY DEF IInv, TypeOK, Core, Exact, MapsMatchPermutations, RestOK

\* The empty DeltaTriples.
LEMMA EmptyLocated ==
    /\ LocatedOK(EmptySnapshot.located)
    /\ LocatedOK(EmptySnapshot.augmented)
    /\ EmptySnapshot.index \in Nat
    /\ EmptySnapshot = [located |-> EmptySnapshot.located,
                        augmented |-> EmptySnapshot.augmented,
                        index |-> EmptySnapshot.index]
  BY DEF LocatedOK, EmptySnapshot

\* Empty maps and permutations are sound and match.
LEMMA EmptyCore ==
    ASSUME inserted = [k \in Kind |-> {}], deleted = [k \in Kind |-> {}],
           located = EmptySnapshot.located
    PROVE  Core /\ Exact
  <1>1. \A k \in Kind : Handles(k) = {}
    BY DEF Handles, Located
  <1>2. \A s \in Permutations : located[s] = {} /\ s[1] \in Kind
    BY PermutationPair DEF EmptySnapshot
  <1>3. MapOK(inserted) /\ MapOK(deleted)
    BY DEF MapOK
  <1>4. HandlesValid /\ OneFlagPerTriple /\ Exact
    BY <1>1, <1>2 DEF HandlesValid, OneFlagPerTriple, Exact
  <1> QED BY <1>3, <1>4, EmptyLocated DEF Core

\* The same in the next state.
LEMMA EmptyCorePrime ==
    ASSUME inserted' = [k \in Kind |-> {}], deleted' = [k \in Kind |-> {}],
           located' = EmptySnapshot.located
    PROVE  Core' /\ Exact'
  <1>1. \A k \in Kind : Handles(k)' = {}
    BY DEF Handles, Located
  <1>2. \A s \in Permutations : located'[s] = {} /\ s[1] \in Kind
    BY PermutationPair DEF EmptySnapshot
  <1>3. MapOK(inserted)' /\ MapOK(deleted)'
    BY DEF MapOK
  <1>4. HandlesValid' /\ OneFlagPerTriple' /\ Exact'
    BY <1>1, <1>2 DEF HandlesValid, OneFlagPerTriple, Exact
  <1> QED BY <1>3, <1>4, EmptyLocated DEF Core

\* A step that leaves maps and permutations alone keeps them sound.
LEMMA CoreUnchanged ==
    ASSUME Core, UNCHANGED <<inserted, deleted, located>>
    PROVE  Core' /\ (Exact => Exact')
  BY DEF Core, Exact, MapOK, LocatedOK, HandlesValid, OneFlagPerTriple, Handles

\* The initial state satisfies the invariant.
LEMMA InitIInv == Init => IInv
  <1> SUFFICES ASSUME Init PROVE IInv
    OBVIOUS
  <1>1. Core /\ Exact
    BY EmptyCore DEF Init
  <1>2. RestOK
    BY EmptyLocated DEF Init, RestOK, NoFile, NoOp, FileType, PCs
  <1> QED BY <1>1, <1>2, IInvParts

\* An exception leaves the types of what it resets and keeps intact.
LEMMA ThrowRest ==
    ASSUME RestOK, NEW changed \in BOOLEAN, Throw(changed), UNCHANGED augmented
    PROVE  RestOK'
  BY DEF RestOK, Throw, NoOp, PCs

\* deleteTriples and insertTriples on the normal triples.
LEMMA ModifyNormalIInv ==
    ASSUME IInv, NEW flag \in Flag, NEW S \in SUBSET Triple, NEW next \in PCs,
           modifyNormal(flag, S, next)
    PROVE  IInv'
  <1>0. Core /\ (~torn => Exact) /\ RestOK
    BY IInvParts
  <1>t. PICK T \in rewriteLocalVocabEntriesAndBlankNodes("normal", S) :
          \/ /\ modifyTriplesImpl("normal", flag, T)
             /\ pc' = next
             /\ UNCHANGED <<augmented, index, snapshot, file, request, torn>>
          \/ modifyTriplesInterrupted("normal", flag, T)
    BY DEF modifyNormal
  <1>1. T \subseteq TriplesOf("normal") /\ "normal" \in Kind
    BY RewriteNormal DEF TriplesOf, Kind
  <1>2. CASE modifyTriplesInterrupted("normal", flag, T)
    <2>1. Core'
      BY <1>0, <1>1, <1>2, InterruptedCore
    <2>2. Throw(TRUE) /\ UNCHANGED augmented
      BY <1>2 DEF modifyTriplesInterrupted
    <2>3. RestOK'
      BY <1>0, <2>2, ThrowRest
    <2>4. torn' = TRUE
      BY <2>2, <1>0 DEF Throw, RestOK
    <2> QED BY <2>1, <2>3, <2>4, IInvPartsPrime
  <1>3. CASE /\ modifyTriplesImpl("normal", flag, T)
             /\ pc' = next
             /\ UNCHANGED <<augmented, index, snapshot, file, request, torn>>
    <2>1. Core'
      BY <1>0, <1>1, <1>3, ModifyCore
    <2>2. ~torn => Exact'
      BY <1>0, <1>1, <1>3, ModifyExact
    <2>3. RestOK'
      BY <1>0, <1>3 DEF RestOK, request
    <2> QED BY <1>3, <2>1, <2>2, <2>3, IInvPartsPrime
  <1> QED BY <1>t, <1>2, <1>3

\* deleteTriples and insertTriples on the internal triples.
LEMMA ModifyInternalIInv ==
    ASSUME IInv, NEW flag \in Flag, NEW S \in SUBSET Triple, NEW next \in PCs,
           modifyInternal(flag, S, next)
    PROVE  IInv'
  <1> DEFINE I == makeInternalTriples(S, flag)
  <1>0. Core /\ (~torn => Exact) /\ RestOK
    BY IInvParts
  <1>t. PICK T \in rewriteLocalVocabEntriesAndBlankNodes("internal", I) :
          \/ /\ modifyTriplesImpl("internal", flag, T)
             /\ index' = index + 1
             /\ pc' = next
             /\ UNCHANGED <<augmented, snapshot, file, request, torn>>
          \/ modifyTriplesInterrupted("internal", flag, T)
    BY DEF modifyInternal
  <1>1. T \subseteq TriplesOf("internal") /\ "internal" \in Kind
    BY InternalTriplesType, RewriteInternal DEF Kind
  <1> HIDE DEF I
  <1>2. CASE modifyTriplesInterrupted("internal", flag, T)
    <2>1. Core'
      BY <1>0, <1>1, <1>2, InterruptedCore
    <2>2. Throw(TRUE) /\ UNCHANGED augmented
      BY <1>2 DEF modifyTriplesInterrupted
    <2>3. RestOK'
      BY <1>0, <2>2, ThrowRest
    <2>4. torn' = TRUE
      BY <2>2, <1>0 DEF Throw, RestOK
    <2> QED BY <2>1, <2>3, <2>4, IInvPartsPrime
  <1>3. CASE /\ modifyTriplesImpl("internal", flag, T)
             /\ index' = index + 1
             /\ pc' = next
             /\ UNCHANGED <<augmented, snapshot, file, request, torn>>
    <2>1. Core'
      BY <1>0, <1>1, <1>3, ModifyCore
    <2>2. ~torn => Exact'
      BY <1>0, <1>1, <1>3, ModifyExact
    <2>3. RestOK'
      BY <1>0, <1>3 DEF RestOK, request
    <2> QED BY <1>3, <2>1, <2>2, <2>3, IInvPartsPrime
  <1> QED BY <1>t, <1>2, <1>3

\* vacuum on the triples of one kind.
LEMMA VacuumIInv ==
    ASSUME IInv, NEW k \in Kind, NEW next \in PCs,
           VacuumKind(k, next) \/ VacuumInterrupted(k)
    PROVE  IInv'
  <1>0. Core /\ (~torn => Exact) /\ RestOK
    BY IInvParts
  <1>1. CASE VacuumKind(k, next)
    <2>1. Core' /\ (Exact => Exact')
      BY <1>0, <1>1, EraseCore DEF VacuumKind
    <2>2. RestOK' /\ torn' = torn
      BY <1>0, <1>1 DEF VacuumKind, RestOK, request
    <2> QED BY <1>0, <2>1, <2>2, IInvPartsPrime
  <1>2. CASE VacuumInterrupted(k)
    <2>1. PICK X : EraseLocated(k, X)
      BY <1>2 DEF VacuumInterrupted
    <2>2. Core' /\ (Exact => Exact')
      BY <1>0, <2>1, EraseCore
    <2>3. Throw(FALSE) /\ UNCHANGED augmented
      BY <1>2 DEF VacuumInterrupted
    <2>4. RestOK'
      BY <1>0, <2>3, ThrowRest
    <2>5. torn' = torn
      BY <1>0, <2>3 DEF Throw, RestOK
    <2> QED BY <1>0, <2>2, <2>4, <2>5, IInvPartsPrime
  <1> QED BY <1>1, <1>2

\* Every step keeps the invariant.
LEMMA NextIInv == IInv /\ [Next]_vars => IInv'
  <1> SUFFICES ASSUME IInv, [Next]_vars PROVE IInv'
    OBVIOUS
  <1>0. Core /\ (~torn => Exact) /\ RestOK
    BY IInvParts
  <1>1. CASE Start
    <2>1. /\ RestOK' /\ UNCHANGED <<inserted, deleted, located>>
          /\ ~torn' => ~torn
      BY <1>0, <1>1 DEF Start, RestOK, readFromDisk, live, FileType, NoOp, PCs
    <2> QED BY <1>0, <2>1, CoreUnchanged, IInvPartsPrime
  <1>2. CASE Crash
    <2>1. Core' /\ Exact'
      BY <1>2, EmptyCorePrime DEF Crash
    <2>2. RestOK'
      BY <1>0, <1>2, EmptyLocated DEF Crash, RestOK, NoOp, PCs
    <2> QED BY <2>1, <2>2, IInvPartsPrime
  <1>3. CASE BeginUpdate
    <2>1. /\ RestOK' /\ UNCHANGED <<inserted, deleted, located>>
          /\ ~torn' => ~torn
      BY <1>0, <1>3 DEF BeginUpdate, RestOK, live, PCs
    <2> QED BY <1>0, <2>1, CoreUnchanged, IInvPartsPrime
  <1>4. CASE BeginVacuum
    <2>1. /\ RestOK' /\ UNCHANGED <<inserted, deleted, located>>
          /\ ~torn' => ~torn
      BY <1>0, <1>4 DEF BeginVacuum, RestOK, live, PCs
    <2> QED BY <1>0, <2>1, CoreUnchanged, IInvPartsPrime
  <1>5. CASE Clear
    <2>1. Core' /\ Exact'
      BY <1>5, EmptyCorePrime DEF Clear
    <2>2. RestOK'
      BY <1>0, <1>5, EmptyLocated DEF Clear, RestOK, PCs
    <2> QED BY <2>1, <2>2, IInvPartsPrime
  <1>6. CASE BeginOperation
    <2>1. LocatedOK(augmented)'
      BY <1>0, <1>6 DEF BeginOperation, Core, RestOK, LocatedOK
    <2>2. RestOK' /\ UNCHANGED <<inserted, deleted, located, torn>>
      BY <1>0, <1>6, <2>1 DEF BeginOperation, NoOp, RestOK, PCs
    <2> QED BY <1>0, <2>2, CoreUnchanged, IInvPartsPrime
  <1>7. CASE EvaluateWhere
    <2>1. PICK del \in SUBSET Triple, ins \in SUBSET Triple :
             op' = [del |-> del \ ins, ins |-> ins]
      BY <1>7 DEF EvaluateWhere
    <2>2. op' \in [del : SUBSET Triple, ins : SUBSET Triple]
      BY <2>1
    <2>3. /\ UNCHANGED <<live, snapshot, file, mode, torn>>
          /\ where' = FALSE /\ opsDone' = opsDone + 1
          /\ pc' \in {"deleteNormal", "insertNormal", "operation"}
      BY <1>7 DEF EvaluateWhere, FirstPhase
    <2>4. RestOK'
      <3>1. UNCHANGED <<inserted, deleted, located, augmented, index>>
        BY <2>3 DEF live
      <3>2. pc' \in PCs /\ opsDone' \in Nat
        BY <1>0, <2>3 DEF PCs, RestOK
      <3>w. where' \in BOOLEAN
        BY <2>3, Zenon
      <3>3. UNCHANGED <<augmented, index, snapshot, file, mode, torn>>
        BY <2>3, <3>1
      <3> QED BY <1>0, <2>2, <3>2, <3>3, <3>w DEF RestOK
    <2>5. UNCHANGED <<inserted, deleted, located>> /\ (~torn' => ~torn)
      BY <2>3 DEF live
    <2> QED BY <1>0, <2>4, <2>5, CoreUnchanged, IInvPartsPrime
  <1>8. CASE EndOperations
    <2>1. /\ RestOK' /\ UNCHANGED <<inserted, deleted, located>>
          /\ ~torn' => ~torn
      BY <1>0, <1>8 DEF EndOperations, NoOp, RestOK, live, PCs
    <2> QED BY <1>0, <2>1, CoreUnchanged, IInvPartsPrime
  <1>9. CASE CancelOperation
    <2>1. RestOK'
      BY <1>0, <1>9 DEF CancelOperation, Throw, RestOK, NoOp, PCs
    <2>2. UNCHANGED <<inserted, deleted, located>> /\ (~torn' => ~torn)
      BY <1>9 DEF CancelOperation, Throw
    <2> QED BY <1>0, <2>1, <2>2, CoreUnchanged, IInvPartsPrime
  <1>o. op.del \in SUBSET Triple /\ op.ins \in SUBSET Triple
    BY <1>0 DEF RestOK
  <1>10. CASE DeleteNormal
    BY <1>o, <1>10, ModifyNormalIInv DEF DeleteNormal, Flag, PCs
  <1>11. CASE DeleteInternal
    <2> DEFINE next == CASE mode = "restore" -> "metadata"
                        [] mode # "restore" /\ op.ins # {} -> "insertNormal"
                        [] OTHER -> "operation"
    <2>1. next \in PCs
      BY DEF PCs
    <2>2. modifyInternal("delete", op.del, next)
      BY <1>11 DEF DeleteInternal
    <2> HIDE DEF next
    <2> QED BY <1>o, <2>1, <2>2, ModifyInternalIInv DEF Flag
  <1>12. CASE InsertNormal
    BY <1>o, <1>12, ModifyNormalIInv DEF InsertNormal, Flag, PCs
  <1>13. CASE InsertInternal
    <2> DEFINE next ==
                 IF mode = "restore" THEN "deleteNormal" ELSE "operation"
    <2>1. next \in PCs
      BY DEF PCs
    <2>2. modifyInternal("insert", op.ins, next)
      BY <1>13 DEF InsertInternal
    <2> HIDE DEF next
    <2> QED BY <1>o, <2>1, <2>2, ModifyInternalIInv DEF Flag
  <1>14. CASE VacuumNormal
    BY <1>14, VacuumIInv DEF VacuumNormal, Kind, PCs
  <1>15. CASE VacuumInternal
    BY <1>15, VacuumIInv DEF VacuumInternal, Kind, PCs
  <1>16. CASE updateAugmentedMetadata
    <2>1. LocatedOK(augmented)'
      BY <1>0, <1>16 DEF updateAugmentedMetadata, Core, LocatedOK
    <2>2. RestOK' /\ UNCHANGED <<inserted, deleted, located, torn>>
      BY <1>0, <1>16, <2>1 DEF updateAugmentedMetadata, RestOK, request, PCs
    <2> QED BY <1>0, <2>2, CoreUnchanged, IInvPartsPrime
  <1>17. CASE BeginWrite
    <2>1. /\ RestOK' /\ UNCHANGED <<inserted, deleted, located>>
          /\ ~torn' => ~torn
      BY <1>0, <1>17 DEF BeginWrite, RestOK, live, request, PCs
    <2> QED BY <1>0, <2>1, CoreUnchanged, IInvPartsPrime
  <1>18. CASE Rename
    <2>1. file' \in FileType
      BY <1>0, <1>18 DEF Rename, FileType, Core, MapOK, Kind, TriplesOf
    <2>2. RestOK' /\ UNCHANGED <<inserted, deleted, located, torn>>
      BY <1>0, <1>18, <2>1 DEF Rename, RestOK, live, request, PCs
    <2> QED BY <1>0, <2>2, CoreUnchanged, IInvPartsPrime
  <1>19. CASE DiskFault
    <2>1. RestOK'
      BY <1>0, <1>19, ThrowRest DEF DiskFault
    <2>2. UNCHANGED <<inserted, deleted, located>> /\ (~torn' => ~torn)
      BY <1>19 DEF DiskFault, Throw
    <2> QED BY <1>0, <2>1, <2>2, CoreUnchanged, IInvPartsPrime
  <1>20. CASE Publish
    <2>1. /\ LocatedOK(snapshot'.located) /\ LocatedOK(snapshot'.augmented)
          /\ snapshot'.index \in Nat
          /\ snapshot' = [located |-> snapshot'.located,
                          augmented |-> snapshot'.augmented,
                          index |-> snapshot'.index]
      BY <1>0, <1>20 DEF Publish, Core, RestOK
    <2>2. RestOK' /\ UNCHANGED <<inserted, deleted, located, torn>>
      BY <1>0, <1>20, <2>1 DEF Publish, RestOK, live, NoOp, PCs, LocatedOK
    <2> QED BY <1>0, <2>2, CoreUnchanged, IInvPartsPrime
  <1>21. CASE UNCHANGED vars
    <2>1. RestOK' /\ UNCHANGED <<inserted, deleted, located, torn>>
      BY <1>0, <1>21 DEF vars, RestOK, LocatedOK
    <2> QED BY <1>0, <2>1, CoreUnchanged, IInvPartsPrime
  <1> QED BY <1>1, <1>2, <1>3, <1>4, <1>5, <1>6, <1>7, <1>8, <1>9, <1>10, <1>11,
             <1>12, <1>13, <1>14, <1>15, <1>16, <1>17, <1>18, <1>19, <1>20, <1>21
          DEF Next

\* The invariant holds in every reachable state.
LEMMA IInvAlways == Spec => []IInv
  BY InitIInv, NextIInv, PTL DEF Spec

\* The state always has its type.
THEOREM TypeCorrect == Spec => []TypeOK
  BY IInvAlways, PTL DEF IInv

\* For any number of quads, permutations and blocks, and whatever ends a
\* modification early, the handles of triplesInserted_ and triplesDeleted_
\* always point to located triples of all permutations with their flag.
THEOREM HandlesAlwaysValid == Spec => []HandlesValid
  BY IInvAlways, PTL DEF IInv

\* Maps and permutations agree unless an update was cut short.
THEOREM MapsAlwaysMatch == Spec => []MapsMatchPermutations
  BY IInvAlways, PTL DEF IInv

-----------------------------------------------------------------------------
(***************************************************************************)
(* Without timeouts of updates.  Then no update is cut short: the check in *)
(* LocatedTriplesPerBlock::add never fails, because maps and permutations  *)
(* match.  What is published has then been accounted for in the metadata.  *)
(***************************************************************************)
Steady ==
    /\ torn = FALSE
    /\ pc \in {"write", "rename", "publish"} => augmented = located
    /\ snapshot.augmented = snapshot.located
    /\ \A s \in Permutations :
          snapshot.located[s] = snapshot.located[PSO(s[1])]

\* Without timeouts no modification of the delta triples is interrupted.
LEMMA NotInterrupted ==
    ASSUME "cancelUpdate" \notin Faults, Core, Exact,
           NEW k \in Kind, NEW flag \in Flag, NEW S
    PROVE  ~modifyTriplesInterrupted(k, flag, S)
  <1> SUFFICES ASSUME modifyTriplesInterrupted(k, flag, S) PROVE FALSE
    OBVIOUS
  <1>1. PICK n \in 0 .. NumPermutations[k] :
          n < NumPermutations[k] /\ Conflicts(k, flag, S, n + 1) # {}
    BY DEF modifyTriplesInterrupted
  <1>2. n + 1 \in 1 .. NumPermutations[k]
    BY <1>1, BoundAssumption
  <1> QED BY <1>1, <1>2, ExactNoConflicts

\* All permutations of one kind are equal when they match the maps.
LEMMA ExactAgree ==
    ASSUME Exact
    PROVE  \A s \in Permutations : located[s] = located[PSO(s[1])]
  <1>1. \A s \in Permutations : PSO(s[1]) \in Permutations
    BY BoundAssumption, PermutationPair DEF PSO, Permutations, Kind
  <1> QED BY <1>1, PermutationPair DEF Exact, PSO

\* It holds at the start, when everything is empty.
LEMMA InitSteady == Init => Steady
  <1>1. EmptySnapshot.augmented = EmptySnapshot.located
    BY DEF EmptySnapshot
  <1>2. \A s \in Permutations : PSO(s[1]) \in Permutations
    BY BoundAssumption, PermutationPair DEF PSO, Permutations, Kind
  <1> QED BY <1>1, <1>2 DEF Init, Steady, EmptySnapshot

\* Every step keeps it, as no update is cut short.
LEMMA NextSteady ==
    ASSUME "cancelUpdate" \notin Faults, IInv, Steady, [Next]_vars
    PROVE  Steady'
  <1>0. Core /\ Exact
    BY IInvParts DEF Steady
  <1>1. \A k \in Kind, flag \in Flag : \A S : ~modifyTriplesInterrupted(k, flag, S)
    BY <1>0, NotInterrupted
  <1>2. CASE Publish
    <2>1. augmented = located /\ \A s \in Permutations :
             located[s] = located[PSO(s[1])]
      BY <1>0, <1>2, ExactAgree DEF Publish, Steady
    <2> QED BY <1>2, <2>1 DEF Publish, Steady
  <1>3. CASE Crash
    <2>1. EmptySnapshot.augmented = EmptySnapshot.located
      BY DEF EmptySnapshot
    <2>2. \A s \in Permutations : PSO(s[1]) \in Permutations
      BY BoundAssumption, PermutationPair DEF PSO, Permutations, Kind
    <2>3. \A s \in Permutations :
             EmptySnapshot.located[s] = EmptySnapshot.located[PSO(s[1])]
      BY <2>2 DEF EmptySnapshot
    <2> QED BY <1>3, <2>1, <2>3 DEF Crash, Steady
  <1>4. CASE Start
    BY <1>4 DEF Start, readFromDisk, Steady
  <1>5. CASE BeginUpdate \/ BeginVacuum
    BY <1>5 DEF BeginUpdate, BeginVacuum, Steady
  <1>6. CASE Clear
    BY <1>6 DEF Clear, Steady
  <1>7. CASE BeginOperation \/ EndOperations
    BY <1>7 DEF BeginOperation, EndOperations, Steady
  <1>8. CASE EvaluateWhere
    BY <1>8 DEF EvaluateWhere, FirstPhase, Steady
  <1>9. CASE CancelOperation
    BY <1>9 DEF CancelOperation
  <1>10. CASE DeleteNormal
    BY <1>1, <1>10 DEF DeleteNormal, modifyNormal, Kind, Flag, Steady
  <1>11. CASE DeleteInternal
    BY <1>1, <1>11 DEF DeleteInternal, modifyInternal, Kind, Flag, Steady
  <1>12. CASE InsertNormal
    BY <1>1, <1>12 DEF InsertNormal, modifyNormal, Kind, Flag, Steady
  <1>13. CASE InsertInternal
    BY <1>1, <1>13 DEF InsertInternal, modifyInternal, Kind, Flag, Steady
  <1>14. CASE VacuumNormal \/ VacuumInternal
    BY <1>14 DEF VacuumNormal, VacuumInternal, VacuumKind, VacuumInterrupted,
                 Throw, Steady
  <1>15. CASE updateAugmentedMetadata
    BY <1>15 DEF updateAugmentedMetadata, Steady
  <1>16. CASE BeginWrite
    BY <1>16 DEF BeginWrite, live, Steady
  <1>17. CASE Rename
    BY <1>17 DEF Rename, live, Steady
  <1>18. CASE DiskFault
    BY <1>18 DEF DiskFault, Throw, Steady
  <1>19. CASE UNCHANGED vars
    BY <1>19 DEF vars, Steady
  <1> QED BY <1>2, <1>3, <1>4, <1>5, <1>6, <1>7, <1>8, <1>9, <1>10, <1>11,
             <1>12, <1>13, <1>14, <1>15, <1>16, <1>17, <1>18, <1>19
          DEF Next

\* It implies what queries rely on.
LEMMA SteadyConsistent == Steady => SnapshotConsistent
  <1> SUFFICES ASSUME Steady, NEW s \in Permutations
               PROVE  /\ View(snapshot.located, s) = SnapshotView(s[1])
                      /\ \A t \in TriplesOf(s[1]) :
                            <<t, "insert">> \in snapshot.located[s]
                               => <<t, "insert">> \in snapshot.augmented[s]
    BY DEF SnapshotConsistent
  <1>1. snapshot.located[s] = snapshot.located[PSO(s[1])]
    BY DEF Steady
  <1>2. PSO(s[1])[1] = s[1]
    BY DEF PSO
  <1>3. View(snapshot.located, s) = SnapshotView(s[1])
    BY <1>1, <1>2 DEF View, SnapshotView
  <1> QED BY <1>3 DEF Steady

\* When updates do not time out, every published snapshot gives the same
\* answers in all permutations and has complete metadata, in spite of failed
\* writes, interrupted vacuums and crashes.
THEOREM SnapshotsConsistent ==
    ASSUME "cancelUpdate" \notin Faults
    PROVE  Spec => []SnapshotConsistent
  <1>1. IInv /\ Steady /\ [Next]_vars => Steady'
    BY NextSteady
  <1> QED BY <1>1, InitSteady, IInvAlways, SteadyConsistent, PTL DEF Spec

-----------------------------------------------------------------------------
(***************************************************************************)
(* How the operations on the maps change the content of the live state.    *)
(***************************************************************************)

\* The first permutation of each kind exists.
LEMMA PsoExists ==
    ASSUME NEW k \in Kind
    PROVE  PSO(k) \in Permutations /\ PSO(k)[1] = k
  BY BoundAssumption DEF PSO, Permutations, Kind

\* No triple is in both maps.
LEMMA MapsDisjoint ==
    ASSUME Core, NEW k \in Kind
    PROVE  inserted[k] \cap deleted[k] = {}
  <1>1. SUFFICES ASSUME NEW t \in inserted[k], t \in deleted[k] PROVE FALSE
    OBVIOUS
  <1>2. <<t, "insert">> \in Handles(k) /\ <<t, "delete">> \in Handles(k)
    BY <1>1 DEF Handles, Located
  <1>3. /\ <<t, "insert">> \in located[PSO(k)]
        /\ <<t, "delete">> \in located[PSO(k)]
    BY <1>2, PsoExists DEF Core, HandlesValid
  <1>4. t \in TriplesOf(k)
    BY <1>1 DEF Core, MapOK
  <1> QED BY <1>3, <1>4, PsoExists DEF Core, OneFlagPerTriple

\* A complete modifyTriplesImpl in terms of the two maps.
LEMMA ModifyMaps ==
    ASSUME Core, NEW k \in Kind, NEW flag \in Flag, NEW S,
           modifyTriplesImpl(k, flag, S)
    PROVE  /\ flag = "insert" =>
                /\ inserted'[k] = inserted[k] \cup S
                /\ deleted'[k] = deleted[k] \ (S \ inserted[k])
           /\ flag = "delete" =>
                /\ deleted'[k] = deleted[k] \cup S
                /\ inserted'[k] = inserted[k] \ (S \ deleted[k])
           /\ \A j \in Kind \ {k} :
                inserted'[j] = inserted[j] /\ deleted'[j] = deleted[j]
  <1>0. Remap(k, flag, S, Fresh(k, flag, S)) /\ MapOK(inserted) /\ MapOK(deleted)
    BY DEF modifyTriplesImpl, Core
  <1>1. CASE flag = "insert"
    BY <1>0, <1>1 DEF Remap, Fresh, Target, MapOK
  <1>2. CASE flag = "delete"
    BY <1>0, <1>2 DEF Remap, Fresh, Target, MapOK
  <1> QED BY <1>1, <1>2 DEF Flag

\* A complete modifyTriplesImpl inserts or deletes exactly the triples it is
\* called with, also those it drops or takes from the inverse map.
LEMMA ModifyView ==
    ASSUME Core, NEW k \in Kind, NEW flag \in Flag, NEW S,
           modifyTriplesImpl(k, flag, S)
    PROVE  /\ LiveView(k)' = IF flag = "insert" THEN LiveView(k) \cup S
                             ELSE LiveView(k) \ S
           /\ \A j \in Kind \ {k} : LiveView(j)' = LiveView(j)
  <1>1. CASE flag = "insert"
    BY <1>1, ModifyMaps DEF LiveView
  <1>2. CASE flag = "delete"
    <2>1. inserted[k] \cap deleted[k] = {}
      BY MapsDisjoint
    <2> QED BY <1>2, <2>1, ModifyMaps DEF LiveView
  <1> QED BY <1>1, <1>2 DEF Flag

\* What vacuum erases does not change the content: an inserted triple that it
\* erases is in the static index and not deleted, a deleted one is not there.
LEMMA EraseView ==
    ASSUME Core, NEW k \in Kind,
           NEW X \in SUBSET (identifyTriplesToVacuum(k) \cap Handles(k)),
           EraseLocated(k, X)
    PROVE  \A j \in Kind : LiveView(j)' = LiveView(j)
  <1>1. /\ inserted'[k] = {t \in inserted[k] : <<t, "insert">> \notin X}
        /\ deleted'[k] = {t \in deleted[k] : <<t, "delete">> \notin X}
        /\ \A j \in Kind \ {k} :
              inserted'[j] = inserted[j] /\ deleted'[j] = deleted[j]
    BY DEF EraseLocated, Core, MapOK
  <1>2. /\ \A t : <<t, "insert">> \in X => t \in BaseOf(k)
        /\ \A t : <<t, "delete">> \in X => t \notin BaseOf(k)
    BY DEF identifyTriplesToVacuum
  <1>3. inserted[k] \cap deleted[k] = {}
    BY MapsDisjoint
  <1>4. LiveView(k)' = LiveView(k)
    BY <1>1, <1>2, <1>3 DEF LiveView
  <1> QED BY <1>1, <1>4 DEF LiveView

\* vacuum on one kind, complete or interrupted, keeps the content of both and
\* adds no located triple.
LEMMA VacuumView ==
    ASSUME Core, NEW k \in Kind, NEW next,
           VacuumKind(k, next) \/ VacuumInterrupted(k)
    PROVE  /\ \A j \in Kind : LiveView(j)' = LiveView(j)
           /\ \A s \in Permutations : located'[s] \subseteq located[s]
  <1>1. PICK X \in SUBSET (identifyTriplesToVacuum(k) \cap Handles(k)) :
           EraseLocated(k, X)
    <2>1. CASE VacuumKind(k, next)
      <3>1. identifyTriplesToVacuum(k)
              \in SUBSET (identifyTriplesToVacuum(k) \cap Handles(k))
        BY <2>1 DEF VacuumKind
      <3> QED BY <2>1, <3>1 DEF VacuumKind
    <2>2. CASE VacuumInterrupted(k)
      BY <2>2 DEF VacuumInterrupted
    <2> QED BY <2>1, <2>2
  <1>2. \A s \in Permutations : located'[s] \subseteq located[s]
    BY <1>1 DEF EraseLocated
  <1> QED BY <1>1, <1>2, EraseView

\* Without delta triples the content is that of the static index.
LEMMA EmptyView ==
    ASSUME inserted = [k \in Kind |-> {}], deleted = [k \in Kind |-> {}]
    PROVE  \A k \in Kind : LiveView(k) = BaseOf(k)
  BY DEF LiveView

\* The same in the next state.
LEMMA EmptyViewPrime ==
    ASSUME inserted' = [k \in Kind |-> {}], deleted' = [k \in Kind |-> {}]
    PROVE  \A k \in Kind : LiveView(k)' = BaseOf(k)
  BY DEF LiveView

\* The content is a function of the two maps.
LEMMA ViewUnchanged ==
    ASSUME UNCHANGED <<inserted, deleted>>
    PROVE  \A k \in Kind : LiveView(k)' = LiveView(k)
  BY DEF LiveView

-----------------------------------------------------------------------------
(***************************************************************************)
(* Where the update thread can be, and which located triples the metadata  *)
(* accounts for.  Whatever the faults, an update begins with complete      *)
(* metadata unless an earlier one was cut short.                           *)
(***************************************************************************)
Modifying == {"deleteNormal", "deleteInternal", "insertNormal", "insertInternal"}

Phases ==
    /\ mode = "vacuum" =>
         pc \in {"vacuumNormal", "vacuumInternal", "metadata", "write",
                 "rename", "publish"}
    /\ mode = "restore" => pc \in Modifying \cup {"metadata", "publish"}
    /\ pc \in Modifying /\ mode # "restore" => opsDone > 0

Accounted ==
    \A s \in Permutations : \A t \in TriplesOf(s[1]) :
        <<t, "insert">> \in located[s] => <<t, "insert">> \in augmented[s]

\* Where the metadata must account for the insertions.
AtRest ==
    \/ pc \in {"idle", "vacuumNormal", "vacuumInternal", "write", "rename",
               "publish"}
    \/ pc \in {"operation", "where"} /\ opsDone = 0
    \/ pc = "where" /\ where

WInv == Phases /\ (~torn /\ AtRest => Accounted)

\* At the start the process is down.
LEMMA InitWInv == Init => WInv
  BY DEF Init, WInv, Phases, AtRest, Modifying

\* An exception ends a request with complete metadata, unless it is recorded
\* that it left the live state half-modified.
LEMMA ThrowWInv ==
    ASSUME NEW changed \in BOOLEAN, Throw(changed), torn \in BOOLEAN,
           ~torn /\ ~changed => Accounted'
    PROVE  WInv'
  <1>1. Phases'
    BY DEF Throw, Phases, Modifying
  <1>2. ~torn' => ~torn /\ ~changed
    BY DEF Throw
  <1> QED BY <1>1, <1>2 DEF WInv

\* Every step keeps the phases and the metadata complete at rest.
LEMMA NextWInv == IInv /\ WInv /\ [Next]_vars => WInv'
  <1> SUFFICES ASSUME IInv, WInv, [Next]_vars PROVE WInv'
    OBVIOUS
  <1>0. Core /\ torn \in BOOLEAN /\ opsDone \in Nat
    BY IInvParts DEF RestOK
  <1>1. CASE Start
    BY <1>1 DEF Start, readFromDisk, WInv, Phases, AtRest, Modifying
  <1>2. CASE Crash
    BY <1>2 DEF Crash, WInv, Phases, AtRest, Modifying
  <1>3. CASE BeginUpdate \/ BeginVacuum
    BY <1>3 DEF BeginUpdate, BeginVacuum, Idle, live, WInv, Phases, AtRest,
                Modifying, Accounted
  <1>4. CASE Clear
    BY <1>4 DEF Clear, WInv, Phases, AtRest, Modifying
  <1>5. CASE BeginOperation
    <2>1. Phases'
      BY <1>5 DEF BeginOperation, WInv, Phases, Modifying
    <2>2. CASE opsDone # 0 /\ where'
      BY <1>5, <2>1, <2>2 DEF BeginOperation, WInv, Accounted
    <2>3. CASE opsDone = 0
      BY <1>5, <2>1, <2>3 DEF BeginOperation, WInv, AtRest, Accounted
    <2>4. CASE opsDone # 0 /\ ~where'
      BY <1>5, <2>1, <2>4 DEF BeginOperation, WInv, AtRest
    <2> QED BY <2>2, <2>3, <2>4
  <1>6. CASE EvaluateWhere
    BY <1>0, <1>6 DEF EvaluateWhere, FirstPhase, WInv, Phases, AtRest, Modifying
  <1>7. CASE EndOperations
    BY <1>7 DEF EndOperations, request, WInv, Phases, AtRest, Modifying
  <1>8. CASE CancelOperation
    <2>1. Throw(opsDone > 0) /\ UNCHANGED <<located, augmented>>
      BY <1>8 DEF CancelOperation
    <2>2. ~torn /\ ~(opsDone > 0) => Accounted'
      BY <1>0, <1>8, <2>1 DEF CancelOperation, WInv, AtRest, Accounted
    <2>3. (opsDone > 0) \in BOOLEAN
      BY <1>0
    <2> QED BY <1>0, <2>1, <2>2, <2>3, ThrowWInv
  <1>9. ASSUME NEW k, NEW flag, NEW S, modifyTriplesInterrupted(k, flag, S)
        PROVE  WInv'
    <2>1. Throw(TRUE)
      BY <1>9 DEF modifyTriplesInterrupted
    <2> QED BY <1>0, <2>1, ThrowWInv
  <1>10. CASE DeleteNormal
    <2>1. CASE pc' = "deleteInternal" /\ UNCHANGED request
      BY <1>10, <2>1 DEF DeleteNormal, request, WInv, Phases, AtRest, Modifying
    <2> QED BY <1>9, <1>10, <2>1 DEF DeleteNormal, modifyNormal
  <1>11. CASE InsertNormal
    <2>1. CASE pc' = "insertInternal" /\ UNCHANGED request
      BY <1>11, <2>1 DEF InsertNormal, request, WInv, Phases, AtRest, Modifying
    <2> QED BY <1>9, <1>11, <2>1 DEF InsertNormal, modifyNormal
  <1>12. CASE DeleteInternal
    <2>1. CASE /\ pc' = CASE mode = "restore" -> "metadata"
                          [] mode # "restore" /\ op.ins # {} -> "insertNormal"
                          [] OTHER -> "operation"
               /\ UNCHANGED request
      BY <1>0, <1>12, <2>1
         DEF DeleteInternal, request, WInv, Phases, AtRest, Modifying
    <2> QED BY <1>9, <1>12, <2>1 DEF DeleteInternal, modifyInternal
  <1>13. CASE InsertInternal
    <2>1. CASE /\ pc' = IF mode = "restore" THEN "deleteNormal" ELSE "operation"
               /\ UNCHANGED request
      BY <1>0, <1>13, <2>1
         DEF InsertInternal, request, WInv, Phases, AtRest, Modifying
    <2> QED BY <1>9, <1>13, <2>1 DEF InsertInternal, modifyInternal
  <1>14. ASSUME NEW k \in Kind, NEW next \in {"vacuumInternal", "metadata"},
                pc \in {"vacuumNormal", "vacuumInternal"},
                VacuumKind(k, next) \/ VacuumInterrupted(k)
         PROVE  WInv'
    <2>1. UNCHANGED augmented /\ \A s \in Permutations : located'[s] \subseteq located[s]
      BY <1>0, <1>14, VacuumView DEF VacuumKind, VacuumInterrupted
    <2>2. ~torn => Accounted'
      BY <1>14, <2>1 DEF WInv, AtRest, Accounted
    <2>3. CASE VacuumKind(k, next)
      BY <1>14, <2>2, <2>3 DEF VacuumKind, request, WInv, Phases, Modifying
    <2>4. CASE VacuumInterrupted(k)
      BY <1>0, <2>2, <2>4, ThrowWInv DEF VacuumInterrupted
    <2> QED BY <1>14, <2>3, <2>4
  <1>15. CASE VacuumNormal
    BY <1>14, <1>15 DEF VacuumNormal, Kind
  <1>16. CASE VacuumInternal
    BY <1>14, <1>16 DEF VacuumInternal, Kind
  <1>17. CASE updateAugmentedMetadata
    BY <1>17 DEF updateAugmentedMetadata, request, WInv, Phases, AtRest, Modifying,
                 Accounted
  <1>18. CASE BeginWrite \/ Rename
    BY <1>18 DEF BeginWrite, Rename, live, request, WInv, Phases, AtRest,
                 Modifying, Accounted
  <1>19. CASE DiskFault
    <2>1. Throw(FALSE) /\ UNCHANGED <<located, augmented>>
      BY <1>19 DEF DiskFault
    <2>2. ~torn => Accounted'
      BY <1>19, <2>1 DEF DiskFault, WInv, AtRest, Accounted
    <2> QED BY <1>0, <2>1, <2>2, ThrowWInv
  <1>20. CASE Publish
    BY <1>20 DEF Publish, live, WInv, Phases, AtRest, Modifying, Accounted
  <1>21. CASE UNCHANGED vars
    BY <1>21 DEF vars, WInv, Phases, AtRest, Accounted
  <1> QED BY <1>1, <1>2, <1>3, <1>4, <1>5, <1>6, <1>7, <1>8, <1>10, <1>11, <1>12,
             <1>13, <1>15, <1>16, <1>17, <1>18, <1>19, <1>20, <1>21 DEF Next

\* Both hold in every reachable state.
LEMMA WInvAlways == Spec => []WInv
  <1>1. IInv /\ WInv /\ [Next]_vars => WInv'
    BY NextWInv
  <1> QED BY <1>1, InitWInv, IInvAlways, PTL DEF Spec

\* Whatever ends updates and vacuums early, the graph pattern of an operation
\* is evaluated with metadata that accounts for every inserted triple.
THEOREM WhereAlwaysSeesLiveState == Spec => []WhereSeesLiveState
  <1>1. WInv => WhereSeesLiveState
    BY DEF WInv, AtRest, Accounted, WhereSeesLiveState
  <1> QED BY <1>1, WInvAlways, PTL

\* vacuum, complete or cut short, never changes what the live state contains.
THEOREM VacuumNeverChangesContent == Spec => VacuumKeepsContent
  <1>1. ASSUME IInv, WInv, [Next]_vars, mode = "vacuum", pc' # "down"
        PROVE  \A k \in Kind : LiveView(k)' = LiveView(k)
    <2>0. Core
      BY <1>1, IInvParts
    <2>1. pc \in {"vacuumNormal", "vacuumInternal", "metadata", "write", "rename",
                  "publish"}
      BY <1>1 DEF WInv, Phases
    <2>2. CASE VacuumNormal
      BY <2>0, <2>2, VacuumView DEF VacuumNormal, Kind
    <2>3. CASE VacuumInternal
      BY <2>0, <2>3, VacuumView DEF VacuumInternal, Kind
    <2>4. CASE UNCHANGED <<inserted, deleted>>
      BY <2>4, ViewUnchanged
    <2>5. CASE updateAugmentedMetadata \/ BeginWrite \/ Rename \/ DiskFault
               \/ Publish \/ UNCHANGED vars
      BY <2>4, <2>5 DEF updateAugmentedMetadata, BeginWrite, Rename, DiskFault,
                        Publish, live, vars
    <2> QED BY <1>1, <2>1, <2>2, <2>3, <2>5
            DEF Next, Start, Crash, BeginUpdate, BeginVacuum, Clear, Idle,
                BeginOperation, EvaluateWhere, EndOperations, CancelOperation,
                DeleteNormal, DeleteInternal, InsertNormal, InsertInternal
  <1>2. IInv /\ WInv /\ [Next]_vars =>
          [(mode = "vacuum" /\ pc' # "down") =>
             \A k \in Kind : LiveView(k)' = LiveView(k)]_vars
    BY <1>1
  <1> QED BY <1>2, IInvAlways, WInvAlways, PTL DEF Spec, VacuumKeepsContent

-----------------------------------------------------------------------------
(***************************************************************************)
(* The content, when no update is cut short by a timeout.                  *)
(***************************************************************************)

\* The static index and the live state hold triples of their kind.
LEMMA ViewsTyped ==
    ASSUME Core, NEW k \in Kind
    PROVE  BaseOf(k) \subseteq TriplesOf(k) /\ LiveView(k) \subseteq TriplesOf(k)
  <1>1. BaseOf(k) \subseteq TriplesOf(k)
    BY TripleAssumption DEF BaseOf, TriplesOf, InternalTriple, InternalBase, InternalsOf
  <1> QED BY <1>1 DEF LiveView, Core, MapOK

\* Permutations that match the maps show the content of the live state.
LEMMA LocatedView ==
    ASSUME Core, Exact, NEW k \in Kind
    PROVE  View(located, PSO(k)) = LiveView(k)
  <1>1. located[PSO(k)] = Handles(k) /\ PSO(k)[1] = k
    BY PsoExists DEF Exact
  <1>2. \A t : /\ <<t, "insert">> \in Handles(k) <=> t \in inserted[k]
               /\ <<t, "delete">> \in Handles(k) <=> t \in deleted[k]
    BY DEF Handles, Located
  <1> QED BY <1>1, <1>2, ViewsTyped DEF View, LiveView

\* The snapshot a step publishes shows the live state.
LEMMA PublishView ==
    ASSUME Core, Exact, Publish, NEW k \in Kind
    PROVE  SnapshotView(k)' = LiveView(k) /\ LiveView(k)' = LiveView(k)
  <1>1. snapshot'.located = located /\ UNCHANGED <<inserted, deleted>>
    BY DEF Publish, live
  <1>2. SnapshotView(k)' = View(located, PSO(k))
    BY <1>1 DEF SnapshotView, View
  <1> QED BY <1>1, <1>2, LocatedView, ViewUnchanged

\* The snapshot of a process that starts shows the static index.
LEMMA EmptySnapshotView ==
    ASSUME NEW k \in Kind
    PROVE  /\ snapshot = EmptySnapshot => SnapshotView(k) = BaseOf(k)
           /\ snapshot' = EmptySnapshot => SnapshotView(k)' = BaseOf(k)
  <1>1. BaseOf(k) \subseteq TriplesOf(k)
    BY TripleAssumption DEF BaseOf, TriplesOf, InternalTriple, InternalBase, InternalsOf
  <1>2. EmptySnapshot.located[PSO(k)] = {} /\ PSO(k)[1] = k
    BY PsoExists DEF EmptySnapshot
  <1>3. View(EmptySnapshot.located, PSO(k)) = BaseOf(k)
    BY <1>1, <1>2 DEF View
  <1> QED BY <1>3 DEF SnapshotView, View

\* The steps that change the maps, without timeouts.
LEMMA ModifySteps ==
    ASSUME "cancelUpdate" \notin Faults, Core, Exact
    PROVE  /\ DeleteNormal =>
                /\ pc = "deleteNormal" /\ pc' = "deleteInternal"
                /\ \E T \in rewriteLocalVocabEntriesAndBlankNodes("normal", op.del) :
                     /\ modifyTriplesImpl("normal", "delete", T)
                     /\ LiveView("normal")' = LiveView("normal") \ T
                /\ LiveView("internal")' = LiveView("internal")
                /\ UNCHANGED <<index, snapshot, file, mode, op>>
           /\ InsertNormal =>
                /\ pc = "insertNormal" /\ pc' = "insertInternal"
                /\ \E T \in rewriteLocalVocabEntriesAndBlankNodes("normal", op.ins) :
                     /\ modifyTriplesImpl("normal", "insert", T)
                     /\ LiveView("normal")' = LiveView("normal") \cup T
                /\ LiveView("internal")' = LiveView("internal")
                /\ UNCHANGED <<index, snapshot, file, mode, op>>
           /\ DeleteInternal =>
                /\ pc = "deleteInternal"
                /\ pc' = CASE mode = "restore" -> "metadata"
                           [] mode # "restore" /\ op.ins # {} -> "insertNormal"
                           [] OTHER -> "operation"
                /\ \E T \in rewriteLocalVocabEntriesAndBlankNodes(
                               "internal", makeInternalTriples(op.del, "delete")) :
                     /\ modifyTriplesImpl("internal", "delete", T)
                     /\ LiveView("internal")' = LiveView("internal") \ T
                /\ LiveView("normal")' = LiveView("normal")
                /\ index' = index + 1
                /\ UNCHANGED <<snapshot, file, mode, op>>
           /\ InsertInternal =>
                /\ pc = "insertInternal"
                /\ pc' = IF mode = "restore" THEN "deleteNormal" ELSE "operation"
                /\ \E T \in rewriteLocalVocabEntriesAndBlankNodes(
                               "internal", makeInternalTriples(op.ins, "insert")) :
                     /\ modifyTriplesImpl("internal", "insert", T)
                     /\ LiveView("internal")' = LiveView("internal") \cup T
                /\ LiveView("normal")' = LiveView("normal")
                /\ index' = index + 1
                /\ UNCHANGED <<snapshot, file, mode, op>>
  <1>0. /\ "normal" \in Kind /\ "internal" \in Kind
        /\ "normal" \in Kind \ {"internal"} /\ "internal" \in Kind \ {"normal"}
        /\ "insert" \in Flag /\ "delete" \in Flag /\ "delete" # "insert"
    BY DEF Kind, Flag
  <1>1. \A k \in Kind, flag \in Flag : \A S : ~modifyTriplesInterrupted(k, flag, S)
    BY NotInterrupted
  <1>2. CASE DeleteNormal
    <2>1. PICK T \in rewriteLocalVocabEntriesAndBlankNodes(
                      "normal", op.del) :
          /\ modifyTriplesImpl("normal", "delete", T)
          /\ pc = "deleteNormal" /\ pc' = "deleteInternal"
          /\ UNCHANGED <<index, snapshot, file, request>>
      BY <1>0, <1>1, <1>2 DEF DeleteNormal, modifyNormal
    <2>2. /\ LiveView("normal")' = LiveView("normal") \ T
          /\ LiveView("internal")' = LiveView("internal")
      BY <1>0, <2>1, ModifyView
    <2> QED BY <2>1, <2>2
            DEF request, InsertNormal, DeleteInternal, InsertInternal
  <1>3. CASE InsertNormal
    <2>1. PICK T \in rewriteLocalVocabEntriesAndBlankNodes(
                      "normal", op.ins) :
          /\ modifyTriplesImpl("normal", "insert", T)
          /\ pc = "insertNormal" /\ pc' = "insertInternal"
          /\ UNCHANGED <<index, snapshot, file, request>>
      BY <1>0, <1>1, <1>3 DEF InsertNormal, modifyNormal
    <2>2. /\ LiveView("normal")' = LiveView("normal") \cup T
          /\ LiveView("internal")' = LiveView("internal")
      BY <1>0, <2>1, ModifyView
    <2> QED BY <2>1, <2>2
            DEF request, DeleteNormal, DeleteInternal, InsertInternal
  <1>4. CASE DeleteInternal
    <2>1. PICK T \in rewriteLocalVocabEntriesAndBlankNodes(
                      "internal", makeInternalTriples(op.del, "delete")) :
          /\ modifyTriplesImpl("internal", "delete", T)
          /\ pc = "deleteInternal" /\ index' = index + 1
          /\ pc' = CASE mode = "restore" -> "metadata"
                     [] mode # "restore" /\ op.ins # {} -> "insertNormal"
                     [] OTHER -> "operation"
          /\ UNCHANGED <<snapshot, file, request>>
      BY <1>0, <1>1, <1>4 DEF DeleteInternal, modifyInternal
    <2>2. /\ LiveView("internal")' = LiveView("internal") \ T
          /\ LiveView("normal")' = LiveView("normal")
      BY <1>0, <2>1, ModifyView
    <2> QED BY <2>1, <2>2
            DEF request, DeleteNormal, InsertNormal, InsertInternal
  <1>5. CASE InsertInternal
    <2>1. PICK T \in rewriteLocalVocabEntriesAndBlankNodes(
                      "internal", makeInternalTriples(op.ins, "insert")) :
          /\ modifyTriplesImpl("internal", "insert", T)
          /\ pc = "insertInternal" /\ index' = index + 1
          /\ pc' = IF mode = "restore" THEN "deleteNormal" ELSE "operation"
          /\ UNCHANGED <<snapshot, file, request>>
      BY <1>0, <1>1, <1>5 DEF InsertInternal, modifyInternal
    <2>2. /\ LiveView("internal")' = LiveView("internal") \cup T
          /\ LiveView("normal")' = LiveView("normal")
      BY <1>0, <2>1, ModifyView
    <2> QED BY <2>1, <2>2
            DEF request, DeleteNormal, InsertNormal, DeleteInternal
  <1> QED BY <1>2, <1>3, <1>4, <1>5

\* vacuum in terms of the content.
LEMMA VacuumSteps ==
    ASSUME Core, VacuumNormal \/ VacuumInternal
    PROVE  /\ \A k \in Kind : LiveView(k)' = LiveView(k)
           /\ pc \in {"vacuumNormal", "vacuumInternal"}
           /\ \/ pc' \in {"vacuumInternal", "metadata"} /\ UNCHANGED mode
              \/ pc' = "idle" /\ mode' = "none"
           /\ UNCHANGED <<index, snapshot, file>>
  <1>1. CASE VacuumNormal
    BY <1>1, VacuumView
       DEF VacuumNormal, Kind, VacuumKind, VacuumInterrupted, Throw, request
  <1>2. CASE VacuumInternal
    BY <1>2, VacuumView
       DEF VacuumInternal, Kind, VacuumKind, VacuumInterrupted, Throw, request
  <1> QED BY <1>1, <1>2

\* The other steps, which change neither map.
LEMMA OtherSteps ==
    ASSUME [Next]_vars, ~(Crash \/ Clear \/ CancelOperation),
           ~(DeleteNormal \/ DeleteInternal \/ InsertNormal \/ InsertInternal),
           ~(VacuumNormal \/ VacuumInternal)
    PROVE  /\ \A k \in Kind : LiveView(k)' = LiveView(k)
           /\ UNCHANGED index
           /\ \/ Start \/ BeginUpdate \/ BeginVacuum
              \/ BeginOperation \/ EvaluateWhere \/ EndOperations
              \/ updateAugmentedMetadata \/ BeginWrite \/ Rename \/ DiskFault
              \/ Publish \/ UNCHANGED vars
           /\ ~Publish => UNCHANGED snapshot
           /\ ~Rename => UNCHANGED file
  <1>1. \/ Start \/ BeginUpdate \/ BeginVacuum
        \/ BeginOperation \/ EvaluateWhere \/ EndOperations
        \/ updateAugmentedMetadata \/ BeginWrite \/ Rename \/ DiskFault
        \/ Publish \/ UNCHANGED vars
    BY DEF Next
  <1>2. /\ UNCHANGED <<inserted, deleted, index>>
        /\ ~Publish => UNCHANGED snapshot
        /\ ~Rename => UNCHANGED file
    BY <1>1 DEF Start, BeginUpdate, BeginVacuum, BeginOperation, EvaluateWhere,
                EndOperations, updateAugmentedMetadata, BeginWrite, Rename,
                DiskFault, Throw, Publish, live, vars
  <1> QED BY <1>1, <1>2, ViewUnchanged

-----------------------------------------------------------------------------
\* A version of the located triples has the content of the snapshot that
\* bears its number; a call has a new number once it is complete.
VersionInv ==
    /\ snapshot.index <= index
    /\ index = snapshot.index /\ pc \notin {"deleteInternal", "insertInternal"}
         => \A k \in Kind : LiveView(k) = SnapshotView(k)

\* At the start both are the static index.
LEMMA InitVersionInv == Init => VersionInv
  <1> SUFFICES ASSUME Init PROVE VersionInv
    OBVIOUS
  <1>1. \A k \in Kind : LiveView(k) = BaseOf(k) /\ SnapshotView(k) = BaseOf(k)
    BY EmptyView, EmptySnapshotView DEF Init
  <1>2. snapshot.index = 0 /\ index = 0
    BY DEF Init, EmptySnapshot
  <1> QED BY <1>1, <1>2 DEF VersionInv

\* Every step but DeltaTriples::clear, which leaves index_ alone, keeps it.
LEMMA NextVersionInv ==
    ASSUME "cancelUpdate" \notin Faults, "clear" \notin Commands,
           IInv, Steady, VersionInv, [Next]_vars
    PROVE  VersionInv'
  <1>0. Core /\ Exact /\ index \in Nat /\ snapshot.index \in Nat
    BY IInvParts DEF Steady, RestOK
  <1>1. CASE Crash
    <2>1. \A k \in Kind : LiveView(k)' = BaseOf(k) /\ SnapshotView(k)' = BaseOf(k)
      BY <1>1, EmptyViewPrime, EmptySnapshotView DEF Crash
    <2>2. snapshot'.index = 0 /\ index' = 0
      BY <1>1 DEF Crash, EmptySnapshot
    <2> QED BY <2>1, <2>2 DEF VersionInv
  <1>2. ASSUME UNCHANGED snapshot
        PROVE  \A k \in Kind : SnapshotView(k)' = SnapshotView(k)
    BY <1>2 DEF SnapshotView, View
  <1>3. CASE DeleteNormal \/ InsertNormal
    BY <1>0, <1>3, ModifySteps DEF VersionInv
  <1>4. CASE DeleteInternal \/ InsertInternal
    BY <1>0, <1>4, ModifySteps DEF VersionInv
  <1>5. CASE VacuumNormal \/ VacuumInternal
    BY <1>0, <1>2, <1>5, VacuumSteps DEF VersionInv
  <1>6. CASE Publish
    <2>1. \A k \in Kind : SnapshotView(k)' = LiveView(k)'
      BY <1>0, <1>6, PublishView
    <2>2. snapshot'.index = index'
      BY <1>6 DEF Publish, live
    <2>3. index' \in Nat
      BY <1>0, <1>6 DEF Publish, live
    <2> QED BY <2>1, <2>2, <2>3 DEF VersionInv
  <1>7. CASE /\ ~(Crash \/ Clear \/ CancelOperation)
             /\ ~(DeleteNormal \/ DeleteInternal \/ InsertNormal \/ InsertInternal)
             /\ ~(VacuumNormal \/ VacuumInternal) /\ ~Publish
    <2>1. /\ \A k \in Kind : LiveView(k)' = LiveView(k)
          /\ UNCHANGED <<index, snapshot>>
      BY <1>7, OtherSteps
    <2>2. pc \in {"deleteInternal", "insertInternal"}
            => pc' \in {"deleteInternal", "insertInternal"}
      BY <1>7, OtherSteps
         DEF Start, BeginUpdate, BeginVacuum, Idle, BeginOperation, EvaluateWhere,
             EndOperations, updateAugmentedMetadata, BeginWrite, Rename,
             DiskFault, vars
    <2> QED BY <1>2, <2>1, <2>2 DEF VersionInv
  <1> QED BY <1>1, <1>3, <1>4, <1>5, <1>6, <1>7 DEF Clear, CancelOperation

\* Without timeouts and without clear, index_ identifies the content of a
\* snapshot: it never decreases and a snapshot with the same one is the same.
THEOREM SameIndexSameContent ==
    ASSUME "cancelUpdate" \notin Faults, "clear" \notin Commands
    PROVE  Spec => IndexIdentifiesContent
  <1> DEFINE A == (snapshot' # snapshot /\ pc' # "down" /\ mode # "restore") =>
                    /\ snapshot'.index >= snapshot.index
                    /\ snapshot'.index = snapshot.index =>
                         \A k \in Kind : SnapshotView(k)' = SnapshotView(k)
  <1>1. ASSUME IInv, Steady, VersionInv, [Next]_vars
        PROVE  [A]_vars
    <2>0. Core /\ Exact /\ index \in Nat /\ snapshot.index \in Nat
      BY <1>1, IInvParts DEF Steady, RestOK
    <2>1. CASE Publish
      <3>1. snapshot'.index = index /\ pc = "publish"
        BY <2>1 DEF Publish
      <3>2. \A k \in Kind : SnapshotView(k)' = LiveView(k)
        BY <2>0, <2>1, PublishView
      <3> QED BY <1>1, <2>0, <3>1, <3>2 DEF VersionInv
    <2>2. CASE Crash \/ Clear \/ CancelOperation
      BY <2>2 DEF Crash, Clear, CancelOperation
    <2>3. CASE \/ DeleteNormal \/ DeleteInternal \/ InsertNormal \/ InsertInternal
      BY <2>0, <2>3, ModifySteps
    <2>4. CASE VacuumNormal \/ VacuumInternal
      BY <2>0, <2>4, VacuumSteps
    <2> QED BY <1>1, <2>1, <2>2, <2>3, <2>4, OtherSteps
  <1>2. IInv /\ Steady /\ VersionInv /\ [Next]_vars => [A]_vars
    BY <1>1
  <1>3. IInv /\ Steady /\ VersionInv /\ [Next]_vars => VersionInv'
    BY NextVersionInv
  <1>4. IInv /\ Steady /\ [Next]_vars => Steady'
    BY NextSteady
  <1>5. Spec => [](IInv /\ Steady /\ VersionInv)
    BY <1>3, <1>4, InitSteady, InitVersionInv, IInvAlways, PTL DEF Spec
  <1>6. Spec => [][A]_vars
    BY <1>2, <1>5, PTL DEF Spec
  <1> QED BY <1>6 DEF IndexIdentifiesContent

-----------------------------------------------------------------------------
\* The quad and its copy are visible together in the live state.
CopyExact(t) ==
    t \in LiveView("normal") <=> LangPredicate(t) \in LiveView("internal")

\* The object of the quad has its tag in some graph.
ObjectTagged(t) ==
    \E u \in LangTagged :
        Object[u] = Object[t] /\ LangTag(u) \in LiveView("internal")

\* Both hold except for the call that has not reached the internal triples yet.
LangInv ==
    /\ \A t \in LangTagged :
          Subject[t] \notin Node =>
            CASE pc = "deleteInternal" /\ t \in op.del -> t \notin LiveView("normal")
              [] pc = "insertInternal" /\ t \in op.ins -> t \in LiveView("normal")
              [] OTHER -> CopyExact(t)
    /\ \A t \in LangTagged :
          t \in LiveView("normal") =>
            \/ ObjectTagged(t)
            \/ /\ pc = "insertInternal"
               /\ \E u \in op.ins : u \in LangTagged /\ Object[u] = Object[t]

\* A set of positions has a first one.
LEMMA FirstExists ==
    ASSUME NEW T, T \subseteq Nat, T # {}
    PROVE  \E u \in T : \A v \in T : u <= v
  <1>1. PICK u \in T : \A v \in T : <<v, u>> \notin OpToRel(<, Nat)
    BY NatLessThanWellFounded, WFMin, Zenon
  <1>2. \A v \in T : ~(v < u)
    BY <1>1, Zenon DEF OpToRel
  <1> QED BY <1>2

\* insertTriples makes the copies of its language-tagged quads and a tag of
\* each of their objects.
LEMMA InsertedInternals ==
    ASSUME NEW S \in SUBSET Triple, NEW t \in LangTagged
    PROVE  /\ LangPredicate(t) \in makeInternalTriples(S, "insert") <=> t \in S
           /\ t \in S =>
                \E u \in LangTagged :
                   /\ Object[u] = Object[t]
                   /\ LangTag(u) \in makeInternalTriples(S, "insert")
  <1>1. LangPredicate(t) \in makeInternalTriples(S, "insert") <=> t \in S
    BY InternalsDistinct DEF makeInternalTriples
  <1>2. ASSUME t \in S
        PROVE  \E u \in LangTagged :
                  /\ Object[u] = Object[t]
                  /\ LangTag(u) \in makeInternalTriples(S, "insert")
    <2> DEFINE T == {u \in S \cap LangTagged : Object[u] = Object[t]}
    <2>1. T \subseteq Nat /\ T # {}
      BY <1>2, TripleAssumption
    <2>2. PICK u \in T : \A v \in T : u <= v
      BY <2>1, FirstExists
    <2>3. /\ u \in S \cap LangTagged /\ Object[u] = Object[t]
          /\ \A v \in S \cap LangTagged : Object[v] = Object[u] => u <= v
      BY <2>2
    <2>4. LangTag(u) \in makeInternalTriples(S, "insert")
      BY <2>3 DEF makeInternalTriples
    <2> QED BY <2>3, <2>4
  <1> QED BY <1>1, <1>2

\* deleteTriples deletes the copies of its quads and no tag.
LEMMA DeletedInternals ==
    ASSUME NEW S, NEW t \in LangTagged
    PROVE  /\ LangPredicate(t) \in makeInternalTriples(S, "delete") <=> t \in S
           /\ LangTag(t) \notin makeInternalTriples(S, "delete")
  BY InternalsDistinct DEF makeInternalTriples

\* The static index answers language filters.
LEMMA BaseAnswers ==
    ASSUME NEW t \in LangTagged
    PROVE  /\ t \in BaseOf("normal") <=> LangPredicate(t) \in BaseOf("internal")
           /\ t \in BaseOf("normal") => LangTag(t) \in BaseOf("internal")
  BY InternalsDistinct DEF BaseOf, InternalBase, InternalsOf

\* The inductive invariant behind the completeness of the language filters.
LInv == LangInv /\ LanguageFilterComplete

\* At the start both are the static index, which answers the filters.
LEMMA InitLInv == Init => LInv
  <1> SUFFICES ASSUME Init PROVE LInv
    OBVIOUS
  <1>1. /\ LiveView("normal") = BaseOf("normal")
        /\ LiveView("internal") = BaseOf("internal")
        /\ SnapshotView("normal") = BaseOf("normal")
        /\ SnapshotView("internal") = BaseOf("internal")
    BY EmptyView, EmptySnapshotView DEF Init, Kind
  <1>2. pc = "down"
    BY DEF Init
  <1> QED BY <1>1, <1>2, BaseAnswers DEF LInv, LangInv, CopyExact, ObjectTagged,
                                         LanguageFilterComplete

\* Deleting and inserting normal triples.
LEMMA LangNormal ==
    ASSUME "cancelUpdate" \notin Faults, Core, Exact, LangInv,
           op.del \in SUBSET Triple, op.ins \in SUBSET Triple,
           DeleteNormal \/ InsertNormal
    PROVE  LangInv'
  <1>1. CASE DeleteNormal
    <2>1. PICK T \in rewriteLocalVocabEntriesAndBlankNodes("normal", op.del) :
             LiveView("normal")' = LiveView("normal") \ T
      BY <1>1, ModifySteps
    <2>2. /\ pc = "deleteNormal" /\ pc' = "deleteInternal" /\ op' = op
          /\ LiveView("internal")' = LiveView("internal")
      BY <1>1, ModifySteps
    <2>3. \A t : Subject[t] \notin Node => (t \in T <=> t \in op.del)
      BY RewriteNormal
    <2> QED BY <2>1, <2>2, <2>3 DEF LangInv, CopyExact, ObjectTagged
  <1>2. CASE InsertNormal
    <2>1. PICK T \in rewriteLocalVocabEntriesAndBlankNodes("normal", op.ins) :
             LiveView("normal")' = LiveView("normal") \cup T
      BY <1>2, ModifySteps
    <2>2. /\ pc = "insertNormal" /\ pc' = "insertInternal" /\ op' = op
          /\ LiveView("internal")' = LiveView("internal")
      BY <1>2, ModifySteps
    <2>3. /\ \A t : Subject[t] \notin Node => (t \in T <=> t \in op.ins)
          /\ \A t \in T : \E u \in op.ins :
                Object[u] = Object[t] /\ (u \in LangTagged <=> t \in LangTagged)
      BY RewriteNormal
    <2> QED BY <2>1, <2>2, <2>3 DEF LangInv, CopyExact, ObjectTagged
  <1> QED BY <1>1, <1>2

\* Deleting and inserting internal triples.
LEMMA LangInternal ==
    ASSUME "cancelUpdate" \notin Faults, Core, Exact, LangInv,
           op.del \in SUBSET Triple, op.ins \in SUBSET Triple,
           DeleteInternal \/ InsertInternal
    PROVE  LangInv'
  <1>1. CASE DeleteInternal
    <2> DEFINE I == makeInternalTriples(op.del, "delete")
    <2>0. I \in SUBSET TriplesOf("internal")
      BY InternalTriplesType
    <2>1. PICK T \in rewriteLocalVocabEntriesAndBlankNodes("internal", I) :
             LiveView("internal")' = LiveView("internal") \ T
      BY <1>1, ModifySteps
    <2>2. /\ pc = "deleteInternal" /\ pc' \in {"metadata", "insertNormal", "operation"}
          /\ LiveView("normal")' = LiveView("normal")
      BY <1>1, ModifySteps
    <2>3. \A t \in LangTagged :
             /\ Subject[t] \notin Node => (LangPredicate(t) \in T <=> t \in op.del)
             /\ LangTag(t) \notin T
      <3> HIDE DEF I
      <3>1. \A t \in LangTagged :
               /\ Subject[t] \notin Node =>
                    (LangPredicate(t) \in T <=> LangPredicate(t) \in I)
               /\ LangTag(t) \in T <=> LangTag(t) \in I
        BY <2>0, RewriteInternal
      <3> QED BY <3>1, DeletedInternals DEF I
    <2>4. ASSUME NEW t \in LangTagged PROVE ObjectTagged(t) => ObjectTagged(t)'
      BY <2>1, <2>3 DEF ObjectTagged
    <2>5. ASSUME NEW t \in LangTagged, Subject[t] \notin Node PROVE CopyExact(t)'
      BY <2>1, <2>2, <2>3, <2>5 DEF LangInv, CopyExact
    <2> QED BY <2>2, <2>4, <2>5 DEF LangInv
  <1>2. CASE InsertInternal
    <2> DEFINE I == makeInternalTriples(op.ins, "insert")
    <2>0. I \in SUBSET TriplesOf("internal")
      BY InternalTriplesType
    <2>1. PICK T \in rewriteLocalVocabEntriesAndBlankNodes("internal", I) :
             LiveView("internal")' = LiveView("internal") \cup T
      BY <1>2, ModifySteps
    <2>2. /\ pc = "insertInternal" /\ pc' \in {"deleteNormal", "operation"}
          /\ LiveView("normal")' = LiveView("normal")
      BY <1>2, ModifySteps
    <2>3. \A t \in LangTagged :
             /\ Subject[t] \notin Node => (LangPredicate(t) \in T <=> t \in op.ins)
             /\ t \in op.ins =>
                  \E u \in LangTagged : Object[u] = Object[t] /\ LangTag(u) \in T
      <3> HIDE DEF I
      <3>1. \A t \in LangTagged :
               /\ Subject[t] \notin Node =>
                    (LangPredicate(t) \in T <=> LangPredicate(t) \in I)
               /\ LangTag(t) \in T <=> LangTag(t) \in I
        BY <2>0, RewriteInternal
      <3>2. \A t \in LangTagged :
               /\ LangPredicate(t) \in I <=> t \in op.ins
               /\ t \in op.ins =>
                    \E u \in LangTagged : Object[u] = Object[t] /\ LangTag(u) \in I
        BY InsertedInternals DEF I
      <3> QED BY <3>1, <3>2
    <2>4. ASSUME NEW t \in LangTagged, t \in LiveView("normal")
          PROVE  ObjectTagged(t)'
      <3>1. CASE ObjectTagged(t)
        BY <2>1, <3>1 DEF ObjectTagged
      <3>2. CASE \E u \in op.ins : u \in LangTagged /\ Object[u] = Object[t]
        <4>1. PICK u \in LangTagged : u \in op.ins /\ Object[u] = Object[t]
          BY <3>2
        <4>2. PICK v \in LangTagged : Object[v] = Object[u] /\ LangTag(v) \in T
          BY <4>1, <2>3
        <4> QED BY <2>1, <4>1, <4>2 DEF ObjectTagged
      <3> QED BY <2>4, <3>1, <3>2 DEF LangInv
    <2>5. ASSUME NEW t \in LangTagged, Subject[t] \notin Node PROVE CopyExact(t)'
      BY <2>1, <2>2, <2>3, <2>5 DEF LangInv, CopyExact
    <2> QED BY <2>2, <2>4, <2>5 DEF LangInv
  <1> QED BY <1>1, <1>2

\* Every step keeps the internal triples in accordance with the quads.
LEMMA NextLInv ==
    ASSUME "cancelUpdate" \notin Faults, IInv, Steady, LInv, [Next]_vars
    PROVE  LInv'
  <1>0. /\ Core /\ Exact /\ op.del \in SUBSET Triple /\ op.ins \in SUBSET Triple
        /\ "normal" \in Kind /\ "internal" \in Kind /\ LangInv
    BY IInvParts DEF Steady, RestOK, Kind, LInv
  <1>1. ASSUME \/ Crash \/ Clear PROVE LangInv'
    <2>1. /\ LiveView("normal")' = BaseOf("normal")
          /\ LiveView("internal")' = BaseOf("internal")
          /\ pc' \in {"down", "metadata"}
      BY <1>0, <1>1, EmptyViewPrime DEF Crash, Clear
    <2> QED BY <2>1, BaseAnswers DEF LangInv, CopyExact, ObjectTagged
  <1>2. ASSUME UNCHANGED snapshot PROVE LanguageFilterComplete'
    BY <1>2 DEF LInv, LanguageFilterComplete, SnapshotView, View
  <1>3. CASE Crash
    <2>1. /\ SnapshotView("normal")' = BaseOf("normal")
          /\ SnapshotView("internal")' = BaseOf("internal")
      BY <1>0, <1>3, EmptySnapshotView DEF Crash
    <2> QED BY <1>1, <1>3, <2>1, BaseAnswers DEF LInv, LanguageFilterComplete
  <1>4. CASE Clear
    BY <1>1, <1>2, <1>4 DEF Clear, LInv
  <1>5. CASE DeleteNormal \/ InsertNormal
    <2>1. UNCHANGED snapshot
      BY <1>0, <1>5, ModifySteps
    <2> QED BY <1>0, <1>2, <1>5, <2>1, LangNormal DEF LInv
  <1>6. CASE DeleteInternal \/ InsertInternal
    <2>1. UNCHANGED snapshot
      BY <1>0, <1>6, ModifySteps
    <2> QED BY <1>0, <1>2, <1>6, <2>1, LangInternal DEF LInv
  <1>7. CASE VacuumNormal \/ VacuumInternal
    BY <1>0, <1>2, <1>7, VacuumSteps DEF LInv, LangInv, CopyExact, ObjectTagged
  <1>8. CASE Publish
    <2>1. /\ SnapshotView("normal")' = LiveView("normal")
          /\ SnapshotView("internal")' = LiveView("internal")
          /\ LiveView("normal")' = LiveView("normal")
          /\ LiveView("internal")' = LiveView("internal")
      BY <1>0, <1>8, PublishView
    <2>2. pc = "publish" /\ pc' = "idle"
      BY <1>8 DEF Publish
    <2>3. \A t \in LangTagged :
            /\ Subject[t] \notin Node => CopyExact(t)
            /\ t \in LiveView("normal") => ObjectTagged(t)
      BY <1>0, <2>2 DEF LangInv
    <2> QED BY <2>1, <2>2, <2>3
            DEF LInv, LangInv, CopyExact, ObjectTagged, LanguageFilterComplete
  <1>9. CASE /\ ~(Crash \/ Clear \/ CancelOperation)
             /\ ~(DeleteNormal \/ DeleteInternal \/ InsertNormal \/ InsertInternal)
             /\ ~(VacuumNormal \/ VacuumInternal) /\ ~Publish
    <2>1. /\ LiveView("normal")' = LiveView("normal")
          /\ LiveView("internal")' = LiveView("internal")
          /\ UNCHANGED snapshot
      BY <1>0, <1>9, OtherSteps
    <2>2. \/ UNCHANGED <<pc, op>>
          \/ /\ pc \notin {"deleteInternal", "insertInternal"}
             /\ pc' \notin {"deleteInternal", "insertInternal"}
      BY <1>9, OtherSteps
         DEF Start, readFromDisk, BeginUpdate, BeginVacuum, Idle, BeginOperation,
             EvaluateWhere, FirstPhase, EndOperations, updateAugmentedMetadata,
             BeginWrite, Rename, DiskFault, Throw, vars
    <2> QED BY <1>2, <2>1, <2>2 DEF LInv, LangInv, CopyExact, ObjectTagged
  <1> QED BY <1>3, <1>4, <1>5, <1>6, <1>7, <1>8, <1>9 DEF CancelOperation

\* Without timeouts, and for every assignment of objects and graphs to quads,
\* a language-tagged quad without a local blank node is in a snapshot exactly if
\* its copy is, and the object of every language-tagged quad of a snapshot has
\* its tag, also after failed writes, interrupted vacuums, crashes and restarts.
THEOREM LanguageFiltersComplete ==
    ASSUME "cancelUpdate" \notin Faults
    PROVE  Spec => []LanguageFilterComplete
  <1>1. IInv /\ Steady /\ LInv /\ [Next]_vars => LInv'
    BY NextLInv
  <1>2. IInv /\ Steady /\ [Next]_vars => Steady'
    BY NextSteady
  <1>3. Spec => []LInv
    BY <1>1, <1>2, InitSteady, InitLInv, IInvAlways, PTL DEF Spec
  <1>4. LInv => LanguageFilterComplete
    BY DEF LInv
  <1> QED BY <1>3, <1>4, PTL

-----------------------------------------------------------------------------
\* The blank nodes of the file.
FileNodes == NodesIn(file.inserted \cup file.deleted)

\* The insertions of the file are part of the live state, under new blank nodes.
InsertionsRestored ==
    /\ \A t : Subject[t] \notin Node =>
          (t \in LiveView("normal") <=> t \in Base \cup file.inserted)
    /\ \A t \in LiveView("normal") :
          t \in Base \/ \E u \in file.inserted : UpToNode(u) = UpToNode(t)
    /\ \A u \in file.inserted :
          \E t \in LiveView("normal") : UpToNode(t) = UpToNode(u)
    /\ OwnedNodes \cap FileNodes = {}

\* What restoring the updates has achieved, and how the file, the live state
\* and the snapshot are related at other times.
FileInv ==
    /\ file.inserted \cap file.deleted = {}
    /\ file.state = "absent" => file.inserted = {} /\ file.deleted = {}
    /\ pc = "down" => LiveView("normal") = Base /\ OwnedNodes = {}
    /\ mode = "restore" /\ pc \in Modifying =>
         op = [del |-> file.deleted, ins |-> file.inserted]
    /\ mode = "restore" =>
         CASE pc = "insertNormal" -> LiveView("normal") = Base /\ OwnedNodes = {}
           [] pc \in {"insertInternal", "deleteNormal"} -> InsertionsRestored
           [] OTHER -> UpToNodes(LiveView("normal")) = Saved
    /\ mode # "restore" /\ pc = "publish" => UpToNodes(LiveView("normal")) = Saved
    /\ mode # "restore" /\ pc \notin {"down", "publish"} =>
         UpToNodes(SnapshotView("normal")) = Saved

\* Two sets of quads are the same up to blank nodes if each quad of one has its
\* like in the other.
LEMMA SameUpToNodes ==
    ASSUME NEW S, NEW T,
           \A t \in S : \E u \in T : UpToNode(u) = UpToNode(t),
           \A u \in T : \E t \in S : UpToNode(t) = UpToNode(u)
    PROVE  UpToNodes(S) = UpToNodes(T)
  <1>1. ASSUME NEW x \in UpToNodes(S) PROVE x \in UpToNodes(T)
    BY <1>1 DEF UpToNodes
  <1>2. ASSUME NEW x \in UpToNodes(T) PROVE x \in UpToNodes(S)
    BY <1>2 DEF UpToNodes
  <1> QED BY <1>1, <1>2

\* No located triples, no blank nodes of localVocab_.
LEMMA NothingOwned ==
    /\ located = EmptySnapshot.located => OwnedNodes = {}
    /\ (located = EmptySnapshot.located)' => OwnedNodes' = {}
  <1>1. ASSUME NEW k PROVE NodesOf(k, {}) = {}
    BY DEF NodesOf, NodesIn, CopiedIn
  <1>2. ASSUME located = EmptySnapshot.located PROVE OwnedNodes = {}
    <2>1. \A s \in Permutations : {x[1] : x \in located[s]} = {}
      BY <1>2 DEF EmptySnapshot
    <2> QED BY <1>1, <2>1 DEF OwnedNodes
  <1>3. ASSUME (located = EmptySnapshot.located)' PROVE OwnedNodes' = {}
    <2>1. \A s \in Permutations : {x[1] : x \in located'[s]} = {}
      BY <1>3 DEF EmptySnapshot
    <2> QED BY <1>1, <2>1 DEF OwnedNodes
  <1> QED BY <1>2, <1>3

\* The visible quads with a local blank node were inserted: it is owned.
LEMMA LiveNodesOwned ==
    ASSUME Core, Exact, NEW t \in LiveView("normal"), Subject[t] \in Node
    PROVE  Subject[t] \in OwnedNodes
  <1>0. PSO("normal") \in Permutations /\ PSO("normal")[1] = "normal"
    BY PsoExists DEF Kind, PSO
  <1>1. t \notin Base
    BY NodeAssumption DEF NodesIn
  <1>2. t \in inserted["normal"]
    BY <1>1 DEF LiveView, BaseOf
  <1>3. <<t, "insert">> \in located[PSO("normal")]
    BY <1>0, <1>2 DEF Exact, Handles, Located
  <1>4. t \in {x[1] : x \in located[PSO("normal")]}
    BY <1>3
  <1>5. Subject[t] \in NodesOf("normal", {x[1] : x \in located[PSO("normal")]})
    BY <1>4 DEF NodesOf, NodesIn
  <1> QED BY <1>0, <1>5 DEF OwnedNodes

\* A call adds no other blank nodes than those of its triples.
LEMMA ModifyOwned ==
    ASSUME NEW k \in Kind, NEW flag, NEW T, modifyTriplesImpl(k, flag, T)
    PROVE  OwnedNodes' \subseteq OwnedNodes \cup NodesOf(k, T)
  <1> SUFFICES ASSUME NEW n \in OwnedNodes' PROVE n \in OwnedNodes \cup NodesOf(k, T)
    OBVIOUS
  <1>1. PICK s \in Permutations : n \in NodesOf(s[1], {x[1] : x \in located'[s]})
    BY DEF OwnedNodes
  <1>2. s[2] \in 1 .. NumPermutations[s[1]]
    BY PermutationPair
  <1>3. located'[s] \subseteq
          located[s] \cup (IF s[1] = k THEN Located(T, flag) ELSE {})
    BY <1>2 DEF modifyTriplesImpl, Relocate, Fresh, Located
  <1>4. {x[1] : x \in located'[s]} \subseteq
          {x[1] : x \in located[s]} \cup (IF s[1] = k THEN T ELSE {})
    BY <1>3 DEF Located
  <1>5. \/ n \in NodesOf(s[1], {x[1] : x \in located[s]})
        \/ s[1] = k /\ n \in NodesOf(k, T)
    BY <1>1, <1>4 DEF NodesOf, NodesIn, CopiedIn
  <1> QED BY <1>5 DEF OwnedNodes

\* At the start nothing has been written.
LEMMA InitFileInv == Init => FileInv
  <1> SUFFICES ASSUME Init PROVE FileInv
    OBVIOUS
  <1>1. LiveView("normal") = Base
    BY EmptyView DEF Init, Kind, BaseOf
  <1>2. OwnedNodes = {}
    BY NothingOwned DEF Init
  <1> QED BY <1>1, <1>2 DEF Init, FileInv, NoFile, Modifying

\* Restoring the insertions.
LEMMA RestoreInserted ==
    ASSUME NEW T \in rewriteLocalVocabEntriesAndBlankNodes("normal", file.inserted),
           file \in FileType, modifyTriplesImpl("normal", "insert", T), UNCHANGED file,
           LiveView("normal") = Base, OwnedNodes = {},
           LiveView("normal")' = Base \cup T
    PROVE  InsertionsRestored'
  <1>1. /\ \A t : Subject[t] \notin Node => (t \in T <=> t \in file.inserted)
        /\ \A t \in T : \E u \in file.inserted : UpToNode(u) = UpToNode(t)
        /\ \A u \in file.inserted : \E t \in T : UpToNode(t) = UpToNode(u)
        /\ NodesIn(T) \cap UsedNodes = {}
    <2>1. file.inserted \in SUBSET Triple /\ NodesIn(file.inserted) \cap OwnedNodes = {}
      BY DEF FileType
    <2> QED BY <2>1, RewriteNormal
  <1>2. OwnedNodes' \subseteq NodesIn(T)
    BY ModifyOwned DEF Kind, NodesOf
  <1>3. FileNodes \subseteq UsedNodes /\ FileNodes' = FileNodes
    BY DEF FileNodes, UsedNodes
  <1>4. OwnedNodes' \cap FileNodes' = {}
    BY <1>1, <1>2, <1>3
  <1> QED BY <1>1, <1>4 DEF InsertionsRestored

\* Restoring their internal triples.
LEMMA RestoreInternals ==
    ASSUME NEW T \in rewriteLocalVocabEntriesAndBlankNodes(
                        "internal", makeInternalTriples(file.inserted, "insert")),
           file \in FileType, modifyTriplesImpl("internal", "insert", T),
           UNCHANGED file, InsertionsRestored,
           LiveView("normal")' = LiveView("normal")
    PROVE  InsertionsRestored'
  <1> DEFINE I == makeInternalTriples(file.inserted, "insert")
  <1>0. file.inserted \in SUBSET Triple
    BY DEF FileType
  <1>1. I \in SUBSET TriplesOf("internal")
    BY <1>0, InternalTriplesType
  <1>2. CopiedIn(I) \subseteq file.inserted
    BY <1>0, InsertedInternals DEF CopiedIn
  <1>3. NodesIn(CopiedIn(I)) \cap OwnedNodes = {}
    BY <1>2 DEF InsertionsRestored, FileNodes, NodesIn
  <1>4. NodesIn(CopiedIn(T)) \cap UsedNodes = {}
    <2> HIDE DEF I
    <2>1. T \in rewriteLocalVocabEntriesAndBlankNodes("internal", I)
      BY DEF I
    <2> QED BY <1>1, <1>3, <2>1, RewriteInternal
  <1>5. OwnedNodes' \subseteq OwnedNodes \cup NodesIn(CopiedIn(T))
    BY ModifyOwned DEF Kind, NodesOf
  <1>6. FileNodes \subseteq UsedNodes /\ FileNodes' = FileNodes
    BY DEF FileNodes, UsedNodes
  <1>7. OwnedNodes' \cap FileNodes' = {}
    BY <1>4, <1>5, <1>6 DEF InsertionsRestored
  <1> QED BY <1>7 DEF InsertionsRestored

\* Restoring the deletions: they spare all quads that have been inserted.
LEMMA RestoreDeleted ==
    ASSUME NEW T \in rewriteLocalVocabEntriesAndBlankNodes("normal", file.deleted),
           Core, Exact, file \in FileType, InsertionsRestored,
           file.inserted \cap file.deleted = {}
    PROVE  UpToNodes(LiveView("normal") \ T) = Saved
  <1>1. /\ \A t : Subject[t] \notin Node => (t \in T <=> t \in file.deleted)
        /\ NodesIn(T) \cap UsedNodes = {}
    <2>1. file.deleted \in SUBSET Triple /\ NodesIn(file.deleted) \cap OwnedNodes = {}
      BY DEF FileType, InsertionsRestored, FileNodes, NodesIn
    <2> QED BY <2>1, RewriteNormal
  <1>2. \A t \in Base : Subject[t] \notin Node
    BY NodeAssumption DEF NodesIn
  <1>3. ASSUME NEW t \in LiveView("normal"), Subject[t] \in Node PROVE t \notin T
    BY <1>1, <1>3, LiveNodesOwned DEF NodesIn, UsedNodes
  <1>5. ASSUME NEW t \in LiveView("normal") \ T
        PROVE  \E u \in FileView : UpToNode(u) = UpToNode(t)
    <2>1. CASE t \in Base
      <3>1. t \notin file.deleted
        BY <1>1, <1>2, <1>5, <2>1
      <3> QED BY <2>1, <3>1 DEF FileView
    <2>2. CASE t \notin Base
      BY <1>5, <2>2 DEF InsertionsRestored, FileView
    <2> QED BY <2>1, <2>2
  <1>6. ASSUME NEW u \in FileView
        PROVE  \E t \in LiveView("normal") \ T : UpToNode(t) = UpToNode(u)
    <2>1. CASE Subject[u] \notin Node
      <3>1. u \notin T
        BY <1>1, <1>6, <2>1 DEF FileView
      <3>2. u \in LiveView("normal")
        BY <1>6, <2>1 DEF FileView, InsertionsRestored
      <3> QED BY <3>1, <3>2
    <2>2. CASE Subject[u] \in Node
      <3>1. u \in file.inserted
        BY <1>2, <1>6, <2>2 DEF FileView
      <3>2. PICK t \in LiveView("normal") : UpToNode(t) = UpToNode(u)
        BY <3>1 DEF InsertionsRestored
      <3>3. CASE Subject[t] \in Node
        BY <1>3, <3>2, <3>3
      <3>4. CASE Subject[t] \notin Node
        <4>1. u \in Triple /\ WithSubject[u][Subject[u]] \in UpToNode(u)
          BY <2>2, <3>1 DEF UpToNode, FileType
        <4>2. UpToNode(t) = {t}
          BY <3>4 DEF UpToNode
        <4>3. Subject[t] = Subject[u]
          BY <2>2, <3>2, <4>1, <4>2, WithSubjectType
        <4> QED BY <2>2, <3>4, <4>3
      <3> QED BY <3>3, <3>4
    <2> QED BY <2>1, <2>2
  <1> QED BY <1>5, <1>6, SameUpToNodes DEF Saved

\* Every step keeps the file in accordance with the rest of the state.
LEMMA NextFileInv ==
    ASSUME "cancelUpdate" \notin Faults, Persist = TRUE,
           IInv, Steady, Phases, FileInv, [Next]_vars
    PROVE  FileInv'
  <1>0. Core /\ Exact /\ "normal" \in Kind /\ file \in FileType
    BY IInvParts DEF Steady, RestOK, Kind
  <1>1. ASSUME UNCHANGED snapshot
        PROVE  SnapshotView("normal")' = SnapshotView("normal")
    BY <1>1 DEF SnapshotView, View
  <1>2. ASSUME UNCHANGED file PROVE Saved' = Saved
    BY <1>2 DEF FileView, Saved
  <1>3. CASE Crash
    <2>1. LiveView("normal")' = Base
      BY <1>0, <1>3, EmptyViewPrime DEF Crash, BaseOf
    <2>2. OwnedNodes' = {}
      BY <1>3, NothingOwned DEF Crash
    <2> QED BY <1>3, <2>1, <2>2 DEF Crash, FileInv
  <1>4. CASE Clear
    <2>1. /\ SnapshotView("normal")' = SnapshotView("normal") /\ Saved' = Saved
      BY <1>1, <1>2, <1>4 DEF Clear
    <2>2. mode # "restore"
      BY <1>4 DEF Clear, Idle, Phases, Modifying
    <2> QED BY <1>4, <2>1, <2>2 DEF Clear, Idle, FileInv
  <1>5. CASE DeleteNormal
    <2>1. /\ SnapshotView("normal")' = SnapshotView("normal") /\ Saved' = Saved
      BY <1>0, <1>1, <1>2, <1>5, ModifySteps
    <2>2. PICK T \in rewriteLocalVocabEntriesAndBlankNodes("normal", op.del) :
             LiveView("normal")' = LiveView("normal") \ T
      BY <1>0, <1>5, ModifySteps
    <2>3. /\ pc = "deleteNormal" /\ pc' = "deleteInternal"
          /\ UNCHANGED <<file, mode, op>>
      BY <1>0, <1>5, ModifySteps
    <2>4. ASSUME mode = "restore" PROVE UpToNodes(LiveView("normal")') = Saved
      <3>1. op.del = file.deleted /\ InsertionsRestored
        BY <2>3, <2>4 DEF FileInv, Modifying
      <3>2. file.inserted \cap file.deleted = {}
        BY DEF FileInv
      <3> QED BY <1>0, <2>2, <3>1, <3>2, RestoreDeleted
    <2> QED BY <2>1, <2>3, <2>4 DEF FileInv, Modifying
  <1>6. CASE InsertNormal
    <2>1. /\ SnapshotView("normal")' = SnapshotView("normal") /\ Saved' = Saved
      BY <1>0, <1>1, <1>2, <1>6, ModifySteps
    <2>2. PICK T \in rewriteLocalVocabEntriesAndBlankNodes("normal", op.ins) :
             /\ modifyTriplesImpl("normal", "insert", T)
             /\ LiveView("normal")' = LiveView("normal") \cup T
      BY <1>0, <1>6, ModifySteps
    <2>3. /\ pc = "insertNormal" /\ pc' = "insertInternal"
          /\ UNCHANGED <<file, mode, op>>
      BY <1>0, <1>6, ModifySteps
    <2>4. ASSUME mode = "restore" PROVE InsertionsRestored'
      <3>1. op.ins = file.inserted /\ LiveView("normal") = Base /\ OwnedNodes = {}
        BY <2>3, <2>4 DEF FileInv, Modifying
      <3> QED BY <1>0, <2>2, <2>3, <3>1, RestoreInserted
    <2> QED BY <2>1, <2>3, <2>4 DEF FileInv, Modifying
  <1>7. CASE DeleteInternal
    <2>1. /\ SnapshotView("normal")' = SnapshotView("normal") /\ Saved' = Saved
      BY <1>0, <1>1, <1>2, <1>7, ModifySteps
    <2> QED BY <1>0, <1>7, <2>1, ModifySteps DEF FileInv, Modifying
  <1>8. CASE InsertInternal
    <2>1. /\ SnapshotView("normal")' = SnapshotView("normal") /\ Saved' = Saved
      BY <1>0, <1>1, <1>2, <1>8, ModifySteps
    <2>2. PICK T \in rewriteLocalVocabEntriesAndBlankNodes(
                        "internal", makeInternalTriples(op.ins, "insert")) :
             modifyTriplesImpl("internal", "insert", T)
      BY <1>0, <1>8, ModifySteps
    <2>3. /\ pc = "insertInternal" /\ UNCHANGED <<file, mode, op>>
          /\ LiveView("normal")' = LiveView("normal")
          /\ pc' = IF mode = "restore" THEN "deleteNormal" ELSE "operation"
      BY <1>0, <1>8, ModifySteps
    <2>4. ASSUME mode = "restore" PROVE InsertionsRestored'
      <3>1. op.ins = file.inserted /\ InsertionsRestored
        BY <2>3, <2>4 DEF FileInv, Modifying
      <3> QED BY <1>0, <2>2, <2>3, <3>1, RestoreInternals
    <2> QED BY <2>1, <2>3, <2>4 DEF FileInv, Modifying
  <1>9. CASE VacuumNormal \/ VacuumInternal
    <2>1. /\ SnapshotView("normal")' = SnapshotView("normal") /\ Saved' = Saved
      BY <1>0, <1>1, <1>2, <1>9, VacuumSteps
    <2>2. mode # "restore" /\ mode' # "restore"
      BY <1>0, <1>9, VacuumSteps DEF Phases, Modifying
    <2> QED BY <1>0, <1>9, <2>1, <2>2, VacuumSteps DEF FileInv
  <1>10. CASE Publish
    <2>1. SnapshotView("normal")' = LiveView("normal") /\ Saved' = Saved
      BY <1>0, <1>2, <1>10, PublishView DEF Publish
    <2>2. UpToNodes(LiveView("normal")) = Saved
      BY <1>10 DEF Publish, FileInv, Modifying
    <2> QED BY <1>10, <2>1, <2>2 DEF Publish, FileInv
  <1>11. CASE Rename
    <2>1. /\ LiveView("normal")' = LiveView("normal")
          /\ mode' = mode /\ mode # "restore" /\ pc' = "publish"
          /\ file' = [inserted |-> inserted["normal"],
                      deleted |-> deleted["normal"], state |-> "complete"]
      BY <1>11, ViewUnchanged, <1>0 DEF Rename, request, live, Phases, Modifying
    <2>2. Saved' = UpToNodes(LiveView("normal"))
      BY <2>1 DEF Saved, FileView, LiveView, BaseOf
    <2>3. inserted["normal"] \cap deleted["normal"] = {}
      BY <1>0, MapsDisjoint
    <2> QED BY <2>1, <2>2, <2>3 DEF FileInv
  <1>12. CASE Start
    <2>1. /\ LiveView("normal")' = Base /\ UNCHANGED file /\ mode' = "restore"
          /\ OwnedNodes' = {}
      <3>1. LiveView("normal") = Base /\ OwnedNodes = {} /\ UNCHANGED live
        BY <1>12 DEF Start, FileInv
      <3>2. UNCHANGED OwnedNodes
        BY <3>1 DEF OwnedNodes, live
      <3> QED BY <1>0, <1>12, <3>1, <3>2, ViewUnchanged DEF Start, live
    <2>2. CASE file.state = "absent"
      <3>1. pc' = "metadata" /\ Saved' = UpToNodes(Base)
        BY <1>12, <2>1, <2>2 DEF Start, readFromDisk, FileInv, FileView, Saved
      <3> QED BY <2>1, <3>1 DEF FileInv, Modifying
    <2>3. CASE file.state # "absent"
      <3>1. /\ pc' = "insertNormal"
            /\ op' = [del |-> file.deleted, ins |-> file.inserted]
        BY <1>12, <2>3 DEF Start, readFromDisk
      <3> QED BY <2>1, <2>3, <3>1 DEF FileInv, Modifying
    <2> QED BY <2>2, <2>3
  <1>13. CASE updateAugmentedMetadata
    <2>1. /\ SnapshotView("normal")' = SnapshotView("normal") /\ Saved' = Saved
          /\ LiveView("normal")' = LiveView("normal")
      BY <1>0, <1>1, <1>2, <1>13, ViewUnchanged DEF updateAugmentedMetadata
    <2> QED BY <1>13, <2>1 DEF updateAugmentedMetadata, request, FileInv, Modifying
  <1>14. CASE \/ BeginUpdate \/ BeginVacuum \/ BeginOperation \/ EvaluateWhere
              \/ EndOperations \/ BeginWrite \/ DiskFault
    <2>1. /\ SnapshotView("normal")' = SnapshotView("normal") /\ Saved' = Saved
          /\ UNCHANGED file
      BY <1>1, <1>2, <1>14
         DEF BeginUpdate, BeginVacuum, BeginOperation, EvaluateWhere,
             EndOperations, BeginWrite, DiskFault, Throw
    <2>2. /\ pc \in {"idle", "operation", "where", "write", "rename"}
          /\ pc' \notin {"down", "publish"} /\ mode' \in {mode, "none", "update", "vacuum"}
      BY <1>14
         DEF BeginUpdate, BeginVacuum, Idle, BeginOperation, EvaluateWhere,
             FirstPhase, EndOperations, BeginWrite, DiskFault, Throw, request
    <2>3. mode # "restore" /\ mode' # "restore"
      BY <2>2 DEF Phases, Modifying
    <2> QED BY <2>1, <2>2, <2>3 DEF FileInv
  <1>15. CASE UNCHANGED vars
    <2>1. /\ SnapshotView("normal")' = SnapshotView("normal") /\ Saved' = Saved
          /\ LiveView("normal")' = LiveView("normal")
      BY <1>0, <1>1, <1>2, <1>15, ViewUnchanged DEF vars
    <2>2. OwnedNodes' = OwnedNodes /\ FileNodes' = FileNodes
      BY <1>15 DEF vars, OwnedNodes, FileNodes
    <2>3. UNCHANGED <<pc, mode, op, file>>
      BY <1>15 DEF vars
    <2>4. InsertionsRestored' <=> InsertionsRestored
      BY <2>1, <2>2, <2>3 DEF InsertionsRestored
    <2> QED BY <2>1, <2>2, <2>3, <2>4 DEF FileInv
  <1> QED BY <1>3, <1>4, <1>5, <1>6, <1>7, <1>8, <1>9, <1>10, <1>11, <1>12, <1>13,
             <1>14, <1>15 DEF Next, CancelOperation

-----------------------------------------------------------------------------
(***************************************************************************)
(* With --persist-updates and without timeouts, the DeltaTriples implement *)
(* the abstract TripleStore: writing the file is Save, publishing or the   *)
(* end of the process is Show, and every other step a stutter.             *)
(***************************************************************************)
\* At the start the store holds the static index.
LEMMA InitStore == Init => Store!Init
  <1> SUFFICES ASSUME Init PROVE Store!Init
    OBVIOUS
  <1>1. Saved = UpToNodes(Base) /\ Visible = Saved
    BY DEF Init, FileView, Saved, Visible, NoFile
  <1> QED BY <1>1 DEF Store!Init

\* Every step is a step of the store or leaves what is saved and visible.
LEMMA NextStore ==
    ASSUME "cancelUpdate" \notin Faults, Persist = TRUE,
           IInv, Steady, Phases, FileInv, [Next]_vars
    PROVE  [Store!Next]_<<Saved, Visible>>
  <1>0. Core /\ Exact /\ "normal" \in Kind /\ file \in FileType
    BY IInvParts DEF Steady, RestOK, Kind
  <1>1. CASE Crash
    <2>1. Saved' = Saved /\ Visible' = Saved
      BY <1>1 DEF Crash, FileView, Saved, Visible
    <2> QED BY <2>1 DEF Store!Next, Store!Show
  <1>2. CASE Publish
    <2>1. SnapshotView("normal")' = LiveView("normal") /\ Saved' = Saved
      BY <1>0, <1>2, PublishView DEF Publish, FileView, Saved
    <2>2. UpToNodes(LiveView("normal")) = Saved
      BY <1>2 DEF Publish, FileInv, Modifying
    <2>3. Visible' = Saved
      BY <1>2, <2>1, <2>2 DEF Publish, Visible
    <2> QED BY <2>1, <2>3 DEF Store!Next, Store!Show
  <1>3. CASE Rename
    <2>1. /\ mode' = mode /\ mode # "restore" /\ pc = "rename" /\ pc' = "publish"
          /\ UNCHANGED snapshot
          /\ file' = [inserted |-> inserted["normal"],
                      deleted |-> deleted["normal"], state |-> "complete"]
      BY <1>3 DEF Rename, request, Phases, Modifying
    <2>2. Visible = Saved /\ Visible' = Visible
      BY <2>1 DEF Visible, FileInv, SnapshotView, View
    <2>f. FileView' \in SUBSET Triple
      BY <1>0, <2>1, TripleAssumption DEF FileView, Core, MapOK, TriplesOf
    <2>3. Saved' \in SUBSET UpToNodes(Triple)
      BY <2>f DEF Saved, UpToNodes
    <2> QED BY <2>2, <2>3 DEF Store!Next, Store!Save
  <1>4. ASSUME UNCHANGED <<snapshot, file>>,
               (pc = "down" \/ mode = "restore") <=> (pc' = "down" \/ mode' = "restore")
        PROVE  UNCHANGED <<Saved, Visible>>
    BY <1>4 DEF FileView, Saved, Visible, SnapshotView, View
  <1>5. CASE DeleteNormal \/ DeleteInternal \/ InsertNormal \/ InsertInternal
    BY <1>0, <1>4, <1>5, ModifySteps
  <1>6. CASE VacuumNormal \/ VacuumInternal
    <2>1. mode # "restore" /\ mode' # "restore"
      BY <1>0, <1>6, VacuumSteps DEF Phases, Modifying
    <2> QED BY <1>0, <1>4, <1>6, <2>1, VacuumSteps
  <1>7. CASE Clear
    <2>1. mode # "restore"
      BY <1>7 DEF Clear, Idle, Phases, Modifying
    <2> QED BY <1>4, <1>7, <2>1 DEF Clear, Idle
  <1>8. CASE /\ ~(Crash \/ Clear \/ CancelOperation)
             /\ ~(DeleteNormal \/ DeleteInternal \/ InsertNormal \/ InsertInternal)
             /\ ~(VacuumNormal \/ VacuumInternal) /\ ~Publish /\ ~Rename
    <2>1. UNCHANGED <<snapshot, file>>
      BY <1>8, OtherSteps
    <2>2. (pc = "down" \/ mode = "restore") <=> (pc' = "down" \/ mode' = "restore")
      BY <1>8, OtherSteps
         DEF Start, readFromDisk, BeginUpdate, BeginVacuum, Idle, BeginOperation,
             EvaluateWhere, FirstPhase, EndOperations, updateAugmentedMetadata,
             BeginWrite, DiskFault, Throw, request, vars, Phases, Modifying
    <2> QED BY <1>4, <2>1, <2>2
  <1> QED BY <1>1, <1>2, <1>3, <1>5, <1>6, <1>7, <1>8 DEF CancelOperation

\* Updates are durable before they are visible and survive a crash whole, for
\* every set of quads, failed writes and interrupted vacuums included.
THEOREM StoreImplemented ==
    ASSUME "cancelUpdate" \notin Faults, Persist = TRUE
    PROVE  Spec => ImplementsTripleStore
  <1>1. IInv /\ Steady /\ Phases /\ FileInv /\ [Next]_vars => FileInv'
    BY NextFileInv
  <1>2. IInv /\ Steady /\ Phases /\ FileInv /\ [Next]_vars
          => [Store!Next]_<<Saved, Visible>>
    BY NextStore
  <1>3. IInv /\ Steady /\ [Next]_vars => Steady'
    BY NextSteady
  <1>4. WInv => Phases
    BY DEF WInv
  <1>5. Spec => [](IInv /\ Steady /\ Phases /\ FileInv)
    BY <1>1, <1>3, <1>4, InitSteady, InitFileInv, IInvAlways, WInvAlways, PTL
       DEF Spec
  <1>6. Spec => Store!Init /\ [][Store!Next]_<<Saved, Visible>>
    BY <1>2, <1>5, InitStore, PTL DEF Spec
  <1> QED BY <1>6 DEF ImplementsTripleStore, Store!Spec
=============================================================================
