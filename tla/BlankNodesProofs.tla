-------------------------- MODULE BlankNodesProofs --------------------------
(***************************************************************************)
(* Proofs about BlankNodes, for any blocks, vocabularies, sets of blocks   *)
(* and numbers of restarts: no blank node is created twice.                *)
(***************************************************************************)
EXTENDS BlankNodes, FiniteSetTheorems, SequenceTheorems, TLAPS

BlockEntry == [idx : Block, next : Nat]

FileEntry == [uuid : Nat, indices : Seq(Block)]

\* What a set of blocks, and a vocabulary, can be.
Blocks ==
    [state : {"none", "live", "dying"}, uuid : Nat \cup {None}, blocks : Seq(BlockEntry)]

LocalVocab ==
    [primary : BlockSet \cup {None}, others : SUBSET BlockSet,
     pending : Seq(FileEntry), ids : SUBSET Id]

TypeOK ==
    /\ drawn \in Nat
    /\ used \subseteq Block
    /\ DOMAIN managed \subseteq 1 .. drawn
    /\ \A u \in DOMAIN managed : managed[u] \in BlockSet
    /\ sets \in [BlockSet -> Blocks]
    /\ vocabs \in [Vocab -> LocalVocab]
    /\ file # None => file \in [entries : Seq(FileEntry), ids : SUBSET Id]

\* A set that does not exist is empty, one that exists has a UUID that has been
\* drawn, and a vocabulary that does not exist has nothing.
Shape ==
    /\ \A s \in BlockSet :
          IF sets[s].state = "none" THEN sets[s].blocks = <<>>
                                    ELSE sets[s].uuid \in 1 .. drawn
    /\ \A v \in Vocab : ~Exists(v) => vocabs[v] = NoVocab

\* The sets of the vocabularies are alive, and a set that is alive is the one
\* of its UUID; so is a dying one, unless its UUID has been reinstated.
Owned ==
    /\ \A v \in Vocab : \A s \in Refs(v) : sets[s].state = "live"
    /\ \A s \in BlockSet :
          sets[s].state = "live" \/ (sets[s].state = "dying" /\ ~raced) =>
              sets[s].uuid \in DOMAIN managed /\ managed[sets[s].uuid] = s
    /\ \A u \in DOMAIN managed :
          sets[managed[u]].state # "none" /\ sets[managed[u]].uuid = u

\* s is the set from which a vocabulary takes its new indices.
Growing(s) == \E w \in Vocab : vocabs[w].primary = s

\* The index has been taken from s.
IssuedBy(s, id) ==
    \E n \in DOMAIN sets[s].blocks :
        sets[s].blocks[n].idx = id[1] /\ id[2] < sets[s].blocks[n].next

\* An index that v uses is in one of its sets, and has been taken from there if
\* more are going to be; or its set is among those that v has yet to register.
Secured(v, id) ==
    \/ \E s \in Refs(v) : id[1] \in BlocksOf(s) /\ (Growing(s) => IssuedBy(s, id))
    \/ \E n \in DOMAIN vocabs[v].pending : id[1] \in ToSet(vocabs[v].pending[n].indices)

AllSecured == \A v \in Vocab : \A id \in vocabs[v].ids : Secured(v, id)

\* The result on disk has the blocks of its indices; those that are in a set
\* which is still growing were taken from it.
FileComplete ==
    file # None =>
        /\ \A id \in file.ids : \E n \in DOMAIN file.entries :
              id[1] \in ToSet(file.entries[n].indices)
        /\ \A n \in DOMAIN file.entries :
              /\ file.entries[n].uuid \in 1 .. drawn
              /\ \A s \in BlockSet : Growing(s) /\ sets[s].uuid = file.entries[n].uuid =>
                    \A id \in file.ids :
                        id[1] \in ToSet(file.entries[n].indices) => IssuedBy(s, id)

\* What a vocabulary has yet to register comes from the result on disk.
FromFile ==
    \A v \in Vocab : vocabs[v].pending # <<>> =>
        /\ file # None /\ vocabs[v].ids \subseteq file.ids
        /\ \A n \in DOMAIN vocabs[v].pending :
              \E m \in DOMAIN file.entries : vocabs[v].pending[n] = file.entries[m]

IInv ==
    /\ TypeOK /\ Shape /\ Owned /\ BlocksAccounted
    /\ AllSecured /\ FileComplete /\ FromFile

-----------------------------------------------------------------------------
\* The empty set and the empty vocabulary.
LEMMA EmptyTypes == NoSet \in Blocks /\ NoVocab \in LocalVocab
  <1>1. <<>> \in Seq(BlockEntry) /\ <<>> \in Seq(FileEntry)
    OBVIOUS
  <1> QED
    BY <1>1 DEF NoSet, NoVocab, Blocks, LocalVocab

\* The sets that lose their last owner die, the others stay as they are.
LEMMA ExpireFacts ==
    ASSUME NEW ss \in [BlockSet -> Blocks], NEW vs \in [Vocab -> LocalVocab]
    PROVE  /\ Expire(ss, vs) \in [BlockSet -> Blocks]
           /\ \A s \in BlockSet :
                 /\ Expire(ss, vs)[s].uuid = ss[s].uuid
                 /\ Expire(ss, vs)[s].blocks = ss[s].blocks
                 /\ Expire(ss, vs)[s].state = "none" <=> ss[s].state = "none"
                 /\ Expire(ss, vs)[s].state = "live" => ss[s].state = "live"
                 /\ \A v \in Vocab : s = vs[v].primary \/ s \in vs[v].others =>
                       Expire(ss, vs)[s] = ss[s]
  <1> DEFINE E(s) == IF ss[s].state = "live" /\ \A v \in Vocab :
                            s # vs[v].primary /\ s \notin vs[v].others
                     THEN [ss[s] EXCEPT !.state = "dying"] ELSE ss[s]
  <1>1. Expire(ss, vs) = [s \in BlockSet |-> E(s)]
    BY DEF Expire
  <1>2. ASSUME NEW s \in BlockSet
        PROVE  /\ E(s) \in Blocks
               /\ E(s).uuid = ss[s].uuid /\ E(s).blocks = ss[s].blocks
               /\ E(s).state = "none" <=> ss[s].state = "none"
               /\ E(s).state = "live" => ss[s].state = "live"
               /\ \A v \in Vocab : s = vs[v].primary \/ s \in vs[v].others => E(s) = ss[s]
    BY DEF Blocks
  <1> HIDE DEF E
  <1> QED
    BY <1>1, <1>2

\* SetToSeq enumerates a finite set.
LEMMA SetToSeqFacts ==
    ASSUME NEW S, IsFiniteSet(S)
    PROVE  /\ SetToSeq(S) \in [1 .. Cardinality(S) -> S]
           /\ \A x \in S : \E n \in DOMAIN SetToSeq(S) : SetToSeq(S)[n] = x
           /\ Cardinality(S) \in Nat
  <1> DEFINE n == Cardinality(S)
  <1>1. n \in Nat /\ ExistsBijection(1 .. n, S)
    BY FS_CardinalityType
  <1>2. PICK g \in Bijection(1 .. n, S) : TRUE
    BY <1>1 DEF ExistsBijection
  <1>3. \E f \in [1 .. n -> S] : IsInjective(f)
    BY <1>2 DEF Bijection, Injection
  <1> DEFINE f == SetToSeq(S)
  <1>4. f \in [1 .. n -> S] /\ IsInjective(f)
    BY <1>3 DEF SetToSeq
  <1>5. f \in Injection(1 .. n, S)
    BY <1>4 DEF Injection
  <1>6. IsFiniteSet(1 .. n) /\ Cardinality(1 .. n) = n
    BY <1>1, FS_Interval
  <1>7. f \in Surjection(1 .. n, S)
    BY <1>5, <1>6, FS_Injection
  <1> QED
    BY <1>1, <1>4, <1>7 DEF Surjection

-----------------------------------------------------------------------------
\* What createBlockSet does: a new set gets a new UUID.
LEMMA CreateEffects ==
    ASSUME TypeOK, NEW v \in Vocab, NEW p \in Seq(FileEntry), NEW ids \in SUBSET Id,
           CreateManager(v, {}, p, ids)
    PROVE  \E s \in BlockSet :
              /\ sets[s].state = "none"
              /\ sets' = [sets EXCEPT ![s] =
                     [state |-> "live", uuid |-> drawn + 1, blocks |-> <<>>]]
              /\ vocabs' = [vocabs EXCEPT ![v] =
                     [primary |-> s, others |-> {}, pending |-> p, ids |-> ids]]
              /\ managed' = Put(managed, drawn + 1, s)
              /\ drawn' = drawn + 1 /\ used' = used
  <1> DEFINE s == CHOOSE x \in FreeSets : TRUE
  <1>1. s \in BlockSet /\ sets[s].state = "none"
    BY DEF CreateManager, FreeSets
  <1> QED
    BY <1>1 DEF CreateManager

\* What getId does to the set that it takes the index from.
LEMMA GetIdEffects ==
    ASSUME TypeOK, BlocksAccounted, NEW v \in Vocab, NEW id \in Id, getId(v, id),
           NEW s \in BlockSet, s = vocabs[v].primary
    PROVE  /\ sets' \in [BlockSet -> Blocks]
           /\ \A t \in BlockSet \ {s} : sets'[t] = sets[t]
           /\ sets'[s].state = sets[s].state /\ sets'[s].uuid = sets[s].uuid
           /\ BlocksOf(s)' = BlocksOf(s) \cup {id[1]}
           /\ used' = used \cup {id[1]}
           /\ id[1] \in Block /\ (id[1] \notin used \/ id[1] \in BlocksOf(s))
           /\ IssuedBy(s, id)'
           /\ \A i \in Id : IssuedBy(s, i) => IssuedBy(s, i)'
           /\ \A i \in Id : IssuedBy(s, i)' => IssuedBy(s, i) \/ i = id
  <1> DEFINE blocks == sets[s].blocks
             B == sets'[s].blocks
             l == Len(blocks)
  <1>1. blocks \in Seq(BlockEntry) /\ sets[s] \in Blocks
    BY DEF TypeOK, Blocks
  <1>2. id[1] \in Block /\ id[2] \in Nat /\ \A i \in Id : i[2] \in Nat /\ i = <<i[1], i[2]>>
    BY BlankNodesAssumption DEF Id
  <1>3. /\ BlocksOf(s) = {blocks[n].idx : n \in DOMAIN blocks}
        /\ BlocksOf(s)' = {B[n].idx : n \in DOMAIN B}
        /\ BlocksOf(s) \subseteq used
    BY DEF BlocksOf, BlocksAccounted
  <1>4. \A i \in Id :
           /\ IssuedBy(s, i) <=> \E n \in DOMAIN blocks :
                                    blocks[n].idx = i[1] /\ i[2] < blocks[n].next
           /\ IssuedBy(s, i)' <=> \E n \in DOMAIN B : B[n].idx = i[1] /\ i[2] < B[n].next
    BY DEF IssuedBy
  <1>5. ASSUME NEW C \in Seq(BlockEntry), sets' = [sets EXCEPT ![s].blocks = C]
        PROVE  /\ B = C /\ sets' \in [BlockSet -> Blocks]
               /\ \A t \in BlockSet \ {s} : sets'[t] = sets[t]
               /\ sets'[s].state = sets[s].state /\ sets'[s].uuid = sets[s].uuid
    BY <1>5 DEF TypeOK, Blocks
  <1>6. CASE NeedsBlock(s)
    <2> DEFINE x == [idx |-> id[1], next |-> 1]
               C == Append(blocks, x)
    <2>1. /\ id[1] \notin used /\ id[2] = 0 /\ used' = used \cup {id[1]}
          /\ sets' = [sets EXCEPT ![s].blocks = C]
      BY <1>6 DEF getId
    <2>2. x \in BlockEntry /\ x.idx = id[1] /\ x.next = 1
      BY <1>2 DEF BlockEntry
    <2> HIDE DEF x, blocks
    <2>3. /\ C \in Seq(BlockEntry) /\ DOMAIN C = DOMAIN blocks \cup {l + 1}
          /\ C[l + 1] = x /\ \A n \in DOMAIN blocks : C[n] = blocks[n]
      BY <1>1, <2>2
    <2> HIDE DEF C
    <2>4. B = C
      BY <1>5, <2>1, <2>3
    <2> HIDE DEF B
    <2>5. BlocksOf(s)' = BlocksOf(s) \cup {id[1]}
      BY <1>3, <2>2, <2>3, <2>4
    <2>6. /\ IssuedBy(s, id)'
          /\ \A i \in Id : IssuedBy(s, i) => IssuedBy(s, i)'
          /\ \A i \in Id : IssuedBy(s, i)' => IssuedBy(s, i) \/ i = id
      BY <1>2, <1>4, <2>1, <2>2, <2>3, <2>4
    <2> QED
      BY <1>2, <1>5, <2>1, <2>3, <2>5, <2>6
  <1>7. CASE ~NeedsBlock(s)
    <2> DEFINE x == [blocks[l] EXCEPT !.next = @ + 1]
               C == [blocks EXCEPT ![l] = x]
    <2>1. /\ id[1] = blocks[l].idx /\ id[2] = blocks[l].next /\ used' = used
          /\ sets' = [sets EXCEPT ![s].blocks[l].next = @ + 1]
      <3>1. /\ id = <<Last(blocks).idx, Last(blocks).next>> /\ used' = used
            /\ sets' = [sets EXCEPT ![s].blocks[l].next = @ + 1]
        BY <1>7, Zenon DEF getId
      <3> HIDE DEF blocks
      <3>2. id[1] = blocks[l].idx /\ id[2] = blocks[l].next
        BY <3>1 DEF Last
      <3> QED
        BY <3>1, <3>2, Zenon
    <2>2. sets' = [sets EXCEPT ![s].blocks = C]
      BY <2>1
    <2>3. \E n \in DOMAIN blocks : n = l
      BY <1>7 DEF NeedsBlock
    <2> HIDE DEF blocks
    <2>4. l \in 1 .. l /\ DOMAIN blocks = 1 .. l /\ blocks[l] \in BlockEntry
      BY <1>1, <2>3
    <2>5. /\ x \in BlockEntry /\ x.idx = blocks[l].idx
          /\ x.next = blocks[l].next + 1 /\ blocks[l].next \in Nat
      BY <2>4 DEF BlockEntry
    <2> HIDE DEF x
    <2>6. /\ C \in Seq(BlockEntry) /\ DOMAIN C = 1 .. l
          /\ C[l] = x /\ \A n \in 1 .. l : n # l => C[n] = blocks[n]
      BY <1>1, <2>4, <2>5, ExceptSeq
    <2> HIDE DEF C
    <2>7. B = C
      BY <1>5, <2>2, <2>6
    <2> HIDE DEF B
    <2>8. BlocksOf(s)' = BlocksOf(s) /\ id[1] \in BlocksOf(s)
      BY <1>3, <2>1, <2>4, <2>5, <2>6, <2>7
    <2>9. /\ IssuedBy(s, id)'
          /\ \A i \in Id : IssuedBy(s, i) => IssuedBy(s, i)'
          /\ \A i \in Id : IssuedBy(s, i)' => IssuedBy(s, i) \/ i = id
      <3>1. IssuedBy(s, id)'
        BY <1>4, <2>1, <2>4, <2>5, <2>6, <2>7
      <3>2. ASSUME NEW i \in Id, IssuedBy(s, i)
            PROVE  IssuedBy(s, i)'
        <4>1. PICK n \in DOMAIN blocks : blocks[n].idx = i[1] /\ i[2] < blocks[n].next
          BY <1>4, <3>2
        <4>2. n \in DOMAIN B /\ B[n].idx = i[1] /\ i[2] < B[n].next
          BY <1>2, <2>4, <2>5, <2>6, <2>7, <4>1
        <4> QED
          BY <1>4, <4>2
      <3>3. ASSUME NEW i \in Id, IssuedBy(s, i)', ~IssuedBy(s, i)
            PROVE  i = id
        <4>0. \A n \in DOMAIN blocks : ~(blocks[n].idx = i[1] /\ i[2] < blocks[n].next)
          BY <1>4, <3>3, Zenon
        <4>1. PICK n \in DOMAIN B : B[n].idx = i[1] /\ i[2] < B[n].next
          BY <1>4, <3>3
        <4>2. n = l
          BY <2>4, <2>6, <2>7, <4>0, <4>1, Zenon
        <4>3. ~(i[2] < blocks[l].next) /\ i[1] = blocks[l].idx
          BY <2>4, <2>5, <2>6, <2>7, <4>0, <4>1, <4>2, Zenon
        <4>4. i[1] = id[1] /\ i[2] = id[2]
          BY <1>2, <2>1, <2>5, <2>6, <2>7, <4>1, <4>2, <4>3
        <4> QED
          BY <1>2, <4>4
      <3> QED
        BY <3>1, <3>2, <3>3
    <2>10. used' = used \cup {id[1]}
      BY <1>3, <2>1, <2>8
    <2>11. BlocksOf(s)' = BlocksOf(s) \cup {id[1]}
      BY <2>8
    <2>12. /\ sets' \in [BlockSet -> Blocks]
           /\ \A t \in BlockSet \ {s} : sets'[t] = sets[t]
           /\ sets'[s].state = sets[s].state /\ sets'[s].uuid = sets[s].uuid
      BY <1>5, <2>2, <2>6
    <2> QED
      BY <1>2, <2>8, <2>9, <2>10, <2>11, <2>12
  <1> QED
    BY <1>6, <1>7

\* registerAndAllocateBlockSet creates the set s with the blocks N for an entry of
\* the result; S are the sets before those that have lost their owner expire.
SetCreated(v, e, s, S, N) ==
    /\ sets[s].state = "none" /\ S[s].state = "live" /\ S[s].uuid = e.uuid
    /\ \A t \in BlockSet \ {s} : S[t] = sets[t]
    /\ N = {S[s].blocks[n].idx : n \in DOMAIN S[s].blocks}
    /\ \A n \in DOMAIN S[s].blocks : S[s].blocks[n].next = 0
    /\ N \cap used = {} /\ used' = used \cup N
    /\ managed' = Put(managed, e.uuid, s)
    /\ e.uuid \in DOMAIN managed => sets[managed[e.uuid]].state # "live"
    /\ raced' = (raced \/ e.uuid \in DOMAIN managed)
    /\ sets' = Expire(S, vocabs')
    /\ \/ vocabs' = Registered(v, s) /\ N = ToSet(e.indices)
       \/ vocabs' = NotRegistered(v)

\* What registerAndAllocateBlockSet does for a UUID that has no living set: a
\* new set gets the blocks up to the first one that is in use, none of whose
\* indices has been issued.
LEMMA RegisterNewEffects ==
    ASSUME TypeOK, NEW v \in Vocab, NEW entry \in FileEntry, RegisterNew(v, entry)
    PROVE  \E s \in BlockSet, S \in [BlockSet -> Blocks], N \in SUBSET Block :
              SetCreated(v, entry, s, S, N)
  <1> DEFINE s == CHOOSE x \in FreeSets : TRUE
             I == entry.indices
  <1>1. I \in Seq(Block) /\ entry.uuid \in Nat
    BY DEF FileEntry
  <1>2. s \in BlockSet /\ sets[s].state = "none"
    BY DEF RegisterNew, FreeSets
  <1>3. PICK k \in 0 .. Len(I) :
           /\ entry.uuid \in DOMAIN managed => sets[managed[entry.uuid]].state # "live"
           /\ raced' = (raced \/ entry.uuid \in DOMAIN managed)
           /\ \A n \in 1 .. k : I[n] \notin used
           /\ used' = used \cup ToSet(SubSeq(I, 1, k))
           /\ managed' = Put(managed, entry.uuid, s)
           /\ vocabs' = IF k = Len(I) THEN Registered(v, s) ELSE NotRegistered(v)
           /\ sets' = Expire([sets EXCEPT ![s] =
                  [state |-> "live", uuid |-> entry.uuid,
                   blocks |-> [n \in 1 .. k |-> NewBlock(SubSeq(I, 1, k)[n])]]], vocabs')
    BY Zenon DEF RegisterNew, allocateExplicitBlock
  <1> DEFINE G == SubSeq(I, 1, k)
             B == [n \in 1 .. k |-> NewBlock(G[n])]
             x == [state |-> "live", uuid |-> entry.uuid, blocks |-> B]
             S == [sets EXCEPT ![s] = x]
             N == ToSet(G)
  <1>4. /\ G \in Seq(Block) /\ Len(G) = k /\ DOMAIN G = 1 .. k
        /\ \A n \in 1 .. k : G[n] = I[n] /\ G[n] \in Block
    BY <1>1, SubSeqProperties
  <1> HIDE DEF G
  <1>5. N \in SUBSET Block /\ N \cap used = {}
    BY <1>3, <1>4 DEF ToSet
  <1>6. k = Len(I) => N = ToSet(I)
    <2>1. DOMAIN I = 1 .. Len(I)
      BY <1>1
    <2> QED
      BY <1>4, <2>1 DEF ToSet
  <1>7. /\ \A n \in 1 .. k : B[n].idx = G[n] /\ B[n].next = 0 /\ B[n] \in BlockEntry
        /\ B \in Seq(BlockEntry) /\ DOMAIN B = 1 .. k
    <2>1. ASSUME NEW n \in 1 .. k
          PROVE  /\ NewBlock(G[n]) \in BlockEntry
                 /\ NewBlock(G[n]).idx = G[n] /\ NewBlock(G[n]).next = 0
      BY <1>4 DEF BlockEntry, NewBlock
    <2>2. B \in [1 .. k -> BlockEntry] /\ k \in Nat
      <3>1. \A n \in 1 .. k : NewBlock(G[n]) \in BlockEntry
        BY <2>1
      <3>2. k \in Nat
        BY <1>1
      <3> QED
        BY <3>1, <3>2, Zenon
    <2>3. B \in Seq(BlockEntry)
      BY <2>2, SeqDef
    <2>4. DOMAIN B = 1 .. k /\ \A n \in 1 .. k : B[n] = NewBlock(G[n])
      BY Zenon
    <2> HIDE DEF B
    <2> QED
      BY <2>1, <2>2, <2>3, <2>4
  <1>8. N = {B[n].idx : n \in DOMAIN B}
    BY <1>4, <1>7 DEF ToSet
  <1>9. sets' = Expire(S, vocabs') /\ used' = used \cup N
    BY <1>3 DEF G
  <1> HIDE DEF N, B, s
  <1>10. /\ S \in [BlockSet -> Blocks] /\ S[s] = x
         /\ x.state = "live" /\ x.uuid = entry.uuid /\ x.blocks = B
         /\ \A t \in BlockSet \ {s} : S[t] = sets[t]
    BY <1>1, <1>2, <1>7 DEF TypeOK, Blocks
  <1> HIDE DEF S, x
  <1>11. vocabs' = IF k = Len(I) THEN Registered(v, s) ELSE NotRegistered(v)
    BY <1>3 DEF s
  <1>12. managed' = Put(managed, entry.uuid, s)
    BY <1>3 DEF s
  <1>13. /\ sets[s].state = "none" /\ S[s].state = "live" /\ S[s].uuid = entry.uuid
         /\ \A t \in BlockSet \ {s} : S[t] = sets[t]
         /\ N = {S[s].blocks[n].idx : n \in DOMAIN S[s].blocks}
         /\ \A n \in DOMAIN S[s].blocks : S[s].blocks[n].next = 0
    BY <1>2, <1>7, <1>8, <1>10
  <1>14. \/ vocabs' = Registered(v, s) /\ N = ToSet(entry.indices)
         \/ vocabs' = NotRegistered(v)
    BY <1>6, <1>11
  <1> QED
    BY <1>2, <1>3, <1>5, <1>9, <1>10, <1>12, <1>13, <1>14, Zenon DEF SetCreated

\* How the vocabularies change when one of them has registered a set ...
LEMMA RegisteredFacts ==
    ASSUME TypeOK, NEW v \in Vocab, NEW s \in BlockSet, vocabs[v].pending # <<>>,
           vocabs' = Registered(v, s)
    PROVE  /\ vocabs' \in [Vocab -> LocalVocab]
           /\ vocabs'[v].primary = vocabs[v].primary
           /\ vocabs'[v].others = vocabs[v].others \cup {s}
           /\ vocabs'[v].ids = vocabs[v].ids
           /\ vocabs'[v].pending = Tail(vocabs[v].pending)
           /\ \A w \in Vocab \ {v} : vocabs'[w] = vocabs[w]
  <1>1. vocabs[v].pending \in Seq(FileEntry) /\ vocabs[v] \in LocalVocab
    BY DEF TypeOK, LocalVocab
  <1>2. Tail(vocabs[v].pending) \in Seq(FileEntry)
    BY <1>1
  <1> QED
    BY <1>1, <1>2 DEF TypeOK, LocalVocab, Registered

\* ... and how when one of them is gone.
LEMMA DroppedFacts ==
    ASSUME TypeOK, NEW v \in Vocab, vocabs' = [vocabs EXCEPT ![v] = NoVocab]
    PROVE  /\ vocabs' \in [Vocab -> LocalVocab]
           /\ vocabs'[v] = NoVocab
           /\ \A w \in Vocab \ {v} : vocabs'[w] = vocabs[w]
  BY EmptyTypes DEF TypeOK

\* The next entry of a vocabulary that registers its sets.
LEMMA NextEntry ==
    ASSUME TypeOK, NEW v \in Vocab, vocabs[v].pending # <<>>
    PROVE  /\ Head(vocabs[v].pending) \in FileEntry
           /\ vocabs[v].pending \in Seq(FileEntry)
           /\ Head(vocabs[v].pending) = vocabs[v].pending[1]
           /\ 1 \in DOMAIN vocabs[v].pending
  <1>1. vocabs[v].pending \in Seq(FileEntry)
    BY DEF TypeOK, LocalVocab
  <1> QED
    BY <1>1

\* The entries that are written to disk are those of the sets of v.
LEMMA OwnedEntries ==
    ASSUME TypeOK, Shape, Owned, NEW v \in Vocab, Exists(v)
    PROVE  /\ getOwnedBlockIndices(v) \in Seq(FileEntry)
           /\ \A n \in DOMAIN getOwnedBlockIndices(v) :
                 \E s \in Refs(v) : getOwnedBlockIndices(v)[n] = Entry(s)
           /\ \A s \in Refs(v) : \E n \in DOMAIN getOwnedBlockIndices(v) :
                 getOwnedBlockIndices(v)[n] = Entry(s)
  <1> DEFINE p == vocabs[v].primary
             O == vocabs[v].others
             q == SetToSeq(O)
             m == Cardinality(O)
             E == [n \in DOMAIN q |-> Entry(q[n])]
  <1>1. p \in BlockSet /\ O \subseteq BlockSet /\ Refs(v) = O \cup {p}
    BY DEF TypeOK, LocalVocab, Exists, Refs
  <1>2. ASSUME NEW s \in Refs(v)
        PROVE  Entry(s) \in FileEntry
    <2>1. s \in BlockSet /\ sets[s].state = "live"
      BY <1>1 DEF Owned
    <2>2. sets[s].uuid \in Nat
      BY <2>1 DEF Shape, TypeOK
    <2>3. sets[s].blocks \in Seq(BlockEntry)
      BY <2>1 DEF TypeOK, Blocks
    <2> DEFINE B == sets[s].blocks
    <2> HIDE DEF B
    <2>4. B \in Seq(BlockEntry) /\ Len(B) \in Nat /\ DOMAIN B = 1 .. Len(B)
      BY <2>3 DEF B
    <2>5. \A n \in 1 .. Len(B) : B[n].idx \in Block
      <3>1. \A n \in 1 .. Len(B) : B[n] \in BlockEntry
        BY <2>4
      <3> QED
        BY <3>1 DEF BlockEntry
    <2>6. [n \in DOMAIN B |-> B[n].idx] \in [1 .. Len(B) -> Block]
      BY <2>4, <2>5
    <2>7. [n \in DOMAIN B |-> B[n].idx] \in Seq(Block)
      BY <2>4, <2>6, SeqDef
    <2>8. [uuid |-> sets[s].uuid, indices |-> [n \in DOMAIN B |-> B[n].idx]] \in FileEntry
      BY <2>2, <2>7 DEF FileEntry
    <2> QED
      BY <2>8 DEF Entry, B
  <1>3. IsFiniteSet(O)
    BY <1>1, BlankNodesAssumption, FS_Subset
  <1>4. /\ q \in [1 .. m -> O] /\ m \in Nat /\ DOMAIN q = 1 .. m
        /\ \A x \in O : \E n \in 1 .. m : q[n] = x
    BY <1>3, SetToSeqFacts
  <1> HIDE DEF q, m
  <1>5. /\ DOMAIN E = 1 .. m /\ \A n \in 1 .. m : E[n] = Entry(q[n]) /\ q[n] \in Refs(v)
    BY <1>1, <1>4
  <1>6. E \in [1 .. m -> FileEntry]
    <2>1. \A n \in 1 .. m : E[n] \in FileEntry
      BY <1>2, <1>5
    <2> QED
      BY <1>4, <2>1
  <1>7. E \in Seq(FileEntry)
    BY <1>4, <1>6, SeqDef
  <1>8. getOwnedBlockIndices(v) = <<Entry(p)>> \o E
    BY DEF getOwnedBlockIndices, q
  <1> DEFINE G == <<Entry(p)>> \o E
             e == Entry(p)
  <1>9. e \in FileEntry /\ p \in Refs(v)
    BY <1>1, <1>2
  <1> HIDE DEF E, e
  <1>10. /\ G \in Seq(FileEntry) /\ DOMAIN G = 1 .. m + 1
         /\ G[1] = e /\ \A n \in 1 .. m : G[n + 1] = E[n]
    <2>1. Len(E) = m
      BY <1>4, <1>5, <1>7
    <2>2. <<e>> \in Seq(FileEntry) /\ Len(<<e>>) = 1 /\ <<e>>[1] = e
      BY <1>9
    <2>3. G = <<e>> \o E
      BY DEF e
    <2> HIDE DEF G
    <2> QED
      BY <1>4, <1>7, <2>1, <2>2, <2>3
  <1> HIDE DEF G, p
  <1>11. \A n \in 1 .. m + 1 : \E s \in Refs(v) : G[n] = Entry(s)
    <2> SUFFICES ASSUME NEW n \in 1 .. m + 1
                 PROVE  \E s \in Refs(v) : G[n] = Entry(s)
      OBVIOUS
    <2>1. CASE n = 1
      BY <1>9, <1>10, <2>1 DEF e
    <2>2. CASE n # 1
      <3>1. n - 1 \in 1 .. m /\ G[n] = E[n - 1]
        BY <1>4, <1>10, <2>2
      <3> QED
        BY <1>5, <3>1
    <2> QED
      BY <2>1, <2>2
  <1>12. \A s \in Refs(v) : \E n \in 1 .. m + 1 : G[n] = Entry(s)
    <2> SUFFICES ASSUME NEW s \in Refs(v)
                 PROVE  \E n \in 1 .. m + 1 : G[n] = Entry(s)
      OBVIOUS
    <2>1. CASE s = p
      BY <1>4, <1>10, <2>1 DEF e
    <2>2. CASE s \in O
      <3>1. PICK n \in 1 .. m : q[n] = s
        BY <1>4, <2>2
      <3>2. n + 1 \in 1 .. m + 1 /\ G[n + 1] = Entry(s)
        BY <1>4, <1>5, <1>10, <3>1
      <3> QED
        BY <3>2
    <2> QED
      BY <1>1, <2>1, <2>2
  <1> QED
    BY <1>8, <1>10, <1>11, <1>12 DEF G

\* The indices of the entry of a set are its blocks.
LEMMA EntryBlocks ==
    ASSUME NEW s \in BlockSet
    PROVE  ToSet(Entry(s).indices) = BlocksOf(s)
  BY DEF ToSet, Entry, BlocksOf

-----------------------------------------------------------------------------
\* A set whose blocks do not change.
LEMMA SameBlocks ==
    ASSUME NEW s \in BlockSet, sets'[s].blocks = sets[s].blocks
    PROVE  /\ BlocksOf(s)' = BlocksOf(s)
           /\ \A id \in Id : IssuedBy(s, id)' <=> IssuedBy(s, id)
  BY DEF BlocksOf, IssuedBy

\* The sets of a vocabulary are sets.
LEMMA RefsType ==
    ASSUME TypeOK, NEW v \in Vocab
    PROVE  Refs(v) \subseteq BlockSet
  BY DEF TypeOK, LocalVocab, Refs

\* A step at which no living set loses anything, nor starts to grow.
Keeps ==
    \A s \in BlockSet : sets[s].state = "live" =>
        /\ sets'[s].uuid = sets[s].uuid
        /\ BlocksOf(s) \subseteq BlocksOf(s)'
        /\ \A id \in Id : IssuedBy(s, id) => IssuedBy(s, id)'
        /\ Growing(s)' => Growing(s)

\* An index stays secured at such a step, if the vocabulary keeps its sets.
LEMMA KeepsSecured ==
    ASSUME TypeOK, Owned, Keeps, NEW v \in Vocab, NEW id \in Id, Secured(v, id),
           \A s \in Refs(v) : s \in Refs(v)', vocabs'[v].pending = vocabs[v].pending
    PROVE  Secured(v, id)'
  <1>1. CASE \E n \in DOMAIN vocabs[v].pending : id[1] \in ToSet(vocabs[v].pending[n].indices)
    BY <1>1 DEF Secured
  <1>2. ASSUME NEW s \in Refs(v), id[1] \in BlocksOf(s), Growing(s) => IssuedBy(s, id)
        PROVE  Secured(v, id)'
    <2>1. s \in BlockSet /\ sets[s].state = "live" /\ s \in Refs(v)'
      BY DEF Owned, Refs, TypeOK, LocalVocab
    <2>2. id[1] \in BlocksOf(s)' /\ (Growing(s)' => IssuedBy(s, id)')
      BY <1>2, <2>1 DEF Keeps
    <2> QED
      BY <2>1, <2>2 DEF Secured
  <1> QED
    BY <1>1, <1>2 DEF Secured

\* A growing set is alive.
LEMMA GrowingLive ==
    ASSUME TypeOK, Owned, NEW s \in BlockSet, Growing(s)
    PROVE  sets[s].state = "live"
  BY BlankNodesAssumption DEF Owned, Growing, Refs

\* The result on disk stays right at such a step, if a set that starts to grow
\* has a new UUID.
LEMMA KeepsFile ==
    ASSUME TypeOK, Owned, FileComplete, Keeps, UNCHANGED file, drawn' \in {drawn, drawn + 1},
           \A s \in BlockSet : Growing(s)' /\ ~Growing(s) => sets'[s].uuid = drawn + 1
    PROVE  FileComplete'
  <1> SUFFICES ASSUME file # None
               PROVE  FileComplete'
    BY DEF FileComplete
  <1>1. \A id \in file.ids : \E n \in DOMAIN file.entries :
           id[1] \in ToSet(file.entries[n].indices)
    BY DEF FileComplete
  <1>2. ASSUME NEW n \in DOMAIN file.entries
        PROVE  file.entries[n].uuid \in 1 .. drawn'
    BY DEF FileComplete, TypeOK
  <1>3. ASSUME NEW n \in DOMAIN file.entries, NEW s \in BlockSet, Growing(s)',
               sets'[s].uuid = file.entries[n].uuid, NEW id \in file.ids,
               id[1] \in ToSet(file.entries[n].indices)
        PROVE  IssuedBy(s, id)'
    <2>1. file.entries[n].uuid \in 1 .. drawn /\ drawn \in Nat
      BY DEF FileComplete, TypeOK
    <2>2. Growing(s)
      BY <1>3, <2>1
    <2>3. sets[s].state = "live"
      BY <2>2, GrowingLive
    <2>4. sets'[s].uuid = sets[s].uuid /\ (\A i \in Id : IssuedBy(s, i) => IssuedBy(s, i)')
      BY <2>3 DEF Keeps
    <2>5. IssuedBy(s, id)
      BY <1>3, <2>2, <2>4 DEF FileComplete
    <2>6. id \in Id
      BY DEF TypeOK
    <2> QED
      BY <2>4, <2>5, <2>6
  <1> QED
    BY <1>1, <1>2, <1>3 DEF FileComplete

\* The blocks are accounted for if none of them moves.
LEMMA SameAccounts ==
    ASSUME BlocksAccounted, \A s \in BlockSet : BlocksOf(s)' = BlocksOf(s),
           UNCHANGED <<used, fault, raced>>
    PROVE  BlocksAccounted'
  <1>1. ~fault' /\ used' = used
    BY Zenon DEF BlocksAccounted
  <1>2. {BlocksOf(s) : s \in BlockSet}' = {BlocksOf(s) : s \in BlockSet}
    BY Zenon
  <1>3. raced' \/ used' \subseteq UNION {BlocksOf(s)' : s \in BlockSet}
    BY <1>1, <1>2, Zenon DEF BlocksAccounted
  <1>4. /\ \A s, t \in BlockSet : s # t => (BlocksOf(s) \intersect BlocksOf(t))' = {}
        /\ UNION {BlocksOf(s)' : s \in BlockSet} \subseteq used'
    BY <1>1, <1>2 DEF BlocksAccounted
  <1> QED
    BY <1>1, <1>3, <1>4, Zenon DEF BlocksAccounted

-----------------------------------------------------------------------------
\* Creating a vocabulary keeps the invariant, be it empty or one that is going
\* to be read from disk.
LEMMA CreateKeeps ==
    ASSUME IInv, NEW v \in Vocab, ~Exists(v), NEW p \in Seq(FileEntry),
           NEW ids \in SUBSET Id, CreateManager(v, {}, p, ids),
           UNCHANGED <<file, fault, raced>>,
           \A id \in ids : \E n \in DOMAIN p : id[1] \in ToSet(p[n].indices),
           p # <<>> =>
               /\ file # None /\ ids \subseteq file.ids
               /\ \A n \in DOMAIN p : \E m \in DOMAIN file.entries : p[n] = file.entries[m]
    PROVE  IInv'
  <1> USE DEF IInv
  <1>0. PICK s \in BlockSet :
           /\ sets[s].state = "none"
           /\ sets' = [sets EXCEPT ![s] =
                  [state |-> "live", uuid |-> drawn + 1, blocks |-> <<>>]]
           /\ vocabs' = [vocabs EXCEPT ![v] =
                  [primary |-> s, others |-> {}, pending |-> p, ids |-> ids]]
           /\ managed' = Put(managed, drawn + 1, s)
           /\ drawn' = drawn + 1 /\ used' = used
    BY CreateEffects
  <1>1. /\ sets'[s].state = "live" /\ sets'[s].uuid = drawn + 1 /\ sets'[s].blocks = <<>>
        /\ \A t \in BlockSet \ {s} : sets'[t] = sets[t]
    BY <1>0 DEF TypeOK
  <1>2. /\ vocabs'[v] = [primary |-> s, others |-> {}, pending |-> p, ids |-> ids]
        /\ \A w \in Vocab \ {v} : vocabs'[w] = vocabs[w]
    BY <1>0 DEF TypeOK
  <1>3. /\ DOMAIN managed' = DOMAIN managed \cup {drawn + 1}
        /\ managed'[drawn + 1] = s /\ drawn + 1 \notin DOMAIN managed
        /\ \A u \in DOMAIN managed : managed'[u] = managed[u]
        /\ drawn \in Nat
    BY <1>0 DEF TypeOK, Put
  <1>4. TypeOK'
    <2>1. sets' \in [BlockSet -> Blocks]
      <3>1. <<>> \in Seq(BlockEntry)
        OBVIOUS
      <3> QED
        BY <1>0, <3>1 DEF TypeOK, Blocks
    <2>2. vocabs' \in [Vocab -> LocalVocab]
      BY <1>0 DEF TypeOK, LocalVocab
    <2>3. /\ DOMAIN managed' \subseteq 1 .. drawn'
          /\ \A u \in DOMAIN managed' : managed'[u] \in BlockSet
      BY <1>0, <1>3 DEF TypeOK
    <2> QED
      BY <1>0, <2>1, <2>2, <2>3 DEF TypeOK
  <1>5. sets[s].blocks = <<>>
    BY <1>0 DEF Shape
  <1>6. \A t \in BlockSet : sets'[t].blocks = sets[t].blocks
    BY <1>1, <1>5
  <1>7. \A t \in BlockSet : /\ BlocksOf(t)' = BlocksOf(t)
                            /\ \A id \in Id : IssuedBy(t, id)' <=> IssuedBy(t, id)
    BY <1>6, SameBlocks
  <1>8. Shape'
    BY <1>0, <1>1, <1>2, <1>3, BlankNodesAssumption DEF Shape, Exists, TypeOK
  <1>9. \A w \in Vocab \ {v} : Refs(w)' = Refs(w) /\ s \notin Refs(w)
    BY <1>0, <1>2 DEF Refs, Owned
  <1>10. Refs(v)' = {s}
    BY <1>2, BlankNodesAssumption DEF Refs
  <1>11. Owned'
    <2>1. \A w \in Vocab : \A t \in Refs(w)' : sets'[t].state = "live"
      BY <1>1, <1>9, <1>10, RefsType DEF Owned
    <2>2. ASSUME NEW t \in BlockSet,
                 sets'[t].state = "live" \/ (sets'[t].state = "dying" /\ ~raced')
          PROVE  sets'[t].uuid \in DOMAIN managed' /\ managed'[sets'[t].uuid] = t
      BY <1>1, <1>3, <2>2 DEF Owned
    <2>3. \A u \in DOMAIN managed' :
             sets'[managed'[u]].state # "none" /\ sets'[managed'[u]].uuid = u
      <3>1. \A u \in DOMAIN managed : managed[u] \in BlockSet \ {s}
        BY <1>0 DEF Owned, TypeOK
      <3> QED
        BY <1>1, <1>3, <3>1 DEF Owned
    <2> QED
      BY <2>1, <2>2, <2>3 DEF Owned
  <1>12. BlocksAccounted'
    BY <1>0, <1>7, SameAccounts
  <1>13. /\ \A t \in BlockSet \ {s} : Growing(t)' => Growing(t)
    BY <1>2 DEF Growing
  <1>14. Keeps
    BY <1>0, <1>1, <1>7, <1>13 DEF Keeps
  <1>15. AllSecured'
    <2>1. ASSUME NEW w \in Vocab \ {v}, NEW id \in vocabs'[w].ids
          PROVE  Secured(w, id)'
      <3>1. vocabs'[w] = vocabs[w] /\ id \in Id /\ Secured(w, id)
        BY <1>2 DEF AllSecured, TypeOK, LocalVocab
      <3> QED
        BY <1>9, <1>14, <3>1, KeepsSecured
    <2>2. ASSUME NEW id \in vocabs'[v].ids
          PROVE  Secured(v, id)'
      BY <1>2 DEF Secured
    <2> QED
      BY <2>1, <2>2 DEF AllSecured
  <1>16. FileComplete'
    BY <1>0, <1>1, <1>13, <1>14, KeepsFile
  <1>17. FromFile'
    BY <1>2 DEF FromFile
  <1> QED
    BY <1>4, <1>8, <1>11, <1>12, <1>15, <1>16, <1>17

\* So does drawing an index.
LEMMA GetIdKeeps ==
    ASSUME IInv, NEW v \in Vocab, GetId(v)
    PROVE  IInv'
  <1> USE DEF IInv
  <1>0. PICK id \in Id : getId(v, id)
    BY DEF GetId
  <1>1. PICK s \in BlockSet : s = vocabs[v].primary /\ s \in Refs(v) /\ sets[s].state = "live"
    BY DEF GetId, Complete, Exists, TypeOK, LocalVocab, Refs, Owned
  <1>2. /\ sets' \in [BlockSet -> Blocks]
        /\ \A t \in BlockSet \ {s} : sets'[t] = sets[t]
        /\ sets'[s].state = sets[s].state /\ sets'[s].uuid = sets[s].uuid
        /\ BlocksOf(s)' = BlocksOf(s) \cup {id[1]}
        /\ used' = used \cup {id[1]}
        /\ id[1] \in Block /\ (id[1] \notin used \/ id[1] \in BlocksOf(s))
        /\ IssuedBy(s, id)'
        /\ \A i \in Id : IssuedBy(s, i) => IssuedBy(s, i)'
    BY <1>0, <1>1, GetIdEffects
  <1>3. /\ UNCHANGED <<managed, file, fault, raced, drawn, restarts>>
        /\ vocabs' = [vocabs EXCEPT ![v].ids = @ \cup {id}]
    BY <1>0 DEF GetId, getId
  <1>4. /\ vocabs' \in [Vocab -> LocalVocab] /\ vocabs'[v].ids = vocabs[v].ids \cup {id}
        /\ vocabs'[v].pending = <<>> /\ vocabs[v].pending = <<>>
        /\ vocabs[v].primary # None
        /\ \A w \in Vocab \ {v} : vocabs'[w] = vocabs[w]
        /\ \A w \in Vocab : /\ vocabs'[w].primary = vocabs[w].primary
                             /\ vocabs'[w].others = vocabs[w].others
                             /\ vocabs'[w].pending = vocabs[w].pending
    BY <1>3 DEF TypeOK, LocalVocab, GetId, Complete, Exists
  <1>5. TypeOK'
    BY <1>2, <1>3, <1>4 DEF TypeOK
  <1>6. Shape'
    BY <1>1, <1>2, <1>3, <1>4 DEF Shape, Exists
  <1>7. \A w \in Vocab : Refs(w)' = Refs(w)
    BY <1>4 DEF Refs
  <1>8. Owned'
    <2>1. \A t \in BlockSet : sets'[t].state = sets[t].state /\ sets'[t].uuid = sets[t].uuid
      BY <1>2
    <2>2. \A w \in Vocab : \A t \in Refs(w)' : sets'[t].state = "live"
      BY <1>7, <2>1, RefsType DEF Owned
    <2>3. \A u \in DOMAIN managed : managed[u] \in BlockSet
      BY DEF TypeOK
    <2> QED
      BY <1>3, <2>1, <2>2, <2>3 DEF Owned
  <1>9. \A t \in BlockSet \ {s} : /\ BlocksOf(t)' = BlocksOf(t)
                                  /\ \A i \in Id : IssuedBy(t, i)' <=> IssuedBy(t, i)
    BY <1>2, SameBlocks
  <1>10. BlocksAccounted'
    <2>1. ~fault' /\ used' = used \cup {id[1]}
      BY <1>2, <1>3, Zenon DEF BlocksAccounted
    <2>2. \A t, u \in BlockSet : t # u => (BlocksOf(t) \intersect BlocksOf(u))' = {}
      BY <1>2, <1>9 DEF BlocksAccounted
    <2>3. \A t \in BlockSet : BlocksOf(t)' \subseteq used'
      BY <1>2, <1>9 DEF BlocksAccounted
    <2>4. used \subseteq UNION {BlocksOf(t) : t \in BlockSet} =>
             used' \subseteq UNION {BlocksOf(t)' : t \in BlockSet}
      BY <1>2, <1>9
    <2>5. raced' \/ used' \subseteq UNION {BlocksOf(t)' : t \in BlockSet}
      BY <1>3, <2>4, Zenon DEF BlocksAccounted
    <2>6. UNION {BlocksOf(t)' : t \in BlockSet} \subseteq used'
      BY <2>3
    <2> QED
      BY <2>1, <2>2, <2>5, <2>6, Zenon DEF BlocksAccounted
  <1>11. \A t \in BlockSet : Growing(t)' => Growing(t)
    BY <1>4 DEF Growing
  <1>12. Keeps
    BY <1>2, <1>9, <1>11 DEF Keeps
  <1>13. AllSecured'
    <2>1. ASSUME NEW w \in Vocab, NEW i \in vocabs[w].ids
          PROVE  Secured(w, i)'
      <3>1. i \in Id /\ Secured(w, i)
        BY DEF AllSecured, TypeOK, LocalVocab
      <3> QED
        BY <1>4, <1>7, <1>12, <3>1, KeepsSecured
    <2>2. Secured(v, id)'
      BY <1>1, <1>2, <1>7 DEF Secured
    <2> QED
      BY <1>4, <2>1, <2>2 DEF AllSecured
  <1>14. FileComplete'
    BY <1>3, <1>11, <1>12, KeepsFile
  <1>15. FromFile'
    BY <1>3, <1>4 DEF FromFile
  <1> QED
    BY <1>5, <1>6, <1>8, <1>10, <1>13, <1>14, <1>15

\* A vocabulary goes away, or registers the set of its next entry; the sets
\* without an owner expire.  S are the sets before that, with one that has
\* just been created if it is new.
LEMMA OwnersChange ==
    ASSUME IInv, NEW v \in Vocab, NEW S \in [BlockSet -> Blocks],
           \A t \in BlockSet : sets[t].state # "none" => S[t] = sets[t],
           \A t \in BlockSet : IF S[t].state = "none" THEN S[t].blocks = <<>>
                                                      ELSE S[t].uuid \in 1 .. drawn,
           \A t \in BlockSet :
               S[t].state = "live" \/ (S[t].state = "dying" /\ ~raced') =>
                   S[t].uuid \in DOMAIN managed' /\ managed'[S[t].uuid] = t,
           \A u \in DOMAIN managed' :
               /\ managed'[u] \in BlockSet
               /\ S[managed'[u]].state # "none" /\ S[managed'[u]].uuid = u,
           sets' = Expire(S, vocabs'), UNCHANGED <<file, drawn>>,
           \/ vocabs' = [vocabs EXCEPT ![v] = NoVocab]
           \/ /\ vocabs[v].pending # <<>>
              /\ \E s \in BlockSet :
                    /\ vocabs' = Registered(v, s) /\ S[s].state = "live"
                    /\ \A id \in vocabs[v].ids :
                          id[1] \in ToSet(Head(vocabs[v].pending).indices) =>
                              id[1] \in BlocksOf(s)' /\ (Growing(s)' => IssuedBy(s, id)')
    PROVE  /\ sets' \in [BlockSet -> Blocks] /\ vocabs' \in [Vocab -> LocalVocab]
           /\ \A t \in BlockSet : sets'[t].blocks = S[t].blocks
           /\ Shape' /\ Owned' /\ AllSecured' /\ FileComplete' /\ FromFile'
  <1> USE DEF IInv
  <1>1. /\ vocabs' \in [Vocab -> LocalVocab]
        /\ \A w \in Vocab \ {v} : vocabs'[w] = vocabs[w]
        /\ vocabs'[v].primary \in {None, vocabs[v].primary}
        /\ \A w \in Vocab : vocabs'[w].ids \subseteq vocabs[w].ids
    BY DroppedFacts, RegisteredFacts DEF NoVocab
  <1>2. /\ sets' \in [BlockSet -> Blocks]
        /\ \A t \in BlockSet :
              /\ sets'[t].uuid = S[t].uuid /\ sets'[t].blocks = S[t].blocks
              /\ sets'[t].state = "none" <=> S[t].state = "none"
              /\ sets'[t].state = "live" => S[t].state = "live"
              /\ \A w \in Vocab : t = vocabs'[w].primary \/ t \in vocabs'[w].others =>
                    sets'[t] = S[t]
    BY <1>1, ExpireFacts
  <1>3. \A t \in BlockSet : sets'[t].state \in {"none", "live", "dying"}
                            /\ S[t].state \in {"none", "live", "dying"}
    BY <1>2 DEF Blocks
  <1>4. Shape'
    <2>1. \A w \in Vocab : vocabs'[w].primary = None => vocabs'[w] = NoVocab
      <3>1. CASE vocabs' = [vocabs EXCEPT ![v] = NoVocab]
        BY <3>1, DroppedFacts DEF Shape, Exists
      <3>2. CASE vocabs[v].pending # <<>> /\ \E s \in BlockSet : vocabs' = Registered(v, s)
        <4>1. vocabs[v].primary # None
          BY <3>2 DEF Shape, Exists, NoVocab
        <4>2. vocabs'[v].primary = vocabs[v].primary
          BY <3>2, RegisteredFacts
        <4> QED
          BY <1>1, <4>1, <4>2 DEF Shape, Exists
      <3> QED
        BY <3>1, <3>2
    <2> QED
      BY <1>2, <2>1 DEF Shape, Exists
  <1>5. ASSUME NEW w \in Vocab, NEW t \in Refs(w)'
        PROVE  t \in BlockSet /\ S[t].state = "live" /\ sets'[t].state = "live"
    <2>1. /\ t \in BlockSet
          /\ t = vocabs'[w].primary \/ t \in vocabs'[w].others
      BY <1>1 DEF Refs, LocalVocab
    <2>2. t \in Refs(w) \/ S[t].state = "live"
      <3>1. CASE w # v
        BY <1>1, <3>1 DEF Refs
      <3>2. CASE vocabs' = [vocabs EXCEPT ![v] = NoVocab] /\ w = v
        BY <3>2, <2>1, DroppedFacts, BlankNodesAssumption DEF NoVocab
      <3>3. CASE vocabs[v].pending # <<>> /\ w = v
                 /\ \E s \in BlockSet : vocabs' = Registered(v, s) /\ S[s].state = "live"
        <4>1. PICK s \in BlockSet : vocabs' = Registered(v, s) /\ S[s].state = "live"
          BY <3>3
        <4>2. t = vocabs[v].primary \/ t \in vocabs[v].others \/ t = s
          BY <2>1, <3>3, <4>1, RegisteredFacts
        <4> QED
          BY <2>1, <3>3, <4>1, <4>2, BlankNodesAssumption DEF Refs
      <3> QED
        BY <3>1, <3>2, <3>3
    <2>3. S[t].state = "live"
      <3>1. CASE t \in Refs(w)
        <4>1. sets[t].state = "live"
          BY <3>1 DEF Owned
        <4> QED
          BY <2>1, <4>1
      <3> QED
        BY <2>2, <3>1
    <2> QED
      BY <1>2, <2>1, <2>3
  <1>6. Owned'
    BY <1>2, <1>3, <1>5 DEF Owned
  <1>7. \A t \in BlockSet : Growing(t)' => Growing(t)
    BY <1>1, BlankNodesAssumption DEF Growing
  <1>8. Keeps
    <2> SUFFICES ASSUME NEW t \in BlockSet, sets[t].state = "live"
                 PROVE  /\ sets'[t].uuid = sets[t].uuid
                        /\ BlocksOf(t) \subseteq BlocksOf(t)'
                        /\ \A id \in Id : IssuedBy(t, id) => IssuedBy(t, id)'
      BY <1>7 DEF Keeps
    <2>1. sets'[t].blocks = sets[t].blocks /\ sets'[t].uuid = sets[t].uuid
      BY <1>2
    <2> QED
      BY <2>1, SameBlocks
  <1>9. AllSecured'
    <2> SUFFICES ASSUME NEW w \in Vocab, NEW id \in vocabs'[w].ids
                 PROVE  Secured(w, id)'
      BY DEF AllSecured
    <2>1. id \in vocabs[w].ids /\ id \in Id /\ Secured(w, id)
      BY <1>1 DEF AllSecured, TypeOK, LocalVocab
    <2>2. CASE w # v
      <3>1. vocabs'[w] = vocabs[w] /\ \A t \in Refs(w) : t \in Refs(w)'
        BY <1>1, <2>2 DEF Refs
      <3> QED
        BY <1>8, <2>1, <3>1, KeepsSecured
    <2>3. CASE w = v /\ vocabs' = [vocabs EXCEPT ![v] = NoVocab]
      BY <2>3, DroppedFacts DEF NoVocab
    <2>4. ASSUME w = v, vocabs[v].pending # <<>>, NEW s \in BlockSet,
                 vocabs' = Registered(v, s),
                 id[1] \in ToSet(Head(vocabs[v].pending).indices) =>
                     id[1] \in BlocksOf(s)' /\ (Growing(s)' => IssuedBy(s, id)')
          PROVE  Secured(w, id)'
      <3> DEFINE P == vocabs[v].pending
      <3>1. /\ vocabs'[v].pending = Tail(P) /\ vocabs'[v].others = vocabs[v].others \cup {s}
            /\ vocabs'[v].primary = vocabs[v].primary
        BY <2>4, RegisteredFacts
      <3>2. \A t \in Refs(v) \cup {s} : t \in Refs(v)'
        BY <3>1, BlankNodesAssumption DEF Refs
      <3>3. P \in Seq(FileEntry) /\ P # <<>>
        BY <2>4, NextEntry
      <3>4. CASE \E t \in Refs(v) : id[1] \in BlocksOf(t) /\ (Growing(t) => IssuedBy(t, id))
        <4>1. PICK t \in Refs(v) : id[1] \in BlocksOf(t) /\ (Growing(t) => IssuedBy(t, id))
          BY <3>4
        <4>2. t \in BlockSet /\ sets[t].state = "live"
          BY RefsType DEF Owned
        <4>3. id[1] \in BlocksOf(t)' /\ (Growing(t)' => IssuedBy(t, id)')
          BY <1>8, <2>1, <4>1, <4>2 DEF Keeps
        <4> QED
          BY <2>4, <3>2, <4>3 DEF Secured
      <3>5. ASSUME NEW n \in DOMAIN P, id[1] \in ToSet(P[n].indices)
            PROVE  Secured(w, id)'
        <4>1. CASE n = 1
          <5>1. P[n] = Head(vocabs[v].pending)
            BY <3>3, <4>1
          <5> QED
            BY <2>4, <3>2, <3>5, <5>1 DEF Secured
        <4>2. CASE n # 1
          <5>1. n - 1 \in DOMAIN Tail(P) /\ Tail(P)[n - 1] = P[n]
            BY <3>3, <3>5, <4>2
          <5> QED
            BY <2>4, <3>1, <3>5, <5>1 DEF Secured
        <4> QED
          BY <4>1, <4>2
      <3> QED
        BY <2>1, <2>4, <3>4, <3>5 DEF Secured
    <2> QED
      BY <2>1, <2>2, <2>3, <2>4
  <1>10. FileComplete'
    BY <1>7, <1>8, KeepsFile
  <1>11. FromFile'
    <2> SUFFICES ASSUME NEW w \in Vocab, vocabs'[w].pending # <<>>
                 PROVE  /\ file # None /\ vocabs'[w].ids \subseteq file.ids
                        /\ \A n \in DOMAIN vocabs'[w].pending :
                              \E m \in DOMAIN file.entries :
                                 vocabs'[w].pending[n] = file.entries[m]
      BY DEF FromFile
    <2>1. CASE w # v
      BY <1>1, <2>1 DEF FromFile
    <2>2. CASE w = v /\ vocabs' = [vocabs EXCEPT ![v] = NoVocab]
      BY <2>2, DroppedFacts DEF NoVocab
    <2>3. ASSUME w = v, vocabs[v].pending # <<>>, NEW s \in BlockSet,
                 vocabs' = Registered(v, s)
          PROVE  /\ file # None /\ vocabs'[w].ids \subseteq file.ids
                 /\ \A n \in DOMAIN vocabs'[w].pending :
                       \E m \in DOMAIN file.entries :
                          vocabs'[w].pending[n] = file.entries[m]
      <3> DEFINE P == vocabs[v].pending
      <3>1. vocabs'[v].pending = Tail(P) /\ P \in Seq(FileEntry) /\ P # <<>>
        BY <2>3, RegisteredFacts, NextEntry
      <3>2. ASSUME NEW n \in DOMAIN Tail(P)
            PROVE  n + 1 \in DOMAIN P /\ Tail(P)[n] = P[n + 1]
        BY <3>1
      <3> QED
        BY <1>1, <2>3, <3>1, <3>2 DEF FromFile
    <2> QED
      BY <2>1, <2>2, <2>3
  <1> QED
    BY <1>1, <1>2, <1>4, <1>6, <1>9, <1>10, <1>11

\* Dropping a vocabulary keeps the invariant.
LEMMA DropKeeps ==
    ASSUME IInv, NEW v \in Vocab, Drop(v)
    PROVE  IInv'
  <1> USE DEF IInv
  <1>1. /\ sets \in [BlockSet -> Blocks] /\ sets' = Expire(sets, vocabs')
        /\ vocabs' = [vocabs EXCEPT ![v] = NoVocab]
        /\ UNCHANGED <<used, managed, file, fault, raced, drawn>>
    BY DEF Drop, TypeOK
  <1>2. /\ sets' \in [BlockSet -> Blocks] /\ vocabs' \in [Vocab -> LocalVocab]
        /\ \A t \in BlockSet : sets'[t].blocks = sets[t].blocks
        /\ Shape' /\ Owned' /\ AllSecured' /\ FileComplete' /\ FromFile'
    BY <1>1, OwnersChange DEF Shape, Owned, TypeOK
  <1>3. BlocksAccounted'
    BY <1>1, <1>2, SameBlocks, SameAccounts
  <1>4. TypeOK'
    BY <1>1, <1>2 DEF TypeOK
  <1> QED
    BY <1>2, <1>3, <1>4

\* So does registering a set of the result that is still alive.
LEMMA RegisterExistingKeeps ==
    ASSUME IInv, NEW v \in Vocab, vocabs[v].pending # <<>>,
           RegisterExisting(v, Head(vocabs[v].pending)), UNCHANGED <<file, fault, drawn>>
    PROVE  IInv'
  <1> USE DEF IInv
  <1> DEFINE e == Head(vocabs[v].pending)
             s == managed[e.uuid]
  <1>1. /\ sets \in [BlockSet -> Blocks] /\ sets' = Expire(sets, vocabs')
        /\ UNCHANGED <<used, managed, file, fault, raced, drawn>>
        /\ e.uuid \in DOMAIN managed /\ sets[s].state = "live"
        /\ vocabs' = IF e.indices = Entry(s).indices THEN Registered(v, s)
                                                     ELSE NotRegistered(v)
    BY DEF RegisterExisting, TypeOK
  <1>2. s \in BlockSet
    BY <1>1 DEF TypeOK
  <1> HIDE DEF e, s
  <1>0. /\ \A t \in BlockSet : IF sets[t].state = "none" THEN sets[t].blocks = <<>>
                                                       ELSE sets[t].uuid \in 1 .. drawn
        /\ \A t \in BlockSet :
              sets[t].state = "live" \/ (sets[t].state = "dying" /\ ~raced') =>
                  sets[t].uuid \in DOMAIN managed' /\ managed'[sets[t].uuid] = t
        /\ \A u \in DOMAIN managed' :
              /\ managed'[u] \in BlockSet
              /\ sets[managed'[u]].state # "none" /\ sets[managed'[u]].uuid = u
        /\ \A t \in BlockSet : sets[t].state # "none" => sets[t] = sets[t]
        /\ UNCHANGED <<file, drawn>>
        /\ sets \in [BlockSet -> Blocks] /\ sets' = Expire(sets, vocabs')
    BY <1>1 DEF Shape, Owned, TypeOK
  <1>3. /\ Shape' /\ Owned' /\ AllSecured' /\ FileComplete' /\ FromFile'
        /\ sets' \in [BlockSet -> Blocks] /\ vocabs' \in [Vocab -> LocalVocab]
        /\ \A t \in BlockSet : sets'[t].blocks = sets[t].blocks
    <2>1. CASE vocabs' = NotRegistered(v)
      <3>1. vocabs' = [vocabs EXCEPT ![v] = NoVocab]
        BY <2>1 DEF NotRegistered
      <3> QED
        BY <1>0, <3>1, OwnersChange
    <2>2. CASE vocabs' = Registered(v, s) /\ e.indices = Entry(s).indices
      <3>0. PICK x \in BlockSet : x = s
        BY <1>2
      <3>1. ASSUME NEW id \in vocabs[v].ids, id[1] \in ToSet(e.indices)
            PROVE  id[1] \in BlocksOf(x)' /\ (Growing(x)' => IssuedBy(x, id)')
        <4>1. vocabs' \in [Vocab -> LocalVocab] /\ id \in Id
          BY <2>2, <1>2, RegisteredFacts DEF TypeOK, LocalVocab
        <4>2. sets'[x].blocks = sets[x].blocks
          BY <1>1, <4>1, ExpireFacts
        <4>3. /\ BlocksOf(x)' = BlocksOf(x) /\ (IssuedBy(x, id) => IssuedBy(x, id)')
          BY <4>1, <4>2, SameBlocks
        <4>4. id[1] \in BlocksOf(x)
          BY <2>2, <3>0, <3>1, EntryBlocks
        <4>5. Growing(x)' => Growing(x)
          <5>1. vocabs' = Registered(v, x)
            BY <2>2, <3>0
          <5>2. \A w \in Vocab : vocabs'[w].primary = vocabs[w].primary
            BY <5>1, RegisteredFacts
          <5> QED
            BY <5>2 DEF Growing
        <4>6. Growing(x) => IssuedBy(x, id)
          <5>1. /\ file # None /\ id \in file.ids
                /\ \E m \in DOMAIN file.entries : e = file.entries[m]
            BY NextEntry DEF FromFile, e
          <5>2. sets[x].uuid = e.uuid
            BY <1>1, <3>0 DEF Owned, s
          <5> QED
            BY <3>1, <5>1, <5>2 DEF FileComplete
        <4> QED
          BY <4>3, <4>4, <4>5, <4>6
      <3>2. vocabs' = Registered(v, x) /\ sets[x].state = "live"
        BY <1>1, <2>2, <3>0
      <3>3. /\ vocabs[v].pending # <<>>
            /\ \E y \in BlockSet :
                  /\ vocabs' = Registered(v, y) /\ sets[y].state = "live"
                  /\ \A id \in vocabs[v].ids :
                        id[1] \in ToSet(Head(vocabs[v].pending).indices) =>
                            id[1] \in BlocksOf(y)' /\ (Growing(y)' => IssuedBy(y, id)')
        BY <3>1, <3>2 DEF e
      <3> QED
        BY <1>0, <3>3, OwnersChange, SMT
    <2> QED
      BY <1>1, <2>1, <2>2
  <1>4. BlocksAccounted'
    BY <1>1, <1>3, SameBlocks, SameAccounts
  <1>5. TypeOK'
    BY <1>1, <1>3 DEF TypeOK
  <1> QED
    BY <1>3, <1>4, <1>5

\* What a vocabulary registers next is an entry of the result on disk, so that
\* its UUID has been drawn.
LEMMA EntryDrawn ==
    ASSUME IInv, NEW v \in Vocab, vocabs[v].pending # <<>>
    PROVE  Head(vocabs[v].pending).uuid \in 1 .. drawn
  BY NextEntry DEF IInv, FromFile, FileComplete

\* Registering a set that has to be created, with the blocks of the result, or
\* those of them that are free if some are not.
LEMMA RegisterNewKeeps ==
    ASSUME IInv, NEW v \in Vocab, vocabs[v].pending # <<>>,
           RegisterNew(v, Head(vocabs[v].pending)), UNCHANGED <<file, fault, drawn>>
    PROVE  IInv'
  <1> USE DEF IInv, SetCreated
  <1>1. PICK e \in FileEntry : e = Head(vocabs[v].pending)
    BY NextEntry
  <1>2. RegisterNew(v, e)
    BY <1>1
  <1>3. PICK s \in BlockSet, S \in [BlockSet -> Blocks], N \in SUBSET Block :
           SetCreated(v, e, s, S, N)
    BY <1>2, RegisterNewEffects
  <1>4. ~raced' => ~raced /\ e.uuid \notin DOMAIN managed
    BY <1>3, Zenon
  <1>5. /\ DOMAIN managed' = DOMAIN managed \cup {e.uuid} /\ managed'[e.uuid] = s
        /\ \A u \in DOMAIN managed : u # e.uuid => managed'[u] = managed[u]
        /\ e.uuid \in 1 .. drawn
    BY <1>1, <1>3, EntryDrawn DEF Put
  <1>6. \A t \in BlockSet : sets[t].state # "none" => S[t] = sets[t]
    BY <1>3
  <1>7. \A t \in BlockSet : IF S[t].state = "none" THEN S[t].blocks = <<>>
                                                   ELSE S[t].uuid \in 1 .. drawn
    BY <1>3, <1>5 DEF Shape
  <1>8. ASSUME NEW t \in BlockSet, S[t].state = "live" \/ (S[t].state = "dying" /\ ~raced')
        PROVE  S[t].uuid \in DOMAIN managed' /\ managed'[S[t].uuid] = t
    <2>1. CASE t = s
      BY <1>3, <1>5, <2>1
    <2>2. CASE t # s
      <3>1. S[t] = sets[t]
        BY <1>3, <2>2
      <3>2. sets[t].uuid \in DOMAIN managed /\ managed[sets[t].uuid] = t
        BY <1>4, <1>8, <3>1 DEF Owned
      <3>3. sets[t].uuid # e.uuid
        BY <1>3, <1>4, <1>8, <3>1, <3>2
      <3> QED
        BY <1>5, <3>1, <3>2, <3>3
    <2> QED
      BY <2>1, <2>2
  <1>9. \A u \in DOMAIN managed' :
           /\ managed'[u] \in BlockSet
           /\ S[managed'[u]].state # "none" /\ S[managed'[u]].uuid = u
    <2>1. \A u \in DOMAIN managed :
             /\ managed[u] \in BlockSet \ {s}
             /\ sets[managed[u]].state # "none" /\ sets[managed[u]].uuid = u
      BY <1>3 DEF Owned, TypeOK
    <2> QED
      BY <1>3, <1>5, <2>1
  <1>10. vocabs' \in [Vocab -> LocalVocab]
    BY <1>3, RegisteredFacts, DroppedFacts DEF NotRegistered
  <1>11. \A t \in BlockSet : sets'[t].blocks = S[t].blocks
    BY <1>3, <1>10, ExpireFacts
  <1>12. BlocksOf(s)' = N
    BY <1>3, <1>11 DEF BlocksOf
  <1>13. \A t \in BlockSet \ {s} : BlocksOf(t)' = BlocksOf(t)
    BY <1>3, <1>11, SameBlocks
  <1>14. /\ Shape' /\ Owned' /\ AllSecured' /\ FileComplete' /\ FromFile'
         /\ sets' \in [BlockSet -> Blocks]
    <2>0. /\ UNCHANGED <<file, drawn>> /\ sets' = Expire(S, vocabs')
          /\ \A t \in BlockSet :
                S[t].state = "live" \/ (S[t].state = "dying" /\ ~raced') =>
                   S[t].uuid \in DOMAIN managed' /\ managed'[S[t].uuid] = t
      BY <1>3, <1>8
    <2>1. CASE vocabs' = NotRegistered(v)
      <3>1. vocabs' = [vocabs EXCEPT ![v] = NoVocab]
        BY <2>1 DEF NotRegistered
      <3> QED
        BY <1>6, <1>7, <1>9, <2>0, <3>1, OwnersChange, Zenon
    <2>2. CASE vocabs' = Registered(v, s) /\ N = ToSet(e.indices)
      <3>1. ~Growing(s)'
        <4>1. \A w \in Vocab : vocabs'[w].primary = vocabs[w].primary
          BY <2>2, RegisteredFacts
        <4> QED
          BY <1>3, <4>1, GrowingLive DEF Growing
      <3>2. /\ vocabs[v].pending # <<>>
            /\ \E y \in BlockSet :
                  /\ vocabs' = Registered(v, y) /\ S[y].state = "live"
                  /\ \A id \in vocabs[v].ids :
                        id[1] \in ToSet(Head(vocabs[v].pending).indices) =>
                            id[1] \in BlocksOf(y)' /\ (Growing(y)' => IssuedBy(y, id)')
        BY <1>1, <1>3, <1>12, <2>2, <3>1
      <3> QED
        BY <1>6, <1>7, <1>9, <2>0, <3>2, OwnersChange, SMT
    <2> QED
      BY <1>3, <2>1, <2>2
  <1>15. BlocksAccounted'
    <2>1. ~fault' /\ used' = used \cup N /\ N \cap used = {}
      BY <1>3, Zenon DEF BlocksAccounted
    <2>2. \A t \in BlockSet : BlocksOf(t) \subseteq used
      BY DEF BlocksAccounted
    <2>3. \A t, u \in BlockSet : t # u => (BlocksOf(t) \intersect BlocksOf(u))' = {}
      BY <1>12, <1>13, <2>1, <2>2 DEF BlocksAccounted
    <2>4. UNION {BlocksOf(t)' : t \in BlockSet} \subseteq used'
      BY <1>12, <1>13, <2>1, <2>2
    <2>5. BlocksOf(s) = {}
      BY <1>3 DEF Shape, BlocksOf
    <2>6. used \subseteq UNION {BlocksOf(t) : t \in BlockSet} =>
             used' \subseteq UNION {BlocksOf(t)' : t \in BlockSet}
      BY <1>12, <1>13, <2>1, <2>5
    <2>7. raced' \/ used' \subseteq UNION {BlocksOf(t)' : t \in BlockSet}
      BY <1>4, <2>6, Zenon DEF BlocksAccounted
    <2> QED
      BY <2>1, <2>3, <2>4, <2>7, Zenon DEF BlocksAccounted
  <1>16. TypeOK'
    BY <1>3, <1>5, <1>9, <1>10, <1>14 DEF TypeOK
  <1> QED
    BY <1>14, <1>15, <1>16

\* A set whose destructor runs gives back its blocks, and its UUID unless that
\* has been given to another set.
LEMMA FreeKeeps ==
    ASSUME IInv, NEW s \in BlockSet, freeBlockSet(s)
    PROVE  IInv'
  <1> USE DEF IInv
  <1>1. /\ sets[s].state = "dying" /\ sets' = [sets EXCEPT ![s] = NoSet]
        /\ UNCHANGED <<vocabs, file, raced, drawn>>
    BY DEF freeBlockSet
  <1>2. /\ sets' \in [BlockSet -> Blocks] /\ sets'[s] = NoSet
        /\ \A t \in BlockSet \ {s} : sets'[t] = sets[t]
        /\ sets'[s].state = "none" /\ sets'[s].blocks = <<>>
    BY <1>1, EmptyTypes DEF TypeOK, NoSet
  <1>3. PICK u : u = sets[s].uuid
    OBVIOUS
  <1>4. \A t \in BlockSet \ {s} : /\ BlocksOf(t)' = BlocksOf(t)
                                  /\ \A id \in Id : IssuedBy(t, id)' <=> IssuedBy(t, id)
    BY <1>2, SameBlocks
  <1>5. BlocksOf(s)' = {}
    BY <1>2 DEF BlocksOf
  <1>6. \A w \in Vocab : Refs(w)' = Refs(w) /\ s \notin Refs(w)
    BY <1>1 DEF Refs, Owned
  <1>7. \/ u \notin DOMAIN managed /\ UNCHANGED <<used, managed, fault>>
        \/ /\ u \in DOMAIN managed
           /\ managed' = IF sets[managed[u]].state # "live" THEN Without(managed, u)
                                                            ELSE managed
           /\ fault' = (fault \/ ~(BlocksOf(s) \subseteq used))
           /\ used' = used \ BlocksOf(s)
    BY <1>3, Zenon DEF freeBlockSet
  <1>8. ~fault'
    <2>1. BlocksOf(s) \subseteq used
      BY DEF BlocksAccounted
    <2> QED
      BY <1>7, <2>1, Zenon DEF BlocksAccounted
  <1>9. /\ DOMAIN managed' \subseteq DOMAIN managed
        /\ \A x \in DOMAIN managed' : managed'[x] = managed[x]
        /\ \A x \in DOMAIN managed : x \in DOMAIN managed' \/
              (x = u /\ sets[managed[x]].state # "live")
    BY <1>7 DEF Without
  <1>10. \A x \in DOMAIN managed' : managed'[x] \in BlockSet \ {s}
    <2> SUFFICES ASSUME NEW x \in DOMAIN managed', managed[x] = s
                 PROVE  FALSE
      BY <1>9 DEF TypeOK
    <2>1. x = u /\ u \in DOMAIN managed
      BY <1>3, <1>9 DEF Owned
    <2>2. sets[managed[u]].state # "live"
      BY <1>1, <2>1
    <2>3. managed' = Without(managed, u)
      BY <1>7, <2>1, <2>2
    <2> QED
      BY <2>1, <2>3 DEF Without
  <1>11. TypeOK'
    BY <1>1, <1>2, <1>7, <1>9, <1>10 DEF TypeOK
  <1>12. Shape'
    BY <1>1, <1>2 DEF Shape, Exists
  <1>13. Owned'
    <2>1. \A w \in Vocab : \A t \in Refs(w)' : sets'[t].state = "live"
      BY <1>2, <1>6, RefsType DEF Owned
    <2>2. ASSUME NEW t \in BlockSet,
                 sets'[t].state = "live" \/ (sets'[t].state = "dying" /\ ~raced')
          PROVE  sets'[t].uuid \in DOMAIN managed' /\ managed'[sets'[t].uuid] = t
      <3>1. t # s /\ sets'[t] = sets[t]
        BY <1>2, <2>2
      <3>2. sets[t].uuid \in DOMAIN managed /\ managed[sets[t].uuid] = t
        BY <1>1, <2>2, <3>1 DEF Owned
      <3>3. sets[t].uuid \in DOMAIN managed'
        <4>1. CASE sets[t].state = "live"
          BY <1>9, <3>2, <4>1
        <4>2. CASE sets[t].state = "dying" /\ ~raced
          <5>1. u \in DOMAIN managed /\ managed[u] = s
            BY <1>1, <1>3, <4>2 DEF Owned
          <5> QED
            BY <1>9, <3>1, <3>2, <5>1
        <4> QED
          BY <1>1, <2>2, <3>1, <4>1, <4>2
      <3> QED
        BY <1>9, <3>1, <3>2, <3>3
    <2>3. \A x \in DOMAIN managed' :
             sets'[managed'[x]].state # "none" /\ sets'[managed'[x]].uuid = x
      BY <1>2, <1>9, <1>10 DEF Owned
    <2> QED
      BY <2>1, <2>2, <2>3 DEF Owned
  <1>14. BlocksAccounted'
    <2>1. \A t \in BlockSet : BlocksOf(t) \subseteq used
      BY DEF BlocksAccounted
    <2>2. \A t, x \in BlockSet : t # x => (BlocksOf(t) \intersect BlocksOf(x))' = {}
      BY <1>4, <1>5 DEF BlocksAccounted
    <2>3. \A t \in BlockSet \ {s} : BlocksOf(t) \cap BlocksOf(s) = {}
      BY DEF BlocksAccounted
    <2>4. \A t \in BlockSet : BlocksOf(t)' \subseteq used'
      BY <1>4, <1>5, <1>7, <2>1, <2>3
    <2>5. UNION {BlocksOf(t)' : t \in BlockSet} \subseteq used'
      BY <2>4
    <2>6. ~raced => used' = used \ BlocksOf(s)
      <3>1. ~raced => u \in DOMAIN managed
        BY <1>1, <1>3 DEF Owned
      <3> QED
        BY <1>7, <3>1
    <2>7. used \subseteq UNION {BlocksOf(t) : t \in BlockSet} =>
             used \ BlocksOf(s) \subseteq UNION {BlocksOf(t)' : t \in BlockSet}
      BY <1>4
    <2>8. raced' \/ used' \subseteq UNION {BlocksOf(t)' : t \in BlockSet}
      BY <1>1, <2>6, <2>7, Zenon DEF BlocksAccounted
    <2> QED
      BY <1>8, <2>2, <2>5, <2>8, Zenon DEF BlocksAccounted
  <1>15. \A t \in BlockSet : Growing(t)' => Growing(t)
    BY <1>1 DEF Growing
  <1>16. Keeps
    BY <1>1, <1>2, <1>4, <1>15 DEF Keeps
  <1>17. AllSecured'
    <2> SUFFICES ASSUME NEW w \in Vocab, NEW id \in vocabs'[w].ids
                 PROVE  Secured(w, id)'
      BY DEF AllSecured
    <2>1. vocabs' = vocabs /\ id \in Id /\ Secured(w, id)
      BY <1>1 DEF AllSecured, TypeOK, LocalVocab
    <2> QED
      BY <1>6, <1>16, <2>1, KeepsSecured
  <1>18. FileComplete'
    BY <1>1, <1>15, <1>16, KeepsFile
  <1>19. FromFile'
    BY <1>1 DEF FromFile
  <1> QED
    BY <1>11, <1>12, <1>13, <1>14, <1>17, <1>18, <1>19

\* A vocabulary that has registered all its sets has each of its indices in
\* one of them.
LEMMA SecuredByRefs ==
    ASSUME TypeOK, AllSecured, NEW v \in Vocab, vocabs[v].pending = <<>>,
           NEW id \in vocabs[v].ids
    PROVE  /\ id \in Id
           /\ \E s \in Refs(v) : id[1] \in BlocksOf(s) /\ (Growing(s) => IssuedBy(s, id))
  <1>1. id \in Id /\ Secured(v, id)
    BY DEF TypeOK, LocalVocab, AllSecured
  <1>2. DOMAIN vocabs[v].pending = {}
    OBVIOUS
  <1> QED
    BY <1>1, <1>2 DEF Secured

\* mergeWith takes over the sets together with the indices.
LEMMA MergeKeeps ==
    ASSUME IInv, NEW v \in Vocab, NEW w \in Vocab, MergeWith(v, w)
    PROVE  IInv'
  <1> USE DEF IInv
  <1>1. /\ UNCHANGED <<used, managed, sets, file, fault, raced, drawn>>
        /\ vocabs[v].pending = <<>> /\ vocabs[w].pending = <<>> /\ v # w
        /\ vocabs[v].primary # None
        /\ vocabs' = [vocabs EXCEPT ![v].others = @ \cup Refs(w),
                                    ![v].ids = @ \cup vocabs[w].ids]
    BY DEF MergeWith, managerVars, Complete, Exists
  <1>2. /\ vocabs' \in [Vocab -> LocalVocab]
        /\ vocabs'[v].others = vocabs[v].others \cup Refs(w)
        /\ vocabs'[v].ids = vocabs[v].ids \cup vocabs[w].ids
        /\ \A x \in Vocab : /\ vocabs'[x].primary = vocabs[x].primary
                             /\ vocabs'[x].pending = vocabs[x].pending
        /\ \A x \in Vocab \ {v} : vocabs'[x] = vocabs[x]
    <2>1. Refs(w) \subseteq BlockSet
      BY RefsType
    <2> QED
      BY <1>1, <2>1 DEF TypeOK, LocalVocab
  <1>3. TypeOK'
    BY <1>1, <1>2 DEF TypeOK
  <1>4. Shape'
    BY <1>1, <1>2 DEF Shape, Exists
  <1>5. /\ Refs(v)' = Refs(v) \cup Refs(w)
        /\ \A x \in Vocab \ {v} : Refs(x)' = Refs(x)
    BY <1>2 DEF Refs
  <1>6. Owned'
    BY <1>1, <1>5 DEF Owned
  <1>7. \A s \in BlockSet : /\ BlocksOf(s)' = BlocksOf(s)
                            /\ \A id \in Id : IssuedBy(s, id)' <=> IssuedBy(s, id)
    BY <1>1, SameBlocks
  <1>8. BlocksAccounted'
    BY <1>1, <1>7, SameAccounts
  <1>9. \A s \in BlockSet : Growing(s)' <=> Growing(s)
    BY <1>2 DEF Growing
  <1>10. Keeps
    BY <1>1, <1>7, <1>9 DEF Keeps
  <1>11. AllSecured'
    <2>1. ASSUME NEW x \in Vocab, NEW id \in vocabs[x].ids
          PROVE  Secured(x, id)'
      <3>1. id \in Id /\ Secured(x, id)
        BY DEF AllSecured, TypeOK, LocalVocab
      <3>2. \A s \in Refs(x) : s \in Refs(x)'
        BY <1>5
      <3> QED
        BY <1>2, <1>10, <3>1, <3>2, KeepsSecured
    <2>2. ASSUME NEW id \in vocabs[w].ids
          PROVE  Secured(v, id)'
      <3>1. PICK s \in Refs(w) : id[1] \in BlocksOf(s) /\ (Growing(s) => IssuedBy(s, id))
        BY <1>1, SecuredByRefs
      <3>2. s \in BlockSet /\ id \in Id /\ s \in Refs(v)'
        BY <1>1, <1>5, RefsType, SecuredByRefs
      <3> QED
        BY <1>7, <1>9, <3>1, <3>2 DEF Secured
    <2> QED
      BY <1>2, <2>1, <2>2 DEF AllSecured
  <1>12. FileComplete'
    BY <1>1, <1>9, <1>10, KeepsFile
  <1>13. FromFile'
    BY <1>1, <1>2 DEF FromFile
  <1> QED
    BY <1>3, <1>4, <1>6, <1>8, <1>11, <1>12, <1>13

\* A set in use by a vocabulary is the only one of its UUID that is alive.
LEMMA OneLivingSet ==
    ASSUME Owned, NEW s \in BlockSet, NEW t \in BlockSet, sets[s].state = "live",
           sets[t].state = "live", sets[s].uuid = sets[t].uuid
    PROVE  s = t
  BY DEF Owned

\* The result that is written has the blocks of all its indices.
LEMMA WriteKeeps ==
    ASSUME IInv, NEW v \in Vocab, WriteResult(v)
    PROVE  IInv'
  <1> USE DEF IInv
  <1>1. /\ UNCHANGED <<used, managed, sets, vocabs, fault, raced, drawn>>
        /\ Exists(v) /\ vocabs[v].pending = <<>> /\ file = None
        /\ file' = [entries |-> getOwnedBlockIndices(v), ids |-> vocabs[v].ids]
    BY DEF WriteResult, managerVars, Complete
  <1>2. PICK E, I : E = getOwnedBlockIndices(v) /\ I = vocabs[v].ids
    OBVIOUS
  <1>3. file'.entries = E /\ file'.ids = I /\ file' = [entries |-> E, ids |-> I]
    BY <1>1, <1>2
  <1>4. /\ E \in Seq(FileEntry) /\ I \subseteq Id
        /\ \A n \in DOMAIN E : \E s \in Refs(v) : E[n] = Entry(s)
        /\ \A s \in Refs(v) : \E n \in DOMAIN E : E[n] = Entry(s)
    BY <1>1, <1>2, OwnedEntries DEF TypeOK, LocalVocab
  <1>5. TypeOK'
    BY <1>1, <1>3, <1>4 DEF TypeOK
  <1>6. Shape' /\ Owned'
    BY <1>1 DEF Shape, Owned, Exists, Refs
  <1>7. \A s \in BlockSet : /\ BlocksOf(s)' = BlocksOf(s)
                            /\ \A id \in Id : IssuedBy(s, id)' <=> IssuedBy(s, id)
    BY <1>1, SameBlocks
  <1>8. BlocksAccounted'
    BY <1>1, <1>7, SameAccounts
  <1>9. \A s \in BlockSet : Growing(s)' <=> Growing(s)
    BY <1>1 DEF Growing
  <1>10. \A w \in Vocab : Refs(w)' = Refs(w)
    BY <1>1 DEF Refs
  <1>11. AllSecured'
    <2>1. Keeps
      BY <1>1, <1>7, <1>9 DEF Keeps
    <2> SUFFICES ASSUME NEW w \in Vocab, NEW id \in vocabs'[w].ids
                 PROVE  Secured(w, id)'
      BY DEF AllSecured
    <2>2. vocabs' = vocabs /\ id \in Id /\ Secured(w, id)
      BY <1>1 DEF AllSecured, TypeOK, LocalVocab
    <2> QED
      BY <1>10, <2>1, <2>2, KeepsSecured
  <1>12. \A id \in I : /\ id \in Id
                       /\ \E s \in Refs(v) : /\ id[1] \in BlocksOf(s)
                                             /\ Growing(s) => IssuedBy(s, id)
    BY <1>1, <1>2, SecuredByRefs
  <1>13. FileComplete'
    <2>1. ASSUME NEW id \in I
          PROVE  \E n \in DOMAIN E : id[1] \in ToSet(E[n].indices)
      <3>1. PICK s \in Refs(v) : id[1] \in BlocksOf(s)
        BY <1>12
      <3>2. PICK n \in DOMAIN E : E[n] = Entry(s)
        BY <1>4
      <3>3. s \in BlockSet
        BY RefsType
      <3> QED
        BY <3>1, <3>2, <3>3, EntryBlocks
    <2>2. ASSUME NEW n \in DOMAIN E
          PROVE  /\ E[n].uuid \in 1 .. drawn
                 /\ \A s \in BlockSet : Growing(s) /\ sets[s].uuid = E[n].uuid =>
                       \A id \in I : id[1] \in ToSet(E[n].indices) => IssuedBy(s, id)
      <3>1. PICK t \in Refs(v) : E[n] = Entry(t)
        BY <1>4
      <3>2. t \in BlockSet /\ sets[t].state = "live" /\ E[n].uuid = sets[t].uuid
        BY <3>1, RefsType DEF Owned, Entry
      <3>3. E[n].uuid \in 1 .. drawn
        BY <3>2 DEF Shape
      <3>4. ASSUME NEW s \in BlockSet, Growing(s), sets[s].uuid = E[n].uuid,
                   NEW id \in I, id[1] \in ToSet(E[n].indices)
            PROVE  IssuedBy(s, id)
        <4>1. s = t
          BY <3>2, <3>4, GrowingLive, OneLivingSet
        <4>2. id[1] \in BlocksOf(t)
          BY <3>1, <3>2, <3>4, EntryBlocks
        <4>3. PICK r \in Refs(v) : id[1] \in BlocksOf(r) /\ (Growing(r) => IssuedBy(r, id))
          BY <1>12
        <4>4. r = t
          BY <3>2, <4>2, <4>3, RefsType DEF BlocksAccounted
        <4> QED
          BY <3>4, <4>1, <4>3, <4>4
      <3> QED
        BY <3>3, <3>4
    <2> QED
      BY <1>1, <1>3, <1>7, <1>9, <1>12, <2>1, <2>2 DEF FileComplete
  <1>14. FromFile'
    BY <1>1 DEF FromFile
  <1> QED
    BY <1>5, <1>6, <1>8, <1>11, <1>13, <1>14

\* A state in which there are no vocabularies and no sets: only the result on
\* disk matters.
Blank ==
    /\ used = {} /\ managed = <<>>
    /\ sets = [s \in BlockSet |-> NoSet]
    /\ vocabs = [v \in Vocab |-> NoVocab]

    /\ ~fault /\ drawn \in Nat
    /\ file # None =>
           /\ file \in [entries : Seq(FileEntry), ids : SUBSET Id]
           /\ \A id \in file.ids : \E n \in DOMAIN file.entries :
                 id[1] \in ToSet(file.entries[n].indices)
           /\ \A n \in DOMAIN file.entries : file.entries[n].uuid \in 1 .. drawn

\* Such a state satisfies the invariant.
LEMMA BlankFacts == Blank => IInv
  <1> SUFFICES ASSUME Blank PROVE IInv
    OBVIOUS
  <1>1. /\ DOMAIN managed = {}
        /\ \A s \in BlockSet : sets[s].state = "none" /\ sets[s].blocks = <<>>
        /\ \A v \in Vocab : /\ vocabs[v] = NoVocab /\ vocabs[v].primary = None
                            /\ vocabs[v].others = {} /\ vocabs[v].pending = <<>>
                            /\ vocabs[v].ids = {}
    BY DEF Blank, NoSet, NoVocab
  <1>2. sets \in [BlockSet -> Blocks] /\ vocabs \in [Vocab -> LocalVocab]
    BY EmptyTypes DEF Blank
  <1>3. TypeOK
    BY <1>1, <1>2 DEF TypeOK, Blank
  <1>4. Shape
    BY <1>1 DEF Shape
  <1>5. Owned
    BY <1>1 DEF Owned, Refs
  <1>6. \A s \in BlockSet : BlocksOf(s) = {}
    BY <1>1 DEF BlocksOf
  <1>7. BlocksAccounted
    <2>1. /\ \A s, t \in BlockSet : s # t => BlocksOf(s) \intersect BlocksOf(t) = {}
          /\ UNION {BlocksOf(s) : s \in BlockSet} \subseteq used
          /\ used \subseteq UNION {BlocksOf(s) : s \in BlockSet}
      BY <1>6 DEF Blank
    <2> QED
      BY <2>1, Zenon DEF BlocksAccounted, Blank
  <1>8. AllSecured /\ FromFile
    BY <1>1 DEF AllSecured, FromFile
  <1>9. \A s \in BlockSet : ~Growing(s)
    BY <1>1, BlankNodesAssumption DEF Growing
  <1>10. FileComplete
    BY <1>9 DEF FileComplete, Blank
  <1> QED
    BY <1>3, <1>4, <1>5, <1>7, <1>8, <1>10 DEF IInv

\* The invariant holds at first ...
LEMMA InitIInv == Init => IInv
  <1> SUFFICES ASSUME Init PROVE IInv
    OBVIOUS
  <1>1. ~fault
    BY Zenon DEF Init
  <1>2. Blank
    BY <1>1 DEF Init, Blank
  <1> QED
    BY <1>2, BlankFacts

\* ... and after a restart.
LEMMA RestartKeeps ==
    ASSUME IInv, Restart
    PROVE  IInv'
  <1>1. ~fault'
    BY Zenon DEF Restart, IInv, BlocksAccounted
  <1>2. Blank'
    BY <1>1 DEF Restart, Blank, IInv, TypeOK, FileComplete
  <1>3. (Blank => IInv)'
    BY BlankFacts, PTL
  <1> QED
    BY <1>2, <1>3

\* The invariant depends on these variables only.
LEMMA UnchangedIInv ==
    ASSUME IInv, UNCHANGED <<used, managed, sets, vocabs, file, fault, raced, drawn>>
    PROVE  IInv'
  <1> USE DEF IInv
  <1>1. TypeOK' /\ Shape' /\ Owned'
    BY DEF TypeOK, Shape, Owned, Exists, Refs
  <1>2. BlocksAccounted'
    BY SameBlocks, SameAccounts
  <1>3. AllSecured'
    BY DEF AllSecured, Secured, Refs, BlocksOf, Growing, IssuedBy
  <1>4. FileComplete'
    BY DEF FileComplete, Growing, IssuedBy
  <1>5. FromFile'
    BY DEF FromFile
  <1> QED
    BY <1>1, <1>2, <1>3, <1>4, <1>5

-----------------------------------------------------------------------------
\* Every step keeps the invariant.
LEMMA NextIInv == IInv /\ [Next]_vars => IInv'
  <1> SUFFICES ASSUME IInv, [Next]_vars PROVE IInv'
    OBVIOUS
  <1>1. ASSUME NEW v \in Vocab, CreateVocab(v)
        PROVE  IInv'
    <2>1. /\ <<>> \in Seq(FileEntry) /\ {} \in SUBSET Id /\ ~Exists(v)
          /\ CreateManager(v, {}, <<>>, {}) /\ UNCHANGED <<file, fault, raced>>
      BY <1>1 DEF CreateVocab
    <2> QED
      BY <2>1, CreateKeeps
  <1>2. ASSUME NEW v \in Vocab, ReadResult(v)
        PROVE  IInv'
    <2>1. /\ ~Exists(v) /\ file # None /\ CreateManager(v, {}, file.entries, file.ids)
          /\ UNCHANGED <<file, fault, raced>>
      BY <1>2 DEF ReadResult
    <2>2. file.entries \in Seq(FileEntry) /\ file.ids \in SUBSET Id
      BY <2>1 DEF IInv, TypeOK
    <2>3. \A id \in file.ids : \E n \in DOMAIN file.entries :
             id[1] \in ToSet(file.entries[n].indices)
      BY <2>1 DEF IInv, FileComplete
    <2> QED
      BY <2>1, <2>2, <2>3, CreateKeeps
  <1>3. ASSUME NEW v \in Vocab, GetIdThrows(v)
        PROVE  IInv'
    BY <1>3, UnchangedIInv DEF GetIdThrows
  <1>4. CASE UNCHANGED vars
    BY <1>4, UnchangedIInv DEF vars
  <1>5. ASSUME NEW v \in Vocab, Register(v)
        PROVE  IInv'
    BY <1>5, RegisterExistingKeeps, RegisterNewKeeps DEF Register
  <1> QED
    BY <1>1, <1>2, <1>3, <1>4, <1>5, GetIdKeeps, DropKeeps, WriteKeeps, MergeKeeps,
       FreeKeeps, RestartKeeps DEF Next

\* So it always holds.
LEMMA IInvAlways == Spec => []IInv
  BY InitIInv, NextIInv, PTL DEF Spec

\* THEOREM: every blank node that a vocabulary uses lies in a block that one of
\* the vocabulary's own sets keeps reserved, once it has registered its sets:
\* after merges, frees, restarts and results that are read back from disk.
THEOREM UsedIdsAreProtected == Spec => []IdsProtected
  <1>1. IInv => IdsProtected
    BY SecuredByRefs DEF IInv, IdsProtected
  <1> QED
    BY <1>1, IInvAlways, PTL

\* THEOREM: no block is held by two sets, the blocks of the sets are in use, no
\* destructor frees a block that is not, and unless a UUID was reinstated while
\* its old set was dying no block stays in use without a set.
THEOREM AllBlocksAccounted == Spec => []BlocksAccounted
  <1>1. IInv => BlocksAccounted
    BY DEF IInv
  <1> QED
    BY <1>1, IInvAlways, PTL

-----------------------------------------------------------------------------
\* No index is issued where blocks stay as they are or are new.
LEMMA NoneIssued ==
    ASSUME \A s \in BlockSet :
               \/ sets'[s].blocks = sets[s].blocks
               \/ \A n \in DOMAIN sets'[s].blocks : sets'[s].blocks[n].next = 0
    PROVE  (Issued' \ Issued) \cap Held = {}
  <1> SUFFICES ASSUME NEW id \in Issued'
               PROVE  id \in Issued
    OBVIOUS
  <1>1. id \in Id /\ id[2] \in Nat
    BY BlankNodesAssumption DEF Issued, Id
  <1>2. PICK s \in BlockSet : \E n \in DOMAIN sets'[s].blocks :
           sets'[s].blocks[n].idx = id[1] /\ id[2] < sets'[s].blocks[n].next
    BY DEF Issued
  <1>3. sets'[s].blocks = sets[s].blocks
    BY <1>1, <1>2
  <1> QED
    BY <1>1, <1>2, <1>3 DEF Issued

\* getId issues an index that no complete vocabulary uses: its block is new, or
\* it belongs to the set from which the index is taken, where all the indices
\* in use have been issued before.
LEMMA GetIdFresh ==
    ASSUME IInv, NEW v \in Vocab, GetId(v)
    PROVE  (Issued' \ Issued) \cap Held = {}
  <1> USE DEF IInv
  <1>0. PICK id \in Id : getId(v, id)
    BY DEF GetId
  <1>1. PICK s \in BlockSet : s = vocabs[v].primary /\ Growing(s)
    BY DEF GetId, Complete, Exists, TypeOK, LocalVocab, Growing
  <1>2. /\ \A t \in BlockSet \ {s} : sets'[t] = sets[t]
        /\ id[1] \notin used \/ id[1] \in BlocksOf(s)
        /\ \A i \in Id : IssuedBy(s, i)' => IssuedBy(s, i) \/ i = id
    BY <1>0, <1>1, GetIdEffects
  <1>3. /\ Issued = {i \in Id : \E t \in BlockSet : IssuedBy(t, i)}
        /\ Issued' = {i \in Id : \E t \in BlockSet : IssuedBy(t, i)'}
    BY DEF Issued, IssuedBy
  <1>4. Issued' \subseteq Issued \cup {id}
    BY <1>2, <1>3, SameBlocks
  <1>5. ASSUME id \in Held
        PROVE  id \in Issued
    <2>1. PICK w \in Vocab : Complete(w) /\ id \in vocabs[w].ids
      BY <1>5 DEF Held
    <2>2. PICK t \in Refs(w) : id[1] \in BlocksOf(t) /\ (Growing(t) => IssuedBy(t, id))
      BY <2>1, SecuredByRefs DEF Complete
    <2>3. t \in BlockSet
      BY RefsType
    <2>4. t = s
      BY <1>2, <2>2, <2>3 DEF BlocksAccounted
    <2> QED
      BY <1>1, <1>3, <2>2, <2>4
  <1> QED
    BY <1>4, <1>5

\* No step issues an index that is in use.
LEMMA FreshStep ==
    ASSUME IInv, [Next]_vars
    PROVE  [(Issued' \ Issued) \cap Held = {}]_vars
  <1> USE DEF IInv
  <1> SUFFICES ASSUME Next PROVE (Issued' \ Issued) \cap Held = {}
    OBVIOUS
  <1> DEFINE Goal == (Issued' \ Issued) \cap Held = {}
  <1>1. ASSUME NEW v \in Vocab, NEW p \in Seq(FileEntry), NEW ids \in SUBSET Id,
               CreateManager(v, {}, p, ids)
        PROVE  Goal
    <2>1. PICK s \in BlockSet :
             /\ sets'[s].blocks = <<>>
             /\ \A t \in BlockSet \ {s} : sets'[t] = sets[t]
      BY <1>1, CreateEffects DEF TypeOK
    <2>2. \A n \in DOMAIN sets'[s].blocks : sets'[s].blocks[n].next = 0
      BY <2>1
    <2> QED
      BY <2>1, <2>2, NoneIssued
  <1>2. ASSUME NEW v \in Vocab, CreateVocab(v)
        PROVE  Goal
    <2>1. /\ CreateManager(v, {}, <<>>, {})
          /\ <<>> \in Seq(FileEntry) /\ {} \in SUBSET Id
      BY <1>2 DEF CreateVocab
    <2> QED
      BY <1>1, <2>1, Zenon
  <1>3. ASSUME NEW v \in Vocab, ReadResult(v)
        PROVE  Goal
    BY <1>1, <1>3 DEF ReadResult, TypeOK
  <1>4. ASSUME NEW v \in Vocab, GetIdThrows(v)
        PROVE  Goal
    BY <1>4, NoneIssued DEF GetIdThrows
  <1>5. ASSUME NEW v \in Vocab, Drop(v)
        PROVE  Goal
    <2>1. vocabs' \in [Vocab -> LocalVocab] /\ sets' = Expire(sets, vocabs')
      BY <1>5, DroppedFacts DEF Drop
    <2>2. \A s \in BlockSet : sets'[s].blocks = sets[s].blocks
      BY <2>1, ExpireFacts DEF TypeOK
    <2> QED
      BY <2>2, NoneIssued
  <1>6. ASSUME NEW v \in Vocab, WriteResult(v)
        PROVE  Goal
    BY <1>6, NoneIssued DEF WriteResult, managerVars
  <1>7. ASSUME NEW v \in Vocab, NEW w \in Vocab, MergeWith(v, w)
        PROVE  Goal
    BY <1>7, NoneIssued DEF MergeWith, managerVars
  <1>8. ASSUME NEW s \in BlockSet, freeBlockSet(s)
        PROVE  Goal
    <2>1. sets' = [sets EXCEPT ![s] = NoSet]
      BY <1>8 DEF freeBlockSet
    <2>2. sets'[s].blocks = <<>> /\ \A t \in BlockSet \ {s} : sets'[t] = sets[t]
      BY <2>1 DEF TypeOK, NoSet
    <2>3. \A n \in DOMAIN sets'[s].blocks : sets'[s].blocks[n].next = 0
      BY <2>2
    <2> QED
      BY <2>2, <2>3, NoneIssued
  <1>9. CASE Restart
    <2>1. \A s \in BlockSet : sets'[s].blocks = <<>>
      BY <1>9 DEF Restart, NoSet
    <2>2. \A s \in BlockSet : \A n \in DOMAIN sets'[s].blocks : sets'[s].blocks[n].next = 0
      BY <2>1
    <2> QED
      BY <2>2, NoneIssued
  <1>10. ASSUME NEW v \in Vocab, Register(v)
         PROVE  Goal
    <2>0. vocabs[v].pending # <<>> /\ Head(vocabs[v].pending) \in FileEntry
      BY <1>10, NextEntry DEF Register
    <2>1. PICK e \in FileEntry : e = Head(vocabs[v].pending)
      BY <2>0
    <2>2. CASE RegisterExisting(v, e)
      <3>1. /\ e.uuid \in DOMAIN managed /\ sets' = Expire(sets, vocabs')
            /\ \/ vocabs' = Registered(v, managed[e.uuid])
               \/ vocabs' = [vocabs EXCEPT ![v] = NoVocab]
        BY <2>2 DEF RegisterExisting, NotRegistered
      <3>2. managed[e.uuid] \in BlockSet
        BY <3>1 DEF TypeOK
      <3>3. vocabs' \in [Vocab -> LocalVocab]
        BY <2>0, <3>1, <3>2, RegisteredFacts, DroppedFacts
      <3>4. \A s \in BlockSet : sets'[s].blocks = sets[s].blocks
        BY <3>1, <3>3, ExpireFacts DEF TypeOK
      <3> QED
        BY <3>4, NoneIssued
    <2>3. CASE RegisterNew(v, e)
      <3>1. PICK s \in BlockSet, S \in [BlockSet -> Blocks], N \in SUBSET Block :
               SetCreated(v, e, s, S, N)
        BY <2>3, RegisterNewEffects
      <3> USE DEF SetCreated
      <3>2. vocabs' \in [Vocab -> LocalVocab]
        BY <2>0, <3>1, RegisteredFacts, DroppedFacts DEF NotRegistered
      <3>3. \A t \in BlockSet : sets'[t].blocks = S[t].blocks
        BY <3>1, <3>2, ExpireFacts
      <3> QED
        BY <3>1, <3>3, NoneIssued
    <2> QED
      BY <1>10, <2>1, <2>2, <2>3 DEF Register
  <1> QED
    BY <1>2, <1>3, <1>4, <1>5, <1>6, <1>7, <1>8, <1>9, <1>10, GetIdFresh DEF Next

\* THEOREM: a blank node that getId creates is none that a vocabulary already
\* uses, also when the other vocabulary was read back from disk by a later
\* process, which draws its blocks at random.
THEOREM NoBlankNodeTwice == Spec => FreshIds
  <1>1. IInv /\ [Next]_vars => [(Issued' \ Issued) \cap Held = {}]_vars
    BY FreshStep
  <1> QED
    BY <1>1, IInvAlways, PTL DEF FreshIds, Spec
=============================================================================
