--------------------------- MODULE IndexRebuilder ---------------------------
(***************************************************************************)
(* The ids of an index, their order, and how a rebuild of the index        *)
(* (IndexRebuilder.cpp) gives the words and blank nodes of the updates ids *)
(* of the new index.                                                       *)
(*                                                                         *)
(* A word is a number, its order that of the comparator.  A vocabulary is  *)
(* a sorted sequence of words, the word at n + 1 has the index n.  The id  *)
(* of a local vocab entry has the word as its value.                       *)
(***************************************************************************)
EXTENDS ValueId, Sequences, SequencesExt, FiniteSetsExt

CONSTANT BlankBlockSize   \* BlankNodeManager::blockSize_

ASSUME BlankBlocks == BlankBlockSize \in Nat \ {0}

(* The number of elements that are not larger than x: upper_bound. *)
NumUpTo(s, x) == Cardinality({n \in DOMAIN s : s[n] <= x})
NumBelow(s, x) == Cardinality({n \in DOMAIN s : s[n] < x})

(* The elements of a finite set of numbers in ascending order. *)
Ascending(S) ==
    <<>> \o [k \in 1 .. Cardinality(S) |-> CHOOSE x \in S : Cardinality({y \in S : y <= x}) = k]

---------------------------------------------------------------------------
(* The order of ids, ValueId::compareThreeWay. *)

(* The bits of the ids between which a word is or would be. *)
positionInVocab(vocab, word) ==
    [lower |-> <<VocabIndex, NumBelow(vocab, word)>>,
     upper |-> <<VocabIndex, NumUpTo(vocab, word)>>]

IsVocab(id) == id[1] \in {VocabIndex, EncodedVal}
IsLocal(id) == id[1] = LocalVocabIndex

IdLess(vocab, a, b) ==
    CASE IsVocab(a) /\ IsLocal(b) -> BitsLess(a, positionInVocab(vocab, b[2]).lower)
      [] IsLocal(a) /\ IsVocab(b) -> ~BitsLess(b, positionInVocab(vocab, a[2]).upper)
      [] OTHER -> BitsLess(a, b)

---------------------------------------------------------------------------
(* The new vocabulary. *)

(* One entry for each word of the local vocab, sorted by position and word. *)
InsertionInfos(entries, vocab) ==
    LET words == Ascending(entries)
    IN  [n \in DOMAIN words |->
            [insertionPosition |-> positionInVocab(vocab, words[n]).upper[2],
             word |-> words[n]]]

(* materializeLocalVocab checks that no entry is in the vocabulary. *)
EntriesAreNew(entries, vocab) ==
    \A w \in entries : positionInVocab(vocab, w).lower = positionInVocab(vocab, w).upper

(* The merge writes an entry before the old word at its position.  Each    *)
(* round writes one word: after it, `index` old words and `next` entries   *)
(* have been written.                                                      *)
MergeRound(vocab, infos, s) ==
    IF /\ s.next < Len(infos)
       /\ s.index >= Len(vocab) \/ infos[s.next + 1].insertionPosition <= s.index
      THEN [index |-> s.index, next |-> s.next + 1,
            written |-> Append(s.written, infos[s.next + 1].word)]
      ELSE [index |-> s.index + 1, next |-> s.next,
            written |-> Append(s.written, vocab[s.index + 1])]

MergedWords(vocab, infos) ==
    LET rounds == Len(vocab) + Len(infos)
        after[n \in 0 .. rounds] ==
            IF n = 0 THEN [index |-> 0, next |-> 0, written |-> <<>>]
            ELSE MergeRound(vocab, infos, after[n - 1])
    IN  after[rounds].written

mergeVocabs(vocab, infos) ==
    LET written == MergedWords(vocab, infos)
        IndexOf(w) == (CHOOSE n \in DOMAIN written : written[n] = w) - 1
    IN  [vocab |-> written,
         localVocabMapping |-> [w \in {infos[n].word : n \in DOMAIN infos} |->
                                   <<VocabIndex, IndexOf(w)>>]]

flattenBlankNodeBlocks(ownedBlocks) == Ascending(UNION ownedBlocks)

(* materializeToIndex up to the permutations. *)
IndexRebuildMapping(vocab, entries, ownedBlocks, minBlankNodeIndex) ==
    LET infos  == InsertionInfos(entries, vocab)
        merged == mergeVocabs(vocab, infos)
        blocks == flattenBlankNodeBlocks(ownedBlocks)
    IN  [vocab |-> merged.vocab,
         localVocabMapping |-> merged.localVocabMapping,
         insertionPositions |-> [n \in DOMAIN infos |-> infos[n].insertionPosition],
         blankNodeBlocks |-> blocks,
         minBlankNodeIndex |-> minBlankNodeIndex,
         numBlankNodesTotal |-> minBlankNodeIndex + Len(blocks) * BlankBlockSize]

---------------------------------------------------------------------------
(* The new ids. *)

(* Mutant: a word inserted directly before this one is not counted. *)
remapVocabId_Lower(id, mapping) ==
    <<VocabIndex, id[2] + NumBelow(mapping.insertionPositions, id[2])>>

remapVocabId(id, mapping) ==
    <<VocabIndex, id[2] + NumUpTo(mapping.insertionPositions, id[2])>>

(* <<>> is nullopt. *)
tryRemapBlankNodeId(id, mapping) ==
    LET normalizedId == id[2] - mapping.minBlankNodeIndex
        blockIndex == normalizedId \div BlankBlockSize
        blocks == mapping.blankNodeBlocks
    IN  IF id[2] < mapping.minBlankNodeIndex THEN id
        ELSE IF blockIndex \notin ToSet(blocks) THEN <<>>
        ELSE <<BlankNodeIndex, (normalizedId % BlankBlockSize)
                               + NumBelow(blocks, blockIndex) * BlankBlockSize
                               + mapping.minBlankNodeIndex>>

(* remapId of readIndexAndRemap. *)
RemapForNewIndex(id, mapping) ==
    CASE id[1] = VocabIndex      -> remapVocabId(id, mapping)
      [] id[1] = LocalVocabIndex -> mapping.localVocabMapping[id[2]]
      [] id[1] = BlankNodeIndex  -> tryRemapBlankNodeId(id, mapping)
      [] OTHER -> id

(* Mutant: a word that the new index has got stays in the local vocab. *)
remapId_KeepLocal(id, mapping) ==
    CASE id[1] = VocabIndex -> remapVocabId(id, mapping)
      [] id[1] = BlankNodeIndex ->
             LET new == tryRemapBlankNodeId(id, mapping)
             IN  IF new = <<>> THEN id ELSE new
      [] OTHER -> id

(* DeltaTriples::remapId, for the updates that came after the snapshot: an *)
(* id that the mapping does not know stays as it is and gets its new id    *)
(* when it is inserted.                                                    *)
remapId(id, mapping) ==
    CASE id[1] = VocabIndex -> remapVocabId(id, mapping)
      [] id[1] = LocalVocabIndex ->
             IF id[2] \in DOMAIN mapping.localVocabMapping
               THEN mapping.localVocabMapping[id[2]] ELSE id
      [] id[1] = BlankNodeIndex ->
             LET new == tryRemapBlankNodeId(id, mapping)
             IN  IF new = <<>> THEN id ELSE new
      [] OTHER -> id

(* A column keeps the last id and what it was mapped to. *)
RemapStep(s, id, mapping) ==
    LET new == IF id = s.lastId THEN s.mappedId ELSE RemapForNewIndex(id, mapping)
    IN  [column |-> Append(s.column, new), lastId |-> id, mappedId |-> new]

remapColumn(column, mapping) ==
    FoldLeft(LAMBDA s, id : RemapStep(s, id, mapping),
             [column |-> <<>>, lastId |-> <<0, 0>>, mappedId |-> <<0, 0>>], column).column

---------------------------------------------------------------------------
(* IndexImpl::countDistinct for the blocks of a scan, none of them empty. *)

(* Mutant: the last id of the block before is forgotten. *)
countDistinct_PerBlock(s, column) ==
    [counter |-> s.counter + Cardinality(ToSet(column)), lastId |-> Last(column)]

countDistinct(s, column) ==
    LET runs == Cardinality({n \in DOMAIN column : n = 1 \/ column[n] # column[n - 1]})
    IN  [counter |-> s.counter + runs - (IF s.lastId = Head(column) THEN 1 ELSE 0),
         lastId |-> Last(column)]

computeStatistics(columns) ==
    FoldLeft(countDistinct, [counter |-> 0, lastId |-> 0], columns).counter

---------------------------------------------------------------------------
(* What the new ids are for.  The old ids are those of the words of the    *)
(* vocabulary and of the updates, of the blank nodes of the index and of   *)
(* the blocks of the updates, and others, whose value is folded into them. *)

VocabIds(vocab) == {<<VocabIndex, n - 1>> : n \in DOMAIN vocab}
LocalIds(words) == {<<LocalVocabIndex, w>> : w \in words}
BlankIds(indices) == {<<BlankNodeIndex, n>> : n \in indices}
BlockIndices(blocks, minIndex) ==
    {minIndex + b * BlankBlockSize + k : b \in blocks, k \in 0 .. BlankBlockSize - 1}

WordIds(vocab, entries) == VocabIds(vocab) \union LocalIds(entries)
AllBlankIds(blocks, minIndex) ==
    BlankIds(0 .. minIndex - 1) \union BlankIds(BlockIndices(blocks, minIndex))

WordOf(vocab, id) == IF id[1] = LocalVocabIndex THEN id[2] ELSE vocab[id[2] + 1]

(* The ids of the new index are in the order of the old ones, so that the  *)
(* permutations, which are rewritten row by row and not sorted again, stay *)
(* sorted; every id keeps its word; the blank nodes of the updates become  *)
(* part of the index, below the first index that it gives to new ones.     *)
KeepsMeaning(vocab, entries, blocks, others, m) ==
    LET New(id) == RemapForNewIndex(id, m)
        words  == WordIds(vocab, entries)
        blanks == AllBlankIds(blocks, m.minBlankNodeIndex)
        ids    == others \union words \union blanks
    IN  /\ \A a, b \in ids : IdLess(vocab, a, b) => IdLess(m.vocab, New(a), New(b))
        /\ \A id \in words : /\ New(id) \in VocabIds(m.vocab)
                             /\ WordOf(m.vocab, New(id)) = WordOf(vocab, id)
        /\ \A id \in blanks : New(id) \in BlankIds(0 .. m.numBlankNodesTotal - 1)

(* The updates after the snapshot are translated consistently with the     *)
(* new index: what both know gets the same id, different ids stay          *)
(* different, every word has one id, and the blank nodes that are renamed  *)
(* on insertion are those that the new index does not contain.             *)
FitsLater(vocab, entries, blocks, others, laterWords, laterBlocks, m) ==
    LET New(id) == remapId(id, m)
        old == others \union WordIds(vocab, entries) \union AllBlankIds(blocks, m.minBlankNodeIndex)
        words  == LocalIds(laterWords)
        blanks == BlankIds(BlockIndices(laterBlocks, m.minBlankNodeIndex))
    IN  /\ \A id \in old : New(id) = RemapForNewIndex(id, m)
        /\ \A a, b \in old \union words \union blanks : New(a) = New(b) => a = b
        /\ \A id \in words : New(id)[2] \notin ToSet(m.vocab)
        /\ \A id \in blanks : New(id)[2] >= m.numBlankNodesTotal
=============================================================================
