---------------------------- MODULE RebuildChecks ----------------------------
(***************************************************************************)
(* The rebuild of an index on all small vocabularies, local vocabularies   *)
(* and sets of blank node blocks.                                          *)
(***************************************************************************)
EXTENDS IndexRebuilder, ScanChecks

CONSTANTS MaxWord, MaxBlankBlock

MinBlank == 2   \* the blank nodes below are part of the index

(* The state at the snapshot: the words of the index, the words and blocks *)
(* of the updates, and those that came while the index was rebuilt.        *)
ChooseRebuild ==
    /\ Chosen("none")
    /\ \E vocab \in SUBSET (1 .. MaxWord) :
       \E entries \in SUBSET ((1 .. MaxWord) \ vocab) :
       \E blocks \in SUBSET (0 .. MaxBlankBlock) :
         input' = [kind |-> "rebuild", vocab |-> SetToSortSeq(vocab, <),
                   entries |-> entries, blocks |-> blocks,
                   mapping |-> IndexRebuildMapping(SetToSortSeq(vocab, <), entries,
                                                   {{b} : b \in blocks}, MinBlank)]

Trivial == {<<IntType, 1>>, <<EncodedVal, 0>>, <<EncodedVal, 1>>}
OldIds == Trivial \union WordIds(input.vocab, input.entries) \union AllBlankIds(input.blocks, MinBlank)

(* The new ids keep the meaning and the order of the old ones, also where  *)
(* they are read off the id before.                                        *)
RebuildKeepsOrder ==
    Chosen("rebuild") =>
        LET m == input.mapping
            New(id) == RemapForNewIndex(id, m)
        IN  /\ EntriesAreNew(input.entries, input.vocab)
            /\ KeepsMeaning(input.vocab, input.entries, input.blocks, Trivial, m)
            /\ \A a, b \in OldIds :
                   remapColumn(<<a, b, b, a>>, m) = <<New(a), New(b), New(b), New(a)>>

(* The same for ids that came after the snapshot: other words, and other   *)
(* blocks.  The indices of blocks are random; those below the number of    *)
(* blocks that were in use are left out, since their ids would be taken    *)
(* for new ones.                                                           *)
LaterUpdatesFit ==
    Chosen("rebuild") =>
        FitsLater(input.vocab, input.entries, input.blocks, Trivial,
                  (1 .. MaxWord) \ (ToSet(input.vocab) \union input.entries),
                  (Cardinality(input.blocks) .. MaxBlankBlock) \ input.blocks, input.mapping)

(* The number of distinct ids of the first column that the rebuild counts  *)
(* block by block is exact, wherever updates have changed the blocks.      *)
StatisticsExact ==
    Chosen("store") =>
        LET scan == Scan(<<>>, AllGraphs, TRUE)
            blocks == SelectSeq(BlocksOfScan(input.store, scan, input.store.md),
                                LAMBDA b : b # <<>>)
        IN  computeStatistics([n \in DOMAIN blocks |->
                                  [k \in DOMAIN blocks[n] |-> blocks[n][k][1]]])
                = Cardinality({r[1] : r \in input.content})

(* A rebuilt index with the updates that came during the rebuild has the   *)
(* content of the old one with all its updates: no id changes its meaning, *)
(* the order stays, the difference of the snapshots is complete, and the   *)
(* new statistics are right.                                               *)
RebuildExact ==
    RebuildKeepsOrder /\ LaterUpdatesFit /\ DiffRestores /\ StatisticsExact
=============================================================================
