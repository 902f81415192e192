------------------------- MODULE CompressedRelation -------------------------
(***************************************************************************)
(* One permutation of the index on disk: how CompressedRelationWriter cuts *)
(* the sorted triples into blocks (and those of the twin permutation), how *)
(* LocatedTriples places updates in the blocks and adjusts their metadata, *)
(* and how CompressedRelationReader finds, reads and merges the blocks of  *)
(* a scan.                                                                 *)
(*                                                                         *)
(* A row is <<col0, col1, col2, graph>> in the order of the permutation;   *)
(* ids are positive numbers, 0 is Id::min() and MaxId is Id::max().  The   *)
(* compression and the payload columns are left out.  A block's metadata   *)
(* is a record with the rows it points to on disk; graphs is the set of    *)
(* graphInfo_, or Unknown for nullopt.  Updates are a set of pairs         *)
(* <<row, insertOrDelete>>, at most one pair for each row.                 *)
(***************************************************************************)
EXTENDS Integers, Sequences, SequencesExt, FiniteSetsExt

CONSTANTS Blocksize,  \* rows in a block, blocksize()
          MaxGraphs,  \* MAX_NUM_GRAPHS_STORED_IN_BLOCK_METADATA
          MaxId,
          Divisor     \* smallIndexScanSizeEstimateDivisor_

Unknown == {0}
Triple(row) == SubSeq(row, 1, 3)
RowLess(a, b) ==
    \E c \in DOMAIN a : a[c] < b[c] /\ \A d \in 1 .. c - 1 : a[d] = b[d]
Sorted(S) ==
    [n \in 1 .. Cardinality(S) |->
        CHOOSE a \in S : Cardinality({b \in S : RowLess(b, a)}) = n - 1]

---------------------------------------------------------------------------
(* GraphComputation.h *)

computeDistinctGraphs(graphs, preexisting) ==
    IF Cardinality(graphs \union preexisting) > MaxGraphs THEN Unknown
                                                 ELSE graphs \union preexisting

hasOnlyOneGraph(graphs) == graphs # Unknown /\ Cardinality(graphs) = 1

Graphs(rows) == {rows[n][4] : n \in DOMAIN rows}

compressAndWriteBlock(rows) ==
    LET graphs == computeDistinctGraphs(Graphs(rows), {})
    IN  [rows |-> rows, numRows |-> Len(rows), first |-> Head(rows), last |-> Last(rows),
         graphs |-> graphs,
         dup |-> /\ ~hasOnlyOneGraph(graphs)
                 /\ \E n \in 1 .. Len(rows) - 1 : Triple(rows[n]) = Triple(rows[n + 1])]

---------------------------------------------------------------------------
(* PermutationWriter.  A state w of the writing has the blocks of both     *)
(* permutations, the small relations of writer 1 that are buffered, the    *)
(* rows of the current relation that are not written yet, the number of    *)
(* blocks it has so far and all its rows for the twin (twinRelationSorter).*)

StartWriter == [one |-> <<>>, two |-> <<>>, buffer |-> <<>>,
                relation |-> <<>>, numBlocks |-> 0, twin |-> {}]

Switched(row) == <<row[1], row[3], row[2], row[4]>>

(* With smallBlocksCallback_: the twin gets the same rows, sorted anew. *)
writeBufferedRelationsToSingleBlock(w) ==
    IF w.buffer = <<>> THEN w
    ELSE [w EXCEPT !.one = Append(@, compressAndWriteBlock(w.buffer)),
                   !.two = Append(@, compressAndWriteBlock(
                               Sorted({Switched(r) : r \in ToSet(w.buffer)}))),
                   !.buffer = <<>>]

addBlockForLargeRelation(w) ==
    IF w.relation = <<>> THEN w
    ELSE LET flushed == writeBufferedRelationsToSingleBlock(w)
         IN  [flushed EXCEPT !.one = Append(@, compressAndWriteBlock(w.relation)),
                             !.twin = @ \union {Switched(r) : r \in ToSet(w.relation)},
                             !.relation = <<>>, !.numBlocks = @ + 1]

(* The sorted twin relation arrives in blocks of Blocksize; rows that only *)
(* differ in their graph are kept together.                                *)
TwinBlock(s, block) ==
    LET equal == SelectInSeq(block, LAMBDA r : Triple(r) # Triple(Last(s.buffered)))
        n     == IF equal = 0 THEN Len(block) ELSE equal - 1
    IN  IF s.buffered = <<>> THEN [s EXCEPT !.buffered = block]
        ELSE IF n = Len(block) THEN [s EXCEPT !.buffered = @ \o block]
        ELSE [blocks |-> Append(s.blocks, compressAndWriteBlock(
                             s.buffered \o SubSeq(block, 1, n))),
              buffered |-> SubSeq(block, n + 1, Len(block))]

addCompleteLargeRelation(w) ==
    LET Chunks(rows) ==
            [m \in 1 .. (Len(rows) + Blocksize - 1) \div Blocksize |->
                SubSeq(rows, (m - 1) * Blocksize + 1, Min({m * Blocksize, Len(rows)}))]
        Write(s) == [w EXCEPT !.two = Append(s.blocks, compressAndWriteBlock(s.buffered)),
                              !.twin = {}]
    IN  Write(FoldLeft(TwinBlock, [blocks |-> w.two, buffered |-> <<>>],
                       Chunks(Sorted(w.twin))))

addSmallRelation(w) ==
    LET v == IF 2 * (Len(w.relation) + Len(w.buffer)) > 3 * Blocksize
               THEN writeBufferedRelationsToSingleBlock(w) ELSE w
    IN  [v EXCEPT !.buffer = @ \o w.relation]

finishRelation(w) ==
    LET large == w.numBlocks > 0 \/ 10 * Len(w.relation) > 8 * Blocksize
        v == IF large THEN addCompleteLargeRelation(addBlockForLargeRelation(w))
                      ELSE addSmallRelation(w)
    IN  [v EXCEPT !.relation = <<>>, !.numBlocks = 0]

(* Mutant: rows that only differ in their graph are separated. *)
isEndOfBlock_Always(w, row) == Len(w.relation) >= Blocksize

isEndOfBlockForLargeRelation(w, row) ==
    /\ Len(w.relation) >= Blocksize
    /\ Triple(row) # Triple(Last(w.relation))

(* The next row of a relation always finds a row of it in the buffer, so   *)
(* that the buffer tells which relation is the current one.                *)
WriteRow(w, row) ==
    LET NextRelation == IF w.relation # <<>> /\ Last(w.relation)[1] # row[1]
                          THEN finishRelation(w) ELSE w
        NextBlock(v) == IF isEndOfBlockForLargeRelation(v, row)
                          THEN addBlockForLargeRelation(v) ELSE v
    IN  [NextBlock(NextRelation) EXCEPT !.relation = Append(@, row)]

(* getFinishedBlocks sorts the blocks and numbers them. *)
getFinishedBlocks(blocks) ==
    LET Number(sorted) == [i \in DOMAIN sorted |-> sorted[i] @@ [idx |-> i]]
    IN  Number(SortSeq(blocks, LAMBDA a, b : RowLess(a.first, b.first)))

checkInvariantsForSortedBlocks(blocks) ==
    \A i \in 1 .. Len(blocks) - 1 :
        RowLess(Triple(blocks[i].last), Triple(blocks[i + 1].first))

writePermutation(rows) ==
    LET Flush(w) == writeBufferedRelationsToSingleBlock(
                        IF rows = <<>> THEN w ELSE finishRelation(w))
        Finished(w) == [one |-> getFinishedBlocks(w.one), two |-> getFinishedBlocks(w.two)]
    IN  Finished(Flush(FoldLeft(WriteRow, StartWriter, rows)))

---------------------------------------------------------------------------
(* LocatedTriples.cpp *)

locateTriple(row, blocks) ==
    Min({i \in DOMAIN blocks : ~RowLess(Triple(blocks[i].last), Triple(row))}
        \union {Len(blocks) + 1})

(* The rows of the updates in a block, and those of the insertions. *)
LocatedIn(updates, blocks, i) == {u \in updates : locateTriple(u[1], blocks) = i}
Rows(updates) == {u[1] : u \in updates}
Inserted(updates) == {u[1] : u \in {u \in updates : u[2]}}

(* Mutant: the graphs of inserted triples are not added to the metadata. *)
updateGraphMetadata_Keep(md, located) ==
    [md EXCEPT !.dup = @ \/ (~hasOnlyOneGraph(md.graphs) /\ Inserted(located) # {})]

updateGraphMetadata(md, located) ==
    LET graphs == IF md.graphs = Unknown THEN Unknown
                  ELSE computeDistinctGraphs({r[4] : r \in Inserted(located)}, md.graphs)
    IN  [md EXCEPT !.graphs = graphs,
                   !.dup = @ \/ (~hasOnlyOneGraph(graphs) /\ Inserted(located) # {})]

updateAugmentedMetadata(blocks, updates) ==
    LET Located(i) == LocatedIn(updates, blocks, i)
        Bounds(i)  == Sorted(Rows(Located(i)))
        Adjusted(i) ==
            IF Located(i) = {} THEN blocks[i]
            ELSE updateGraphMetadata(
                     [blocks[i] EXCEPT !.first = Sorted({@, Head(Bounds(i))})[1],
                                       !.last = Last(Sorted({@, Last(Bounds(i))}))],
                     Located(i))
        end == Len(blocks) + 1
        lastBlock == [rows |-> <<>>, numRows |-> 0, first |-> Head(Bounds(end)),
                      last |-> Last(Bounds(end)), graphs |-> {}, dup |-> TRUE, idx |-> end]
    IN  [i \in DOMAIN blocks |-> Adjusted(i)] \o
        (IF Located(end) = {} THEN <<>> ELSE <<updateGraphMetadata(lastBlock, Located(end))>>)

(* mergeTriples for rows cut to their columns from..4.  Deletions that do  *)
(* not exist and insertions that do are skipped.                           *)
Columns(row, from) == SubSeq(row, from, 4)

RECURSIVE MergeLoop(_, _, _)
MergeLoop(rows, located, out) ==
    LET row == Head(rows)  lt == Head(located)
    IN  IF located = <<>> THEN out \o rows
        ELSE IF rows = <<>>
          THEN MergeLoop(rows, Tail(located), IF lt[2] THEN Append(out, lt[1]) ELSE out)
        ELSE IF RowLess(lt[1], row)
          THEN MergeLoop(rows, Tail(located), IF lt[2] THEN Append(out, lt[1]) ELSE out)
        ELSE IF lt[1] = row
          THEN MergeLoop(IF lt[2] THEN rows ELSE Tail(rows), Tail(located), out)
        ELSE MergeLoop(Tail(rows), located, Append(out, row))

mergeTriples(rows, located, from) ==
    LET lts == SetToSortSeq(located, LAMBDA a, b : RowLess(a[1], b[1]))
    IN  MergeLoop([n \in DOMAIN rows |-> Columns(rows[n], from)],
                  [n \in DOMAIN lts |-> <<Columns(lts[n][1], from), lts[n][2]>>], <<>>)

(* Mutant: a triple that was located before is never part of the result. *)
computeDiff_NewOnly(updates, oldUpdates) ==
    {u \in updates : u[1] \notin Rows(oldUpdates)}

(* computeDiff: the updates that are new or have a different flag. *)
computeDiff(updates, oldUpdates) == updates \ oldUpdates

---------------------------------------------------------------------------
(* Reading.  A store is the blocks without updates, the updates and the    *)
(* augmented metadata.  A scan has the fixed ids, the set of graphs that   *)
(* are allowed (AllGraphs for no filter) and whether the graph is returned.*)

Store(blocks, updates) ==
    [blocks |-> blocks, updates |-> updates,
     md |-> updateAugmentedMetadata(blocks, updates)]

AllGraphs == {0}
isGraphAllowed(scan, g) == scan.graphs = AllGraphs \/ g \in scan.graphs

canBlockBeSkipped(scan, md) ==
    /\ scan.graphs # AllGraphs
    /\ md.graphs # Unknown
    /\ \A g \in md.graphs : ~isGraphAllowed(scan, g)

blockNeedsFilteringByGraph(scan, md) ==
    /\ scan.graphs # AllGraphs
    /\ md.graphs # Unknown => \E g \in md.graphs : ~isGraphAllowed(scan, g)

(* std::unique *)
Unique(rows) ==
    LET Kept(n) == n = 1 \/ rows[n] # rows[n - 1]
        kept == SetToSortSeq({n \in DOMAIN rows : Kept(n)}, <)
    IN  [n \in DOMAIN kept |-> rows[kept[n]]]

postprocessBlock(scan, md, rows) ==
    LET filtered == IF blockNeedsFilteringByGraph(scan, md)
                      THEN SelectSeq(rows, LAMBDA r : isGraphAllowed(scan, Last(r)))
                      ELSE rows
        columns  == IF scan.withGraph THEN filtered
                    ELSE [n \in DOMAIN filtered |-> Front(filtered[n])]
    IN  IF md.dup THEN Unique(columns) ELSE columns

(* A block without the columns before from; skipped blocks are empty. *)
readAndDecompressBlock(store, scan, md, from) ==
    LET located == LocatedIn(store.updates, store.blocks, md.idx)
        rows == IF located = {}
                  THEN [n \in DOMAIN md.rows |-> Columns(md.rows[n], from)]
                  ELSE mergeTriples(md.rows, located, from)
    IN  IF canBlockBeSkipped(scan, md) THEN <<>> ELSE postprocessBlock(scan, md, rows)

(* The first and the last block of a scan: all columns are read, and then  *)
(* the rows with the fixed ids are cut out.                                *)
readPossiblyIncompleteBlock(store, scan, md) ==
    LET block == readAndDecompressBlock(store, scan, md, 1)
        num == Len(scan.fixed)
        matching == SelectSeq(block, LAMBDA r : SubSeq(r, 1, num) = scan.fixed)
    IN  [n \in DOMAIN matching |-> SubSeq(matching[n], num + 1, Len(matching[n]))]

ScanKey(scan, default) == [c \in 1 .. 4 |-> IF c <= Len(scan.fixed) THEN scan.fixed[c]
                                                               ELSE default]

(* equal_range: the blocks that neither end before the first nor begin     *)
(* after the last possible triple of the scan.                             *)
getRelevantBlocks(scan, md) ==
    SelectSeq(md, LAMBDA b : /\ ~RowLess(b.last, ScanKey(scan, 0))
                             /\ ~RowLess(ScanKey(scan, MaxId), b.first))

(* pruneBlock: s is the result so far and what is left of LIMIT (or -1 for *)
(* no limit) and OFFSET.                                                   *)
pruneBlock(s, block) ==
    LET off  == Min({s.offset, Len(block)})
        rest == SubSeq(block, off + 1, Len(block))
        lim  == IF s.limit < 0 THEN Len(rest) ELSE Min({s.limit, Len(rest)})
    IN  [out |-> s.out \o SubSeq(rest, 1, lim), offset |-> s.offset - off,
         limit |-> IF s.limit < 0 THEN s.limit ELSE s.limit - lim]

(* The blocks that lazyScan yields for the given metadata. *)
BlocksOfScan(store, scan, md) ==
    [n \in DOMAIN md |->
        IF n \in {1, Len(md)} THEN readPossiblyIncompleteBlock(store, scan, md[n])
        ELSE readAndDecompressBlock(store, scan, md[n], Len(scan.fixed) + 1)]

lazyScan(store, scan, md, limit, offset) ==
    FoldLeft(pruneBlock, [out |-> <<>>, limit |-> limit, offset |-> offset],
             BlocksOfScan(store, scan, md)).out

scanStore(store, scan, limit, offset) ==
    lazyScan(store, scan, getRelevantBlocks(scan, store.md), limit, offset)

---------------------------------------------------------------------------
(* Counting without reading everything. *)

SumOver(seq) == FoldLeft(LAMBDA a, b : a + b, 0, seq)

(* Mutant: updates of the blocks in the middle are not counted. *)
getResultSizeOfScan_NoUpdates(store, scan) ==
    LET md == getRelevantBlocks(scan, store.md)
        RowsIn(n) == IF n \in {1, Len(md)}
                     THEN Len(readPossiblyIncompleteBlock(store, scan, md[n]))
                     ELSE md[n].numRows
    IN  SumOver([n \in DOMAIN md |-> RowsIn(n)])

getResultSizeOfScan(store, scan) ==
    LET md == getRelevantBlocks(scan, store.md)
        NoUpdates(b) == LocatedIn(store.updates, store.blocks, b.idx) = {}
        RowsIn(n) ==
            IF n \in {1, Len(md)}
              THEN Len(readPossiblyIncompleteBlock(store, scan, md[n]))
            ELSE IF NoUpdates(md[n]) THEN md[n].numRows
            ELSE Len(readAndDecompressBlock(store, scan, md[n], Len(scan.fixed) + 1))
    IN  SumOver([n \in DOMAIN md |-> RowsIn(n)])

isTripleInSpecification(scan, row) ==
    SubSeq(row, 1, Len(scan.fixed)) = scan.fixed

getSizeEstimateForScan(store, scan) ==
    LET md == getRelevantBlocks(scan, store.md)
        Updates(b) == Cardinality(LocatedIn(store.updates, store.blocks, b.idx))
        Complete(n) == \/ n \notin {1, Len(md)}
                       \/ /\ isTripleInSpecification(scan, md[n].first)
                          /\ isTripleInSpecification(scan, md[n].last)
        Trunc(n, num) == IF Complete(n) THEN num
                         ELSE Max({Min({num, 1}), num \div Divisor})
        numResults == SumOver([n \in DOMAIN md |-> Trunc(n, md[n].numRows)])
        changed == SumOver([n \in DOMAIN md |-> Trunc(n, Updates(md[n]))])
    IN  [lower |-> numResults - Min({changed, numResults}), upper |-> numResults + changed]

(* getDistinctColIdsAndCounts without LIMIT and OFFSET: the groups of the  *)
(* first column that is not fixed.  processColId drops a group whose count *)
(* is 0 at its end.                                                        *)
(* Mutant: the grouped column itself is not compared. *)
containsInconsistentTriples_Prefix(md, num) ==
    SubSeq(md.first, 1, num - 1) # SubSeq(md.last, 1, num - 1)

containsInconsistentTriples(md, num) == SubSeq(md.first, 1, num) # SubSeq(md.last, 1, num)

processColId(s, id, count) ==
    IF s.id = id THEN [s EXCEPT !.count = @ + count]
    ELSE [table |-> IF s.count > 0 THEN Append(s.table, <<s.id, s.count>>) ELSE s.table,
          id |-> id, count |-> count]

getDistinctColIdsAndCounts(store, scan) ==
    LET md == getRelevantBlocks(scan, store.md)
        num == Len(scan.fixed) + 1
        Block(n) == IF n = 1 THEN readPossiblyIncompleteBlock(store, scan, md[n])
                    ELSE readAndDecompressBlock(store, scan, md[n], num)
        Process(s, n) ==
            IF ~containsInconsistentTriples(md[n], num)
              THEN processColId(s, md[n].first[num], md[n].numRows)
              ELSE FoldLeft(LAMBDA t, r : processColId(t, r[1], 1), s, Block(n))
        s == FoldLeft(Process, [table |-> <<>>, id |-> 0, count |-> 0],
                      [n \in DOMAIN md |-> n])
    IN  processColId(s, MaxId, 0).table

---------------------------------------------------------------------------
(* Blocks that can take part in a join on the first column that is not     *)
(* fixed.  bounds are the first and the last triple of the scan.           *)

ReadAll(store, scan, md) ==
    LET all == [scan EXCEPT !.graphs = AllGraphs, !.withGraph = TRUE]
        rows == readPossiblyIncompleteBlock(store, all, md)
    IN  [n \in DOMAIN rows |-> scan.fixed \o rows[n]]

getFirstAndLastTripleIgnoringGraph(store, scan) ==
    LET md == getRelevantBlocks(scan, store.md)
        nonEmpty == {n \in DOMAIN md : ReadAll(store, scan, md[n]) # <<>>}
    IN  IF nonEmpty = {} THEN <<>>
        ELSE <<Head(ReadAll(store, scan, md[Min(nonEmpty)])),
               Last(ReadAll(store, scan, md[Max(nonEmpty)]))>>

(* Mutant: the fixed columns of the triple are not compared. *)
getRelevantIdFromTriple_Unchecked(row, scan, bounds) == row[Len(scan.fixed) + 1]

getRelevantIdFromTriple(row, scan, bounds) ==
    LET num == Len(scan.fixed)
        differ == {c \in 1 .. num : row[c] # scan.fixed[c]}
    IN  IF differ = {} THEN row[num + 1]
        ELSE IF row[Min(differ)] < scan.fixed[Min(differ)] THEN bounds[1][num + 1]
        ELSE bounds[2][num + 1]

FirstId(b, scan, bounds) == getRelevantIdFromTriple(b.first, scan, bounds)
LastId(b, scan, bounds) == getRelevantIdFromTriple(b.last, scan, bounds)

(* getBlocksForJoin with a sorted join column: col and blk are the next    *)
(* entry of the column and the next block.                                 *)
FirstWithout(from, to, Test(_)) == Min({n \in from .. to : ~Test(n)} \union {to + 1})

RECURSIVE BlocksForJoinLoop(_, _, _, _, _)
BlocksForJoinLoop(column, md, scan, bounds, s) ==
    LET First(n) == FirstId(md[n], scan, bounds)
        Col  == FirstWithout(s.col, Len(column), LAMBDA n : column[n] < First(s.blk))
        Skip(col) == FirstWithout(s.blk, Len(md),
                                  LAMBDA n : LastId(md[n], scan, bounds) < column[col])
        End(col, skip) == FirstWithout(skip, Len(md), LAMBDA n : ~(column[col] < First(n)))
        Take(col, skip, end) == [col |-> col, blk |-> end,
                                 blocks |-> s.blocks \o SubSeq(md, skip, end - 1)]
        Match(col, skip) == Take(col, skip, End(col, skip))
        Round(col) == IF col > Len(column) THEN [s EXCEPT !.col = col]
                      ELSE BlocksForJoinLoop(column, md, scan, bounds, Match(col, Skip(col)))
    IN  IF s.blk > Len(md) THEN s ELSE Round(Col)

getBlocksForJoin(column, md, scan, bounds) ==
    LET Found(s) == [blocks |-> s.blocks, numHandledBlocks |-> s.blk - 1]
    IN  IF column = <<>> \/ md = <<>> THEN [blocks |-> <<>>, numHandledBlocks |-> 0]
        ELSE Found(BlocksForJoinLoop(column, md, scan, bounds,
                                     [col |-> 1, blk |-> 1, blocks |-> <<>>]))

(* getBlocksForJoin of two scans, for the blocks of the first one: a block *)
(* is kept when the first block of the other side that does not end before *)
(* it does not begin after it.                                             *)
findMatchingBlocks(md, scan, bounds, otherMd, otherScan, otherBounds) ==
    LET Before(b, a) == LastId(b, otherScan, otherBounds) < FirstId(a, scan, bounds)
        After(b, a)  == LastId(a, scan, bounds) < FirstId(b, otherScan, otherBounds)
        it(a) == FirstWithout(1, Len(otherMd), LAMBDA n : Before(otherMd[n], a))
    IN  SelectSeq(md, LAMBDA a : it(a) <= Len(otherMd) /\ ~After(otherMd[it(a)], a))
=============================================================================
