----------------------------- MODULE ScanChecks -----------------------------
(***************************************************************************)
(* Writing, updating and scanning a permutation on all small contents, and *)
(* the prefiltering of a scan under every order of its two consumers.      *)
(***************************************************************************)
EXTENDS IndexScanPrefilter, Inputs

CONSTANTS MaxContent,   \* rows plus twice the updates
          MaxTables     \* the tables of the join input

(* Three relations: one with several blocks, triples in two graphs.  The   *)
(* ids are those of a permutation, the last column is the graph.           *)
Universe == {<<1, 1, 1, 1>>, <<1, 1, 1, 2>>, <<1, 1, 2, 1>>, <<1, 1, 2, 2>>,
             <<1, 2, 1, 1>>, <<2, 1, 1, 1>>, <<2, 1, 1, 2>>, <<3, 1, 1, 2>>}
Subsets(n) == UNION {kSubset(k, Universe) : k \in 0 .. n}

WriteIndex ==
    /\ Chosen("none")
    /\ \E rows \in Subsets(MaxContent) :
         input' = writePermutation(Sorted(rows)) @@ [kind |-> "index", base |-> rows]

Content(base, updates) == (base \ Rows(updates)) \union Inserted(updates)

Scan(fixed, graphs, withGraph) ==
    [fixed |-> fixed, graphs |-> graphs, withGraph |-> withGraph]
FixedIds == {<<>>} \union {SubSeq(r, 1, n) : r \in Universe, n \in 1 .. 3}
Plain(n) == {Scan(f, AllGraphs, FALSE) : f \in {p \in FixedIds : Len(p) <= n}}
Scans == {Scan(f, g, w) : f \in FixedIds, g \in {AllGraphs, {1}}, w \in BOOLEAN}
         \union {Scan(<<>>, {2, 3}, FALSE)}

(* The result of a scan by definition: the distinct rows, sorted. *)
ExpectedIn(content, scan) ==
    LET rows == {r \in content : isTripleInSpecification(scan, r) /\ isGraphAllowed(scan, r[4])}
    IN  Sorted({SubSeq(r, Len(scan.fixed) + 1, IF scan.withGraph THEN 4 ELSE 3) : r \in rows})

(* A triple is inserted or deleted whether or not it is in the index. *)
UpdateIndex ==
    /\ Chosen("index")
    /\ \E rows \in Subsets((MaxContent - Cardinality(input.base)) \div 2) :
       \E inserted \in SUBSET rows :
         LET updates == {<<r, r \in inserted>> : r \in rows}
             store   == Store(input.one, updates)
             content == Content(input.base, updates)
         IN  input' = [kind |-> "store", base |-> input.base, store |-> store,
                       content |-> content,
                       rows |-> [s \in Plain(2) |-> ExpectedIn(content, s)],
                       md |-> [s \in Plain(2) |-> getRelevantBlocks(s, store.md)],
                       bounds |-> [s \in Plain(2) |->
                                      getFirstAndLastTripleIgnoringGraph(store, s)]]

Expected(scan) == ExpectedIn(input.content, scan)

---------------------------------------------------------------------------
RowsOf(blocks) == FlattenSeq([n \in DOMAIN blocks |-> blocks[n].rows])

(* The two permutations that a PermutationWriter writes hold the same      *)
(* triples, sorted, and no two blocks share a triple: the rows of a triple *)
(* in several graphs are never separated, neither in a large relation, nor *)
(* in its twin, nor when small relations are collected in one block.       *)
WriterKeepsTriples ==
    Chosen("index") =>
        /\ RowsOf(input.one) = Sorted(input.base)
        /\ RowsOf(input.two) = Sorted({Switched(r) : r \in input.base})
        /\ checkInvariantsForSortedBlocks(input.one)
        /\ checkInvariantsForSortedBlocks(input.two)

(* A scan returns the distinct matching rows of the index with all updates *)
(* applied, in order, for every combination of fixed ids and graphs, and   *)
(* LIMIT and OFFSET cut a slice out of it: the metadata that the updates   *)
(* have changed never hides a block, a graph or a duplicate.               *)
ScanExact ==
    Chosen("store") =>
        /\ checkInvariantsForSortedBlocks(input.store.md)
        /\ \A scan \in Scans : scanStore(input.store, scan, -1, 0) = Expected(scan)
        /\ \A limit, offset \in 0 .. 2 :
             LET scan == Scan(<<>>, {1}, TRUE)
             IN  scanStore(input.store, scan, limit, offset) =
                     SubSeq(Expected(scan), offset + 1,
                            Min({offset + limit, Len(Expected(scan))}))

OneGraphPerTriple == \A r, t \in input.content : Triple(r) = Triple(t) => r = t

(* The size that getResultSizeOfScan computes from the metadata of the     *)
(* blocks in the middle is the size of the result, if no triple is in      *)
(* several graphs; and an estimate that is exactly 0, which the planner    *)
(* takes for a known empty result, is right in every case.                 *)
SizesFromMetadata ==
    Chosen("store") => \A scan \in Plain(2) :
        LET estimate == getSizeEstimateForScan(input.store, scan)
        IN  /\ OneGraphPerTriple =>
                   getResultSizeOfScan(input.store, scan) = Len(Expected(scan))
            /\ estimate.lower = 0 /\ estimate.upper = 0 => Expected(scan) = <<>>

GroupCounts(scan) ==
    LET rows == Expected(scan)
        ids  == SetToSortSeq({rows[n][1] : n \in DOMAIN rows}, <)
    IN  [k \in DOMAIN ids |->
            <<ids[k], Cardinality({n \in DOMAIN rows : rows[n][1] = ids[k]})>>]

(* getDistinctColIdsAndCounts returns the groups of the first column with  *)
(* their sizes as long as there are no updates and no triple is in several *)
(* graphs.  Otherwise it does not: see GroupCountsExact.                   *)
GroupCountsWithoutUpdates ==
    Chosen("store") /\ input.store.updates = {} /\ OneGraphPerTriple =>
        getDistinctColIdsAndCounts(input.store, Scan(<<>>, AllGraphs, FALSE))
            = GroupCounts(Scan(<<>>, AllGraphs, FALSE))

(* What the comment in getDistinctColIdsAndCounts says: the shortcut by    *)
(* numRows_ is safe if all rows of the block agree on the grouped column.  *)
(* It is not when the block has updates.                                   *)
GroupCountsExact ==
    Chosen("store") =>
        getDistinctColIdsAndCounts(input.store, Scan(<<>>, AllGraphs, FALSE))
            = GroupCounts(Scan(<<>>, AllGraphs, FALSE))

(* The blocks that getBlocksForJoin leaves out can be left out: scanning   *)
(* only the others gives all rows that match the join column or the other  *)
(* scan, and no block after numHandledBlocks begins before the last value  *)
(* of the join column.                                                     *)
BlocksForJoinComplete ==
    LET bounds == input.bounds
        rows   == input.rows
        md     == input.md
        Complete(scan, blocks, ids) ==
            LET Match(r) == r[1] \in ids
            IN  SelectSeq(lazyScan(input.store, scan, blocks, -1, 0), Match)
                    = SelectSeq(rows[scan], Match)
        WithColumn(scan, column) ==
            LET found == getBlocksForJoin(column, md[scan], scan, bounds[scan])
            IN  /\ Complete(scan, found.blocks, ToSet(column))
                /\ \A n \in found.numHandledBlocks + 1 .. Len(md[scan]) :
                       Last(column) <= FirstId(md[scan][n], scan, bounds[scan])
        WithScan(scan, other) ==
            Complete(scan, findMatchingBlocks(md[scan], scan, bounds[scan],
                                              md[other], other, bounds[other]),
                     {rows[other][n][1] : n \in DOMAIN rows[other]})
    IN  Chosen("store") =>
            \A scan \in {s \in Plain(2) : bounds[s] # <<>>} :
                /\ \A column \in {<<1>>, <<2>>, <<1, 3>>} : WithColumn(scan, column)
                /\ \A other \in {s \in Plain(1) : bounds[s] # <<>>} : WithScan(scan, other)

(* The difference of two snapshots, applied to a new index that holds the  *)
(* content of the old snapshot, gives the content of the new snapshot, if  *)
(* every triple that was located in the old one still is: also for triples *)
(* that were inserted and deleted again meanwhile.                         *)
DiffRestores ==
    Chosen("store") =>
        \A old \in SUBSET (Rows(input.store.updates) \X BOOLEAN) :
            (\A u, w \in old : u[1] = w[1] => u = w) =>
                Content(Content(input.base, old), computeDiff(input.store.updates, old))
                    = input.content

---------------------------------------------------------------------------
(* Blocks of a scan by their first and last id, consecutive blocks may     *)
(* share an id; and tables that are sorted, UNDEF first.                   *)
Interval(a, b) == [first |-> <<a, 1, 1, 1>>, last |-> <<b, 1, 1, 1>>]
BlockLists ==
    {s \in UNION {[1 .. n -> {Interval(a, b) : a \in 1 .. 3, b \in 1 .. 3}] : n \in 1 .. 2} :
        \A n \in DOMAIN s : First(s[n]) <= LastOf(s[n])
                            /\ (n > 1 => LastOf(s[n - 1]) <= First(s[n]))}
JoinTables == {<<>>, <<0>>, <<0, 2>>, <<1>>, <<2>>, <<3>>, <<1, 2>>, <<1, 3>>, <<2, 2>>}
TableLists ==
    {s \in UNION {[1 .. n -> JoinTables] : n \in 0 .. MaxTables} :
        \A n \in 1 .. Len(FlattenSeq(s)) - 1 : FlattenSeq(s)[n] <= FlattenSeq(s)[n + 1]}

ChooseTables ==
    /\ Chosen("none")
    /\ \E tables \in TableLists : input' = [kind |-> "joinInput", tables |-> tables]

StartPrefilter ==
    /\ Chosen("joinInput")
    /\ \E blocks \in BlockLists, filter \in BOOLEAN :
         input' = [kind |-> "prefilter", state |-> prefilterTables(input.tables, blocks, filter)]

ReadJoinSide ==
    /\ Chosen("prefilter") /\ ~input.state.joinDone
    /\ input' = [input EXCEPT !.state = createPrefilteredJoinSide(@)]

ReadScanSide ==
    /\ Chosen("prefilter") /\ ~input.state.scanDone
    /\ input' = [input EXCEPT !.state = createPrefilteredIndexScanSide(@)]

(* Whatever the order in which the two consumers read, when one has read   *)
(* all, it got every table or block that can match the other side, once    *)
(* and in order; all tables if the join side is not filtered, as for       *)
(* OPTIONAL; everything if there are UNDEF values; and no check fails.     *)
PrefilterLossless ==
    Chosen("prefilter") =>
        LET s == input.state
            undef == \E n \in DOMAIN s.generator : 0 \in ToSet(s.generator[n])
            Match(t, b) == \E n \in DOMAIN t : First(b) <= t[n] /\ t[n] <= LastOf(b)
            Needed(t) == t # <<>> /\ (undef \/ ~s.filterJoinSide
                                      \/ \E n \in DOMAIN s.all : Match(t, s.all[n]))
            Read(b) == undef \/ \E n \in DOMAIN s.generator : Match(s.generator[n], b)
        IN  /\ ~s.failed
            /\ s.joinDone => SelectSeq(s.joinOut, Needed) = SelectSeq(s.generator, Needed)
            /\ s.scanDone => SelectSeq(s.scanOut, Read) = SelectSeq(s.all, Read)

(* What is written to a permutation and updated afterwards is what scans   *)
(* return and what sizes and counts are computed of, although all of them  *)
(* decide by the metadata which blocks they read.  A join that reads only  *)
(* some blocks of a scan loses no result, whether the blocks are found by  *)
(* a column, by another scan, or while both inputs are read at their own   *)
(* pace.                                                                   *)
ScansExact ==
    /\ WriterKeepsTriples /\ ScanExact /\ SizesFromMetadata /\ GroupCountsWithoutUpdates
    /\ BlocksForJoinComplete /\ PrefilterLossless
=============================================================================
