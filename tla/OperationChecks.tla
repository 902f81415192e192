--------------------------- MODULE OperationChecks ---------------------------
(***************************************************************************)
(* The lazy operations and the property paths on all small inputs.         *)
(***************************************************************************)
EXTENDS TransitivePath, Inputs

CONSTANTS MaxTableRows,  \* the number of rows of an input
          MaxNodes       \* the number of nodes of a path without GRAPH

(* All ways to cut rows into tables, also with an empty table. *)
RECURSIVE CutRows(_)
CutRows(rows) ==
    IF rows = <<>> THEN {<<>>}
    ELSE UNION {{<<SubSeq(rows, 1, n)>> \o rest : rest \in CutRows(SubSeq(rows, n + 1, Len(rows)))}
                : n \in 1 .. Len(rows)}

WithEmptyTables(cuts) ==
    cuts \union {<< <<>> >> \o c : c \in cuts} \union {Append(c, <<>>) : c \in cuts}

TablesOf(rows) == WithEmptyTables(CutRows(rows))

---------------------------------------------------------------------------
(* The Cartesian product.  The first children have one table each; their   *)
(* rows are numbered.  Number 10 * k + n is row n of child k.              *)
NumberedRows(k, n) == [i \in 1 .. n |-> <<10 * k + i>>]
Neutral == << <<>> >>
FirstTables(k) == {NumberedRows(k, n) : n \in 0 .. MaxTableRows} \union {Neutral}

ChooseFirstTables ==
    /\ Chosen("none")
    /\ \E t1 \in FirstTables(1), t2 \in FirstTables(2) :
         input' = [kind |-> "firstTables", tables |-> <<t1, t2>>]

ChooseLastTable ==
    /\ Chosen("firstTables")
    /\ \E n \in 0 .. MaxTableRows : \E tables \in TablesOf(NumberedRows(3, n)) \union {<<Neutral>>} :
         input' = [kind |-> "product", first |-> input.tables, last |-> tables]

ProductLimits == {0, 1, 3, 5, NoLimit}
ProductOffsets == {0, 1, 2, 5, 8}

(* The rows of the product from the offset on, as many as the limit says.  *)
ProductRow(tables, k) ==
    FlattenSeq([i \in DOMAIN tables |->
        tables[i][((k \div ProductOf(SubSeq(Sizes(tables), 1, i - 1))) % Len(tables[i])) + 1]])
ProductSlice(tables, limit, offset) ==
    LET total == ProductOf(Sizes(tables))
        size == Max({0, Min({total - offset, limit})})
    IN  [n \in 1 .. size |-> ProductRow(tables, offset + n - 1)]

(* However the last input is cut into tables, and however small the tables *)
(* of the result are, a Cartesian product has exactly the rows that its    *)
(* LIMIT and OFFSET leave, in order; pushing the limit into the children   *)
(* loses none, and no check on the offsets fails.                          *)
CartesianProductExact ==
    Chosen("product") =>
        \A limit \in ProductLimits, offset \in ProductOffsets, lazy, push \in BOOLEAN :
        \A chunkSize \in IF lazy THEN {1, 2, 4} ELSE {1} :
            LET Child(tables) == [tables |-> tables, lazy |-> lazy, supportsLimit |-> push]
                children == <<Child(<<input.first[1]>>), Child(<<input.first[2]>>),
                              Child(input.last)>>
                r == cartesianProduct(children, limit, offset, lazy, chunkSize)
            IN  /\ r.ok
                /\ FlattenSeq(r.out)
                     = ProductSlice(<<input.first[1], input.first[2], FlattenSeq(input.last)>>,
                                    limit, offset)
                /\ lazy => \A n \in DOMAIN r.out : Len(r.out[n]) \in 1 .. chunkSize

---------------------------------------------------------------------------
(* UNION of two children with two columns each *)
Origins == {<< <<1, 1>>, <<2, 2>> >>, << <<2, 1>>, <<1, 2>> >>,
            << <<1, 1>>, <<2, NO_COLUMN>>, <<NO_COLUMN, 2>> >>,
            << <<1, 2>>, <<NO_COLUMN, 1>>, <<2, NO_COLUMN>> >>,
            << <<1, NO_COLUMN>>, <<2, 1>>, <<NO_COLUMN, 2>> >>,
            << <<NO_COLUMN, 1>>, <<1, 2>>, <<2, NO_COLUMN>> >>}

RowBefore(a, b) == \E c \in DOMAIN a : a[c] < b[c] /\ \A d \in 1 .. c - 1 : a[d] = b[d]

(* The order of the result is that of its columns; a child is sorted by    *)
(* the columns that it has.                                                *)
ChildOrder(origins, s) ==
    LET own == SelectSeq(origins, LAMBDA o : o[s] # NO_COLUMN)
    IN  [n \in DOMAIN own |-> own[n][s]]
ChildTables(origins, s, n) ==
    LET order == ChildOrder(origins, s)
        LessThan(a, b) == RowBefore([k \in 1 .. 2 |-> a[order[k]]], [k \in 1 .. 2 |-> b[order[k]]])
    IN  SortedSeqs({<<a, b>> : a, b \in UNDEFINED .. 1}, n, LessThan)

ChooseFirstChild ==
    /\ Chosen("none")
    /\ \E o \in Origins : \E rows \in ChildTables(o, 1, MaxTableRows - 1) : \E t \in TablesOf(rows) :
         input' = [kind |-> "firstChild", origins |-> o, child |-> t]

ChooseSecondChild ==
    /\ Chosen("firstChild")
    /\ \E rows \in ChildTables(input.origins, 2, MaxTableRows - 1) : \E t \in TablesOf(rows) :
         input' = [kind |-> "union", origins |-> input.origins, children |-> <<input.child, t>>]

UnionRows(s) ==
    LET rows == FlattenSeq(input.children[s])
    IN  [n \in DOMAIN rows |-> pushRow(input.origins, s, rows[n])]
Occurrences(rows, row) == Cardinality({n \in DOMAIN rows : rows[n] = row})

(* The column that one child lacks is UNDEF in a row of the other child. *)
UndefInMissing ==
    LET lacking == {c \in DOMAIN input.origins : \E s \in 1 .. 2 : input.origins[c][s] = NO_COLUMN}
        c == Min(lacking)
    IN  /\ lacking # {}
        /\ \E s \in 1 .. 2 : input.origins[c][s] # NO_COLUMN
             /\ \E n \in DOMAIN UnionRows(s) : UnionRows(s)[n][c] = UNDEFINED

UnionTables(lazy, chunkSize) ==
    unionResult(input.origins, [c \in DOMAIN input.origins |-> c], input.children, lazy, chunkSize)

RowsSorted(rows) == \A n \in 1 .. Len(rows) - 1 : ~RowBefore(rows[n + 1], rows[n])

(* However the children are cut into tables, a sorted UNION has exactly    *)
(* their rows, lazily and not, and is sorted on the columns that its       *)
(* parent was told; except if a value is UNDEF in the first column of the  *)
(* order that the other child lacks.                                       *)
SortedUnionExact ==
    Chosen("union") =>
        LET expected == UnionRows(1) \o UnionRows(2)
            anyOrder == UndefInMissing
        IN  \A lazy \in BOOLEAN : \A chunkSize \in IF lazy THEN {1, 2} ELSE {1} :
                LET rows == FlattenSeq(UnionTables(lazy, chunkSize))
                IN  /\ Len(rows) = Len(expected)
                    /\ \A n \in DOMAIN rows :
                         Occurrences(rows, rows[n]) = Occurrences(expected, rows[n])
                    /\ anyOrder \/ RowsSorted(rows)

(* The same also with such values. *)
SortedUnionSorted == Chosen("union") => RowsSorted(FlattenSeq(UnionTables(TRUE, 2)))

---------------------------------------------------------------------------
(* DISTINCT and GROUP BY on tables sorted by the key; a row has its number *)
ChooseKeys ==
    /\ Chosen("none")
    /\ \E keys \in SortedSeqs(1 .. 3, MaxTableRows + 2, <) :
         \E tables \in TablesOf([n \in DOMAIN keys |-> <<keys[n], n>>]) :
           input' = [kind |-> "keys", tables |-> tables]

InputRows == FlattenSeq(input.tables)
FirstOfGroups ==
    SelectSeq(InputRows, LAMBDA r : r[2] = 1 \/ InputRows[r[2] - 1][1] # r[1])

(* DISTINCT keeps the first row of every group of equal rows, also if the  *)
(* group spans several tables of its input or several of the chunks in     *)
(* which a complete input is read, and yields no empty table.              *)
DistinctExact ==
    Chosen("keys") =>
        LET out == lazyDistinct(input.tables)
        IN  /\ FlattenSeq(out) = FirstOfGroups
            /\ \A n \in DOMAIN out : out[n] # <<>>
            /\ \A chunkSize \in 1 .. 3 : outOfPlaceDistinct(InputRows, chunkSize) = FirstOfGroups

ExpectedGroups(implicit) ==
    IF implicit THEN <<[group |-> <<>>, rows |-> InputRows]>>
    ELSE [n \in DOMAIN FirstOfGroups |->
             [group |-> <<FirstOfGroups[n][1]>>,
              rows |-> SelectSeq(InputRows, LAMBDA r : r[1] = FirstOfGroups[n][1])]]

(* A group is aggregated over all its rows exactly once, whether it lies   *)
(* in one table, ends where a table ends, or spans several; an input       *)
(* without rows is one group if nothing is grouped, and none otherwise.    *)
GroupByExact ==
    Chosen("keys") =>
        \A implicit, singleIdTable \in BOOLEAN :
            LET out == LazyGroupByRange(input.tables, implicit, singleIdTable)
            IN  /\ FlattenSeq(out) = ExpectedGroups(implicit)
                /\ singleIdTable => Len(out) = 1
                /\ ~singleIdTable => \A n \in DOMAIN out : out[n] # <<>>

---------------------------------------------------------------------------
(* Property paths, without graphs on more nodes and in two graphs, whose   *)
(* names are nodes, on two.                                                *)
EdgesOver(graph, n) ==
    [k \in 1 .. n * n |->
        [graph |-> graph, start |-> ((k - 1) \div n) + 1, target |-> ((k - 1) % n) + 1]]
PlainEdges == EdgesOver(UNDEFINED, MaxNodes)
GraphEdges == EdgesOver(1, 2) \o EdgesOver(2, 2)

ChooseGraph ==
    /\ Chosen("none")
    /\ \E hasGraph \in BOOLEAN : \E n \in DOMAIN (IF hasGraph THEN GraphEdges ELSE PlainEdges) :
         input' = [kind |-> "graph", hasGraph |-> hasGraph, firstEdge |-> n]

ChooseEdges ==
    /\ Chosen("graph")
    /\ LET all == IF input.hasGraph THEN GraphEdges ELSE PlainEdges
       IN  \E S \in SUBSET (input.firstEdge + 1 .. Len(all)) :
             input' = [kind |-> "path", hasGraph |-> input.hasGraph,
                       edges |-> SelectSeq(all, LAMBDA e :
                                     e \in {all[n] : n \in S \union {input.firstEdge}})]

(* The nodes at the end of a walk of min to max edges of a graph that      *)
(* starts at one of nodes.                                                 *)
RECURSIVE WalkEnds(_, _, _, _)
WalkEnds(graph, nodes, min, max) ==
    LET targets == {input.edges[n].target : n \in {n \in DOMAIN input.edges :
                        input.edges[n].graph = graph /\ input.edges[n].start \in nodes}}
    IN  (IF min <= 0 THEN nodes ELSE {})
        \union IF max = 0 THEN {} ELSE WalkEnds(graph, targets, min - 1, max - 1)

(* A walk without limit need not be longer than this. *)
Reachable(p, graph, start) ==
    WalkEnds(graph, {start}, p.minDist, Min({p.maxDist, p.minDist + MaxNodes}))

ExpectedHull(p, row) ==
    LET nodes == {input.edges[n].start : n \in DOMAIN input.edges} \union ({row.node} \ {UNDEFINED})
        graphs == IF input.hasGraph THEN {1, 2} ELSE {UNDEFINED}
    IN  {r \in UNION {{[start |-> s, target |-> t, graph |-> g] : t \in Reachable(p, g, s)}
                      : s \in nodes, g \in graphs} :
            /\ row.node \in {UNDEFINED, r.start}
            /\ row.graph \in {UNDEFINED, r.graph}
            /\ p.sameVariable => r.start = r.target
            /\ p.startsWithGraphVariable => r.start = r.graph
            /\ p.endsWithGraphVariable => r.target = r.graph
            /\ p.target # <<>> => r.target = p.target[1]}

Distances == {<<0, MaxUint>>, <<1, MaxUint>>, <<2, MaxUint>>, <<0, 1>>, <<1, 2>>, <<2, 2>>, <<2, 3>>}

(* Which variables are the same, or the node at the end. *)
Ends == {"free", "node", "same"} \union (IF input.hasGraph THEN {"starts", "ends"} ELSE {})

PathOf(d, end) ==
    [edges |-> input.edges, hasGraph |-> input.hasGraph, minDist |-> d[1], maxDist |-> d[2],
     sameVariable |-> end = "same", startsWithGraphVariable |-> end = "starts",
     endsWithGraphVariable |-> end = "ends", target |-> IF end = "node" THEN <<2>> ELSE <<>>]

StartRows ==
    {[node |-> n, graph |-> g] :
        n \in UNDEFINED .. 2, g \in IF input.hasGraph THEN UNDEFINED .. 2 ELSE {UNDEFINED}}

(* A row without node whose graph is known. *)
OnlyGraphKnown(row) == row.node = UNDEFINED /\ row.graph # UNDEFINED

(* A row without node, or without graph, is expanded to nodes with edges,  *)
(* so a path of length zero is only found for the other rows.              *)
IsExpanded(row) == row.node = UNDEFINED \/ (input.hasGraph /\ row.graph = UNDEFINED)

HullExact(row) ==
    \A d \in Distances, end \in Ends :
        LET p == PathOf(d, end)
            expected == ExpectedHull(p, row)
        IN  (IsExpanded(row) => d[1] # 0)
            => /\ computeTransitivePathBound(p, row) = expected
               /\ row.graph = UNDEFINED /\ d[1] # 0 => computeTransitivePath(p, row.node) = expected

(* A path of limited or unlimited length finds exactly the nodes at the    *)
(* end of a walk of such a length in one graph, from every start node that *)
(* a row of the start side stands for, although a node that was visited is *)
(* only visited again at a shorter distance; except from a row that has a  *)
(* graph but no node.                                                      *)
TransitivePathExact ==
    Chosen("path") => \A row \in StartRows : ~OnlyGraphKnown(row) => HullExact(row)

(* The same of the rows that have a graph but no node. *)
TransitivePathOfGraphExact ==
    Chosen("path") => \A row \in StartRows : OnlyGraphKnown(row) => HullExact(row)

ChooseOperation ==
    \/ ChooseFirstTables \/ ChooseLastTable
    \/ ChooseFirstChild \/ ChooseSecondChild
    \/ ChooseKeys \/ ChooseGraph \/ ChooseEdges

(* Every operation that works on one table of its input at a time computes *)
(* what it would compute of the whole input, and property paths find what  *)
(* walks through the graph reach.                                          *)
OperationsExact ==
    /\ CartesianProductExact /\ SortedUnionExact /\ DistinctExact /\ GroupByExact
    /\ TransitivePathExact
=============================================================================
