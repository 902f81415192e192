--------------------------- MODULE LazyOperations ---------------------------
(***************************************************************************)
(* Operations that read their input, or write their result, in tables of   *)
(* some rows each: the Cartesian product, the sorted UNION, DISTINCT and   *)
(* GROUP BY.  A table is a sequence of rows, and a lazy result a sequence  *)
(* of tables.                                                              *)
(***************************************************************************)
EXTENDS Integers, Sequences, SequencesExt, FiniteSetsExt

CONSTANT MaxUint  \* the largest value of an unsigned integer
ASSUME MaxUintAssumption == MaxUint \in Nat \ {0}

NoLimit == MaxUint

---------------------------------------------------------------------------
(* LIMIT and OFFSET *)

actualOffset(offset, size) == Min({size, offset})

upperBound(limit, offset, size) ==
    LET val == (limit + offset) % (MaxUint + 1)
    IN  Min({size, IF val >= Max({limit, offset}) THEN val ELSE MaxUint})

actualSize(limit, offset, size) ==
    upperBound(limit, offset, size) - actualOffset(offset, size)

---------------------------------------------------------------------------
(* The Cartesian product.  The first table varies fastest.  All columns of *)
(* a table are written alike, so the rows of a table stand for them.       *)

(* Every element groupSize times, again and again, from some place on. *)
writeResultColumn(targetSize, column, groupSize, offset) ==
    LET round == Len(column) * groupSize
        first == ((offset % round) \div groupSize) * groupSize + (offset % groupSize)
    IN  [n \in 1 .. targetSize |-> column[((first + n - 1) % round) \div groupSize + 1]]

Sizes(tables) == [i \in DOMAIN tables |-> Len(tables[i])]
ProductOf(s) == FoldLeft(LAMBDA a, b : a * b, 1, s)

(* lastTableOffset counts the rows of the last input that came before its  *)
(* current table.                                                          *)
writeAllColumns(tables, offset, limit, lastTableOffset) ==
    LET sizes == Sizes(tables)
        product == ProductOf(sizes)
        last == Len(tables)
        isOpen == last # 0 /\ sizes[last] # 0
        total == IF isOpen THEN product + (product \div sizes[last]) * lastTableOffset ELSE product
        size == actualSize(limit, offset, total)
        columns == [i \in DOMAIN tables |->
                       LET groupSize == ProductOf(SubSeq(sizes, 1, i - 1))
                           extraOffset == IF i = last THEN lastTableOffset * groupSize ELSE 0
                       IN  writeResultColumn(size, tables[i], groupSize,
                                             (actualOffset(offset, total) - extraOffset) % (MaxUint + 1))]
    IN  [ok |-> offset >= lastTableOffset /\ (isOpen \/ lastTableOffset = 0),
         rows |-> IF size = 0 THEN <<>>
                  ELSE [n \in 1 .. size |-> FlattenSeq([i \in DOMAIN tables |-> columns[i][n]])]]

(* The tables of at most chunkSize rows, how many rows they have, and      *)
(* whether all checks hold.                                                *)
RECURSIVE ProduceFrom(_, _, _, _, _, _)
ProduceFrom(tables, offset, limit, lastTableOffset, chunkSize, sofar) ==
    LET limitWithChunkSize == Min({limit, chunkSize})
        Add(t) == [ok |-> sofar.ok /\ t.ok /\ Len(t.rows) <= limit,
                   out |-> IF t.rows = <<>> THEN sofar.out ELSE Append(sofar.out, t.rows),
                   produced |-> sofar.produced + Len(t.rows)]
        Continue(size, next) ==
            IF size # 0 /\ limit - size > 0 /\ size >= limitWithChunkSize
            THEN ProduceFrom(tables, offset + size, limit - size, lastTableOffset, chunkSize, next)
            ELSE next
        Yield(t) == Continue(Len(t.rows), Add(t))
    IN  IF limit = 0 THEN sofar
        ELSE Yield(writeAllColumns(tables, offset, limitWithChunkSize, lastTableOffset))

produceTablesLazily(tables, offset, limit, lastTableOffset, chunkSize) ==
    ProduceFrom(tables, offset, limit, lastTableOffset, chunkSize,
                [ok |-> TRUE, out |-> <<>>, produced |-> 0])

(* As if the rows produced from the tables before did not count. *)
ConsumeTable_KeepOffset(subResults, chunkSize, s, table) ==
    LET Add(p) == [ok |-> s.ok /\ p.ok, out |-> s.out \o p.out,
                   limit |-> s.limit - p.produced, offset |-> s.offset,
                   lastTableOffset |-> s.lastTableOffset + Len(table)]
    IN  IF table = <<>> THEN s
        ELSE Add(produceTablesLazily(Append(subResults, table), s.offset, s.limit,
                                     s.lastTableOffset, chunkSize))

(* One table of the lazy input after the other. *)
ConsumeTable(subResults, chunkSize, s, table) ==
    LET Add(p) == [ok |-> s.ok /\ p.ok, out |-> s.out \o p.out,
                   limit |-> s.limit - p.produced, offset |-> s.offset + p.produced,
                   lastTableOffset |-> s.lastTableOffset + Len(table)]
    IN  IF table = <<>> THEN s
        ELSE Add(produceTablesLazily(Append(subResults, table), s.offset, s.limit,
                                     s.lastTableOffset, chunkSize))

createLazyConsumer(subResults, lazyTables, offset, limit, chunkSize) ==
    FoldLeft(LAMBDA s, table : ConsumeTable(subResults, chunkSize, s, table),
             [ok |-> TRUE, out |-> <<>>, limit |-> limit, offset |-> offset,
              lastTableOffset |-> 0],
             lazyTables)

(* The tables of a child of which only the first rows are wanted. *)
RECURSIVE FirstRows(_, _)
FirstRows(tables, limit) ==
    IF tables = <<>> THEN <<>>
    ELSE LET n == Min({limit, Len(tables[1])})
         IN  <<SubSeq(tables[1], 1, n)>> \o FirstRows(Tail(tables), limit - n)

isNeutral(table) == table = << <<>> >>

(* A child has the fields tables, lazy and supportsLimit.  limit is <<>>   *)
(* if the children are to be computed completely.                          *)
RECURSIVE SubResultsFrom(_, _, _, _)
SubResultsFrom(children, limit, requestLaziness, subResults) ==
    IF children = <<>> THEN [subResults |-> subResults, lazyResult |-> <<>>]
    ELSE LET child == children[1]
             tables == IF limit # <<>> /\ child.supportsLimit
                       THEN FirstRows(child.tables, limit[1]) ELSE child.tables
             table == FlattenSeq(tables)
             isLast == Len(children) = 1
         IN  CASE requestLaziness /\ isLast /\ child.lazy ->
                    [subResults |-> subResults, lazyResult |-> <<tables>>]
               [] ~(requestLaziness /\ isLast /\ child.lazy) /\ table = <<>> ->
                    [subResults |-> Append(subResults, table), lazyResult |-> <<>>]
               [] ~(requestLaziness /\ isLast /\ child.lazy) /\ isNeutral(table) ->
                    SubResultsFrom(Tail(children), limit, requestLaziness, subResults)
               [] OTHER ->
                    SubResultsFrom(Tail(children),
                        IF limit = <<>> THEN limit ELSE <<limit[1] \div Len(table) + 1>>,
                        requestLaziness, Append(subResults, table))

calculateSubResults(children, limit, offset, requestLaziness) ==
    SubResultsFrom(children, IF limit = NoLimit \/ offset # 0 THEN <<>> ELSE <<limit>>,
                   requestLaziness, <<>>)

(* CartesianProductJoin::computeResult *)
cartesianProduct(children, limit, offset, requestLaziness, chunkSize) ==
    LET Single(t) == [ok |-> t.ok, out |-> <<t.rows>>]
        Compute(sub) ==
            IF ~requestLaziness THEN Single(writeAllColumns(sub.subResults, offset, limit, 0))
            ELSE IF sub.lazyResult # <<>>
            THEN createLazyConsumer(sub.subResults, sub.lazyResult[1], offset, limit, chunkSize)
            ELSE produceTablesLazily(sub.subResults, offset, limit, 0, chunkSize)
    IN  Compute(calculateSubResults(children, limit, offset, requestLaziness))

---------------------------------------------------------------------------
(* The sorted UNION.  columnOrigins has, for every column of the result,   *)
(* the columns of the two children or NO_COLUMN.                           *)
UNDEFINED == 0
NO_COLUMN == 0

trimmedTargetOrder(columnOrigins, targetOrder) ==
    LET missing == {n \in DOMAIN targetOrder :
                        \E s \in 1 .. 2 : columnOrigins[targetOrder[n]][s] = NO_COLUMN}
    IN  IF missing = {} THEN targetOrder ELSE SubSeq(targetOrder, 1, Min(missing))

(* The first column of the order on which the rows are not equal, or that  *)
(* one of them does not have, decides.                                     *)
isSmaller(columnOrigins, order, row1, row2) ==
    LET Missing(n, s) == columnOrigins[order[n]][s] = NO_COLUMN
        Col(n, s) == columnOrigins[order[n]][s]
        decides == {n \in DOMAIN order : \/ Missing(n, 1) \/ Missing(n, 2)
                                         \/ row1[Col(n, 1)] # row2[Col(n, 2)]}
        n == Min(decides)
    IN  /\ decides # {}
        /\ \/ Missing(n, 1)
           \/ ~Missing(n, 1) /\ ~Missing(n, 2) /\ row1[Col(n, 1)] < row2[Col(n, 2)]

(* A row of child s as a row of the result. *)
pushRow(columnOrigins, s, row) ==
    [c \in DOMAIN columnOrigins |->
        IF columnOrigins[c][s] = NO_COLUMN THEN UNDEFINED ELSE row[columnOrigins[c][s]]]

transformToCorrectColumnFormat(columnOrigins, s, table) ==
    [n \in DOMAIN table |-> pushRow(columnOrigins, s, table[n])]

(* u has the tables that remain of both children, the first of them with   *)
(* the number of rows already read, the result table and what was yielded. *)
AtEnd(u, s) == u.tables[s] = <<>>
advanceRangeIfConsumed(u) ==
    [u EXCEPT !.tables = [s \in 1 .. 2 |-> IF u.index[s] = Len(u.tables[s][1])
                                           THEN Tail(u.tables[s]) ELSE u.tables[s]],
              !.index = [s \in 1 .. 2 |-> IF u.index[s] = Len(u.tables[s][1])
                                          THEN 0 ELSE u.index[s]]]

popResult(u) == [u EXCEPT !.yielded = Append(@, u.result), !.result = <<>>]

appendCurrent(u, s) ==
    LET table == u.tables[s][1]
        rest == SubSeq(table, u.index[s] + 1, Len(table))
    IN  [u EXCEPT !.result = @ \o transformToCorrectColumnFormat(u.columnOrigins, s, rest),
                  !.tables[s] = Tail(@), !.index[s] = 0]

RECURSIVE appendRemaining(_, _)
appendRemaining(u, s) == IF AtEnd(u, s) THEN u ELSE appendRemaining(appendCurrent(u, s), s)

(* What is left of one child: the rest of the current table, then the      *)
(* tables as they are.                                                     *)
RECURSIVE PassRemaining(_, _)
PassRemaining(u, s) ==
    IF AtEnd(u, s) THEN u
    ELSE PassRemaining([u EXCEPT !.yielded = Append(@, transformToCorrectColumnFormat(
                                                  u.columnOrigins, s, u.tables[s][1])),
                                 !.tables[s] = Tail(@), !.index[s] = 0], s)

(* As if a table of which some rows were merged were passed on as a whole. *)
LazyTail_WholeTables(u) ==
    LET v == IF u.index[1] # 0 THEN appendCurrent(u, 1) ELSE u
        x == IF v.result # <<>> THEN popResult(v) ELSE v
    IN  PassRemaining(PassRemaining(x, 1), 2)

LazyTail(u) ==
    LET v == IF u.index[1] # 0 THEN appendCurrent(u, 1) ELSE u
        w == IF v.index[2] # 0 THEN appendCurrent(v, 2) ELSE v
        x == IF w.result # <<>> THEN popResult(w) ELSE w
    IN  PassRemaining(PassRemaining(x, 1), 2)

RECURSIVE SortedUnionLoop(_, _, _)
SortedUnionLoop(u, requestLaziness, chunkSize) ==
    IF AtEnd(u, 1) \/ AtEnd(u, 2)
    THEN IF requestLaziness THEN LazyTail(u)
         ELSE popResult(appendRemaining(appendRemaining(u, 1), 2))
    ELSE LET t == [s \in 1 .. 2 |-> u.tables[s][1]]
         IN  IF u.index[1] >= Len(t[1]) \/ u.index[2] >= Len(t[2])
             THEN SortedUnionLoop(advanceRangeIfConsumed(u), requestLaziness, chunkSize)
             ELSE LET s == IF isSmaller(u.columnOrigins, u.order, t[1][u.index[1] + 1],
                                        t[2][u.index[2] + 1]) THEN 1 ELSE 2
                      v == [u EXCEPT !.result = Append(@, pushRow(u.columnOrigins, s,
                                                              t[s][u.index[s] + 1])),
                                     !.index[s] = @ + 1]
                  IN  SortedUnionLoop(
                          IF requestLaziness /\ Len(v.result) >= chunkSize
                          THEN advanceRangeIfConsumed(popResult(v)) ELSE v,
                          requestLaziness, chunkSize)

computeResultKeepOrder(columnOrigins, targetOrder, children, requestLaziness, chunkSize) ==
    SortedUnionLoop([columnOrigins |-> columnOrigins,
                     order |-> trimmedTargetOrder(columnOrigins, targetOrder),
                     tables |-> children, index |-> <<0, 0>>, result |-> <<>>, yielded |-> <<>>],
                    requestLaziness, chunkSize).yielded

(* The rows of the first child before those of the second. *)
computeUnion(columnOrigins, children) ==
    FlattenSeq([s \in 1 .. 2 |->
        [n \in DOMAIN children[s] |->
            transformToCorrectColumnFormat(columnOrigins, s, children[s][n])]])

(* Union::computeResult.  If the second child does not have the first      *)
(* column of the order, the constructor has swapped the children.          *)
unionResult(columnOrigins, targetOrder, children, requestLaziness, chunkSize) ==
    LET first == columnOrigins[targetOrder[1]]
        swap == first[2] = NO_COLUMN
        origins == IF swap THEN [c \in DOMAIN columnOrigins |-> Reverse(columnOrigins[c])]
                   ELSE columnOrigins
        inputs == IF swap THEN Reverse(children) ELSE children
        all == computeUnion(origins, inputs)
    IN  IF origins[targetOrder[1]][1] # NO_COLUMN
        THEN computeResultKeepOrder(origins, targetOrder, inputs, requestLaziness, chunkSize)
        ELSE IF requestLaziness THEN all ELSE <<FlattenSeq(all)>>

---------------------------------------------------------------------------
(* DISTINCT on the first column of the rows *)

matchesRow(a, b) == a[1] = b[1]

(* The rows before dest are unique, and begin is the last one looked at. *)
RECURSIVE UniqueLoop(_, _, _)
UniqueLoop(table, begin, dest) ==
    IF begin = Len(table) THEN SubSeq(table, 1, dest)
    ELSE IF matchesRow(table[dest], table[begin + 1])
         THEN UniqueLoop(table, begin + 1, dest)
         ELSE UniqueLoop([table EXCEPT ![dest + 1] = table[begin + 1]], begin + 1, dest + 1)

(* Distinct::distinct; previousRow is <<>> or the last row kept before. *)
distinct(table, previousRow) ==
    LET n == Len(table)
        begin == Min({i \in 1 .. n : previousRow = <<>> \/ ~matchesRow(table[i], previousRow[1])}
                     \union {n + 1})
        adjacent == {i \in 1 .. n - 1 : matchesRow(table[i], table[i + 1])}
    IN  IF begin = 1
        THEN IF adjacent = {} THEN table
             ELSE UniqueLoop(table, Min(adjacent) + 1, Min(adjacent))
        ELSE IF begin = n + 1 THEN <<>>
             ELSE UniqueLoop([table EXCEPT ![1] = table[begin]], begin, 1)

lazyDistinct(tables) ==
    FoldLeft(LAMBDA s, table :
                 LET result == distinct(table, s.previousRow)
                 IN  IF result = <<>> THEN s
                     ELSE [previousRow |-> <<Last(result)>>, out |-> Append(s.out, result)],
             [previousRow |-> <<>>, out |-> <<>>], tables).out

unique_copy(rows) ==
    LET kept == {i \in DOMAIN rows : i = 1 \/ ~matchesRow(rows[i - 1], rows[i])}
        Nth(k) == CHOOSE i \in kept : Cardinality({j \in kept : j <= i}) = k
    IN  [k \in 1 .. Cardinality(kept) |-> rows[Nth(k)]]

(* As if only one chunk were searched. *)
SkipEqual_OneChunk(table, begin, chunkSize) ==
    LET end == Min({Len(table) + 1, begin + chunkSize})
    IN  Min({i \in begin .. end - 1 : ~matchesRow(table[i], table[begin - 1])} \union {end})

(* The next row that differs from the one before begin, in chunks. *)
RECURSIVE SkipEqual(_, _, _)
SkipEqual(table, begin, chunkSize) ==
    LET end == Min({Len(table) + 1, begin + chunkSize})
        next == Min({i \in begin .. end - 1 : ~matchesRow(table[i], table[begin - 1])}
                    \union {end})
    IN  IF next # Len(table) + 1 /\ matchesRow(table[next], table[next - 1])
        THEN SkipEqual(table, next, chunkSize) ELSE next

RECURSIVE OutOfPlaceFrom(_, _, _)
OutOfPlaceFrom(table, begin, chunkSize) ==
    IF begin > Len(table) THEN <<>>
    ELSE LET end == Min({Len(table) + 1, begin + chunkSize})
         IN  unique_copy(SubSeq(table, begin, end - 1))
             \o OutOfPlaceFrom(table, SkipEqual(table, end, chunkSize), chunkSize)

outOfPlaceDistinct(table, chunkSize) == OutOfPlaceFrom(table, 1, chunkSize)

---------------------------------------------------------------------------
(* GROUP BY on the first column of the rows, or on nothing.  An aggregate  *)
(* is the sequence of the rows added to it.                                *)

StartGroupBy == [block |-> <<>>, split |-> FALSE, data |-> <<>>, result |-> <<>>, out |-> <<>>]

(* As if the aggregates were not reset. *)
commitRow_KeepData(g, rows) ==
    [g EXCEPT !.result = Append(@, [group |-> g.block, rows |-> g.data \o rows])]

commitRow(g, rows) ==
    [g EXCEPT !.result = Append(@, [group |-> g.block, rows |-> g.data \o rows]), !.data = <<>>]

(* A group that began in an earlier table is completed; one that lies in   *)
(* this table is computed at once.                                         *)
onBlockChange(g, rows) ==
    IF g.split THEN [commitRow(g, rows) EXCEPT !.split = FALSE]
    ELSE [g EXCEPT !.result = Append(@, [group |-> <<rows[1][1]>>, rows |-> rows])]

RECURSIVE searchBlockBoundaries(_, _, _, _)
searchBlockBoundaries(g, table, blockStart, pos) ==
    IF pos > Len(table)
    THEN [g EXCEPT !.split = TRUE, !.data = @ \o SubSeq(table, blockStart, Len(table))]
    ELSE IF g.block = <<>> \/ table[pos][1] = g.block[1]
    THEN searchBlockBoundaries(g, table, blockStart, pos + 1)
    ELSE searchBlockBoundaries(
             [onBlockChange(g, SubSeq(table, blockStart, pos - 1))
                  EXCEPT !.block = <<table[pos][1]>>], table, pos, pos + 1)

ProcessGroups(g, table, implicit, singleIdTable) ==
    IF table = <<>> THEN g
    ELSE LET started == IF g.block = <<>> /\ ~implicit
                        THEN [g EXCEPT !.block = <<table[1][1]>>] ELSE g
             h == searchBlockBoundaries(started, table, 1, 1)
         IN  IF ~singleIdTable /\ h.result # <<>>
             THEN [h EXCEPT !.out = Append(@, h.result), !.result = <<>>] ELSE h

yieldFinalValue(g, implicit, singleIdTable) ==
    IF g.split THEN Append(g.out, commitRow(g, <<>>).result)
    ELSE IF implicit THEN Append(g.out, <<[group |-> <<>>, rows |-> <<>>]>>)
    ELSE IF singleIdTable THEN Append(g.out, g.result) ELSE g.out

LazyGroupByRange(tables, implicit, singleIdTable) ==
    yieldFinalValue(
        FoldLeft(LAMBDA g, table : ProcessGroups(g, table, implicit, singleIdTable),
                 StartGroupBy, tables),
        implicit, singleIdTable)
=============================================================================
