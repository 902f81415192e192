------------------------ MODULE PrefilterExpressions ------------------------
(***************************************************************************)
(* A FILTER on the sorted column of an index scan is used to skip blocks   *)
(* (PrefilterExpressionIndex.cpp, ValueIdComparators.h, and the functions  *)
(* getPrefilterExpressionForMetadata of the SPARQL expressions).  Only the *)
(* first and the last id of a block in that column are known.  ids is the  *)
(* sequence of these ids, two per block; a range <<b, e>> is the half-open *)
(* range of the positions b .. e - 1, counted from 0, in ids or among the  *)
(* blocks.  Left out are prefixes of strings (PrefixRegexExpression) and   *)
(* all variables but that of the column: "other" stands for an expression  *)
(* that is not about it.                                                   *)
(***************************************************************************)
EXTENDS ValueId, Sequences, FiniteSets

CONSTANTS MaxNumber,  \* the largest number
          FirstIri    \* the place of "<>" in the order of the words

BoolType == 1
DoubleType == 3
DateType == 7
GeoPointType == 8
stringTypes == {VocabIndex, LocalVocabIndex}
numericTypes == {IntType, DoubleType}

(* The value of an id is its bits: the numbers from 0, then the negative   *)
(* ones; and for doubles 0.0, the positive ones, NaN, -0.0, and the        *)
(* negative ones in reversed order.                                        *)
NaN == <<DoubleType, MaxNumber + 1>>
Negative(id) == id[2] > IF id[1] = IntType THEN MaxNumber ELSE MaxNumber + 1
Number(id) ==
    IF ~Negative(id) THEN id[2]
    ELSE IF id[1] = IntType THEN id[2] - (2 * MaxNumber + 1)
    ELSE MaxNumber + 2 - id[2]

(* The words of the vocabulary are at the even places, those of a local    *)
(* vocabulary are not in it and lie between them.                          *)
WordPlace(id) == IF id[1] = VocabIndex THEN 2 * id[2] ELSE id[2]
SortType(type) == IF type \in stringTypes THEN VocabIndex ELSE type

SortsBefore(a, b) ==
    \/ SortType(a[1]) < SortType(b[1])
    \/ /\ SortType(a[1]) = SortType(b[1])
       /\ IF a[1] \in stringTypes THEN WordPlace(a) < WordPlace(b) ELSE a[2] < b[2]

---------------------------------------------------------------------------
(* Comparisons of ids *)

CompOps == {"LT", "LE", "EQ", "NE", "GE", "GT"}

Compare(op, less, equal) ==
    CASE op = "LT" -> less
      [] op = "LE" -> less \/ equal
      [] op = "EQ" -> equal
      [] op = "NE" -> ~equal
      [] op = "GE" -> ~less
      [] op = "GT" -> ~less /\ ~equal

areTypesCompatible(s, t) ==
    s = t \/ {s, t} \subseteq numericTypes \/ {s, t} \subseteq stringTypes

(* The result of a comparison is that of an expression: true, false, or an *)
(* error.                                                                  *)
FromBool(b) == IF b THEN "true" ELSE "false"

compareIds(a, b, op) ==
    IF ~areTypesCompatible(a[1], b[1]) THEN "undef"
    ELSE IF NaN \in {a, b} THEN FromBool(op = "NE")
    ELSE IF a[1] \in numericTypes
      THEN FromBool(Compare(op, Number(a) < Number(b), Number(a) = Number(b)))
      ELSE FromBool(Compare(op, SortsBefore(a, b), a = b))

---------------------------------------------------------------------------
(* The ranges of ids for which a comparison is true *)

(* lower_bound and upper_bound: the end of the ids of a range that satisfy *)
(* a condition, which are in front.                                        *)
BoundIn(ids, range, InFront(_)) ==
    range[1] + Cardinality({i \in range[1] + 1 .. range[2] : InFront(ids[i])})

(* upper_bound as the library searches, for the one call whose ids need    *)
(* not be partitioned: no number compares with NaN, which is in the range. *)
RECURSIVE UpperBoundOfZero(_, _, _)
UpperBoundOfZero(ids, first, len) ==
    LET half == len \div 2
        id == ids[first + half + 1]
    IN  IF len = 0 THEN first
        ELSE IF id # NaN /\ Number(id) > 0 THEN UpperBoundOfZero(ids, first, half)
        ELSE UpperBoundOfZero(ids, first + half + 1, len - half - 1)

getRangeForDatatype(ids, type) ==
    LET place == SortType(type)
        begin == BoundIn(ids, <<0, Len(ids)>>, LAMBDA id : SortType(id[1]) < place)
    IN  <<begin, BoundIn(ids, <<begin, Len(ids)>>, LAMBDA id : SortType(id[1]) = place)>>

addEqual(op, range) == IF op \in {"LE", "EQ", "GE"} THEN {range} ELSE {}
addSmaller(op, range) == IF op \in {"LT", "LE", "NE"} THEN {range} ELSE {}
addGreater(op, range) == IF op \in {"GE", "GT", "NE"} THEN {range} ELSE {}
addNotEqual(op, range) == IF op = "NE" THEN {range} ELSE {}

(* The doubles are the ids from begin to end: positive ones up to nans,    *)
(* NaN up to negatives, and then those with a sign.                        *)
RangesOfDoubles(ids, ref, op, begin, nans, negatives, end) ==
    LET positive == <<begin, nans>>
        negative == <<negatives, end>>
        value == Number(ref)
    IN  IF ref = NaN THEN addNotEqual(op, <<begin, end>>)
        ELSE addNotEqual(op, <<nans, negatives>>) \union
             IF value > 0
               THEN LET eqBegin == BoundIn(ids, positive, LAMBDA id : Number(id) < value)
                        eqEnd == BoundIn(ids, positive, LAMBDA id : Number(id) <= value)
                    IN  addSmaller(op, <<begin, eqBegin>>) \union addEqual(op, <<eqBegin, eqEnd>>)
                        \union addGreater(op, <<eqEnd, nans>>) \union addSmaller(op, negative)
             ELSE IF value < 0
               THEN LET eqBegin == BoundIn(ids, negative, LAMBDA id : Number(id) > value)
                        eqEnd == BoundIn(ids, negative, LAMBDA id : Number(id) >= value)
                    IN  addGreater(op, positive) \union addGreater(op, <<negatives, eqBegin>>)
                        \union addEqual(op, <<eqBegin, eqEnd>>) \union addSmaller(op, <<eqEnd, end>>)
             ELSE LET positiveEnd == UpperBoundOfZero(ids, begin, negatives - begin)
                      negativeEnd == BoundIn(ids, negative, LAMBDA id : Number(id) >= 0)
                  IN  addEqual(op, <<begin, positiveEnd>>) \union addGreater(op, <<positiveEnd, nans>>)
                      \union addEqual(op, <<negatives, negativeEnd>>)
                      \union addSmaller(op, <<negativeEnd, end>>)

getRangesForDouble(ids, ref, op) ==
    LET type == getRangeForDatatype(ids, DoubleType)
    IN  RangesOfDoubles(ids, ref, op, type[1],
                        BoundIn(ids, type, LAMBDA id : ~Negative(id) /\ id # NaN),
                        BoundIn(ids, type, LAMBDA id : ~Negative(id)), type[2])

(* Mutant: the negative integers are expected in front of the others. *)
getRangesForInt_ByValue(ids, ref, op) ==
    LET type == getRangeForDatatype(ids, IntType)
        eqBegin == BoundIn(ids, type, LAMBDA id : Number(id) < Number(ref))
        eqEnd == BoundIn(ids, type, LAMBDA id : Number(id) <= Number(ref))
    IN  IF ref = NaN THEN addNotEqual(op, type)
        ELSE addSmaller(op, <<type[1], eqBegin>>) \union addEqual(op, <<eqBegin, eqEnd>>)
             \union addGreater(op, <<eqEnd, type[2]>>)

getRangesForInt(ids, ref, op) ==
    LET type == getRangeForDatatype(ids, IntType)
        firstNegative == BoundIn(ids, type, LAMBDA id : ~Negative(id))
        sameSign == IF Number(ref) >= 0 THEN <<type[1], firstNegative>> ELSE <<firstNegative, type[2]>>
        eqBegin == BoundIn(ids, sameSign, LAMBDA id : Number(id) < Number(ref))
        eqEnd == BoundIn(ids, sameSign, LAMBDA id : Number(id) <= Number(ref))
    IN  IF ref = NaN THEN addNotEqual(op, type)
        ELSE addSmaller(op, <<sameSign[1], eqBegin>>) \union addEqual(op, <<eqBegin, eqEnd>>)
             \union addGreater(op, <<eqEnd, sameSign[2]>>)
             \union IF Number(ref) >= 0 THEN addSmaller(op, <<firstNegative, type[2]>>)
                                        ELSE addGreater(op, <<type[1], firstNegative>>)

getRangesForIndexTypes(ids, ref, op) ==
    LET type == getRangeForDatatype(ids, ref[1])
        eqBegin == BoundIn(ids, type, LAMBDA id : SortsBefore(id, ref))
        eqEnd == BoundIn(ids, type, LAMBDA id : ~SortsBefore(ref, id))
    IN  addSmaller(op, <<type[1], eqBegin>>) \union addEqual(op, <<eqBegin, eqEnd>>)
        \union addGreater(op, <<eqEnd, type[2]>>)

RangeLess(r, s) == r[1] < s[1] \/ (r[1] = s[1] /\ r[2] < s[2])
SortedRanges(ranges) ==
    [i \in 1 .. Cardinality(ranges) |->
        CHOOSE r \in ranges : Cardinality({s \in ranges : RangeLess(s, r)}) = i - 1]

RECURSIVE MergeAdjacent(_)
MergeAdjacent(s) ==
    IF Len(s) <= 1 THEN s
    ELSE IF s[2][1] = s[1][2]
      THEN MergeAdjacent(<< <<s[1][1], s[2][2]>> >> \o SubSeq(s, 3, Len(s)))
      ELSE <<s[1]>> \o MergeAdjacent(Tail(s))

simplifyRanges(ranges, removeEmptyRanges) ==
    MergeAdjacent(SortedRanges({r \in ranges : ~removeEmptyRanges \/ r[1] # r[2]}))

getRangesForId(ids, ref, op, removeEmptyRanges) ==
    simplifyRanges(IF ref[1] \in numericTypes
                     THEN getRangesForDouble(ids, ref, op) \union getRangesForInt(ids, ref, op)
                     ELSE getRangesForIndexTypes(ids, ref, op), removeEmptyRanges)

---------------------------------------------------------------------------
(* The ranges of blocks of these ids *)

mergeBlockRangeWithRanges(ranges, range) ==
    LET n == Len(ranges)
    IN  IF range[1] = range[2] THEN ranges
        ELSE IF n > 0 /\ ranges[n][2] >= range[1]
          THEN [ranges EXCEPT ![n][2] = IF range[2] > @ THEN range[2] ELSE @]
          ELSE Append(ranges, range)

RECURSIVE AddRanges(_, _)
AddRanges(ranges, new) ==
    IF new = <<>> THEN ranges
    ELSE AddRanges(mergeBlockRangeWithRanges(ranges, Head(new)), Tail(new))

mapValueIdItPairToBlockRange(begin, end) == <<begin \div 2, (end + 1) \div 2>>

mapValueIdItRangesToBlockItRanges(ranges) ==
    AddRanges(<<>>, [i \in 1 .. Len(ranges) |-> mapValueIdItPairToBlockRange(ranges[i][1], ranges[i][2])])

mapValueIdItRangesToBlockItRangesComplemented(ranges, numIds) ==
    AddRanges(<<>>, [i \in 1 .. Len(ranges) + 1 |->
        mapValueIdItPairToBlockRange(IF i = 1 THEN 0 ELSE ranges[i - 1][2],
                                     IF i > Len(ranges) THEN numIds ELSE ranges[i][1])])

MapRanges(ranges, complement, ids) ==
    IF complement THEN mapValueIdItRangesToBlockItRangesComplemented(ranges, Len(ids))
                  ELSE mapValueIdItRangesToBlockItRanges(ranges)

RECURSIVE MergeRangesFrom(_, _, _, _)
MergeRangesFrom(merged, isUnion, r, s) ==
    IF r = <<>> \/ s = <<>> THEN IF isUnion THEN AddRanges(merged, r \o s) ELSE merged
    ELSE LET a == Head(r)
             b == Head(s)
             AddIfUnion(range) == IF isUnion THEN mergeBlockRangeWithRanges(merged, range) ELSE merged
             Larger(x, y) == IF x > y THEN x ELSE y
             Smaller(x, y) == IF x < y THEN x ELSE y
         IN  IF a[2] < b[1] THEN MergeRangesFrom(AddIfUnion(a), isUnion, Tail(r), s)
             ELSE IF b[2] < a[1] THEN MergeRangesFrom(AddIfUnion(b), isUnion, r, Tail(s))
             ELSE IF isUnion
               THEN MergeRangesFrom(mergeBlockRangeWithRanges(merged,
                        <<Smaller(a[1], b[1]), Larger(a[2], b[2])>>), isUnion, Tail(r), Tail(s))
               ELSE MergeRangesFrom(mergeBlockRangeWithRanges(merged,
                        <<Larger(a[1], b[1]), Smaller(a[2], b[2])>>), isUnion,
                        IF a[2] < b[2] THEN Tail(r) ELSE r, IF a[2] < b[2] THEN s ELSE Tail(s))

mergeRelevantBlockItRanges(isUnion, r, s) == MergeRangesFrom(<<>>, isUnion, r, s)

getRangesMixedDatatypeBlocks(ids) ==
    LET mixed == {n \in 1 .. Len(ids) \div 2 : SortType(ids[2 * n - 1][1]) # SortType(ids[2 * n][1])}
    IN  mapValueIdItRangesToBlockItRanges(SortedRanges({<<2 * n - 2, 2 * n - 1>> : n \in mixed}))

---------------------------------------------------------------------------
(* The expressions on metadata *)

Relational(op, ref) == [expr |-> "relational", op |-> op, ref |-> ref]
IsIn(refs, isNegated) == [expr |-> "isIn", refs |-> refs, isNegated |-> isNegated]
IsDatatype(type, isNegated) == [expr |-> "isDatatype", type |-> type, isNegated |-> isNegated]
Logical(expr, left, right) == [expr |-> expr, left |-> left, right |-> right]

complementMap == [LT |-> "GE", LE |-> "GT", GE |-> "LT", GT |-> "LE", EQ |-> "NE", NE |-> "EQ"]

RECURSIVE logicalComplement(_)
logicalComplement(e) ==
    CASE e.expr = "relational" -> [e EXCEPT !.op = complementMap[@]]
      [] e.expr = "isDatatype" -> [e EXCEPT !.isNegated = ~@]
      [] e.expr = "isIn" -> [e EXCEPT !.isNegated = TRUE]
      [] e.expr = "and" -> Logical("or", logicalComplement(e.left), logicalComplement(e.right))
      [] e.expr = "or" -> Logical("and", logicalComplement(e.left), logicalComplement(e.right))
      [] e.expr = "not" -> logicalComplement(e.child)

NotExpression(e) == [expr |-> "not", child |-> logicalComplement(e)]

beginIdIri == <<LocalVocabIndex, FirstIri>>

inlinedTypes == {IntType, DoubleType, DateType, BoolType, GeoPointType}

getRangesForDatatypes(ids, isNegated, types) ==
    MapRanges(simplifyRanges({getRangeForDatatype(ids, t) : t \in types}, TRUE), isNegated, ids)

RelationalRanges(op, ref, ids, complement) ==
    MapRanges(getRangesForId(ids, ref, op, op # "EQ"), complement, ids)

RECURSIVE evaluateImpl(_, _, _)

IsDatatypeRanges(e, ids) ==
    CASE e.type = "blank" -> getRangesForDatatypes(ids, e.isNegated, {BlankNodeIndex})
      [] e.type = "numeric" -> getRangesForDatatypes(ids, e.isNegated, numericTypes)
      [] e.type = "iri" -> evaluateImpl(Relational("GT", beginIdIri), ids, e.isNegated)
      [] e.type = "literal" ->
           mergeRelevantBlockItRanges(~e.isNegated, getRangesForDatatypes(ids, e.isNegated, inlinedTypes),
                                      evaluateImpl(Relational("LT", beginIdIri), ids, e.isNegated))

evaluateImpl(e, ids, getTotalComplement) ==
    CASE e.expr = "relational" -> RelationalRanges(e.op, e.ref, ids, getTotalComplement)
      [] e.expr = "isDatatype" -> IsDatatypeRanges(e, ids)
      [] e.expr = "isIn" /\ e.refs = <<>> -> IF e.isNegated THEN << <<0, Len(ids) \div 2>> >> ELSE <<>>
      [] e.expr = "isIn" /\ e.refs # <<>> ->
           LET first == evaluateImpl(Relational("EQ", Head(e.refs)), ids, e.isNegated)
           IN  IF Len(e.refs) = 1 THEN first
               ELSE mergeRelevantBlockItRanges(~e.isNegated, first,
                        evaluateImpl([e EXCEPT !.refs = Tail(@)], ids, getTotalComplement))
      [] e.expr \in {"and", "or"} ->
           mergeRelevantBlockItRanges(e.expr = "or", evaluateImpl(e.left, ids, getTotalComplement),
                                      evaluateImpl(e.right, ids, getTotalComplement))
      [] e.expr = "not" -> evaluateImpl(e.child, ids, getTotalComplement)

(* blocks is a sequence of records: the ids first and last, and whether    *)
(* the columns before them differ within the block.                        *)
IdsOf(blocks) ==
    [i \in 1 .. 2 * Len(blocks) |-> IF i % 2 = 1 THEN blocks[(i + 1) \div 2].first ELSE blocks[i \div 2].last]

Shift(ranges, n) == [i \in DOMAIN ranges |-> <<ranges[i][1] + n, ranges[i][2] + n>>]

evaluate(e, blocks) ==
    LET size == Len(blocks)
        from == IF blocks[1].inconsistent THEN 1 ELSE 0
        to == IF from < size /\ blocks[size].inconsistent THEN size - 1 ELSE size
        ids == IdsOf(SubSeq(blocks, from + 1, to))
        result == IF ids = <<>> THEN <<>>
                  ELSE mergeRelevantBlockItRanges(TRUE, evaluateImpl(e, ids, FALSE),
                                                  getRangesMixedDatatypeBlocks(ids))
    IN  IF size < 3 THEN << <<0, size>> >>
        ELSE SubSeq(<< <<0, 1>> >>, 1, from) \o Shift(result, from)
             \o IF to < size THEN << <<to, size>> >> ELSE <<>>

---------------------------------------------------------------------------
(* How a filter gets such an expression for its variable: a sequence of no *)
(* expression or of one.                                                   *)

getDateId(year) == <<DateType, 10 * year>>

(* YEAR(?x) op half / 2 *)
makePrefilterExpressionYearImpl(op, half) ==
    LET yearFloor == half \div 2
        yearCeil == (half + 1) \div 2
    IN  CASE op = "EQ" -> Logical("and", Relational("LT", getDateId(yearFloor + 1)),
                                         Relational("GE", getDateId(yearCeil)))
          [] op = "LT" -> Relational("LT", getDateId(yearCeil))
          [] op = "LE" -> Relational("LT", getDateId(yearFloor + 1))
          [] op = "GE" -> Relational("GE", getDateId(yearCeil))
          [] op = "GT" -> Relational("GE", getDateId(yearFloor + 1))
          [] op = "NE" -> Logical("or", Relational("LT", getDateId(yearCeil)),
                                        Relational("GE", getDateId(yearFloor + 1)))

mirrorMap == [LT |-> "GT", LE |-> "GE", GE |-> "LE", GT |-> "LT", EQ |-> "EQ", NE |-> "NE"]

(* Mutant: the part of one child is also used if the other has none. *)
mergeChildrenForBinaryOpExpressionImpl_One(isAnd, expr, left, right) ==
    IF left # <<>> /\ right # <<>> THEN <<Logical(expr, left[1], right[1])>> ELSE left \o right

(* With isAnd, a part about the variable is needed by one of the children; *)
(* otherwise by both of them.                                              *)
mergeChildrenForBinaryOpExpressionImpl(isAnd, expr, left, right) ==
    IF left # <<>> /\ right # <<>> THEN <<Logical(expr, left[1], right[1])>>
    ELSE IF isAnd THEN left \o right ELSE <<>>

RECURSIVE getPrefilterExpressionForMetadata(_, _)
getPrefilterExpressionForMetadata(f, isNegated) ==
    CASE f.expr = "other" -> <<>>
      [] f.expr = "relational" -> <<Relational(IF f.mirrored THEN mirrorMap[f.op] ELSE f.op, f.ref)>>
      [] f.expr = "year" -> <<makePrefilterExpressionYearImpl(f.op, f.half)>>
      [] f.expr = "yearTypeError" -> <<IsIn(<<>>, FALSE)>>
      [] f.expr = "in" -> <<IsIn(f.refs, FALSE)>>
      [] f.expr = "is" -> <<IsDatatype(f.type, FALSE)>>
      [] f.expr = "not" ->
           LET child == getPrefilterExpressionForMetadata(f.child, ~isNegated)
           IN  [i \in DOMAIN child |-> NotExpression(child[i])]
      [] f.expr \in {"and", "or"} ->
           mergeChildrenForBinaryOpExpressionImpl((f.expr = "and") # isNegated, f.expr,
               getPrefilterExpressionForMetadata(f.left, isNegated),
               getPrefilterExpressionForMetadata(f.right, isNegated))
=============================================================================
