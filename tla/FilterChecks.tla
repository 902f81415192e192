---------------------------- MODULE FilterChecks ----------------------------
(***************************************************************************)
(* Filters on the blocks of a scan, for all bounds of a few blocks.        *)
(***************************************************************************)
EXTENDS PrefilterExpressions, Inputs

CONSTANT FilterBlocks  \* the number of blocks

(* The ids of a column in their order; the cases are checked apart.        *)
Ints == [n \in 1 .. 2 * MaxNumber + 1 |-> <<IntType, n - 1>>] \o << <<VocabIndex, 0>> >>
DoublesAndNaN == << <<IntType, 1>> >> \o [n \in 1 .. 2 * MaxNumber + 3 |-> <<DoubleType, n - 1>>]
Terms == << <<IntType, 1>>, <<VocabIndex, 0>>, <<LocalVocabIndex, 1>>, <<VocabIndex, 2>>,
            <<LocalVocabIndex, 5>>, <<BlankNodeIndex, 0>>, <<EncodedVal, 0>> >>
Dates == << <<IntType, 1>>, <<DateType, 10>>, <<DateType, 20>>,
            <<DateType, 25>>, <<DateType, 30>>, <<BlankNodeIndex, 0>> >>

FilterColumns == [ints |-> Ints, doubles |-> SelectSeq(DoublesAndNaN, LAMBDA id : id # NaN),
            nan |-> Tail(DoublesAndNaN), terms |-> Terms, dates |-> Dates]

(* The ids of the bounds by their place in the column: the first of them,  *)
(* then the others.                                                        *)
ChooseColumn ==
    /\ Chosen("none")
    /\ \E name \in DOMAIN FilterColumns : \E place \in DOMAIN FilterColumns[name] :
         input' = [kind |-> "column", column |-> name, place |-> place]

ChooseFilterBlocks ==
    /\ Chosen("column")
    /\ LET column == FilterColumns[input.column]
           Id(place) == column[place]
       IN  \E rest \in SortedSeqs(input.place .. Len(column), 2 * FilterBlocks - 1, <) :
           \E odd \in IF input.column = "ints" THEN {{}, {1}, {FilterBlocks}} ELSE {{}} :
             LET bounds == <<input.place>> \o rest
             IN  /\ Len(bounds) = 2 * FilterBlocks
                 /\ input' = [kind |-> "filter", column |-> input.column,
                              blocks |-> [i \in 1 .. FilterBlocks |->
                                  [first |-> Id(bounds[2 * i - 1]), last |-> Id(bounds[2 * i]),
                                   inconsistent |-> i \in odd]]]

---------------------------------------------------------------------------
(* The filters *)

Rel(op, ref) == [expr |-> "relational", op |-> op, ref |-> ref, mirrored |-> FALSE]
Mirrored(op, ref) == [expr |-> "relational", op |-> op, ref |-> ref, mirrored |-> TRUE]
In(refs) == [expr |-> "in", refs |-> refs]
Is(type) == [expr |-> "is", type |-> type]
Not(f) == [expr |-> "not", child |-> f]
Other == [expr |-> "other"]

DoubleRefs == {<<IntType, 0>>, <<DoubleType, 1>>, <<DoubleType, MaxNumber + 3>>}
Refs == [ints |-> {<<IntType, 0>>, <<IntType, 1>>, <<IntType, 2 * MaxNumber>>},
         doubles |-> DoubleRefs, nan |-> DoubleRefs \union {NaN},
         terms |-> {<<VocabIndex, 0>>, <<LocalVocabIndex, 1>>, <<EncodedVal, 0>>},
         dates |-> {<<DateType, 20>>}]

Basic(name) ==
    {Rel(op, ref) : op \in CompOps, ref \in Refs[name]}
    \union {Mirrored("LT", ref) : ref \in Refs[name]}
    \union IF name = "terms" THEN {Is(t) : t \in {"iri", "blank", "literal", "numeric"}} ELSE {}
    \union IF name # "dates" THEN {}
           ELSE {[expr |-> "year", op |-> op, half |-> h] : op \in CompOps, h \in {4, 5}}
                \union {[expr |-> "yearTypeError"]}

Parts(name) ==
    LET ref == CHOOSE r \in Refs[name] : TRUE
        ref2 == CHOOSE r \in Refs[name] : r # ref \/ Refs[name] = {ref}
    IN  {Other, Rel("GT", ref), Rel("EQ", ref2), In(<<ref, ref2>>)}

Simple(name) == {f \in Parts(name) : f = Other \/ (f.expr = "relational" /\ f.op = "GT")}
Combined(name) ==
    {Logical(expr, f, g) : expr \in {"and", "or"}, f \in Parts(name), g \in Simple(name)}

Filters(name) ==
    LET positive == Basic(name) \union Combined(name) \union {In(<<r>>) : r \in Refs[name]}
        partlyNegated == {Logical("and", f, Not(g)) : f \in Simple(name), g \in Parts(name)}
        once == positive \union partlyNegated
    IN  once \union {Not(f) : f \in once} \union {Not(Not(f)) : f \in positive}

---------------------------------------------------------------------------
(* What a filter evaluates to for an id; other is that of the other part.  *)
Isa(type, id) ==
    LET iri == id[1] = EncodedVal \/ (id[1] \in stringTypes /\ WordPlace(id) > FirstIri)
    IN  CASE type = "iri" -> iri
          [] type = "blank" -> id[1] = BlankNodeIndex
          [] type = "numeric" -> id[1] \in numericTypes
          [] type = "literal" -> ~iri /\ id[1] # BlankNodeIndex

Negation(v) == IF v = "undef" THEN v ELSE FromBool(v = "false")

AnyOf(S) == IF "true" \in S THEN "true" ELSE IF "undef" \in S THEN "undef" ELSE "false"

RECURSIVE ValueOf(_, _, _)
ValueOf(f, id, other) ==
    CASE f.expr = "other" -> other
      [] f.expr = "relational" ->
           IF f.mirrored THEN compareIds(f.ref, id, f.op) ELSE compareIds(id, f.ref, f.op)
      [] f.expr = "year" ->
           IF id[1] # DateType THEN "undef"
           ELSE FromBool(Compare(f.op, 2 * (id[2] \div 10) < f.half, 2 * (id[2] \div 10) = f.half))
      [] f.expr = "yearTypeError" -> "undef"
      [] f.expr = "in" -> AnyOf({compareIds(id, f.refs[i], "EQ") : i \in DOMAIN f.refs})
      [] f.expr = "is" -> FromBool(Isa(f.type, id))
      [] f.expr = "not" -> Negation(ValueOf(f.child, id, other))
      [] f.expr = "or" -> AnyOf({ValueOf(f.left, id, other), ValueOf(f.right, id, other)})
      [] f.expr = "and" -> Negation(AnyOf({Negation(ValueOf(f.left, id, other)),
                                           Negation(ValueOf(f.right, id, other))}))

MayMatch(f, id) == \E other \in {"true", "false", "undef"} : ValueOf(f, id, other) = "true"

(* Whether a list is below two negations, nots of them above the filter f. *)
RECURSIVE ListNegatedTwice(_, _)
ListNegatedTwice(f, nots) ==
    \/ f.expr = "in" /\ nots = 2
    \/ f.expr = "not" /\ ListNegatedTwice(f.child, nots + 1)
    \/ f.expr \in {"and", "or"} /\ (ListNegatedTwice(f.left, nots) \/ ListNegatedTwice(f.right, nots))

(* For every expression that some filters are turned into, the ids for     *)
(* which one of these filters may be true.  A negation is evaluated as the *)
(* complement that it holds.                                               *)
Evaluated(e) == IF e.expr = "not" THEN e.child ELSE e
IdsIn(name) == {FilterColumns[name][i] : i \in DOMAIN FilterColumns[name]}
Expressions(name, filters) ==
    LET turned == {<<getPrefilterExpressionForMetadata(f, FALSE), f>> : f \in filters}
        useful == {<<Evaluated(t[1][1]), t[2]>> : t \in {t \in turned : t[1] # <<>>}}
    IN  [e \in {t[1] : t \in useful} |->
            {id \in IdsIn(name) : \E t \in useful : t[1] = e /\ MayMatch(t[2], id)}]
Matching ==
    [name \in DOMAIN FilterColumns \ {"nan"} |->
        Expressions(name, {f \in Filters(name) : ~ListNegatedTwice(f, 0)})]
MatchingTwiceNegated ==
    [name \in DOMAIN FilterColumns \ {"nan"} |->
        Expressions(name, {f \in Filters(name) : ListNegatedTwice(f, 0)})]

(* The ids that a block may hold: all from its first to its last. *)
Held(block) ==
    {id \in IdsIn(input.column) : ~SortsBefore(id, block.first) /\ ~SortsBefore(block.last, id)}

Covered(ranges) == UNION {ranges[i][1] + 1 .. ranges[i][2] : i \in DOMAIN ranges}

(* The blocks that e skips though they may hold an id of ids. *)
Lost(e, ids) ==
    {n \in (1 .. FilterBlocks) \ Covered(evaluate(e, input.blocks)) :
        Held(input.blocks[n]) \intersect ids # {}}

---------------------------------------------------------------------------
(* Where blocks are lost: see the findings and observations of the README. *)
SignChanges(block) ==
    /\ block.first[1] = block.last[1] /\ block.first[1] \in numericTypes
    /\ Negative(block.first) # Negative(block.last)

SkippedMatchNothing(matching) ==
    Chosen("filter") /\ input.column # "nan" =>
        \A e \in DOMAIN matching[input.column] :
            \A n \in Lost(e, matching[input.column][e]) :
                SignChanges(input.blocks[n]) \/ input.blocks[n].first[1] = EncodedVal

(* A block that may hold an id for which the filter is true is never       *)
(* skipped, for filters that combine comparisons, lists, types and years   *)
(* with and, or and at most two nested nots, also if only a part of the    *)
(* filter is about the column.  Excepted, because the code does lose such  *)
(* blocks: lists below two negations (IsInExpression::logicalComplement    *)
(* always negates), blocks of numbers in which the sign changes, blocks of *)
(* encoded IRIs, and comparisons with NaN.                                 *)
SkippedBlocksMatchNothing == SkippedMatchNothing(Matching)

(* The same of lists below two negations: the code refutes it. *)
SkippedBlocksOfListsMatchNothing == SkippedMatchNothing(MatchingTwiceNegated)

(* The same of all blocks of integers. *)
SkippedIntsMatchNothing ==
    Chosen("filter") /\ input.column = "ints" =>
        \A op \in CompOps, ref \in Refs.ints :
            Lost(Relational(op, ref), Matching.ints[Relational(op, ref)]) = {}

(* The ranges of ids of a sorted column for which a comparison is true,    *)
(* which a filter on a sorted column uses directly, are the ids for which  *)
(* comparing them one by one is true, except for NaN and zero.             *)
RangesExact(ids, ref, op) ==
    Covered(getRangesForId(ids, ref, op, TRUE))
        = {i \in DOMAIN ids : compareIds(ids[i], ref, op) = "true"}

RangesForIdExact ==
    Chosen("filter") =>
        \A op \in CompOps, ref \in Refs[input.column] :
            (input.column = "nan" => ref # <<IntType, 0>>)
            => RangesExact(IdsOf(input.blocks), ref, op)

(* The same of zero and a column that holds NaN. *)
RangesForZeroExact ==
    Chosen("filter") /\ input.column = "nan" =>
        \A op \in CompOps : RangesExact(IdsOf(input.blocks), <<IntType, 0>>, op)

(* A FILTER that is applied to the metadata of blocks, or to the ranges of *)
(* a sorted column, loses no row; except with a list below two negations,  *)
(* in blocks in which the sign of numbers changes, for encoded IRIs, for   *)
(* comparisons with NaN and for those with zero next to NaN.               *)
FiltersLossless == SkippedBlocksMatchNothing /\ RangesForIdExact
=============================================================================
