----------------------------- MODULE JoinChecks -----------------------------
(***************************************************************************)
(* The join algorithms on all small inputs.  The references are sets of    *)
(* pairs of positions; <<i, 0>> is a row of the left side without partner. *)
(***************************************************************************)
EXTENDS BlockZipperJoin, Inputs

CONSTANTS MaxJoinId,    \* the largest id in a row
          MaxJoinRows   \* the number of rows of a side

Ids == UNDEF .. MaxJoinId
Tables == SortedSeqs({<<a, b>> : a \in Ids, b \in Ids}, MaxJoinRows, Less)

(* All ways to cut n rows into blocks. *)
Cuts(n) ==
    {[k \in 1 .. Len(c) |-> Block(IF k = 1 THEN 1 ELSE c[k - 1] + 1, c[k])] :
        c \in {SetToSortSeq(S \union {n}, <) : S \in SUBSET (1 .. n - 1)}}

(* The sides with the rows s.  Some begin with an empty block. *)
SidesOf(s) ==
    LET cuts == IF s = <<>> THEN {<<>>} ELSE Cuts(Len(s))
    IN  {MakeJoinSide(s, blocks) : blocks \in cuts \union
            (IF Len(s) < MaxJoinRows THEN {<<Block(1, 0)>> \o c : c \in cuts} ELSE {})}

Sides(R) == UNION {SidesOf(s) : s \in SortedSeqs(R, MaxJoinRows, Less)}

SingleColumn == Sides({<<a>> : a \in Ids})
SpecialLeft  == Sides({<<a, b>> : a \in 1 .. 2, b \in Ids})
SpecialRight == Sides({<<a, b>> : a \in 1 .. 2, b \in 1 .. MaxJoinId})

(* Sorted columns without UNDEF values for the galloping join. *)
DefinedColumns(n) == SortedSeqs({<<a>> : a \in 1 .. MaxJoinId + 1}, n, Less)
LongColumns == DefinedColumns(2 * MaxJoinRows)

(* The left side is chosen first, the right side in the second step.  Two  *)
(* tables do not both have the largest number of rows.                     *)
ChooseLeft ==
    /\ Chosen("none")
    /\ \/ \E l \in Tables : input' = [kind |-> "leftTable", left |-> l]
       \/ \E l \in SingleColumn : input' = [kind |-> "leftBlocks", left |-> l]
       \/ \E l \in SpecialLeft : input' = [kind |-> "leftSpecial", left |-> l]
       \/ \E l \in DefinedColumns(2) : input' = [kind |-> "leftSmaller", left |-> l]

ChooseRight ==
    LET With(kind, r) == input' = [kind |-> kind, left |-> input.left, right |-> r]
    IN  \/ /\ Chosen("leftTable")
           /\ \E r \in {t \in Tables : Len(input.left) + Len(t) < 2 * MaxJoinRows} : With("tables", r)
        \/ Chosen("leftBlocks") /\ \E r \in SingleColumn : With("blocks", r)
        \/ Chosen("leftSpecial") /\ \E r \in SpecialRight : With("special", r)
        \/ Chosen("leftSmaller") /\ \E r \in LongColumns : With("galloping", r)

---------------------------------------------------------------------------
Matches(l, r) == {<<i, j>> \in (DOMAIN l) \X (DOMAIN r) : Compatible(l[i], r[j])}

Optional(l, r) ==
    Matches(l, r) \union
    {<<i, 0>> : i \in {i \in DOMAIN l : \A j \in DOMAIN r : ~Compatible(l[i], r[j])}}

(* MINUS keeps a row that shares no defined variable with any partner. *)
Difference(l, r) ==
    {<<i, 0>> : i \in {i \in DOMAIN l : \A j \in DOMAIN r : l[i] = <<UNDEF>> \/ l[i] # r[j]}}

Exactly(out, S) == Len(out) = Cardinality(S) /\ ToSet(out) = S

ResultRow(p) ==
    LET l == input.left[p[1]]
        r == input.right[p[2]]
    IN  IF p[2] = 0 THEN l ELSE [c \in DOMAIN l |-> IF l[c] = UNDEF THEN r[c] ELSE l[c]]

ResultSorted(out) ==
    \A n \in 1 .. Len(out) - 1 : ~Less(ResultRow(out[n + 1]), ResultRow(out[n]))

Zipper(optional) ==
    zipperJoinWithUndef(ZipperArguments(
        input.left, 1, Len(input.left), input.right, 1, Len(input.right),
        general, general, optional, TRUE))

NoUndef(rows) == \A n \in DOMAIN rows : \A c \in DOMAIN rows[n] : rows[n][c] # UNDEF
UndefOnlyLast(rows) == NoUndef([n \in DOMAIN rows |-> ButLast(rows[n])])

(* zipperJoinWithUndef finds every compatible pair of rows once, and every *)
(* left row without a partner once if it is an OPTIONAL join, wherever     *)
(* UNDEF values are: the search for smaller compatible rows, the main loop *)
(* and the two loops for the rest overlap nowhere and leave nothing out.   *)
(* Unless the search has reported that the order may be lost, the result   *)
(* is sorted, and so are the numOutOfOrderAtEnd rows at its end by which   *)
(* the caller merges them.                                                 *)
ZipperJoinExact ==
    LET InOrder(out, k) == ResultSorted(SubSeq(out, 1, k)) /\ ResultSorted(SubSeq(out, k + 1, Len(out)))
        Ordered(z) == z.unsorted \/ InOrder(z.out, Len(z.out) - z.numOutOfOrderAtEnd)
        Exact(z, pairs) == Exactly(z.out, pairs) /\ Ordered(z)
        All(optional) == IF optional THEN Optional(input.left, input.right)
                                     ELSE Matches(input.left, input.right)
    IN  Chosen("tables") => \A optional \in BOOLEAN : Exact(Zipper(optional), All(optional))

(* gallopingJoin computes the same on inputs without UNDEF, in order: its  *)
(* exponential search skips no equal rows, in particular not at the end of *)
(* the larger input.                                                       *)
GallopingJoinExact ==
    LET Exact(out) == Exactly(out, Optional(input.left, input.right)) /\ ResultSorted(out)
    IN  Chosen("galloping") => Exact(gallopingJoin(input.left, input.right))

(* So does specialOptionalJoin when only the last column of the left side  *)
(* has UNDEF values, and none of its checks fails.                         *)
SpecialOptionalJoinExact ==
    LET Exact(s) ==
            s.ok /\ Exactly(s.out, Optional(input.left, input.right)) /\ ResultSorted(s.out)
    IN  Chosen("tables") /\ UndefOnlyLast(input.left) /\ NoUndef(input.right) =>
            Exact(specialOptionalJoin(input.left, 1, Len(input.left),
                                      input.right, 1, Len(input.right)))

(* The result s of a join of blocks: no check failed, and it has the pairs.*)
Joined(s, pairs) == s.ok /\ Exactly(s.out, pairs)
BlockJoin(type) == zipperJoinForBlocksWithPotentialUndef(type, input.left, input.right)
UndefFree(side) == NoUndef(side.rows)

(* However the rows are cut into blocks, and although the join only holds  *)
(* some blocks of a value at a time, the join of blocks is exact and none  *)
(* of its checks fails.                                                    *)
BlockJoinExact ==
    Chosen("blocks") =>
        /\ Joined(BlockJoin("JOIN"), Matches(input.left.rows, input.right.rows))
        /\ UndefFree(input.left) /\ UndefFree(input.right) =>
               Joined(zipperJoinForBlocksWithoutUndef("JOIN", input.left, input.right),
                      Matches(input.left.rows, input.right.rows))

(* A value of the right side that spans more than FETCH_BLOCKS blocks is   *)
(* handled in portions, and the code for left rows without a partner looks *)
(* at one portion only.                                                    *)
FewBlocksPerValue(side) ==
    \A v \in Ids :
        Cardinality({b \in DOMAIN side.blocks :
            \E x \in side.blocks[b].b .. side.blocks[b].e : KeyOf(side, x) = v})
        <= FetchBlocks

(* The OPTIONAL join of blocks is exact if no value of the right side      *)
(* spans more than FETCH_BLOCKS blocks and UNDEF values on the left side   *)
(* are met by UNDEF values on the right.  Without either condition it is   *)
(* not: see OptionalJoinComplete.                                          *)
BlockOptionalExact ==
    Chosen("blocks") /\ FewBlocksPerValue(input.right)
        /\ (UndefFree(input.left) \/ ~UndefFree(input.right)) =>
        Joined(BlockJoin("OPTIONAL"), Optional(input.left.rows, input.right.rows))

(* The MINUS of blocks keeps exactly the rows of the left side that have   *)
(* no equal row on the right, UNDEF rows among them, under the condition   *)
(* on the blocks of a value.                                               *)
BlockMinusExact ==
    LET Kept(s) == [s EXCEPT !.out = SelectSeq(@, LAMBDA p : p[2] = 0)]
    IN  Chosen("blocks") /\ FewBlocksPerValue(input.right) =>
            Joined(Kept(BlockJoin("MINUS")), Difference(input.left.rows, input.right.rows))

(* The special OPTIONAL join of blocks is exact under the same condition.  *)
BlockSpecialOptionalExact ==
    Chosen("special") /\ FewBlocksPerValue(input.right) =>
        Joined(specialOptionalJoinForBlocks(input.left, input.right),
               Optional(input.left.rows, input.right.rows))

(* What the comment of fillWithAllFromLeft says of the OPTIONAL join: the  *)
(* optional row is added for all remaining elements of the left input      *)
(* after the right input has been processed.  The code loses the blocks    *)
(* that consumeRemainingBlocks has read before.                            *)
OptionalJoinComplete ==
    LET Complete(out) == \A i \in DOMAIN input.left.rows : \E n \in DOMAIN out : out[n][1] = i
    IN  Chosen("blocks") => Complete(BlockJoin("OPTIONAL").out)

(* The joins of complete tables compute what SPARQL defines, in order,     *)
(* wherever the UNDEF values are, and so do the joins of lazy inputs,      *)
(* however they are cut into blocks, under the conditions of the parts.    *)
JoinsExact ==
    /\ ZipperJoinExact /\ GallopingJoinExact /\ SpecialOptionalJoinExact
    /\ BlockJoinExact /\ BlockOptionalExact /\ BlockMinusExact /\ BlockSpecialOptionalExact
=============================================================================
