--------------------------- MODULE BlockZipperJoin ---------------------------
(***************************************************************************)
(* The join of two sorted inputs that arrive as blocks: the class template *)
(* BlockZipperJoinImplCRTP of JoinAlgorithms.h with its two instances, the *)
(* join on one column (UNDEF allowed) and the special OPTIONAL join.       *)
(*                                                                         *)
(* The rows of a side are numbered through all its blocks, and a block or  *)
(* the part of it that is still to be joined is a window of positions.     *)
(* A side keeps                                                            *)
(*   rows    all rows, as JoinAlgorithms has them                          *)
(*   blocks  the windows of the blocks, in order (some may be empty)       *)
(*   it      the next block to be read                                     *)
(*   cur     currentBlocks_                                                *)
(*   undef   undefBlocks_                                                  *)
(* The join itself is a record j of the two sides, the kind of join, the   *)
(* calls of the row adder so far (out) and ok, which becomes FALSE when an *)
(* AD_CORRECTNESS_CHECK fails.                                             *)
(***************************************************************************)
EXTENDS JoinAlgorithms

CONSTANT FetchBlocks

ASSUME FetchBlocksAssumption == FetchBlocks \in Nat \ {0}

IsEmpty(block) == block.e < block.b
Block(b, e) == [b |-> b, e |-> e]

(* Both comparisons of the two instances look at the first column: the     *)
(* join on one column has no other, and the special OPTIONAL join compares *)
(* all columns but the last one, which stand for one column here.          *)
KeyOf(side, x) == side.rows[x][1]

LowerBound(side, block, el) ==
    FindIfNot(block.b, block.e, LAMBDA x : KeyOf(side, x) < el)
UpperBound(side, block, el) ==
    FindIfNot(block.b, block.e, LAMBDA x : KeyOf(side, x) <= el)

MakeJoinSide(rows, blocks) ==
    [rows |-> rows, blocks |-> blocks, it |-> 1, cur |-> <<>>, undef |-> <<>>]

getCurrentEl(j) ==
    Min({KeyOf(j.l, Head(j.l.cur).e), KeyOf(j.r, Head(j.r.cur).e)})

hasUndef(j, side) == j.potentiallyHasUndef /\ side.undef # <<>>

IsOptionalOrMinus(j) == j.type # "JOIN"

(* The blocks of one side that the algorithm has at hand hold consecutive  *)
(* rows: from the first row of the first block to the last of the last.    *)
Span(blocks) ==
    IF blocks = <<>> THEN Block(1, 0) ELSE Block(Head(blocks).b, Last(blocks).e)

---------------------------------------------------------------------------
(* The calls of the row adder. *)

AddOptionalRows(j, blocks) ==
    LET w == Span(blocks)
    IN  [j EXCEPT !.out = @ \o [n \in 1 .. w.e - w.b + 1 |-> <<w.b + n - 1, 0>>]]

AddPairs(j, lblocks, rblocks) ==
    LET l == Span(lblocks)  r == Span(rblocks)
    IN  IF IsEmpty(l) \/ IsEmpty(r) THEN j
        ELSE [j EXCEPT !.out = @ \o Product(l.b, l.e, r.b, r.e)]

(* Mutant: the last column is not compared. *)
AddJoinOnLastColumn_All(j, lblocks, rblocks) == AddPairs(j, lblocks, rblocks)

(* The special OPTIONAL join pairs blocks that agree in all columns but    *)
(* the last one by a join on the last column.                              *)
AddJoinOnLastColumn(j, lblocks, rblocks) ==
    LET l == Span(lblocks)  r == Span(rblocks)
    IN  IF IsEmpty(l) \/ IsEmpty(r) THEN j
        ELSE [j EXCEPT !.out = @ \o JoinLastColumn(j.l.rows, l.b, l.e,
                                                   j.r.rows, r.b, r.e).out]

addCartesianProduct(j, lblocks, rblocks) ==
    IF j.special THEN AddJoinOnLastColumn(j, lblocks, rblocks)
                 ELSE AddPairs(j, lblocks, rblocks)

(* Mutant: UNDEF values of the right side are not thought of. *)
addNonMatchingRows_IgnoreUndef(j, lblocks, rblocks) ==
    IF IsOptionalOrMinus(j) /\ \A n \in DOMAIN rblocks : IsEmpty(rblocks[n])
      THEN AddOptionalRows(j, lblocks) ELSE j

addNonMatchingRowsFromLeftForOptionalJoin(j, lblocks, rblocks) ==
    IF /\ IsOptionalOrMinus(j)
       /\ ~hasUndef(j, j.r)
       /\ \A n \in DOMAIN rblocks : IsEmpty(rblocks[n])
      THEN AddOptionalRows(j, lblocks) ELSE j

addAll(j, lblocks, rblocks) ==
    addCartesianProduct(
        addNonMatchingRowsFromLeftForOptionalJoin(j, lblocks, rblocks),
        lblocks, rblocks)

---------------------------------------------------------------------------
(* Reading blocks. *)

(* Reads blocks that begin with el, at most FetchBlocks of them.  The      *)
(* result is the side, whether no block with el is left, and ok.           *)
RECURSIVE FillEqualLoop(_, _, _)
FillEqualLoop(side, el, numBlocksRead) ==
    LET block == side.blocks[side.it]
    IN  IF side.it > Len(side.blocks) \/ numBlocksRead >= FetchBlocks
          THEN [side |-> side, all |-> side.it > Len(side.blocks), ok |-> TRUE]
        ELSE IF IsEmpty(block)
          THEN FillEqualLoop([side EXCEPT !.it = @ + 1], el, numBlocksRead)
        ELSE IF KeyOf(side, block.b) # el
          THEN [side |-> side, all |-> TRUE, ok |-> el < KeyOf(side, block.b)]
        ELSE FillEqualLoop([side EXCEPT !.it = @ + 1, !.cur = Append(@, block)],
                           el, numBlocksRead + 1)

fillEqualToCurrentEl(side, el) == FillEqualLoop(side, el, 0)

RECURSIVE fillEqualToCurrentElBothSides(_, _)
fillEqualToCurrentElBothSides(j, el) ==
    LET fl == fillEqualToCurrentEl(j.l, el)
        fr == fillEqualToCurrentEl(j.r, el)
        filled == [j EXCEPT !.l = fl.side, !.r = fr.side,
                            !.ok = @ /\ fl.ok /\ fr.ok]
    IN  IF ~(fl.all \/ fr.all) THEN fillEqualToCurrentElBothSides(filled, el)
        ELSE [filled EXCEPT !.status = IF ~fr.all THEN "rightMissing"
                                       ELSE IF ~fl.all THEN "leftMissing"
                                       ELSE "allFilled"]

RECURSIVE fillWithAtLeastOne(_)
fillWithAtLeastOne(side) ==
    IF side.cur # <<>> \/ side.it > Len(side.blocks) THEN side
    ELSE fillWithAtLeastOne(
             [side EXCEPT !.it = @ + 1,
                          !.cur = IF IsEmpty(side.blocks[side.it]) THEN @
                                  ELSE <<side.blocks[side.it]>>])

fillBuffer(j) ==
    LET one == [j EXCEPT !.l = fillWithAtLeastOne(@), !.r = fillWithAtLeastOne(@),
                         !.ok = @ /\ Len(j.l.cur) <= 1 /\ Len(j.r.cur) <= 1,
                         !.status = "allFilled"]
    IN  IF one.l.cur = <<>> \/ one.r.cur = <<>> THEN one
        ELSE fillEqualToCurrentElBothSides(one, getCurrentEl(one))

(* Drops all blocks but the last one, and from that one what is not larger *)
(* than el.                                                                *)
removeEqualToCurrentEl(side, el) ==
    LET rest == Block(UpperBound(side, Last(side.cur), el), Last(side.cur).e)
    IN  [side EXCEPT !.cur = IF IsEmpty(rest) THEN <<>> ELSE <<rest>>]

RemoveIsSound(side, el) ==
    /\ side.cur # <<>>
    /\ Len(side.cur) > 1 /\ ~IsEmpty(Head(side.cur)) =>
           KeyOf(side, Head(side.cur).e) <= el

(* Mutant: only the last block is thought of. *)
getEqualToCurrentEl_LastBlock(side, el) ==
    IF side.cur = <<>> THEN <<>>
    ELSE <<Block(LowerBound(side, Last(side.cur), el),
                 UpperBound(side, Last(side.cur), el) - 1)>>

(* The equal parts: the last block is cut to the elements equal to el. *)
getEqualToCurrentEl(side, el) ==
    IF side.cur = <<>> THEN <<>>
    ELSE Append(Front(side.cur),
                Block(LowerBound(side, Last(side.cur), el),
                      UpperBound(side, Last(side.cur), el) - 1))

---------------------------------------------------------------------------
(* Joining what has been read. *)

(* The calls of joinSubranges for the parts of the first two blocks below  *)
(* el: zipperJoinWithUndef with the UNDEF blocks as the smaller compatible *)
(* rows, or specialOptionalJoin.                                           *)
joinSubranges(j, l, r) ==
    LET anyUndef == hasUndef(j, j.l) \/ hasUndef(j, j.r)
        Undef(side) == Fixed(Span(side.undef).b, Span(side.undef).e)
    IN  IF j.special
          THEN specialOptionalJoin(j.l.rows, l.b, l.e, j.r.rows, r.b, r.e)
          ELSE zipperJoinWithUndef(ZipperArguments(
                   j.l.rows, l.b, l.e, j.r.rows, r.b, r.e,
                   IF anyUndef THEN Undef(j.l) ELSE noop,
                   IF anyUndef THEN Undef(j.r) ELSE noop,
                   IsOptionalOrMinus(j), ~anyUndef))

(* What is joined is removed; no row with UNDEF may be left in it, and no  *)
(* row is without partner while there are UNDEF blocks on the right.       *)
RemoveJoined(j, lmid, rmid, joined) ==
    LET IsDefined(side) == j.potentiallyHasUndef => KeyOf(side, Head(side.cur).b) # UNDEF
    IN  [j EXCEPT !.out = @ \o joined.out,
                  !.l.cur[1].b = lmid, !.r.cur[1].b = rmid,
                  !.ok = /\ @
                         /\ IsDefined(j.l) /\ IsDefined(j.r)
                         /\ j.special => joined.ok
                         /\ hasUndef(j, j.r) =>
                                \A n \in DOMAIN joined.out : joined.out[n][2] # 0]

joinAndRemoveLessThanCurrentEl(j, el) ==
    LET lfirst == Head(j.l.cur)  lmid == LowerBound(j.l, lfirst, el)
        rfirst == Head(j.r.cur)  rmid == LowerBound(j.r, rfirst, el)
    IN  RemoveJoined(j, lmid, rmid,
            joinSubranges(j, Block(lfirst.b, lmid - 1), Block(rfirst.b, rmid - 1)))

joinRightWithUndef(j, rblocks) ==
    IF j.status \in {"allFilled", "rightMissing"}
      THEN addCartesianProduct(j, j.l.undef, rblocks) ELSE j

joinWithUndefBlocks(j, lblocks, rblocks) ==
    joinRightWithUndef(
        IF j.status \in {"allFilled", "leftMissing"}
          THEN addCartesianProduct(j, lblocks, j.r.undef) ELSE j, rblocks)

(* The next blocks with el of the side that is not complete yet. *)
getNextBlocks(j, side, el) ==
    LET Next(fill) == [side |-> fill.side,
                       status |-> IF fill.all THEN "allFilled" ELSE j.status,
                       ok |-> /\ RemoveIsSound(side, el)
                              /\ fill.ok
                              /\ fill.side.cur = <<>> => fill.all]
    IN  Next(fillEqualToCurrentEl(removeEqualToCurrentEl(side, el), el))

RemoveIfAny(side, el) ==
    IF side.cur = <<>> THEN side ELSE removeEqualToCurrentEl(side, el)

(* The loop of joinBuffers over the parts equal to el. *)
RECURSIVE JoinEqualLoop(_, _, _, _)
JoinEqualLoop(j, equalLeft, equalRight, el) ==
    LET OneSideOnly(t) == [t EXCEPT !.ok = @ /\ t.status = "allFilled",
                                    !.l = RemoveIfAny(@, el), !.r = RemoveIfAny(@, el)]
        Complete(t) == [t EXCEPT
                          !.l = removeEqualToCurrentEl(@, el),
                          !.r = removeEqualToCurrentEl(@, el),
                          !.ok = @ /\ RemoveIsSound(t.l, el) /\ RemoveIsSound(t.r, el)]
        MoreRight(t, next) ==
            JoinEqualLoop([t EXCEPT !.r = next.side, !.status = next.status, !.ok = @ /\ next.ok],
                          equalLeft, getEqualToCurrentEl(next.side, el), el)
        MoreLeft(t, next) ==
            JoinEqualLoop([t EXCEPT !.l = next.side, !.status = next.status, !.ok = @ /\ next.ok],
                          getEqualToCurrentEl(next.side, el), equalRight, el)
        Continue(t) ==
            CASE t.status = "allFilled"    -> Complete(t)
              [] t.status = "rightMissing" -> MoreRight(t, getNextBlocks(t, t.r, el))
              [] t.status = "leftMissing"  -> MoreLeft(t, getNextBlocks(t, t.l, el))
        Join(t) == IF equalLeft = <<>> \/ equalRight = <<>> THEN OneSideOnly(t)
                   ELSE Continue(addAll(t, equalLeft, equalRight))
    IN  Join(joinWithUndefBlocks(j, equalLeft, equalRight))

JoinEqualParts(j, el) ==
    JoinEqualLoop(j, getEqualToCurrentEl(j.l, el), getEqualToCurrentEl(j.r, el), el)

joinBuffers(j) ==
    JoinEqualParts(joinAndRemoveLessThanCurrentEl(j, getCurrentEl(j)), getCurrentEl(j))

---------------------------------------------------------------------------
(* The leading UNDEF values and the ends of the inputs. *)

Remaining(side) == SubSeq(side.blocks, side.it, Len(side.blocks))
Exhausted(side) == [side EXCEPT !.it = Len(side.blocks) + 1]

RECURSIVE findFirstBlockWithoutUndef(_)
findFirstBlockWithoutUndef(side) ==
    LET block == side.blocks[side.it]
        mid == UpperBound(side, block, UNDEF)
        next == [side EXCEPT !.it = @ + 1]
    IN  IF side.it > Len(side.blocks) THEN side
        ELSE IF IsEmpty(block) THEN findFirstBlockWithoutUndef(next)
        ELSE IF KeyOf(side, block.b) # UNDEF THEN side
        ELSE IF KeyOf(side, block.e) = UNDEF
          THEN findFirstBlockWithoutUndef([next EXCEPT !.undef = Append(@, block)])
        ELSE [next EXCEPT !.undef = Append(@, Block(block.b, mid - 1)),
                          !.cur = Append(@, Block(mid, block.e))]

matchLeftUndefValuesWithNothing(j) == AddOptionalRows(j, j.l.undef)

FindUndef(j) == [j EXCEPT !.l = findFirstBlockWithoutUndef(@),
                          !.r = findFirstBlockWithoutUndef(@)]

PairUndef(j) == addCartesianProduct(j, j.l.undef, j.r.undef)

MatchUndefIfNoRight(j) ==
    IF /\ j.type = "OPTIONAL"
       /\ j.r.undef = <<>> /\ j.r.cur = <<>>
       /\ j.r.it > Len(j.r.blocks)
      THEN matchLeftUndefValuesWithNothing(j) ELSE j

fetchAndProcessUndefinedBlocks(j) ==
    MatchUndefIfNoRight(PairUndef(FindUndef(j)))

(* Mutant: the UNDEF rows of the left side are kept for later as well. *)
handleUndefForMinus_Keep(j) == matchLeftUndefValuesWithNothing(FindUndef(j))

handleUndefForMinus(j) ==
    LET kept == matchLeftUndefValuesWithNothing(FindUndef(j))
    IN  [kept EXCEPT !.l.undef = <<>>, !.r.undef = <<>>]

fillWithAllFromLeft(j) ==
    LET current == AddOptionalRows(j, j.l.cur)
    IN  [AddOptionalRows(current, Remaining(j.l)) EXCEPT !.l = Exhausted(@)]

(* consumeRemainingBlocks reads one side to its end, whether or not there  *)
(* are UNDEF blocks on the other side.                                     *)
consumeRemainingLeft(j) ==
    [AddPairs(addCartesianProduct(j, j.l.cur, j.r.undef), Remaining(j.l), j.r.undef)
        EXCEPT !.l = Exhausted(@)]
consumeRemainingRight(j) ==
    [AddPairs(addCartesianProduct(j, j.l.undef, j.r.cur), j.l.undef, Remaining(j.r))
        EXCEPT !.r = Exhausted(@)]

addRemainingUndefPairs(j) ==
    IF j.potentiallyHasUndef
      THEN consumeRemainingRight(consumeRemainingLeft(j)) ELSE j

AddRestOfLeft(j) ==
    IF IsOptionalOrMinus(j) /\ ~hasUndef(j, j.r) THEN fillWithAllFromLeft(j) ELSE j

(* The main loop, when the buffers are filled. *)
RECURSIVE JoinLoop(_)
JoinLoop(j) ==
    IF j.l.cur # <<>> /\ j.r.cur # <<>> THEN JoinLoop(fillBuffer(joinBuffers(j)))
    ELSE AddRestOfLeft(addRemainingUndefPairs(j))

HandleUndef(j) ==
    IF ~j.potentiallyHasUndef THEN j
    ELSE IF j.type = "MINUS" THEN handleUndefForMinus(j)
    ELSE fetchAndProcessUndefinedBlocks(j)

(* When neither side has UNDEF values the join starts again without them. *)
RunOnDefined(j) ==
    JoinLoop(fillBuffer([j EXCEPT !.potentiallyHasUndef = hasUndef(j, j.l) \/ hasUndef(j, j.r)]))

runJoin(j) == RunOnDefined(HandleUndef(j))

---------------------------------------------------------------------------
(* The entry points. *)

StartJoin(type, special, potentiallyHasUndef, left, right) ==
    [type |-> type, special |-> special,
     potentiallyHasUndef |-> potentiallyHasUndef, l |-> left, r |-> right,
     status |-> "allFilled", out |-> <<>>, ok |-> TRUE]

zipperJoinForBlocksWithoutUndef(type, left, right) ==
    runJoin(StartJoin(type, FALSE, FALSE, left, right))

zipperJoinForBlocksWithPotentialUndef(type, left, right) ==
    runJoin(StartJoin(type, FALSE, TRUE, left, right))

specialOptionalJoinForBlocks(left, right) ==
    runJoin(StartJoin("OPTIONAL", TRUE, FALSE, left, right))
=============================================================================
