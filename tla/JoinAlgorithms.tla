--------------------------- MODULE JoinAlgorithms ---------------------------
(***************************************************************************)
(* The join algorithms of src/src/util/JoinAlgorithms as operators: the    *)
(* zipper join with UNDEF values and the search for smaller compatible     *)
(* rows, the galloping join and the special OPTIONAL join.                 *)
(*                                                                         *)
(* A row is a sequence of ids (the join columns), an id a natural number   *)
(* and UNDEF the smallest one.  An input is a sequence of rows that is     *)
(* sorted lexicographically, a subrange of it a window [b, e] of positions *)
(* (both included; e = b - 1 when it is empty).  A result is the sequence  *)
(* of the calls of the row actions: <<i, j>> for compatibleRowAction and   *)
(* <<i, 0>> for elFromFirstNotFoundAction.                                 *)
(***************************************************************************)
EXTENDS Integers, Sequences, SequencesExt, FiniteSetsExt

UNDEF == 0

Less(a, b) ==
    \E c \in DOMAIN a : a[c] < b[c] /\ \A d \in 1 .. c - 1 : a[d] = b[d]

(* Two rows that agree in every column in which both are defined. *)
Compatible(a, b) ==
    \A c \in DOMAIN a : a[c] = UNDEF \/ b[c] = UNDEF \/ a[c] = b[c]

Positions(b, e) == [n \in 1 .. e - b + 1 |-> b + n - 1]

(* The first position of the window for which Test fails, or its end. *)
FindIfNot(b, e, Test(_)) == Min({x \in b .. e : ~Test(x)} \union {e + 1})

Product(lb, le, rb, re) ==
    LET n == re - rb + 1
    IN  [k \in 1 .. (le - lb + 1) * n |->
            <<lb + ((k - 1) \div n), rb + ((k - 1) % n)>>]

---------------------------------------------------------------------------
(* FindUndefRanges.h.  A search returns the positions it yields and        *)
(* whether it has set resultMightBeUnsorted.                               *)

Masked(row, mask, n) ==
    [c \in DOMAIN row |->
        IF c <= n /\ (mask \div 2^(n - c)) % 2 = 0 THEN UNDEF ELSE row[c]]

(* The rows of the window with the given first n columns, for every mask   *)
(* of these columns but the one that leaves all of them as they are.       *)
MatchMasks(row, n, rows, b, e) ==
    FlattenSeq([m \in 1 .. 2^n - 1 |->
        SelectSeq(Positions(b, e), LAMBDA x :
            \A c \in 1 .. n : rows[x][c] = Masked(row, m - 1, n)[c])])

findSmallerUndefRangesForRowsWithoutUndef(row, rows, b, e) ==
    [pos |-> MatchMasks(row, Len(row), rows, b, e), unsorted |-> FALSE]

(* Mutant: the caller is not told that the result may be unsorted. *)
LastColumns_Sorted(row, numDefined, rows, b, e) ==
    [pos |-> MatchMasks(row, numDefined, rows, b, e), unsorted |-> FALSE]

findSmallerUndefRangesForRowsWithUndefInLastColumns(row, numDefined, rows, b, e) ==
    [pos |-> MatchMasks(row, numDefined, rows, b, e), unsorted |-> numDefined > 0]

findSmallerUndefRangesArbitrary(row, rows, b, e) ==
    LET pos == SelectSeq(Positions(b, e), LAMBDA x :
                   Less(rows[x], row) /\ Compatible(row, rows[x]))
    IN  [pos |-> pos, unsorted |-> pos # <<>>]

findSmallerUndefRanges(row, rows, b, e) ==
    LET numDefined == Max({c \in DOMAIN row : row[c] # UNDEF} \union {0})
    IN  IF \E c \in 1 .. numDefined : row[c] = UNDEF
          THEN findSmallerUndefRangesArbitrary(row, rows, b, e)
        ELSE IF numDefined = Len(row)
          THEN findSmallerUndefRangesForRowsWithoutUndef(row, rows, b, e)
        ELSE findSmallerUndefRangesForRowsWithUndefInLastColumns(
                 row, numDefined, rows, b, e)

(* The function a caller passes as findSmallerUndefRangesLeft or -Right:   *)
(* noop, the general search, or a fixed range of UNDEF rows.               *)
noop == [kind |-> "noop"]
general == [kind |-> "general"]
Fixed(b, e) == [kind |-> "fixed", b |-> b, e |-> e]

FindSmaller(find, row, rows, b, e) ==
    CASE find.kind = "noop"    -> [pos |-> <<>>, unsorted |-> FALSE]
      [] find.kind = "general" -> findSmallerUndefRanges(row, rows, b, e)
      [] find.kind = "fixed"   -> [pos |-> Positions(find.b, find.e),
                                   unsorted |-> FALSE]

---------------------------------------------------------------------------
(* zipperJoinWithUndef.  The arguments are a record p: the rows of both    *)
(* sides, the windows that are joined, the two search functions, whether   *)
(* there is an elFromFirstNotFoundAction, and CoverUndefRanges.            *)

ZipperArguments(left, lb, le, right, rb, re, findLeft, findRight, notFound, coverUndef) ==
    [left |-> left, lb |-> lb, le |-> le, right |-> right, rb |-> rb, re |-> re,
     findLeft |-> findLeft, findRight |-> findRight,
     notFound |-> notFound, coverUndef |-> coverUndef]

containsNoUndefined(p, row) ==
    \/ p.findLeft.kind = "noop" /\ p.findRight.kind = "noop"
    \/ \A c \in DOMAIN row : row[c] # UNDEF

NotFound(p, i) == IF p.notFound THEN << <<i, 0>> >> ELSE <<>>

SmallerOf(pos, rows, row) == SelectSeq(pos, LAMBDA x : Less(rows[x], row))

PairWithLeft(p, s, j, hits) ==
    [s EXCEPT !.out = @ \o [n \in DOMAIN hits |-> <<hits[n], j>>],
              !.covered = IF p.coverUndef THEN @ \union ToSet(hits) ELSE @]

mergeWithUndefLeft(p, s, j, le) ==
    LET Merge(found) == PairWithLeft(p, [s EXCEPT !.unsorted = @ \/ found.unsorted], j,
                                     SmallerOf(found.pos, p.left, p.right[j]))
    IN  Merge(FindSmaller(p.findLeft, p.right[j], p.left, p.lb, le))

PairWithRight(p, s, i, hits, hasNoMatch) ==
    IF hits # <<>>
      THEN [s EXCEPT !.out = @ \o [n \in DOMAIN hits |-> <<i, hits[n]>>],
                     !.covered = @ \union {i}]
    ELSE IF hasNoMatch /\ containsNoUndefined(p, p.left[i])
      THEN [s EXCEPT !.out = @ \o NotFound(p, i), !.covered = @ \union {i}]
    ELSE s

(* Mutant: a left row that matches a row with UNDEF is not marked. *)
mergeWithUndefRight_NotCovered(p, s, i, re, hasNoMatch) ==
    LET Pair(hits, unsorted) == [s EXCEPT !.unsorted = @ \/ unsorted,
                                          !.out = @ \o [n \in DOMAIN hits |-> <<i, hits[n]>>]]
        Merge(found) == Pair(SmallerOf(found.pos, p.right, p.left[i]), found.unsorted)
    IN  Merge(FindSmaller(p.findRight, p.left[i], p.right, p.rb, re))

mergeWithUndefRight(p, s, i, re, hasNoMatch) ==
    LET Merge(found) == PairWithRight(p, [s EXCEPT !.unsorted = @ \/ found.unsorted], i,
                                      SmallerOf(found.pos, p.right, p.left[i]), hasNoMatch)
    IN  Merge(FindSmaller(p.findRight, p.left[i], p.right, p.rb, re))

(* The ranges of equal rows: each row is first paired with the smaller     *)
(* compatible ones, then the rows are paired with each other.              *)
JoinEqualRanges(p, s) ==
    LET e1 == FindIfNot(s.i, p.le, LAMBDA x : p.left[x] = p.right[s.j])
        e2 == FindIfNot(s.j, p.re, LAMBDA x : p.right[x] = p.left[s.i])
        t1 == FoldLeft(LAMBDA t, x : mergeWithUndefRight(p, t, x, s.j - 1, FALSE),
                       s, Positions(s.i, e1 - 1))
        t2 == FoldLeft(LAMBDA t, x : mergeWithUndefLeft(p, t, x, s.i - 1),
                       t1, Positions(s.j, e2 - 1))
    IN  [t2 EXCEPT !.out = @ \o Product(s.i, e1 - 1, s.j, e2 - 1),
                   !.covered = @ \union (s.i .. e1 - 1),
                   !.i = e1, !.j = e2]

RECURSIVE ZipperLoop(_, _)
ZipperLoop(p, s) ==
    IF s.i > p.le \/ s.j > p.re THEN s
    ELSE IF Less(p.left[s.i], p.right[s.j])
      THEN ZipperLoop(p, [mergeWithUndefRight(p, s, s.i, s.j - 1, TRUE)
                            EXCEPT !.i = @ + 1])
    ELSE IF Less(p.right[s.j], p.left[s.i])
      THEN ZipperLoop(p, [mergeWithUndefLeft(p, s, s.j, s.i - 1)
                            EXCEPT !.j = @ + 1])
    ELSE ZipperLoop(p, JoinEqualRanges(p, s))

(* The remaining rows of both sides, then the rows of the left side that   *)
(* are not covered.                                                        *)
MergeRestOfRight(p, s) ==
    FoldLeft(LAMBDA t, x : mergeWithUndefLeft(p, t, x, p.le), s, Positions(s.j, p.re))
MergeRestOfLeft(p, s) ==
    FoldLeft(LAMBDA t, x : mergeWithUndefRight(p, t, x, p.re, TRUE), s, Positions(s.i, p.le))

AddUncovered(p, s) ==
    LET rest == IF p.notFound
                  THEN SelectSeq(Positions(p.lb, p.le), LAMBDA x : x \notin s.covered)
                  ELSE <<>>
    IN  [out |-> s.out \o [n \in DOMAIN rest |-> <<rest[n], 0>>],
         unsorted |-> s.unsorted, numOutOfOrderAtEnd |-> Len(rest)]

zipperJoinWithUndef(p) ==
    AddUncovered(p, MergeRestOfLeft(p, MergeRestOfRight(p,
        ZipperLoop(p, [i |-> p.lb, j |-> p.rb, out |-> <<>>,
                       covered |-> {}, unsorted |-> FALSE]))))

---------------------------------------------------------------------------
(* gallopingJoin: no UNDEF values; linear search in the smaller input,     *)
(* exponential and then binary search in the larger one.                   *)

RECURSIVE ExponentialStep(_, _, _, _, _)
ExponentialStep(larger, row, lower, itL, step) ==
    IF ~Less(larger[itL], row) THEN [b |-> lower, e |-> itL]
    ELSE IF itL + step > Len(larger) THEN [b |-> itL, e |-> Len(larger)]
    ELSE ExponentialStep(larger, row, itL, itL + step, 2 * step)

(* Mutant: the binary search begins where the exponential one has ended. *)
exponentialSearch_FromEnd(larger, itL, row) ==
    LET found == ExponentialStep(larger, row, itL, itL, 1)
    IN  [found EXCEPT !.b = found.e]

exponentialSearch(larger, itL, row) == ExponentialStep(larger, row, itL, itL, 1)

(* The left rows before i have no partner. *)
SkipTo(s, i) ==
    [s EXCEPT !.i = i, !.out = @ \o [k \in 1 .. i - s.i |-> <<s.i + k - 1, 0>>]]

(* One round of the outer loop from the positions i and j. *)
RECURSIVE GallopingLoop(_, _, _)
GallopingLoop(smaller, larger, s) ==
    LET n == Len(smaller)
        i == FindIfNot(s.i, n, LAMBDA x : Less(smaller[x], larger[s.j]))
        skipped == SkipTo(s, i)
        range == exponentialSearch(larger, s.j, smaller[i])
        j  == FindIfNot(range.b, range.e, LAMBDA x : Less(larger[x], smaller[i]))
        e1 == FindIfNot(i, n, LAMBDA x : smaller[x] = larger[j])
        e2 == FindIfNot(j, Len(larger), LAMBDA x : larger[x] = smaller[i])
    IN  IF s.i > n \/ s.j > Len(larger) THEN s
        ELSE IF i > n THEN skipped
        ELSE IF j > Len(larger) THEN [skipped EXCEPT !.j = j]
        ELSE GallopingLoop(smaller, larger,
                 [skipped EXCEPT !.i = e1, !.j = e2,
                                 !.out = @ \o Product(i, e1 - 1, j, e2 - 1)])

gallopingJoin(smaller, larger) ==
    SkipTo(GallopingLoop(smaller, larger, [i |-> 1, j |-> 1, out |-> <<>>]),
           Len(smaller) + 1).out

---------------------------------------------------------------------------
(* specialOptionalJoin: no UNDEF values on the right, on the left only in  *)
(* the last column.  ok is FALSE after a failed AD_CORRECTNESS_CHECK.      *)

ButLast(row) == SubSeq(row, 1, Len(row) - 1)
LastColumn(rows) == [x \in DOMAIN rows |-> <<Last(rows[x])>>]

(* Mutant: the search for the end of the UNDEF values stops a row early. *)
JoinLastColumn_ShortUndef(left, lb, le, right, rb, re) ==
    LET endOfUndef == FindIfNot(lb, le - 1, LAMBDA x : Last(left[x]) = UNDEF)
    IN  zipperJoinWithUndef(ZipperArguments(
            LastColumn(left), lb, le, LastColumn(right), rb, re,
            Fixed(lb, endOfUndef - 1), noop, TRUE, TRUE))

(* The join on the last column of two windows that agree in the others. *)
JoinLastColumn(left, lb, le, right, rb, re) ==
    LET endOfUndef == FindIfNot(lb, le, LAMBDA x : Last(left[x]) = UNDEF)
    IN  zipperJoinWithUndef(ZipperArguments(
            LastColumn(left), lb, le, LastColumn(right), rb, re,
            Fixed(lb, endOfUndef - 1), noop, TRUE, TRUE))

AddJoined(s, e1, e2, zip) ==
    [s EXCEPT !.i = e1, !.j = e2, !.out = @ \o zip.out,
              !.ok = @ /\ ~zip.unsorted /\ zip.numOutOfOrderAtEnd = 0]

(* One round skips rows on the right, then on the left, and then joins the *)
(* rows that agree in all columns but the last one, if there are any.      *)
SkipRight(left, right, re, s) ==
    [s EXCEPT !.j = FindIfNot(@, re, LAMBDA x : Less(ButLast(right[x]), ButLast(left[s.i])))]

SkipLeft(left, le, right, re, s) ==
    IF s.j > re THEN s
    ELSE SkipTo(s, FindIfNot(s.i, le, LAMBDA x : Less(ButLast(left[x]), ButLast(right[s.j]))))

JoinEqualPart(left, le, right, re, s) ==
    LET e1 == FindIfNot(s.i, le, LAMBDA x : ButLast(left[x]) = ButLast(right[s.j]))
        e2 == FindIfNot(s.j, re, LAMBDA x : ButLast(right[x]) = ButLast(left[s.i]))
    IN  IF s.i > le \/ s.j > re \/ e1 = s.i THEN s
        ELSE AddJoined(s, e1, e2, JoinLastColumn(left, s.i, e1 - 1, right, s.j, e2 - 1))

RECURSIVE SpecialLoop(_, _, _, _, _)
SpecialLoop(left, le, right, re, s) ==
    IF s.i > le \/ s.j > re THEN s
    ELSE SpecialLoop(left, le, right, re,
             JoinEqualPart(left, le, right, re,
                 SkipLeft(left, le, right, re, SkipRight(left, right, re, s))))

specialOptionalJoin(left, lb, le, right, rb, re) ==
    SkipTo(SpecialLoop(left, le, right, re, [i |-> lb, j |-> rb, out |-> <<>>, ok |-> TRUE]),
           le + 1)
=============================================================================
