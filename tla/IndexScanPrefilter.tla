------------------------- MODULE IndexScanPrefilter -------------------------
(***************************************************************************)
(* IndexScan::prefilterTables: a lazy join input and an index scan are     *)
(* filtered against each other while two consumers, one for each side,     *)
(* read them in an order of their own.  Both consumers share one state     *)
(* (SharedGeneratorState): whoever runs out of data reads the next table   *)
(* of the input and finds the blocks of the scan that can match it.        *)
(*                                                                         *)
(* A table is the sequence of its join column; 0 is UNDEF.  The scan has   *)
(* no fixed column, so that the ids of a block are those of its first and  *)
(* last triple.                                                            *)
(***************************************************************************)
EXTENDS CompressedRelation

CONSTANT MaxBufferSize \* maxBufferSize

FullScan == [fixed |-> <<>>, graphs |-> AllGraphs, withGraph |-> FALSE]
First(b) == FirstId(b, FullScan, <<>>)
LastOf(b) == LastId(b, FullScan, <<>>)

(* SharedGeneratorState; it is the position of iterator_, 0 before begin().*)
(* joinOut and scanOut are what the consumers got so far; failed tells     *)
(* that an AD_CORRECTNESS_CHECK was not satisfied.                         *)
prefilterTables(tables, blocks, filterJoinSide) ==
    [generator |-> tables, it |-> 0, meta |-> blocks, all |-> blocks,
     filterJoinSide |-> filterJoinSide, prefetched |-> <<>>, pending |-> <<>>,
     last |-> 0, hasUndef |-> FALSE, status |-> "Running", failed |-> FALSE,
     joinOut |-> <<>>, joinDone |-> FALSE, scanOut |-> <<>>, scanDone |-> FALSE]

advanceInputToNextNonEmptyTable(s) ==
    LET end == Len(s.generator) + 1
        it  == Min({i \in s.it + 1 .. Len(s.generator) : s.generator[i] # <<>>} \union {end})
    IN  [s EXCEPT !.it = it,
                  !.status = IF it = end THEN "BothSidesExhausted" ELSE @,
                  !.hasUndef = IF s.it = 0 THEN it # end /\ s.generator[it][1] = 0 ELSE @]

pushDummyBlockIfBufferTooLarge(s) ==
    IF Len(s.prefetched) <= MaxBufferSize THEN s
    ELSE LET block == Head(s.meta)
         IN  [s EXCEPT !.failed = @ \/ ~(First(block) > Last(Last(s.prefetched))),
                       !.pending = Append(@, block), !.last = LastOf(block),
                       !.meta = Tail(@)]

NextMetadata(s, found) == SubSeq(s.meta, found.numHandledBlocks + 1, Len(s.meta))

(* Mutant: a table that only matches blocks found before is dropped. *)
PushTable_NewOnly(s, column, found) ==
    LET meta == NextMetadata(s, found)
    IN  [s EXCEPT
           !.meta = meta, !.pending = @ \o found.blocks,
           !.prefetched = IF found.blocks # <<>> THEN Append(@, column) ELSE @,
           !.status = IF meta # <<>> THEN @
                      ELSE IF found.blocks # <<>> THEN "ScanSideExhausted"
                      ELSE "BothSidesExhausted"]

(* What the blocks found for a table of the input change. *)
PushTable(s, column, found) ==
    LET new     == found.blocks # <<>>
        matches == new \/ column[1] <= s.last
        yielded == ~s.filterJoinSide \/ matches
        meta    == NextMetadata(s, found)
        Push(t) == IF ~new /\ yielded /\ meta # <<>>
                     THEN pushDummyBlockIfBufferTooLarge(t) ELSE t
    IN  Push([s EXCEPT
                !.meta = meta, !.pending = @ \o found.blocks,
                !.last = IF new THEN LastOf(Last(found.blocks)) ELSE @,
                !.prefetched = IF yielded THEN Append(@, column) ELSE @,
                !.failed = @ \/ column[1] = 0,
                !.status = IF meta # <<>> THEN @
                           ELSE IF matches THEN "ScanSideExhausted"
                           ELSE "BothSidesExhausted"])

(* One table of the input in fetch, after UNDEF and the end are excluded. *)
FetchTable(s) ==
    PushTable(s, s.generator[s.it], getBlocksForJoin(s.generator[s.it], s.meta, FullScan, <<>>))

RECURSIVE fetch(_)
fetch(s) ==
    LET Continue(t) == IF t.status = "BothSidesExhausted" THEN t ELSE fetch(t)
        Handle(t) == IF t.status = "BothSidesExhausted" \/ t.hasUndef THEN t
                     ELSE Continue(FetchTable(t))
    IN  IF s.prefetched # <<>> /\ (s.pending # <<>> \/ s.status # "Running") THEN s
        ELSE Handle(advanceInputToNextNonEmptyTable(s))

(* hasUndef() starts the input. *)
Started(s) == IF s.it = 0 THEN fetch(s) ELSE s

NonEmpty(tables) == SelectSeq(tables, LAMBDA t : t # <<>>)

(* One call of the generator of the join side. *)
createPrefilteredJoinSide(state) ==
    LET All(s) == [s EXCEPT !.joinOut = SubSeq(s.generator, s.it, Len(s.generator)),
                            !.joinDone = TRUE]
        Rest(s) == NonEmpty(SubSeq(s.generator, s.it + 1, Len(s.generator)))
        Yield(s) ==
            IF s.prefetched = <<>>
              THEN [s EXCEPT !.joinOut = IF s.filterJoinSide THEN @ ELSE @ \o Rest(s),
                             !.joinDone = TRUE,
                             !.failed = @ \/ s.status # "BothSidesExhausted"]
              ELSE [s EXCEPT !.joinOut = @ \o s.prefetched, !.prefetched = <<>>]
        Call(s) == IF s.hasUndef THEN All(s)
                   ELSE Yield(IF s.prefetched = <<>> /\ s.status # "BothSidesExhausted"
                                THEN fetch(s) ELSE s)
    IN  Call(Started(state))

(* One call of the generator of the scan side. *)
createPrefilteredIndexScanSide(state) ==
    LET Yield(s) ==
            IF s.pending = <<>> THEN [s EXCEPT !.scanDone = TRUE]
            ELSE [s EXCEPT !.scanOut = @ \o s.pending, !.pending = <<>>]
        Call(s) == IF s.hasUndef THEN [s EXCEPT !.scanOut = s.all, !.scanDone = TRUE]
                   ELSE Yield(IF s.pending = <<>> /\ s.status = "Running"
                                THEN fetch(s) ELSE s)
    IN  Call(Started(state))
=============================================================================
