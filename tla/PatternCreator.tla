--------------------------- MODULE PatternCreator ---------------------------
(***************************************************************************)
(* The patterns of the subjects (PatternCreator.cpp): the triples come     *)
(* sorted by SPO, <<subject, predicate, object, graph>>.  A pattern is the *)
(* sequence of the predicates of a subject; pattern n + 1 of `patterns`    *)
(* has the id n.                                                           *)
(***************************************************************************)
EXTENDS Integers, Sequences, SequencesExt, FiniteSetsExt

NoPattern == -1

NewPatternCreator ==
    [currentSubject |-> 0, currentPattern |-> <<>>, tripleBuffer |-> <<>>,
     patterns |-> <<>>, counts |-> <<>>, hasPattern |-> <<>>, osp |-> <<>>,
     numDistinctSubjectPredicatePairs |-> 0, numDistinctSubjects |-> 0,
     distinctPredicates |-> {}]

(* The id of a pattern, a new one for a new pattern. *)
finishPattern(c) ==
    LET p == c.currentPattern
        known == {n \in DOMAIN c.patterns : c.patterns[n] = p}
        counted == [c EXCEPT !.numDistinctSubjectPredicatePairs = @ + Len(p)]
    IN  IF p = <<>> THEN [creator |-> c, id |-> NoPattern]
        ELSE IF known # {}
          THEN LET n == CHOOSE n \in known : TRUE
               IN  [creator |-> [counted EXCEPT !.counts[n] = @ + 1], id |-> n - 1]
          ELSE [creator |-> [counted EXCEPT !.patterns = Append(@, p), !.counts = Append(@, 1),
                                            !.distinctPredicates = @ \union ToSet(p)],
                id |-> Len(c.patterns)]

(* All buffered triples of the subject get its pattern. *)
finishSubject(c) ==
    LET f == finishPattern(c)
        withPattern == [n \in DOMAIN c.tripleBuffer |-> Append(c.tripleBuffer[n], f.id)]
        new == [f.creator EXCEPT !.osp = @ \o withPattern, !.tripleBuffer = <<>>]
    IN  IF c.currentPattern = <<>> THEN new
        ELSE [new EXCEPT !.hasPattern = Append(@, <<c.currentSubject, f.id>>),
                         !.numDistinctSubjects = @ + 1]

(* Mutant: a triple with the predicate of the one before begins a new      *)
(* entry of the pattern.                                                   *)
processTriple_Duplicates(c, triple) ==
    LET d == IF c.currentSubject \in {0, triple[1]} THEN c
             ELSE [finishSubject(c) EXCEPT !.currentPattern = <<>>]
    IN  [d EXCEPT !.currentSubject = triple[1], !.tripleBuffer = Append(@, triple),
                  !.currentPattern = Append(@, triple[2])]

(* No caller passes a triple that is ignored for the patterns. *)
processTriple(c, triple) ==
    LET d == IF c.currentSubject \in {0, triple[1]} THEN c
             ELSE [finishSubject(c) EXCEPT !.currentPattern = <<>>]
    IN  [d EXCEPT !.currentSubject = triple[1], !.tripleBuffer = Append(@, triple),
                  !.currentPattern = IF @ # <<>> /\ Last(@) = triple[2] THEN @
                                     ELSE Append(@, triple[2])]

RECURSIVE ProcessTriples(_, _)
ProcessTriples(c, triples) ==
    IF triples = <<>> THEN c ELSE ProcessTriples(processTriple(c, Head(triples)), Tail(triples))

finish(c) == IF c.currentSubject = 0 THEN c ELSE finishSubject(c)

CreatePatterns(triples) == finish(ProcessTriples(NewPatternCreator, triples))

(* buildOspWithPatterns: an optional join on the object with has-pattern,  *)
(* UNDEF becomes NoPattern.                                                *)
fixBlockAfterPatternJoin(row, hasPattern) ==
    LET own == {h \in ToSet(hasPattern) : h[1] = row[3]}
    IN  IF own = {} THEN <<Append(row, NoPattern)>>
        ELSE [n \in 1 .. Cardinality(own) |-> Append(row, (CHOOSE h \in own : TRUE)[2])]

OspWithPatterns(c) ==
    FlattenSeq([n \in DOMAIN c.osp |-> fixBlockAfterPatternJoin(c.osp[n], c.hasPattern)])
=============================================================================
