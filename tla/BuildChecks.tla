----------------------------- MODULE BuildChecks -----------------------------
(***************************************************************************)
(* The builder of an index on small inputs.  It runs when no other input   *)
(* has been chosen.  The patterns are those of the contents of ScanChecks. *)
(***************************************************************************)
EXTENDS IndexBuilder, RebuildChecks

P == INSTANCE PatternCreator

(* The words: a blank node, an IRI, a literal with a language tag and one  *)
(* without, which is a word of itself, the tagged predicate, and four      *)
(* internal entities.                                                      *)
MCBlankNodes == {1}
MCLangTaggedPredicates == {5}
MCInternalEntities == 6 .. 9
MCSpecialIris == <<6>>
MCExternalized == {3, 4}

ParsedTriples ==
    {[spo |-> <<2, 2, 3>>, lang |-> <<9, 5>>, words |-> {}],
     [spo |-> <<1, 2, 4>>, lang |-> <<>>, words |-> {4}],
     [spo |-> <<1, 2, -1>>, lang |-> <<>>, words |-> {}],
     [spo |-> <<2, 6, 1>>, lang |-> <<>>, words |-> {}]}

(* What the parser delivers: nothing, one or two full batches or half of   *)
(* one, and batches that are shared out to two item maps.                  *)
MCParsedInputs ==
    {<<>>} \union {<< <<a>>, <<b>> >> : a, b \in ParsedTriples}
    \union {<< <<a, b>>, <<c>> >> : a, b, c \in ParsedTriples}
    \union {<< <<a>>, <<b>>, <<c>>, <<d>> >> : a, b, c, d \in ParsedTriples}

BuildStep == Chosen("none") /\ BuildNext /\ UNCHANGED input

---------------------------------------------------------------------------
PredicatesOf(s) == {r[2] : r \in {r \in input.base : r[1] = s}}

(* Every triple comes out once, with the patterns of its subject and of    *)
(* its object; two subjects have the same pattern exactly if they have the *)
(* same predicates; and the statistics are right, though the patterns are  *)
(* collected in one pass over the sorted triples and their graphs.         *)
PatternsExact ==
    Chosen("index") =>
        LET c == P!CreatePatterns(Sorted(input.base))
            rows == P!OspWithPatterns(c)
            subjects == {r[1] : r \in input.base}
            PatternOf(s) == IF s \notin subjects THEN P!NoPattern
                            ELSE (CHOOSE h \in ToSet(c.hasPattern) : h[1] = s)[2]
        IN  /\ {SubSeq(r, 1, 4) : r \in ToSet(rows)} = input.base
            /\ Len(rows) = Cardinality(input.base)
            /\ \A r \in ToSet(rows) : r[5] = PatternOf(r[1]) /\ r[6] = PatternOf(r[3])
            /\ Len(c.hasPattern) = Cardinality(subjects)
            /\ \A s \in subjects :
                   LET p == c.patterns[PatternOf(s) + 1]
                   IN  ToSet(p) = PredicatesOf(s) /\ Len(p) = Cardinality(ToSet(p))
            /\ \A n \in DOMAIN c.patterns :
                   c.counts[n] = Cardinality({s \in subjects : PatternOf(s) = n - 1})
            /\ Len(c.patterns) = Cardinality(ToSet(c.patterns))
            /\ c.numDistinctSubjects = Cardinality(subjects)
            /\ c.numDistinctSubjectPredicatePairs = Cardinality({<<r[1], r[2]>> : r \in input.base})
            /\ c.distinctPredicates = {r[2] : r \in input.base}
=============================================================================
