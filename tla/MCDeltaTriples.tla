--------------------------- MODULE MCDeltaTriples ---------------------------
(***************************************************************************)
(* Instances of DeltaTriples for TLC.                                      *)
(***************************************************************************)
EXTENDS DeltaTriples, Sequences

\* Quad 1 is new, quad 2 is in the index, and quads 3 to 6 are one quad with
\* the blank nodes 0 to 3.  It has the object of quad 1 in another graph.
MCTriple == 1 .. 6
MCBase == {2}
MCNode == 0 .. 3
MCRequestNode == {0}
MCSubject == [t \in MCTriple |-> t - 3]
MCWithSubject == [t \in MCTriple |-> [n \in MCNode |-> n + 3]]
MCObject == [t \in MCTriple |-> IF t = 2 THEN "other" ELSE "label"]
MCGraph == [t \in MCTriple |-> IF t <= 2 THEN "g" ELSE "h"]

\* Without blank nodes.
MCNoBlank == {1, 2}

MCNumPermutations == [k \in {"normal", "internal"} |-> 2]
MCOneInternal == [normal |-> 2, internal |-> 1]

\* One block for the quads, one for their copies and one for their tags.
MCBlock == [normal |-> [t \in Triple |-> 1],
            internal |-> [t \in InternalsOf(LangTagged) |-> Len(t)]]
=============================================================================
