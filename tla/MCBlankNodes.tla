---------------------------- MODULE MCBlankNodes ----------------------------
(***************************************************************************)
(* Instances of BlankNodes for TLC.                                        *)
(***************************************************************************)
EXTENDS BlankNodes, TLC

CONSTANTS b1, b2, v1, v2

MCBlock == {b1, b2}
MCVocab == {v1, v2}

Symmetry == Permutations(MCBlock) \union Permutations(MCVocab)
=============================================================================
