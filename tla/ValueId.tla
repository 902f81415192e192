------------------------------ MODULE ValueId ------------------------------
(***************************************************************************)
(* Ids (ValueId.h): <<datatype, value>>.  The numbers of the datatypes are *)
(* those of the enumeration, and the bits of an id are compared datatype   *)
(* first.                                                                  *)
(***************************************************************************)
EXTENDS Integers

IntType == 2
VocabIndex == 4
LocalVocabIndex == 5
BlankNodeIndex == 10
EncodedVal == 11

BitsLess(a, b) == a[1] < b[1] \/ (a[1] = b[1] /\ a[2] < b[2])
=============================================================================
