--------------------------- MODULE MCQueueManager ----------------------------
(***************************************************************************)
(* Instances of QueueManager for TLC.                                      *)
(***************************************************************************)
EXTENDS QueueManager

CONSTANTS p1, p2

MCProducer == {p1, p2}
=============================================================================
