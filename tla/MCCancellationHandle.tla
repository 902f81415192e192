------------------------- MODULE MCCancellationHandle -------------------------
(***************************************************************************)
(* An instance of CancellationHandle for TLC.                              *)
(***************************************************************************)
EXTENDS CancellationHandle

CONSTANTS t1, t2, t3

MCThread == {t1, t2, t3}
=============================================================================
