----------------------------- MODULE MCTaskQueue -----------------------------
(***************************************************************************)
(* Instances of TaskQueue for TLC: two of the tasks call finish.           *)
(***************************************************************************)
EXTENDS TaskQueue

CONSTANTS w1, w2, u1, u2, k1, k2, k3

MCWorker == {w1, w2}
MCPusher == {u1, u2}
MCTask == {k1, k2, k3}
MCFinishing == {k1, k2}
=============================================================================
