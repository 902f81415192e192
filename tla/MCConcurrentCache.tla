-------------------------- MODULE MCConcurrentCache --------------------------
(***************************************************************************)
(* Instances of ConcurrentCache for TLC: a join with a scan as its child,  *)
(* and a service call with the same child whose result is not cached.      *)
(***************************************************************************)
EXTENDS ConcurrentCache

CONSTANTS t1, t2, join, scan, service

MCThread == {t1, t2}
MCKey == {join, scan, service}
MCSize == [k \in Key |-> 1]
MCChild == [k \in Key |-> IF k = scan THEN {} ELSE {scan}]
MCLimits == [entries |-> 1, size |-> 1, single |-> 1]

MCFairSpec == TrackedSpec /\ \A t \in Thread : WF_vars(Step(t))
=============================================================================
