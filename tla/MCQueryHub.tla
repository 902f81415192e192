----------------------------- MODULE MCQueryHub ------------------------------
(***************************************************************************)
(* Instances of QueryHub for TLC.  Different ids do not interact, so that  *)
(* all the queries and sessions have the same one.                         *)
(***************************************************************************)
EXTENDS QueryHub

CONSTANTS id, q1, q2, s1, s2

MCQueries == {q1, q2}
MCOneQuery == {q1}
MCSessions == {s1, s2}
MCOneSession == {s1}
MCIdOf == [c \in Query \cup Session |-> id]
=============================================================================
