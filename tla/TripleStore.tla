---------------------------- MODULE TripleStore -----------------------------
(***************************************************************************)
(* What the DeltaTriples with persistence promise to the clients of the    *)
(* server: the content of the store changes in one step per request, and   *)
(* what a client can see has been saved before and survives a crash.       *)
(***************************************************************************)
CONSTANTS Triple, Base

VARIABLES saved, visible

Init == saved = Base /\ visible = Base

\* A request is saved.  The previous one is visible by then.
Save ==
    /\ visible = saved
    /\ saved' \in SUBSET Triple
    /\ UNCHANGED visible

\* What was saved becomes visible, at the end of the request or, if the
\* process ends before that, after the next start.
Show ==
    /\ visible' = saved
    /\ UNCHANGED saved

Next == Save \/ Show

Spec == Init /\ [][Next]_<<saved, visible>>
=============================================================================
