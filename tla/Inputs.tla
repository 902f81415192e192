------------------------------- MODULE Inputs -------------------------------
(***************************************************************************)
(* The pure algorithms are checked on every small input: a behaviour       *)
(* chooses an input in a few steps, and an invariant compares what the     *)
(* algorithm computes with its definition.  input is a record; its field   *)
(* kind tells which algorithm it is for and how far it has been chosen.    *)
(***************************************************************************)
EXTENDS Integers, Sequences

VARIABLE input

Start == input = [kind |-> "none"]

Chosen(kind) == input.kind = kind

(* The sequences of at most n elements of S that are sorted. *)
SortedSeqs(S, n, LessThan(_, _)) ==
    UNION {{s \in [1 .. k -> S] :
               \A i \in 1 .. k - 1 : s[i] = s[i + 1] \/ LessThan(s[i], s[i + 1])}
           : k \in 0 .. n}
=============================================================================
