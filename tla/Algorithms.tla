----------------------------- MODULE Algorithms -----------------------------
(***************************************************************************)
(* All checks of sequential code as one specification: the algorithms on   *)
(* chosen inputs, the builder of an index, and the query cache.  A         *)
(* behaviour is about one of them.                                         *)
(***************************************************************************)
EXTENDS JoinChecks, BuildChecks, FilterChecks, OperationChecks, PlannerChecks, FlexibleCache

(* An empty result, a small, a medium and a large one. *)
MCKey == {"empty", "small", "medium", "large"}
MCSize == [empty |-> 0, small |-> 1, medium |-> 2, large |-> 3]
MCLimits == [entries |-> 3, size |-> 4, single |-> 2]

CacheIsNew == cache = EmptyCache /\ limits = InitLimits

Choose ==
    \/ ChooseLeft \/ ChooseRight
    \/ WriteIndex \/ UpdateIndex
    \/ ChooseTables \/ StartPrefilter \/ ReadJoinSide \/ ReadScanSide
    \/ ChooseRebuild
    \/ ChooseColumn \/ ChooseFilterBlocks
    \/ ChooseOperation
    \/ ChoosePlan

CacheStep == Chosen("none") /\ CacheNext /\ UNCHANGED input

Init == Start /\ BuildInit /\ CacheInit

Next ==
    \/ phase = "idle" /\ CacheIsNew /\ Choose /\ UNCHANGED <<buildVars, cacheVars>>
    \/ CacheIsNew /\ BuildStep /\ UNCHANGED cacheVars
    \/ phase = "idle" /\ CacheStep /\ UNCHANGED buildVars

Spec == Init /\ [][Next]_<<input, buildVars, cacheVars>>
=============================================================================
