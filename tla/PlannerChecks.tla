---------------------------- MODULE PlannerChecks ----------------------------
(***************************************************************************)
(* The planner on all small group graph patterns: a behaviour chooses the  *)
(* filters of the group and then its elements one by one, each of which    *)
(* the planner visits, and at last the planner returns its plans.  The     *)
(* solutions are computed on the side, as the SPARQL standard defines      *)
(* them: from left to right, with the filters at the end.                  *)
(***************************************************************************)
EXTENDS QueryPlanner, Inputs

CONSTANTS MaxElements,  \* the number of elements of a group
          MaxTriples    \* the number of elements if all of them are triples

GroupVars == {"x", "y", "z"}

(* Two predicates with the pairs that they hold for *)
PairsOf == [P |-> {<<0, 0>>, <<0, 1>>, <<1, 1>>}, Q |-> {<<0, 1>>, <<1, 0>>, <<1, 1>>}]

TriplePattern(name, s, p, o) == [name |-> name, s |-> s, pairs |-> PairsOf[p], o |-> o]

GroupTriples == {TriplePattern("xPy", "x", "P", "y"), TriplePattern("yQz", "y", "Q", "z"),
                 TriplePattern("zPx", "z", "P", "x"), TriplePattern("xPx", "x", "P", "x"),
                 TriplePattern("yQy", "y", "Q", "y")}

(* A materialized view holds the join of two of the triples. *)
GroupViews == {<<"xPy", "yQz">>}

(* What has been planned inside of braces: the plan for it has the numbers *)
(* of the filters inside of the braces.                                    *)
GroupChild(type, s, pairs, o, filters) ==
    [type |-> type, vars |-> {s, o}, filters |-> filters,
     rows |-> {(s :> pair[1]) @@ (o :> pair[2]) : pair \in pairs}]

GroupChildren == {GroupChild("OPTIONAL", "y", {<<0, 0>>, <<0, 1>>}, "z", {1}),
                  GroupChild("OPTIONAL", "x", {<<1, 0>>}, "y", {}),
                  GroupChild("OPTIONAL", "y", {}, "z", {}),
                  GroupChild("MINUS", "y", {<<1, 1>>, <<0, 0>>}, "z", {1}),
                  GroupChild("BASIC", "x", {<<0, 1>>, <<1, 0>>, <<1, 1>>}, "z", {1})}

GroupBinds == {[target |-> "y", source |-> "x"], [target |-> "z", source |-> "y"]}

BoundY == [op |-> "bound", vars |-> {"y"}]
DifferentXZ == [op |-> "notEqual", vars |-> {"x", "z"}]
GroupFilters == {<<>>, <<BoundY>>, <<DifferentXZ>>, <<BoundY, DifferentXZ>>}

---------------------------------------------------------------------------
(* group is the state of the planner; elements is how many it has visited, *)
(* joined which of them are part of the solutions.  solutions are those of *)
(* the elements so far, visible their variables, maybe those of an         *)
(* OPTIONAL, which may be unbound.  The others tell apart the groups for   *)
(* which the planner is known to go wrong: see the observations of the     *)
(* README.  loops counts the calls of optimizeCommutatively for triples    *)
(* whose two variables are the same; crossed says that a variable of a     *)
(* filter is in an OPTIONAL and again in a later element; lost says that   *)
(* an OPTIONAL or MINUS only has variables in common with earlier MINUSes. *)
ChooseGroup ==
    /\ Chosen("none")
    /\ \E filters \in GroupFilters :
         input' = [kind |-> "group", group |-> GraphPatternPlanner(filters),
                   elements |-> 0, joined |-> {}, onlyTriples |-> TRUE,
                   solutions |-> {<<>>}, visible |-> {}, maybe |-> {},
                   loops |-> 0, crossed |-> FALSE, lost |-> FALSE]

FilterVars(filters) == UNION {filters[i].vars : i \in DOMAIN filters}
Crosses(vars) == vars \intersect input.maybe \intersect FilterVars(input.group.filters) # {}
HasLoop == \E i \in DOMAIN input.group.triples : IsLoop(input.group.triples[i])

VisitTriple ==
    /\ Chosen("group")
    /\ input.elements < IF input.onlyTriples THEN MaxTriples ELSE MaxElements
    /\ \E t \in GroupTriples :
       \E g \in visitBasicGraphPattern(input.group, t @@ [leaf |-> input.elements + 1]) :
         input' = [input EXCEPT
             !.group = g, !.elements = @ + 1, !.joined = @ \union {input.elements + 1},
             !.solutions = JoinSolutions(@, {(t.s :> p[1]) @@ (t.o :> p[2])
                                             : p \in {q \in t.pairs : IsLoop(t) => q[1] = q[2]}}),
             !.visible = @ \union Vars(t),
             !.crossed = @ \/ Crosses(Vars(t))]

PlanOf(child) ==
    [SubtreePlan([vars |-> child.vars, rows |-> child.rows,
                  leaves |-> SetToBag({input.elements + 1})])
        EXCEPT !.filters = child.filters, !.type = child.type]

SolutionsWith(R, child) ==
    CASE child.type = "BASIC"    -> JoinSolutions(R, child.rows)
      [] child.type = "OPTIONAL" -> LeftJoinSolutions(R, child.rows)
      [] child.type = "MINUS"    -> MinusSolutions(R, child.rows)

IsBarrier(child) == child.type # "BASIC" /\ child.vars \intersect input.group.bound # {}

VisitChild ==
    /\ Chosen("group") /\ input.elements < MaxElements
    /\ \E c \in GroupChildren :
       \E g \in visitGroupOptionalOrMinus(input.group, PlanOf(c), GroupViews) :
         input' = [input EXCEPT
             !.group = g, !.elements = @ + 1, !.onlyTriples = FALSE,
             !.joined = IF c.type = "MINUS" THEN @ ELSE @ \union {input.elements + 1},
             !.solutions = SolutionsWith(@, c),
             !.visible = IF c.type = "MINUS" THEN @ ELSE @ \union c.vars,
             !.maybe = IF c.type = "OPTIONAL" THEN @ \union (c.vars \ input.visible) ELSE @,
             !.loops = IF IsBarrier(c) /\ HasLoop THEN @ + 1 ELSE @,
             !.crossed = @ \/ (c.type # "MINUS" /\ Crosses(c.vars)),
             !.lost = @ \/ (IsBarrier(c) /\ c.vars \intersect input.visible = {})]

VisitBind ==
    /\ Chosen("group") /\ input.elements < MaxElements
    /\ \E b \in GroupBinds : \E g \in visitBind(input.group, b, GroupViews) :
         /\ b.target \notin input.group.bound
         /\ input' = [input EXCEPT
                !.group = g, !.elements = @ + 1, !.onlyTriples = FALSE,
                !.solutions = ExtendSolutions(@, b.target, b.source),
                !.visible = @ \union {b.target},
                !.maybe = IF b.source \in input.visible \ @ THEN @ ELSE @ \union {b.target},
                !.loops = IF HasLoop THEN @ + 1 ELSE @]

FinishGroup ==
    /\ Chosen("group") /\ ~input.group.failed
    /\ \E g \in optimize(input.group, GroupViews) :
         input' = [input EXCEPT !.kind = "planned", !.group = g,
                                !.loops = IF HasLoop THEN @ + 1 ELSE @]

ChoosePlan == ChooseGroup \/ VisitTriple \/ VisitChild \/ VisitBind \/ FinishGroup

---------------------------------------------------------------------------
GroupSolutions == FilterSolutions(input.solutions, Range(input.group.filters))

InGroup(rows) == {[v \in DOMAIN r \intersect GroupVars |-> r[v]] : r \in rows}

PlannedExactly ==
    /\ ~input.group.failed
    /\ Chosen("planned") =>
        \A plan \in input.group.plans[1] :
            /\ InGroup(plan.qet.rows) = GroupSolutions
            /\ input.joined \subseteq DOMAIN plan.qet.leaves
            /\ \A leaf \in DOMAIN plan.qet.leaves : plan.qet.leaves[leaf] = 1

Planning == input.kind \in {"group", "planned"}

(* Whichever plans the estimates prefer, and whichever of the two planners *)
(* runs for a component, every plan that is returned for a group has       *)
(* exactly the solutions of the group, joins each of its elements once,    *)
(* and no check of the planner fails; except for the groups named above.   *)
PlansExact == Planning /\ input.loops <= 1 /\ ~input.crossed /\ ~input.lost => PlannedExactly

(* The same also if two parts of the group, with an OPTIONAL, a MINUS or a *)
(* BIND between them, have triples whose two variables are the same.       *)
NoFilterMissed == Planning /\ ~input.crossed /\ ~input.lost => PlannedExactly

(* The same also if a variable of a filter is in an OPTIONAL and again in  *)
(* a later element.                                                        *)
FiltersStayBehind == Planning /\ input.loops <= 1 /\ ~input.lost => PlannedExactly

(* An OPTIONAL or a MINUS that is not ignored can be joined. *)
CandidateJoinFound == Planning => ~input.group.failed

PlanSpec == Start /\ [][ChoosePlan]_input
=============================================================================
