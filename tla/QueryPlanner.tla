---------------------------- MODULE QueryPlanner ----------------------------
(***************************************************************************)
(* src/engine/QueryPlanner.cpp: how the plan for one group graph pattern   *)
(* is found.  A query execution tree is abstracted to what it returns: its *)
(* variables, its set of solutions, and the bag of the patterns that it    *)
(* reads.  Estimates are left out: where the code takes the cheapest or    *)
(* the smallest plan, any plan may be taken, and where it compares the     *)
(* number of subgraphs with the budget, both planners may run.  Operators  *)
(* that stand for such a choice return the set of all outcomes.            *)
(*                                                                         *)
(* Text search, spatial joins (with the filters that they substitute),     *)
(* path search and the sort order of plans are left out.                   *)
(***************************************************************************)
EXTENDS Integers, SequencesExt

---------------------------------------------------------------------------
(* Solutions are functions from the variables that are bound to values.    *)
Agree(r, s) == \A v \in DOMAIN r \intersect DOMAIN s : r[v] = s[v]

JoinSolutions(R, S) == {p[1] @@ p[2] : p \in {q \in R \X S : Agree(q[1], q[2])}}

LeftJoinSolutions(R, S) ==
    JoinSolutions(R, S) \union {r \in R : \A s \in S : ~Agree(r, s)}

MinusSolutions(R, S) ==
    {r \in R : \A s \in S : DOMAIN r \intersect DOMAIN s = {} \/ ~Agree(r, s)}

ExtendSolutions(R, target, source) ==
    {IF source \in DOMAIN r THEN r @@ (target :> r[source]) ELSE r : r \in R}

(* A filter whose variables are not all bound fails. *)
Holds(filter, r) ==
    /\ filter.vars \subseteq DOMAIN r
    /\ filter.op = "equal" => \A v, w \in filter.vars : r[v] = r[w]
    /\ filter.op = "notEqual" => \E v, w \in filter.vars : r[v] # r[w]

FilterSolutions(R, filters) == {r \in R : \A f \in filters : Holds(f, r)}

---------------------------------------------------------------------------
(* Query execution trees *)
NeutralElement == [vars |-> {}, rows |-> {<<>>}, leaves |-> EmptyBag]

InnerJoin(a, b) ==
    [vars   |-> a.vars \union b.vars,
     rows   |-> JoinSolutions(a.rows, b.rows),
     leaves |-> a.leaves (+) b.leaves]
OptionalTree(a, b) == [InnerJoin(a, b) EXCEPT !.rows = LeftJoinSolutions(a.rows, b.rows)]
MinusTree(a, b) ==
    [a EXCEPT !.rows = MinusSolutions(@, b.rows), !.leaves = @ (+) b.leaves]
BindTree(a, bind) ==
    [a EXCEPT !.vars = @ \union {bind.target},
              !.rows = ExtendSolutions(@, bind.target, bind.source)]

---------------------------------------------------------------------------
(* nodes and filters are _idsOfIncludedNodes and _idsOfIncludedFilters.    *)
SubtreePlan(qet) == [qet |-> qet, nodes |-> {}, filters |-> {}, type |-> "BASIC"]

mergeSubtreePlanIds(target, a, b) ==
    [target EXCEPT !.nodes = a.nodes \union b.nodes, !.filters = a.filters \union b.filters]

getJoinColumns(a, b) == a.qet.vars \intersect b.qet.vars

(* The vertices of the triple graph are the positions of the triples. *)
Vars(triple) == {triple.s, triple.o}
Adjacent(triples, i, j) == i # j /\ Vars(triples[i]) \intersect Vars(triples[j]) # {}

(* Mutant: plans that have a node in common are joined. *)
connected_Overlap(a, b, triples) ==
    /\ a.nodes \union b.nodes \subseteq DOMAIN triples
         => \E i \in a.nodes, j \in b.nodes \ a.nodes : Adjacent(triples, i, j)
    /\ getJoinColumns(a, b) # {}

connected(a, b, triples) ==
    /\ a.nodes \intersect b.nodes = {}
    /\ a.nodes \union b.nodes \subseteq DOMAIN triples
         => \E i \in a.nodes, j \in b.nodes \ a.nodes : Adjacent(triples, i, j)
    /\ getJoinColumns(a, b) # {}

createJoinCandidates(a, b) ==
    CASE getJoinColumns(a, b) = {} -> {}
      [] b.type = "MINUS"          -> {SubtreePlan(MinusTree(a.qet, b.qet))}
      [] b.type = "OPTIONAL"       -> {SubtreePlan(OptionalTree(a.qet, b.qet))}
      [] OTHER -> {mergeSubtreePlanIds(SubtreePlan(InnerJoin(a.qet, b.qet)), a, b)}

getPruningKey(plan) == <<plan.nodes, plan.filters>>

(* All ways to keep one of the plans with the same key. *)
Prune(candidates) ==
    FoldSet(LAMBDA key, rows :
                {row \union {c} : row \in rows, c \in {d \in candidates : getPruningKey(d) = key}},
            {{}}, {getPruningKey(c) : c \in candidates})

merge(as, bs, triples) ==
    Prune(UNION {createJoinCandidates(p[1], p[2])
                 : p \in {q \in as \X bs : connected(q[1], q[2], triples)}})

---------------------------------------------------------------------------
(* applyFiltersIfPossible: filters that a plan has already are skipped.    *)
ApplicableFilters(plan, filters) ==
    {i \in DOMAIN filters \ plan.filters : filters[i].vars \subseteq plan.qet.vars}

ApplyFilters(plan, filters, ids) ==
    [plan EXCEPT !.qet.rows = FilterSolutions(@, {filters[i] : i \in ids}),
                 !.filters = @ \union ids]

KeepUnfiltered(row, filters) ==
    row \union UNION {{ApplyFilters(plan, filters, {i}) : i \in ApplicableFilters(plan, filters)}
                      : plan \in row}

ReplaceUnfiltered(row, filters) ==
    {ApplyFilters(plan, filters, ApplicableFilters(plan, filters)) : plan \in row}

ApplyAllFilters(row, filters) ==
    {ApplyFilters(plan, filters, DOMAIN filters \ plan.filters) : plan \in row}

---------------------------------------------------------------------------
findUniqueNodeIds(row) == Cardinality({plan.nodes : plan \in row})

DpRows(k, tab, triples) ==
    FoldSet(LAMBDA i, rows : {r \union s : r \in rows, s \in merge(tab[i], tab[k - i], triples)},
            {{}}, 1 .. k \div 2)

(* A row that is empty fails a check; it stays empty here. *)
AddReplacements(row, replacements, k) ==
    IF row = {} THEN {} ELSE row \union {p \in replacements : Cardinality(p.nodes) = k}

RECURSIVE DpTabs(_, _, _, _, _)
DpTabs(k, component, filters, triples, replacements) ==
    IF k <= 1 THEN {<<component>>}
    ELSE UNION {{Append(tab, AddReplacements(row, replacements, k))
                 : row \in DpRows(k, tab, triples)}
                : tab \in {[t EXCEPT ![k - 1] = KeepUnfiltered(@, filters)]
                           : t \in DpTabs(k - 1, component, filters, triples, replacements)}}

(* The last rows; an empty one if a check has failed. *)
runDynamicProgrammingOnConnectedComponent(component, filters, triples, replacements) ==
    {IF {} \in Range(tab) THEN {} ELSE ReplaceUnfiltered(Last(tab), filters)
     : tab \in DpTabs(findUniqueNodeIds(component), component, filters, triples, replacements)}

(* current is currentPlans, best is nextBestPlan. *)
DisjointFrom(row, plan) == {p \in row : p.nodes \intersect plan.nodes = {}}

GreedyChoice(state, newPlans) ==
    IF newPlans = {} THEN {[current |-> {}, best |-> {}, cache |-> {}]}
    ELSE {[current |-> DisjointFrom(state.current \union state.best, plan),
           best    |-> {plan},
           cache   |-> DisjointFrom(state.cache \union newPlans, plan)]
          : plan \in state.cache \union newPlans}

GreedyStep(state, isFirst, filters, triples) ==
    UNION {GreedyChoice(state, ReplaceUnfiltered(row, filters))
           : row \in merge(state.current, IF isFirst THEN state.current ELSE state.best, triples)}

RECURSIVE GreedySteps(_, _, _, _)
GreedySteps(n, component, filters, triples) ==
    IF n = 0 THEN {[current |-> component, best |-> {}, cache |-> {}]}
    ELSE UNION {GreedyStep(state, n = 1, filters, triples)
                : state \in GreedySteps(n - 1, component, filters, triples)}

GreedyRows(component, filters, triples) ==
    IF findUniqueNodeIds(component) <= 1 THEN {component}
    ELSE {state.best : state \in GreedySteps(findUniqueNodeIds(component) - 1,
                                             component, filters, triples)}

runGreedyPlanningOnConnectedComponent(component, filters, triples) ==
    GreedyRows(ReplaceUnfiltered(component, filters), filters, triples)

---------------------------------------------------------------------------
(* The scan for a triple whose two variables are the same has a new        *)
(* variable, and a filter for it is added.                                 *)
NewVariable == <<"u1", "u2", "u3", "u4", "u5">>

IsLoop(triple) == triple.s = triple.o
Object(triple) == IF IsLoop(triple) THEN NewVariable[triple.leaf] ELSE triple.o

IndexScan(triple) ==
    [vars   |-> {triple.s, Object(triple)},
     rows   |-> {(triple.s :> pair[1]) @@ (Object(triple) :> pair[2]) : pair \in triple.pairs},
     leaves |-> SetToBag({triple.leaf})]

additionalFilters(triples) ==
    LET loops == SelectSeq(triples, IsLoop)
    IN  [i \in DOMAIN loops |-> [op |-> "equal", vars |-> {loops[i].s, Object(loops[i])}]]

(* The rows of children get numbers after those of the triples. *)
seedWithScans(triples, children) ==
    {[SubtreePlan(IndexScan(triples[i])) EXCEPT !.nodes = {i}] : i \in DOMAIN triples}
    \union UNION {{[plan EXCEPT !.nodes = {Len(triples) + k}] : plan \in children[k]}
                  : k \in DOMAIN children}

(* The scans of materialized views that return the join of two triples. *)
createMaterializedViewJoinReplacements(triples, views) ==
    {[SubtreePlan(InnerJoin(IndexScan(triples[p[1]]), IndexScan(triples[p[2]])))
        EXCEPT !.nodes = {p[1], p[2]}]
     : p \in {q \in (1 .. Len(triples)) \X (1 .. Len(triples)) :
                 <<triples[q[1]].name, triples[q[2]].name>> \in views}}

(* The components of the query graph *)
Neighbours(plans, seeds) == {q \in seeds : \E p \in plans : getJoinColumns(p, q) # {}}

RECURSIVE Component(_, _)
Component(plans, seeds) ==
    IF Neighbours(plans, seeds) \subseteq plans THEN plans
    ELSE Component(plans \union Neighbours(plans, seeds), seeds)

computeConnectedComponents(seeds) ==
    {Component({p \in seeds : p.nodes = seed.nodes}, seeds) : seed \in seeds}

findApplicableReplacementPlans(replacements, component) ==
    {p \in replacements : p.nodes \subseteq UNION {c.nodes : c \in component}}

(* For the greedy planner: those that are disjoint from all before them,   *)
(* in the unspecified order of the views; they take the place of plans.    *)
DisjointReplacements(replacements) ==
    {{order[i] : i \in {k \in DOMAIN order :
                          \A j \in 1 .. k - 1 : order[j].nodes \intersect order[k].nodes = {}}}
     : order \in SetToSeqs(replacements)}

prepareReplacementPlansForGreedyPlanner(replacements, component) ==
    {c \in component : \A p \in replacements : c.nodes \intersect p.nodes = {}} \union replacements

PlanGreedily(component, filters, triples, replacements) ==
    IF replacements = {} THEN runGreedyPlanningOnConnectedComponent(component, filters, triples)
    ELSE {r \union s :
            r \in runGreedyPlanningOnConnectedComponent(component, filters, triples),
            s \in UNION {runGreedyPlanningOnConnectedComponent(
                             prepareReplacementPlansForGreedyPlanner(rs, component),
                             filters, triples)
                         : rs \in DisjointReplacements(replacements)}}

PlanComponent(component, filters, triples, replacements) ==
    runDynamicProgrammingOnConnectedComponent(component, filters, triples, replacements)
    \union PlanGreedily(component, filters, triples, replacements)

(* CartesianProductJoin of one plan of each component *)
CartesianProducts(rowsOfComponents) ==
    FoldSet(LAMBDA rows, plans :
                {mergeSubtreePlanIds(SubtreePlan(InnerJoin(p.qet, q.qet)), p, q)
                 : p \in plans, q \in UNION rows},
            {SubtreePlan(NeutralElement)}, rowsOfComponents)

CombineComponents(rowsOfComponents, filters) ==
    CASE rowsOfComponents = {} -> {{}}
      [] \E rows \in rowsOfComponents : {} \in rows -> {{}}
      [] Cardinality(rowsOfComponents) = 1 ->
            {ReplaceUnfiltered(row, filters) : row \in UNION rowsOfComponents}
      [] OTHER -> {ReplaceUnfiltered({plan}, filters)
                   : plan \in CartesianProducts(rowsOfComponents)}

fillDpTab(seeds, filters, triples, replacements) ==
    CombineComponents(
        {PlanComponent(c, filters, triples, findApplicableReplacementPlans(replacements, c))
         : c \in computeConnectedComponents(seeds)}, filters)

---------------------------------------------------------------------------
(* GraphPatternPlanner: filters are those of rootPattern_, bound is        *)
(* boundVariables_, triples candidateTriples_, plans candidatePlans_;      *)
(* failed says that a check of the code has failed.                        *)
GraphPatternPlanner(filters) ==
    [filters |-> filters, bound |-> {}, triples |-> <<>>, plans |-> <<>>, failed |-> FALSE]

Seeds(g) == seedWithScans(g.triples, g.plans)

optimizeCommutatively(g, views) ==
    {[g EXCEPT !.plans = <<row>>, !.triples = <<>>, !.failed = row = {} /\ Seeds(g) # {}]
     : row \in fillDpTab(Seeds(g), g.filters \o additionalFilters(g.triples), g.triples,
                         createMaterializedViewJoinReplacements(g.triples, views))}

visitBasicGraphPattern(g, triple) ==
    {[g EXCEPT !.bound = @ \union Vars(triple), !.triples = Append(@, triple)]}

(* An unconnected OPTIONAL is joined with the neutral element. *)
NeutralOptional(plan) == SubtreePlan(OptionalTree(NeutralElement, plan.qet))

(* The join with an OPTIONAL or a MINUS: the filters that have been        *)
(* applied before are remembered.                                          *)
NextCandidates(row, child) ==
    UNION {{[plan EXCEPT !.filters = a.filters] : plan \in createJoinCandidates(a, child)}
           : a \in row}

JoinBehind(g, child) ==
    IF g.failed \/ NextCandidates(g.plans[1], child) = {} THEN {[g EXCEPT !.failed = TRUE]}
    ELSE {[g EXCEPT !.plans = <<{plan}>>] : plan \in NextCandidates(g.plans[1], child)}

(* Mutant: the numbers of the filters inside of the braces are kept. *)
ResetFilterIds_Kept(plan) == plan

ResetFilterIds(plan) == [plan EXCEPT !.filters = {}]

BindVars(g, vars) == [g EXCEPT !.bound = @ \union vars]

visitGroupOptionalOrMinus(g, child, views) ==
    CASE child.type = "BASIC" ->
            {[BindVars(g, child.qet.vars) EXCEPT !.plans = Append(@, {ResetFilterIds(child)})]}
      [] child.type = "MINUS" /\ child.qet.vars \intersect g.bound = {} ->
            {BindVars(g, child.qet.vars)}
      [] child.type = "OPTIONAL" /\ child.qet.vars \intersect g.bound = {} ->
            {[BindVars(g, child.qet.vars) EXCEPT !.plans = Append(@, {NeutralOptional(child)})]}
      [] OTHER ->
            UNION {JoinBehind(h, child)
                   : h \in optimizeCommutatively(BindVars(g, child.qet.vars), views)}

(* A BIND whose target is already bound is refused. *)
BindPlans(row, bind) ==
    IF row = {} THEN {SubtreePlan(BindTree(NeutralElement, bind))}
    ELSE {[SubtreePlan(BindTree(a.qet, bind)) EXCEPT !.filters = a.filters] : a \in row}

visitBind(g, bind, views) ==
    {[h EXCEPT !.plans[1] = BindPlans(@, bind)]
     : h \in optimizeCommutatively(BindVars(g, {bind.target}), views)}

(* The end of optimize: the row that is returned. *)
FinalRow(row, filters) ==
    ApplyAllFilters(IF row = {} THEN {SubtreePlan(NeutralElement)} ELSE row, filters)

optimize(g, views) ==
    {[h EXCEPT !.plans[1] = FinalRow(@, g.filters)] : h \in optimizeCommutatively(g, views)}
=============================================================================
