--------------------------- MODULE TransitivePath ---------------------------
(***************************************************************************)
(* Property paths: the edges of the path with their graphs, the searches   *)
(* from a start node, and the hull of all start nodes.  An edge is a       *)
(* record with the fields graph, start and target; without GRAPH clause    *)
(* its graph is UNDEFINED.                                                 *)
(***************************************************************************)
EXTENDS LazyOperations

---------------------------------------------------------------------------
(* BinSearchMap: the edges in their order, and the active ones *)

(* The edges of one graph, or all of them without GRAPH clause. *)
setGraphId(edges, graph) ==
    IF graph = UNDEFINED THEN edges ELSE SelectSeq(edges, LAMBDA e : e.graph = graph)

successors(active, node) ==
    LET matching == SelectSeq(active, LAMBDA e : e.start = node)
    IN  [n \in DOMAIN matching |-> matching[n].target]

(* The start nodes equal to node with their graphs, or all of them. *)
getEquivalentIdAndMatchingGraphs(edges, node) ==
    {[node |-> edges[n].start, graph |-> edges[n].graph] :
        n \in {n \in DOMAIN edges : node = UNDEFINED \/ edges[n].start = node}}

---------------------------------------------------------------------------
(* The searches.  target is <<>> or the node that is searched.             *)

RECURSIVE DfsLoop(_, _, _, _, _)
DfsLoop(active, target, stack, marks, connected) ==
    IF stack = <<>> THEN connected
    ELSE LET node == Last(stack)
             rest == Front(stack)
             found == target = <<node>>
         IN  IF node \in marks THEN DfsLoop(active, target, rest, marks, connected)
             ELSE IF found THEN {node}
             ELSE DfsLoop(active, target, rest \o successors(active, node),
                          marks \union {node},
                          IF target = <<>> THEN connected \union {node} ELSE connected)

depthFirstSearch(active, start, target, skipStartNodeInitially) ==
    DfsLoop(active, target,
            IF skipStartNodeInitially THEN successors(active, start) ELSE <<start>>, {}, {})

(* As if a node were never visited again. *)
Marked_AnyDistance(marks, node, dist) == node \in DOMAIN marks

(* marks has the lowest distance, from minDist on, at which a node was     *)
(* visited.                                                                *)
Marked(marks, node, dist) == node \in DOMAIN marks /\ marks[node] <= dist

Mark(marks, node, dist) ==
    IF Marked(marks, node, dist) THEN marks
    ELSE [n \in DOMAIN marks \union {node} |-> IF n = node THEN dist ELSE marks[n]]

RECURSIVE LimitedDfsLoop(_, _, _, _, _, _, _)
LimitedDfsLoop(active, target, minDist, maxDist, stack, marks, connected) ==
    IF stack = <<>> THEN connected
    ELSE LET node == Last(stack)[1]
             dist == Last(stack)[2]
             rest == Front(stack)
             counts == minDist <= dist
             marksNow == IF counts THEN Mark(marks, node, dist) ELSE marks
             next == SelectSeq(successors(active, node),
                               LAMBDA n : ~Marked(marksNow, n, dist + 1))
         IN  IF counts /\ maxDist < dist
             THEN LimitedDfsLoop(active, target, minDist, maxDist, rest, marks, connected)
             ELSE IF counts /\ target = <<node>> THEN {node}
             ELSE LimitedDfsLoop(active, target, minDist, maxDist,
                      rest \o [k \in DOMAIN next |-> <<next[k], dist + 1>>], marksNow,
                      IF counts /\ target = <<>> THEN connected \union {node} ELSE connected)

depthFirstSearchWithLimit(active, start, target, minDist, maxDist) ==
    LimitedDfsLoop(active, target, minDist, maxDist, << <<start, 0>> >>,
                   [n \in {} |-> 0], {})

runOptimalGraphSearch(active, start, target, minDist, maxDist) ==
    LET usesLimits == minDist # 0 \/ maxDist # MaxUint
        skipStartNodeInitially == minDist = 1 /\ maxDist = MaxUint
    IN  IF usesLimits /\ ~skipStartNodeInitially
        THEN depthFirstSearchWithLimit(active, start, target, minDist, maxDist)
        ELSE depthFirstSearch(active, start, target, skipStartNodeInitially)

---------------------------------------------------------------------------
(* The hull.  p has the edges, the distances, target (<<>> or a node), and *)
(* which variables are the same: both sides, or a side and the graph.      *)

(* A row of the start side: its node and its graph. *)
expandUndef(p, row) ==
    IF row.node = UNDEFINED \/ (p.hasGraph /\ row.graph = UNDEFINED)
    THEN getEquivalentIdAndMatchingGraphs(p.edges, row.node) ELSE {row}

transitiveHull(p, starts) ==
    {[start |-> s.node, graph |-> s.graph,
      targets |-> runOptimalGraphSearch(setGraphId(p.edges, s.graph), s.node,
                      IF p.sameVariable THEN <<s.node>>
                      ELSE IF p.endsWithGraphVariable THEN <<s.graph>> ELSE p.target,
                      p.minDist, p.maxDist)] :
        s \in {s \in starts : p.startsWithGraphVariable => s.node = s.graph}}

fillTableWithHull(hull) ==
    UNION {{[start |-> h.start, target |-> t, graph |-> h.graph] : t \in h.targets} : h \in hull}

(* For one row of a start side with variables; the rows do not affect each *)
(* other.                                                                  *)
computeTransitivePathBound(p, row) == fillTableWithHull(transitiveHull(p, expandUndef(p, row)))

(* Without start side: from all nodes with edges, or from a node. *)
computeTransitivePath(p, start) ==
    fillTableWithHull(transitiveHull(p, getEquivalentIdAndMatchingGraphs(p.edges, start)))
=============================================================================
