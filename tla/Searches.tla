------------------------------- MODULE Searches -------------------------------
(***************************************************************************)
(* search.hpp, scc.hpp, dijkstra.hpp, dom.hpp, idf.hpp and loop.hpp:       *)
(* breadth-first and depth-first traversals with explicit stacks, Tarjan's *)
(* strongly connected components, shortest paths and dominators.           *)
(***************************************************************************)
EXTENDS Forests

Lower(a, b)  == IF a < b THEN a ELSE b
Higher(a, b) == IF a > b THEN a ELSE b

---------------------------------------------------------------------------
(* calculate_breadth_first_levels_and_parent *)

RECURSIVE Broaden(_, _)
Broaden(rows, s) ==
  IF s.tail = Len(s.order) THEN s
  ELSE LET node == s.order[s.tail + 1]
           Meet(t, adj) ==
             IF t.level[adj] # 0 THEN t
             ELSE [t EXCEPT !.level[adj] = t.level[node] + 1, !.parent[adj] = node,
                            !.order = Append(@, adj)]
       IN  Broaden(rows, FoldLeft(Meet, [s EXCEPT !.tail = @ + 1], rows[node]))

BreadthFirst(rows, roots) ==
  LET Enter(s, root) ==
        IF s.level[root] # 0 THEN s
        ELSE Broaden(rows, [s EXCEPT !.level[root] = 1, !.order = Append(@, root)])
  IN  FoldLeft(Enter, [level |-> [n \in NodesOf(rows) |-> 0],
                       parent |-> [n \in NodesOf(rows) |-> NoNode],
                       order |-> <<>>, tail |-> 0], roots)

---------------------------------------------------------------------------
(* calculate_depth_first_intervals: while a node is open its end counts    *)
(* down over its edges, so no stack is kept beside the parents.  "met" are *)
(* the edges with their kind, in the order of the callbacks.               *)

Unvisited(rows) ==
  [begin |-> [n \in NodesOf(rows) |-> 0], end |-> [n \in NodesOf(rows) |-> 0],
   parent |-> [n \in NodesOf(rows) |-> NoNode], timer |-> 0, met |-> <<>>]

IsOpen(rows, s, n) == s.end[n] < 0 /\ -s.end[n] - 1 < Len(rows[n])

Kind(rows, s, node, adj) ==
  CASE s.begin[adj] = 0      -> "tree"
    [] s.begin[adj] # 0 /\ IsOpen(rows, s, adj) -> "back"
    [] s.begin[adj] # 0 /\ ~IsOpen(rows, s, adj) ->
         IF s.begin[node] <= s.begin[adj] THEN "forward" ELSE "cross"

RECURSIVE Deepen(_, _, _)
Deepen(rows, s, node) ==
  LET leaf  == -s.end[node]
      step  == [s EXCEPT !.end[node] = @ - 1,
                         !.begin[node] = IF leaf = 0 THEN s.timer + 1 ELSE @,
                         !.timer = IF leaf = 0 THEN @ + 1 ELSE @]
      adj   == rows[node][leaf + 1]
      kind  == Kind(rows, step, node, adj)
      seen  == [step EXCEPT !.met = Append(@, [from |-> node, to |-> adj, kind |-> kind])]
      leave == [step EXCEPT !.end[node] = step.timer + 1, !.timer = @ + 1]
  IN  IF leaf < Len(rows[node])
      THEN IF kind = "tree"
           THEN Deepen(rows, [seen EXCEPT !.parent[adj] = node], adj)
           ELSE Deepen(rows, seen, node)
      ELSE IF s.parent[node] = NoNode THEN leave
           ELSE Deepen(rows, leave, s.parent[node])

DepthFirst(rows, roots) ==
  LET Enter(s, root) == IF s.begin[root] # 0 THEN s ELSE Deepen(rows, s, root)
  IN  FoldLeft(Enter, Unvisited(rows), roots)

\* a is met before b and left after it
Encloses(s, a, b) ==
  s.begin[a] # 0 /\ s.begin[b] # 0 /\ s.begin[a] <= s.begin[b] /\ s.end[a] >= s.end[b]

---------------------------------------------------------------------------
(* calculate_dominance_intervals_given_dominators_and_forest: the same on  *)
(* the dominator trees, whose ends count up.  A node nothing dominates has *)
(* an interval of its own.                                                 *)

RECURSIVE Descend(_, _, _, _)
Descend(trees, idom, s, node) ==
  LET leaf == s.end[node]
      step == [s EXCEPT !.end[node] = @ + 1,
                        !.begin[node] = IF leaf = 0 THEN s.timer + 1 ELSE @,
                        !.timer = IF leaf = 0 THEN @ + 1 ELSE @]
      leave == [step EXCEPT !.end[node] = step.timer + 1, !.timer = @ + 1]
  IN  IF leaf < Len(trees[node]) THEN Descend(trees, idom, step, trees[node][leaf + 1])
      ELSE IF idom[node] \in {node, NoNode} THEN leave
           ELSE Descend(trees, idom, leave, idom[node])

DominanceIntervals(trees, idom) ==
  LET Enter(s, n) ==
        CASE idom[n] = NoNode ->
               [s EXCEPT !.begin[n] = s.timer + 1, !.end[n] = s.timer + 2, !.timer = @ + 2]
          [] idom[n] = n /\ s.begin[n] = 0 -> Descend(trees, idom, s, n)
          [] OTHER -> s
  IN  FoldLeft(Enter, Unvisited(idom), UpTo(Cardinality(DOMAIN idom)))

\* for_each_unreducibles_given_depth_first_and_dominance_intervals: the edges
\* that go back to a node met earlier on the path that does not dominate them
Unreducibles(rows, dominance, depth) ==
  {e \in Range(EdgesOfRows(rows)) :
     Encloses(depth, e[2], e[1]) /\ ~Encloses(dominance, e[2], e[1])}

---------------------------------------------------------------------------
(* calculate_strongly_connected_components_with_order: ordinals count up   *)
(* while a node is active and are negated when its component is complete.  *)

Discovered(s, n) ==
  [s EXCEPT !.ordinal[n] = s.counter + 1, !.lowest[n] = s.counter + 1,
            !.counter = @ + 1, !.active = Append(@, n)]

Completed(s, root) ==
  LET base == CHOOSE k \in DOMAIN s.active : s.active[k] = root
      scc  == SubSeq(s.active, base, Len(s.active))
  IN  [s EXCEPT !.found = Append(@, scc), !.active = SubSeq(@, 1, base - 1),
                !.ordinal = [n \in Range(scc) |-> -s.ordinal[n]] @@ @]

RECURSIVE Component(_, _, _, _)
Component(rows, s, u, i) ==
  LET next  == rows[u][i + 1]
      after == IF s.lowest[u] = s.ordinal[u] THEN Completed(s, u) ELSE s
      call  == Last(after.calls)
  IN  IF i < Len(rows[u])
      THEN CASE s.ordinal[next] = 0 ->
                  Component(rows, Discovered([s EXCEPT !.calls = Append(@, <<u, i>>)], next),
                            next, 0)
             [] s.ordinal[next] > 0 ->
                  Component(rows, [s EXCEPT !.lowest[u] = Lower(@, s.ordinal[next])], u, i + 1)
             [] s.ordinal[next] < 0 -> Component(rows, s, u, i + 1)
      ELSE IF after.calls = <<>> THEN after
           ELSE Component(rows, [after EXCEPT !.calls = Front(@),
                                   !.lowest[call[1]] = Lower(@, after.lowest[u])],
                          call[1], call[2] + 1)

\* the components, those that reach no other first; the rows of a forest
FromZero(seq) == [k \in 0 .. Len(seq) - 1 |-> seq[k + 1]]
StronglyConnected(rows, order) ==
  LET Enter(s, n) ==
        IF s.ordinal[n] # 0 THEN s ELSE Component(rows, Discovered(s, n), n, 0)
      none  == [n \in NodesOf(rows) |-> 0]
  IN  FromZero(FoldLeft(Enter, [ordinal |-> none, lowest |-> none, counter |-> 0,
                                active |-> <<>>, calls |-> <<>>, found |-> <<>>], order).found)

\* calculate_strongly_connected_components_with_entry: round from the entry
OrderFrom(rows, entry) ==
  [k \in 1 .. NodeCount(rows) |-> (entry + k - 1) % NodeCount(rows)]

---------------------------------------------------------------------------
(* dijkstra.hpp: shortest paths over edges that weigh nothing or more.     *)
(* Every edge that lowers the distance of its target goes on a heap, and   *)
(* one that was overtaken meanwhile is stale when it comes off.  "ties"    *)
(* says which of two equal edges the heap gives first.                     *)

Infinity == 1000     \* distance_inf: more than the paths of any run weigh

\* The distances of edges stand after those of nodes.  The range the code makes
\* for them, iota(nsz, esz), is shorter and ill-formed with fewer edges than nodes;
\* here it is as long as it is read.
Unreached(forest, entry) ==
  [node |-> [n \in DOMAIN forest.starts |-> IF n = entry THEN 0 ELSE Infinity],
   edge |-> [e \in 0 .. Len(forest.edges) - 1 |-> Infinity],
   heap |-> {}, by |-> [n \in DOMAIN forest.starts |-> NoNode]]

\* An edge out of the node just entered: dropped or selected
Relaxed(s, forest, weight, e) ==
  LET to       == EdgeTo(forest, e)
      distance == s.node[EdgeFrom(forest, e)] + weight[e]
      weighed  == [s EXCEPT !.edge[e] = distance]
  IN  IF s.node[to] <= distance THEN weighed
      ELSE [weighed EXCEPT !.node[to] = distance, !.heap = @ \cup {e}, !.by[to] = e]

\* the edge that set the distance of its target
IsFresh(s, forest, e) == s.edge[e] = s.node[EdgeTo(forest, e)]

\* mutant: the heap gives the farthest edge
FarthestOf(s, ties) ==
  CHOOSE e \in s.heap : \A f \in s.heap :
    s.edge[e] > s.edge[f] \/ (s.edge[e] = s.edge[f] /\ ties * e <= ties * f)

NearestOf(s, ties) ==
  CHOOSE e \in s.heap : \A f \in s.heap :
    s.edge[e] < s.edge[f] \/ (s.edge[e] = s.edge[f] /\ ties * e <= ties * f)

\* calculate_shortest_positive_path_entry_edge_distance_events; "stop" is a
\* node whose entry ends the search, or NoNode
RECURSIVE EnterNode(_, _, _, _, _, _), NextNode(_, _, _, _, _)
EnterNode(s, forest, weight, ties, stop, n) ==
  IF n = stop THEN s
  ELSE NextNode(FoldLeft(LAMBDA t, e : Relaxed(t, forest, weight, e), s, EdgeRange(forest, n)),
                forest, weight, ties, stop)
NextNode(s, forest, weight, ties, stop) ==
  LET e == NearestOf(s, ties)
      popped == [s EXCEPT !.heap = @ \ {e}]
  IN  IF s.heap = {} THEN s
      ELSE IF IsFresh(s, forest, e)
           THEN EnterNode(popped, forest, weight, ties, stop, EdgeTo(forest, e))
           ELSE NextNode(popped, forest, weight, ties, stop)

\* calculate_shortest_positive_path_distanced: distances, and the parents
ShortestPaths(forest, entry, weight, ties) ==
  LET s == EnterNode(Unreached(forest, entry), forest, weight, ties, NoNode, entry)
  IN  [distance |-> s.node,
       parent   |-> [n \in DOMAIN s.by |->
                       IF s.by[n] = NoNode THEN NoNode ELSE EdgeFrom(forest, s.by[n])]]

RECURSIVE EdgesBack(_, _, _, _)
EdgesBack(s, forest, entry, n) ==
  IF n = entry THEN <<>>
  ELSE EdgesBack(s, forest, entry, EdgeFrom(forest, s.by[n])) \o <<s.by[n]>>

\* calculate_A_start_path: the edges of a path, none if there is no path
PathByPotential(forest, entry, exit, weight, potential, ties) ==
  LET reweighted == [e \in DOMAIN weight |->
                       weight[e] + potential[EdgeTo(forest, e)] - potential[EdgeFrom(forest, e)]]
      s == EnterNode(Unreached(forest, entry), forest, reweighted, ties, exit, entry)
  IN  IF entry = exit \/ s.node[exit] = Infinity THEN <<>> ELSE EdgesBack(s, forest, entry, exit)

-----------------------------------------------------------------------------
(* dom.hpp, idf.hpp and loop.hpp: immediate dominators by Lengauer and     *)
(* Tarjan's algorithm, and what is computed from them.  preds are the rows *)
(* of the inverse forest.                                                  *)

\* The depth-first part: ordinals, order and parents of what the entry reaches
RECURSIVE Discover(_, _, _)
Discover(rows, s, node) ==
  LET Meet(t, adj) == IF t.ordinal[adj] # NoNode THEN t
                      ELSE Discover(rows, [t EXCEPT !.parent[adj] = node], adj)
  IN  FoldLeft(Meet, [s EXCEPT !.ordinal[node] = Len(s.order), !.order = Append(@, node)],
               rows[node])

Discovery(rows, entry) ==
  LET none == [n \in NodesOf(rows) |-> NoNode]
  IN  Discover(rows, [ordinal |-> none, parent |-> none, order |-> <<>>], entry)

\* disjoint_set_union_path_find: the path up to the root is compressed; every
\* node on it gets the label of least semidominator among those above it
RECURSIVE PathUp(_, _)
PathUp(up, n) == IF up[n] = n THEN <<>> ELSE <<n>> \o PathUp(up, up[n])

\* mutant: the labels above are not taken over
CompressedBlind(f, n) ==
  LET path == PathUp(f.up, n)
  IN  IF path = <<>> THEN f
      ELSE [f EXCEPT !.up = [m \in Range(path) |-> f.up[Last(path)]] @@ @]

Compressed(f, n) ==
  LET path == PathUp(f.up, n)
      Least(m, above) == IF f.semi[above] < f.semi[f.label[m]] THEN above ELSE f.label[m]
      Relabel(labels, k) ==     \* from the top of the path down
        LET m == path[Len(path) + 1 - k]
            above == path[Len(path) + 2 - k]
        IN  IF k = 1 THEN labels ELSE [labels EXCEPT ![m] = Least(m, labels[above])]
  IN  IF path = <<>> THEN f
      ELSE [f EXCEPT !.label = FoldLeft(Relabel, f.label, [k \in DOMAIN path |-> k]),
                     !.up = [m \in Range(path) |-> f.up[Last(path)]] @@ @]

\* One node, last discovered first: its semidominator from its predecessors,
\* then the nodes that wait in the bucket of its parent
LookedAt(h, v, w) == [h EXCEPT !.semi[w] = Lower(@, h.semi[h.label[v]])]
Looked(preds, d, f, w) ==
  FoldLeft(LAMBDA g, v : IF d.ordinal[v] = NoNode THEN g ELSE LookedAt(Compressed(g, v), v, w),
           f, preds[w])
Linked(d, f, w) ==
  [f EXCEPT !.bucket[d.order[f.semi[w] + 1]] = <<w>> \o @, !.up[w] = d.parent[w]]
Dominated(h, v, parent) ==
  [h EXCEPT !.idom[v] = IF h.semi[h.label[v]] < h.semi[v] THEN h.label[v] ELSE parent]
Emptied(f, parent) ==
  FoldLeft(LAMBDA g, v : Dominated(Compressed(g, v), v, parent),
           [f EXCEPT !.bucket[parent] = <<>>], f.bucket[parent])
Semidominated(preds, d, f, w) == Emptied(Linked(d, Looked(preds, d, f, w), w), d.parent[w])

\* mutant: the nodes whose semidominator does not dominate them are left alone
Settled(d, f, w) == f.idom[w]

FinalDominator(d, f, w) ==
  IF f.idom[w] # d.order[f.semi[w] + 1] THEN f.idom[f.idom[w]] ELSE f.idom[w]

\* calculate_dominators_from_entry: NoNode for what the entry does not reach
DominatorsGiven(nodes, d, preds, entry) ==
  LET start == [semi |-> d.ordinal, up |-> [n \in nodes |-> n], label |-> [n \in nodes |-> n],
                bucket |-> [n \in nodes |-> <<>>],
                idom |-> [n \in nodes |-> IF n = entry THEN entry ELSE NoNode]]
  IN  FoldLeft(LAMBDA f, w : [f EXCEPT !.idom[w] = FinalDominator(d, f, w)],
               FoldLeft(LAMBDA f, w : Semidominated(preds, d, f, w), start,
                        Reverse(Tail(d.order))),
               Tail(d.order)).idom
DominatorsFrom(rows, preds, entry) ==
  DominatorsGiven(NodesOf(rows), Discovery(rows, entry), preds, entry)

\* make_dominator_forest_given_dominators
DominatorTrees(idom) == ForestOfParents(idom, {c \in DOMAIN idom : idom[c] \notin {c, NoNode}})

---------------------------------------------------------------------------
(* calculate_dominators_given_sorted_sccs_from_entry: component by         *)
(* component, each until nothing changes; a node's candidate is where the  *)
(* chains of its predecessors' dominators meet.                            *)

RECURSIVE MeetUp(_, _, _, _)
MeetUp(idom, rank, a, b) ==
  CASE a = b -> a
    [] rank[a] > rank[b] -> MeetUp(idom, rank, idom[a], b)
    [] rank[b] > rank[a] -> MeetUp(idom, rank, a, idom[b])

Candidate(idom, rank, preds, n) ==
  FoldLeft(LAMBDA c, p : CASE idom[p] = NoNode -> c
                           [] idom[p] # NoNode /\ c = NoNode -> p
                           [] idom[p] # NoNode /\ c # NoNode -> MeetUp(idom, rank, p, c),
           NoNode, preds[n])

\* one component, until its last round changes nothing
RECURSIVE Settle(_, _, _, _, _)
Settle(s, rank, preds, entry, scc) ==
  LET Improved(t, n) == IF n = entry THEN t
                        ELSE [t EXCEPT !.idom[n] = Candidate(t.idom, rank, preds, n)]
      next == FoldLeft(Improved, s, scc)
  IN  IF Len(scc) > 1 /\ next # s THEN Settle(next, rank, preds, entry, scc) ELSE next

DominatorsBySccs(components, preds, entry) ==
  LET order  == Reverse([k \in 1 .. NodeCount(components) |-> components[k - 1]])
      ranked == <<entry>> \o SelectSeq(FlattenSeq(order), LAMBDA n : n # entry)
      rank   == [n \in NodesOf(preds) |-> CHOOSE k \in DOMAIN ranked : ranked[k] = n]
      start  == [idom |-> [n \in NodesOf(preds) |-> IF n = entry THEN entry ELSE NoNode]]
  IN  FoldLeft(LAMBDA s, scc : Settle(s, rank, preds, entry, scc), start, order).idom

---------------------------------------------------------------------------
(* calculate_inverse_dominance_frontiers_given_dominators: the nodes whose *)
(* dominance ends just before y, listed last met first.                    *)

RECURSIVE RunUp(_, _, _, _)
RunUp(idom, list, runner, stop) ==
  IF runner \in {stop, NoNode} \/ Contains(list, runner) THEN list
  ELSE RunUp(idom, <<runner>> \o list, idom[runner], stop)

InverseFrontiers(idom, preds) ==
  [y \in NodesOf(preds) |->
     FoldLeft(LAMBDA list, p : RunUp(idom, list, p, IF idom[y] = y THEN NoNode ELSE idom[y]),
              <<>>, preds[y])]

\* calculate_dominance_frontiers_given_dominators, or from the edges and the
\* post dominators
Frontiers(idom, preds) == Rows(InverseForest(InverseFrontiers(idom, preds)))

\* calculate_iterated_dominance_frontiers_given_dominance_frontiers
RECURSIVE IterateFrontiers(_, _)
IterateFrontiers(frontiers, s) ==
  IF s.head = Len(s.work) THEN s.found
  ELSE LET Meet(t, n) == [t EXCEPT !.found = IF Contains(@, n) THEN @ ELSE Append(@, n),
                                   !.work  = IF Contains(@, n) THEN @ ELSE Append(@, n)]
       IN  IterateFrontiers(frontiers,
             FoldLeft(Meet, [s EXCEPT !.head = @ + 1], frontiers[s.work[s.head + 1]]))

IteratedFrontiers(frontiers, definitions) ==
  LET known == SelectSeq(definitions, LAMBDA n : n \in NodesOf(frontiers))
      Once(work, n) == IF Contains(work, n) THEN work ELSE Append(work, n)
  IN  IterateFrontiers(frontiers, [head |-> 0, found |-> <<>>,
                                   work |-> FoldLeft(Once, <<>>, known)])

---------------------------------------------------------------------------
(* calculate_natural_loops_with_header_given_dominance_intervals: header,  *)
(* then the sources of back edges, then the rest, stack order.             *)

\* the predecessors of a node that the header dominates
Inside(preds, intervals, header, node) ==
  SelectSeq(preds[node], LAMBDA p : Encloses(intervals, header, p))

RECURSIVE LoopBody(_, _, _, _, _)
LoopBody(preds, intervals, header, loop, stack) ==
  IF stack = <<>> THEN loop
  ELSE LET curr == Last(stack)
           Take(s, p) == IF Contains(s[1], p) THEN s ELSE <<Append(s[1], p), Append(s[2], p)>>
           took == FoldLeft(Take, <<loop, Front(stack)>>, Inside(preds, intervals, header, curr))
       IN  LoopBody(preds, intervals, header, took[1], took[2])

LoopOf(preds, intervals, header) ==
  LET back == Inside(preds, intervals, header, header)
      Take(l, u) == IF Contains(l, u) THEN l ELSE Append(l, u)
      start == FoldLeft(Take, <<header>>, back)
  IN  IF back = <<>> THEN <<>>
      ELSE LoopBody(preds, intervals, header, start, Tail(start))

\* the loops of all headers, in order; with empty rows for the other nodes if
\* asked for
NaturalLoops(preds, intervals, zeroSized) ==
  SelectSeq([k \in 1 .. NodeCount(preds) |-> LoopOf(preds, intervals, k - 1)],
            LAMBDA l : zeroSized \/ l # <<>>)

\* calculate_nesting_of_natural_loop_headers: smaller loops first, and among
\* those of one size the last one first
Nesting(loops, nodes) ==
  LET By(size) == Reverse(SelectSeq([k \in DOMAIN loops |-> k],
                                    LAMBDA k : Len(loops[k]) = size))
      order == FlattenSeq([z \in 1 .. Cardinality(nodes) |-> By(z)])
      Holds(s, head, n) ==
        LET inner == s.inner[n]
        IN  CASE inner = NoNode -> [s EXCEPT !.inner[n] = head]
              [] inner # NoNode /\ s.outer[inner] = head -> s
              [] inner # NoNode /\ s.outer[inner] # head ->
                   [s EXCEPT !.outer[inner] = head, !.nest[inner] = @ + 1]
  IN  FoldLeft(LAMBDA s, head : FoldLeft(LAMBDA t, n : Holds(t, head, n), s, loops[head]),
               [inner |-> [n \in nodes |-> NoNode], outer |-> [k \in DOMAIN loops |-> k],
                nest |-> [k \in DOMAIN loops |-> 0]], order)
=============================================================================
