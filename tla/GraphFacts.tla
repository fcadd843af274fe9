------------------------------ MODULE GraphFacts ------------------------------
(***************************************************************************)
(* What the graph algorithms promise, by definition and by search, and the *)
(* properties that hold their results against it.                          *)
(***************************************************************************)
EXTENDS Reach

RECURSIVE Spread(_, _, _)
Spread(graph, found, without) ==
  LET next == (found \cup UNION {Range(graph[n]) : n \in found}) \ without
  IN  IF next = found THEN found ELSE Spread(graph, next, without)
ReachedFrom(graph, n, without) == Spread(graph, {n} \ without, without)
Reaches(graph, u, v) == v \in ReachedFrom(graph, u, {})

Fresh == ~checker.built      \* the algorithms are judged once for each graph

AnsweredRightly(asked, u, v) ==
  asked.answer = Reaches(rows, u, v) /\ ~asked.checker.contradicted

\* Whatever was asked before and whatever the sketches are, can_reach says yes
\* if and only if there is a path, and no assertion on the way fails.
ReachabilityIsExact ==
  checker.built =>
    /\ ~checker.contradicted
    /\ \A u, v \in Nodes, extra \in BOOLEAN :
         AnsweredRightly(CanReach(checker, rows, u, v, extra), u, v)

---------------------------------------------------------------------------
(* csr.hpp, bijective.hpp, dsu.hpp *)

\* Turning a graph round keeps every edge, parallel ones as often, and lists the
\* sources in descending order; the node an edge leaves is found from its index;
\* renumbering by an order, sorting by a key, dropping one direction of symmetric
\* edges and permuting in place agree with the definition; and the joined sets are
\* those of nodes connected either way, with trees that are as large as the rank
\* of their root demands.
Mutual(graph) ==
  [i \in NodesOf(graph) |->
     SelectSeq(UpTo(NodeCount(graph)),
               LAMBDA j : j # i /\ (Contains(graph[i], j) \/ Contains(graph[j], i)))]

Occurrences(seq, x) == Cardinality({k \in DOMAIN seq : seq[k] = x})

ForestsKeepEdges ==
  LET forest  == MakeForest(rows)
      inverse == Rows(InverseForest(rows))
      order   == DegreeOrder(rows, UpTo(N))
      moved   == Transformed(rows, order)
      ordered == TransformerOrdered(rows, InverseOrder(order))
      halved  == Trimmed(Mutual(rows), {e \in Nodes \X Nodes : e[1] < e[2]})
      union   == UndirectedUnion(rows)
  IN  /\ Rows(forest) = rows
      /\ \A e \in 0 .. Len(forest.edges) - 1 :
           EdgesOfRows(rows)[e + 1] = <<EdgeFrom(forest, e), EdgeTo(forest, e)>>
      /\ \A u, v \in Nodes : Occurrences(inverse[v], u) = Occurrences(rows[u], v)
      /\ \A v \in Nodes : \A k \in 1 .. Len(inverse[v]) - 1 : inverse[v][k] >= inverse[v][k + 1]
      /\ Range(order) = Nodes
      /\ \A i, j \in Nodes : Occurrences(moved[i], j) = Occurrences(rows[order[i + 1]], order[j + 1])
      /\ \A i \in Nodes : ordered[i] = SortSeq(moved[i], LAMBDA j, k : j < k)
      /\ \A i, j \in Nodes : Contains(halved[i], j) <=> i < j /\ Contains(Mutual(rows)[i], j)
      /\ ReorderedInPlace(order, UpTo(N)) = Reordered(order, UpTo(N))
      /\ \A u, v \in Nodes : Root(union, u) = Root(union, v) <=> Reaches(Mutual(rows), u, v)
      /\ \A u \in Nodes : Root(union, u) = u =>
           Cardinality({v \in Nodes : Root(union, v) = u}) >= 2 ^ RankOf(union, u)
      /\ \A u, v \in Nodes : Root(Cached(union, u), v) = Root(union, v)

---------------------------------------------------------------------------
(* scc.hpp, sequence.hpp *)

SequencedRightly(components, sequenced, acyclic, topological) ==
  LET nodes(c)   == Range(components[c])
      wave(c)    == Higher(sequenced.number[components[c][1]], -sequenced.number[components[c][1]])
      leading(c) == {d \in DOMAIN components \ {c} :
                       \E u \in nodes(d), v \in nodes(c) : Contains(rows[u], v)}
      looping(u) == \E v \in Range(rows[u]) : Reaches(rows, v, u)
  IN  /\ \A u \in Nodes : Cardinality({c \in DOMAIN components : u \in nodes(c)}) = 1
      /\ \A c \in DOMAIN components : Len(components[c]) = Cardinality(nodes(c))
      /\ \A c \in DOMAIN components : \A u \in nodes(c) :
           nodes(c) = {v \in ReachedFrom(rows, u, {}) : Reaches(rows, v, u)}
      /\ \A c \in DOMAIN components : \A d \in leading(c) : d > c
      /\ \A c \in DOMAIN components :
           wave(c) = 1 + Max({0} \cup {wave(d) : d \in leading(c)})
      /\ \A u \in Nodes : (sequenced.number[u] < 0) <=> looping(u)
      /\ \A j, k \in DOMAIN topological : \A u \in Range(topological[j]), v \in Range(topological[k]) :
           Contains(rows[u], v) => j <= k
      /\ IF \E u \in Nodes : looping(u) THEN Len(acyclic.order) < N
         ELSE Range(acyclic.order) = Nodes /\ acyclic.number = sequenced.number
      /\ DOMAIN StronglyConnected(rows, OrderFrom(rows, 1)) = DOMAIN components
SequenceHolds(components) ==
  SequencedRightly(components, SequencedComponents(components, rows), AcyclicSequence(rows),
                   TopoComponentOrder(components, rows))

\* The components are the classes of nodes that reach each other, each listed
\* once and before the components that reach it; the wave of a component is one
\* more than the last wave of those that lead to it, whatever the number of edges
\* between them, and negative for the nodes of cycles only.  On acyclic graphs the
\* waves of the nodes are the same ones, and on others their order is short.
ComponentsAreSequenced == SequenceHolds(StronglyConnected(rows, UpTo(N)))

\* What all other algorithms start from: the packed graph and its components.
GraphsArePrepared == Fresh => ForestsKeepEdges /\ ComponentsAreSequenced

---------------------------------------------------------------------------
(* dom.hpp *)

Entry == 0
Preds == Rows(InverseForest(rows))
Entered == ReachedFrom(rows, Entry, {})

\* every path from the entry to b passes a; a node no path leads to is left to itself
Dominates(a, b) == a = b \/ (b \in Entered /\ b \notin ReachedFrom(rows, Entry, {a}))

IntervalsOf(idom) == DominanceIntervals(DominatorTrees(idom), idom)

DominatorsHold(idom, bySccs, intervals) ==
  LET above == [n \in Nodes |-> {d \in Entered \ {n} : Dominates(d, n)}]
  IN  /\ idom[Entry] = Entry
      /\ \A n \in Nodes \ Entered : idom[n] = NoNode
      /\ \A n \in Entered \ {Entry} : idom[n] \in above[n] /\ above[n] \ {idom[n]} = above[idom[n]]
      /\ bySccs = idom
      /\ \A a, b \in Nodes : Encloses(intervals, a, b) <=> Dominates(a, b)
DominatorsHoldOf(idom) ==
  DominatorsHold(idom, DominatorsBySccs(StronglyConnected(rows, OrderFrom(rows, Entry)), Preds, Entry),
                 IntervalsOf(idom))

---------------------------------------------------------------------------
(* idf.hpp, loop.hpp, and the intervals of search.hpp *)

RECURSIVE Grown(_, _)
Grown(frontiers, found) ==
  LET next == found \cup UNION {Range(frontiers[n]) : n \in found}
  IN  IF next = found THEN found ELSE Grown(frontiers, next)

FrontiersHold(frontiers, intervals, depth) ==
  LET forward == [n \in Nodes |-> IF n \in Entered
                                  THEN SelectSeq(rows[n], LAMBDA m : ~Dominates(m, n)) ELSE <<>>]
  IN  /\ \A x, y \in Nodes :
           Contains(frontiers[x], y) <=>
             (x = y \/ ~Dominates(x, y)) /\ \E p \in Range(Preds[y]) : Dominates(x, p)
      /\ \A x \in Nodes :
           Range(IteratedFrontiers(frontiers, <<x>>)) = Grown(frontiers, Range(frontiers[x]))
      /\ Len(depth.met) = Cardinality({k \in DOMAIN EdgesOfRows(rows) :
                                         EdgesOfRows(rows)[k][1] \in Entered})
      /\ \A e \in Range(depth.met) :
           CASE e.kind \in {"tree", "forward"} -> Encloses(depth, e.from, e.to)
             [] e.kind = "back"  -> Encloses(depth, e.to, e.from)
             [] e.kind = "cross" -> depth.end[e.to] < depth.begin[e.from]
      /\ Unreducibles(rows, intervals, depth) = {} <=>
           \A n \in Entered : \A m \in Range(forward[n]) : ~Reaches(forward, m, n)
FrontiersHoldOf(idom) ==
  FrontiersHold(Frontiers(idom, Preds), IntervalsOf(idom), DepthFirst(rows, <<Entry>>))

LoopsHold(loops, nesting) ==
  LET body(k)  == Range(loops[k])
      round(S) == {k \in DOMAIN loops : S \subseteq body(k)}
      back(h)  == {u \in Range(Preds[h]) : Dominates(h, u)}
  IN  /\ {loops[k][1] : k \in DOMAIN loops} = {h \in Nodes : back(h) # {}}
      /\ \A k \in DOMAIN loops :
           LET h == loops[k][1]
           IN  /\ Len(loops[k]) = Cardinality(body(k))
               /\ body(k) = {h} \cup {n \in Nodes : Dominates(h, n)
                               /\ back(h) \cap ReachedFrom(rows, n, {h}) # {}}
      /\ \A j, k \in DOMAIN loops :
           body(j) \cap body(k) = {} \/ body(j) \subseteq body(k) \/ body(k) \subseteq body(j)
      /\ \A n \in Nodes :
           IF round({n}) = {} THEN nesting.inner[n] = NoNode
           ELSE /\ nesting.inner[n] \in round({n})
                /\ \A k \in round({n}) : body(nesting.inner[n]) \subseteq body(k)
      /\ \A k \in DOMAIN loops :
           /\ nesting.nest[k] = Cardinality(round(body(k))) - 1
           /\ nesting.outer[k] \in round(body(k))
           /\ \A j \in round(body(k)) : body(j) \subseteq body(nesting.outer[k])
LoopsHoldOf(loops) == LoopsHold(loops, Nesting(loops, Nodes))

\* The dominator an algorithm gives a node is the nearest of its strict ones, by
\* either of the two, and the intervals enclose each other as the nodes dominate.
\* A frontier is where dominance ends, and the iterated one is closed under that.
\* The edges of a depth-first search have the kind their intervals say.  The graph
\* without edges into dominators has a cycle if and only if an edge goes back into
\* a loop that has another entry.  A loop has its header, the sources of its back
\* edges and what reaches them short of the header, each once.  Two loops are
\* disjoint or one is in the other; a node is given the innermost loop round it, a
\* loop the outermost round it and the number of loops round it.
DominanceOf(idom) ==
  /\ DominatorsHoldOf(idom) /\ FrontiersHoldOf(idom)
  /\ LoopsHoldOf(NaturalLoops(Preds, IntervalsOf(idom), FALSE))
DominanceIsRight == Fresh => DominanceOf(DominatorsFrom(rows, Preds, Entry))

---------------------------------------------------------------------------
(* dijkstra.hpp, and the levels of search.hpp *)

\* distances by relaxing every edge until nothing changes
RECURSIVE LeastFound(_, _, _)
LeastFound(edges, weight, distance) ==
  LET next == [n \in Nodes |->
                 Min({distance[n]} \cup {distance[edges[e + 1][1]] + weight[e] :
                        e \in {f \in DOMAIN weight : edges[f + 1][2] = n}})]
  IN  IF next = distance THEN distance ELSE LeastFound(edges, weight, next)

DistanceFrom(edges, weight, n) ==
  LeastFound(edges, weight, [m \in Nodes |-> IF m = n THEN 0 ELSE Infinity])

\* However the edges weigh and whichever of equals the heap gives first, the
\* distances are the least, a parent is the last step of a shortest path, and the
\* search led by the distances to the exit, cut off or not, ends with a shortest
\* path or with none if there is none.  With equal weights the levels of the
\* breadth-first search are the distances.
PathsAreShortest ==
  Fresh =>
    LET forest == MakeForest(rows)
        edges  == EdgesOfRows(rows)
        Weights == {[e \in 0 .. Len(edges) - 1 |-> (a * e + b) % 5] : a \in 1 .. 4, b \in {0}}
        Levels == BreadthFirst(rows, <<Entry>>).level
        Ones   == [e \in 0 .. Len(edges) - 1 |-> 1]
    IN  /\ \A n \in Nodes : LET d == DistanceFrom(edges, Ones, Entry)[n]
                            IN  Levels[n] = IF d = Infinity THEN 0 ELSE d + 1
        /\ \A weight \in Weights, ties \in {1, -1} :
             LET every == [n \in Nodes |-> DistanceFrom(edges, weight, n)]
                 least == every[Entry]
                 s     == ShortestPaths(forest, Entry, weight, ties)
             IN  /\ s.distance = least
                 /\ \A n \in Nodes :
                      IF n = Entry \/ least[n] = Infinity THEN s.parent[n] = NoNode
                      ELSE \E e \in DOMAIN weight : edges[e + 1] = <<s.parent[n], n>>
                                                   /\ least[n] = least[s.parent[n]] + weight[e]
                 /\ \A exit \in Nodes \ {Entry}, cut \in {0, 3} :
                      LET pot  == [n \in Nodes |-> Lower(every[n][exit], cut)]
                          path == PathByPotential(forest, Entry, exit, weight, pot, ties)
                          at(k) == IF k = 0 THEN Entry ELSE edges[path[k] + 1][2]
                      IN  IF least[exit] = Infinity THEN path = <<>>
                          ELSE /\ at(Len(path)) = exit
                               /\ \A k \in DOMAIN path : edges[path[k] + 1][1] = at(k - 1)
                               /\ least[exit] = FoldLeft(LAMBDA d, e : d + weight[e], 0, path)

---------------------------------------------------------------------------
(* optimize.hpp, color.hpp *)

\* a node whose neighbours in S all know each other can be taken off, and so on
RECURSIVE Chordal(_, _)
Chordal(graph, S) ==
  S = {} \/ \E n \in S :
    /\ \A a, b \in Range(graph[n]) \cap S : a = b \/ Contains(graph[a], b)
    /\ Chordal(graph, S \ {n})

\* Neighbours never share a colour and a node of degree d needs no more than d + 1
\* colours, in any order tried; in the order of maximum cardinality search a
\* chordal graph gets as few colours as its largest clique has nodes.  Timelines
\* (those the edges span) that overlap have different colours, as few as ever
\* overlap at a time.
ColoursAreProper ==
  Fresh =>
    LET graph    == Mutual(rows)
        orders   == {UpTo(N), DegreeOrder(graph, UpTo(N)), MaximumCardinalityOrder(graph, UpTo(N))}
        cliques  == {S \in SUBSET Nodes : \A a, b \in S : a = b \/ Contains(graph[a], b)}
        degree   == Max({Len(graph[n]) : n \in Nodes})
        times    == [k \in DOMAIN EdgesOfRows(rows) |->
                       LET e == EdgesOfRows(rows)[k]
                       IN  <<Lower(e[1], e[2]), Higher(e[1], e[2]) - Lower(e[1], e[2])>>]
        At(t)    == {k \in DOMAIN times : times[k][1] <= t /\ t < times[k][1] + times[k][2]}
        coloured == TimelineColours(times)
    IN  /\ \A order \in orders :
             LET c == GreedyColours(graph, order)
             IN  /\ Range(order) = Nodes
                 /\ \A u \in Nodes : c.colour[u] \in 0 .. c.count - 1
                 /\ \A u \in Nodes : \A v \in Range(graph[u]) : c.colour[u] # c.colour[v]
                 /\ c.count <= degree + 1
        /\ Chordal(graph, Nodes) =>
             ChordalColours(graph).count = Max({Cardinality(S) : S \in cliques})
        /\ \A t \in Nodes : \A j, k \in At(t) : j = k \/ coloured.colour[j] # coloured.colour[k]
        /\ coloured.count = Max({Cardinality(At(t)) : t \in Nodes})
        /\ \A k \in DOMAIN times : coloured.colour[k] = NoNode <=> times[k][2] = 0
==========================================================================
