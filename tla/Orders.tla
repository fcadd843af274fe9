-------------------------------- MODULE Orders --------------------------------
(***************************************************************************)
(* sequence.hpp, optimize.hpp and color.hpp: topological orders, orders of *)
(* the nodes that later passes like, and colourings of graphs and of       *)
(* timelines.                                                              *)
(***************************************************************************)
EXTENDS Forests

---------------------------------------------------------------------------
(* sequence.hpp: Kahn's algorithm in waves, on the nodes of an acyclic     *)
(* graph or on the strongly connected components of any.                   *)

\* node_to_scc_map; NoNode for a node in no component
ComponentOf(components, n) ==
  IF \E c \in DOMAIN components : Contains(components[c], n)
  THEN CHOOSE c \in DOMAIN components : Contains(components[c], n)
  ELSE NoNode

\* the components the edges of component c lead to, in order, itself left out
Successions(components, rows, c) ==
  LET all == FlattenSeq([k \in DOMAIN components[c] |-> rows[components[c][k]]])
  IN  SelectSeq([k \in DOMAIN all |-> ComponentOf(components, all[k])],
                LAMBDA d : d \notin {c, NoNode})

\* the rows of what one wave unblocks: one entry for each edge
Condensed(components, rows) ==
  [c \in DOMAIN components |-> Successions(components, rows, c)]

---------------------------------------------------------------------------
InDegree(rows, n) ==
  Cardinality({k \in DOMAIN EdgesOfRows(rows) : EdgesOfRows(rows)[k][2] = n})

\* mutant: a node is queued with its first edge
UnblockedEarly(s, n) ==
  [s EXCEPT !.degree[n] = @ - 1,
            !.queue = IF Contains(@, n) THEN @ ELSE Append(@, n)]

\* an edge to n is removed, n is queued with its last one
Unblocked(s, n) ==
  [s EXCEPT !.degree[n] = @ - 1,
            !.queue = IF s.degree[n] = 1 THEN Append(@, n) ELSE @]

RECURSIVE RunWaves(_, _)
RunWaves(rows, s) ==
  IF s.tail = Len(s.queue) THEN s
  ELSE LET wave == SubSeq(s.queue, s.tail + 1, Len(s.queue))
           Leave(t, n) == FoldLeft(Unblocked, t, rows[n])
           Numbered(t) == [t EXCEPT !.number = [n \in Range(wave) |-> s.waves + 1] @@ @]
       IN  RunWaves(rows, Numbered(FoldLeft(Leave,
             [s EXCEPT !.tail = Len(s.queue), !.waves = @ + 1], wave)))

Kahn(rows) ==
  LET degree == [n \in NodesOf(rows) |-> InDegree(rows, n)]
  IN  RunWaves(rows, [degree |-> degree, tail |-> 0, waves |-> 0,
                      number |-> [n \in NodesOf(rows) |-> 0],
                      queue |-> SelectSeq(UpTo(NodeCount(rows)), LAMBDA n : degree[n] = 0)])

\* calculate_acyclic_graph_sequenced_components and the topological sorts: the
\* wave of each node, and the nodes in order (of cycles none)
AcyclicSequence(rows) ==
  LET k == Kahn(rows) IN [number |-> k.number, order |-> k.queue, waves |-> k.waves]

\* calculate_graph_sequenced_components: the number of a node in a cycle is
\* negative
SequencedBy(k, components, rows) ==
  LET Cyclic(n, c) == Len(components[c]) > 1 \/ Contains(rows[n], n)
      Number(n, c) == CASE c = NoNode -> 0
                        [] c # NoNode /\ Cyclic(n, c)  -> -k.number[c]
                        [] c # NoNode /\ ~Cyclic(n, c) -> k.number[c]
  IN  [number |-> [n \in NodesOf(rows) |-> Number(n, ComponentOf(components, n))],
       order  |-> k.queue, waves |-> k.waves]
SequencedComponents(components, rows) ==
  SequencedBy(Kahn(Condensed(components, rows)), components, rows)

\* calculate_graph_topo_sequenced_components: the components in the order of
\* the waves
TopoComponentOrder(components, rows) ==
  WithNodesOrdered(components, SequencedComponents(components, rows).order)
---------------------------------------------------------------------------
(* optimize.hpp *)

\* trim_to_directed_graph_edges
Trimmed(rows, kept) == [i \in NodesOf(rows) |-> SelectSeq(rows[i], LAMBDA j : <<i, j>> \in kept)]

\* organize_graph_edges, by a key of the nodes
Organized(rows, key) ==
  [i \in NodesOf(rows) |-> SortSeq(rows[i], LAMBDA j, k : key[j] < key[k])]

\* optimize_transformer_ordering and optimize_transformer_ordering_graph: the
\* nodes by key, and the graph with nodes and edges in that order
TransformerOrder(key) ==
  SortSeq(UpTo(Cardinality(DOMAIN key)), LAMBDA i, j : key[i] < key[j])
TransformerOrdered(rows, key) ==
  Transformed(Organized(rows, key), TransformerOrder(key))

\* optimize_maximum_bucket_ordering: one list for each bucket, highest first
BucketOrder(order, bucket, max) ==
  FlattenSeq([k \in 1 .. max + 1 |-> SelectSeq(order, LAMBDA n : bucket[n] = max + 1 - k)])

\* optimize_maximum_degree_ordering
DegreeOrder(rows, order) ==
  BucketOrder(order, [n \in NodesOf(rows) |-> Len(rows[n])], Len(EdgesOfRows(rows)))

---------------------------------------------------------------------------
(* optimize_maximum_cardinality_search_ordering, on graphs without parallel *)
(* edges: lists[p] are the nodes with p placed neighbours, latest first.    *)

WithNeighbourPlaced(s, n) ==
  IF s.priority[n] = NoNode THEN s      \* placed
  ELSE LET p == s.priority[n]
       IN  [s EXCEPT !.lists[p] = SelectSeq(@, LAMBDA m : m # n),
                     !.lists[p + 1] = <<n>> \o @,
                     !.priority[n] = p + 1]

RECURSIVE PlaceNext(_, _)
PlaceNext(rows, s) ==
  LET filled == {p \in DOMAIN s.lists : s.lists[p] # <<>>}
      high   == CHOOSE p \in filled : \A q \in filled : q <= p
      node   == Head(s.lists[high])
      placed == [s EXCEPT !.lists[high] = Tail(@), !.priority[node] = NoNode,
                          !.order = Append(@, node)]
  IN  IF filled = {} THEN s.order
      ELSE PlaceNext(rows, FoldLeft(WithNeighbourPlaced, placed, Reverse(rows[node])))

MaximumCardinalityOrder(rows, order) ==
  PlaceNext(rows, [lists |-> [p \in 0 .. NodeCount(rows) |-> IF p = 0 THEN order ELSE <<>>],
                   priority |-> [n \in NodesOf(rows) |-> 0], order |-> <<>>])

---------------------------------------------------------------------------
(* color_graph_greedy_by_order: whether colour k may be used is a bit of   *)
(* the entry of node k, coloured or not.                                   *)

Flagged(s, rows, n, free) ==
  LET used == {s.colour[m] : m \in Range(rows[n])} \ {NoNode}
  IN  [s EXCEPT !.free = [k \in used |-> free] @@ @]

Coloured(s, rows, n) ==
  LET barred == Flagged(s, rows, n, FALSE)
      usable == {k \in 0 .. s.count - 1 : barred.free[k]}
      least  == IF usable = {} THEN s.count ELSE CHOOSE k \in usable : \A j \in usable : k <= j
  IN  [Flagged(barred, rows, n, TRUE) EXCEPT
         !.colour[n] = least, !.free[n] = TRUE, !.count = IF least = @ THEN @ + 1 ELSE @]

GreedyColours(rows, order) ==
  FoldLeft(LAMBDA s, n : Coloured(s, rows, n),
           [colour |-> [n \in NodesOf(rows) |-> NoNode],
            free |-> [n \in NodesOf(rows) |-> TRUE], count |-> 0], order)

\* color_chordal_graph
ChordalColours(rows) ==
  GreedyColours(rows, MaximumCardinalityOrder(rows, UpTo(NodeCount(rows))))

---------------------------------------------------------------------------
(* color_timeline: timelines are <<begin, length>>; an end is met before   *)
(* the beginnings of its time, and its colour is the next one given.       *)

Events(timelines) ==
  LET events == {[at |-> timelines[i][1] + (IF begins THEN 0 ELSE timelines[i][2]),
                  begins |-> begins, of |-> i] :
                   begins \in BOOLEAN, i \in {j \in DOMAIN timelines : timelines[j][2] # 0}}
      Key(e) == <<e.at, IF e.begins THEN 1 ELSE 0, e.of>>
      Before(e, f) == LET a == Key(e)
                          b == Key(f)
                          d == CHOOSE k \in 1 .. 3 :
                                 (k = 3 \/ a[k] # b[k]) /\ \A j \in 1 .. k - 1 : a[j] = b[j]
                      IN  a[d] < b[d]
  IN  [k \in 1 .. Cardinality(events) |->
         CHOOSE e \in events : Cardinality({f \in events : Before(f, e)}) = k - 1]

\* mutant: the colour that ends is not given back
WithEventKept(s, e) ==
  IF ~e.begins THEN s
  ELSE [s EXCEPT !.colour[e.of] = s.count, !.count = @ + 1]

WithEvent(s, e) ==
  CASE ~e.begins -> [s EXCEPT !.free = Append(@, s.colour[e.of])]
    [] e.begins /\ s.free = <<>> -> [s EXCEPT !.colour[e.of] = s.count, !.count = @ + 1]
    [] e.begins /\ s.free # <<>> -> [s EXCEPT !.colour[e.of] = Last(s.free), !.free = Front(@)]

TimelineColours(timelines) ==
  FoldLeft(WithEvent, [colour |-> [i \in DOMAIN timelines |-> NoNode], free |-> <<>>, count |-> 0],
           Events(timelines))
==========================================================================
