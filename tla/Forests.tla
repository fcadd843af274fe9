------------------------------- MODULE Forests -------------------------------
(***************************************************************************)
(* basic_forest_t of csr.hpp, a graph packed into two arrays, and the      *)
(* permutations of bijective.hpp.  Nodes and edges are numbered from 0, as *)
(* the program does; the rows of a forest give each node the nodes it      *)
(* points at, in order.                                                    *)
(***************************************************************************)
EXTENDS Integers, SequencesExt, TLC

NoNode == -1     \* uintlen_t(-1)

NodesOf(rows) == DOMAIN rows
UpTo(n)       == [i \in 1 .. n |-> i - 1]        \* std::views::iota(0, n)
NodeCount(rows) == Cardinality(DOMAIN rows)

\* <<from, to>> of every edge, in the order of the rows
EdgesOfRows(rows) ==
  FlattenSeq([i \in 1 .. NodeCount(rows) |->
                [k \in 1 .. Len(rows[i - 1]) |-> <<i - 1, rows[i - 1][k]>>]])

\* make_basic_forest; with data, map_basic_forest_edges_data keeps it in place
MakeForest(rows) ==
  [edges  |-> [k \in DOMAIN EdgesOfRows(rows) |-> EdgesOfRows(rows)[k][2]],
   starts |-> [i \in NodesOf(rows) |->
                 Cardinality({k \in DOMAIN EdgesOfRows(rows) : EdgesOfRows(rows)[k][1] < i})]]

\* basic_index_range: the edges of node i, as indexes
EdgeRange(forest, i) ==
  LET end == IF i + 1 \in DOMAIN forest.starts THEN forest.starts[i + 1]
                                               ELSE Len(forest.edges)
  IN  [k \in 1 .. end - forest.starts[i] |-> forest.starts[i] + k - 1]

\* range
Rows(forest) ==
  [i \in DOMAIN forest.starts |->
     [k \in DOMAIN EdgeRange(forest, i) |-> forest.edges[EdgeRange(forest, i)[k] + 1]]]

EdgeTo(forest, e) == forest.edges[e + 1]

\* get_edge_from_opt: the last node that starts at the edge or before it
EdgeFrom(forest, e) ==
  Cardinality({i \in DOMAIN forest.starts : forest.starts[i] <= e}) - 1

---------------------------------------------------------------------------
(* A counting sort by target turns the edges round: counts, their sums, and *)
(* every edge placed just below the ones of its target placed before.       *)

\* map_make_basic_inv_forest_edges_bijection: from places to edges
InvertedEdges(targets) ==
  LET Place(k) == Cardinality({j \in DOMAIN targets : targets[j] <= targets[k]})
                    - Cardinality({j \in 1 .. k - 1 : targets[j] = targets[k]})
  IN  [p \in DOMAIN targets |-> CHOOSE k \in DOMAIN targets : Place(k) = p]

\* make_basic_inv_forest; the data of an edge, if any, moves with it
InverseForest(rows) ==
  LET all     == EdgesOfRows(rows)
      targets == [k \in DOMAIN all |-> all[k][2]]
      map     == InvertedEdges(targets)
  IN  [edges  |-> [p \in DOMAIN map |-> all[map[p]][1]],
       starts |-> [t \in NodesOf(rows) |-> Cardinality({k \in DOMAIN targets : targets[k] < t})]]

\* make_forest_given_parents_inludes: the children of a node, last one first
ForestOfParents(parents, included) ==
  LET children(p) == SelectSeq(UpTo(Cardinality(DOMAIN parents)),
                               LAMBDA c : parents[c] = p /\ c \in included)
  IN  [p \in DOMAIN parents |-> Reverse(children(p))]

---------------------------------------------------------------------------
\* range_bijective_inv
InverseOrder(order) == [j \in Range(order) |-> (CHOOSE k \in DOMAIN order : order[k] = j) - 1]

\* transform_node_only
WithNodesOrdered(rows, order) == [i \in NodesOf(rows) |-> rows[order[i + 1]]]

\* transform: nodes are renumbered by their place in the order
Transformed(rows, order) ==
  [i \in NodesOf(rows) |->
     [k \in DOMAIN rows[order[i + 1]] |-> InverseOrder(order)[rows[order[i + 1]][k]]]]

\* make_reorder_bijective_transform_indexies
Reordered(order, data) == [i \in DOMAIN order |-> data[order[i] + 1]]

\* reorder_range_bijective_transform_indexies: in place, one cycle of the
\* permutation after the other, its nodes turned into fixed points
RECURSIVE AlongCycle(_, _, _, _)
AlongCycle(s, first, i, at) ==
  LET next == s.order[at]
      done == [s.order EXCEPT ![at] = at]
  IN  IF next = i
      THEN [order |-> done, data |-> [s.data EXCEPT ![at] = first]]
      ELSE AlongCycle([order |-> done, data |-> [s.data EXCEPT ![at] = s.data[next]]],
                      first, i, next)
ReorderedInPlace(order, data) ==
  FoldLeft(LAMBDA s, i : AlongCycle(s, s.data[i], i, i),
           [order |-> [i \in DOMAIN order |-> order[i] + 1], data |-> data],
           [i \in DOMAIN order |-> i]).data


--------------------------------------------------------------------------
(***************************************************************************)
(* disjoint_set_union_t of dsu.hpp: a forest of parents in one array, with *)
(* ranks in a second half of it if there is room.                          *)
(***************************************************************************)
\* init: "rank" is a function on the members, or <<>> without the second half
EmptyUnion(members, ranked) ==
  [parent |-> [m \in members |-> m],
   rank   |-> [m \in (IF ranked THEN members ELSE {}) |-> 0]]
HasRanks(dsu)   == DOMAIN dsu.rank # {}
RankOf(dsu, m)  == IF HasRanks(dsu) THEN dsu.rank[m] ELSE 0

\* find_no_cache_root, and the nodes it passes
RECURSIVE Root(_, _), PathToRoot(_, _)
Root(dsu, m) ==
  IF dsu.parent[m] = m THEN m ELSE Root(dsu, dsu.parent[m])
PathToRoot(dsu, m) ==
  {m} \cup IF dsu.parent[m] = m THEN {} ELSE PathToRoot(dsu, dsu.parent[m])

\* cache_root_of_found, after find_no_cache_root (find_and_cache_root)
Cached(dsu, m) ==
  [dsu EXCEPT !.parent = [k \in PathToRoot(dsu, m) |-> Root(dsu, m)] @@ @]

\* the root "child" gets the parent "parent", ranks only grow on a tie
Joined(dsu, parent, child, tie) ==
  [parent |-> [dsu.parent EXCEPT ![child] = parent],
   rank   |-> IF tie /\ HasRanks(dsu) THEN [dsu.rank EXCEPT ![parent] = @ + 1]
              ELSE dsu.rank]

\* find_and_unite_root
United(dsu, i, j) ==
  LET found == Cached(Cached(dsu, i), j)
      a == Root(dsu, i)
      b == Root(dsu, j)
  IN  IF a = b THEN found
      ELSE IF RankOf(dsu, a) < RankOf(dsu, b)
           THEN Joined(found, b, a, FALSE)
           ELSE Joined(found, a, b, RankOf(dsu, a) = RankOf(dsu, b))

\* rankless_find_and_unite_root
UnitedUnder(dsu, parent, child) ==
  LET found == Cached(Cached(dsu, parent), child)
  IN  IF Root(dsu, parent) = Root(dsu, child) THEN found
      ELSE Joined(found, Root(dsu, parent), Root(dsu, child), FALSE)
==========================================================================
