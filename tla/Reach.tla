--------------------------------- MODULE Reach ---------------------------------
(***************************************************************************)
(* reachability_checker_t of reach.hpp, with what it is built from         *)
(* (calculate_too_much_t of algo.hpp).  The checker answers whether u      *)
(* reaches v from structure computed once: components, waves, dominators,  *)
(* one depth-first forest and sketches; what these leave open it finds by  *)
(* traversals whose results it keeps.                                      *)
(***************************************************************************)
EXTENDS Searches, Orders

CONSTANTS
  N,          \* the nodes are 0 .. N - 1
  MaxEdges,   \* bound on the edges of a graph
  MaxSimple,  \* the same for a graph without loops and parallel edges
  Draws       \* <<front, behind>>: what make_forward and make_backward may draw

Nodes == 0 .. N - 1

ASSUME ReachAssumption ==
  /\ N \in Nat \ {0} /\ MaxEdges \in Nat /\ MaxSimple \in Nat
  /\ Draws # {} /\ Draws \subseteq [Nodes -> 0 .. 60] \X [Nodes -> 0 .. 60]

VARIABLES
  rows,       \* range_of_range: for each node the targets of its edges, in order
  checker     \* the reachability_checker_t, or NotBuilt

vars == <<rows, checker>>

NotBuilt == [built |-> FALSE]

---------------------------------------------------------------------------
(* calculate_too_much_t::make.  A virtual node N points at the nodes of the *)
(* components of the first wave, and the dominators are taken from it.      *)

Sources(components, number) ==
  FlattenSeq([k \in 1 .. NodeCount(components) |->
                IF number[components[k - 1][1]] \in {1, -1} THEN components[k - 1] ELSE <<>>])

WithVirtualRoot(graph, sources) == [n \in 0 .. N |-> IF n = N THEN sources ELSE graph[n]]

WithoutRoot(idom) == [n \in Nodes |-> IF idom[n] = N THEN n ELSE idom[n]]
DominatorsOf(rooted) == WithoutRoot(DominatorsFrom(rooted, Rows(InverseForest(rooted)), N))

TooMuchOf(graph, components, sequenced) ==
  [components |-> components, number |-> sequenced.number, waves |-> sequenced.waves,
   idom |-> DominatorsOf(WithVirtualRoot(graph, Sources(components, sequenced.number)))]
TooMuchGiven(graph, components) ==
  TooMuchOf(graph, components, SequencedComponents(components, graph))
TooMuch(graph) == TooMuchGiven(graph, StronglyConnected(graph, UpTo(N)))

---------------------------------------------------------------------------
(* The sketches: bytes that only grow along an edge, for what a component  *)
(* reaches (front) and for what reaches it (behind).  One byte each way    *)
(* stands for the eight.                                                   *)

\* scc_dsu: the root of a component is the last of its nodes
ComponentRoots(components) ==
  LET Absorb(dsu, scc) == FoldLeft(LAMBDA d, n : UnitedUnder(d, Last(scc), n), dsu, scc)
  IN  FoldLeft(Absorb, EmptyUnion(Nodes, FALSE),
               [k \in 1 .. NodeCount(components) |-> components[k - 1]])

\* undirected_dsu
UndirectedUnion(graph) ==
  FoldLeft(LAMBDA d, e : United(d, e[1], e[2]), EmptyUnion(Nodes, TRUE), EdgesOfRows(graph))

\* tighten_forward and tighten_backward along the edges of one component after
\* the other
Tightened(order, neighbours, dsu, seed) ==
  LET Tighten(s, scc) ==
        LET root == Root(dsu, Last(scc))
            all  == FlattenSeq([k \in DOMAIN scc |-> neighbours[scc[k]]])
        IN  [s EXCEPT ![root] = FoldLeft(LAMBDA t, n : Higher(t, s[Root(dsu, n)]),
                                         seed[root], all)]
  IN  FoldLeft(Tighten, [n \in Nodes |-> 0], order)

\* representitive_power_impl, compared in this order
Power(front, behind, wave, waves) ==
  LET f == 2 ^ front
      b == 2 ^ behind
      w == IF wave < 0 THEN -wave ELSE wave
      off == (waves \div 2) - w
      width == CHOOSE k \in 0 .. 64 : 2 ^ k <= f + b /\ f + b < 2 ^ (k + 1)
  IN  <<(f * b) \div 2 ^ width, Lower(f, b), f * b,
        IF waves > 1 THEN waves - (IF off < 0 THEN -off ELSE off) ELSE 0>>
Weaker(a, b) == \E k \in 1 .. 4 : a[k] < b[k] /\ \A j \in 1 .. k - 1 : a[j] = b[j]

\* the strongest node a component reaches, by its neighbours' choices
Representatives(order, neighbours, dsu, power) ==
  LET Choose(s, scc) ==
        LET all  == FlattenSeq([k \in DOMAIN scc |-> neighbours[scc[k]]])
            Better(best, n) == LET cand == s[Root(dsu, n)]
                               IN  IF Weaker(power[best], power[cand]) THEN cand ELSE best
            final == FoldLeft(Better, Root(dsu, Last(scc)), all)
        IN  [n \in Range(scc) |-> final] @@ s
  IN  FoldLeft(Choose, [n \in Nodes |-> Root(dsu, n)], order)

\* The sketches of the constructor, and the representatives they make
Represented(c, graph, order, dsu, power) ==
  c @@ [frontRep |-> Representatives(order, graph, dsu, power),
        behindRep |-> Representatives(Reverse(order), c.preds, dsu, power)]
Powers(c, waves) == [n \in Nodes |-> Power(c.front[n], c.behind[n], c.number[n], waves)]
Sketched(c, graph, order, dsu, front, behind) ==
  c @@ [front |-> Tightened(order, graph, dsu, front),
        behind |-> Tightened(Reverse(order), c.preds, dsu, behind)]
WithSketches(c, graph, order, dsu, waves) == Represented(c, graph, order, dsu, Powers(c, waves))

\* What the constructor takes from the graph alone
Intervals(s) == [begin |-> s.begin, end |-> s.end]
RootsIn(dsu) == [n \in Nodes |-> Root(dsu, n)]
Structured(graph, much, dsu) ==
  [built      |-> TRUE,
   preds      |-> Rows(InverseForest(graph)),
   number     |-> much.number,
   roots      |-> RootsIn(dsu),
   together   |-> RootsIn(UndirectedUnion(graph)),
   dominance  |-> Intervals(DominanceIntervals(DominatorTrees(much.idom), much.idom)),
   depth      |-> Intervals(DepthFirst(graph, SelectSeq(UpTo(N),
                              LAMBDA n : much.number[n] \in {1, -1}))),
   cache      |-> {},
   traversed  |-> {},
   contradicted |-> FALSE]     \* an assertion of cache_reach or may_reach failed

\* The constructor; "front" and "behind" are what the generator draws
BuiltWith(graph, much, order, dsu, front, behind) ==
  WithSketches(Sketched(Structured(graph, much, dsu), graph, order, dsu, front, behind),
               graph, order, dsu, much.waves)
BuiltFrom(graph, much, front, behind) ==
  BuiltWith(graph, much,
            [k \in 1 .. NodeCount(much.components) |-> much.components[k - 1]],
            ComponentRoots(much.components), front, behind)
Built(graph, front, behind) == BuiltFrom(graph, TooMuch(graph), front, behind)

---------------------------------------------------------------------------
(* structured_may_reach, on the roots of components.  The finds of the     *)
(* program also shorten the paths to the roots, which changes no root.     *)

Wave(c, n) == Higher(c.number[n], -c.number[n])

StructuredMayReach(c, u, v) ==
  IF u = v THEN "yes"
  ELSE IF c.together[u] # c.together[v] \/ Wave(c, u) >= Wave(c, v) THEN "no"
  ELSE IF Encloses(c.dominance, u, v) THEN "yes"
  ELSE IF Encloses(c.dominance, v, u) THEN "no"
  ELSE IF Encloses(c.depth, u, v) THEN "yes"
  ELSE IF Encloses(c.depth, v, u) \/ c.front[u] < c.front[v] \/ c.behind[v] < c.behind[u]
       THEN "no"
  ELSE IF <<u, v>> \in c.cache THEN "yes"
  ELSE IF <<v, u>> \in c.cache \/ c.traversed \cap {u, v} # {} THEN "no"
  ELSE "idk"

---------------------------------------------------------------------------
(* may_reach asks the same of the strongest nodes u and v reach (fu, fv)   *)
(* and of the strongest that reach them (bu, bv), and draws conclusions.   *)
(* A rule: the dominances and the answers it needs, and what follows.      *)

Rules == <<
  [dom |-> {},            if |-> {<<"fu", "v", "yes">>},                        then |-> <<"u", "v", "yes">>],
  [dom |-> {},            if |-> {<<"fu", "bv", "yes">>},                       then |-> <<"u", "v", "yes">>],
  [dom |-> {},            if |-> {<<"u", "bv", "yes">>},                        then |-> <<"u", "v", "yes">>],
  [dom |-> {"fv"},        if |-> {<<"u", "fv", "yes">>, <<"v", "u", "no">>},    then |-> <<"u", "v", "yes">>],
  [dom |-> {},            if |-> {<<"fv", "u", "yes">>},                        then |-> <<"v", "u", "yes">>],
  [dom |-> {},            if |-> {<<"fv", "bu", "yes">>},                       then |-> <<"v", "u", "yes">>],
  [dom |-> {},            if |-> {<<"v", "bu", "yes">>},                        then |-> <<"v", "u", "yes">>],
  [dom |-> {"fu"},        if |-> {<<"v", "fu", "yes">>, <<"u", "v", "no">>},    then |-> <<"v", "u", "yes">>],
  [dom |-> {},            if |-> {<<"bu", "v", "no">>},                         then |-> <<"u", "v", "no">>],
  [dom |-> {},            if |-> {<<"u", "fv", "no">>},                         then |-> <<"u", "v", "no">>],
  [dom |-> {},            if |-> {<<"bu", "fv", "no">>},                        then |-> <<"u", "v", "no">>],
  [dom |-> {},            if |-> {<<"v", "u", "yes">>},                         then |-> <<"u", "v", "no">>],
  [dom |-> {},            if |-> {<<"fv", "bu", "yes">>},                       then |-> <<"u", "v", "no">>],
  [dom |-> {},            if |-> {<<"fv", "u", "yes">>},                        then |-> <<"u", "v", "no">>],
  [dom |-> {},            if |-> {<<"v", "bu", "yes">>},                        then |-> <<"u", "v", "no">>],
  [dom |-> {"bv"},        if |-> {<<"bv", "u", "no">>, <<"u", "bv", "no">>},    then |-> <<"u", "v", "no">>],
  [dom |-> {"bv", "bu"},  if |-> {<<"bv", "bu", "no">>, <<"bu", "bv", "no">>},  then |-> <<"u", "v", "no">>],
  [dom |-> {},            if |-> {<<"bv", "u", "no">>},                         then |-> <<"v", "u", "no">>],
  [dom |-> {},            if |-> {<<"v", "fu", "no">>},                         then |-> <<"v", "u", "no">>],
  [dom |-> {},            if |-> {<<"bv", "fu", "no">>},                        then |-> <<"v", "u", "no">>],
  [dom |-> {},            if |-> {<<"u", "v", "yes">>},                         then |-> <<"v", "u", "no">>],
  [dom |-> {},            if |-> {<<"fu", "bv", "yes">>},                       then |-> <<"v", "u", "no">>],
  [dom |-> {},            if |-> {<<"fu", "v", "yes">>},                        then |-> <<"v", "u", "no">>],
  [dom |-> {},            if |-> {<<"u", "bv", "yes">>},                        then |-> <<"v", "u", "no">>],
  [dom |-> {"bu"},        if |-> {<<"bu", "v", "no">>, <<"v", "bu", "no">>},    then |-> <<"v", "u", "no">>],
  [dom |-> {"bu", "bv"},  if |-> {<<"bu", "bv", "no">>, <<"bv", "bu", "no">>},  then |-> <<"v", "u", "no">>],
  [dom |-> {"bv"},        if |-> {<<"bv", "fu", "no">>, <<"fu", "v", "yes">>},  then |-> <<"fu", "bv", "yes">>],
  [dom |-> {"bu"},        if |-> {<<"bu", "fv", "no">>, <<"fv", "u", "yes">>},  then |-> <<"fv", "bu", "yes">>],
  [dom |-> {"bv"},        if |-> {<<"bv", "bu", "no">>, <<"bu", "bv", "no">>},  then |-> <<"bu", "v", "no">>],
  [dom |-> {},            if |-> {<<"bu", "fv", "no">>},                        then |-> <<"u", "fv", "no">>],
  [dom |-> {},            if |-> {<<"bu", "fv", "no">>},                        then |-> <<"bu", "v", "no">>],
  [dom |-> {},            if |-> {<<"bu", "bv", "no">>},                        then |-> <<"u", "bv", "no">>],
  [dom |-> {},            if |-> {<<"bv", "fu", "no">>},                        then |-> <<"v", "fu", "no">>],
  [dom |-> {},            if |-> {<<"bv", "fu", "no">>},                        then |-> <<"bv", "u", "no">>],
  [dom |-> {},            if |-> {<<"bv", "bu", "no">>},                        then |-> <<"v", "bu", "no">>],
  [dom |-> {"bv"},        if |-> {<<"u", "v", "yes">>, <<"bv", "u", "no">>},    then |-> <<"u", "bv", "yes">>],
  [dom |-> {"bu"},        if |-> {<<"v", "u", "yes">>, <<"bu", "v", "no">>},    then |-> <<"v", "bu", "yes">>] >>

Roles  == {"u", "v", "fu", "bu", "fv", "bv"}

\* The first rule that says something new is applied, until u and v are settled
\* or no rule is left.  A rule that contradicts what is known fails an assertion.
Sure(answer) == [answer |-> answer, wrong |-> FALSE]
Target(r) == <<r.then[1], r.then[2]>>
\* the rules that apply, in order, up to the first one that says something new
ApplyingRules(rules, known, dominating) ==
  LET applying == SelectSeq(rules, LAMBDA r : /\ r.dom \subseteq dominating
                                              /\ \A p \in r.if : known[<<p[1], p[2]>>] = p[3])
      says(r) == known[Target(r)] = "idk"
  IN  SubSeq(applying, 1, IF \E k \in DOMAIN applying : says(applying[k])
                          THEN CHOOSE k \in DOMAIN applying :
                                 says(applying[k]) /\ \A j \in 1 .. k - 1 : ~says(applying[j])
                          ELSE Len(applying))

RECURSIVE Inferred(_, _)
InferredBy(applied, known, dominating) ==
  LET wrong == \E k \in DOMAIN applied : known[Target(applied[k])] \notin {"idk", applied[k].then[3]}
  IN  IF wrong \/ applied = <<>> \/ known[Target(Last(applied))] # "idk"
      THEN [answer |-> "idk", wrong |-> wrong]
      ELSE Inferred([known EXCEPT ![Target(Last(applied))] = Last(applied).then[3]], dominating)
Inferred(known, dominating) ==
  IF known[<<"u", "v">>] # "idk" THEN Sure(known[<<"u", "v">>])
  ELSE InferredBy(ApplyingRules(Rules, known, dominating), known, dominating)

\* on the roots u and v
NodesOfRoles(c, u, v) ==
  [u |-> u, v |-> v,
   fu |-> Root([parent |-> c.frontRep], u), bu |-> Root([parent |-> c.behindRep], u),
   fv |-> Root([parent |-> c.frontRep], v), bv |-> Root([parent |-> c.behindRep], v)]
KnownOf(c, node) ==
  [p \in Roles \X Roles |-> StructuredMayReach(c, c.roots[node[p[1]]], c.roots[node[p[2]]])]
\* the representatives that dominate, or are dominated, as the rules want it
DominatingOf(c, node) ==
  {r \in {"bv", "bu"} : Encloses(c.dominance, node[r], IF r = "bv" THEN node.v ELSE node.u)}
  \cup {r \in {"fv", "fu"} : Encloses(c.dominance, IF r = "fv" THEN node.v ELSE node.u, node[r])}
AnsweredFrom(c, node, known) ==
  CASE known[<<"u", "v">>] # "idk" -> Sure(known[<<"u", "v">>])
    [] OTHER ->
         IF node.fu \in {node.bv, node.v} \/ node.bv = node.u THEN Sure("yes")
         ELSE IF node.fv \in {node.bu, node.u} \/ node.bu = node.v THEN Sure("no")
         ELSE IF known[<<"v", "u">>] = "yes" THEN Sure("no")
         ELSE Inferred(known, DominatingOf(c, node))
MayReachBy(c, node) == AnsweredFrom(c, node, KnownOf(c, node))
MayReach(c, u, v) == MayReachBy(c, NodesOfRoles(c, u, v))

---------------------------------------------------------------------------
(* traverse: a depth-first search from a root and one to it; cache_reach   *)
(* keeps what structure does not know and asserts it does not deny it.     *)

WithAnswers(c, says) ==
  [c EXCEPT !.cache = @ \cup {p \in DOMAIN says : says[p] = "idk"},
            !.contradicted = @ \/ \E p \in DOMAIN says : says[p] = "no"]
WithReach(c, pairs) ==
  WithAnswers(c, [p \in {<<c.roots[q[1]], c.roots[q[2]]>> : q \in pairs} |->
                    StructuredMayReach(c, p[1], p[2])])

\* the pairs a search from the root finds
FoundAhead(s, root) ==
  {<<root, n>> : n \in {m \in Nodes : s.begin[m] # 0}} \cup {<<e.from, e.to>> : e \in Range(s.met)}
Backwards(pairs) == {<<p[2], p[1]>> : p \in pairs}

\* mutant: only the search from the root is made
TraversedForward(c, graph, root) ==
  [WithReach(c, FoundAhead(DepthFirst(graph, <<root>>), root)) EXCEPT !.traversed = @ \cup {root}]

Traversed(c, graph, root) ==
  IF root \in c.traversed THEN c
  ELSE [WithReach(WithReach(c, FoundAhead(DepthFirst(graph, <<root>>), root)),
                  Backwards(FoundAhead(DepthFirst(c.preds, <<root>>), root)))
          EXCEPT !.traversed = @ \cup {root}]

\* traverse_representitives
RepresentativesTraversed(c, graph, n) ==
  Traversed(Traversed(c, graph, c.roots[Root([parent |-> c.frontRep], n)]),
            graph, c.roots[Root([parent |-> c.behindRep], n)])

\* can_reach: the answer, and the checker after it
Asked(c, m) == [c EXCEPT !.contradicted = @ \/ m.wrong]

\* ... by traversals from and to the nodes themselves,
Answer(c, m) == [answer |-> m.answer = "yes", checker |-> Asked(c, m)]
AnswerNow(c, u, v) == Answer(c, MayReach(c, u, v))
AnswerByTraversal(c, graph, u, v) == AnswerNow(Traversed(Traversed(c, graph, u), graph, v), u, v)

\* ... after those of their representatives, if asked for,
AnswerOr(c, m, graph, u, v) ==
  IF m.answer # "idk" THEN Answer(c, m) ELSE AnswerByTraversal(Asked(c, m), graph, u, v)
AnswerHelped(c, graph, u, v) == AnswerOr(c, MayReach(c, u, v), graph, u, v)
Helped(c, graph, u, v) ==
  RepresentativesTraversed(RepresentativesTraversed(c, graph, v), graph, u)

\* ... or from what is known already
AnswerFrom(c, m, graph, u, v, extra) ==
  CASE m.answer # "idk" -> Answer(c, m)
    [] m.answer = "idk" /\ extra -> AnswerHelped(Helped(Asked(c, m), graph, u, v), graph, u, v)
    [] m.answer = "idk" /\ ~extra -> AnswerByTraversal(Asked(c, m), graph, u, v)
CanReachRoots(c, graph, u, v, extra) == AnswerFrom(c, MayReach(c, u, v), graph, u, v, extra)
CanReach(c, graph, from, to, extra) ==
  CanReachRoots(c, graph, c.roots[from], c.roots[to], extra)

---------------------------------------------------------------------------
Init == rows = [n \in Nodes |-> <<>>] /\ checker = NotBuilt

\* The graphs a client may hand over, one edge after the other, the targets of
\* a node in ascending order, some of them more than once
IsSimple(graph) ==
  \A n \in Nodes : \A j, k \in DOMAIN graph[n] :
    graph[n][k] # n /\ (graph[n][j] = graph[n][k] => j = k)

AddEdge ==
  /\ ~checker.built
  /\ \E u, v \in Nodes :
       /\ \A k \in DOMAIN rows[u] : rows[u][k] <= v
       /\ rows' = [rows EXCEPT ![u] = Append(@, v)]
  /\ Len(EdgesOfRows(rows')) <= IF IsSimple(rows') THEN Higher(MaxEdges, MaxSimple) ELSE MaxEdges
  /\ UNCHANGED checker

Build ==
  /\ ~checker.built
  /\ \E draw \in Draws : checker' = Built(rows, draw[1], draw[2])
  /\ UNCHANGED rows

Query ==
  /\ checker.built
  /\ \E u, v \in Nodes, extra \in BOOLEAN :
       checker' = CanReach(checker, rows, u, v, extra).checker
  /\ UNCHANGED rows

Next == AddEdge \/ Build \/ Query

Spec == Init /\ [][Next]_vars
==========================================================================
