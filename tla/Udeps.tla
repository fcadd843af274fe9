------------------------------- MODULE Udeps --------------------------------
(***************************************************************************)
(* The unordered scheduler, graph/udeps.hpp.  Nodes are never given back:  *)
(* a node that completed, or that an error stopped, stays a sentinel.      *)
(* Calls on ids out of bounds return false and change nothing; they are    *)
(* not modelled.                                                           *)
(***************************************************************************)
EXTENDS UniDeps

VARIABLE
  owed  \* history: <<d, n>> -> edges counted in n that d has not paid off

udepsVars == <<vars, owed>>

Owed(d, n) == IF <<d, n>> \in DOMAIN owed THEN owed[<<d, n>>] ELSE 0

UInit == Init /\ owed = [a \in {} |-> 0]

\* make_nodes, make_node, make_nodes_get_first
MakeNodes(count, complete) ==
  /\ Cardinality(Ids) + count <= MaxNodes
  /\ nodes' = GrownNodes(count, [FreshNode EXCEPT !.state = IF complete THEN "sentinel" ELSE @])
  /\ list' = GrownLists(count)
  /\ UNCHANGED <<store, apply, applied, free, owed>>

\* make_edge_impl; the edge goes on the list even when it is refused
MadeEdge(acc, d, n, later) ==
  LET dead    == IsSentinel(acc.nodes[d])
      refused == ~dead /\ IsSentinel(acc.nodes[n])
      counted == IF dead THEN acc.nodes[n]
                 ELSE IF refused THEN Errored(acc.nodes[n])
                 ELSE Incremented(acc.nodes[n])
  IN  [Connected(acc, d, n, later) EXCEPT
         !.nodes[n] = counted, !.ok = ~refused,
         !.owed = IF dead \/ refused THEN @
                  ELSE [a \in DOMAIN @ \cup {<<d, n>>} |->
                          (IF a \in DOMAIN @ THEN @[a] ELSE 0)
                          + (IF a = <<d, n>> THEN 1 ELSE 0)]]

UCalling == [nodes |-> nodes, list |-> list, store |-> store, ok |-> TRUE, owed |-> owed]

\* Several edges: the call stops at the first one that is refused
MadeEdges(edges) ==
  FoldLeft(LAMBDA acc, e : IF acc.ok THEN MadeEdge(acc, e.d, e.n, e.later) ELSE acc,
           UCalling, edges)

Return(acc) ==
  /\ Fits(acc)
  /\ nodes' = acc.nodes /\ list' = acc.list /\ store' = acc.store /\ owed' = acc.owed
  /\ UNCHANGED <<apply, applied, free>>

\* make_edges from one node
MakeEdgesOut(d, batch) ==
  /\ Room(Len(batch))
  /\ Return(MadeEdges(EdgesOut(d, batch)))

\* make_edges to one node, and make_edge
MakeEdgesIn(n, batch) ==
  /\ Room(Len(batch))
  /\ Return(MadeEdges(EdgesIn(n, batch)))

\* A dependant, and the apply list, after one edge of a completed node
Discharged(acc, n, queryDeps) ==
  LET was == acc.nodes[n]
      nd  == IF IsSentinel(was) THEN Errored(was) ELSE Decremented(was)
  IN  [nodes |-> [acc.nodes EXCEPT ![n] = FiredIf(queryDeps, nd)],
       apply |-> IF queryDeps /\ CanTrigger(nd) THEN Append(acc.apply, n) ELSE acc.apply]

\* defuse (defuse_resolution)
Defuse(n, asComplete, queryMe, queryDeps) ==
  LET me      == FiredIf(queryMe, Defused(nodes[n], asComplete))
      written == [nodes EXCEPT ![n] = me]
      queued  == IF me.state = "active" THEN Append(apply, n) ELSE apply
      done    == FoldLeft(LAMBDA acc, x : Discharged(acc, x, queryDeps),
                          [nodes |-> written, apply |-> queued], ConnectionSeq(list[n]))
      pays    == asComplete /\ ~IsUnrecoverable(me)
  IN  /\ nodes[n].state = "passive"
      /\ nodes' = IF pays THEN done.nodes ELSE written
      /\ apply' = IF pays THEN done.apply ELSE queued
      /\ owed' = IF pays THEN [a \in {b \in DOMAIN owed : b[1] # n} |-> owed[a]] ELSE owed
      /\ UNCHANGED <<list, store, applied, free>>

UNext ==
  \/ \E count \in 1 .. MaxBatch, complete \in BOOLEAN : MakeNodes(count, complete)
  \/ \E d \in Ids : \E batch \in OutBatches(d) : MakeEdgesOut(d, batch)
  \/ \E n \in Ids : \E batch \in InBatches(n) : MakeEdgesIn(n, batch)
  \/ \E n \in Ids, c, m, q \in BOOLEAN : Defuse(n, c, m, q)
  \/ \E n \in Ids : Query(n) /\ UNCHANGED owed
  \/ SeedAllNodes /\ UNCHANGED owed
  \/ BeginWave /\ UNCHANGED owed
  \/ EndWave /\ UNCHANGED owed
  \/ \E e \in Expectations : ReservePerNode(e) /\ UNCHANGED owed
  \/ Clear /\ owed' = [a \in {} |-> 0]

\* The run loop (run_all_callback) keeps taking waves as long as there are
\* queries, and a callback returns
USpec == UInit /\ [][UNext]_udepsVars /\ WF_udepsVars(BeginWave /\ UNCHANGED owed)
         /\ WF_udepsVars(EndWave /\ UNCHANGED owed)

\* A node that no error stopped waits for exactly the edges its unfinished
\* dependencies owe it: an edge counted twice stops it for ever, one paid off
\* twice runs it early.
DegreeIsOwed ==
  \A n \in Ids : ~IsSentinel(nodes[n]) =>
    nodes[n].degree = SumFunction([d \in Ids |-> Owed(d, n)])
=============================================================================
