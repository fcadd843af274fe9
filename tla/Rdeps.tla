------------------------------- MODULE Rdeps --------------------------------
(***************************************************************************)
(* The recycling scheduler, graph/rdeps.hpp: a node that completes is      *)
(* given back at once, with its list, and its id is handed out again.      *)
(* Nothing here returns an error.  The class is called unsafe because the  *)
(* caller has to keep to what the assertions say: ids are live, an edge    *)
(* joins two nodes that are not sentinels, and only a node of a wave that  *)
(* waits for nobody is freed.                                              *)
(***************************************************************************)
EXTENDS UniDeps

Live(n) == ~Contains(free, n)

\* make_node: an id from the free list, as it was left there, or a new node
MakeNode ==
  /\ IF free # <<>>
     THEN /\ free' = Front(free)
          /\ UNCHANGED <<nodes, list>>
     ELSE /\ Cardinality(Ids) < MaxNodes
          /\ nodes' = GrownNodes(1, FreshNode) /\ list' = GrownLists(1)
          /\ UNCHANGED free
  /\ UNCHANGED <<store, apply, applied>>

\* make_nodes: new nodes as far as the free list is too short, and ids from
\* its end, reset
MakeNodes(count) ==
  LET recycled == Min({count, Len(free)})
      kept     == Len(free) - recycled
      reused   == {free[k] : k \in kept + 1 .. Len(free)}
  IN  /\ Cardinality(Ids) + count - recycled <= MaxNodes
      /\ nodes' = [n \in DOMAIN GrownNodes(count - recycled, FreshNode) |->
                     IF n \in reused THEN FreshNode
                     ELSE GrownNodes(count - recycled, FreshNode)[n]]
      /\ list' = [n \in DOMAIN nodes' |->
                    IF n \in reused THEN NoList ELSE GrownLists(count - recycled)[n]]
      /\ free' = SubSeq(free, 1, kept)
      /\ UNCHANGED <<store, apply, applied>>

\* make_edge_impl, with what it asserts
MayJoin(d, n) == Live(d) /\ Live(n) /\ ~IsSentinel(nodes[d]) /\ ~IsSentinel(nodes[n])
MadeEdge(acc, d, n, later) ==
  [Connected(acc, d, n, later) EXCEPT !.nodes[n] = Incremented(@)]
MadeEdges(edges) ==
  FoldLeft(LAMBDA acc, e : MadeEdge(acc, e.d, e.n, e.later), Calling, edges)

Return(acc) ==
  /\ Fits(acc)
  /\ nodes' = acc.nodes /\ list' = acc.list /\ store' = acc.store
  /\ UNCHANGED <<apply, applied, free>>

\* make_edges from one node
MakeEdgesOut(d, batch) ==
  /\ Room(Len(batch))
  /\ \A n \in ToSet(batch) : MayJoin(d, n)
  /\ Return(MadeEdges(EdgesOut(d, batch)))

\* make_edges to one node, and make_edge
MakeEdgesIn(n, batch) ==
  /\ Room(Len(batch))
  /\ \A d \in ToSet(batch) : MayJoin(d, n)
  /\ Return(MadeEdges(EdgesIn(n, batch)))

\* A dependant, and the apply list, after one edge of a node that is freed
Discharged(acc, n) ==
  LET nd == Decremented(acc.nodes[n])
  IN  [nodes |-> [acc.nodes EXCEPT ![n] = FiredIf(nd.degree = 0, nd)],
       apply |-> IF CanTrigger(nd) THEN Append(acc.apply, n) ELSE acc.apply]

\* defuse_and_free
DefuseAndFree(n) ==
  LET sentinel == [FreshNode EXCEPT !.state = "sentinel"]
      done     == FoldLeft(Discharged,
                           [nodes |-> [nodes EXCEPT ![n] = Defused(@, TRUE)], apply |-> apply],
                           ConnectionSeq(list[n]))
  IN  /\ nodes[n].state = "passive" /\ nodes[n].degree = 0
      /\ nodes' = [done.nodes EXCEPT ![n] = sentinel]
      /\ apply' = done.apply
      /\ store' = Deleted(list[n], store)
      /\ list' = [list EXCEPT ![n] = NoList]
      /\ free' = Append(free, n)
      /\ UNCHANGED applied

\* mutant: runs again at once, whatever it was made to wait for
DefuseAndYieldBlind(n) ==
  /\ nodes[n].state = "passive"
  /\ nodes' = [nodes EXCEPT ![n] = Fired(@)]
  /\ apply' = Append(apply, n)
  /\ UNCHANGED <<list, store, applied, free>>

\* defuse_and_yeild: ready again, and in the next wave unless it waits
DefuseAndYield(n) ==
  LET me == FiredIf(TRUE, Defused(nodes[n], FALSE))
  IN  /\ nodes[n].state = "passive"
      /\ nodes' = [nodes EXCEPT ![n] = me]
      /\ apply' = IF me.state = "active" THEN Append(apply, n) ELSE apply
      /\ UNCHANGED <<list, store, applied, free>>

RNext ==
  \/ MakeNode
  \/ \E count \in 1 .. MaxBatch : MakeNodes(count)
  \/ \E d \in Ids : \E batch \in OutBatches(d) : MakeEdgesOut(d, batch)
  \/ \E n \in Ids : \E batch \in InBatches(n) : MakeEdgesIn(n, batch)
  \/ \E n \in Ids : DefuseAndFree(n) \/ DefuseAndYield(n) \/ Query(n)
  \/ SeedAllNodes \/ BeginWave \/ EndWave \/ Clear
  \/ \E e \in Expectations : ReservePerNode(e)

RSpec == Init /\ [][RNext]_vars /\ WF_vars(BeginWave) /\ WF_vars(EndWave)

-----------------------------------------------------------------------------

\* The in-degree of a node is the number of times the lists name it.  So an
\* id on the free list stands in no list, and the node that gets it next is
\* not discharged by an edge of the node that had it before.
DegreeIsEdges ==
  \A n \in Ids :
    nodes[n].degree = SumFunction([d \in Ids |-> Occurrences(list[d], store, n)])

=============================================================================
