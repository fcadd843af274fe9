------------------------------ MODULE UniDeps -------------------------------
(***************************************************************************)
(* What the unordered scheduler (graph/udeps.hpp) and the recycling one    *)
(* (graph/rdeps.hpp) have in common: the nodes, their connection lists in  *)
(* one store of cells, the list of nodes to run next (apply) and the wave  *)
(* that is running (applied).                                              *)
(*                                                                         *)
(* A wave is a callback.  Between BeginWave and EndWave the client calls   *)
(* any other operation, on nodes of the wave and on all others; the run    *)
(* loop refuses to start a second wave inside the first.                   *)
(***************************************************************************)
EXTENDS Naturals, EdgeBlocks, Sequences, SequencesExt

CONSTANTS
  MaxNodes,     \* bound: node ids are 0 .. MaxNodes - 1
  MaxEdges,     \* bound: connections of all lists together
  MaxCells,     \* bound: cells of the store
  MaxBatch,     \* bound: nodes or edges made by one call
  Expectations, \* the estimates the client gives to reserve_per_node
  Arcs          \* <<d, n>> when the client may make n depend on d (a DAG)

(***************************************************************************)
(* The size class of a list is the bit length of a 64-bit count, so with   *)
(* MaxClass = 63 every count the code can hold is below 2^MaxClass: a      *)
(* smaller MaxClass keeps instances small and must still hold every count  *)
(* of the instance.  The graph the client builds has no cycle, hence no    *)
(* node depends on itself.                                                 *)
(***************************************************************************)
ASSUME BoundsAssumption ==
  /\ MaxNodes \in Nat /\ MaxEdges \in Nat /\ MaxCells \in Nat /\ MaxBatch \in Nat
  /\ Expectations \subseteq Nat
  /\ MaxEdges < 2^MaxClass /\ \A e \in Expectations : e < 2^MaxClass
  /\ Arcs \subseteq (0 .. MaxNodes - 1) \X (0 .. MaxNodes - 1)
  /\ \A a \in Arcs : a[1] # a[2]

-----------------------------------------------------------------------------
(***************************************************************************)
(* The node (uni_dependancy_node_base_t): a state in the two low bits of a *)
(* word and the number of dependencies it still waits for in the others.   *)
(***************************************************************************)

States == {"sentinel", "ready", "active", "passive"}

FreshNode == [state |-> "ready", degree |-> 0]

IsSentinel(nd) == nd.state = "sentinel"
IsComplete(nd) == nd.degree = 0 /\ IsSentinel(nd)
IsUnrecoverable(nd) == nd.degree # 0 /\ IsSentinel(nd)
CanTrigger(nd) == nd.degree = 0 /\ nd.state = "ready"

\* inc_dgree
Incremented(nd) == [nd EXCEPT !.degree = @ + 1]

\* mutant: an edge of a completed node is not paid off
Unpaid(nd) == nd

\* speculative_dec_dgree: nothing for a sentinel
Decremented(nd) == IF IsSentinel(nd) THEN nd ELSE [nd EXCEPT !.degree = @ - 1]

\* actively_trigger, and speculative_actively_trigger when nothing else holds
Fired(nd) == [nd EXCEPT !.state = "active"]
FiredIf(wanted, nd) == IF wanted /\ CanTrigger(nd) THEN Fired(nd) ELSE nd

\* passively_trigger
Started(nd) == [nd EXCEPT !.state = "passive"]

\* error and speculative_error: a sentinel that waits for something
Errored(nd) ==
  [state |-> "sentinel", degree |-> IF nd.degree = 0 THEN 1 ELSE nd.degree]

\* defuse
Defused(nd, complete) ==
  [nd EXCEPT !.state = IF complete THEN "sentinel" ELSE "ready"]

-----------------------------------------------------------------------------
VARIABLES
  nodes,    \* id -> state and in-degree        m_nodes
  list,     \* id -> the node's connection list m_nodes
  store,    \* the cells of all lists           m_connections_list
  apply,    \* nodes the next wave will run     m_apply_list
  applied,  \* nodes of the running wave        m_applied_list
  free      \* ids to hand out again (always empty in udeps.hpp)

vars == <<nodes, list, store, apply, applied, free>>

Ids == DOMAIN nodes
EventsRunning == applied # <<>>
ConnectionSeq(l) == [k \in 1 .. Count(l) |-> store.cells[FirstCell(l) + k - 1]]

Init ==
  /\ nodes = [i \in {} |-> FreshNode] /\ list = [i \in {} |-> NoList]
  /\ store = EmptyStore
  /\ apply = <<>> /\ applied = <<>> /\ free = <<>>

-----------------------------------------------------------------------------
(* Operations both schedulers have. *)

\* query (make_resolution_query)
Query(n) ==
  /\ CanTrigger(nodes[n])
  /\ nodes' = [nodes EXCEPT ![n] = Fired(@)]
  /\ apply' = Append(apply, n)
  /\ UNCHANGED <<list, store, applied, free>>

\* seed_all_nodes: query every node, in the order of the ids
Ascending(S) ==
  {order \in [1 .. Cardinality(S) -> S] : \A j, k \in DOMAIN order : j < k => order[j] < order[k]}
SeedAllNodes ==
  LET seeds == {n \in Ids : CanTrigger(nodes[n])}
  IN  /\ seeds # {}
      /\ nodes' = [n \in Ids |-> FiredIf(TRUE, nodes[n])]
      /\ \E order \in Ascending(seeds) : apply' = apply \o order
      /\ UNCHANGED <<list, store, applied, free>>

\* run_resolution_queries up to the callback: the two lists change places
BeginWave ==
  /\ ~EventsRunning /\ apply # <<>>
  /\ applied' = apply /\ apply' = applied
  /\ nodes' = [n \in Ids |-> IF Contains(apply, n) THEN Started(nodes[n]) ELSE nodes[n]]
  /\ UNCHANGED <<list, store, free>>

\* mutant: what the callback triggered is dropped with the wave
EndWaveDrops ==
  /\ EventsRunning
  /\ applied' = <<>> /\ apply' = <<>>
  /\ UNCHANGED <<nodes, list, store, free>>

\* run_resolution_queries after the callback
EndWave ==
  /\ EventsRunning
  /\ applied' = <<>>
  /\ UNCHANGED <<nodes, list, store, apply, free>>

\* reserve_per_node
ReservePerNode(edges) ==
  /\ store' = [store EXCEPT !.expected = edges]
  /\ UNCHANGED <<nodes, list, apply, applied, free>>

\* clear
Clear ==
  /\ ~EventsRunning
  /\ nodes' = [i \in {} |-> FreshNode] /\ list' = [i \in {} |-> NoList]
  /\ store' = EmptyStore
  /\ apply' = <<>> /\ free' = <<>>
  /\ UNCHANGED applied

\* make_nodes_impl: new ids at the end of the vector
GrownNodes(count, node) ==
  [i \in 0 .. Cardinality(Ids) + count - 1 |-> IF i \in Ids THEN nodes[i] ELSE node]
GrownLists(count) ==
  [i \in 0 .. Cardinality(Ids) + count - 1 |-> IF i \in Ids THEN list[i] ELSE NoList]

\* One push of an edge, on the lists and the store of a call under way
WithList(acc, d, pushed) == [acc EXCEPT !.list[d] = pushed.list, !.store = pushed.store]
Connected(acc, d, n, later) ==
  WithList(acc, d, PushedBackOf(acc.list[d], acc.store, n, later))

\* The edges of one call, in its order: from d to n, with so many to come
EdgesOut(d, batch) ==
  [k \in DOMAIN batch |-> [d |-> d, n |-> batch[k], later |-> Len(batch) + 1 - k]]
EdgesIn(n, batch) == [k \in DOMAIN batch |-> [d |-> batch[k], n |-> n, later |-> 0]]

\* What a call that makes several edges starts from
Calling == [nodes |-> nodes, list |-> list, store |-> store, ok |-> TRUE]

\* The client's batches: dependants of one node, dependencies of another
OutBatches(d) == {s \in SeqOf({n \in Ids : <<d, n>> \in Arcs}, MaxBatch) : s # <<>>}
InBatches(n) == {s \in SeqOf({d \in Ids : <<d, n>> \in Arcs}, MaxBatch) : s # <<>>}
Room(k) == SumFunction([d \in Ids |-> Count(list[d])]) + k <= MaxEdges
Fits(acc) == Cardinality(DOMAIN acc.store.cells) <= MaxCells

-----------------------------------------------------------------------------
(* Properties both schedulers share. *)

\* Every cell belongs to exactly one block: of a node's list, or of a free
\* list of the class it is filed under.  No two lists share a cell, a list
\* never reaches past its block and no block is lost when lists move, however
\* the signs of begin and len came about.
CellsPartitioned ==
  LET held   == {<<n, i>> : n \in Ids, i \in DOMAIN store.cells}
      owners == {h \in held : h[2] \in Block(list[h[1]], store)}
      spare  == [c \in Classes |-> FreeBlocks(store, c)]
      used   == UNION {Block(list[n], store) : n \in Ids}
      unused == UNION {UNION spare[c] : c \in Classes}
      pieces == UNION {{<<c, b>> : b \in spare[c]} : c \in Classes}
  IN  /\ \A n \in Ids : Connections(list[n]) \subseteq Block(list[n], store)
      /\ used \cup unused = DOMAIN store.cells
      /\ used \cap unused = {}
      /\ Cardinality(owners) = Cardinality(used)
      /\ \A p, q \in pieces : p # q => p[2] \cap q[2] = {}
      /\ \A c \in Classes : (c \in store.mask) = (spare[c] # {})
      /\ \A c \in Classes : \A b \in spare[c] : FloorClass(Cardinality(b)) = c
=============================================================================
