----------------------------- MODULE MCUniDeps ------------------------------
(***************************************************************************)
(* The two schedulers without phases, and their connection lists on their  *)
(* own.  A behaviour is one of the three: the layouts of the blocks        *)
(* multiply with the states of the nodes, so the lists grow longer where   *)
(* no node runs.                                                           *)
(***************************************************************************)
EXTENDS Udeps

CONSTANTS
  ListLength, ListCells, Estimates,  \* bounds of the lists alone
  REdges, RCells, RBatch             \* bounds of rdeps.hpp

ASSUME PartsAssumption ==
  /\ ListLength \in Nat /\ ListLength < 2^MaxClass
  /\ REdges \in Nat /\ REdges < 2^MaxClass /\ RBatch \in Nat
  /\ Estimates \subseteq Nat /\ \A e \in Estimates : e < 2^MaxClass

VARIABLE part  \* "udeps", "rdeps" or "lists"

R == INSTANCE Rdeps WITH MaxEdges <- REdges, MaxCells <- RCells, MaxBatch <- RBatch
L == INSTANCE EdgeLists WITH
       Owners <- {0, 1}, Longest <- ListLength, Cells <- ListCells

mcVars == <<udepsVars, part>>
Aside == UNCHANGED <<owed, part>>

MCInit ==
  \/ UInit /\ part \in {"udeps", "rdeps"}
  \/ /\ L!LInit /\ part = "lists"
     /\ nodes = [n \in {0, 1} |-> FreshNode]
     /\ apply = <<>> /\ applied = <<>> /\ free = <<>> /\ owed = [a \in {} |-> 0]
MCNext ==
  \/ part = "udeps" /\ UNext /\ UNCHANGED part
  \/ part = "rdeps" /\ R!RNext /\ Aside
  \/ part = "lists" /\ L!LNext /\ Aside /\ UNCHANGED <<nodes, apply, applied, free>>

\* run_all_callback takes waves as long as it finds queries, and callbacks
\* return
MCSpec ==
  /\ MCInit /\ [][MCNext]_mcVars
  /\ WF_mcVars(BeginWave /\ Aside) /\ WF_mcVars(EndWave /\ Aside)

MCArcs == {<<0, 1>>, <<0, 2>>, <<1, 2>>}

-----------------------------------------------------------------------------
\* The in-degree of a node is the number of edges that still hold it back,
\* however nodes, lists and blocks were reused in between; and a list on its
\* own keeps what its owner pushed (make_edge, defuse, edge_list_push_back).
EdgesAreCounted ==
  CASE part = "udeps" -> DegreeIsOwed
    [] part = "rdeps" -> R!DegreeIsEdges
    [] part = "lists" -> L!ListsKeepConnections

\* rdeps.hpp implements the abstract task graph; the nodes of the other parts
\* are no tasks of it.
Status(n) ==
  IF part # "rdeps" \/ n \notin Ids THEN "none"
  ELSE CASE nodes[n].state = "sentinel" -> "none"
         [] nodes[n].state = "ready"    -> "idle"
         [] nodes[n].state = "active"   -> "queued"
         [] nodes[n].state = "passive"  -> "running"
Waits(d, n) ==
  IF part # "rdeps" \/ d \notin Ids \/ n \notin Ids THEN 0
  ELSE Occurrences(list[d], store, n)

AbstractTasks == INSTANCE Tasks WITH
  Task   <- 0 .. MaxNodes - 1,
  status <- [n \in 0 .. MaxNodes - 1 |-> Status(n)],
  waits  <- [a \in (0 .. MaxNodes - 1) \X (0 .. MaxNodes - 1) |-> Waits(a[1], a[2])]
ImplementsTasks == AbstractTasks!Spec

\* A node that was triggered is run by a later wave, or the graph is cleared.
TriggeredNodesRun ==
  \A n \in 0 .. MaxNodes - 1 :
    (n \in Ids /\ nodes[n].state = "active") ~> (n \in Ids => nodes[n].state # "active")
=============================================================================
