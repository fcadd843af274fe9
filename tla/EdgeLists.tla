----------------------------- MODULE EdgeLists ------------------------------
(***************************************************************************)
(* The connection lists of graph/bdeps.hpp on their own: owners push       *)
(* connections one by one or as part of a batch, change the estimate and   *)
(* drop their lists, in any order.  An owner pushes its own name, so that  *)
(* a cell tells whose connection it holds.                                 *)
(***************************************************************************)
EXTENDS EdgeBlocks

CONSTANTS
  Owners,       \* integers
  Longest,      \* bound: connections of one list
  Cells,        \* bound: cells of the store
  Estimates     \* what reserve_per_node may set

VARIABLES list, store

LInit == list = [o \in Owners |-> NoList] /\ store = EmptyStore

\* edge_list_push_back, with a number of connections still to come
Return(o, pushed) ==
  /\ Cardinality(DOMAIN pushed.store.cells) <= Cells
  /\ list' = [list EXCEPT ![o] = pushed.list]
  /\ store' = pushed.store
Push(o, later) ==
  Count(list[o]) < Longest /\ Return(o, PushedBackOf(list[o], store, o, later))

\* edge_list_delete; the owner forgets the list
Drop(o) ==
  /\ list[o] # NoList
  /\ store' = Deleted(list[o], store)
  /\ list' = [list EXCEPT ![o] = NoList]

\* edge_reserve_all
Expect(e) ==
  /\ store' = [store EXCEPT !.expected = e]
  /\ UNCHANGED list

LNext ==
  \/ \E o \in Owners, later \in 0 .. Longest :
       Count(list[o]) + later <= Longest /\ Push(o, later)
  \/ \E o \in Owners : Drop(o)
  \/ \E e \in Estimates : Expect(e)

\* A list holds what its owner pushed and nothing else, wherever it moved.
ListsKeepConnections ==
  \A o \in Owners : Occurrences(list[o], store, o) = Count(list[o])
=============================================================================
