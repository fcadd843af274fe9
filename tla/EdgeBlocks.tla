----------------------------- MODULE EdgeBlocks -----------------------------
(***************************************************************************)
(* The connection lists of the graph schedulers (graph/bdeps.hpp): every   *)
(* node owns one list, all lists live in one vector of cells, and a list   *)
(* that outgrows its block moves to another one.  A block given back goes  *)
(* on the free list of its size class, threaded through its own cells.     *)
(*                                                                         *)
(* A list is the pair of signed numbers the code keeps.  begin < 0 says    *)
(* that a cell in front of the data holds the capacity; len <= 0 says that *)
(* the capacity is implied by the count.  Everything else about a block is *)
(* deduced from these two signs, which is where the scheme may go wrong.   *)
(*                                                                         *)
(* The operators take and return a store, so that the schedulers can use   *)
(* them inside their own actions.  A cell nobody has written since it was  *)
(* handed out or given back holds Junk: the code leaves old data there.    *)
(***************************************************************************)
EXTENDS Integers, FiniteSets, FiniteSetsExt

CONSTANTS
  MaxClass,  \* the largest size class an instance needs (63 in the code)
  Junk       \* the content of a cell that holds nothing

ASSUME ClassAssumption == MaxClass \in Nat

Classes == 0 .. MaxClass

NoList == [begin |-> 0, len |-> 0]

EmptyStore ==
  [cells |-> [i \in {} |-> 0], heads |-> [c \in Classes |-> 0],
   mask |-> {}, expected |-> 0]

-----------------------------------------------------------------------------
(* Bits and signs. *)

Magnitude(i) == IF i < 0 THEN -i ELSE i
Complement(i) == -i - 1

CeilClass(n) == Min({c \in Classes : n <= 2^c})
FloorClass(n) == Max({c \in Classes : 2^c <= n})
BitCeil(n) == 2^CeilClass(n)
IsPowerOfTwo(n) == \E c \in Classes : n = 2^c

-----------------------------------------------------------------------------
(* Reading a list: base_edges_ids_t. *)

Count(l) == Magnitude(l.len)
FirstCell(l) == Magnitude(l.begin)
EndCell(l) == FirstCell(l) + Count(l)
Connections(l) == FirstCell(l) .. EndCell(l) - 1

\* get_capacity and implicit_capacity
Capacity(l, st) ==
  IF l.len <= 0
  THEN IF l.len = 0 THEN 0 ELSE BitCeil(Count(l))
  ELSE IF Complement(l.begin) \in DOMAIN st.cells
       THEN st.cells[Complement(l.begin)]
       ELSE Count(l)

\* expand_valid_impl
Lengthened(l, n) == [l EXCEPT !.len = IF @ < 0 THEN @ - n ELSE @ + n]

-----------------------------------------------------------------------------
(* Blocks: base_edge_connections_list_t. *)

Blank(st, at, n) ==
  [st EXCEPT !.cells = [i \in DOMAIN @ |-> IF i \in at .. at + n - 1 THEN Junk ELSE @[i]]]

\* connections_free_list_push_impl: the link is the block's first cell, or
\* its second when the first holds the size
PushFree(st, class, index) ==
  [st EXCEPT !.cells[Magnitude(index)] = st.heads[class],
             !.heads[class] = IF index < 0 THEN index ELSE index + 1,
             !.mask = @ \cup {class}]

\* connections_free_list_pop_impl
PopFree(st, class) ==
  LET head  == st.heads[class]
      index == IF 0 < head THEN head - 1 ELSE head
      next  == st.cells[Magnitude(index)]
  IN  [index |-> index,
       store |-> [st EXCEPT !.cells[Magnitude(index)] = Junk,
                            !.heads[class] = next,
                            !.mask = IF next = 0 THEN @ \ {class} ELSE @]]

\* mutant: the size cell is forgotten when a block is given back
DeallocateShort(st, begin, capacity) ==
  LET at    == IF begin < 0 THEN Complement(begin) ELSE begin
      class == FloorClass(capacity)
  IN  IF capacity = 0 THEN st
      ELSE IF capacity = 2^class THEN PushFree(Blank(st, at, capacity), class, at)
      ELSE PushFree([Blank(st, at, capacity) EXCEPT !.cells[at] = capacity - 1],
                    class, Complement(at))

\* deallocate_connections
Deallocate(st, begin, capacity) ==
  LET at     == IF begin < 0 THEN Complement(begin) ELSE begin
      total  == IF begin < 0 THEN capacity + 1 ELSE capacity
      class  == FloorClass(total)
      erased == Blank(st, at, total)
  IN  IF total = 0 THEN st
      ELSE IF total = 2^class THEN PushFree(erased, class, at)
      ELSE PushFree([erased EXCEPT !.cells[at] = total - 1], class, Complement(at))

Grown(st, n) ==
  LET size == Cardinality(DOMAIN st.cells)
  IN  [st EXCEPT !.cells =
         [i \in 0 .. size + n - 1 |-> IF i < size THEN @[i] ELSE Junk]]

\* allocate_connections, a block from the end of the vector ...
FromEnd(st, want, implicit) ==
  LET size == Cardinality(DOMAIN st.cells)
  IN  IF implicit THEN [store |-> Grown(st, want), begin |-> size, capacity |-> want]
      ELSE [store |-> [Grown(st, want + 1) EXCEPT !.cells[size] = want],
            begin |-> Complement(size), capacity |-> want]

\* ... and one from a free list of blocks of "whole" cells, at least
FromFree(free, want, whole, implicit) ==
  CASE free.index < 0 ->
         [store |-> free.store, begin |-> free.index,
          capacity |-> free.store.cells[Complement(free.index)]]
    [] free.index >= 0 /\ implicit /\ want = whole ->
         [store |-> free.store, begin |-> free.index, capacity |-> whole]
    [] OTHER ->
         [store |-> [free.store EXCEPT !.cells[free.index] = whole - 1],
          begin |-> Complement(free.index), capacity |-> whole - 1]

\* allocate_connections: from the smallest class that surely fits, else from
\* the end of the vector
Allocate(st, want, implicit) ==
  LET fits  == {c \in st.mask : CeilClass(IF implicit THEN want ELSE want + 1) <= c}
      from(class) == FromFree(PopFree(st, class), want, 2^class, implicit)
  IN  IF fits = {} THEN FromEnd(st, want, implicit) ELSE from(Min(fits))

-----------------------------------------------------------------------------
(* Growing a list.  The results are [list, store] or [list, store, slot].   *)

\* The data of a list, copied to the cells from "to" on
Copied(l, st, to) ==
  [st EXCEPT !.cells = [i \in DOMAIN @ |-> IF i \in to .. to + Count(l) - 1
                                           THEN @[FirstCell(l) + (i - to)] ELSE @[i]]]

\* reserve_edge_list_impl: move the list to a block of the new capacity
MovedTo(l, new, old, capacity, implicit) ==
  [list |-> [begin |-> new.begin, len |-> Count(l)],
   store |-> Deallocate(Copied(l, new.store, Magnitude(new.begin)), l.begin, old),
   implicit |-> implicit /\ new.capacity = capacity]
Moved(l, st, capacity, implicit) ==
  IF capacity <= Capacity(l, st) THEN [list |-> l, store |-> st, implicit |-> implicit]
  ELSE MovedTo(l, Allocate(st, capacity, implicit), Capacity(l, st), capacity, implicit)

\* edge_list_expand, for one more connection
Longer(moved) ==
  [list |-> IF moved.implicit THEN [Lengthened(moved.list, 1) EXCEPT !.len = -@]
            ELSE Lengthened(moved.list, 1),
   store |-> moved.store, slot |-> EndCell(moved.list)]
Reserved(l, st, geometric) ==
  LET wanted == Max({st.expected, geometric}) IN Moved(l, st, wanted, geometric = wanted)
Expanded(l, st, force) ==
  IF Capacity(l, st) >= Count(l) + 1 /\ ~force
  THEN [list |-> Lengthened(l, 1), store |-> st, slot |-> EndCell(l)]
  ELSE Longer(Reserved(l, st, BitCeil(Count(l) + 1)))

\* edge_list_push_back: a full list whose block has a size cell and is one
\* short of a power of two takes that cell for its newest connection
TakesField(l, st) ==
  l.len > 0 /\ Capacity(l, st) = Count(l) /\ IsPowerOfTwo(Count(l) + 1)
TakingField(l, st) ==
  [list |-> [begin |-> Complement(l.begin), len |-> -(Count(l) + 1)], store |-> st,
   slot |-> Complement(l.begin)]
Stored(at, val) == [list |-> at.list, store |-> [at.store EXCEPT !.cells[at.slot] = val]]
PushedBack(l, st, val, force) ==
  Stored(IF TakesField(l, st) /\ ~force THEN TakingField(l, st) ELSE Expanded(l, st, force), val)

\* edge_list_push_back with the number of connections still to come; force
\* keeps only the lowest bit of the expectation it is masked with
PushedBackOf(l, st, val, later) ==
  LET short == Capacity(l, st) - Count(l) < later /\ 2 < later
      wider == [st EXCEPT !.expected = Max({@, Count(l) + later})]
  IN  [PushedBack(l, wider, val, short /\ st.expected % 2 = 1)
         EXCEPT !.store.expected = st.expected]

\* edge_list_delete
Deleted(l, st) == Deallocate(st, l.begin, Capacity(l, st))

-----------------------------------------------------------------------------
(* What the cells mean. *)

\* The cells of a list's block, its size cell included
Block(l, st) ==
  IF l.begin < 0
  THEN Complement(l.begin) .. FirstCell(l) + Capacity(l, st) - 1
  ELSE FirstCell(l) .. FirstCell(l) + Capacity(l, st) - 1

\* The blocks on the free list of a class, followed by their links
FreeBlocks(st, class) ==
  LET size     == Cardinality(DOMAIN st.cells)
      start(h) == IF 0 < h THEN h - 1 ELSE Complement(h)
      cells(h) == start(h) .. start(h) + (IF 0 < h THEN 2^class - 1 ELSE st.cells[start(h)])
      link(h)  == IF h = 0 THEN 0 ELSE st.cells[IF 0 < h THEN h - 1 ELSE -h]
      walk[n \in 0 .. size] == IF n = 0 THEN st.heads[class] ELSE link(walk[n - 1])
  IN  {cells(walk[n]) : n \in {k \in 0 .. size : walk[k] # 0}}

\* How often a value stands in a list
Occurrences(l, st, val) == Cardinality({i \in Connections(l) : st.cells[i] = val})
=============================================================================
