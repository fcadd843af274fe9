--------------------------- MODULE LeveledIntern ----------------------------
(***************************************************************************)
(* leveled_interning_vector_t (unordered_vector.hpp): a node keeps the set *)
(* of digits it has children for, its population, and its children stand   *)
(* next to each other in that order, in a block of 2^c cells.  A full node *)
(* moves its children to a block twice the size; the old block waits on    *)
(* the free list of its class, still holding what it held.                 *)
(*                                                                         *)
(* A cell without population is a leaf, its index the number of a hash.    *)
(* The operators take and return a trie [cells, free, hashes], cells and   *)
(* hashes counted from 0 as in the code.                                   *)
(***************************************************************************)
EXTENDS HashDigits

Leaf(i) == [index |-> i, population |-> {}]
IsLeaf(level) == level.population = {}
Size(level) == Cardinality(level.population)
Capacity(level) == IF IsLeaf(level) THEN 0 ELSE SizeCeil(Size(level))
Place(level, d) == level.index + Rank(level.population, d)
Born(level, d) == [level EXCEPT !.population = @ \cup {d}]

EmptyTrie ==
  [cells |-> [i \in {0} |-> Leaf(0)], free |-> [c \in 0 .. LevelBits - 1 |-> <<>>],
   hashes |-> <<>>]

\* place_find: stops at a leaf, or where no child has k's digit
PlaceFind(t, k) ==
  LET down(at) ==
        LET level == t.cells[at.cell]
            d     == Digit(k, at.depth)
        IN  IF d \notin level.population THEN [at EXCEPT !.stop = TRUE]
            ELSE LET child == Place(level, d)
                 IN  IF IsLeaf(t.cells[child])
                     THEN [at EXCEPT !.cell = child, !.stop = TRUE, !.leaf = TRUE]
                     ELSE [at EXCEPT !.cell = child, !.depth = @ + 1]
  IN  FoldLeft(LAMBDA at, n : IF at.stop THEN at ELSE down(at),
               [cell |-> 0, depth |-> 0, stop |-> FALSE, leaf |-> FALSE],
               [n \in 0 .. Len(k) |-> n] )

\* find: the number of k from 1, or 0
Find(t, k) ==
  LET at == PlaceFind(t, k)
      i  == t.cells[at.cell].index + 1
  IN  IF at.leaf /\ t.hashes[i] = k THEN i ELSE 0

\* A block of class c: the newest on its free list, or from the end
Block(t, c) ==
  LET size == Cardinality(DOMAIN t.cells)
  IN  IF c < LevelBits /\ t.free[c] # <<>>
      THEN [at |-> Last(t.free[c]), trie |-> [t EXCEPT !.free[c] = Front(@)]]
      ELSE [at |-> size,
            trie |-> [t EXCEPT !.cells =
                        [i \in 0 .. size + 2^c - 1 |-> IF i < size THEN @[i] ELSE Leaf(0)]]]

\* add_leaf_to_node_init_impl: a leaf becomes a node with one empty leaf
Settled(new, parent, d) ==
  [new.trie EXCEPT !.cells =
     [@ EXCEPT ![new.at] = Leaf(0), ![parent] = [index |-> new.at, population |-> {d}]]]
WithLeaf(t, parent, d) == Settled(Block(t, 0), parent, d)

\* The block of a node that moved to one of class c
GivenBack(t, at, c) == IF c = 0 THEN t ELSE [t EXCEPT !.free[c - 1] = Append(@, at)]

\* The node with one more leaf, its children copied to the block at "to"
Placed(t, parent, level, d, child, to) ==
  LET added == to + Rank(level.population, d)
  IN  [t EXCEPT !.cells =
         [i \in DOMAIN @ |->
            CASE i = parent -> Born([level EXCEPT !.index = to], d)
              [] i = added -> Leaf(child)
              [] i \in to .. added - 1 -> @[level.index + (i - to)]
              [] i \in added + 1 .. to + Size(level) -> @[level.index + (i - to) - 1]
              [] OTHER -> @[i]]]

\* add_non_existing_child_to_node_impl: in place while there is room, else in
\* a block of the next class, giving the old one back
MovedTo(new, parent, level, d, child) ==
  GivenBack(Placed(new.trie, parent, level, d, child, new.at), level.index, SizeWidth(Size(level)))
WithChild(t, parent, d, child) ==
  LET level == t.cells[parent]
  IN  IF Size(level) < Capacity(level) THEN Placed(t, parent, level, d, child, level.index)
      ELSE MovedTo(Block(t, SizeWidth(Size(level))), parent, level, d, child)

\* insert, the loop over the digits k shares with the hash in its way
Below(t, cell) == [trie |-> t, cell |-> t.cells[cell].index]
Chain(t, k, at, part) ==
  FoldLeft(LAMBDA acc, depth : Below(WithLeaf(acc.trie, acc.cell, Digit(k, depth)), acc.cell),
           [trie |-> t, cell |-> at.cell],
           [n \in 1 .. part - at.depth - 1 |-> at.depth + n])

\* insert, where the two part
Fork(chain, k, other, part) ==
  WithChild(WithChild(chain.trie, chain.cell, Digit(chain.trie.hashes[other + 1], part), other),
            chain.cell, Digit(k, part), Len(chain.trie.hashes))
Beside(t, k, at, other, part) == Fork(Chain(t, k, at, part), k, other, part)

\* insert
InsertedAt(t, k, at, other) ==
  IF at.leaf THEN Beside(t, k, at, other, Parting(k, t.hashes[other + 1], at.depth))
  ELSE WithChild(t, at.cell, Digit(k, at.depth), Len(t.hashes))
InsertedFrom(t, k, at) == InsertedAt(t, k, at, t.cells[at.cell].index)
Inserted(t, k) ==
  IF Find(t, k) # 0 THEN t
  ELSE [InsertedFrom(t, k, PlaceFind(t, k)) EXCEPT !.hashes = Append(@, k)]

-----------------------------------------------------------------------------
\* Nodes of the trie, by the cells they stand in
TreeCells(t) ==
  LET below(S) == UNION {{t.cells[c].index + r : r \in 0 .. Size(t.cells[c]) - 1} : c \in S}
  IN  FoldLeft(LAMBDA S, n : S \cup below(S), {0}, [n \in 1 .. Len(t.hashes) + 3 |-> n])

\* The blocks in use and on the free lists, by who holds them, as sets of cells
Blocks(t) ==
  {<<c, t.cells[c].index .. t.cells[c].index + Capacity(t.cells[c]) - 1>> :
     c \in {e \in TreeCells(t) : ~IsLeaf(t.cells[e])}}
FreeBlocks(t) ==
  UNION {{<<<<c, n>>, t.free[c][n] .. t.free[c][n] + 2^c - 1>> : n \in DOMAIN t.free[c]} :
           c \in DOMAIN t.free}
=============================================================================
