---------------------------- MODULE PackedIntern ----------------------------
(***************************************************************************)
(* The three interning vectors that pack their tries into one array of     *)
(* numbers (unordered_vector.hpp): two_leveled_interning_vector_t,         *)
(* inline_two_leveled_interning_vector_t, and the recycling one.  A cell   *)
(* is 0, the number of a hash from 1, or the negated place of a node's     *)
(* block: head cells that say which digits have children, and the children *)
(* behind them in that order, 2^c of them.  The root's block is full-size  *)
(* from the start.                                                         *)
(*                                                                         *)
(* The first class keeps the population in an array of its own and its     *)
(* place in the head cell; here the population goes with the block that    *)
(* names it.  The operators take and return a trie [cells, population,     *)
(* free, hashes], cells counted from 0.                                    *)
(***************************************************************************)
EXTENDS HashDigits

CONSTANTS
  HeadCells,       \* population_word_sz_v
  Recycling   \* TRUE for recycling_inline_two_leveled_interning_vector_t

Classes == 0 .. LevelBits - 1
Length(t) == Cardinality(DOMAIN t.cells)

EmptyTrie ==
  [cells |-> [i \in 0 .. HeadCells + 2^LevelBits |-> IF i = 0 THEN -2 ELSE 0],
   population |-> [b \in {1} |-> {}],
   free |-> [c \in Classes |-> <<>>], hashes |-> <<>>]

-----------------------------------------------------------------------------
(* level_t: the node in a cell. *)

HasPopulation(t, cell) == t.cells[cell] < 0
IsLeaf(t, cell) == t.cells[cell] > 0
BlockOf(t, cell) == -t.cells[cell] - 1
Population(t, cell) == IF HasPopulation(t, cell) THEN t.population[BlockOf(t, cell)] ELSE {}
Size(t, cell) == Cardinality(Population(t, cell))
Class(t, cell) == IF cell = 0 THEN LevelBits ELSE SizeWidth(Size(t, cell))
Capacity(t, cell) ==
  IF cell = 0 THEN 2^LevelBits
  ELSE IF HasPopulation(t, cell) THEN SizeCeil(Size(t, cell)) ELSE 0
Place(t, cell, d) == BlockOf(t, cell) + HeadCells + Rank(Population(t, cell), d)

\* place_find: down to a cell that has no child for k's digit
PlaceFind(t, k) ==
  LET down(at) ==
        LET d == Digit(k, at.depth)
        IN  IF d \in Population(t, at.cell)
            THEN [cell |-> Place(t, at.cell, d), depth |-> at.depth + 1] ELSE at
  IN  FoldLeft(LAMBDA at, n : down(at), [cell |-> 0, depth |-> 0],
               [n \in 1 .. Len(k) |-> n])

\* find: the number of k, or 0
Find(t, k) ==
  LET cell == PlaceFind(t, k).cell
  IN  IF IsLeaf(t, cell) /\ t.hashes[t.cells[cell]] = k THEN t.cells[cell] ELSE 0

-----------------------------------------------------------------------------
(* Blocks. *)

\* actual_alloc
Extended(t, c) ==
  [at |-> Length(t),
   trie |-> [t EXCEPT !.cells = [i \in 0 .. Length(t) + HeadCells + 2^c - 1 |->
                                   IF i < Length(t) THEN @[i] ELSE 0]]]

\* recycle_alloc_impl
Reused(t, c) == [at |-> Last(t.free[c]), trie |-> [t EXCEPT !.free[c] = Front(@)]]

Ones(n) == {i \in 0 .. 30 : (n \div 2^i) % 2 = 1}

\* mutant: a half left over is dropped
SplitShort(n) ==
  [i \in 0 .. n - 1 |-> IF i = n - 1 THEN 1 ELSE 0]

\* One turn of the loop of free_list_split_soloution_of: the block of class i
\* becomes two of the class below
Halved(s, i) ==
  [cut |-> [s.cut EXCEPT ![i] = @ - 1, ![i - 1] = @ + 2],
   mask |-> IF s.cut[i] = 1 THEN s.mask \ {i} ELSE s.mask,
   i |-> IF i > 1 THEN i - 1 ELSE i]

\* ... which starts from one block of every class next to n, less the
\* distance, and makes up what n - 2 - Cardinality(Ones(distance)) falls short of
SplitAt(n, distance) ==
  FoldLeft(LAMBDA s, k : Halved(s, Min({j \in s.mask : j >= s.i})),
           [i |-> 1, mask |-> (0 .. n - 1) \ Ones(distance),
            cut |-> [i \in 0 .. n - 1 |-> IF i \in Ones(distance) THEN 0 ELSE 1]],
           [k \in 1 .. distance + 2 - (n - Cardinality(Ones(distance))) |-> k]).cut

\* free_list_split_soloution_of: how many blocks of every class a block of
\* class n is cut into, heads included
SplitOf(n) == SplitAt(n, Min({d \in 0 .. n : d + Cardinality(Ones(d)) + 2 >= n}))

\* recycle_alloc, the two inner loops: a free block of class c is cut up
Pieces(cut) == FlattenSeq([i \in 1 .. Cardinality(DOMAIN cut) |-> [j \in 1 .. cut[i - 1] |-> i - 1]])
Split(t, c) ==
  FoldLeft(LAMBDA acc, class :
             [at |-> acc.at + 1 + 2^class,
              trie |-> [acc.trie EXCEPT !.free[class] = Append(@, acc.at)]],
           Reused(t, c), Pieces(SplitOf(c))).trie

Filled(t) == {f \in Classes : t.free[f] # <<>>}

\* recycle_alloc: blocks of class 2 and more are cut up, the smallest first,
\* until one of class c is free
CutUp(t, c) ==
  LET cut(s, f) == [trie |-> Split(s.trie, f), from |-> f + 1]
      turn(s, cuts) == IF c \in Filled(s.trie) \/ cuts = {} THEN s ELSE cut(s, Min(cuts))
  IN  FoldLeft(LAMBDA s, n : turn(s, {f \in Filled(s.trie) : f >= s.from}),
               [trie |-> t, from |-> Max({2, c})], [n \in 1 .. LevelBits |-> n]).trie

\* A free block of class c, or one from the end
Taken(t, c) == IF c \in Filled(t) THEN Reused(t, c) ELSE Extended(t, c)

Block(t, c) == Taken(IF Recycling THEN CutUp(t, c) ELSE t, c)

-----------------------------------------------------------------------------
(* insert. *)

SetAt(f, at, value) == [x \in DOMAIN f \cup {at} |-> IF x = at THEN value ELSE f[x]]

\* enhabit_impl: a cell becomes a node with one empty child, in a new block
Settled(new, cell, d) ==
  [new.trie EXCEPT !.cells = [@ EXCEPT ![cell] = -new.at - 1, ![new.at + HeadCells] = 0],
                   !.population = SetAt(@, new.at, {d})]
Inhabited(t, cell, d) == Settled(Block(t, 0), cell, d)

\* The node with one more child, its children copied to the block at "to"
Placed(t, cell, d, number, to) ==
  LET old   == BlockOf(t, cell)
      added == to + HeadCells + Rank(Population(t, cell), d)
  IN  [t EXCEPT
         !.cells = [i \in DOMAIN @ |->
                      CASE i = cell -> -to - 1
                        [] i = added -> number
                        [] i \in to + HeadCells .. added - 1 -> @[old + (i - to)]
                        [] i \in added + 1 .. to + HeadCells + Size(t, cell) -> @[old + (i - to) - 1]
                        [] OTHER -> @[i]],
         !.population = SetAt(@, to, Population(t, cell) \cup {d})]

\* add_non_existing_child_to_node_impl, to a node that has a population: in
\* place while there is room, else in a new block, the old one freed
MovedTo(new, cell, d, number) ==
  [Placed(new.trie, cell, d, number, new.at) EXCEPT
     !.free[Class(new.trie, cell) - 1] = Append(@, BlockOf(new.trie, cell))]
WithChild(t, cell, d, number) ==
  IF Size(t, cell) < Capacity(t, cell) THEN Placed(t, cell, d, number, BlockOf(t, cell))
  ELSE MovedTo(Block(t, Class(t, cell)), cell, d, number)

\* add_non_existing_child_to_node_impl, to any cell
FirstChild(t, cell, number) == [t EXCEPT !.cells[BlockOf(t, cell) + HeadCells] = number]
Added(t, cell, d, number) ==
  IF HasPopulation(t, cell) THEN WithChild(t, cell, d, number)
  ELSE FirstChild(Inhabited(t, cell, d), cell, number)

\* insert, the loop over the digits k shares with the hash in its way
Below(t, cell) == [trie |-> t, cell |-> BlockOf(t, cell) + HeadCells]
Chain(t, k, at, part) ==
  FoldLeft(LAMBDA acc, depth : Below(Inhabited(acc.trie, acc.cell, Digit(k, depth)), acc.cell),
           [trie |-> t, cell |-> at.cell],
           [n \in 1 .. part - at.depth |-> at.depth + n - 1])

\* insert, where the two part
Fork(chain, k, leaf, part) ==
  Added(Added(chain.trie, chain.cell, Digit(chain.trie.hashes[leaf], part), leaf),
        chain.cell, Digit(k, part), Len(chain.trie.hashes) + 1)
Beside(t, k, at, leaf, part) == Fork(Chain(t, k, at, part), k, leaf, part)

\* insert
InsertedAt(t, k, at) ==
  IF IsLeaf(t, at.cell)
  THEN Beside(t, k, at, t.cells[at.cell], Parting(k, t.hashes[t.cells[at.cell]], at.depth))
  ELSE Added(t, at.cell, Digit(k, at.depth), Len(t.hashes) + 1)
Inserted(t, k) ==
  IF Find(t, k) # 0 THEN t ELSE [InsertedAt(t, k, PlaceFind(t, k)) EXCEPT !.hashes = Append(@, k)]

-----------------------------------------------------------------------------
\* Nodes of the trie, by the cells they stand in
TreeCells(t) ==
  LET below(S) == UNION {{BlockOf(t, c) + HeadCells + r : r \in 0 .. Size(t, c) - 1} : c \in S}
  IN  FoldLeft(LAMBDA S, n : S \cup below(S), {0}, [n \in 1 .. Len(t.hashes) + 3 |-> n])

\* The blocks in use and on the free lists, by who holds them, as sets of cells
Blocks(t) ==
  {<<c, BlockOf(t, c) .. BlockOf(t, c) + HeadCells + Capacity(t, c) - 1>> :
     c \in {e \in TreeCells(t) : HasPopulation(t, e)}}
FreeBlocks(t) ==
  UNION {{<<<<c, n>>, t.free[c][n] .. t.free[c][n] + HeadCells + 2^c - 1>> :
            n \in DOMAIN t.free[c]} : c \in DOMAIN t.free}
=============================================================================
