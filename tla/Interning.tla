----------------------------- MODULE Interning ------------------------------
(***************************************************************************)
(* The five interning vectors of unordered_vector.hpp side by side: they   *)
(* are given the same hashes in the same order, and have to agree with the *)
(* sequence of the hashes, which is what each of them promises to number.  *)
(***************************************************************************)
EXTENDS HashDigits

CONSTANTS
  Hashes,     \* what an instance may insert
  Filling     \* inserted before the first step, to start from full blocks

VARIABLES
  interned,   \* history: the hashes inserted, each once, in order
  trie        \* the five vectors

P == INSTANCE InternTrie
L == INSTANCE LeveledIntern
T == INSTANCE PackedIntern WITH HeadCells <- 1, Recycling <- FALSE  \* two_leveled
I == INSTANCE PackedIntern WITH HeadCells <- 2, Recycling <- FALSE  \* inline_two_leveled
R == INSTANCE PackedIntern WITH HeadCells <- 1, Recycling <- TRUE   \* recycling

Empty ==
  [plain |-> P!EmptyTrie, leveled |-> L!EmptyTrie, two |-> T!EmptyTrie,
   inline |-> I!EmptyTrie, recycling |-> R!EmptyTrie]

With(t, k) ==
  [plain |-> P!Inserted(t.plain, k), leveled |-> L!Inserted(t.leveled, k),
   two |-> T!Inserted(t.two, k), inline |-> I!Inserted(t.inline, k),
   recycling |-> R!Inserted(t.recycling, k)]

IInit ==
  /\ interned = Filling
  /\ trie = FoldLeft(With, Empty, Filling)

\* insert
Intern(k) ==
  /\ trie' = With(trie, k)
  /\ interned' = IF Contains(interned, k) THEN interned ELSE Append(interned, k)

INext == \E k \in Hashes : Intern(k)

-----------------------------------------------------------------------------
\* The number find gives a hash is its place among the hashes inserted so
\* far, in all five vectors, and it gives none to any other hash.
NumbersHashes ==
  \A k \in Hashes \cup ToSet(Filling) :
    LET number == Max({0} \cup {i \in DOMAIN interned : interned[i] = k})
    IN  /\ P!Find(trie.plain, k) = number /\ L!Find(trie.leveled, k) = number
        /\ T!Find(trie.two, k) = number /\ I!Find(trie.inline, k) = number
        /\ R!Find(trie.recycling, k) = number

\* Every cell but the root is in exactly one block, of one node or on one
\* free list: children that move to a bigger block take nobody's cells with
\* them, and what recycling cuts a block into adds up to it.
Covers(nodes, free, cells) ==
  LET size(blocks) == MapThenSumSet(LAMBDA b : Cardinality(b[2]), blocks)
  IN  /\ UNION {b[2] : b \in nodes} \cup UNION {b[2] : b \in free} = cells \ {0}
      /\ size(nodes) + size(free) = Cardinality(cells) - 1
BlocksPartitioned ==
  /\ Covers(L!Blocks(trie.leveled), L!FreeBlocks(trie.leveled), DOMAIN trie.leveled.cells)
  /\ Covers(T!Blocks(trie.two), T!FreeBlocks(trie.two), DOMAIN trie.two.cells)
  /\ Covers(I!Blocks(trie.inline), I!FreeBlocks(trie.inline), DOMAIN trie.inline.cells)
  /\ Covers(R!Blocks(trie.recycling), R!FreeBlocks(trie.recycling), DOMAIN trie.recycling.cells)
=============================================================================
