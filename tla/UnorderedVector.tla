-------------------------- MODULE UnorderedVector ---------------------------
(***************************************************************************)
(* unordered_vector_t (unordered_vector.hpp): keys and values stand        *)
(* densely in two arrays, and a tree over the digits of the keys' hashes   *)
(* says where.  A slot of a tree node is 0, the number of an entry, or the *)
(* negated number of another node; here both are counted from 1, so that   *)
(* the code's ~(index) is our negation and the root is node -1.  Every     *)
(* node but the root and every entry knows the slot that points to it.     *)
(*                                                                         *)
(* erase keeps both arrays dense: the last entry moves into the hole, and  *)
(* when a node has become empty the last node moves into its place.        *)
(***************************************************************************)
EXTENDS Integers, Sequences, SequencesExt, FiniteSetsExt

CONSTANTS
  Keys,       \* what an instance may insert
  Values,
  Slots,      \* children of a node, 0 .. 2^shift_index_node - 1
  MaxLevels,  \* bound: nodes one insert adds
  Word,       \* digits in one word of a hash
  Hash(_, _), \* Hash(k, seed): the digits of hash_fn(k, seed), lowest first
  EmptiesBelowLast  \* the program empties a node below the last one

ASSUME UnorderedVectorAssumption ==
  /\ Word \in Nat \ {0} /\ MaxLevels \in Nat
  /\ 0 \in Slots /\ Slots \subseteq Nat
  /\ \A k \in Keys : Hash(k, 0) \in [1 .. Word -> Slots]
  /\ EmptiesBelowLast \in BOOLEAN

VARIABLES
  tree,       \* m_flat_tree
  keys, values,
  cached,     \* hash_caches: the word of every key at depth 0
  nodeSlot,   \* m_reverse_tree_indexies: <<node, slot>>
  entrySlot   \* m_reverse_value_indexies

vars == <<tree, keys, values, cached, nodeSlot, entrySlot>>

Blank == [s \in Slots |-> 0]
Root == 1

Init ==
  /\ tree = <<Blank>> /\ nodeSlot = <<<<Root, 0>>>>
  /\ keys = <<>> /\ values = <<>> /\ cached = <<>> /\ entrySlot = <<>>

-----------------------------------------------------------------------------
(* hasher_t: reads the digits of a key's hash one after the other and asks *)
(* for another word after every Word of them.                              *)

Hasher(k) == [key |-> k, word |-> Hash(k, 0), used |-> 0, depth |-> 0]

Current(h) == IF h.used < Word THEN h.word[h.used + 1] ELSE 0

NextDigit(h) ==
  IF (h.depth + 1) % Word = 0
  THEN [h EXCEPT !.depth = @ + 1, !.word = Hash(h.key, h.depth + 1), !.used = 0]
  ELSE [h EXCEPT !.depth = @ + 1, !.used = @ + 1]

\* mutant: the digits that were read before are read again
SiblingHasherAgain(k, word, depth) ==
  [key |-> k, used |-> 0, depth |-> depth - (depth % Word), word |-> Hash(k, depth - (depth % Word))]

\* The hasher of a key that is already stored, put at another one's depth.
\* Its depth stays the one of the word it starts from.
SiblingHasher(k, word, depth) ==
  LET n     == depth % Word
      start == depth - n
  IN  [key |-> k, used |-> n, depth |-> start,
       word |-> IF n = start THEN word ELSE Hash(k, start)]

-----------------------------------------------------------------------------
(* Reading. *)

\* place_find: the slot's content, its node and the hasher there.  A walk
\* longer than the tree has nodes never ends; it stops at a negative entry.
PlaceFind(k) ==
  LET at(n, h) == [entry |-> tree[n][Current(h)], node |-> n, hasher |-> h]
      down(p) == IF p.entry >= 0 THEN p ELSE at(-p.entry, NextDigit(p.hasher))
      walk[n \in 0 .. Len(tree)] == IF n = 0 THEN at(Root, Hasher(k)) ELSE down(walk[n - 1])
  IN  walk[Len(tree)]

\* find: the number of the entry, or 0
Find(k) ==
  LET at == PlaceFind(k)
  IN  IF at.entry > 0 /\ keys[at.entry] = k THEN at.entry ELSE 0

-----------------------------------------------------------------------------
(* insert. *)

Ahead(h, n) ==
  LET ahead[i \in 0 .. n] == IF i = 0 THEN h ELSE NextDigit(ahead[i - 1]) IN ahead[n]

\* How many nodes it takes to tell two hashers apart.  Two keys whose hashes
\* never differ would add nodes for ever.
LevelsToSplit(g, h) ==
  {n \in 1 .. MaxLevels : /\ Current(Ahead(g, n)) # Current(Ahead(h, n))
                          /\ \A m \in 1 .. n - 1 : Current(Ahead(g, m)) = Current(Ahead(h, m))}

\* A key that is already there keeps its value
InsertPresent(k) == Find(k) # 0 /\ UNCHANGED vars

\* The three arrays of a new entry
PushedEntry(k, v) ==
  /\ keys' = Append(keys, k) /\ values' = Append(values, v)
  /\ cached' = Append(cached, Hash(k, 0))

\* insert into an empty slot
InsertAtSlot(k, v) ==
  LET at   == PlaceFind(k)
      slot == <<at.node, Current(at.hasher)>>
  IN  /\ at.entry = 0
      /\ tree' = [tree EXCEPT ![slot[1]][slot[2]] = Len(keys) + 1]
      /\ PushedEntry(k, v)
      /\ entrySlot' = Append(entrySlot, slot)
      /\ UNCHANGED nodeSlot

\* insert where another entry is in the way: a chain of new nodes down to the
\* first digit in which the two differ
InsertBySplit(k, v) ==
  LET at     == PlaceFind(k)
      h      == at.hasher
      g      == SiblingHasher(keys[at.entry], cached[at.entry], h.depth)
      size   == Len(tree)
      slotOf(i) == Current(Ahead(h, i))
  IN  /\ at.entry > 0 /\ keys[at.entry] # k
      /\ \E n \in LevelsToSplit(g, h) :
           LET mine   == <<size + n, slotOf(n)>>
               theirs == <<size + n, Current(Ahead(g, n))>>
               fork   == [Blank EXCEPT ![theirs[2]] = at.entry, ![mine[2]] = Len(keys) + 1]
               chain(i) == IF i = n THEN fork ELSE [Blank EXCEPT ![slotOf(i)] = -(size + i + 1)]
           IN  /\ tree' = [tree EXCEPT ![at.node][slotOf(0)] = -(size + 1)]
                          \o [i \in 1 .. n |-> chain(i)]
               /\ nodeSlot' = nodeSlot \o
                    [i \in 1 .. n |-> IF i = 1 THEN <<at.node, slotOf(0)>>
                                      ELSE <<size + i - 1, slotOf(i - 1)>>]
               /\ entrySlot' = Append([entrySlot EXCEPT ![at.entry] = theirs], mine)
      /\ PushedEntry(k, v)

Insert(k, v) == InsertPresent(k) \/ InsertAtSlot(k, v) \/ InsertBySplit(k, v)

-----------------------------------------------------------------------------
(* erase. *)

\* One turn of the loop: the empty node at "at" goes, the last one takes its
\* number.  "at" becomes the node that pointed to it, as numbered before.
Pruned(t) ==
  LET last   == Len(t.tree)
      up     == t.nodeSlot[t.at]
      moved  == [t.tree EXCEPT ![t.at] = t.tree[last]]
      named  == [n \in DOMAIN t.nodeSlot |->
                   IF \E s \in Slots : moved[t.at][s] = -n
                   THEN <<t.at, CHOOSE s \in Slots : moved[t.at][s] = -n>>
                   ELSE IF n = t.at THEN t.nodeSlot[last] ELSE t.nodeSlot[n]]
      placed == [e \in DOMAIN t.entrySlot |->
                   IF \E s \in Slots : moved[t.at][s] = e
                   THEN <<t.at, CHOOSE s \in Slots : moved[t.at][s] = e>>
                   ELSE t.entrySlot[e]]
      back   == named[last]
      relinked == [moved EXCEPT ![back[1]][back[2]] = -t.at]
  IN  IF t.at = last
      THEN [t EXCEPT !.at = up[1], !.tree = Front([@ EXCEPT ![up[1]][up[2]] = 0]),
                     !.nodeSlot = Front(@)]
      ELSE [tree |-> Front([relinked EXCEPT ![up[1]][up[2]] = 0]),
            nodeSlot |-> Front(named), entrySlot |-> placed, at |-> up[1]]

\* while (parent_node).  A number past the end means that the loop reads a
\* node it has removed; it stops there.
PrunedAll(t) ==
  LET turn(u) == IF u.at = Root \/ u.at > Len(u.tree) THEN u
                 ELSE IF u.tree[u.at] # Blank THEN u ELSE Pruned(u)
      loop[n \in 0 .. Len(t.tree)] == IF n = 0 THEN t ELSE turn(loop[n - 1])
  IN  loop[Len(t.tree)]

\* mutant: the last element is dropped instead
FilledNever(s, i) == Front(s)

\* An array after the last element moved to i
Filled(s, i) == Front([s EXCEPT ![i] = Last(s)])

Erase(k) ==
  LET i     == Find(k)
      hole  == entrySlot[i]
      back  == Last(entrySlot)
      moved == IF hole = back THEN tree ELSE [tree EXCEPT ![back[1]][back[2]] = i]
      done  == PrunedAll([tree |-> [moved EXCEPT ![hole[1]][hole[2]] = 0],
                          nodeSlot |-> nodeSlot, entrySlot |-> Filled(entrySlot, i),
                          at |-> hole[1]])
  IN  /\ i # 0
      /\ EmptiesBelowLast \/ done.at \in DOMAIN done.tree
      /\ tree' = done.tree /\ nodeSlot' = done.nodeSlot /\ entrySlot' = done.entrySlot
      /\ keys' = Filled(keys, i) /\ values' = Filled(values, i)
      /\ cached' = Filled(cached, i)

Next == \E k \in Keys : Erase(k) \/ \E v \in Values : Insert(k, v)

Spec == Init /\ [][Next]_vars

-----------------------------------------------------------------------------
\* The reverse indexes are the inverse of the tree: erase follows them
\* blindly.  Every node but the root has a slot that points to it and is not
\* empty, and every entry has one.
IndexesAreInverse ==
  /\ DOMAIN nodeSlot = DOMAIN tree /\ DOMAIN entrySlot = DOMAIN keys
  /\ \A n \in DOMAIN tree, s \in Slots :
       LET child == tree[n][s]
       IN  /\ child > 0 => entrySlot[child] = <<n, s>>
           /\ child < 0 => nodeSlot[-child] = <<n, s>>
  /\ \A e \in DOMAIN keys : tree[entrySlot[e][1]][entrySlot[e][2]] = e
  /\ \A n \in DOMAIN tree \ {Root} :
       tree[n] # Blank /\ tree[nodeSlot[n][1]][nodeSlot[n][2]] = -n

\* An entry is found under its key, and a key that was erased is not: the
\* walk of place_find reads the digits insert read, however the tree was
\* split and pruned in between, and the indexes that erase follows are right.
FindsEntries ==
  /\ IndexesAreInverse
  /\ \A k \in Keys : Find(k) = Max({0} \cup {i \in DOMAIN keys : keys[i] = k})

\* It is the dense map: insert never doubles a key it fails to find, and erase
\* moves the last entry into the hole.
Dense == INSTANCE DenseMap WITH
  Key <- Keys, Value <- Values,
  entries <- [i \in DOMAIN keys |-> <<keys[i], values[i]>>]
ImplementsDenseMap == Dense!Spec
=============================================================================
