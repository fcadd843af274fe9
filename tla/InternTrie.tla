----------------------------- MODULE InternTrie -----------------------------
(***************************************************************************)
(* interning_vector_t (unordered_vector.hpp): hashes are numbered in the   *)
(* order they come.  A tree over their digits finds the number again: a    *)
(* slot is 0, the number of a hash, or the negated number of a node, both  *)
(* counted from 1 (the code's ~(index) is our negation, the root is -1).   *)
(*                                                                         *)
(* The operators take and return a trie [nodes, hashes].                   *)
(***************************************************************************)
EXTENDS HashDigits

Blank == [d \in Digits |-> 0]
EmptyTrie == [nodes |-> <<Blank>>, hashes |-> <<>>]

\* place_find: what the last slot on k's way holds, its node and its depth
PlaceFind(t, k) ==
  LET down(p, depth) == [entry |-> t.nodes[p][Digit(k, depth)], node |-> p, depth |-> depth]
  IN  FoldLeft(LAMBDA at, n : IF at.entry >= 0 THEN at ELSE down(-at.entry, at.depth + 1),
               down(1, 0), [n \in 1 .. Len(t.nodes) |-> n])

\* find: the number of k, or 0
Find(t, k) ==
  LET at == PlaceFind(t, k)
  IN  IF at.entry > 0 /\ t.hashes[at.entry] = k THEN at.entry ELSE 0

\* insert: nodes down to the first digit in which k and the hash that stands
\* in its way differ
Inserted(t, k) ==
  LET at    == PlaceFind(t, k)
      mine  == Len(t.hashes) + 1
      size  == Len(t.nodes)
      other == t.hashes[at.entry]
      levels == Parting(k, other, at.depth) - at.depth
      slot(i) == Digit(k, at.depth + i)
      node(i) == IF i = levels
                 THEN [Blank EXCEPT ![Digit(other, at.depth + i)] = at.entry, ![slot(i)] = mine]
                 ELSE [Blank EXCEPT ![slot(i)] = -(size + i + 1)]
  IN  CASE Find(t, k) # 0 -> t
        [] at.entry = 0 ->
             [nodes |-> [t.nodes EXCEPT ![at.node][slot(0)] = mine],
              hashes |-> Append(t.hashes, k)]
        [] OTHER ->
             [nodes |-> [t.nodes EXCEPT ![at.node][slot(0)] = -(size + 1)]
                        \o [i \in 1 .. levels |-> node(i)],
              hashes |-> Append(t.hashes, k)]
=============================================================================
