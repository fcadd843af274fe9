----------------------- MODULE UnorderedVectorProofs -----------------------
(***************************************************************************)
(* Every key of an unordered_vector_t is found where it is: the proofs      *)
(* about UnorderedVector.tla, for any set of keys whose first hash words    *)
(* differ, words of any length, digits of any width and programs that do    *)
(* not meet the bug of erase (~EmptiesBelowLast).  And every hash has its   *)
(* number in an interning_vector_t, whose tree is of the same kind.         *)
(*                                                                         *)
(* A node of the tree stands for the beginning of a word: it has a level,   *)
(* the number of digits that lead to it, and a word w that begins with      *)
(* them.  Nodes and entries lie where their words say.  Levels and words    *)
(* are not in the program; the invariant says that there are some.          *)
(***************************************************************************)
EXTENDS UnorderedVector, BlockRangesProofs, SequenceTheorems

CONSTANT LevelBits  \* of a digit of interning_vector_t

Interner == INSTANCE InternTrie

FirstWord(k) == Hash(k, 0)

\* The hasher put beside another one loses its depth above the first word, so
\* keys have to differ there.
HashesDiffer == \A k, q \in Keys : k # q => FirstWord(k) # FirstWord(q)

Words  == [1 .. Word -> Slots]
Rows   == [Slots -> Int]
Places == Nat \X Slots
Agree(v, u, l) == \A i \in 1 .. l : v[i] = u[i]

-----------------------------------------------------------------------------
(* The inductive invariant                                                   *)

Typed(T, N, E, K) ==
  /\ T \in Seq(Rows) /\ N \in Seq(Places) /\ E \in Seq(Places) /\ K \in Seq(Keys)
  /\ Len(N) = Len(T) /\ Len(E) = Len(K) /\ Len(T) >= 1

\* A slot names a node or an entry that names the slot, and each of the M nodes
\* and L entries is named.
Linked(T, N, E, M, L) ==
  /\ \A n \in 1 .. M, s \in Slots :
       /\ T[n][s] > 0 => T[n][s] <= L /\ E[T[n][s]] = <<n, s>>
       /\ T[n][s] < 0 => -T[n][s] \in 2 .. M /\ N[-T[n][s]] = <<n, s>>
  /\ \A e \in 1 .. L : \E n \in 1 .. M, s \in Slots : E[e] = <<n, s>> /\ T[n][s] = e
  /\ \A m \in 2 .. M : \E p \in 1 .. M, s \in Slots : N[m] = <<p, s>> /\ T[p][s] = -m

\* Levels and words, and that nodes and entries lie where these say.
Leveled(M, lev, w) ==
  lev \in [1 .. M -> 0 .. Word - 1] /\ lev[1] = 0 /\ w \in [1 .. M -> Words]
Below(lev, w, p, s, m) ==
  lev[m] = lev[p] + 1 /\ w[m][lev[p] + 1] = s /\ Agree(w[m], w[p], lev[p])
Hangs(lev, w, n, s, word) == Agree(word, w[n], lev[n]) /\ word[lev[n] + 1] = s
Sorted(T, K, M, L, lev, w) ==
  /\ \A p, m \in 1 .. M, s \in Slots : T[p][s] = -m => Below(lev, w, p, s, m)
  /\ \A n \in 1 .. M, s \in Slots, e \in 1 .. L :
       T[n][s] = e => Hangs(lev, w, n, s, FirstWord(K[e]))

Distinct(K, L) == \A i, j \in 1 .. L : K[i] = K[j] => i = j

\* No node is empty, but for the root and "at".
Full(T, M, at) == \A m \in 2 .. M : m # at => \E s \in Slots : T[m][s] # 0

Trie(T, N, E, K, lev, w) ==
  /\ Typed(T, N, E, K) /\ Linked(T, N, E, Len(T), Len(K))
  /\ Leveled(Len(T), lev, w) /\ Sorted(T, K, Len(T), Len(K), lev, w)

Witnesses(T) == [1 .. Len(T) -> 0 .. Word - 1] \X [1 .. Len(T) -> Words]
Sound(T, N, E, K, at) ==
  /\ \E lw \in Witnesses(T) : Trie(T, N, E, K, lw[1], lw[2])
  /\ Distinct(K, Len(K)) /\ Full(T, Len(T), at)

Columns(K, V, C) ==
  /\ V \in Seq(Values) /\ C \in Seq(Words) /\ Len(V) = Len(K) /\ Len(C) = Len(K)
  /\ \A i \in 1 .. Len(K) : C[i] = FirstWord(K[i])

IInv == Sound(tree, nodeSlot, entrySlot, keys, Root) /\ Columns(keys, values, cached)

-----------------------------------------------------------------------------
(* Loops                                                                     *)

\* A loop goes from a first state on, a step at each turn.
Iterable(L, V, base, step) == L \in Nat /\ base \in V /\ step \in [V -> V]
Iterates(L, V, base, step, f) ==
  f \in [0 .. L -> V] /\ f[0] = base /\ \A n \in 1 .. L : f[n] = step[f[n - 1]]

\* A function that each index defines from the one before exists.
LEMMA Iteration ==
    ASSUME NEW L, NEW V, NEW base, NEW step, Iterable(L, V, base, step)
    PROVE  \E f : Iterates(L, V, base, step, f)
<1>0. L \in Nat /\ base \in V /\ step \in [V -> V]
  BY DEF Iterable
<1> DEFINE D == 0 .. L
           m == [i \in D |-> i]
           G == [i \in D |-> [f \in [D -> V] |-> IF i = 0 THEN base ELSE step[f[i - 1]]]]
<1>1. m \in [D -> 0 .. L]
  BY <1>0
<1>2. G \in [D -> [[D -> V] -> V]]
  <2>1. ASSUME NEW i \in D, NEW f \in [D -> V], i # 0
        PROVE  step[f[i - 1]] \in V
    <3>1. i - 1 \in D
      BY <2>1, <1>0
    <3>2. QED
      BY <3>1, <1>0
  <2>2. QED
    BY <2>1, <1>0
<1>3. ASSUME NEW x \in D, NEW g \in [D -> V], NEW h \in [D -> V],
             \A y \in D : m[y] < m[x] => g[y] = h[y]
      PROVE  G[x][g] = G[x][h]
  <2>1. CASE x = 0
    BY <2>1
  <2>2. CASE x # 0
    <3>1. x - 1 \in D /\ m[x - 1] < m[x]
      BY <2>2, <1>0
    <3>2. g[x - 1] = h[x - 1]
      BY <1>3, <3>1
    <3>3. QED
      BY <2>2, <3>2
  <2>3. QED
    BY <2>1, <2>2
<1>4. Recursive(D, V, L, m, G)
  <2> HIDE DEF D, m, G
  <2>1. QED
    BY <1>0, <1>1, <1>2, <1>3 DEF Recursive
<1>5. PICK f \in [D -> V] : \A x \in D : f[x] = G[x][f]
  <2> HIDE DEF D, m, G
  <2>1. QED
    BY <1>4, BoundedRecursion
<1>6. f[0] = base
  BY <1>0, <1>5
<1>7. \A n \in 1 .. L : f[n] = step[f[n - 1]]
  BY <1>0, <1>5
<1>8. QED
  BY <1>6, <1>7 DEF Iterates

-----------------------------------------------------------------------------
(* Levels and words                                                          *)

\* Every node but the root hangs below another one, a level higher.
LEMMA Parent ==
    ASSUME NEW T, NEW N, NEW E, NEW K, NEW lev, NEW w, Trie(T, N, E, K, lev, w),
           NEW m \in 2 .. Len(T)
    PROVE  \E p \in 1 .. Len(T), s \in Slots : T[p][s] = -m /\ Below(lev, w, p, s, m)
<1>1. PICK p \in 1 .. Len(T), s \in Slots : T[p][s] = -m
  BY DEF Trie, Linked
<1>2. m \in 1 .. Len(T)
  BY LenProperties DEF Trie, Typed
<1>3. QED
  BY <1>1, <1>2 DEF Trie, Sorted

\* The levels and words of a trie, by themselves.
LEMMA LevelTypes ==
    ASSUME NEW T, NEW N, NEW E, NEW K, NEW lev, NEW w, Trie(T, N, E, K, lev, w),
           NEW n \in 1 .. Len(T)
    PROVE  /\ Len(T) \in Nat /\ n \in Nat /\ 1 \in 1 .. Len(T)
           /\ lev[n] \in Nat /\ lev[n] < Word /\ w[n] \in Words /\ lev[1] = 0
           /\ T[n] \in Rows
<1>1. Len(T) \in Nat /\ Len(T) >= 1
  BY LenProperties DEF Trie, Typed
<1>2. Word \in Nat
  BY UnorderedVectorAssumption
<1>3. lev \in [1 .. Len(T) -> 0 .. Word - 1] /\ lev[1] = 0 /\ w \in [1 .. Len(T) -> Words]
  BY DEF Trie, Leveled
<1>4. T[n] \in Rows
  BY ElementOfSeq DEF Trie, Typed
<1>5. lev[n] \in 0 .. Word - 1 /\ w[n] \in Words
  BY <1>3
<1>6. QED
  BY <1>1, <1>2, <1>3, <1>4, <1>5

\* A node below level 0 is not the root; one on level 0 is.
LEMMA RootAlone ==
    ASSUME NEW T, NEW N, NEW E, NEW K, NEW lev, NEW w, Trie(T, N, E, K, lev, w),
           NEW n \in 1 .. Len(T)
    PROVE  lev[n] = 0 <=> n = 1
<1>1. CASE n = 1
  BY <1>1, LevelTypes
<1>2. CASE n # 1
  <2>1. n \in 2 .. Len(T)
    BY <1>2, LevelTypes
  <2>2. PICK p \in 1 .. Len(T), s \in Slots : Below(lev, w, p, s, n)
    BY <2>1, Parent
  <2>3. lev[n] = lev[p] + 1 /\ lev[p] \in Nat
    BY <2>2, LevelTypes DEF Below
  <2>4. QED
    BY <1>2, <2>3
<1>3. QED
  BY <1>1, <1>2

\* On every level above a node is one its word goes through.
LEMMA Ancestors ==
    ASSUME NEW T, NEW N, NEW E, NEW K, NEW lev, NEW w, Trie(T, N, E, K, lev, w),
           NEW n \in 1 .. Len(T), NEW j \in 0 .. lev[n]
    PROVE  \E a \in 1 .. Len(T) : lev[a] = j /\ Agree(w[a], w[n], j)
<1> DEFINE l == lev[n]
           S == {i \in 0 .. l : \E a \in 1 .. Len(T) : lev[a] = i /\ Agree(w[a], w[n], i)}
<1>1. l \in Nat
  BY LevelTypes
<1>2. l \in S
  BY <1>1 DEF Agree
<1>3. ASSUME NEW i \in 0 .. l - 1, i + 1 \in S
      PROVE  i \in S
  <2>1. PICK a \in 1 .. Len(T) : lev[a] = i + 1 /\ Agree(w[a], w[n], i + 1)
    BY <1>3
  <2>2. i \in Nat /\ i \in 0 .. l
    BY <1>1
  <2>3. a \in 2 .. Len(T)
    BY <2>1, <2>2, LevelTypes
  <2>4. PICK p \in 1 .. Len(T), s \in Slots : Below(lev, w, p, s, a)
    BY <2>3, Parent
  <2>5. lev[p] = i
    BY <2>1, <2>2, <2>4, LevelTypes DEF Below
  <2>6. Agree(w[p], w[n], i)
    BY <2>1, <2>2, <2>4, <2>5 DEF Below, Agree
  <2>7. QED
    BY <2>2, <2>5, <2>6
<1> HIDE DEF S
<1>4. 0 .. l \subseteq S
  BY <1>1, <1>2, <1>3, DownwardInduction
<1>5. QED
  BY <1>4 DEF S

\* There is a slot on its way on every level above a node.
LEMMA WayDown ==
    ASSUME NEW T, NEW N, NEW E, NEW K, NEW lev, NEW w, Trie(T, N, E, K, lev, w),
           NEW n \in 1 .. Len(T), NEW j \in Nat, j < lev[n]
    PROVE  \E a \in 1 .. Len(T) :
             /\ lev[a] = j /\ Agree(w[a], w[n], j)
             /\ w[n][j + 1] \in Slots /\ T[a][w[n][j + 1]] < 0
<1>1. lev[n] \in Nat /\ j + 1 \in 0 .. lev[n] /\ j + 1 \in 1 .. lev[n]
  BY LevelTypes
<1>2. PICK c \in 1 .. Len(T) : lev[c] = j + 1 /\ Agree(w[c], w[n], j + 1)
  BY <1>1, Ancestors
<1>3. c \in 2 .. Len(T)
  BY <1>2, LevelTypes
<1>4. PICK a \in 1 .. Len(T), s \in Slots : T[a][s] = -c /\ Below(lev, w, a, s, c)
  BY <1>3, Parent
<1>5. lev[a] = j
  BY <1>2, <1>4, LevelTypes DEF Below
<1>6. Agree(w[a], w[n], j)
  BY <1>2, <1>4, <1>5 DEF Below, Agree
<1>7. w[c][j + 1] = s
  BY <1>4, <1>5 DEF Below
<1>8. w[n][j + 1] = s
  BY <1>2, <1>7 DEF Agree
<1>9. T[a][s] < 0
  BY <1>3, <1>4, LevelTypes
<1>10. QED
  BY <1>5, <1>6, <1>8, <1>9

\* Two nodes on one level with the same word are one.
LEMMA SamePath ==
    ASSUME NEW T, NEW N, NEW E, NEW K, NEW lev, NEW w, Trie(T, N, E, K, lev, w),
           NEW n \in 1 .. Len(T), NEW m \in 1 .. Len(T),
           lev[n] = lev[m], Agree(w[n], w[m], lev[n])
    PROVE  n = m
<1> DEFINE Same(j) == \A a, b \in 1 .. Len(T) :
                        lev[a] = j /\ lev[b] = j /\ Agree(w[a], w[b], j) => a = b
           S == {j \in Nat : Same(j)}
<1>1. 0 \in S
  BY RootAlone
<1>2. ASSUME NEW j \in Nat, j \in S
      PROVE  j + 1 \in S
  <2>1. SUFFICES ASSUME NEW a \in 1 .. Len(T), NEW b \in 1 .. Len(T),
                        lev[a] = j + 1, lev[b] = j + 1, Agree(w[a], w[b], j + 1)
                 PROVE  a = b
    OBVIOUS
  <2>2. a \in 2 .. Len(T) /\ b \in 2 .. Len(T)
    BY <2>1, LevelTypes
  <2>3. PICK p \in 1 .. Len(T), s \in Slots : T[p][s] = -a /\ Below(lev, w, p, s, a)
    BY <2>2, Parent
  <2>4. PICK q \in 1 .. Len(T), r \in Slots : T[q][r] = -b /\ Below(lev, w, q, r, b)
    BY <2>2, Parent
  <2>5. lev[p] = j /\ lev[q] = j
    <3>1. lev[p] \in Nat /\ lev[q] \in Nat
      BY LevelTypes
    <3>2. lev[a] = lev[p] + 1 /\ lev[b] = lev[q] + 1
      BY <2>3, <2>4 DEF Below
    <3>3. QED
      BY <2>1, <3>1, <3>2
  <2>6. Agree(w[p], w[q], j) /\ s = r
    BY <2>1, <2>3, <2>4, <2>5 DEF Below, Agree
  <2>7. p = q
    BY <1>2, <2>5, <2>6
  <2>8. a \in Nat /\ b \in Nat /\ -a = -b
    BY <2>3, <2>4, <2>6, <2>7, LevelTypes
  <2>9. QED
    BY <2>8
<1> HIDE DEF S
<1>3. Nat \subseteq S
  BY <1>1, <1>2, Induction
<1>4. lev[n] \in Nat
  BY LevelTypes
<1>5. QED
  BY <1>3, <1>4 DEF S

\* The levels are fewer than the nodes.
LEMMA LevelsAreFew ==
    ASSUME NEW T, NEW N, NEW E, NEW K, NEW lev, NEW w, Trie(T, N, E, K, lev, w),
           NEW n \in 1 .. Len(T)
    PROVE  lev[n] < Len(T)
<1>1. PICK l \in Nat : l = lev[n]
  BY LevelTypes
<1>2. PICK L \in Nat : L = Len(T)
  BY LevelTypes
<1> DEFINE f == [j \in 0 .. l |-> CHOOSE a \in 1 .. L : lev[a] = j]
<1>3. ASSUME NEW j \in 0 .. l
      PROVE  f[j] \in 1 .. L /\ lev[f[j]] = j
  <2>1. \E a \in 1 .. L : lev[a] = j
    BY <1>1, <1>2, Ancestors
  <2>2. QED
    BY <2>1
<1>4. f \in Injection(0 .. l, 1 .. L)
  <2>1. f \in [0 .. l -> 1 .. L]
    BY <1>3
  <2>2. \A i, j \in 0 .. l : f[i] = f[j] => i = j
    BY <1>3
  <2> HIDE DEF f
  <2>3. QED
    BY <2>1, <2>2 DEF Injection, IsInjective
<1>5. Cardinality(0 .. l) = l + 1 /\ Cardinality(1 .. L) = L /\ IsFiniteSet(1 .. L)
  BY FS_Interval
<1>6. Cardinality(0 .. l) <= Cardinality(1 .. L)
  <2> HIDE DEF f
  <2>1. QED
    BY <1>4, <1>5, FS_Injection
<1>7. QED
  BY <1>1, <1>2, <1>5, <1>6
-----------------------------------------------------------------------------
(* The walk of place_find                                                    *)

\* A hasher that has read l digits of the first word, and the digit it is at.
HasherAt(k, l) == [key |-> k, word |-> FirstWord(k), used |-> l, depth |-> l]
DigitAt(k, l) == FirstWord(k)[l + 1]

\* The digits of a key are slots.
LEMMA DigitType ==
    ASSUME NEW k \in Keys, NEW l \in Nat, l < Word
    PROVE  FirstWord(k) \in Words /\ DigitAt(k, l) \in Slots
<1>1. FirstWord(k) \in Words
  BY UnorderedVectorAssumption DEF FirstWord, Words
<1>2. l + 1 \in 1 .. Word
  BY UnorderedVectorAssumption
<1>3. QED
  BY <1>1, <1>2 DEF Words, DigitAt

\* Inside the first word a hasher reads one digit after the other.
LEMMA HasherReads ==
    ASSUME NEW k \in Keys, NEW l \in Nat, l < Word
    PROVE  /\ Current(HasherAt(k, l)) = DigitAt(k, l)
           /\ l + 1 < Word => NextDigit(HasherAt(k, l)) = HasherAt(k, l + 1)
<1>1. Current(HasherAt(k, l)) = DigitAt(k, l)
  BY DEF Current, HasherAt, DigitAt
<1>2. ASSUME l + 1 < Word
      PROVE  NextDigit(HasherAt(k, l)) = HasherAt(k, l + 1)
  <2>1. Word \in Nat \ {0}
    BY UnorderedVectorAssumption
  <2>2. PICK d \in Nat, z \in Nat \ {0} : d = l + 1 /\ z = Word
    BY <2>1
  <2>3. d % z = d
    BY <1>2, <2>2
  <2>4. (l + 1) % Word # 0
    BY <2>2, <2>3
  <2>5. QED
    BY <2>4 DEF NextDigit, HasherAt
<1>3. QED
  BY <1>1, <1>2

\* Where a walk can be: at a node on the way of k's word.
OnWay(k, lev, w) == {n \in 1 .. Len(tree) : Agree(FirstWord(k), w[n], lev[n])}
Stop(k, lev, n) ==
  [entry |-> tree[n][DigitAt(k, lev[n])], node |-> n, hasher |-> HasherAt(k, lev[n])]

\* A slot that names a node leads one level down on the way.
LEMMA WayGoesOn ==
    ASSUME NEW T, NEW N, NEW E, NEW K, NEW lev, NEW w, Trie(T, N, E, K, lev, w),
           NEW k \in Keys, NEW n \in 1 .. Len(T), Agree(FirstWord(k), w[n], lev[n]),
           NEW c, c = T[n][DigitAt(k, lev[n])], c < 0
    PROVE  /\ -c \in 1 .. Len(T) /\ Agree(FirstWord(k), w[-c], lev[-c])
           /\ lev[-c] = lev[n] + 1 /\ lev[n] + 1 < Word
<1>1. PICK l \in Nat : l = lev[n] /\ l < Word
  BY LevelTypes
<1>2. PICK s \in Slots : s = DigitAt(k, l)
  BY <1>1, DigitType
<1>3. T[n] \in Rows
  BY LevelTypes
<1>4. c \in Int /\ c = T[n][s]
  BY <1>1, <1>2, <1>3 DEF Rows
<1>5. PICK m \in 2 .. Len(T) : m = -c
  BY <1>4 DEF Trie, Linked
<1>6. m \in 1 .. Len(T) /\ m \in Nat
  BY LevelTypes
<1>7. T[n][s] = -m
  BY <1>4, <1>5
<1>8. Below(lev, w, n, s, m)
  BY <1>6, <1>7 DEF Trie, Sorted
<1>9. lev[m] = l + 1 /\ lev[m] < Word
  BY <1>1, <1>6, <1>8, LevelTypes DEF Below
<1>10. Agree(FirstWord(k), w[m], l + 1)
  <2>1. w[m][l + 1] = FirstWord(k)[l + 1] /\ \A i \in 1 .. l : w[m][i] = FirstWord(k)[i]
    BY <1>1, <1>2, <1>8 DEF Below, Agree, DigitAt
  <2>2. \A i \in 1 .. l + 1 : i = l + 1 \/ i \in 1 .. l
    BY <1>1
  <2>3. QED
    BY <2>1, <2>2 DEF Agree
<1>11. QED
  BY <1>1, <1>5, <1>6, <1>9, <1>10

\* ... and the hasher goes there too.
LEMMA StepsDownTheWay ==
    ASSUME NEW lev, NEW w, Trie(tree, nodeSlot, entrySlot, keys, lev, w),
           NEW k \in Keys, NEW n \in OnWay(k, lev, w), NEW c, c = tree[n][DigitAt(k, lev[n])],
           c < 0
    PROVE  /\ -c \in OnWay(k, lev, w) /\ lev[-c] = lev[n] + 1
           /\ NextDigit(HasherAt(k, lev[n])) = HasherAt(k, lev[-c])
<1>1. n \in 1 .. Len(tree) /\ Agree(FirstWord(k), w[n], lev[n])
  BY DEF OnWay
<1>2. /\ -c \in 1 .. Len(tree) /\ Agree(FirstWord(k), w[-c], lev[-c])
      /\ lev[-c] = lev[n] + 1 /\ lev[n] + 1 < Word
  BY <1>1, WayGoesOn
<1>3. lev[n] \in Nat /\ lev[n] < Word
  BY <1>1, LevelTypes
<1>4. NextDigit(HasherAt(k, lev[n])) = HasherAt(k, lev[n] + 1)
  BY <1>2, <1>3, HasherReads
<1>5. QED
  BY <1>2, <1>4 DEF OnWay

\* place_find ends at a node on the way, in a slot that names no node: there
\* are fewer levels than nodes, so that its turns suffice.
LEMMA WalkEnds ==
    ASSUME NEW lev, NEW w, Trie(tree, nodeSlot, entrySlot, keys, lev, w), NEW k \in Keys
    PROVE  \E n \in OnWay(k, lev, w) :
             PlaceFind(k) = Stop(k, lev, n) /\ tree[n][DigitAt(k, lev[n])] >= 0
<1> DEFINE at(n, h) == [entry |-> tree[n][Current(h)], node |-> n, hasher |-> h]
           down(p) == IF p.entry >= 0 THEN p ELSE at(-p.entry, NextDigit(p.hasher))
           P(f) == f = [n \in 0 .. Len(tree) |->
                          IF n = 0 THEN at(Root, Hasher(k)) ELSE down(f[n - 1])]
           W == OnWay(k, lev, w)
           V == {Stop(k, lev, n) : n \in W}
           step == [p \in V |-> down(p)]
<1>1. PICK L \in Nat : L = Len(tree) /\ 1 \in 1 .. L
  <2>1. 1 \in 1 .. Len(tree) /\ Len(tree) \in Nat
    BY LenProperties DEF Trie, Typed
  <2>2. QED
    BY <2>1
<1>2. ASSUME NEW n \in W
      PROVE  /\ lev[n] \in Nat /\ lev[n] < Word /\ lev[n] < L
             /\ tree[n][DigitAt(k, lev[n])] \in Int
             /\ Stop(k, lev, n) = at(n, HasherAt(k, lev[n]))
  <2>1. n \in 1 .. Len(tree)
    BY DEF OnWay
  <2>2. PICK l \in Nat : l = lev[n] /\ l < Word /\ l < L
    BY <2>1, <1>1, LevelTypes, LevelsAreFew
  <2>3. DigitAt(k, l) \in Slots /\ tree[n] \in Rows
    BY <2>1, <2>2, DigitType, LevelTypes
  <2>4. tree[n][DigitAt(k, l)] \in Int
    BY <2>3 DEF Rows
  <2>5. Current(HasherAt(k, l)) = DigitAt(k, l)
    BY <2>2, HasherReads
  <2>6. QED
    BY <2>2, <2>4, <2>5 DEF Stop
<1>3. ASSUME NEW n \in W
      PROVE  \E m \in W : /\ down(Stop(k, lev, n)) = Stop(k, lev, m)
                          /\ IF tree[n][DigitAt(k, lev[n])] >= 0 THEN m = n
                             ELSE lev[m] = lev[n] + 1
  <2>1. PICK c \in Int : c = tree[n][DigitAt(k, lev[n])]
    BY <1>2
  <2>2. Stop(k, lev, n).entry = c /\ Stop(k, lev, n).hasher = HasherAt(k, lev[n])
    BY <2>1 DEF Stop
  <2>3. CASE c >= 0
    <3>1. down(Stop(k, lev, n)) = Stop(k, lev, n)
      BY <2>2, <2>3
    <3> HIDE DEF down
    <3>2. QED
      BY <3>1, <2>1, <2>3
  <2>4. CASE c < 0
    <3>1. -c \in W /\ lev[-c] = lev[n] + 1 /\ NextDigit(HasherAt(k, lev[n])) = HasherAt(k, lev[-c])
      BY <2>1, <2>4, StepsDownTheWay
    <3>2. down(Stop(k, lev, n)) = at(-c, HasherAt(k, lev[-c]))
      BY <2>2, <2>4, <3>1
    <3>3. Stop(k, lev, -c) = at(-c, HasherAt(k, lev[-c]))
      BY <3>1, <1>2
    <3>4. ~ (c >= 0)
      BY <2>1, <2>4
    <3> HIDE DEF down, at
    <3>5. QED
      BY <2>1, <3>1, <3>2, <3>3, <3>4
  <2>5. QED
    BY <2>1, <2>3, <2>4
<1>4. 1 \in W /\ at(Root, Hasher(k)) = Stop(k, lev, 1)
  <2>1. lev[1] = 0 /\ 1 \in 1 .. Len(tree)
    BY <1>1, LevelTypes
  <2>2. 1 \in W
    BY <2>1 DEF OnWay, Agree
  <2>3. Hasher(k) = HasherAt(k, lev[1])
    BY <2>1 DEF Hasher, HasherAt, FirstWord
  <2>4. QED
    BY <2>2, <2>3, <1>2 DEF Root
<1>5. PICK g \in [0 .. L -> V] : /\ g[0] = at(Root, Hasher(k))
                                 /\ \A n \in 1 .. L : g[n] = step[g[n - 1]]
  <2>1. at(Root, Hasher(k)) \in V
    BY <1>4
  <2>2. step \in [V -> V]
    <3> HIDE DEF down
    <3>1. QED
      BY <1>3
  <2>3. PICK base \in V : base = at(Root, Hasher(k))
    BY <2>1
  <2> HIDE DEF V, step, at, W
  <2>4. Iterable(L, V, base, step)
    BY <2>2 DEF Iterable
  <2>5. PICK g : Iterates(L, V, base, step, g)
    BY <2>4, Iteration
  <2>6. QED
    BY <2>3, <2>5 DEF Iterates
<1>6. \A n \in 1 .. L : n - 1 \in 0 .. L /\ g[n - 1] \in V /\ g[n] = down(g[n - 1])
  <2>1. \A n \in 1 .. L : n - 1 \in 0 .. L
    OBVIOUS
  <2> HIDE DEF V, down
  <2>2. \A n \in 1 .. L : g[n - 1] \in V
    BY <2>1, <1>5
  <2>3. QED
    BY <2>1, <2>2, <1>5
<1>7. P(g)
  <2> HIDE DEF V, down, at, step
  <2>1. g = [n \in 0 .. L |-> g[n]]
    BY <1>5
  <2>2. \A n \in 0 .. L : n = 0 \/ n \in 1 .. L
    OBVIOUS
  <2>3. \A n \in 0 .. L : g[n] = IF n = 0 THEN at(Root, Hasher(k)) ELSE down(g[n - 1])
    BY <2>2, <1>5, <1>6
  <2>4. QED
    BY <2>1, <2>3, <1>1
<1>8. PICK walk : walk = CHOOSE f : P(f)
  OBVIOUS
<1>9. P(walk)
  <2> HIDE DEF P
  <2>1. QED
    BY <1>7, <1>8
<1>10. PlaceFind(k) = walk[L]
  BY <1>1, <1>8 DEF PlaceFind
<1>11. walk[0] = at(Root, Hasher(k)) /\ \A n \in 1 .. L : walk[n] = down(walk[n - 1])
  <2> HIDE DEF down, at
  <2>1. QED
    BY <1>1, <1>9
<1> DEFINE Q(n) == n \in 0 .. L =>
                     \E m \in W : /\ walk[n] = Stop(k, lev, m)
                                  /\ tree[m][DigitAt(k, lev[m])] >= 0 \/ lev[m] >= n
           S == {n \in Nat : Q(n)}
<1>12. 0 \in S
  <2> HIDE DEF down, at
  <2>1. lev[1] >= 0
    BY <1>2, <1>4
  <2>2. QED
    BY <1>4, <1>11, <2>1
<1>13. ASSUME NEW n \in Nat, n \in S
       PROVE  n + 1 \in S
  <2>1. SUFFICES ASSUME n + 1 \in 0 .. L PROVE Q(n + 1)
    OBVIOUS
  <2>2. n \in 0 .. L /\ n + 1 \in 1 .. L /\ (n + 1) - 1 = n
    BY <2>1
  <2> HIDE DEF down, at
  <2>3. PICK m \in W : /\ walk[n] = Stop(k, lev, m)
                       /\ tree[m][DigitAt(k, lev[m])] >= 0 \/ lev[m] >= n
    BY <1>13, <2>2
  <2>4. walk[n + 1] = down(Stop(k, lev, m))
    BY <1>11, <2>2, <2>3
  <2>5. PICK b \in W : /\ walk[n + 1] = Stop(k, lev, b)
                       /\ IF tree[m][DigitAt(k, lev[m])] >= 0 THEN b = m
                          ELSE lev[b] = lev[m] + 1
    BY <1>3, <2>4
  <2>6. tree[b][DigitAt(k, lev[b])] >= 0 \/ lev[b] >= n + 1
    <3>1. lev[m] \in Nat /\ lev[b] \in Nat
      BY <1>2
    <3>2. QED
      BY <2>3, <2>5, <3>1
  <2>7. QED
    BY <2>5, <2>6
<1>14. L \in S
  <2> HIDE DEF S
  <2>1. Nat \subseteq S
    BY <1>12, <1>13, Induction
  <2>2. QED
    BY <2>1
<1>15. PICK m \in W : /\ walk[L] = Stop(k, lev, m)
                      /\ tree[m][DigitAt(k, lev[m])] >= 0 \/ lev[m] >= L
  BY <1>14
<1>16. ~ (lev[m] >= L)
  BY <1>2
<1>17. QED
  BY <1>10, <1>15, <1>16

\* A walk on the way of an entry's key that ends in a slot without a node ends
\* in the entry's slot.
LEMMA EntryAtEnd ==
    ASSUME NEW T, NEW N, NEW E, NEW K, NEW lev, NEW w, Trie(T, N, E, K, lev, w),
           NEW e \in 1 .. Len(K), NEW n \in 1 .. Len(T), Agree(FirstWord(K[e]), w[n], lev[n]),
           T[n][DigitAt(K[e], lev[n])] >= 0
    PROVE  T[n][DigitAt(K[e], lev[n])] = e
<1>1. K[e] \in Keys
  BY ElementOfSeq DEF Trie, Typed
<1>2. PICK k \in Keys : /\ k = K[e] /\ Agree(FirstWord(k), w[n], lev[n])
                        /\ T[n][DigitAt(k, lev[n])] >= 0
  BY <1>1
<1>4. n \in 1 .. Len(T) /\ Agree(FirstWord(k), w[n], lev[n])
  BY <1>2
<1>5. PICK q \in 1 .. Len(T), s \in Slots : T[q][s] = e
  BY DEF Trie, Linked
<1>6. Agree(FirstWord(k), w[q], lev[q]) /\ DigitAt(k, lev[q]) = s
  BY <1>2, <1>5 DEF Trie, Sorted, Hangs, DigitAt
<1>7. PICK l \in Nat : l = lev[n] /\ l < Word
  BY <1>4, LevelTypes
<1>8. PICK h \in Nat : h = lev[q] /\ h < Word
  BY LevelTypes
<1>9. e \in Nat \ {0}
  BY LenProperties DEF Trie, Typed
<1>10. PICK x \in Slots, y \in Slots : x = DigitAt(k, l) /\ y = DigitAt(k, h)
  BY <1>7, <1>8, DigitType
<1>11. T[n][x] >= 0 /\ T[q][y] = e /\ T[n][x] \in Int
  BY <1>2, <1>4, <1>5, <1>6, <1>7, <1>8, <1>10, LevelTypes DEF Rows
<1>12. CASE l < h
  <2>1. PICK a \in 1 .. Len(T) : /\ lev[a] = l /\ Agree(w[a], w[q], l)
                                    /\ w[q][l + 1] \in Slots /\ T[a][w[q][l + 1]] < 0
    BY <1>12, <1>8, WayDown
  <2>2. l + 1 \in 1 .. h /\ \A i \in 1 .. l : i \in 1 .. h
    BY <1>12
  <2>3. w[q][l + 1] = x
    BY <1>6, <1>8, <1>10, <2>2 DEF Agree, DigitAt
  <2>4. Agree(w[a], w[n], l)
    BY <1>4, <1>6, <1>7, <1>8, <2>1, <2>2 DEF Agree
  <2>5. a = n
    BY <1>4, <1>7, <2>1, <2>4, SamePath
  <2>6. QED
    BY <1>11, <2>1, <2>3, <2>5
<1>13. CASE h < l
  <2>1. PICK a \in 1 .. Len(T) : /\ lev[a] = h /\ Agree(w[a], w[n], h)
                                    /\ w[n][h + 1] \in Slots /\ T[a][w[n][h + 1]] < 0
    BY <1>13, <1>4, <1>7, WayDown
  <2>2. h + 1 \in 1 .. l /\ \A i \in 1 .. h : i \in 1 .. l
    BY <1>13
  <2>3. w[n][h + 1] = y
    BY <1>4, <1>7, <1>10, <2>2 DEF Agree, DigitAt
  <2>4. Agree(w[a], w[q], h)
    BY <1>4, <1>6, <1>7, <1>8, <2>1, <2>2 DEF Agree
  <2>5. a = q
    BY <1>8, <2>1, <2>4, SamePath
  <2>6. QED
    BY <1>9, <1>11, <2>1, <2>3, <2>5
<1>14. CASE l = h
  <2>1. lev[n] = lev[q]
    BY <1>7, <1>8, <1>14
  <2>2. n = q
    <3>1. Agree(FirstWord(k), w[q], lev[n])
      BY <1>6, <2>1, Zenon
    <3>2. Agree(w[n], w[q], lev[n])
      BY <1>4, <3>1 DEF Agree
    <3>3. QED
      BY <1>4, <2>1, <3>2, SamePath
  <2>3. T[n][DigitAt(k, lev[n])] = e
    BY <1>7, <1>10, <1>11, <1>14, <2>2
  <2>4. QED
    BY <1>2, <2>3
<1>15. QED
  BY <1>12, <1>13, <1>14

\* The node and the slot of an entry are where the walk of its key ends.
LEMMA EntryIsFound ==
    ASSUME NEW lev, NEW w, Trie(tree, nodeSlot, entrySlot, keys, lev, w),
           NEW e \in 1 .. Len(keys)
    PROVE  PlaceFind(keys[e]).entry = e
<1>1. PICK k \in Keys : k = keys[e]
  BY ElementOfSeq DEF Trie, Typed
<1>2. PICK n \in OnWay(k, lev, w) :
        PlaceFind(k) = Stop(k, lev, n) /\ tree[n][DigitAt(k, lev[n])] >= 0
  BY WalkEnds
<1>3. n \in 1 .. Len(tree) /\ Agree(FirstWord(k), w[n], lev[n])
  BY DEF OnWay
<1>4. tree[n][DigitAt(k, lev[n])] = e
  BY <1>1, <1>2, <1>3, EntryAtEnd
<1>5. QED
  BY <1>1, <1>2, <1>4 DEF Stop

-----------------------------------------------------------------------------
(* What the invariant says of find                                           *)

\* find returns the entry of its key, or 0.
LEMMA FindIs ==
    ASSUME NEW lev, NEW w, Trie(tree, nodeSlot, entrySlot, keys, lev, w), NEW k \in Keys
    PROVE  /\ Find(k) \in 0 .. Len(keys)
           /\ Find(k) # 0 => keys[Find(k)] = k
           /\ \A e \in 1 .. Len(keys) : keys[e] = k => Find(k) = e
<1>1. PICK at : at = PlaceFind(k)
  OBVIOUS
<1>2. Find(k) = IF at.entry > 0 /\ keys[at.entry] = k THEN at.entry ELSE 0
  BY <1>1 DEF Find
<1>3. PICK n \in OnWay(k, lev, w) : at = Stop(k, lev, n) /\ tree[n][DigitAt(k, lev[n])] >= 0
  BY <1>1, WalkEnds
<1>4. n \in 1 .. Len(tree)
  BY DEF OnWay
<1>5. PICK l \in Nat : l = lev[n] /\ l < Word
  BY <1>4, LevelTypes
<1>6. PICK s \in Slots : s = DigitAt(k, l)
  BY <1>5, DigitType
<1>7. tree[n] \in Rows /\ Len(keys) \in Nat
  BY <1>4, LevelTypes, LenProperties DEF Trie, Typed
<1>8. at.entry = tree[n][s]
  BY <1>3, <1>5, <1>6 DEF Stop
<1>9. PICK c \in Int : c = at.entry
  BY <1>7, <1>8 DEF Rows
<1>10. c > 0 => c <= Len(keys)
  BY <1>4, <1>8, <1>9 DEF Trie, Linked
<1>11. Find(k) \in 0 .. Len(keys) /\ (Find(k) # 0 => keys[Find(k)] = k)
  BY <1>2, <1>7, <1>9, <1>10
<1>12. ASSUME NEW e \in 1 .. Len(keys), keys[e] = k
       PROVE  Find(k) = e
  <2>1. at.entry = e
    BY <1>1, <1>12, EntryIsFound
  <2>2. e > 0
    BY <1>7
  <2>3. QED
    BY <1>2, <1>12, <2>1, <2>2
<1>13. QED
  BY <1>11, <1>12

\* The reverse indexes are right.
LEMMA IndexesInverse ==
    ASSUME IInv
    PROVE  IndexesAreInverse
<1>1. PICK lw : Trie(tree, nodeSlot, entrySlot, keys, lw[1], lw[2])
  BY DEF IInv, Sound
<1>2. /\ Typed(tree, nodeSlot, entrySlot, keys) /\ Linked(tree, nodeSlot, entrySlot, Len(tree), Len(keys))
      /\ Full(tree, Len(tree), Root)
  BY <1>1 DEF IInv, Sound, Trie
<1>3. /\ DOMAIN nodeSlot = 1 .. Len(tree) /\ DOMAIN tree = 1 .. Len(tree) /\ Len(tree) \in Nat
      /\ DOMAIN entrySlot = 1 .. Len(keys) /\ DOMAIN keys = 1 .. Len(keys)
  BY <1>2, LenProperties DEF Typed
<1>4. ASSUME NEW n \in DOMAIN tree, NEW s \in Slots, NEW child, child = tree[n][s]
      PROVE  /\ child > 0 => entrySlot[child] = <<n, s>>
             /\ child < 0 => nodeSlot[-child] = <<n, s>>
  BY <1>2, <1>3, <1>4 DEF Linked
<1>5. ASSUME NEW e \in DOMAIN keys
      PROVE  tree[entrySlot[e][1]][entrySlot[e][2]] = e
  <2>1. PICK n \in 1 .. Len(tree), s \in Slots : entrySlot[e] = <<n, s>> /\ tree[n][s] = e
    BY <1>2, <1>3 DEF Linked
  <2>2. QED
    BY <2>1
<1>6. ASSUME NEW n \in DOMAIN tree \ {Root}
      PROVE  tree[n] # Blank /\ tree[nodeSlot[n][1]][nodeSlot[n][2]] = -n
  <2>1. n \in 2 .. Len(tree)
    BY <1>3 DEF Root
  <2>2. PICK p \in 1 .. Len(tree), s \in Slots : nodeSlot[n] = <<p, s>> /\ tree[p][s] = -n
    BY <1>2, <2>1 DEF Linked
  <2>3. PICK r \in Slots : tree[n][r] # 0
    BY <1>2, <2>1 DEF Full, Root
  <2>4. tree[n] # Blank
    BY <2>3 DEF Blank
  <2>5. QED
    BY <2>2, <2>4
<1>7. QED
  BY <1>3, <1>4, <1>5, <1>6 DEF IndexesAreInverse

\* The invariant says what is checked.
LEMMA InvFinds ==
    ASSUME IInv
    PROVE  FindsEntries
<1>1. PICK lw : Trie(tree, nodeSlot, entrySlot, keys, lw[1], lw[2])
  BY DEF IInv, Sound
<1>2. Distinct(keys, Len(keys)) /\ DOMAIN keys = 1 .. Len(keys) /\ Len(keys) \in Nat
  BY <1>1, LenProperties DEF IInv, Sound, Trie, Typed
<1>3. ASSUME NEW k \in Keys
      PROVE  Find(k) = Max({0} \cup {i \in DOMAIN keys : keys[i] = k})
  <2>1. PICK L \in Nat : L = Len(keys)
    BY <1>2
  <2>2. PICK f \in 0 .. L : f = Find(k)
    BY <1>1, <2>1, FindIs
  <2>3. (f # 0 => keys[f] = k) /\ \A e \in 1 .. L : keys[e] = k => f = e
    BY <1>1, <2>1, <2>2, FindIs
  <2>4. PICK S : S = {0} \cup {i \in 1 .. L : keys[i] = k}
    OBVIOUS
  <2>5. S \subseteq 0 .. L /\ S # {} /\ f \in S /\ \A y \in S : y = 0 \/ y = f
    BY <2>3, <2>4
  <2>6. Max(S) \in S /\ \A y \in S : Max(S) >= y
    BY <2>1, <2>5, GreatestOf
  <2>7. Max(S) = f
    <3>1. PICK x \in 0 .. L : x = Max(S)
      BY <2>5, <2>6
    <3>2. (x = 0 \/ x = f) /\ x >= f
      BY <2>5, <2>6, <3>1
    <3>3. x = f
      BY <3>2
    <3>4. QED
      BY <3>1, <3>3
  <2>8. QED
    BY <1>2, <2>1, <2>2, <2>4, <2>7
<1>4. QED
  BY <1>3, IndexesInverse DEF FindsEntries
-----------------------------------------------------------------------------
(* Sequences                                                                 *)

\* One slot of a tree is written.
LEMMA WrittenSlot ==
    ASSUME NEW T \in Seq(Rows), NEW n \in 1 .. Len(T), NEW s \in Slots, NEW v \in Int
    PROVE  /\ [T EXCEPT ![n][s] = v] \in Seq(Rows)
           /\ Len([T EXCEPT ![n][s] = v]) = Len(T)
           /\ \A m \in 1 .. Len(T), r \in Slots :
                [T EXCEPT ![n][s] = v][m][r] = IF m = n /\ r = s THEN v ELSE T[m][r]
<1>1. T[n] \in Rows
  BY ElementOfSeq
<1>2. [T[n] EXCEPT ![s] = v] \in Rows
  BY <1>1 DEF Rows
<1>3. PICK row \in Rows : row = [T[n] EXCEPT ![s] = v]
  BY <1>2
<1>4. [T EXCEPT ![n][s] = v] = [T EXCEPT ![n] = row]
  BY <1>3
<1>5. /\ [T EXCEPT ![n] = row] \in Seq(Rows) /\ Len([T EXCEPT ![n] = row]) = Len(T)
      /\ \A m \in 1 .. Len(T) : [T EXCEPT ![n] = row][m] = IF m = n THEN row ELSE T[m]
  BY ExceptSeq
<1>6. \A r \in Slots : row[r] = IF r = s THEN v ELSE T[n][r]
  BY <1>1, <1>3 DEF Rows
<1>7. ASSUME NEW m \in 1 .. Len(T), NEW r \in Slots
      PROVE  [T EXCEPT ![n][s] = v][m][r] = IF m = n /\ r = s THEN v ELSE T[m][r]
  <2>1. PICK R : R = [T EXCEPT ![n][s] = v]
    OBVIOUS
  <2>2. R[m] = IF m = n THEN row ELSE T[m]
    BY <1>4, <1>5, <2>1
  <2>3. R[m][r] = IF m = n /\ r = s THEN v ELSE T[m][r]
    <3>1. CASE m = n
      BY <1>6, <2>2, <3>1
    <3>2. CASE m # n
      BY <2>2, <3>2
    <3>3. QED
      BY <3>1, <3>2
  <2>4. QED
    BY <2>1, <2>3
<1>8. QED
  BY <1>4, <1>5, <1>7

Written(T, U, n, s, v) == U = [T EXCEPT ![n][s] = v]

\* The same of a tree by its name.
LEMMA WrittenIs ==
    ASSUME NEW T \in Seq(Rows), NEW M \in Nat, M = Len(T), NEW n \in 1 .. M, NEW s \in Slots,
           NEW v \in Int, NEW U, Written(T, U, n, s, v)
    PROVE  /\ U \in Seq(Rows) /\ Len(U) = M
           /\ \A m \in 1 .. M, r \in Slots : U[m][r] = IF m = n /\ r = s THEN v ELSE T[m][r]
<1>1. U = [T EXCEPT ![n][s] = v] /\ n \in 1 .. Len(T)
  BY DEF Written
<1>2. /\ [T EXCEPT ![n][s] = v] \in Seq(Rows)
      /\ Len([T EXCEPT ![n][s] = v]) = Len(T)
      /\ \A m \in 1 .. Len(T), r \in Slots :
           [T EXCEPT ![n][s] = v][m][r] = IF m = n /\ r = s THEN v ELSE T[m][r]
  BY <1>1, WrittenSlot
<1>3. QED
  BY <1>1, <1>2

\* Numbers with the same negation are the same.
LEMMA SameNegated ==
    ASSUME NEW a \in Int, NEW b \in Int, -a = -b
    PROVE  a = b
OBVIOUS

\* One more element.
LEMMA AppendedAt ==
    ASSUME NEW X, NEW S \in Seq(X), NEW x \in X
    PROVE  /\ Append(S, x) \in Seq(X) /\ Len(Append(S, x)) = Len(S) + 1 /\ Len(S) \in Nat
           /\ \A i \in 1 .. Len(S) : Append(S, x)[i] = S[i]
           /\ Append(S, x)[Len(S) + 1] = x
BY AppendProperties, LenProperties

\* A sequence without its last element.
LEMMA FrontOf ==
    ASSUME NEW X, NEW S \in Seq(X), Len(S) > 0
    PROVE  /\ Front(S) \in Seq(X) /\ Len(Front(S)) = Len(S) - 1 /\ Len(S) \in Nat
           /\ \A i \in 1 .. Len(S) - 1 : Front(S)[i] = S[i]
<1>1. PICK L \in Nat : L = Len(S) /\ L > 0
  BY LenProperties
<1>2. \A i \in 1 .. L - 1 : i \in 1 .. Len(S) /\ S[i] \in X
  BY <1>1, ElementOfSeq
<1>3. /\ SubSeq(S, 1, L - 1) \in Seq(X)
      /\ Len(SubSeq(S, 1, L - 1)) = IF 1 <= L - 1 THEN L - 1 - 1 + 1 ELSE 0
      /\ \A i \in 1 .. L - 1 - 1 + 1 : SubSeq(S, 1, L - 1)[i] = S[1 + i - 1]
  BY <1>1, <1>2, SubSeqProperties
<1>4. Len(SubSeq(S, 1, L - 1)) = L - 1
  BY <1>1, <1>3
<1>5. \A i \in 1 .. L - 1 : i \in 1 .. L - 1 - 1 + 1 /\ 1 + i - 1 = i
  BY <1>1
<1>6. QED
  BY <1>1, <1>3, <1>4, <1>5 DEF Front

-----------------------------------------------------------------------------
(* insert                                                                    *)

\* A new key keeps the keys apart.
LEMMA AddedKey ==
    ASSUME NEW K \in Seq(Keys), Distinct(K, Len(K)), NEW k \in Keys,
           \A e \in 1 .. Len(K) : K[e] # k
    PROVE  Distinct(Append(K, k), Len(K) + 1)
<1>1. PICK L \in Nat : L = Len(K)
  BY LenProperties
<1>2. PICK Q : Q = Append(K, k)
  OBVIOUS
<1>3. /\ Len(Q) = L + 1 /\ Q[L + 1] = k
      /\ \A i \in 1 .. L : Q[i] = K[i]
  BY <1>1, <1>2, AppendedAt
<1>4. \A i \in 1 .. L + 1 : i \in 1 .. L \/ i = L + 1
  OBVIOUS
<1>5. ASSUME NEW i \in 1 .. L + 1, NEW j \in 1 .. L + 1, Q[i] = Q[j]
      PROVE  i = j
  BY <1>1, <1>3, <1>4, <1>5 DEF Distinct
<1>6. QED
  BY <1>1, <1>2, <1>5 DEF Distinct

\* An entry in an empty slot its word leads to.
LEMMA AddedEntry ==
    ASSUME NEW T, NEW N, NEW E, NEW K, NEW lev, NEW w, Trie(T, N, E, K, lev, w),
           NEW n \in 1 .. Len(T), NEW s \in Slots, T[n][s] = 0,
           NEW k \in Keys, Hangs(lev, w, n, s, FirstWord(k)),
           NEW U, Written(T, U, n, s, Len(K) + 1)
    PROVE  /\ Trie(U, N, Append(E, <<n, s>>), Append(K, k), lev, w)
           /\ \A at : Full(T, Len(T), at) => Full(U, Len(U), at)
<1> DEFINE F == Append(E, <<n, s>>)
           Q == Append(K, k)
<1>1. PICK L \in Nat, M \in Nat : L = Len(K) /\ M = Len(T) /\ n \in Nat /\ M >= 1
  BY LevelTypes, LenProperties DEF Trie, Typed
<1>2. /\ U \in Seq(Rows) /\ Len(U) = M
      /\ \A m \in 1 .. M, r \in Slots : U[m][r] = IF m = n /\ r = s THEN L + 1 ELSE T[m][r]
  <2>1. PICK v \in Int : v = Len(K) + 1 /\ v = L + 1
    BY <1>1
  <2>2. T \in Seq(Rows) /\ U = [T EXCEPT ![n][s] = v]
    BY <2>1 DEF Trie, Typed, Written
  <2>3. /\ [T EXCEPT ![n][s] = v] \in Seq(Rows) /\ Len([T EXCEPT ![n][s] = v]) = Len(T)
        /\ \A m \in 1 .. Len(T), r \in Slots :
             [T EXCEPT ![n][s] = v][m][r] = IF m = n /\ r = s THEN v ELSE T[m][r]
    BY <2>2, WrittenSlot
  <2>4. QED
    BY <1>1, <2>1, <2>2, <2>3
<1>3. <<n, s>> \in Places
  BY <1>1 DEF Places
<1>4. /\ F \in Seq(Places) /\ Len(F) = L + 1 /\ F[L + 1] = <<n, s>>
      /\ \A i \in 1 .. L : F[i] = E[i]
  BY <1>1, <1>3, AppendedAt DEF Trie, Typed
<1>5. /\ Q \in Seq(Keys) /\ Len(Q) = L + 1 /\ Q[L + 1] = k
      /\ \A i \in 1 .. L : Q[i] = K[i]
  BY <1>1, AppendedAt DEF Trie, Typed
<1>6. \A m \in 1 .. M, r \in Slots : T[m][r] \in Int
  BY <1>1, LevelTypes DEF Rows
<1> HIDE DEF F, Q
<1>0. Linked(T, N, E, M, L) /\ Sorted(T, K, M, L, lev, w)
  BY <1>1 DEF Trie
<1>7. Typed(U, N, F, Q)
  BY <1>1, <1>2, <1>4, <1>5 DEF Trie, Typed
<1>8. Linked(U, N, F, M, L + 1)
  <2>1. ASSUME NEW m \in 1 .. M, NEW r \in Slots
        PROVE  /\ U[m][r] > 0 => U[m][r] <= L + 1 /\ F[U[m][r]] = <<m, r>>
               /\ U[m][r] < 0 => -U[m][r] \in 2 .. M /\ N[-U[m][r]] = <<m, r>>
    <3>1. CASE m = n /\ r = s
      BY <1>2, <1>4, <3>1
    <3>2. CASE ~ (m = n /\ r = s)
      <4>1. PICK c \in Int : c = T[m][r] /\ c = U[m][r]
        BY <1>2, <1>6, <3>2
      <4>2. /\ c > 0 => c <= L /\ E[c] = <<m, r>>
            /\ c < 0 => -c \in 2 .. M /\ N[-c] = <<m, r>>
        <5>1. /\ T[m][r] > 0 => T[m][r] <= L /\ E[T[m][r]] = <<m, r>>
              /\ T[m][r] < 0 => -T[m][r] \in 2 .. M /\ N[-T[m][r]] = <<m, r>>
          BY <1>0 DEF Linked
        <5>2. QED
          BY <4>1, <5>1
      <4>3. c > 0 => c \in 1 .. L
        BY <4>2
      <4>4. QED
        <5>1. c > 0 => c <= L + 1 /\ F[c] = <<m, r>>
          BY <1>4, <4>2, <4>3
        <5>2. QED
          BY <4>1, <4>2, <5>1
    <3>3. QED
      BY <3>1, <3>2
  <2>2. ASSUME NEW e \in 1 .. L + 1
        PROVE  \E m \in 1 .. M, r \in Slots : F[e] = <<m, r>> /\ U[m][r] = e
    <3>1. CASE e = L + 1
      BY <1>1, <1>2, <1>4, <3>1
    <3>2. CASE e \in 1 .. L
      <4>1. PICK m \in 1 .. M, r \in Slots : E[e] = <<m, r>> /\ T[m][r] = e
        BY <1>0, <3>2 DEF Linked
      <4>2. ~ (m = n /\ r = s)
        BY <3>2, <4>1
      <4>3. QED
        BY <1>2, <1>4, <3>2, <4>1, <4>2
    <3>3. QED
      BY <3>1, <3>2
  <2>3. ASSUME NEW c \in 2 .. M
        PROVE  \E m \in 1 .. M, r \in Slots : N[c] = <<m, r>> /\ U[m][r] = -c
    <3>1. PICK m \in 1 .. M, r \in Slots : N[c] = <<m, r>> /\ T[m][r] = -c
      BY <1>0 DEF Linked
    <3>2. -c # 0
      OBVIOUS
    <3>3. ~ (m = n /\ r = s)
      BY <3>1, <3>2
    <3>4. QED
      BY <1>2, <3>1, <3>3
  <2>4. QED
    BY <2>1, <2>2, <2>3 DEF Linked
<1>9. Leveled(M, lev, w)
  BY <1>1 DEF Trie
<1>10. Sorted(U, Q, M, L + 1, lev, w)
  <2>1. ASSUME NEW p \in 1 .. M, NEW m \in 1 .. M, NEW r \in Slots, U[p][r] = -m
        PROVE  Below(lev, w, p, r, m)
    <3>1. ~ (p = n /\ r = s)
      BY <1>2, <2>1
    <3>2. T[p][r] = -m
      BY <1>2, <2>1, <3>1
    <3>3. QED
      BY <1>0, <3>2 DEF Sorted
  <2>2. ASSUME NEW m \in 1 .. M, NEW r \in Slots, NEW e \in 1 .. L + 1, U[m][r] = e
        PROVE  Hangs(lev, w, m, r, FirstWord(Q[e]))
    <3>1. CASE m = n /\ r = s
      <4>1. e = L + 1
        BY <1>2, <2>2, <3>1
      <4>2. QED
        BY <1>5, <3>1, <4>1
    <3>2. CASE ~ (m = n /\ r = s)
      <4>1. T[m][r] = e
        BY <1>2, <2>2, <3>2
      <4>2. e \in 1 .. L
        BY <1>0, <1>1, <4>1 DEF Linked
      <4>3. QED
        BY <1>0, <1>5, <4>1, <4>2 DEF Sorted
    <3>3. QED
      BY <3>1, <3>2
  <2>3. QED
    BY <2>1, <2>2 DEF Sorted
<1>11. ASSUME NEW at, Full(T, M, at)
       PROVE  Full(U, M, at)
  <2>1. ASSUME NEW m \in 2 .. M, m # at
        PROVE  \E r \in Slots : U[m][r] # 0
    <3>1. PICK r \in Slots : T[m][r] # 0
      BY <1>11, <2>1 DEF Full
    <3>2. m \in 1 .. M
      OBVIOUS
    <3>3. U[m][r] # 0
      BY <1>2, <3>1, <3>2
    <3>4. QED
      BY <3>3
  <2>2. QED
    BY <2>1 DEF Full
<1>12. QED
  BY <1>1, <1>2, <1>5, <1>7, <1>8, <1>9, <1>10, <1>11 DEF Trie, F, Q

\* A hasher whose depth has fallen behind: SiblingHasher makes one.
Lagging(k, l, d) == [key |-> k, word |-> FirstWord(k), used |-> l, depth |-> d]

\* Looking ahead within the first word.
LEMMA AheadIs ==
    ASSUME NEW k \in Keys, NEW l \in Nat, NEW d \in Nat, d <= l, NEW n \in Nat, l + n < Word
    PROVE  /\ Ahead(Lagging(k, l, d), n) = Lagging(k, l + n, d + n)
           /\ Current(Ahead(Lagging(k, l, d), n)) = DigitAt(k, l + n)
<1>0. PICK z \in Nat \ {0} : z = Word
  BY UnorderedVectorAssumption
<1> DEFINE h == Lagging(k, l, d)
           P(f) == f = [i \in 0 .. n |-> IF i = 0 THEN h ELSE NextDigit(f[i - 1])]
           g == [i \in 0 .. n |-> Lagging(k, l + i, d + i)]
<1>1. ASSUME NEW i \in 1 .. n
      PROVE  NextDigit(Lagging(k, l + (i - 1), d + (i - 1))) = Lagging(k, l + i, d + i)
  <2>1. PICK x \in Nat, y \in Nat : /\ x = d + (i - 1) /\ y = l + (i - 1) /\ x + 1 = d + i
                                    /\ y + 1 = l + i /\ x + 1 < z /\ x + 1 > 0
    BY <1>0
  <2>2. (x + 1) % z = x + 1
    BY <2>1
  <2>3. (x + 1) % Word # 0
    BY <1>0, <2>1, <2>2
  <2>4. NextDigit(Lagging(k, y, x)) = Lagging(k, y + 1, x + 1)
    BY <2>3 DEF NextDigit, Lagging
  <2>5. QED
    BY <2>1, <2>4
<1>2. P(g)
  <2>1. \A i \in 0 .. n : i = 0 \/ (i \in 1 .. n /\ i - 1 \in 0 .. n)
    OBVIOUS
  <2>2. g[0] = h
    OBVIOUS
  <2>3. ASSUME NEW i \in 1 .. n
        PROVE  g[i] = NextDigit(g[i - 1])
    <3>1. i \in 0 .. n /\ i - 1 \in 0 .. n
      OBVIOUS
    <3>2. g[i] = Lagging(k, l + i, d + i) /\ g[i - 1] = Lagging(k, l + (i - 1), d + (i - 1))
      BY <3>1
    <3> HIDE DEF g
    <3>3. QED
      BY <1>1, <3>2
  <2>4. g = [i \in 0 .. n |-> g[i]]
    OBVIOUS
  <2> HIDE DEF g, h
  <2>5. \A i \in 0 .. n : g[i] = IF i = 0 THEN h ELSE NextDigit(g[i - 1])
    BY <2>1, <2>2, <2>3
  <2>6. QED
    BY <2>4, <2>5
<1>3. PICK a : a = CHOOSE f : P(f)
  OBVIOUS
<1>4. P(a)
  <2> HIDE DEF P
  <2>1. QED
    BY <1>2, <1>3
<1>5. Ahead(h, n) = a[n]
  BY <1>3 DEF Ahead
<1> DEFINE S == {i \in Nat : i <= n => a[i] = Lagging(k, l + i, d + i)}
<1>6. 0 \in S
  BY <1>4
<1>7. ASSUME NEW i \in Nat, i \in S
      PROVE  i + 1 \in S
  <2>1. SUFFICES ASSUME i + 1 <= n PROVE a[i + 1] = Lagging(k, l + (i + 1), d + (i + 1))
    OBVIOUS
  <2>2. i + 1 \in 1 .. n /\ i + 1 \in 0 .. n /\ (i + 1) - 1 = i /\ i <= n
    BY <2>1
  <2>3. a[i + 1] = NextDigit(a[i])
    BY <1>4, <2>2
  <2>4. a[i] = Lagging(k, l + i, d + i)
    BY <1>7, <2>2
  <2>5. NextDigit(Lagging(k, l + i, d + i)) = Lagging(k, l + (i + 1), d + (i + 1))
    BY <1>1, <2>2
  <2>6. QED
    BY <2>3, <2>4, <2>5
<1>8. n \in S
  <2> HIDE DEF S
  <2>1. Nat \subseteq S
    BY <1>6, <1>7, Induction
  <2>2. QED
    BY <2>1
<1>9. a[n] = Lagging(k, l + n, d + n)
  BY <1>8
<1>10. Current(Lagging(k, l + n, d + n)) = DigitAt(k, l + n)
  BY DEF Current, Lagging, DigitAt
<1>11. QED
  BY <1>5, <1>9, <1>10

\* The hasher beside another one, within the first word.
LEMMA SiblingIs ==
    ASSUME NEW q \in Keys, NEW l \in Nat, l < Word
    PROVE  SiblingHasher(q, FirstWord(q), l) = Lagging(q, l, 0)
<1>1. PICK z \in Nat \ {0} : z = Word
  BY UnorderedVectorAssumption
<1>2. l % z = l
  BY <1>1
<1>3. l % Word = l /\ l - l = 0
  BY <1>1, <1>2
<1>4. QED
  BY <1>3 DEF SiblingHasher, Lagging, FirstWord

\* A chain goes down to the first digit in which two keys differ.
LEMMA ChainLength ==
    ASSUME NEW k \in Keys, NEW q \in Keys, FirstWord(k) # FirstWord(q),
           NEW l \in Nat, l < Word, Agree(FirstWord(k), FirstWord(q), l + 1),
           NEW n \in LevelsToSplit(Lagging(q, l, 0), HasherAt(k, l))
    PROVE  /\ n \in Nat \ {0} /\ l + n < Word
           /\ Agree(FirstWord(k), FirstWord(q), l + n)
           /\ DigitAt(k, l + n) # DigitAt(q, l + n)
           /\ \A i \in 0 .. n : Current(Ahead(HasherAt(k, l), i)) = DigitAt(k, l + i)
           /\ Current(Ahead(Lagging(q, l, 0), n)) = DigitAt(q, l + n)
<1> DEFINE v == FirstWord(k)
           u == FirstWord(q)
           g == Lagging(q, l, 0)
           h == HasherAt(k, l)
           D == {j \in 1 .. Word : v[j] # u[j]}
<1>1. v \in Words /\ u \in Words /\ Word \in Nat
  BY UnorderedVectorAssumption DEF FirstWord, Words
<1>2. PICK j \in D : \A i \in D : j <= i
  <2>1. D # {}
    BY <1>1 DEF Words
  <2>2. D \subseteq Nat
    BY <1>1
  <2> HIDE DEF D
  <2>3. QED
    BY <2>1, <2>2, SmallestOf
<1>3. j \in Nat /\ j <= Word /\ l + 1 < j
  <2>1. j \in 1 .. Word /\ v[j] # u[j]
    OBVIOUS
  <2>2. j \notin 1 .. l + 1
    BY <2>1 DEF Agree
  <2>3. QED
    BY <1>1, <2>1, <2>2
<1>4. \A i \in 1 .. j - 1 : v[i] = u[i]
  <2>1. \A i \in 1 .. j - 1 : i \in 1 .. Word /\ ~ (j <= i)
    BY <1>1, <1>3
  <2>2. QED
    BY <1>2, <2>1
<1>5. PICK d \in Nat : d = j - 1 - l /\ d > 0 /\ l + d < Word /\ l + d + 1 = j
  BY <1>1, <1>3
<1>6. h = Lagging(k, l, l)
  BY DEF HasherAt, Lagging
<1>7. ASSUME NEW i \in Nat, i <= d
      PROVE  Current(Ahead(h, i)) = DigitAt(k, l + i) /\ Current(Ahead(g, i)) = DigitAt(q, l + i)
  <2>1. l + i < Word /\ l <= l /\ 0 <= l
    BY <1>5, <1>7, <1>1
  <2>2. Current(Ahead(Lagging(k, l, l), i)) = DigitAt(k, l + i)
    BY <2>1, AheadIs
  <2>3. Current(Ahead(Lagging(q, l, 0), i)) = DigitAt(q, l + i)
    BY <2>1, AheadIs
  <2>4. QED
    BY <1>6, <2>2, <2>3
<1>8. DigitAt(k, l + d) # DigitAt(q, l + d)
  BY <1>2, <1>5 DEF DigitAt
<1>9. \A i \in Nat : i < d => DigitAt(k, l + i) = DigitAt(q, l + i)
  <2>1. \A i \in Nat : i < d => l + i + 1 \in 1 .. j - 1
    BY <1>5
  <2>2. QED
    BY <1>4, <2>1 DEF DigitAt
<1>10. /\ n \in 1 .. MaxLevels /\ Current(Ahead(g, n)) # Current(Ahead(h, n))
       /\ \A m \in 1 .. n - 1 : Current(Ahead(g, m)) = Current(Ahead(h, m))
  BY DEF LevelsToSplit
<1>11. n \in Nat /\ n > 0
  BY <1>10, UnorderedVectorAssumption
<1> HIDE DEF g, h, v, u, D
<1>12. n = d
  <2>1. ~ (n < d)
    BY <1>7, <1>9, <1>10, <1>11
  <2>2. ~ (n > d)
    <3>1. SUFFICES ASSUME n > d PROVE FALSE
      OBVIOUS
    <3>2. d \in 1 .. n - 1
      BY <1>5, <1>11, <3>1
    <3>3. Current(Ahead(g, d)) = Current(Ahead(h, d))
      BY <1>10, <3>2
    <3>4. QED
      BY <1>7, <1>8, <3>3
  <2>3. QED
    BY <2>1, <2>2, <1>11
<1>13. Agree(v, u, l + n)
  <2>1. \A i \in 1 .. l + n : i \in 1 .. j - 1
    BY <1>5, <1>12
  <2>2. QED
    BY <1>4, <2>1 DEF Agree
<1>14. \A i \in 0 .. n : Current(Ahead(h, i)) = DigitAt(k, l + i)
  BY <1>7, <1>12
<1>15. QED
  BY <1>5, <1>7, <1>8, <1>11, <1>12, <1>13, <1>14 DEF v, u, g, h

\* A chain of d nodes from slot s of node n down to the fork of entry e and
\* the new one, whose keys are q and k: the tree U, its indexes and keys.
ForkedTree(T, U, M, L, lev, n, s, k, q, e, d) ==
  /\ U \in Seq(Rows) /\ Len(U) = M + d
  /\ \A m \in 1 .. M, r \in Slots : U[m][r] = IF m = n /\ r = s THEN -(M + 1) ELSE T[m][r]
  /\ \A m \in M + 1 .. M + d - 1, r \in Slots :
       U[m][r] = IF r = DigitAt(k, lev[n] + (m - M)) THEN -(m + 1) ELSE 0
  /\ \A r \in Slots :
       U[M + d][r] = IF r = DigitAt(k, lev[n] + d) THEN L + 1
                     ELSE IF r = DigitAt(q, lev[n] + d) THEN e ELSE 0
ForkedNodes(N, P, M, lev, n, s, k, d) ==
  /\ P \in Seq(Places) /\ Len(P) = M + d
  /\ \A m \in 1 .. M : P[m] = N[m]
  /\ P[M + 1] = <<n, s>>
  /\ \A m \in M + 2 .. M + d : P[m] = <<m - 1, DigitAt(k, lev[n] + (m - 1 - M))>>
ForkedEntries(E, F, M, L, lev, n, k, q, e, d) ==
  /\ F \in Seq(Places) /\ Len(F) = L + 1
  /\ \A f \in 1 .. L : F[f] = IF f = e THEN <<M + d, DigitAt(q, lev[n] + d)>> ELSE E[f]
  /\ F[L + 1] = <<M + d, DigitAt(k, lev[n] + d)>>

\* Where a fork belongs: n is on the way of both keys, which part d levels below.
ForkPlace(T, K, lev, w, n, s, k, q, e, d) ==
  /\ T[n][s] = e /\ q = K[e]
  /\ Agree(FirstWord(k), w[n], lev[n]) /\ s = DigitAt(k, lev[n])
  /\ lev[n] + d < Word
  /\ Agree(FirstWord(k), FirstWord(q), lev[n] + d)
  /\ DigitAt(k, lev[n] + d) # DigitAt(q, lev[n] + d)

\* The levels and words of the chain continue those of n.
ForkLevels(lev, M, n, d) ==
  [m \in 1 .. M + d |-> IF m <= M THEN lev[m] ELSE lev[n] + (m - M)]
ForkWords(w, M, k, d) == [m \in 1 .. M + d |-> IF m <= M THEN w[m] ELSE FirstWord(k)]

\* The chain keeps the indexes right.
LEMMA ForkKeepsLinks ==
    ASSUME NEW T, NEW N, NEW E, NEW K, NEW lev, NEW w, Trie(T, N, E, K, lev, w),
           NEW M \in Nat, NEW L \in Nat, M = Len(T), L = Len(K),
           NEW n \in 1 .. M, NEW s \in Slots, NEW k \in Keys, NEW q \in Keys,
           NEW e \in 1 .. L, NEW d \in Nat, d > 0,
           ForkPlace(T, K, lev, w, n, s, k, q, e, d),
           NEW U, ForkedTree(T, U, M, L, lev, n, s, k, q, e, d),
           NEW P, ForkedNodes(N, P, M, lev, n, s, k, d),
           NEW F, ForkedEntries(E, F, M, L, lev, n, k, q, e, d)
    PROVE  Linked(U, P, F, M + d, L + 1)
<1>1. /\ M \in Nat /\ L \in Nat /\ M >= 1
      /\ \A m \in 1 .. M, r \in Slots : T[m][r] \in Int
  <2>1. M \in Nat /\ L \in Nat /\ M >= 1
    BY LenProperties DEF Trie, Typed
  <2>2. \A m \in 1 .. M : T[m] \in Rows
    BY ElementOfSeq DEF Trie, Typed
  <2>3. QED
    BY <2>1, <2>2 DEF Rows
<1>2. e \in Nat /\ e > 0
  OBVIOUS
<1>3. PICK l \in Nat : l = lev[n] /\ l + d < Word
  BY LevelTypes DEF ForkPlace
<1>4. T[n][s] = e
  BY DEF ForkPlace
<1>5. PICK x \in Slots, y \in Slots : /\ x = DigitAt(k, l + d) /\ y = DigitAt(q, l + d) /\ x # y
  <2>1. l + d \in Nat
    BY <1>2
  <2>2. QED
    BY <2>1, <1>3, <1>4, DigitType DEF ForkPlace
<1>6. ASSUME NEW m \in M + 1 .. M + d - 1
      PROVE  DigitAt(k, l + (m - M)) \in Slots
  <2>1. PICK i \in Nat : i = l + (m - M) /\ i < Word
    <3>1. m - M \in Nat /\ m - M < d
      OBVIOUS
    <3>2. PICK j \in Nat : j = m - M /\ j < d
      BY <3>1
    <3>3. PICK z \in Nat : z = Word
      BY UnorderedVectorAssumption
    <3>4. l + d < z
      BY <1>3, <3>3
    <3>5. l + j \in Nat /\ l + j < z
      BY <3>2, <3>4
    <3>6. QED
      BY <3>2, <3>3, <3>5
  <2>2. QED
    BY <2>1, <1>4, DigitType
<1>7. Linked(T, N, E, M, L)
  BY DEF Trie
<1>8. E[e] = <<n, s>>
  <2>1. T[n][s] > 0 => E[T[n][s]] = <<n, s>>
    BY <1>7 DEF Linked
  <2>2. QED
    BY <1>2, <1>4, <2>1
<1>9. ASSUME NEW m \in 1 .. M + d
      PROVE  m \in 1 .. M \/ m \in M + 1 .. M + d - 1 \/ m = M + d
  OBVIOUS
<1>10. ASSUME NEW m \in 1 .. M + d, NEW r \in Slots
       PROVE  /\ U[m][r] > 0 => U[m][r] <= L + 1 /\ F[U[m][r]] = <<m, r>>
              /\ U[m][r] < 0 => -U[m][r] \in 2 .. M + d /\ P[-U[m][r]] = <<m, r>>
  <2>1. CASE m \in 1 .. M /\ m = n /\ r = s
    <3>1. U[m][r] = -(M + 1) /\ P[M + 1] = <<m, r>>
      BY <2>1 DEF ForkedTree, ForkedNodes
    <3>2. M + 1 \in 2 .. M + d /\ - (-(M + 1)) = M + 1 /\ -(M + 1) < 0
      BY <1>1, <1>2
    <3>3. QED
      BY <3>1, <3>2
  <2>2. CASE m \in 1 .. M /\ ~ (m = n /\ r = s)
    <3>1. PICK c \in Int : c = T[m][r] /\ c = U[m][r]
      BY <1>1, <2>2 DEF ForkedTree
    <3>2. /\ c > 0 => c <= L /\ E[c] = <<m, r>>
          /\ c < 0 => -c \in 2 .. M /\ N[-c] = <<m, r>>
      <4>1. /\ T[m][r] > 0 => T[m][r] <= L /\ E[T[m][r]] = <<m, r>>
            /\ T[m][r] < 0 => -T[m][r] \in 2 .. M /\ N[-T[m][r]] = <<m, r>>
        BY <1>7, <2>2 DEF Linked
      <4>2. QED
        BY <3>1, <4>1
    <3>3. ASSUME c > 0
          PROVE  c <= L + 1 /\ F[c] = <<m, r>>
      <4>1. c \in 1 .. L /\ c # e
        BY <1>1, <1>8, <2>2, <3>2, <3>3
      <4>2. F[c] = E[c]
        BY <4>1 DEF ForkedEntries
      <4>3. QED
        BY <1>1, <3>2, <3>3, <4>1, <4>2
    <3>4. ASSUME c < 0
          PROVE  -c \in 2 .. M + d /\ P[-c] = <<m, r>>
      <4>1. -c \in 2 .. M /\ -c \in 1 .. M /\ -c \in 2 .. M + d
        BY <1>1, <1>2, <3>2, <3>4
      <4>2. P[-c] = N[-c]
        BY <4>1 DEF ForkedNodes
      <4>3. QED
        BY <3>2, <3>4, <4>1, <4>2
    <3>5. QED
      BY <3>1, <3>3, <3>4
  <2>3. CASE m \in M + 1 .. M + d - 1
    <3>1. U[m][r] = IF r = DigitAt(k, l + (m - M)) THEN -(m + 1) ELSE 0
      BY <1>3, <2>3 DEF ForkedTree
    <3>2. /\ m \in Nat /\ m + 1 \in M + 2 .. M + d /\ m + 1 \in 2 .. M + d /\ (m + 1) - 1 = m
          /\ -(-(m + 1)) = m + 1 /\ -(m + 1) < 0
      <4>1. m \in Int /\ M + 1 <= m /\ m <= M + d - 1
        BY <1>1, <1>2, <2>3
      <4>2. m \in Nat /\ m + 1 \in M + 2 .. M + d /\ m + 1 \in 2 .. M + d
        BY <1>1, <4>1
      <4>3. (m + 1) - 1 = m /\ -(-(m + 1)) = m + 1 /\ -(m + 1) < 0
        BY <4>2
      <4>4. QED
        BY <4>2, <4>3
    <3>3. P[m + 1] = <<m, DigitAt(k, l + (m - M))>>
      BY <1>3, <3>2 DEF ForkedNodes
    <3>4. QED
      BY <3>1, <3>2, <3>3
  <2>4. CASE m = M + d
    <3>1. U[m][r] = IF r = x THEN L + 1 ELSE IF r = y THEN e ELSE 0
      BY <1>3, <1>5, <2>4 DEF ForkedTree
    <3>2. F[L + 1] = <<M + d, x>> /\ F[e] = <<M + d, y>>
      BY <1>2, <1>3, <1>5 DEF ForkedEntries
    <3>3. QED
      BY <1>1, <1>2, <2>4, <3>1, <3>2
  <2>5. QED
    BY <1>9, <2>1, <2>2, <2>3, <2>4
<1>11. ASSUME NEW f \in 1 .. L + 1
       PROVE  \E m \in 1 .. M + d, r \in Slots : F[f] = <<m, r>> /\ U[m][r] = f
  <2>1. M + d \in 1 .. M + d
    BY <1>1, <1>2
  <2>2. CASE f = L + 1
    <3>1. F[f] = <<M + d, x>> /\ U[M + d][x] = f
      BY <1>3, <1>5, <2>2 DEF ForkedEntries, ForkedTree
    <3>2. QED
      BY <2>1, <3>1
  <2>3. CASE f = e
    <3>1. F[f] = <<M + d, y>> /\ U[M + d][y] = f
      BY <1>2, <1>3, <1>5, <2>3 DEF ForkedEntries, ForkedTree
    <3>2. QED
      BY <2>1, <3>1
  <2>4. CASE f \in 1 .. L /\ f # e
    <3>1. PICK m \in 1 .. M, r \in Slots : E[f] = <<m, r>> /\ T[m][r] = f
      BY <1>7, <2>4 DEF Linked
    <3>2. ~ (m = n /\ r = s)
      BY <1>4, <2>4, <3>1
    <3>3. F[f] = <<m, r>> /\ U[m][r] = f
      BY <2>4, <3>1, <3>2 DEF ForkedEntries, ForkedTree
    <3>4. m \in 1 .. M + d
      BY <1>1, <1>2
    <3>5. QED
      BY <3>3, <3>4
  <2>5. QED
    <3>1. f = L + 1 \/ f \in 1 .. L
      BY <1>1
    <3>2. QED
      BY <2>2, <2>3, <2>4, <3>1
<1>12. ASSUME NEW c \in 2 .. M + d
       PROVE  \E m \in 1 .. M + d, r \in Slots : P[c] = <<m, r>> /\ U[m][r] = -c
  <2>1. CASE c \in 2 .. M
    <3>1. PICK m \in 1 .. M, r \in Slots : N[c] = <<m, r>> /\ T[m][r] = -c
      BY <1>7, <2>1 DEF Linked
    <3>2. -c < 0
      OBVIOUS
    <3>3. ~ (m = n /\ r = s)
      BY <1>2, <1>4, <3>1, <3>2
    <3>4. c \in 1 .. M /\ m \in 1 .. M + d
      BY <1>1, <1>2, <2>1
    <3>5. P[c] = <<m, r>> /\ U[m][r] = -c
      BY <3>1, <3>3, <3>4 DEF ForkedNodes, ForkedTree
    <3>6. QED
      BY <3>4, <3>5
  <2>2. CASE c = M + 1
    <3>1. P[c] = <<n, s>> /\ U[n][s] = -c
      BY <1>2, <2>2 DEF ForkedNodes, ForkedTree
    <3>2. n \in 1 .. M + d
      BY <1>1, <1>2
    <3>3. QED
      BY <1>2, <3>1, <3>2
  <2>3. CASE c \in M + 2 .. M + d
    <3>1. PICK m \in M + 1 .. M + d - 1 : m = c - 1 /\ m + 1 = c /\ m \in 1 .. M + d
      <4>1. c - 1 \in M + 1 .. M + d - 1 /\ c - 1 \in 1 .. M + d /\ (c - 1) + 1 = c
        BY <1>1, <1>2, <2>3
      <4>2. QED
        BY <4>1
    <3>2. PICK r \in Slots : r = DigitAt(k, l + (m - M))
      BY <1>6
    <3>3. P[c] = <<m, r>>
      BY <1>3, <2>3, <3>1, <3>2 DEF ForkedNodes
    <3>4. U[m][r] = -(m + 1)
      BY <1>3, <3>1, <3>2 DEF ForkedTree
    <3>5. U[m][r] = -c
      BY <3>1, <3>4
    <3>6. QED
      BY <3>1, <3>3, <3>5
  <2>4. QED
    BY <1>1, <1>2, <2>1, <2>2, <2>3
<1>13. QED
  BY <1>10, <1>11, <1>12 DEF Linked

\* The chain continues the words of the tree, and none of its nodes is empty.
LEMMA ForkIsSorted ==
    ASSUME NEW T, NEW N, NEW E, NEW K, NEW lev, NEW w, Trie(T, N, E, K, lev, w),
           NEW M \in Nat, NEW L \in Nat, M = Len(T), L = Len(K),
           NEW n \in 1 .. M, NEW s \in Slots, NEW k \in Keys, NEW q \in Keys,
           NEW e \in 1 .. L, NEW d \in Nat, d > 0,
           ForkPlace(T, K, lev, w, n, s, k, q, e, d),
           NEW U, ForkedTree(T, U, M, L, lev, n, s, k, q, e, d),
           NEW Q, Q = Append(K, k)
    PROVE  /\ Leveled(M + d, ForkLevels(lev, M, n, d), ForkWords(w, M, k, d))
           /\ Sorted(U, Q, M + d, L + 1, ForkLevels(lev, M, n, d), ForkWords(w, M, k, d))
           /\ \A at : Full(T, M, at) => Full(U, M + d, at)
<1>1. PICK l \in Nat, z \in Nat : l = lev[n] /\ z = Word /\ l + d < z
  BY LevelTypes, UnorderedVectorAssumption DEF ForkPlace
<1>2. \A m \in 1 .. M : lev[m] \in 0 .. z - 1 /\ w[m] \in Words
  BY <1>1 DEF Trie, Leveled
<1>3. PICK lv, wd : lv = ForkLevels(lev, M, n, d) /\ wd = ForkWords(w, M, k, d)
  OBVIOUS
<1>4. \A m \in 1 .. M : m \in 1 .. M + d /\ lv[m] = lev[m] /\ wd[m] = w[m]
  <2>1. \A m \in 1 .. M : m \in 1 .. M + d /\ m <= M
    OBVIOUS
  <2>2. QED
    BY <1>3, <2>1 DEF ForkLevels, ForkWords
<1>5. \A m \in M + 1 .. M + d : m \in 1 .. M + d /\ lv[m] = l + (m - M) /\ wd[m] = FirstWord(k)
  <2>1. \A m \in M + 1 .. M + d : m \in 1 .. M + d /\ ~ (m <= M)
    OBVIOUS
  <2>2. QED
    BY <1>1, <1>3, <2>1 DEF ForkLevels, ForkWords
<1>6. ASSUME NEW m \in 1 .. M + d
      PROVE  m \in 1 .. M \/ m \in M + 1 .. M + d - 1 \/ m = M + d
  OBVIOUS
<1>7. ASSUME NEW m \in M + 1 .. M + d
      PROVE  l + (m - M) \in Nat /\ l + (m - M) <= z - 1
  <2>1. PICK j \in Nat : j = m - M /\ j <= d
    <3>1. m - M \in Nat /\ m - M <= d
      OBVIOUS
    <3>2. QED
      BY <3>1
  <2>2. l + d < z
    BY <1>1
  <2>3. l + j \in Nat /\ l + j <= z - 1
    BY <2>1, <2>2
  <2>4. QED
    BY <2>1, <2>3
<1>8. FirstWord(k) \in Words
  BY UnorderedVectorAssumption DEF FirstWord, Words
<1>9. Leveled(M + d, lv, wd)
  <2>1. \A m \in 1 .. M + d : m \in 1 .. M \/ m \in M + 1 .. M + d
    OBVIOUS
  <2>2. \A m \in 1 .. M + d : lv[m] \in 0 .. z - 1
    <3>1. \A m \in M + 1 .. M + d : l + (m - M) \in 0 .. z - 1
      BY <1>7
    <3>2. QED
      <4>1. \A m \in 1 .. M : lv[m] \in 0 .. z - 1
        BY <1>2, <1>4
      <4>2. \A m \in M + 1 .. M + d : lv[m] \in 0 .. z - 1
        BY <1>5, <3>1
      <4>3. QED
        BY <2>1, <4>1, <4>2
  <2>3. \A m \in 1 .. M + d : wd[m] \in Words
    BY <1>2, <1>4, <1>5, <1>8, <2>1
  <2>4. lv = [m \in 1 .. M + d |-> lv[m]] /\ wd = [m \in 1 .. M + d |-> wd[m]]
    BY <1>3 DEF ForkLevels, ForkWords
  <2>5. lv \in [1 .. M + d -> 0 .. z - 1] /\ wd \in [1 .. M + d -> Words]
    BY <2>2, <2>3, <2>4
  <2>6. lv[1] = 0
    BY <1>4, LevelTypes
  <2>7. QED
    BY <1>1, <2>5, <2>6 DEF Leveled
<1>10. Linked(T, N, E, M, L) /\ Sorted(T, K, M, L, lev, w)
  BY DEF Trie
<1>11. PICK x \in Slots, y \in Slots : x = DigitAt(k, l + d) /\ y = DigitAt(q, l + d) /\ x # y
  <2>1. l + d \in Nat /\ l + d < Word
    BY <1>1
  <2>2. DigitAt(k, l + d) \in Slots /\ DigitAt(q, l + d) \in Slots
    BY <2>1, DigitType
  <2>3. QED
    BY <1>1, <2>2 DEF ForkPlace
<1>12. /\ Agree(FirstWord(k), w[n], l) /\ s = DigitAt(k, l) /\ q = K[e]
       /\ Agree(FirstWord(k), FirstWord(q), l + d)
  BY <1>1 DEF ForkPlace
<1>13. ASSUME NEW m \in 1 .. M, NEW r \in Slots
       PROVE  /\ U[m][r] = IF m = n /\ r = s THEN -(M + 1) ELSE T[m][r]
              /\ T[m][r] \in Int /\ m \in 1 .. M + d
  <2>1. T[m] \in Rows
    BY LevelTypes
  <2>2. T[m][r] \in Int /\ m \in 1 .. M + d
    BY <2>1 DEF Rows
  <2>3. U[m][r] = IF m = n /\ r = s THEN -(M + 1) ELSE T[m][r]
    BY DEF ForkedTree
  <2>4. QED
    BY <2>2, <2>3
<1>14. ASSUME NEW m \in M + 1 .. M + d - 1, NEW r \in Slots
       PROVE  U[m][r] = IF r = DigitAt(k, l + (m - M)) THEN -(m + 1) ELSE 0
  BY <1>1 DEF ForkedTree
<1>15. ASSUME NEW r \in Slots
       PROVE  U[M + d][r] = IF r = x THEN L + 1 ELSE IF r = y THEN e ELSE 0
  BY <1>1, <1>11 DEF ForkedTree
<1>16. ASSUME NEW p \in 1 .. M + d, NEW m \in 1 .. M + d, NEW r \in Slots, U[p][r] = -m
       PROVE  Below(lv, wd, p, r, m)
  <2>1. CASE p \in 1 .. M /\ p = n /\ r = s
    <3>1. m = M + 1
      <4>1. -m = -(M + 1)
        BY <1>13, <1>16, <2>1
      <4>2. QED
        <5>1. m \in Int /\ M + 1 \in Int
          OBVIOUS
        <5>2. QED
          BY <4>1, <5>1, SameNegated
    <3>2. m \in M + 1 .. M + d /\ m - M = 1
      BY <3>1
    <3>3. lv[m] = l + 1 /\ wd[m] = FirstWord(k)
      BY <1>5, <3>2
    <3>4. lv[p] = l /\ wd[p] = w[n]
      BY <1>1, <1>4, <2>1
    <3>5. QED
      BY <1>12, <2>1, <3>3, <3>4 DEF Below, DigitAt
  <2>2. CASE p \in 1 .. M /\ ~ (p = n /\ r = s)
    <3>1. T[p][r] = -m
      BY <1>13, <1>16, <2>2
    <3>2. T[p][r] < 0 => -T[p][r] \in 2 .. M
      BY <1>10, <2>2 DEF Linked
    <3>3. m \in 1 .. M
      BY <3>1, <3>2
    <3>4. Below(lev, w, p, r, m)
      BY <1>10, <2>2, <3>1, <3>3 DEF Sorted
    <3>5. QED
      BY <1>4, <2>2, <3>3, <3>4 DEF Below
  <2>3. CASE p \in M + 1 .. M + d - 1
    <3>1. r = DigitAt(k, l + (p - M)) /\ m = p + 1
      <4>1. -m = IF r = DigitAt(k, l + (p - M)) THEN -(p + 1) ELSE 0
        BY <1>14, <1>16, <2>3
      <4>2. QED
        BY <2>3, <4>1
    <3>2. p \in M + 1 .. M + d /\ m \in M + 1 .. M + d /\ m - M = p - M + 1
      BY <2>3, <3>1
    <3>3. /\ lv[p] = l + (p - M) /\ lv[m] = l + (m - M)
          /\ wd[p] = FirstWord(k) /\ wd[m] = FirstWord(k)
      BY <1>5, <3>2
    <3>4. PICK j \in Nat : j = l + (p - M)
      BY <1>7, <3>2
    <3>5. l + (m - M) = j + 1
      BY <2>3, <3>1, <3>4
    <3>6. QED
      BY <3>1, <3>3, <3>4, <3>5 DEF Below, DigitAt, Agree
  <2>4. CASE p = M + d
    <3>1. U[p][r] >= 0 /\ -m < 0
      BY <1>15, <2>4
    <3>2. QED
      BY <1>16, <3>1
  <2>5. QED
    BY <1>6, <2>1, <2>2, <2>3, <2>4
<1>17. /\ \A i \in 1 .. L : Q[i] = K[i]
       /\ Q[L + 1] = k
  BY AppendedAt DEF Trie, Typed
<1>18. ASSUME NEW m \in 1 .. M + d, NEW r \in Slots, NEW f \in 1 .. L + 1, U[m][r] = f
       PROVE  Hangs(lv, wd, m, r, FirstWord(Q[f]))
  <2>1. CASE m \in 1 .. M /\ m = n /\ r = s
    <3>1. U[m][r] < 0
      BY <1>13, <2>1
    <3>2. QED
      BY <1>18, <3>1
  <2>2. CASE m \in 1 .. M /\ ~ (m = n /\ r = s)
    <3>1. T[m][r] = f
      BY <1>13, <1>18, <2>2
    <3>2. T[m][r] > 0 => T[m][r] <= L
      BY <1>10, <2>2 DEF Linked
    <3>3. f \in 1 .. L
      BY <3>1, <3>2
    <3>4. Hangs(lev, w, m, r, FirstWord(K[f]))
      BY <1>10, <2>2, <3>1, <3>3 DEF Sorted
    <3>5. QED
      BY <1>4, <1>17, <2>2, <3>3, <3>4 DEF Hangs
  <2>3. CASE m \in M + 1 .. M + d - 1
    <3>1. U[m][r] <= 0
      BY <1>14, <2>3
    <3>2. QED
      BY <1>18, <3>1
  <2>4. CASE m = M + d
    <3>1. m \in M + 1 .. M + d /\ m - M = d
      BY <2>4
    <3>2. lv[m] = l + d /\ wd[m] = FirstWord(k)
      BY <1>5, <3>1
    <3>3. CASE r = x
      <4>1. f = L + 1
        BY <1>15, <1>18, <2>4, <3>3
      <4>2. QED
        BY <1>11, <1>17, <3>2, <3>3, <4>1 DEF Hangs, Agree, DigitAt
    <3>4. CASE r # x
      <4>1. f = e /\ r = y
        BY <1>15, <1>18, <2>4, <3>4
      <4>2. Q[f] = q
        BY <1>12, <1>17, <4>1
      <4>3. QED
        BY <1>11, <1>12, <3>2, <4>1, <4>2 DEF Hangs, Agree, DigitAt
    <3>5. QED
      BY <3>3, <3>4
  <2>5. QED
    BY <1>6, <2>1, <2>2, <2>3, <2>4
<1>19. ASSUME NEW at, Full(T, M, at)
       PROVE  Full(U, M + d, at)
  <2>1. ASSUME NEW m \in 2 .. M + d, m # at
        PROVE  \E r \in Slots : U[m][r] # 0
    <3>1. CASE m \in 1 .. M
      <4>1. m \in 2 .. M
        BY <3>1
      <4>2. PICK r \in Slots : T[m][r] # 0
        BY <1>19, <2>1, <4>1 DEF Full
      <4>3. U[m][r] # 0
        BY <1>13, <3>1, <4>2
      <4>4. QED
        BY <4>3
    <3>2. CASE m \in M + 1 .. M + d - 1
      <4>1. l + (m - M) \in Nat /\ l + (m - M) < Word
        BY <1>1, <1>7, <3>2
      <4>2. PICK r \in Slots : r = DigitAt(k, l + (m - M))
        BY <4>1, DigitType
      <4>3. U[m][r] = -(m + 1) /\ -(m + 1) # 0
        BY <1>14, <3>2, <4>2
      <4>4. QED
        BY <4>3
    <3>3. CASE m = M + d
      <4>1. U[m][x] # 0
        BY <1>15, <3>3
      <4>2. QED
        BY <4>1
    <3>4. m \in 1 .. M + d
      OBVIOUS
    <3>5. QED
      BY <1>6, <3>1, <3>2, <3>3, <3>4
  <2>2. QED
    BY <2>1 DEF Full
<1>20. Sorted(U, Q, M + d, L + 1, lv, wd)
  BY <1>16, <1>18 DEF Sorted
<1>21. QED
  BY <1>3, <1>9, <1>19, <1>20

\* Written out, the tree of a split is a forked tree ...
LEMMA SplitTree ==
    ASSUME NEW T \in Seq(Rows), NEW M \in Nat, NEW L \in Nat, M = Len(T),
           NEW n \in 1 .. M, NEW s \in Slots, NEW k \in Keys, NEW q \in Keys,
           NEW e \in 1 .. L, NEW d \in Nat, d > 0, NEW lev,
           NEW C \in [1 .. d -> Rows],
           \A i \in 1 .. d - 1, r \in Slots :
             C[i][r] = IF r = DigitAt(k, lev[n] + i) THEN -(M + i + 1) ELSE 0,
           \A r \in Slots :
             C[d][r] = IF r = DigitAt(k, lev[n] + d) THEN L + 1
                       ELSE IF r = DigitAt(q, lev[n] + d) THEN e ELSE 0
    PROVE  ForkedTree(T, [T EXCEPT ![n][s] = -(M + 1)] \o C, M, L, lev, n, s, k, q, e, d)
<1>1. PICK v \in Int : v = -(M + 1)
  OBVIOUS
<1>2. PICK A : A = [T EXCEPT ![n][s] = v]
  OBVIOUS
<1>3. /\ A \in Seq(Rows) /\ Len(A) = M
      /\ \A m \in 1 .. M, r \in Slots : A[m][r] = IF m = n /\ r = s THEN v ELSE T[m][r]
  <2>1. /\ [T EXCEPT ![n][s] = v] \in Seq(Rows) /\ Len([T EXCEPT ![n][s] = v]) = Len(T)
        /\ \A m \in 1 .. Len(T), r \in Slots :
             [T EXCEPT ![n][s] = v][m][r] = IF m = n /\ r = s THEN v ELSE T[m][r]
    BY WrittenSlot
  <2>2. QED
    BY <1>2, <2>1
<1>4. C \in Seq(Rows) /\ Len(C) = d
  OBVIOUS
<1>5. PICK U : U = A \o C
  OBVIOUS
<1>6. U \in Seq(Rows) /\ Len(U) = M + d /\ \A i \in 1 .. M + d : U[i] = IF i <= M THEN A[i] ELSE C[i - M]
  <2>1. /\ A \o C \in Seq(Rows) /\ Len(A \o C) = Len(A) + Len(C)
        /\ \A i \in 1 .. Len(A) + Len(C) : (A \o C)[i] = IF i <= Len(A) THEN A[i] ELSE C[i - Len(A)]
    BY <1>3, <1>4, ConcatProperties
  <2>2. Len(A) = M /\ Len(C) = d
    BY <1>3, <1>4
  <2>3. QED
    BY <1>5, <2>1, <2>2
<1>7. \A m \in 1 .. M, r \in Slots : U[m][r] = IF m = n /\ r = s THEN -(M + 1) ELSE T[m][r]
  <2>1. \A m \in 1 .. M : m \in 1 .. M + d /\ m <= M
    OBVIOUS
  <2>2. \A m \in 1 .. M : U[m] = A[m]
    BY <1>6, <2>1
  <2>3. QED
    BY <1>1, <1>3, <2>2
<1>8. ASSUME NEW m \in M + 1 .. M + d - 1, NEW r \in Slots
      PROVE  U[m][r] = IF r = DigitAt(k, lev[n] + (m - M)) THEN -(m + 1) ELSE 0
  <2>1. m - M \in 1 .. d - 1 /\ m \in 1 .. M + d /\ ~ (m <= M) /\ M + (m - M) + 1 = m + 1
    OBVIOUS
  <2>2. U[m] = C[m - M]
    BY <1>6, <2>1
  <2>3. C[m - M][r] = IF r = DigitAt(k, lev[n] + (m - M)) THEN -(M + (m - M) + 1) ELSE 0
    BY <2>1
  <2>4. QED
    BY <2>1, <2>2, <2>3
<1>9. U[M + d] = C[d]
  <2>1. M + d \in 1 .. M + d /\ ~ (M + d <= M) /\ M + d - M = d
    OBVIOUS
  <2>2. QED
    BY <1>6, <2>1
<1>10. ForkedTree(T, U, M, L, lev, n, s, k, q, e, d)
  BY <1>6, <1>7, <1>8, <1>9 DEF ForkedTree
<1>11. QED
  BY <1>1, <1>2, <1>5, <1>10

\* ... the nodes' indexes are those of a fork ...
LEMMA SplitNodes ==
    ASSUME NEW N \in Seq(Places), NEW M \in Nat, M = Len(N),
           NEW n \in 1 .. M, NEW s \in Slots, NEW k \in Keys, NEW d \in Nat, d > 0, NEW lev,
           NEW Z \in [1 .. d -> Places], Z[1] = <<n, s>>,
           \A i \in 2 .. d : Z[i] = <<M + i - 1, DigitAt(k, lev[n] + (i - 1))>>
    PROVE  ForkedNodes(N, N \o Z, M, lev, n, s, k, d)
<1>1. Z \in Seq(Places) /\ Len(Z) = d
  OBVIOUS
<1>2. PICK P : P = N \o Z
  OBVIOUS
<1>3. P \in Seq(Places) /\ Len(P) = M + d /\ \A i \in 1 .. M + d : P[i] = IF i <= M THEN N[i] ELSE Z[i - M]
  <2>1. PICK z \in Nat : z = Len(N) /\ z = M
    BY <1>1
  <2>2. /\ N \o Z \in Seq(Places) /\ Len(N \o Z) = Len(N) + Len(Z)
        /\ \A i \in 1 .. Len(N) + Len(Z) :
             (N \o Z)[i] = IF i <= Len(N) THEN N[i] ELSE Z[i - Len(N)]
    BY <1>1, ConcatProperties
  <2>3. /\ P \in Seq(Places) /\ Len(P) = z + d
        /\ \A i \in 1 .. z + d : P[i] = IF i <= z THEN N[i] ELSE Z[i - z]
    BY <1>1, <1>2, <2>1, <2>2
  <2>4. QED
    BY <2>1, <2>3
<1>4. \A m \in 1 .. M : P[m] = N[m]
  BY <1>3
<1>5. P[M + 1] = <<n, s>>
  <2>1. PICK i \in 1 .. M + d : i = M + 1 /\ ~ (i <= M) /\ i - M = 1
    OBVIOUS
  <2>2. P[i] = Z[1]
    BY <1>3, <2>1
  <2>3. QED
    BY <2>1, <2>2
<1>6. ASSUME NEW m \in M + 2 .. M + d
      PROVE  P[m] = <<m - 1, DigitAt(k, lev[n] + (m - 1 - M))>>
  <2>1. /\ m - M \in 2 .. d /\ m \in 1 .. M + d /\ ~ (m <= M) /\ M + (m - M) - 1 = m - 1
        /\ m - M - 1 = m - 1 - M
    OBVIOUS
  <2>2. P[m] = Z[m - M]
    BY <1>3, <2>1
  <2>3. Z[m - M] = <<M + (m - M) - 1, DigitAt(k, lev[n] + (m - M - 1))>>
    BY <2>1
  <2>4. QED
    BY <2>1, <2>2, <2>3
<1>7. QED
  BY <1>2, <1>3, <1>4, <1>5, <1>6 DEF ForkedNodes

\* ... and so are the entries'.
LEMMA SplitEntries ==
    ASSUME NEW E \in Seq(Places), NEW M \in Nat, NEW L \in Nat, L = Len(E), NEW e \in 1 .. L,
           NEW n, NEW k, NEW q, NEW d \in Nat, NEW lev,
           DigitAt(k, lev[n] + d) \in Slots, DigitAt(q, lev[n] + d) \in Slots
    PROVE  ForkedEntries(E, Append([E EXCEPT ![e] = <<M + d, DigitAt(q, lev[n] + d)>>],
                                   <<M + d, DigitAt(k, lev[n] + d)>>), M, L, lev, n, k, q, e, d)
<1>1. PICK a, b : a = <<M + d, DigitAt(q, lev[n] + d)>> /\ b = <<M + d, DigitAt(k, lev[n] + d)>>
  OBVIOUS
<1>2. a \in Places /\ b \in Places
  BY <1>1 DEF Places
<1>3. PICK X : X = [E EXCEPT ![e] = a]
  OBVIOUS
<1>4. /\ X \in Seq(Places) /\ Len(X) = L
      /\ \A f \in 1 .. L : X[f] = IF f = e THEN a ELSE E[f]
  BY <1>2, <1>3, ExceptSeq
<1>5. /\ Append(X, b) \in Seq(Places) /\ Len(Append(X, b)) = L + 1
      /\ \A f \in 1 .. L : Append(X, b)[f] = X[f]
      /\ Append(X, b)[L + 1] = b
  BY <1>2, <1>4, AppendedAt
<1>6. ForkedEntries(E, Append(X, b), M, L, lev, n, k, q, e, d)
  BY <1>1, <1>4, <1>5 DEF ForkedEntries
<1>7. QED
  BY <1>1, <1>3, <1>6

\* Levels and words witness a sound tree.
LEMMA SoundBy ==
    ASSUME NEW T, NEW N, NEW E, NEW K, NEW lev, NEW w, Trie(T, N, E, K, lev, w),
           Distinct(K, Len(K)), NEW at, Full(T, Len(T), at)
    PROVE  Sound(T, N, E, K, at)
<1>1. PICK lw : lw = <<lev, w>>
  OBVIOUS
<1>2. lw \in Witnesses(T)
  BY <1>1 DEF Trie, Leveled, Witnesses
<1>3. Trie(T, N, E, K, lw[1], lw[2])
  BY <1>1
<1>4. QED
  BY <1>2, <1>3 DEF Sound

\* The values and the cached words stay beside the keys.
LEMMA MoreColumns ==
    ASSUME NEW K \in Seq(Keys), NEW V, NEW C, Columns(K, V, C), NEW k \in Keys, NEW v \in Values
    PROVE  Columns(Append(K, k), Append(V, v), Append(C, Hash(k, 0)))
<1>1. PICK L \in Nat : L = Len(K)
  BY LenProperties
<1>2. V \in Seq(Values) /\ C \in Seq(Words) /\ Len(V) = L /\ Len(C) = L
  BY <1>1 DEF Columns
<1>3. PICK x \in Words : x = Hash(k, 0) /\ x = FirstWord(k)
  BY UnorderedVectorAssumption DEF FirstWord, Words
<1>4. PICK Q, W, D : Q = Append(K, k) /\ W = Append(V, v) /\ D = Append(C, x)
  OBVIOUS
<1>5. Len(Q) = L + 1 /\ Q[L + 1] = k /\ \A i \in 1 .. L : Q[i] = K[i]
  BY <1>1, <1>4, AppendedAt
<1>6. W \in Seq(Values) /\ Len(W) = L + 1
  BY <1>2, <1>4, AppendedAt
<1>7. D \in Seq(Words) /\ Len(D) = L + 1 /\ D[L + 1] = x /\ \A i \in 1 .. L : D[i] = C[i]
  BY <1>2, <1>4, AppendedAt
<1>8. \A i \in 1 .. L + 1 : D[i] = FirstWord(Q[i])
  <2>1. \A i \in 1 .. L + 1 : i \in 1 .. L \/ i = L + 1
    OBVIOUS
  <2>2. \A i \in 1 .. L : C[i] = FirstWord(K[i])
    BY <1>1 DEF Columns
  <2>3. QED
    BY <1>3, <1>5, <1>7, <2>1, <2>2
<1>9. Columns(Q, W, D)
  BY <1>5, <1>6, <1>7, <1>8 DEF Columns
<1>10. QED
  BY <1>3, <1>4, <1>9

\* Where the walk of a key ends: a node on its way and the slot of its digit.
LEMMA WalkEndsAt ==
    ASSUME NEW lev, NEW w, Trie(tree, nodeSlot, entrySlot, keys, lev, w), NEW k \in Keys
    PROVE  \E n \in 1 .. Len(tree), s \in Slots :
             /\ PlaceFind(k) = [entry |-> tree[n][s], node |-> n, hasher |-> HasherAt(k, lev[n])]
             /\ lev[n] \in Nat /\ lev[n] < Word
             /\ s = DigitAt(k, lev[n]) /\ Current(HasherAt(k, lev[n])) = s
             /\ Agree(FirstWord(k), w[n], lev[n]) /\ Hangs(lev, w, n, s, FirstWord(k))
<1>1. PICK n \in OnWay(k, lev, w) : PlaceFind(k) = Stop(k, lev, n)
  BY WalkEnds
<1>2. n \in 1 .. Len(tree) /\ Agree(FirstWord(k), w[n], lev[n])
  BY DEF OnWay
<1>3. lev[n] \in Nat /\ lev[n] < Word
  BY <1>2, LevelTypes
<1>4. PICK s \in Slots : s = DigitAt(k, lev[n])
  BY <1>3, DigitType
<1>5. Current(HasherAt(k, lev[n])) = s
  BY <1>3, <1>4, HasherReads
<1>6. Hangs(lev, w, n, s, FirstWord(k))
  BY <1>2, <1>4 DEF Hangs, DigitAt
<1>7. QED
  BY <1>1, <1>2, <1>3, <1>4, <1>5, <1>6 DEF Stop

\* insert into an empty slot keeps the invariant.
LEMMA SlotKeepsInv ==
    ASSUME IInv, NEW k \in Keys, NEW v \in Values, InsertAtSlot(k, v)
    PROVE  IInv'
<1>1. PICK lw : Trie(tree, nodeSlot, entrySlot, keys, lw[1], lw[2])
  BY DEF IInv, Sound
<1>2. PICK lev, w : lev = lw[1] /\ w = lw[2]
  OBVIOUS
<1>3. Trie(tree, nodeSlot, entrySlot, keys, lev, w)
  BY <1>1, <1>2
<1>4. /\ Distinct(keys, Len(keys)) /\ Full(tree, Len(tree), Root) /\ Columns(keys, values, cached)
      /\ keys \in Seq(Keys)
  BY <1>3 DEF IInv, Sound, Trie, Typed
<1>5. PICK n \in 1 .. Len(tree), s \in Slots :
             /\ PlaceFind(k) = [entry |-> tree[n][s], node |-> n, hasher |-> HasherAt(k, lev[n])]
             /\ Current(HasherAt(k, lev[n])) = s /\ Hangs(lev, w, n, s, FirstWord(k))
  BY <1>3, WalkEndsAt
<1>6. PICK at : at = PlaceFind(k)
  OBVIOUS
<1>7. at.entry = tree[n][s] /\ at.node = n /\ Current(at.hasher) = s
  BY <1>5, <1>6
<1>8. /\ at.entry = 0
      /\ tree' = [tree EXCEPT ![n][s] = Len(keys) + 1]
      /\ entrySlot' = Append(entrySlot, <<n, s>>) /\ nodeSlot' = nodeSlot
      /\ keys' = Append(keys, k) /\ values' = Append(values, v)
      /\ cached' = Append(cached, Hash(k, 0))
  BY <1>6, <1>7 DEF InsertAtSlot, PushedEntry
<1>9. tree[n][s] = 0
  BY <1>7, <1>8
<1>10. PICK U : U = [tree EXCEPT ![n][s] = Len(keys) + 1]
  OBVIOUS
<1>11. /\ Trie(U, nodeSlot, Append(entrySlot, <<n, s>>), Append(keys, k), lev, w)
       /\ \A x : Full(tree, Len(tree), x) => Full(U, Len(U), x)
  <2>1. Hangs(lev, w, n, s, FirstWord(k))
    BY <1>5
  <2>2. PICK T, N, E, K : T = tree /\ N = nodeSlot /\ E = entrySlot /\ K = keys
    OBVIOUS
  <2>3. /\ Trie(T, N, E, K, lev, w) /\ n \in 1 .. Len(T) /\ T[n][s] = 0
        /\ Written(T, U, n, s, Len(K) + 1)
    BY <1>3, <1>9, <1>10, <2>2 DEF Written
  <2>4. /\ Trie(U, N, Append(E, <<n, s>>), Append(K, k), lev, w)
        /\ \A x : Full(T, Len(T), x) => Full(U, Len(U), x)
    BY <2>1, <2>3, AddedEntry
  <2>5. QED
    BY <2>2, <2>4
<1>12. \A e \in 1 .. Len(keys) : keys[e] # k
  <2>1. ASSUME NEW e \in 1 .. Len(keys), keys[e] = k
        PROVE  FALSE
    <3>1. at.entry = e
      BY <1>3, <1>6, <2>1, EntryIsFound
    <3>2. QED
      BY <1>8, <3>1
  <2>2. QED
    BY <2>1
<1>13. Distinct(Append(keys, k), Len(keys) + 1)
  BY <1>4, <1>12, AddedKey
<1>14. Len(Append(keys, k)) = Len(keys) + 1
  BY <1>4, AppendedAt
<1>15. Sound(U, nodeSlot, Append(entrySlot, <<n, s>>), Append(keys, k), Root)
  BY <1>4, <1>11, <1>13, <1>14, SoundBy
<1>16. Columns(Append(keys, k), Append(values, v), Append(cached, Hash(k, 0)))
  BY <1>4, MoreColumns
<1>17. QED
  BY <1>8, <1>10, <1>15, <1>16 DEF IInv

\* insert where another entry is in the way keeps it.
LEMMA SplitKeepsInv ==
    ASSUME IInv, HashesDiffer, NEW k \in Keys, NEW v \in Values, InsertBySplit(k, v)
    PROVE  IInv'
<1>1. PICK lw : Trie(tree, nodeSlot, entrySlot, keys, lw[1], lw[2])
  BY DEF IInv, Sound
<1>2. PICK lev, w : lev = lw[1] /\ w = lw[2]
  OBVIOUS
<1>3. Trie(tree, nodeSlot, entrySlot, keys, lev, w)
  BY <1>1, <1>2
<1>4. /\ Distinct(keys, Len(keys)) /\ Full(tree, Len(tree), Root) /\ Columns(keys, values, cached)
      /\ tree \in Seq(Rows) /\ nodeSlot \in Seq(Places) /\ entrySlot \in Seq(Places)
      /\ keys \in Seq(Keys) /\ Len(nodeSlot) = Len(tree) /\ Len(entrySlot) = Len(keys)
  BY <1>3 DEF IInv, Sound, Trie, Typed
<1>5. PICK M \in Nat, L \in Nat : M = Len(tree) /\ L = Len(keys)
  BY <1>4, LenProperties
<1>6. PICK n \in 1 .. M, s \in Slots :
             /\ PlaceFind(k) = [entry |-> tree[n][s], node |-> n, hasher |-> HasherAt(k, lev[n])]
             /\ lev[n] \in Nat /\ lev[n] < Word
             /\ s = DigitAt(k, lev[n]) /\ Current(HasherAt(k, lev[n])) = s
             /\ Agree(FirstWord(k), w[n], lev[n])
  BY <1>3, <1>5, WalkEndsAt
<1>7. PICK l \in Nat : l = lev[n] /\ l < Word
  BY <1>6
<1>8. PICK at : at = PlaceFind(k)
  OBVIOUS
<1>9. at.entry = tree[n][s] /\ at.node = n /\ at.hasher = HasherAt(k, l)
  BY <1>6, <1>7, <1>8
<1>10. at.entry > 0 /\ keys[at.entry] # k
  BY <1>8 DEF InsertBySplit
<1>11. PICK e \in 1 .. L : e = tree[n][s] /\ e = at.entry
  <2>1. tree[n] \in Rows
    BY <1>5, <1>3, LevelTypes
  <2>2. tree[n][s] \in Int
    BY <2>1 DEF Rows
  <2>3. tree[n][s] > 0 => tree[n][s] <= L
    BY <1>3, <1>5 DEF Trie, Linked
  <2>4. PICK c \in Int : c = tree[n][s] /\ c = at.entry
    BY <1>9, <2>2
  <2>5. c \in 1 .. L
    BY <1>10, <2>3, <2>4
  <2>6. QED
    BY <2>4, <2>5
<1>12. PICK q \in Keys : q = keys[e] /\ q # k
  <2>1. keys[e] \in Keys
    BY <1>4, <1>5, ElementOfSeq
  <2>2. QED
    BY <1>10, <1>11, <2>1
<1>13. cached[e] = FirstWord(q)
  BY <1>4, <1>5, <1>12 DEF Columns
<1>14. PICK h, g : h = HasherAt(k, l) /\ g = Lagging(q, l, 0)
  OBVIOUS
<1>15. SiblingHasher(keys[at.entry], cached[at.entry], at.hasher.depth) = g
  <2>1. at.hasher.depth = l
    BY <1>9 DEF HasherAt
  <2>2. SiblingHasher(q, FirstWord(q), l) = Lagging(q, l, 0)
    BY <1>7, SiblingIs
  <2>3. QED
    BY <1>11, <1>12, <1>13, <1>14, <2>1, <2>2
<1>16. PICK d \in LevelsToSplit(g, h) :
         /\ tree' = [tree EXCEPT ![n][Current(Ahead(h, 0))] = -(Len(tree) + 1)]
                    \o [i \in 1 .. d |->
                          IF i = d THEN [Blank EXCEPT ![Current(Ahead(g, d))] = at.entry,
                                                      ![Current(Ahead(h, d))] = Len(keys) + 1]
                          ELSE [Blank EXCEPT ![Current(Ahead(h, i))] = -(Len(tree) + i + 1)]]
         /\ nodeSlot' = nodeSlot \o
              [i \in 1 .. d |-> IF i = 1 THEN <<n, Current(Ahead(h, 0))>>
                                ELSE <<Len(tree) + i - 1, Current(Ahead(h, i - 1))>>]
         /\ entrySlot' = Append([entrySlot EXCEPT ![at.entry] = <<Len(tree) + d, Current(Ahead(g, d))>>],
                                <<Len(tree) + d, Current(Ahead(h, d))>>)
  BY <1>8, <1>9, <1>14, <1>15 DEF InsertBySplit
<1>17. Agree(FirstWord(k), FirstWord(q), l + 1)
  <2>1. Hangs(lev, w, n, s, FirstWord(q))
    <3>1. tree[n][s] = e /\ Sorted(tree, keys, M, L, lev, w)
      BY <1>3, <1>5, <1>11 DEF Trie
    <3>2. QED
      BY <1>12, <3>1 DEF Sorted
  <2>2. Agree(FirstWord(q), w[n], l) /\ FirstWord(q)[l + 1] = s
    BY <1>7, <2>1 DEF Hangs
  <2>3. Agree(FirstWord(k), w[n], l) /\ FirstWord(k)[l + 1] = s
    BY <1>6, <1>7 DEF DigitAt
  <2>4. \A i \in 1 .. l + 1 : i \in 1 .. l \/ i = l + 1
    OBVIOUS
  <2>5. QED
    BY <2>2, <2>3, <2>4 DEF Agree
<1>18. FirstWord(k) # FirstWord(q)
  BY <1>12 DEF HashesDiffer
<1>19. /\ d \in Nat \ {0} /\ l + d < Word
       /\ Agree(FirstWord(k), FirstWord(q), l + d)
       /\ DigitAt(k, l + d) # DigitAt(q, l + d)
       /\ \A i \in 0 .. d : Current(Ahead(h, i)) = DigitAt(k, l + i)
       /\ Current(Ahead(g, d)) = DigitAt(q, l + d)
  BY <1>7, <1>14, <1>17, <1>18, ChainLength
<1>20. PICK b \in Nat : b = d /\ b > 0
  BY <1>19
<1>21. ForkPlace(tree, keys, lev, w, n, s, k, q, e, b)
  BY <1>6, <1>7, <1>11, <1>12, <1>19, <1>20 DEF ForkPlace
<1>22. ASSUME NEW i \in 0 .. b
       PROVE  Current(Ahead(h, i)) = DigitAt(k, l + i) /\ DigitAt(k, l + i) \in Slots
  <2>1. PICK z \in Nat : z = Word
    BY UnorderedVectorAssumption
  <2>2. l + b < z
    BY <1>19, <1>20, <2>1
  <2>3. l + i \in Nat /\ l + i < z
    BY <2>2
  <2>4. DigitAt(k, l + i) \in Slots
    BY <2>1, <2>3, DigitType
  <2>5. QED
    BY <1>19, <1>20, <2>4
<1>23. PICK x \in Slots, y \in Slots : /\ x = DigitAt(k, l + b) /\ y = DigitAt(q, l + b) /\ x # y
                                       /\ Current(Ahead(h, b)) = x /\ Current(Ahead(g, b)) = y
  <2>1. l + b \in Nat /\ l + b < Word
    BY <1>19, <1>20
  <2>2. DigitAt(k, l + b) \in Slots /\ DigitAt(q, l + b) \in Slots
    BY <2>1, DigitType
  <2>3. Current(Ahead(h, b)) = DigitAt(k, l + b) /\ Current(Ahead(g, b)) = DigitAt(q, l + b)
    BY <1>19, <1>20, <1>22
  <2>4. QED
    BY <1>19, <1>20, <2>2, <2>3
<1>24. Current(Ahead(h, 0)) = s
  <2>1. Current(Ahead(h, 0)) = DigitAt(k, l + 0) /\ l + 0 = l
    BY <1>22
  <2>2. QED
    BY <1>6, <1>7, <2>1
<1> DEFINE C == [i \in 1 .. b |->
                   IF i = b THEN [Blank EXCEPT ![y] = e, ![x] = L + 1]
                   ELSE [Blank EXCEPT ![Current(Ahead(h, i))] = -(M + i + 1)]]
           Z == [i \in 1 .. b |-> IF i = 1 THEN <<n, s>> ELSE <<M + i - 1, Current(Ahead(h, i - 1))>>]
<1>25. tree' = [tree EXCEPT ![n][s] = -(M + 1)] \o C
  <2>1. PICK t : t = [tree EXCEPT ![n][s] = -(M + 1)]
    OBVIOUS
  <2>2. QED
    BY <1>5, <1>11, <1>16, <1>20, <1>23, <1>24
<1>26. nodeSlot' = nodeSlot \o Z
  BY <1>5, <1>16, <1>20, <1>24
<1>27. entrySlot' = Append([entrySlot EXCEPT ![e] = <<M + b, DigitAt(q, lev[n] + b)>>],
                           <<M + b, DigitAt(k, lev[n] + b)>>)
  BY <1>5, <1>7, <1>11, <1>16, <1>20, <1>23
<1>28. ASSUME NEW r \in Slots, NEW c \in Int
       PROVE  [Blank EXCEPT ![r] = c] \in Rows
  BY DEF Blank, Rows
<1>29. ASSUME NEW i \in 1 .. b - 1
       PROVE  /\ C[i] \in Rows
              /\ \A r \in Slots : C[i][r] = IF r = DigitAt(k, lev[n] + i) THEN -(M + i + 1) ELSE 0
  <2>1. PICK r \in Slots : r = Current(Ahead(h, i)) /\ r = DigitAt(k, lev[n] + i)
    BY <1>7, <1>22
  <2>2. C[i] = [Blank EXCEPT ![r] = -(M + i + 1)]
    <3>1. i \in 1 .. b /\ i # b
      OBVIOUS
    <3>2. C[i] = [Blank EXCEPT ![Current(Ahead(h, i))] = -(M + i + 1)]
      BY <3>1
    <3> HIDE DEF C
    <3>3. QED
      BY <2>1, <3>2
  <2>3. -(M + i + 1) \in Int
    OBVIOUS
  <2> HIDE DEF C
  <2>4. QED
    BY <1>28, <2>1, <2>2, <2>3 DEF Blank
<1>30. /\ C[b] \in Rows
       /\ \A r \in Slots : C[b][r] = IF r = DigitAt(k, lev[n] + b) THEN L + 1
                                     ELSE IF r = DigitAt(q, lev[n] + b) THEN e ELSE 0
  <2>1. C[b] = [Blank EXCEPT ![y] = e, ![x] = L + 1]
    <3>1. b \in 1 .. b
      BY <1>20
    <3>2. QED
      BY <3>1
  <2>2. PICK row : row = [Blank EXCEPT ![y] = e, ![x] = L + 1]
    OBVIOUS
  <2>3. row \in Rows /\ \A r \in Slots : row[r] = IF r = x THEN L + 1 ELSE IF r = y THEN e ELSE 0
    BY <2>2 DEF Blank, Rows
  <2> HIDE DEF C
  <2>4. QED
    BY <1>7, <1>23, <2>1, <2>2, <2>3
<1>31. C \in [1 .. b -> Rows]
  <2>1. \A i \in 1 .. b : i = b \/ i \in 1 .. b - 1
    OBVIOUS
  <2>2. \A i \in 1 .. b : C[i] \in Rows
    <3> HIDE DEF C
    <3>1. QED
      BY <1>29, <1>30, <2>1
  <2>3. C = [i \in 1 .. b |-> C[i]]
    OBVIOUS
  <2> HIDE DEF C
  <2>4. QED
    BY <2>2, <2>3
<1>32. ForkedTree(tree, tree', M, L, lev, n, s, k, q, e, b)
  <2> HIDE DEF C
  <2>1. ForkedTree(tree, [tree EXCEPT ![n][s] = -(M + 1)] \o C, M, L, lev, n, s, k, q, e, b)
    <3>1. tree \in Seq(Rows) /\ M = Len(tree)
      BY <1>4, <1>5
    <3>2. \A i \in 1 .. b - 1, r \in Slots :
            C[i][r] = IF r = DigitAt(k, lev[n] + i) THEN -(M + i + 1) ELSE 0
      BY <1>29
    <3>3. \A r \in Slots : C[b][r] = IF r = DigitAt(k, lev[n] + b) THEN L + 1
                                     ELSE IF r = DigitAt(q, lev[n] + b) THEN e ELSE 0
      BY <1>30
    <3>4. QED
      BY <1>20, <1>31, <3>1, <3>2, <3>3, SplitTree
  <2>2. QED
    BY <1>25, <2>1
<1>33. Z \in [1 .. b -> Places] /\ Z[1] = <<n, s>>
  <2>1. ASSUME NEW i \in 2 .. b
        PROVE  <<M + i - 1, Current(Ahead(h, i - 1))>> \in Places
    <3>1. i - 1 \in 0 .. b /\ M + i - 1 \in Nat
      OBVIOUS
    <3>2. Current(Ahead(h, i - 1)) \in Slots
      BY <1>22, <3>1
    <3>3. QED
      BY <3>1, <3>2 DEF Places
  <2>2. <<n, s>> \in Places
    BY DEF Places
  <2>3. \A i \in 1 .. b : i = 1 \/ i \in 2 .. b
    OBVIOUS
  <2>4. 1 \in 1 .. b
    BY <1>20
  <2>5. QED
    BY <2>1, <2>2, <2>3, <2>4
<1>34. \A i \in 2 .. b : Z[i] = <<M + i - 1, DigitAt(k, lev[n] + (i - 1))>>
  <2>1. ASSUME NEW i \in 2 .. b
        PROVE  Z[i] = <<M + i - 1, DigitAt(k, lev[n] + (i - 1))>>
    <3>1. i \in 1 .. b /\ i # 1 /\ i - 1 \in 0 .. b
      OBVIOUS
    <3>2. Current(Ahead(h, i - 1)) = DigitAt(k, lev[n] + (i - 1))
      BY <1>7, <1>22, <3>1
    <3>3. QED
      BY <3>1, <3>2
  <2>2. QED
    BY <2>1
<1>35. ForkedNodes(nodeSlot, nodeSlot', M, lev, n, s, k, b)
  <2> HIDE DEF Z
  <2>1. ForkedNodes(nodeSlot, nodeSlot \o Z, M, lev, n, s, k, b)
    BY <1>4, <1>5, <1>20, <1>33, <1>34, SplitNodes
  <2>2. QED
    BY <1>26, <2>1
<1> HIDE DEF C, Z
<1>36. ForkedEntries(entrySlot, entrySlot', M, L, lev, n, k, q, e, b)
  <2>1. DigitAt(k, lev[n] + b) \in Slots /\ DigitAt(q, lev[n] + b) \in Slots
    BY <1>7, <1>23
  <2>2. ForkedEntries(entrySlot, Append([entrySlot EXCEPT ![e] = <<M + b, DigitAt(q, lev[n] + b)>>],
                           <<M + b, DigitAt(k, lev[n] + b)>>), M, L, lev, n, k, q, e, b)
    BY <1>4, <1>5, <2>1, SplitEntries
  <2>3. QED
    BY <1>27, <2>2
<1>37. keys' = Append(keys, k) /\ values' = Append(values, v) /\ cached' = Append(cached, Hash(k, 0))
  BY DEF InsertBySplit, PushedEntry
<1>38. PICK U, P, F, Q : U = tree' /\ P = nodeSlot' /\ F = entrySlot' /\ Q = Append(keys, k)
  OBVIOUS
<1>39. Linked(U, P, F, M + b, L + 1)
  BY <1>3, <1>5, <1>20, <1>21, <1>32, <1>35, <1>36, <1>38, ForkKeepsLinks
<1>40. PICK lv, wd : lv = ForkLevels(lev, M, n, b) /\ wd = ForkWords(w, M, k, b)
  OBVIOUS
<1>41. /\ Leveled(M + b, lv, wd) /\ Sorted(U, Q, M + b, L + 1, lv, wd)
       /\ \A x0 : Full(tree, M, x0) => Full(U, M + b, x0)
  <2>1. ForkedTree(tree, U, M, L, lev, n, s, k, q, e, b)
    BY <1>32, <1>38
  <2>2. /\ Leveled(M + b, ForkLevels(lev, M, n, b), ForkWords(w, M, k, b))
        /\ Sorted(U, Q, M + b, L + 1, ForkLevels(lev, M, n, b), ForkWords(w, M, k, b))
        /\ \A x0 : Full(tree, M, x0) => Full(U, M + b, x0)
    BY <1>3, <1>5, <1>20, <1>21, <1>38, <2>1, ForkIsSorted
  <2>3. QED
    BY <1>40, <2>2
<1>42. Len(U) = M + b /\ U \in Seq(Rows) /\ P \in Seq(Places) /\ Len(P) = M + b
       /\ F \in Seq(Places) /\ Len(F) = L + 1
  BY <1>32, <1>35, <1>36, <1>38 DEF ForkedTree, ForkedNodes, ForkedEntries
<1>43. Q \in Seq(Keys) /\ Len(Q) = L + 1
  BY <1>4, <1>5, <1>38, AppendedAt
<1>44. Trie(U, P, F, Q, lv, wd)
  <2>1. M + b >= 1
    BY <1>20
  <2>2. Typed(U, P, F, Q)
    BY <1>42, <1>43, <2>1 DEF Typed
  <2>3. QED
    BY <1>39, <1>41, <1>42, <1>43, <2>2 DEF Trie
<1>45. \A i \in 1 .. Len(keys) : keys[i] # k
  <2>1. ASSUME NEW i \in 1 .. Len(keys), keys[i] = k
        PROVE  FALSE
    <3>1. at.entry = i
      BY <1>3, <1>8, <2>1, EntryIsFound
    <3>2. QED
      BY <1>10, <2>1, <3>1
  <2>2. QED
    BY <2>1
<1>46. Distinct(Q, Len(Q))
  BY <1>4, <1>5, <1>38, <1>43, <1>45, AddedKey
<1>47. Full(U, Len(U), Root)
  BY <1>4, <1>5, <1>41, <1>42
<1>48. Sound(U, P, F, Q, Root)
  BY <1>44, <1>46, <1>47, SoundBy
<1>49. Columns(Append(keys, k), Append(values, v), Append(cached, Hash(k, 0)))
  BY <1>4, MoreColumns
<1>50. QED
  BY <1>37, <1>38, <1>48, <1>49 DEF IInv
-----------------------------------------------------------------------------
(* erase: the entry goes                                                     *)

\* R is S after its last element has moved to i.
FilledBy(X, S, R, L, i) ==
  R \in Seq(X) /\ Len(R) = L - 1 /\ \A f \in 1 .. L - 1 : R[f] = IF f = i THEN S[L] ELSE S[f]

\* What Filled returns.
LEMMA FilledIs ==
    ASSUME NEW X, NEW S \in Seq(X), NEW L \in Nat, L = Len(S), NEW i \in 1 .. L
    PROVE  FilledBy(X, S, Filled(S, i), L, i)
<1>1. PICK x \in X : x = S[L]
  BY ElementOfSeq
<1>2. Last(S) = x
  BY <1>1 DEF Last
<1>3. PICK R : R = [S EXCEPT ![i] = x]
  OBVIOUS
<1>4. R \in Seq(X) /\ Len(R) = L /\ \A f \in 1 .. L : R[f] = IF f = i THEN x ELSE S[f]
  BY <1>3, ExceptSeq
<1>5. Filled(S, i) = Front(R)
  BY <1>2, <1>3 DEF Filled
<1>6. /\ Front(R) \in Seq(X) /\ Len(Front(R)) = L - 1
      /\ \A f \in 1 .. L - 1 : Front(R)[f] = R[f]
  BY <1>4, FrontOf
<1>7. \A f \in 1 .. L - 1 : Front(R)[f] = IF f = i THEN S[L] ELSE S[f]
  BY <1>1, <1>4, <1>6
<1>8. QED
  BY <1>5, <1>6, <1>7 DEF FilledBy

\* A is T after the last entry has moved from its slot bs of bn to the number i,
\* and the slot hs of hn that named i has been cleared.
Holed(T, A, M, hn, hs, bn, bs, i) ==
  /\ A \in Seq(Rows) /\ Len(A) = M
  /\ \A m \in 1 .. M, r \in Slots :
       A[m][r] = IF m = hn /\ r = hs THEN 0 ELSE IF m = bn /\ r = bs THEN i ELSE T[m][r]

\* x is in one slot of T, slot r of m.
Alone(T, M, x, m, r) ==
  T[m][r] = x /\ \A o \in 1 .. M, u \in Slots : T[o][u] = x => o = m /\ u = r

\* Where an entry is.
LEMMA EntryPlace ==
    ASSUME NEW T, NEW N, NEW E, NEW M \in Nat, NEW L \in Nat, Linked(T, N, E, M, L),
           NEW e \in 1 .. L
    PROVE  \E m \in 1 .. M, r \in Slots : E[e] = <<m, r>> /\ Alone(T, M, e, m, r)
<1>1. PICK m \in 1 .. M, r \in Slots : E[e] = <<m, r>> /\ T[m][r] = e
  BY DEF Linked
<1>2. ASSUME NEW o \in 1 .. M, NEW u \in Slots, T[o][u] = e
      PROVE  o = m /\ u = r
  <2>1. T[o][u] > 0 => E[T[o][u]] = <<o, u>>
    BY DEF Linked
  <2>2. E[e] = <<o, u>>
    BY <1>2, <2>1
  <2>3. QED
    BY <1>1, <2>2
<1>3. QED
  BY <1>1, <1>2 DEF Alone

\* Where a node is.
LEMMA NodePlace ==
    ASSUME NEW T, NEW N, NEW E, NEW M \in Nat, NEW L \in Nat, Linked(T, N, E, M, L),
           NEW c \in 2 .. M
    PROVE  \E m \in 1 .. M, r \in Slots : N[c] = <<m, r>> /\ Alone(T, M, -c, m, r)
<1>1. PICK m \in 1 .. M, r \in Slots : N[c] = <<m, r>> /\ T[m][r] = -c
  BY DEF Linked
<1>2. ASSUME NEW o \in 1 .. M, NEW u \in Slots, T[o][u] = -c
      PROVE  o = m /\ u = r
  <2>1. T[o][u] < 0 => N[-T[o][u]] = <<o, u>>
    BY DEF Linked
  <2>2. -c < 0 /\ -(-c) = c
    OBVIOUS
  <2>3. N[c] = <<o, u>>
    BY <1>2, <2>1, <2>2
  <2>4. QED
    BY <1>1, <2>3
<1>3. QED
  BY <1>1, <1>2 DEF Alone

\* What erase leaves before it prunes is a tree of the other entries, in which
\* only the node of the erased one may be empty.
LEMMA ErasedEntry ==
    ASSUME NEW T, NEW N, NEW E, NEW K, NEW lev, NEW w, Trie(T, N, E, K, lev, w),
           NEW M \in Nat, NEW L \in Nat, M = Len(T), L = Len(K), NEW i \in 1 .. L,
           NEW hn \in 1 .. M, NEW hs \in Slots, E[i] = <<hn, hs>>, T[hn][hs] = i,
           NEW bn \in 1 .. M, NEW bs \in Slots, E[L] = <<bn, bs>>, T[bn][bs] = L,
           NEW A, Holed(T, A, M, hn, hs, bn, bs, i),
           NEW F, FilledBy(Places, E, F, L, i), NEW Q, FilledBy(Keys, K, Q, L, i)
    PROVE  /\ Trie(A, N, F, Q, lev, w)
           /\ Full(T, M, Root) => Full(A, M, hn)
<1>0. Linked(T, N, E, M, L) /\ Sorted(T, K, M, L, lev, w)
  BY DEF Trie
<1>1. ASSUME NEW m \in 1 .. M, NEW r \in Slots
      PROVE  /\ A[m][r] = IF m = hn /\ r = hs THEN 0 ELSE IF m = bn /\ r = bs THEN i ELSE T[m][r]
             /\ T[m][r] \in Int
  <2>1. T[m] \in Rows
    BY LevelTypes
  <2>2. T[m][r] \in Int
    BY <2>1 DEF Rows
  <2>3. A[m][r] = IF m = hn /\ r = hs THEN 0 ELSE IF m = bn /\ r = bs THEN i ELSE T[m][r]
    BY DEF Holed
  <2>4. QED
    BY <2>2, <2>3
<1>2. /\ A \in Seq(Rows) /\ Len(A) = M /\ F \in Seq(Places) /\ Len(F) = L - 1
      /\ Q \in Seq(Keys) /\ Len(Q) = L - 1
  BY DEF Holed, FilledBy
<1>3. \A f \in 1 .. L - 1 : f \in 1 .. L /\ f # L /\ F[f] = IF f = i THEN E[L] ELSE E[f]
  <2>1. \A f \in 1 .. L - 1 : f \in 1 .. L /\ f # L
    OBVIOUS
  <2>2. \A f \in 1 .. L - 1 : F[f] = IF f = i THEN E[L] ELSE E[f]
    BY DEF FilledBy
  <2>3. QED
    BY <2>1, <2>2
<1>4. \A f \in 1 .. L - 1 : Q[f] = IF f = i THEN K[L] ELSE K[f]
  BY DEF FilledBy
<1>5. hn = bn /\ hs = bs <=> i = L
  <2>1. ASSUME i = L
        PROVE  hn = bn /\ hs = bs
    BY <2>1
  <2>2. ASSUME hn = bn, hs = bs
        PROVE  i = L
    BY <2>2
  <2>3. QED
    BY <2>1, <2>2
<1>6. Linked(A, N, F, M, L - 1)
  <2>1. ASSUME NEW m \in 1 .. M, NEW r \in Slots
        PROVE  /\ A[m][r] > 0 => A[m][r] <= L - 1 /\ F[A[m][r]] = <<m, r>>
               /\ A[m][r] < 0 => -A[m][r] \in 2 .. M /\ N[-A[m][r]] = <<m, r>>
    <3>1. CASE m = hn /\ r = hs
      <4>1. A[m][r] = 0
        BY <1>1, <3>1
      <4>2. QED
        BY <4>1
    <3>2. CASE ~ (m = hn /\ r = hs) /\ m = bn /\ r = bs
      <4>1. A[m][r] = i
        BY <1>1, <3>2
      <4>2. i \in 1 .. L - 1
        BY <1>5, <3>2
      <4>3. F[i] = <<m, r>>
        BY <1>3, <3>2, <4>2
      <4>4. QED
        BY <4>1, <4>2, <4>3
    <3>3. CASE ~ (m = hn /\ r = hs) /\ ~ (m = bn /\ r = bs)
      <4>1. PICK c \in Int : c = A[m][r] /\ c = T[m][r]
        BY <1>1, <3>3
      <4>2. /\ T[m][r] > 0 => T[m][r] <= L /\ E[T[m][r]] = <<m, r>>
            /\ T[m][r] < 0 => -T[m][r] \in 2 .. M /\ N[-T[m][r]] = <<m, r>>
        BY <1>0 DEF Linked
      <4>3. ASSUME c > 0
            PROVE  c <= L - 1 /\ F[c] = <<m, r>>
        <5>1. c <= L /\ E[c] = <<m, r>>
          BY <4>1, <4>2, <4>3
        <5>2. c # L /\ c # i
          BY <3>3, <5>1
        <5>3. c \in 1 .. L - 1
          BY <4>3, <5>1, <5>2
        <5>4. QED
          BY <1>3, <5>1, <5>2, <5>3
      <4>4. QED
        BY <4>1, <4>2, <4>3
    <3>4. QED
      BY <3>1, <3>2, <3>3
  <2>2. ASSUME NEW f \in 1 .. L - 1
        PROVE  \E m \in 1 .. M, r \in Slots : F[f] = <<m, r>> /\ A[m][r] = f
    <3>1. CASE f = i
      <4>1. F[f] = <<bn, bs>> /\ ~ (hn = bn /\ hs = bs)
        BY <1>3, <1>5, <3>1
      <4>2. A[bn][bs] = f
        BY <1>1, <3>1, <4>1
      <4>3. QED
        BY <4>1, <4>2
    <3>2. CASE f # i
      <4>1. f \in 1 .. L /\ f # L /\ F[f] = E[f]
        BY <1>3, <3>2
      <4>2. PICK m \in 1 .. M, r \in Slots : E[f] = <<m, r>> /\ T[m][r] = f
        BY <1>0, <4>1 DEF Linked
      <4>3. ~ (m = hn /\ r = hs) /\ ~ (m = bn /\ r = bs)
        BY <3>2, <4>1, <4>2
      <4>4. A[m][r] = f
        BY <1>1, <4>2, <4>3
      <4>5. QED
        BY <4>1, <4>2, <4>4
    <3>3. QED
      BY <3>1, <3>2
  <2>3. ASSUME NEW c \in 2 .. M
        PROVE  \E m \in 1 .. M, r \in Slots : N[c] = <<m, r>> /\ A[m][r] = -c
    <3>1. PICK m \in 1 .. M, r \in Slots : N[c] = <<m, r>> /\ T[m][r] = -c
      BY <1>0 DEF Linked
    <3>2. -c < 0 /\ i > 0 /\ L > 0
      OBVIOUS
    <3>3. ~ (m = hn /\ r = hs) /\ ~ (m = bn /\ r = bs)
      BY <3>1, <3>2
    <3>4. A[m][r] = -c
      BY <1>1, <3>1, <3>3
    <3>5. QED
      BY <3>1, <3>4
  <2>4. QED
    BY <2>1, <2>2, <2>3 DEF Linked
<1>7. Sorted(A, Q, M, L - 1, lev, w)
  <2>1. ASSUME NEW p \in 1 .. M, NEW m \in 1 .. M, NEW r \in Slots, A[p][r] = -m
        PROVE  Below(lev, w, p, r, m)
    <3>1. -m < 0 /\ i > 0
      OBVIOUS
    <3>2. T[p][r] = -m
      BY <1>1, <2>1, <3>1
    <3>3. QED
      BY <1>0, <3>2 DEF Sorted
  <2>2. ASSUME NEW m \in 1 .. M, NEW r \in Slots, NEW f \in 1 .. L - 1, A[m][r] = f
        PROVE  Hangs(lev, w, m, r, FirstWord(Q[f]))
    <3>1. f \in 1 .. L /\ f # L /\ f # 0
      OBVIOUS
    <3>2. ~ (m = hn /\ r = hs)
      BY <1>1, <2>2, <3>1
    <3>3. CASE m = bn /\ r = bs
      <4>1. f = i
        BY <1>1, <2>2, <3>2, <3>3
      <4>2. Q[f] = K[L]
        BY <1>4, <4>1
      <4>3. L \in 1 .. L
        OBVIOUS
      <4>4. Hangs(lev, w, m, r, FirstWord(K[L]))
        BY <1>0, <3>3, <4>3 DEF Sorted
      <4>5. QED
        BY <4>2, <4>4
    <3>4. CASE ~ (m = bn /\ r = bs)
      <4>1. T[m][r] = f
        BY <1>1, <2>2, <3>2, <3>4
      <4>2. T[m][r] > 0 => E[T[m][r]] = <<m, r>>
        BY <1>0 DEF Linked
      <4>3. E[f] = <<m, r>>
        BY <4>1, <4>2
      <4>4. f # i
        BY <3>2, <4>3
      <4>5. Q[f] = K[f]
        BY <1>4, <4>4
      <4>6. Hangs(lev, w, m, r, FirstWord(K[f]))
        BY <1>0, <3>1, <4>1 DEF Sorted
      <4>7. QED
        BY <4>5, <4>6
    <3>5. QED
      BY <3>3, <3>4
  <2>3. QED
    BY <2>1, <2>2 DEF Sorted
<1>8. Trie(A, N, F, Q, lev, w)
  <2>1. Typed(A, N, F, Q) /\ Leveled(Len(A), lev, w)
    BY <1>2 DEF Trie, Typed
  <2>2. QED
    BY <1>2, <1>6, <1>7, <2>1 DEF Trie
<1>9. ASSUME Full(T, M, Root)
      PROVE  Full(A, M, hn)
  <2>1. ASSUME NEW m \in 2 .. M, m # hn
        PROVE  \E r \in Slots : A[m][r] # 0
    <3>1. m # Root /\ m \in 1 .. M
      BY DEF Root
    <3>2. PICK r \in Slots : T[m][r] # 0
      BY <1>9, <3>1 DEF Full
    <3>3. A[m][r] # 0
      BY <1>1, <2>1, <3>1, <3>2
    <3>4. QED
      BY <3>3
  <2>2. QED
    BY <2>1 DEF Full
<1>10. QED
  BY <1>8, <1>9

\* Keys stay apart, and the columns beside them.
LEMMA ErasedKey ==
    ASSUME NEW K \in Seq(Keys), NEW L \in Nat, L = Len(K), Distinct(K, L), NEW i \in 1 .. L,
           NEW V, NEW C, Columns(K, V, C)
    PROVE  /\ Distinct(Filled(K, i), Len(Filled(K, i)))
           /\ Columns(Filled(K, i), Filled(V, i), Filled(C, i))
<1>1. V \in Seq(Values) /\ C \in Seq(Words) /\ L = Len(V) /\ L = Len(C)
      /\ \A f \in 1 .. L : C[f] = FirstWord(K[f])
  BY DEF Columns
<1>2. PICK Q, W, D : Q = Filled(K, i) /\ W = Filled(V, i) /\ D = Filled(C, i)
  OBVIOUS
<1>3. FilledBy(Keys, K, Q, L, i) /\ FilledBy(Values, V, W, L, i) /\ FilledBy(Words, C, D, L, i)
  BY <1>1, <1>2, FilledIs
<1>4. /\ Len(Q) = L - 1 /\ W \in Seq(Values) /\ Len(W) = L - 1
      /\ D \in Seq(Words) /\ Len(D) = L - 1
  BY <1>3 DEF FilledBy
<1>5. \A f \in 1 .. L - 1 : /\ f \in 1 .. L /\ f # L
                            /\ Q[f] = IF f = i THEN K[L] ELSE K[f]
                            /\ D[f] = IF f = i THEN C[L] ELSE C[f]
  BY <1>3 DEF FilledBy
<1>6. L \in 1 .. L
  OBVIOUS
<1>7. \A f, g \in 1 .. L - 1 : Q[f] = Q[g] => f = g
  <2>1. ASSUME NEW f \in 1 .. L - 1, NEW g \in 1 .. L - 1, Q[f] = Q[g]
        PROVE  f = g
    <3>1. /\ f \in 1 .. L /\ f # L /\ Q[f] = IF f = i THEN K[L] ELSE K[f]
          /\ g \in 1 .. L /\ g # L /\ Q[g] = IF g = i THEN K[L] ELSE K[g]
      BY <1>5
    <3>2. ASSUME NEW h \in 1 .. L
          PROVE  /\ K[L] = K[h] => L = h
                 /\ K[h] = K[L] => h = L
                 /\ K[f] = K[h] => f = h
      BY <1>6, <3>1 DEF Distinct
    <3>3. CASE f = i /\ g = i
      BY <3>3
    <3>4. CASE f = i /\ g # i
      BY <2>1, <3>1, <3>2, <3>4
    <3>5. CASE f # i /\ g = i
      BY <2>1, <3>1, <3>2, <3>5
    <3>6. CASE f # i /\ g # i
      BY <2>1, <3>1, <3>2, <3>6
    <3>7. QED
      BY <3>3, <3>4, <3>5, <3>6
  <2>2. QED
    BY <2>1
<1>8. \A f \in 1 .. L - 1 : D[f] = FirstWord(Q[f])
  BY <1>1, <1>5, <1>6
<1>9. QED
  BY <1>2, <1>4, <1>7, <1>8 DEF Distinct, Columns
-----------------------------------------------------------------------------
(* erase: an empty node goes                                                 *)

\* U is T without the last node, which slot s of p named.
Dropped(T, U, M, p, s) ==
  /\ U \in Seq(Rows) /\ Len(U) = M - 1
  /\ \A m \in 1 .. M - 1, r \in Slots : U[m][r] = IF m = p /\ r = s THEN 0 ELSE T[m][r]
Shorter(N, P, M) == P \in Seq(Places) /\ Len(P) = M - 1 /\ \A m \in 1 .. M - 1 : P[m] = N[m]

\* An empty last node goes.
LEMMA DroppedNode ==
    ASSUME NEW T, NEW N, NEW E, NEW K, NEW lev, NEW w, Trie(T, N, E, K, lev, w),
           NEW M \in Nat, NEW L \in Nat, M = Len(T), L = Len(K), M >= 2,
           \A r \in Slots : T[M][r] = 0, Full(T, M, M),
           NEW p \in 1 .. M, NEW s \in Slots, N[M] = <<p, s>>, T[p][s] = -M,
           NEW U, Dropped(T, U, M, p, s), NEW P, Shorter(N, P, M)
    PROVE  /\ p \in 1 .. M - 1 /\ Full(U, M - 1, p)
           /\ \E lv, wd : Trie(U, P, E, K, lv, wd)
<1>0. Linked(T, N, E, M, L) /\ Sorted(T, K, M, L, lev, w) /\ Leveled(M, lev, w)
  BY DEF Trie
<1>1. p \in 1 .. M - 1
  <2>1. p # M
    BY -M # 0
  <2>2. QED
    BY <2>1
<1>2. ASSUME NEW m \in 1 .. M - 1, NEW r \in Slots
      PROVE  /\ U[m][r] = IF m = p /\ r = s THEN 0 ELSE T[m][r]
             /\ T[m][r] \in Int /\ m \in 1 .. M
  <2>1. m \in 1 .. M
    OBVIOUS
  <2>2. T[m] \in Rows
    BY <2>1, LevelTypes
  <2>3. T[m][r] \in Int
    BY <2>2 DEF Rows
  <2>4. QED
    BY <2>1, <2>3 DEF Dropped
<1>3. /\ U \in Seq(Rows) /\ Len(U) = M - 1 /\ P \in Seq(Places) /\ Len(P) = M - 1
      /\ \A m \in 1 .. M - 1 : P[m] = N[m]
  BY DEF Dropped, Shorter
<1>4. Linked(U, P, E, M - 1, L)
  <2>1. ASSUME NEW m \in 1 .. M - 1, NEW r \in Slots
        PROVE  /\ U[m][r] > 0 => U[m][r] <= L /\ E[U[m][r]] = <<m, r>>
               /\ U[m][r] < 0 => -U[m][r] \in 2 .. M - 1 /\ P[-U[m][r]] = <<m, r>>
    <3>1. CASE m = p /\ r = s
      <4>1. U[m][r] = 0
        BY <1>2, <3>1
      <4>2. QED
        BY <4>1
    <3>2. CASE ~ (m = p /\ r = s)
      <4>1. PICK c \in Int : c = U[m][r] /\ c = T[m][r]
        BY <1>2, <3>2
      <4>2. m \in 1 .. M
        OBVIOUS
      <4>3. /\ T[m][r] > 0 => T[m][r] <= L /\ E[T[m][r]] = <<m, r>>
            /\ T[m][r] < 0 => -T[m][r] \in 2 .. M /\ N[-T[m][r]] = <<m, r>>
        BY <1>0, <4>2 DEF Linked
      <4>4. ASSUME c < 0
            PROVE  -c \in 2 .. M - 1 /\ P[-c] = <<m, r>>
        <5>1. -c \in 2 .. M /\ N[-c] = <<m, r>>
          BY <4>1, <4>3, <4>4
        <5>2. -c # M
          BY <3>2, <5>1
        <5>3. -c \in 2 .. M - 1 /\ -c \in 1 .. M - 1
          BY <5>1, <5>2
        <5>4. QED
          BY <1>3, <5>1, <5>3
      <4>5. QED
        BY <4>1, <4>3, <4>4
    <3>3. QED
      BY <3>1, <3>2
  <2>2. ASSUME NEW e \in 1 .. L
        PROVE  \E m \in 1 .. M - 1, r \in Slots : E[e] = <<m, r>> /\ U[m][r] = e
    <3>1. PICK m \in 1 .. M, r \in Slots : E[e] = <<m, r>> /\ T[m][r] = e
      BY <1>0 DEF Linked
    <3>2. e # 0 /\ e # -M
      OBVIOUS
    <3>3. m # M /\ ~ (m = p /\ r = s)
      BY <3>1, <3>2
    <3>4. m \in 1 .. M - 1
      BY <3>3
    <3>5. U[m][r] = e
      BY <1>2, <3>1, <3>3, <3>4
    <3>6. QED
      BY <3>1, <3>4, <3>5
  <2>3. ASSUME NEW c \in 2 .. M - 1
        PROVE  \E m \in 1 .. M - 1, r \in Slots : P[c] = <<m, r>> /\ U[m][r] = -c
    <3>1. c \in 2 .. M /\ c \in 1 .. M - 1
      OBVIOUS
    <3>2. PICK m \in 1 .. M, r \in Slots : N[c] = <<m, r>> /\ T[m][r] = -c
      BY <1>0, <3>1 DEF Linked
    <3>3. -c # 0 /\ -c # -M
      OBVIOUS
    <3>4. m # M /\ ~ (m = p /\ r = s)
      BY <3>2, <3>3
    <3>5. m \in 1 .. M - 1
      BY <3>4
    <3>6. U[m][r] = -c
      BY <1>2, <3>2, <3>4, <3>5
    <3>7. QED
      BY <1>3, <3>1, <3>2, <3>5, <3>6
  <2>4. QED
    BY <2>1, <2>2, <2>3 DEF Linked
<1>5. PICK lv, wd : lv = [m \in 1 .. M - 1 |-> lev[m]] /\ wd = [m \in 1 .. M - 1 |-> w[m]]
  OBVIOUS
<1>6. \A m \in 1 .. M - 1 : m \in 1 .. M /\ lv[m] = lev[m] /\ wd[m] = w[m]
  BY <1>5
<1>7. Leveled(M - 1, lv, wd)
  <2>1. 1 \in 1 .. M - 1 /\ \A m \in 1 .. M - 1 : m \in 1 .. M
    OBVIOUS
  <2>2. QED
    BY <1>0, <1>5, <2>1 DEF Leveled
<1>8. Sorted(U, K, M - 1, L, lv, wd)
  <2>1. ASSUME NEW q \in 1 .. M - 1, NEW m \in 1 .. M - 1, NEW r \in Slots, U[q][r] = -m
        PROVE  Below(lv, wd, q, r, m)
    <3>1. -m # 0 /\ q \in 1 .. M /\ m \in 1 .. M
      OBVIOUS
    <3>2. T[q][r] = -m
      BY <1>2, <2>1, <3>1
    <3>3. Below(lev, w, q, r, m)
      BY <1>0, <3>1, <3>2 DEF Sorted
    <3>4. QED
      BY <1>6, <3>3 DEF Below
  <2>2. ASSUME NEW m \in 1 .. M - 1, NEW r \in Slots, NEW e \in 1 .. L, U[m][r] = e
        PROVE  Hangs(lv, wd, m, r, FirstWord(K[e]))
    <3>1. e # 0 /\ m \in 1 .. M
      OBVIOUS
    <3>2. T[m][r] = e
      BY <1>2, <2>2, <3>1
    <3>3. Hangs(lev, w, m, r, FirstWord(K[e]))
      BY <1>0, <3>1, <3>2 DEF Sorted
    <3>4. QED
      BY <1>6, <3>3 DEF Hangs
  <2>3. QED
    BY <2>1, <2>2 DEF Sorted
<1>9. Full(U, M - 1, p)
  <2>1. ASSUME NEW m \in 2 .. M - 1, m # p
        PROVE  \E r \in Slots : U[m][r] # 0
    <3>1. m \in 2 .. M /\ m # M /\ m \in 1 .. M - 1
      OBVIOUS
    <3>2. PICK r \in Slots : T[m][r] # 0
      BY <3>1 DEF Full
    <3>3. U[m][r] # 0
      BY <1>2, <2>1, <3>1, <3>2
    <3>4. QED
      BY <3>3
  <2>2. QED
    BY <2>1 DEF Full
<1>10. Trie(U, P, E, K, lv, wd)
  <2>1. M - 1 >= 1
    OBVIOUS
  <2>2. Typed(U, P, E, K)
    BY <1>3, <2>1 DEF Trie, Typed
  <2>3. QED
    BY <1>3, <1>4, <1>7, <1>8, <2>2 DEF Trie
<1>11. QED
  BY <1>1, <1>9, <1>10

\* U is T after its last node has taken the place of node a, in the slot c of b
\* too that named it, and the slot s of p that named a has been cleared.
Replaced(T, U, M, a, p, s, b, c) ==
  /\ U \in Seq(Rows) /\ Len(U) = M - 1
  /\ \A m \in 1 .. M - 1, r \in Slots :
       U[m][r] = IF m = a THEN T[M][r]
                 ELSE IF m = p /\ r = s THEN 0
                 ELSE IF m = b /\ r = c THEN -a ELSE T[m][r]
\* The children of the moved node have followed it.
Readdressed(N, P, T, M, a) ==
  /\ P \in Seq(Places) /\ Len(P) = M - 1
  /\ \A m \in 1 .. M - 1 :
       /\ \A r \in Slots : T[M][r] = -m => P[m] = <<a, r>>
       /\ (\A r \in Slots : T[M][r] # -m) => P[m] = IF m = a THEN N[M] ELSE N[m]
Resettled(E, F, T, M, L, a) ==
  /\ F \in Seq(Places) /\ Len(F) = L
  /\ \A e \in 1 .. L :
       /\ \A r \in Slots : T[M][r] = e => F[e] = <<a, r>>
       /\ (\A r \in Slots : T[M][r] # e) => F[e] = E[e]

\* The last node takes the place of an empty one.
LEMMA ReplacedNode ==
    ASSUME NEW T, NEW N, NEW E, NEW K, NEW lev, NEW w, Trie(T, N, E, K, lev, w),
           NEW M \in Nat, NEW L \in Nat, M = Len(T), L = Len(K),
           NEW a \in 2 .. M - 1, \A r \in Slots : T[a][r] = 0, Full(T, M, a),
           NEW p \in 1 .. M - 1, NEW s \in Slots, N[a] = <<p, s>>, T[p][s] = -a,
           NEW b \in 1 .. M, NEW c \in Slots, N[M] = <<b, c>>, T[b][c] = -M,
           NEW U, Replaced(T, U, M, a, p, s, b, c),
           NEW P, Readdressed(N, P, T, M, a), NEW F, Resettled(E, F, T, M, L, a)
    PROVE  /\ Full(U, M - 1, p)
           /\ \E lv, wd : Trie(U, P, F, K, lv, wd)
<1>0. Linked(T, N, E, M, L) /\ Sorted(T, K, M, L, lev, w) /\ Leveled(M, lev, w)
  BY DEF Trie
<1>1. M \in 2 .. M /\ a \in 2 .. M /\ M \in 1 .. M /\ a \in 1 .. M /\ a # M /\ p \in 1 .. M
      /\ \A m \in 1 .. M - 1 : m \in 1 .. M /\ m # M
  OBVIOUS
<1>2. \A m \in 1 .. M, r \in Slots : T[m][r] \in Int
  <2>1. \A m \in 1 .. M : T[m] \in Rows
    BY LevelTypes
  <2>2. QED
    BY <2>1 DEF Rows
<1>3. /\ \A o \in 1 .. M, u \in Slots : T[o][u] = -a => o = p /\ u = s
      /\ \A o \in 1 .. M, u \in Slots : T[o][u] = -M => o = b /\ u = c
  <2>1. PICK o1 \in 1 .. M, u1 \in Slots : N[a] = <<o1, u1>> /\ Alone(T, M, -a, o1, u1)
    BY <1>0, <1>1, NodePlace
  <2>2. PICK o2 \in 1 .. M, u2 \in Slots : N[M] = <<o2, u2>> /\ Alone(T, M, -M, o2, u2)
    BY <1>0, <1>1, NodePlace
  <2>3. o1 = p /\ u1 = s /\ o2 = b /\ u2 = c
    BY <2>1, <2>2
  <2>4. QED
    BY <2>1, <2>2, <2>3 DEF Alone
<1>4. b # a /\ b # M /\ p # a /\ b \in 1 .. M - 1
  <2>1. b # a /\ p # a
    BY -M # 0, -a # 0
  <2>2. b # M
    <3>1. ASSUME b = M
          PROVE  FALSE
      <4>1. T[M][c] = -M
        BY <3>1
      <4>2. Below(lev, w, M, c, M)
        BY <1>0, <1>1, <4>1 DEF Sorted
      <4>3. lev[M] = lev[M] + 1 /\ lev[M] \in Nat
        BY <1>1, <4>2, LevelTypes DEF Below
      <4>4. QED
        BY <4>3
    <3>2. QED
      BY <3>1
  <2>3. QED
    BY <2>1, <2>2
<1>5. ASSUME NEW m \in 1 .. M - 1, NEW r \in Slots
      PROVE  /\ m = a => U[m][r] = T[M][r]
             /\ m = p /\ r = s => U[m][r] = 0
             /\ m = b /\ r = c => U[m][r] = -a
             /\ m # a /\ ~ (m = p /\ r = s) /\ ~ (m = b /\ r = c) => U[m][r] = T[m][r]
  <2>1. U[m][r] = IF m = a THEN T[M][r]
                  ELSE IF m = p /\ r = s THEN 0
                  ELSE IF m = b /\ r = c THEN -a ELSE T[m][r]
    BY DEF Replaced
  <2>2. ~ (p = b /\ s = c)
    <3>1. -a # -M
      BY <1>1
    <3>2. QED
      BY <3>1
  <2>3. QED
    BY <1>4, <2>1, <2>2
<1>6. \A r \in Slots : T[M][r] # -a /\ T[M][r] # -M
  BY <1>1, <1>3, <1>4
<1>7. P[a] = <<b, c>>
  <2>1. a \in 1 .. M - 1
    OBVIOUS
  <2>2. P[a] = N[M]
    BY <1>6, <2>1 DEF Readdressed
  <2>3. QED
    BY <2>2
<1>8. /\ U \in Seq(Rows) /\ Len(U) = M - 1 /\ P \in Seq(Places) /\ Len(P) = M - 1
      /\ F \in Seq(Places) /\ Len(F) = L
  BY DEF Replaced, Readdressed, Resettled
<1>9. ASSUME NEW m \in 1 .. M, NEW r \in Slots
      PROVE  /\ T[m][r] > 0 => T[m][r] <= L /\ E[T[m][r]] = <<m, r>>
             /\ T[m][r] < 0 => -T[m][r] \in 2 .. M /\ N[-T[m][r]] = <<m, r>>
  BY <1>0 DEF Linked
<1>10. Linked(U, P, F, M - 1, L)
  <2>1. ASSUME NEW m \in 1 .. M - 1, NEW r \in Slots, NEW x \in Int, x = U[m][r]
        PROVE  /\ x > 0 => x <= L /\ F[x] = <<m, r>>
               /\ x < 0 => -x \in 2 .. M - 1 /\ P[-x] = <<m, r>>
    <3>1. CASE m = a
      <4>1. x = T[M][r]
        BY <1>5, <2>1, <3>1
      <4>2. /\ x > 0 => x <= L
            /\ x < 0 => -x \in 2 .. M
        BY <1>1, <1>9, <4>1
      <4>3. ASSUME x > 0
            PROVE  F[x] = <<m, r>>
        <5>1. x \in 1 .. L
          BY <4>2, <4>3
        <5>2. QED
          BY <3>1, <4>1, <5>1 DEF Resettled
      <4>4. ASSUME x < 0
            PROVE  -x \in 2 .. M - 1 /\ P[-x] = <<m, r>>
        <5>1. PICK y \in 2 .. M : y = -x /\ x = -y
          BY <4>2, <4>4
        <5>2. y # M
          BY <1>6, <4>1, <5>1
        <5>3. y \in 2 .. M - 1 /\ y \in 1 .. M - 1
          BY <5>2
        <5>4. P[y] = <<a, r>>
          BY <4>1, <5>1, <5>3 DEF Readdressed
        <5>5. QED
          BY <3>1, <5>1, <5>3, <5>4
      <4>5. QED
        BY <4>2, <4>3, <4>4
    <3>2. CASE m = p /\ r = s
      <4>1. x = 0
        BY <1>5, <2>1, <3>2
      <4>2. QED
        BY <4>1
    <3>3. CASE m = b /\ r = c
      <4>0. x = -a
        BY <1>5, <2>1, <3>3
      <4>1. -x = a /\ x < 0
        BY <4>0
      <4>2. a \in 2 .. M - 1
        OBVIOUS
      <4>3. -x \in 2 .. M - 1 /\ ~ (x > 0)
        BY <4>1, <4>2
      <4>4. P[-x] = <<m, r>>
        BY <1>7, <3>3, <4>1
      <4>5. QED
        BY <4>3, <4>4
    <3>4. CASE m # a /\ ~ (m = p /\ r = s) /\ ~ (m = b /\ r = c)
      <4>1. x = T[m][r] /\ m \in 1 .. M /\ m # M
        BY <1>1, <1>5, <2>1, <3>4
      <4>2. /\ x > 0 => x <= L /\ E[x] = <<m, r>>
            /\ x < 0 => -x \in 2 .. M /\ N[-x] = <<m, r>>
        BY <1>9, <4>1
      <4>3. ASSUME x > 0
            PROVE  F[x] = <<m, r>>
        <5>1. x \in 1 .. L /\ E[x] = <<m, r>>
          BY <4>2, <4>3
        <5>2. \A u \in Slots : T[M][u] # x
          <6>1. ASSUME NEW u \in Slots, T[M][u] = x
                PROVE  FALSE
            <7>1. E[x] = <<M, u>>
              BY <1>1, <1>9, <4>3, <6>1
            <7>2. QED
              BY <4>1, <5>1, <7>1
          <6>2. QED
            BY <6>1
        <5>3. QED
          BY <5>1, <5>2 DEF Resettled
      <4>4. ASSUME x < 0
            PROVE  -x \in 2 .. M - 1 /\ P[-x] = <<m, r>>
        <5>1. PICK y \in 2 .. M : y = -x /\ x = -y
          BY <4>2, <4>4
        <5>2. N[y] = <<m, r>>
          BY <4>2, <4>4, <5>1
        <5>3. y # M /\ y # a
          BY <3>4, <5>2
        <5>4. y \in 2 .. M - 1 /\ y \in 1 .. M - 1
          BY <5>3
        <5>5. \A u \in Slots : T[M][u] # -y
          <6>1. ASSUME NEW u \in Slots, T[M][u] = -y
                PROVE  FALSE
            <7>1. T[M][u] < 0 /\ -T[M][u] = y
              BY <6>1
            <7>2. N[y] = <<M, u>>
              BY <1>1, <1>9, <7>1
            <7>3. QED
              BY <4>1, <5>2, <7>2
          <6>2. QED
            BY <6>1
        <5>6. P[y] = N[y]
          BY <5>3, <5>4, <5>5 DEF Readdressed
        <5>7. QED
          BY <5>1, <5>2, <5>4, <5>6
      <4>5. QED
        BY <4>2, <4>3, <4>4
    <3>5. QED
      BY <3>1, <3>2, <3>3, <3>4
  <2>2. ASSUME NEW m \in 1 .. M - 1, NEW r \in Slots
        PROVE  /\ U[m][r] > 0 => U[m][r] <= L /\ F[U[m][r]] = <<m, r>>
               /\ U[m][r] < 0 => -U[m][r] \in 2 .. M - 1 /\ P[-U[m][r]] = <<m, r>>
    <3>1. U[m] \in Rows
      BY <1>8, ElementOfSeq
    <3>2. PICK x \in Int : x = U[m][r]
      BY <3>1 DEF Rows
    <3>3. QED
      BY <2>1, <3>2
  <2>3. ASSUME NEW e \in 1 .. L
        PROVE  \E m \in 1 .. M - 1, r \in Slots : F[e] = <<m, r>> /\ U[m][r] = e
    <3>0. PICK m \in 1 .. M, r \in Slots : E[e] = <<m, r>> /\ Alone(T, M, e, m, r)
      BY <1>0, EntryPlace
    <3>1. /\ E[e] = <<m, r>> /\ T[m][r] = e
          /\ \A o \in 1 .. M, u \in Slots : T[o][u] = e => o = m /\ u = r
      BY <3>0 DEF Alone
    <3>2. CASE m = M
      <4>1. F[e] = <<a, r>> /\ a \in 1 .. M - 1
        BY <3>1, <3>2 DEF Resettled
      <4>2. U[a][r] = e
        BY <1>5, <3>1, <3>2, <4>1
      <4>3. QED
        BY <4>1, <4>2
    <3>3. CASE m # M
      <4>1. m \in 1 .. M - 1
        BY <3>3
      <4>2. \A u \in Slots : T[M][u] # e
        BY <1>1, <3>1, <3>3
      <4>3. F[e] = E[e]
        BY <4>2 DEF Resettled
      <4>4. e # 0 /\ e # -a /\ e # -M
        OBVIOUS
      <4>5. m # a /\ ~ (m = p /\ r = s) /\ ~ (m = b /\ r = c)
        BY <3>1, <4>4
      <4>6. U[m][r] = e
        BY <1>5, <3>1, <4>1, <4>5
      <4>7. QED
        BY <3>1, <4>1, <4>3, <4>6
    <3>4. QED
      BY <3>2, <3>3
  <2>4. ASSUME NEW y \in 2 .. M - 1
        PROVE  \E m \in 1 .. M - 1, r \in Slots : P[y] = <<m, r>> /\ U[m][r] = -y
    <3>1. y \in 2 .. M /\ y \in 1 .. M - 1
      OBVIOUS
    <3>0. PICK m \in 1 .. M, r \in Slots : N[y] = <<m, r>> /\ Alone(T, M, -y, m, r)
      BY <1>0, <3>1, NodePlace
    <3>2. /\ N[y] = <<m, r>> /\ T[m][r] = -y
          /\ \A o \in 1 .. M, u \in Slots : T[o][u] = -y => o = m /\ u = r
      BY <3>0 DEF Alone
    <3>3. CASE y = a
      <4>1. U[b][c] = -y
        BY <1>4, <1>5, <3>3
      <4>2. QED
        BY <1>4, <1>7, <3>3, <4>1
    <3>4. CASE y # a /\ m = M
      <4>1. P[y] = <<a, r>> /\ a \in 1 .. M - 1
        BY <3>1, <3>2, <3>4 DEF Readdressed
      <4>2. U[a][r] = -y
        BY <1>5, <3>2, <3>4, <4>1
      <4>3. QED
        BY <4>1, <4>2
    <3>5. CASE y # a /\ m # M
      <4>1. m \in 1 .. M - 1
        BY <3>5
      <4>2. \A u \in Slots : T[M][u] # -y
        BY <1>1, <3>2, <3>5
      <4>3. P[y] = N[y]
        BY <3>1, <3>5, <4>2 DEF Readdressed
      <4>4. -y # 0 /\ -y # -a /\ -y # -M
        BY <3>5
      <4>5. m # a /\ ~ (m = p /\ r = s) /\ ~ (m = b /\ r = c)
        BY <3>2, <4>4
      <4>6. U[m][r] = -y
        BY <1>5, <3>2, <4>1, <4>5
      <4>7. QED
        BY <3>2, <4>1, <4>3, <4>6
    <3>6. QED
      BY <3>3, <3>4, <3>5
  <2>5. QED
    BY <2>2, <2>3, <2>4 DEF Linked
<1>11. PICK lv, wd : /\ lv = [m \in 1 .. M - 1 |-> IF m = a THEN lev[M] ELSE lev[m]]
                     /\ wd = [m \in 1 .. M - 1 |-> IF m = a THEN w[M] ELSE w[m]]
  OBVIOUS
<1>12. /\ \A m \in 1 .. M - 1 : m # a => lv[m] = lev[m] /\ wd[m] = w[m]
       /\ lv[a] = lev[M] /\ wd[a] = w[M]
  <2>1. a \in 1 .. M - 1
    OBVIOUS
  <2>2. QED
    BY <1>11, <2>1
<1>13. Leveled(M - 1, lv, wd)
  <2>1. lev \in [1 .. M -> 0 .. Word - 1] /\ lev[1] = 0 /\ w \in [1 .. M -> Words]
    BY <1>0 DEF Leveled
  <2>2. 1 \in 1 .. M - 1 /\ 1 # a
    OBVIOUS
  <2>3. lv \in [1 .. M - 1 -> 0 .. Word - 1] /\ wd \in [1 .. M - 1 -> Words]
    BY <1>1, <1>11, <2>1
  <2>4. lv[1] = 0
    BY <1>12, <2>1, <2>2
  <2>5. QED
    BY <2>3, <2>4 DEF Leveled
<1>14. ASSUME NEW q \in 1 .. M - 1, NEW m \in 1 .. M - 1, NEW r \in Slots, U[q][r] = -m
       PROVE  Below(lv, wd, q, r, m)
  <2>1. -m # 0 /\ m \in 1 .. M
    OBVIOUS
  <2>2. CASE q = a
    <3>1. T[M][r] = -m
      BY <1>5, <1>14, <2>2
    <3>2. m # a
      BY <1>6, <3>1
    <3>3. Below(lev, w, M, r, m)
      BY <1>0, <1>1, <2>1, <3>1 DEF Sorted
    <3>4. QED
      BY <1>12, <2>2, <3>2, <3>3 DEF Below
  <2>3. CASE q = b /\ r = c
    <3>1. -m = -a
      BY <1>5, <1>14, <2>3
    <3>2. m = a
      BY <3>1
    <3>3. Below(lev, w, b, c, M)
      BY <1>0, <1>1 DEF Sorted
    <3>4. QED
      BY <1>4, <1>12, <2>3, <3>2, <3>3 DEF Below
  <2>4. CASE q # a /\ ~ (q = b /\ r = c)
    <3>1. ~ (q = p /\ r = s)
      BY <1>5, <1>14, <2>1
    <3>2. T[q][r] = -m /\ q \in 1 .. M
      BY <1>1, <1>5, <1>14, <2>4, <3>1
    <3>3. m # a
      BY <1>3, <3>1, <3>2
    <3>4. Below(lev, w, q, r, m)
      BY <1>0, <2>1, <3>2 DEF Sorted
    <3>5. QED
      BY <1>12, <2>4, <3>3, <3>4 DEF Below
  <2>5. QED
    BY <2>2, <2>3, <2>4
<1>15. ASSUME NEW m \in 1 .. M - 1, NEW r \in Slots, NEW e \in 1 .. L, U[m][r] = e
       PROVE  Hangs(lv, wd, m, r, FirstWord(K[e]))
  <2>1. e # 0 /\ e # -a
    OBVIOUS
  <2>2. CASE m = a
    <3>1. T[M][r] = e
      BY <1>5, <1>15, <2>2
    <3>2. Hangs(lev, w, M, r, FirstWord(K[e]))
      BY <1>0, <1>1, <3>1 DEF Sorted
    <3>3. QED
      BY <1>12, <2>2, <3>2 DEF Hangs
  <2>3. CASE m # a
    <3>1. ~ (m = p /\ r = s) /\ ~ (m = b /\ r = c)
      BY <1>5, <1>15, <2>1
    <3>2. T[m][r] = e /\ m \in 1 .. M
      BY <1>1, <1>5, <1>15, <2>3, <3>1
    <3>3. Hangs(lev, w, m, r, FirstWord(K[e]))
      BY <1>0, <3>2 DEF Sorted
    <3>4. QED
      BY <1>12, <2>3, <3>3 DEF Hangs
  <2>4. QED
    BY <2>2, <2>3
<1>16. Sorted(U, K, M - 1, L, lv, wd)
  BY <1>14, <1>15 DEF Sorted
<1>17. Full(U, M - 1, p)
  <2>1. ASSUME NEW m \in 2 .. M - 1, m # p
        PROVE  \E r \in Slots : U[m][r] # 0
    <3>1. m \in 2 .. M /\ m \in 1 .. M - 1
      OBVIOUS
    <3>2. CASE m = a
      <4>1. PICK r \in Slots : T[M][r] # 0
        BY <1>1 DEF Full
      <4>2. U[m][r] # 0
        BY <1>5, <3>1, <3>2, <4>1
      <4>3. QED
        BY <4>2
    <3>3. CASE m # a
      <4>1. PICK r \in Slots : T[m][r] # 0
        BY <3>1, <3>3 DEF Full
      <4>2. -a # 0
        OBVIOUS
      <4>3. U[m][r] # 0
        BY <1>5, <2>1, <3>1, <3>3, <4>1, <4>2
      <4>4. QED
        BY <4>3
    <3>4. QED
      BY <3>2, <3>3
  <2>2. QED
    BY <2>1 DEF Full
<1>18. Trie(U, P, F, K, lv, wd)
  <2>1. M - 1 >= 1
    OBVIOUS
  <2>2. Typed(U, P, F, K)
    BY <1>8, <2>1 DEF Trie, Typed
  <2>3. QED
    BY <1>8, <1>10, <1>13, <1>16, <2>2 DEF Trie
<1>19. QED
  BY <1>17, <1>18
-----------------------------------------------------------------------------
(* erase: the turns of the loop                                              *)

\* Node M has been copied over node a.
Copied(T, X, M, a) == X = [T EXCEPT ![a] = T[M]]
NotBelowItself(T, M) == \A r \in Slots : T[M][r] # -M

\* The tree of one turn.
LEMMA MovedTree ==
    ASSUME NEW T \in Seq(Rows), NEW M \in Nat, M = Len(T), NEW a \in 2 .. M - 1,
           NEW p \in 1 .. M, NEW s \in Slots, NEW b \in 1 .. M, NEW c \in Slots,
           p # a, b # a, ~ (p = b /\ s = c),
           NEW X, Copied(T, X, M, a), NEW Y, Written(X, Y, b, c, -a),
           NEW Z, Written(Y, Z, p, s, 0)
    PROVE  Replaced(T, Front(Z), M, a, p, s, b, c)
<1>1. PICK row \in Rows : row = T[M]
  <2>1. M \in 1 .. Len(T)
    OBVIOUS
  <2>2. QED
    BY <2>1, ElementOfSeq
<1>2. X \in Seq(Rows) /\ Len(X) = M /\ \A m \in 1 .. M : X[m] = IF m = a THEN row ELSE T[m]
  <2>1. X = [T EXCEPT ![a] = row] /\ a \in 1 .. Len(T)
    BY <1>1 DEF Copied
  <2>2. /\ [T EXCEPT ![a] = row] \in Seq(Rows) /\ Len([T EXCEPT ![a] = row]) = Len(T)
        /\ \A m \in 1 .. Len(T) : [T EXCEPT ![a] = row][m] = IF m = a THEN row ELSE T[m]
    BY <2>1, ExceptSeq
  <2>3. QED
    BY <2>1, <2>2
<1>3. PICK v \in Int : v = -a
  OBVIOUS
<1>4. /\ Y \in Seq(Rows) /\ Len(Y) = M
      /\ \A m \in 1 .. M, r \in Slots : Y[m][r] = IF m = b /\ r = c THEN v ELSE X[m][r]
  <2>1. Written(X, Y, b, c, v)
    BY <1>3
  <2>2. X \in Seq(Rows) /\ M = Len(X)
    BY <1>2
  <2>3. QED
    BY <2>1, <2>2, WrittenIs
<1>5. /\ Z \in Seq(Rows) /\ Len(Z) = M
      /\ \A m \in 1 .. M, r \in Slots : Z[m][r] = IF m = p /\ r = s THEN 0 ELSE Y[m][r]
  <2>1. PICK o \in Int : o = 0
    OBVIOUS
  <2>2. Written(Y, Z, p, s, o)
    BY <2>1
  <2>3. /\ Z \in Seq(Rows) /\ Len(Z) = M
        /\ \A m \in 1 .. M, r \in Slots : Z[m][r] = IF m = p /\ r = s THEN o ELSE Y[m][r]
    BY <1>4, <2>2, WrittenIs
  <2>4. QED
    BY <2>1, <2>3
<1>6. PICK U : U = Front(Z)
  OBVIOUS
<1>7. U \in Seq(Rows) /\ Len(U) = M - 1 /\ \A m \in 1 .. M - 1 : U[m] = Z[m]
  <2>1. Len(Z) > 0
    BY <1>5
  <2>2. QED
    BY <1>5, <1>6, <2>1, FrontOf
<1>8. ASSUME NEW m \in 1 .. M - 1, NEW r \in Slots
      PROVE  U[m][r] = IF m = a THEN T[M][r]
                       ELSE IF m = p /\ r = s THEN 0
                       ELSE IF m = b /\ r = c THEN -a ELSE T[m][r]
  <2>1. m \in 1 .. M
    OBVIOUS
  <2>2. U[m][r] = IF m = p /\ r = s THEN 0 ELSE IF m = b /\ r = c THEN -a ELSE X[m][r]
    <3>1. U[m] = Z[m]
      BY <1>7
    <3>2. Z[m][r] = IF m = p /\ r = s THEN 0 ELSE Y[m][r]
      BY <1>5, <2>1
    <3>3. Y[m][r] = IF m = b /\ r = c THEN v ELSE X[m][r]
      BY <1>4, <2>1
    <3>4. Y[m][r] = IF m = b /\ r = c THEN -a ELSE X[m][r]
      BY <1>3, <3>3
    <3>5. QED
      BY <3>1, <3>2, <3>4
  <2>3. X[m][r] = IF m = a THEN T[M][r] ELSE T[m][r]
    BY <1>1, <1>2, <2>1
  <2>4. QED
    BY <2>2, <2>3
<1>9. QED
  BY <1>6, <1>7, <1>8 DEF Replaced

Renamed(N, D, row, M, a) ==
  D = [n \in DOMAIN N |-> IF \E s \in Slots : row[s] = -n
                          THEN <<a, CHOOSE s \in Slots : row[s] = -n>>
                          ELSE IF n = a THEN N[M] ELSE N[n]]
Rehoused(E, D, row, a) ==
  D = [e \in DOMAIN E |-> IF \E s \in Slots : row[s] = e
                          THEN <<a, CHOOSE s \in Slots : row[s] = e>>
                          ELSE E[e]]

NodesMoved(T, N, D, M, a) == D[M] = N[M] /\ Readdressed(N, Front(D), T, M, a)

\* The indexes of one turn: where the children of the moved node are now.
LEMMA MovedNodes ==
    ASSUME NEW T, NEW N \in Seq(Places), NEW E, NEW M \in Nat, NEW L \in Nat, M = Len(N),
           Linked(T, N, E, M, L), NEW a \in 2 .. M - 1, NotBelowItself(T, M),
           NEW row, row = T[M], NEW D, Renamed(N, D, row, M, a)
    PROVE  NodesMoved(T, N, D, M, a)
<1>1. DOMAIN N = 1 .. M
  BY LenProperties
<1>2. M \in 1 .. M /\ M # a /\ a \in Nat
  OBVIOUS
<1>3. ASSUME NEW n \in 1 .. M
      PROVE  /\ \A r \in Slots : row[r] = -n => D[n] = <<a, r>>
             /\ (\A r \in Slots : row[r] # -n) => D[n] = IF n = a THEN N[M] ELSE N[n]
  <2>1. D[n] = IF \E r \in Slots : row[r] = -n
               THEN <<a, CHOOSE r \in Slots : row[r] = -n>>
               ELSE IF n = a THEN N[M] ELSE N[n]
    BY <1>1 DEF Renamed
  <2>2. ASSUME NEW r \in Slots, row[r] = -n
        PROVE  D[n] = <<a, r>>
    <3>1. PICK u : u = CHOOSE x \in Slots : row[x] = -n
      OBVIOUS
    <3>2. u \in Slots /\ row[u] = -n
      BY <2>2, <3>1
    <3>3. \A x \in Slots : row[x] = -n => N[n] = <<M, x>>
      <4>1. ASSUME NEW x \in Slots, row[x] = -n
            PROVE  N[n] = <<M, x>>
        <5>1. T[M][x] < 0 => N[-T[M][x]] = <<M, x>>
          BY <1>2 DEF Linked
        <5>2. -n < 0 /\ -(-n) = n /\ T[M][x] = -n
          BY <4>1
        <5>3. QED
          BY <5>1, <5>2
      <4>2. QED
        BY <4>1
    <3>4. u = r
      BY <2>2, <3>2, <3>3
    <3>5. QED
      BY <2>1, <2>2, <3>1, <3>4
  <2>3. QED
    BY <2>1, <2>2
<1>4. \A n \in 1 .. M : D[n] \in Places
  <2>1. \A n \in 1 .. M : N[n] \in Places
    BY ElementOfSeq
  <2>2. \A r \in Slots : <<a, r>> \in Places
    BY <1>2 DEF Places
  <2>3. QED
    BY <1>2, <1>3, <2>1, <2>2
<1>5. D \in Seq(Places) /\ Len(D) = M
  <2>1. D = [n \in 1 .. M |-> D[n]]
    BY <1>1 DEF Renamed
  <2>2. D \in [1 .. M -> Places]
    BY <1>4, <2>1
  <2>3. QED
    BY <2>2
<1>6. D[M] = N[M]
  BY <1>2, <1>3 DEF NotBelowItself
<1>7. PICK P : P = Front(D)
  OBVIOUS
<1>8. P \in Seq(Places) /\ Len(P) = M - 1 /\ \A n \in 1 .. M - 1 : P[n] = D[n]
  <2>1. Len(D) > 0
    BY <1>5
  <2>2. QED
    BY <1>5, <1>7, <2>1, FrontOf
<1>9. Readdressed(N, P, T, M, a)
  <2>1. ASSUME NEW n \in 1 .. M - 1
        PROVE  /\ \A r \in Slots : T[M][r] = -n => P[n] = <<a, r>>
               /\ (\A r \in Slots : T[M][r] # -n) => P[n] = IF n = a THEN N[M] ELSE N[n]
    <3>1. n \in 1 .. M
      OBVIOUS
    <3>2. P[n] = D[n]
      BY <1>8
    <3>3. /\ \A r \in Slots : row[r] = -n => D[n] = <<a, r>>
          /\ (\A r \in Slots : row[r] # -n) => D[n] = IF n = a THEN N[M] ELSE N[n]
      BY <1>3, <3>1
    <3>4. QED
      BY <3>2, <3>3
  <2>2. QED
    BY <1>8, <2>1 DEF Readdressed
<1>10. QED
  BY <1>6, <1>7, <1>9 DEF NodesMoved

\* The entries' indexes likewise.
LEMMA MovedEntries ==
    ASSUME NEW T, NEW N, NEW E \in Seq(Places), NEW M \in Nat, NEW L \in Nat, L = Len(E),
           Linked(T, N, E, M, L), NEW a \in 2 .. M - 1,
           NEW row, row = T[M], NEW D, Rehoused(E, D, row, a)
    PROVE  Resettled(E, D, T, M, L, a)
<1>1. DOMAIN E = 1 .. L
  BY LenProperties
<1>2. M \in 1 .. M /\ a \in Nat
  OBVIOUS
<1>3. ASSUME NEW e \in 1 .. L
      PROVE  /\ \A r \in Slots : row[r] = e => D[e] = <<a, r>>
             /\ (\A r \in Slots : row[r] # e) => D[e] = E[e]
  <2>1. D[e] = IF \E r \in Slots : row[r] = e
               THEN <<a, CHOOSE r \in Slots : row[r] = e>>
               ELSE E[e]
    BY <1>1 DEF Rehoused
  <2>2. ASSUME NEW r \in Slots, row[r] = e
        PROVE  D[e] = <<a, r>>
    <3>1. PICK u : u = CHOOSE x \in Slots : row[x] = e
      OBVIOUS
    <3>2. u \in Slots /\ row[u] = e
      BY <2>2, <3>1
    <3>3. \A x \in Slots : row[x] = e => E[e] = <<M, x>>
      <4>1. ASSUME NEW x \in Slots, row[x] = e
            PROVE  E[e] = <<M, x>>
        <5>1. T[M][x] > 0 => E[T[M][x]] = <<M, x>>
          BY <1>2 DEF Linked
        <5>2. e > 0 /\ T[M][x] = e
          BY <4>1
        <5>3. QED
          BY <5>1, <5>2
      <4>2. QED
        BY <4>1
    <3>4. u = r
      BY <2>2, <3>2, <3>3
    <3>5. QED
      BY <2>1, <2>2, <3>1, <3>4
  <2>3. QED
    BY <2>1, <2>2
<1>4. \A e \in 1 .. L : D[e] \in Places
  <2>1. \A e \in 1 .. L : E[e] \in Places
    BY ElementOfSeq
  <2>2. \A r \in Slots : <<a, r>> \in Places
    BY <1>2 DEF Places
  <2>3. ASSUME NEW e \in 1 .. L
        PROVE  D[e] \in Places
    <3>1. CASE \E r \in Slots : row[r] = e
      <4>1. PICK r \in Slots : row[r] = e
        BY <3>1
      <4>2. D[e] = <<a, r>>
        BY <1>3, <4>1
      <4>3. QED
        BY <2>2, <4>2
    <3>2. CASE \A r \in Slots : row[r] # e
      BY <1>3, <2>1, <3>2
    <3>3. QED
      BY <3>1, <3>2
  <2>4. QED
    BY <2>3
<1>5. D \in Seq(Places) /\ Len(D) = L
  <2>1. D = [e \in 1 .. L |-> D[e]]
    BY <1>1 DEF Rehoused
  <2>2. D \in [1 .. L -> Places]
    BY <1>4, <2>1
  <2>3. D \in Seq(Places)
    BY <2>2
  <2>4. Len(D) = L
    BY <2>2, <2>3, LenProperties
  <2>5. QED
    BY <2>3, <2>4
<1>6. QED
  BY <1>3, <1>5 DEF Resettled

\* A state of the loop, and what is so of it as long as erase has not met its
\* bug: at is a node, and the only one but the root that may be empty.
State(T, N, E, a) == [tree |-> T, nodeSlot |-> N, entrySlot |-> E, at |-> a]
Good(t, K, M) ==
  \E T, N, E, a, lev, w :
    /\ t = State(T, N, E, a) /\ Len(T) = M
    /\ Trie(T, N, E, K, lev, w) /\ Full(T, M, a) /\ a \in 1 .. M
Strayed(t) == t.at > Len(t.tree) /\ t.at \notin DOMAIN t.tree
Over(t) == t.at = Root \/ t.tree[t.at] # Blank

\* What a turn does, field by field.
DropTurn(t, u, M, p, s) ==
  \E X : Written(t.tree, X, p, s, 0) /\ u = State(Front(X), Front(t.nodeSlot), t.entrySlot, p)
MoveTurn(t, u, M, p, s) ==
  \E X, D, F, Y, Z :
    /\ Copied(t.tree, X, M, t.at)
    /\ Renamed(t.nodeSlot, D, X[t.at], M, t.at) /\ Rehoused(t.entrySlot, F, X[t.at], t.at)
    /\ Written(X, Y, D[M][1], D[M][2], -t.at) /\ Written(Y, Z, p, s, 0)
    /\ u = State(Front(Z), Front(D), F, p)

\* Pruned is one of the two.
LEMMA PrunedTurns ==
    ASSUME NEW t, NEW p, NEW s, t.nodeSlot[t.at] = <<p, s>>,
           t = State(t.tree, t.nodeSlot, t.entrySlot, t.at)
    PROVE  IF t.at = Len(t.tree) THEN DropTurn(t, Pruned(t), Len(t.tree), p, s)
           ELSE MoveTurn(t, Pruned(t), Len(t.tree), p, s)
<1> DEFINE last == Len(t.tree)
           up == t.nodeSlot[t.at]
           moved == [t.tree EXCEPT ![t.at] = t.tree[last]]
           named == [n \in DOMAIN t.nodeSlot |->
                       IF \E r \in Slots : moved[t.at][r] = -n
                       THEN <<t.at, CHOOSE r \in Slots : moved[t.at][r] = -n>>
                       ELSE IF n = t.at THEN t.nodeSlot[last] ELSE t.nodeSlot[n]]
           placed == [e \in DOMAIN t.entrySlot |->
                        IF \E r \in Slots : moved[t.at][r] = e
                        THEN <<t.at, CHOOSE r \in Slots : moved[t.at][r] = e>>
                        ELSE t.entrySlot[e]]
           back == named[last]
           relinked == [moved EXCEPT ![back[1]][back[2]] = -t.at]
<1>1. up[1] = p /\ up[2] = s
  OBVIOUS
<1>2. CASE t.at = last
  <2>1. PICK X : X = [t.tree EXCEPT ![up[1]][up[2]] = 0]
    OBVIOUS
  <2>2. Pruned(t) = [t EXCEPT !.at = up[1], !.tree = Front([@ EXCEPT ![up[1]][up[2]] = 0]),
                              !.nodeSlot = Front(@)]
    BY <1>2 DEF Pruned
  <2>3. Pruned(t) = [t EXCEPT !.at = p, !.tree = Front(X), !.nodeSlot = Front(t.nodeSlot)]
    BY <1>1, <2>1, <2>2
  <2>4. Pruned(t) = State(Front(X), Front(t.nodeSlot), t.entrySlot, p)
    BY <2>3 DEF State
  <2>5. Written(t.tree, X, p, s, 0)
    BY <1>1, <2>1 DEF Written
  <2>6. QED
    BY <1>2, <2>4, <2>5 DEF DropTurn
<1>3. CASE t.at # last
  <2>1. Pruned(t) = [tree |-> Front([relinked EXCEPT ![up[1]][up[2]] = 0]),
                     nodeSlot |-> Front(named), entrySlot |-> placed, at |-> up[1]]
    BY <1>3 DEF Pruned
  <2>2. Renamed(t.nodeSlot, named, moved[t.at], last, t.at)
    BY DEF Renamed
  <2>3. Rehoused(t.entrySlot, placed, moved[t.at], t.at)
    BY DEF Rehoused
  <2>4. Written(moved, relinked, named[last][1], named[last][2], -t.at)
    BY DEF Written
  <2>5. PICK Z : Z = [relinked EXCEPT ![up[1]][up[2]] = 0]
    OBVIOUS
  <2>6. Written(relinked, Z, p, s, 0)
    BY <1>1, <2>5 DEF Written
  <2>7. Pruned(t) = State(Front(Z), Front(named), placed, p)
    <3> HIDE DEF relinked, named, placed, last
    <3>1. QED
      BY <1>1, <2>1, <2>5 DEF State
  <2>8. PICK X, D, F, Y : X = moved /\ D = named /\ F = placed /\ Y = relinked
    OBVIOUS
  <2>9. Copied(t.tree, X, Len(t.tree), t.at)
    BY <2>8 DEF Copied
  <2>10. MoveTurn(t, Pruned(t), Len(t.tree), p, s)
    <3> HIDE DEF relinked, named, placed, moved, back, up
    <3>1. /\ Renamed(t.nodeSlot, D, X[t.at], last, t.at) /\ Rehoused(t.entrySlot, F, X[t.at], t.at)
          /\ Written(X, Y, D[last][1], D[last][2], -t.at)
      BY <2>2, <2>3, <2>4, <2>8
    <3>2. Written(Y, Z, p, s, 0) /\ Pruned(t) = State(Front(Z), Front(D), F, p)
      BY <2>6, <2>7, <2>8
    <3>3. QED
      BY <2>9, <3>1, <3>2, Zenon DEF MoveTurn
  <2>11. QED
    BY <1>3, <2>10
<1>4. QED
  BY <1>2, <1>3

\* A turn takes a node away or strays.
LEMMA PrunedIs ==
    ASSUME NEW t, NEW K, NEW M \in Nat, Good(t, K, M), ~ Over(t)
    PROVE  Good(Pruned(t), K, M - 1) \/ Strayed(Pruned(t))
<1>1. PICK T, N, E, a, lev, w :
        /\ t = State(T, N, E, a) /\ Len(T) = M
        /\ Trie(T, N, E, K, lev, w) /\ Full(T, M, a) /\ a \in 1 .. M
  BY DEF Good
<1>2. t.tree = T /\ t.nodeSlot = N /\ t.entrySlot = E /\ t.at = a
  BY <1>1 DEF State
<1>3. a \in 2 .. M /\ T[a] = Blank
  BY <1>1, <1>2 DEF Over, Root
<1>4. \A r \in Slots : T[a][r] = 0
  BY <1>3 DEF Blank
<1>5. /\ T \in Seq(Rows) /\ N \in Seq(Places) /\ E \in Seq(Places) /\ K \in Seq(Keys)
      /\ Len(N) = M /\ Len(E) = Len(K)
  BY <1>1 DEF Trie, Typed
<1>6. PICK L \in Nat : L = Len(K) /\ L = Len(E)
  BY <1>5, LenProperties
<1>7. Linked(T, N, E, M, L) /\ Sorted(T, K, M, L, lev, w)
  BY <1>1, <1>6 DEF Trie
<1>8. PICK p \in 1 .. M, s \in Slots : N[a] = <<p, s>> /\ T[p][s] = -a
  BY <1>3, <1>7 DEF Linked
<1>9. IF a = M THEN DropTurn(t, Pruned(t), M, p, s) ELSE MoveTurn(t, Pruned(t), M, p, s)
  <2>1. t.nodeSlot[t.at] = <<p, s>> /\ t = State(t.tree, t.nodeSlot, t.entrySlot, t.at)
    BY <1>1, <1>2, <1>8
  <2>2. IF t.at = Len(t.tree) THEN DropTurn(t, Pruned(t), Len(t.tree), p, s)
        ELSE MoveTurn(t, Pruned(t), Len(t.tree), p, s)
    BY <2>1, PrunedTurns
  <2>3. t.at = a /\ Len(t.tree) = M
    BY <1>1, <1>2
  <2>4. QED
    BY <2>2, <2>3
<1>10. PICK o \in Int : o = 0
  OBVIOUS
<1>11. CASE a = M
  <2>1. PICK X, Z, P : /\ Written(T, X, p, s, o) /\ Z = Front(X) /\ P = Front(N)
                       /\ Pruned(t) = State(Z, P, E, p)
    BY <1>2, <1>9, <1>10, <1>11 DEF DropTurn
  <2>2. /\ X \in Seq(Rows) /\ Len(X) = M
        /\ \A m \in 1 .. M, r \in Slots : X[m][r] = IF m = p /\ r = s THEN o ELSE T[m][r]
    BY <1>1, <1>5, <2>1, WrittenIs
  <2>3. Dropped(T, Z, M, p, s)
    <3>1. Len(X) > 0
      BY <1>3, <2>2
    <3>2. Z \in Seq(Rows) /\ Len(Z) = M - 1 /\ \A m \in 1 .. M - 1 : Z[m] = X[m]
      BY <2>1, <2>2, <3>1, FrontOf
    <3>3. \A m \in 1 .. M - 1 : m \in 1 .. M
      OBVIOUS
    <3>4. QED
      BY <1>10, <2>2, <3>2, <3>3 DEF Dropped
  <2>4. Shorter(N, P, M)
    <3>1. Len(N) > 0
      BY <1>3, <1>5
    <3>2. QED
      BY <1>5, <2>1, <3>1, FrontOf DEF Shorter
  <2>5. /\ p \in 1 .. M - 1 /\ Full(Z, M - 1, p)
        /\ \E lv, wd : Trie(Z, P, E, K, lv, wd)
    <3>1. /\ M = Len(T) /\ M >= 2 /\ \A r \in Slots : T[M][r] = 0
          /\ Full(T, M, M) /\ N[M] = <<p, s>> /\ T[p][s] = -M
      BY <1>1, <1>3, <1>4, <1>8, <1>11
    <3>2. QED
      BY <1>1, <1>6, <2>3, <2>4, <3>1, DroppedNode
  <2>6. Len(Z) = M - 1
    BY <2>3 DEF Dropped
  <2>7. Good(Pruned(t), K, M - 1)
    BY <2>1, <2>5, <2>6 DEF Good
  <2>8. QED
    BY <2>7
<1>12. CASE a # M
  <2>1. a \in 2 .. M - 1 /\ M \in 2 .. M /\ M \in 1 .. M
    BY <1>3, <1>12
  <2>2. PICK b \in 1 .. M, c \in Slots : N[M] = <<b, c>> /\ T[b][c] = -M
    BY <1>7, <2>1 DEF Linked
  <2>3. \A r \in Slots : T[M][r] # -M
    <3>1. ASSUME NEW r \in Slots, T[M][r] = -M
          PROVE  FALSE
      <4>1. Below(lev, w, M, r, M)
        BY <1>7, <2>1, <3>1 DEF Sorted
      <4>2. lev[M] = lev[M] + 1 /\ lev[M] \in Nat
        BY <1>1, <2>1, <4>1, LevelTypes DEF Below
      <4>3. QED
        BY <4>2
    <3>2. QED
      BY <3>1
  <2>4. p # a /\ b # a /\ ~ (p = b /\ s = c)
    <3>1. -a # 0 /\ -M # 0 /\ -a # -M
      BY <2>1
    <3>2. QED
      BY <1>4, <1>8, <2>2, <3>1
  <2>5. PICK X, D, F, Y, Z :
          /\ Copied(T, X, M, a)
          /\ Renamed(N, D, X[a], M, a) /\ Rehoused(E, F, X[a], a)
          /\ Written(X, Y, D[M][1], D[M][2], -a) /\ Written(Y, Z, p, s, 0)
          /\ Pruned(t) = State(Front(Z), Front(D), F, p)
    BY <1>2, <1>9, <1>12 DEF MoveTurn
  <2>6. PICK row : row = X[a] /\ row = T[M]
    <3>1. a \in DOMAIN T
      BY <1>1, <1>5, <2>1, LenProperties
    <3>2. QED
      BY <2>5, <3>1 DEF Copied
  <2>7. Renamed(N, D, row, M, a) /\ Rehoused(E, F, row, a)
    BY <2>5, <2>6
  <2>8. D[M] = N[M] /\ Readdressed(N, Front(D), T, M, a)
    <3>1. N \in Seq(Places) /\ M = Len(N)
      BY <1>5
    <3>2. NotBelowItself(T, M)
      BY <2>3 DEF NotBelowItself
    <3>3. Linked(T, N, E, M, L) /\ a \in 2 .. M - 1 /\ row = T[M] /\ Renamed(N, D, row, M, a)
      BY <1>7, <2>1, <2>6, <2>7
    <3>4. NodesMoved(T, N, D, M, a)
      BY <3>1, <3>2, <3>3, MovedNodes
    <3>5. QED
      BY <3>4 DEF NodesMoved
  <2>9. Resettled(E, F, T, M, L, a)
    BY <1>5, <1>6, <1>7, <2>1, <2>6, <2>7, MovedEntries
  <2>10. Written(X, Y, b, c, -a)
    <3>1. D[M][1] = b /\ D[M][2] = c
      BY <2>2, <2>8
    <3>2. QED
      BY <2>5, <3>1
  <2>11. Replaced(T, Front(Z), M, a, p, s, b, c)
    BY <1>1, <1>5, <2>1, <2>4, <2>5, <2>10, MovedTree
  <2>12. PICK U, P : U = Front(Z) /\ P = Front(D)
    OBVIOUS
  <2>13. U \in Seq(Rows) /\ Len(U) = M - 1
    BY <2>11, <2>12 DEF Replaced
  <2>14. Pruned(t) = State(U, P, F, p)
    BY <2>5, <2>12
  <2>15. CASE p = M
    <3>1. Pruned(t).tree = U /\ Pruned(t).at = M
      BY <2>14, <2>15 DEF State
    <3>2. DOMAIN U = 1 .. M - 1
      BY <2>13, LenProperties
    <3>3. Strayed(Pruned(t))
      BY <2>13, <3>1, <3>2 DEF Strayed
    <3>4. QED
      BY <3>3
  <2>16. CASE p # M
    <3>1. p \in 1 .. M - 1
      BY <2>16
    <3>2. Replaced(T, U, M, a, p, s, b, c) /\ Readdressed(N, P, T, M, a)
      BY <2>8, <2>11, <2>12
    <3>3. Full(U, M - 1, p) /\ \E lv, wd : Trie(U, P, F, K, lv, wd)
      BY <1>1, <1>4, <1>6, <1>8, <2>1, <2>2, <2>9, <3>1, <3>2, ReplacedNode
    <3>4. Good(Pruned(t), K, M - 1)
      BY <2>13, <2>14, <3>1, <3>3 DEF Good
    <3>5. QED
      BY <3>4
  <2>17. QED
    BY <2>15, <2>16
<1>13. QED
  BY <1>11, <1>12

\* What a state of the loop holds.
LEMMA GoodAt ==
    ASSUME NEW t, NEW K, NEW M \in Nat, Good(t, K, M)
    PROVE  Len(t.tree) = M /\ t.at \in 1 .. M /\ ~ (t.at > Len(t.tree))
<1>1. PICK T, N, E, a : t = State(T, N, E, a) /\ Len(T) = M /\ a \in 1 .. M
  BY DEF Good
<1>2. t.tree = T /\ t.at = a
  BY <1>1 DEF State
<1>3. QED
  BY <1>1, <1>2

\* The loop ends where no node but the root is empty, or it strays.
LEMMA PrunedAllIs ==
    ASSUME NEW t, NEW K, NEW M \in Nat, Good(t, K, M)
    PROVE  \/ Strayed(PrunedAll(t))
           \/ \E m \in 1 .. M : Good(PrunedAll(t), K, m) /\ Over(PrunedAll(t))
<1> DEFINE turn(u) == IF u.at = Root \/ u.at > Len(u.tree) THEN u
                      ELSE IF u.tree[u.at] # Blank THEN u ELSE Pruned(u)
           P(f) == f = [n \in 0 .. Len(t.tree) |-> IF n = 0 THEN t ELSE turn(f[n - 1])]
           R(f, n) == /\ f = [i \in 0 .. n |-> f[i]] /\ f[0] = t
                      /\ \A i \in 1 .. n : f[i] = turn(f[i - 1])
           S == {n \in Nat : \E f : R(f, n)}
<1>1. Len(t.tree) = M /\ t.at \in 1 .. M
  BY GoodAt
<1>2. \A u : Strayed(u) => turn(u) = u
  BY DEF Strayed
<1>3. ASSUME NEW u, NEW m \in Nat, Good(u, K, m)
      PROVE  turn(u) = IF Over(u) THEN u ELSE Pruned(u)
  <2>1. ~ (u.at > Len(u.tree))
    BY <1>3, GoodAt
  <2>2. QED
    BY <2>1 DEF Over
<1> HIDE DEF turn
<1>4. 0 \in S
  <2>1. PICK f : f = [i \in 0 .. 0 |-> t]
    OBVIOUS
  <2>2. R(f, 0)
    BY <2>1
  <2>3. QED
    BY <2>2
<1>5. ASSUME NEW n \in Nat, n \in S
      PROVE  n + 1 \in S
  <2>1. PICK f : R(f, n)
    BY <1>5
  <2>2. PICK g : g = [i \in 0 .. n + 1 |-> IF i = n + 1 THEN turn(f[n]) ELSE f[i]]
    OBVIOUS
  <2>3. \A i \in 0 .. n + 1 : g[i] = IF i = n + 1 THEN turn(f[n]) ELSE f[i]
    BY <2>2
  <2>4. 0 \in 0 .. n + 1 /\ 0 # n + 1
    OBVIOUS
  <2>5. g[0] = t
    BY <2>1, <2>3, <2>4
  <2>6. ASSUME NEW i \in 1 .. n + 1
        PROVE  g[i] = turn(g[i - 1])
    <3>1. i \in 0 .. n + 1 /\ i - 1 \in 0 .. n + 1 /\ i - 1 # n + 1
      OBVIOUS
    <3>2. g[i - 1] = f[i - 1]
      BY <2>3, <3>1
    <3>3. CASE i = n + 1
      <4>1. i - 1 = n
        BY <3>3
      <4>2. QED
        BY <2>3, <3>1, <3>2, <3>3, <4>1
    <3>4. CASE i # n + 1
      <4>1. i \in 1 .. n
        BY <3>4
      <4>2. f[i] = turn(f[i - 1])
        BY <2>1, <4>1
      <4>3. QED
        BY <2>3, <3>1, <3>2, <3>4, <4>2
    <3>5. QED
      BY <3>3, <3>4
  <2>7. g = [i \in 0 .. n + 1 |-> g[i]]
    BY <2>2
  <2>8. R(g, n + 1)
    BY <2>5, <2>6, <2>7
  <2>9. QED
    <3> HIDE DEF R
    <3>1. \E z : R(z, n + 1)
      BY <2>8
    <3>2. QED
      BY <3>1
<1>6. M \in S
  <2> HIDE DEF S
  <2>1. Nat \subseteq S
    BY <1>4, <1>5, Induction
  <2>2. QED
    BY <2>1
<1>7. PICK g : R(g, M)
  BY <1>6
<1>8. P(g)
  <2>1. \A n \in 0 .. M : n = 0 \/ n \in 1 .. M
    OBVIOUS
  <2>2. \A n \in 0 .. M : g[n] = IF n = 0 THEN t ELSE turn(g[n - 1])
    BY <1>7, <2>1
  <2>3. g = [n \in 0 .. M |-> g[n]]
    BY <1>7
  <2>4. QED
    BY <1>1, <2>2, <2>3
<1>9. PICK loop : loop = CHOOSE f : P(f)
  OBVIOUS
<1>10. P(loop)
  <2> HIDE DEF P
  <2>1. QED
    BY <1>8, <1>9
<1>11. PrunedAll(t) = loop[M]
  <2> USE DEF turn
  <2>1. PrunedAll(t) = loop[Len(t.tree)]
    BY <1>9 DEF PrunedAll
  <2>2. QED
    BY <1>1, <2>1
<1>12. loop[0] = t /\ \A n \in 1 .. M : loop[n] = turn(loop[n - 1])
  <2>1. \A n \in 1 .. M : n \in 0 .. M /\ n # 0
    OBVIOUS
  <2>2. loop = [n \in 0 .. M |-> IF n = 0 THEN t ELSE turn(loop[n - 1])]
    BY <1>1, <1>10
  <2>3. QED
    BY <2>1, <2>2
<1> DEFINE Q(u, n) == \/ Strayed(u)
                      \/ \E m \in 1 .. M : Good(u, K, m) /\ (Over(u) \/ m + n = M)
           B == {n \in Nat : n \in 0 .. M => Q(loop[n], n)}
<1>13. 0 \in B
  <2>1. M \in 1 .. M /\ M + 0 = M
    BY <1>1
  <2>2. QED
    BY <1>12, <2>1
<1>14. ASSUME NEW n \in Nat, n \in B
       PROVE  n + 1 \in B
  <2>1. SUFFICES ASSUME n + 1 \in 0 .. M PROVE Q(loop[n + 1], n + 1)
    OBVIOUS
  <2>2. n \in 0 .. M /\ n + 1 \in 1 .. M /\ (n + 1) - 1 = n
    BY <2>1
  <2>3. PICK u : u = loop[n] /\ loop[n + 1] = turn(u) /\ Q(u, n)
    BY <1>12, <1>14, <2>2
  <2>4. CASE Strayed(u)
    BY <1>2, <2>3, <2>4
  <2>5. CASE ~ Strayed(u)
    <3>1. PICK m \in 1 .. M : Good(u, K, m) /\ (Over(u) \/ m + n = M)
      BY <2>3, <2>5
    <3>2. m \in Nat /\ m \in 1 .. M
      OBVIOUS
    <3>3. turn(u) = IF Over(u) THEN u ELSE Pruned(u)
      BY <1>3, <3>1, <3>2
    <3>4. CASE Over(u)
      <4>1. turn(u) = u
        BY <3>3, <3>4
      <4>2. QED
        BY <2>3, <3>1, <3>4, <4>1
    <3>5. CASE ~ Over(u)
      <4>1. PICK v : v = Pruned(u) /\ v = turn(u)
        BY <3>3, <3>5
      <4>2. Good(v, K, m - 1) \/ Strayed(v)
        BY <3>1, <3>2, <3>5, <4>1, PrunedIs
      <4>3. CASE Strayed(v)
        BY <2>3, <4>1, <4>3
      <4>4. CASE Good(v, K, m - 1)
        <5>1. m - 1 \in Nat /\ (m - 1) + (n + 1) = M
          BY <3>1, <3>5
        <5>2. v.at \in 1 .. m - 1
          BY <4>4, <5>1, GoodAt
        <5>3. m - 1 \in 1 .. M
          BY <5>1, <5>2
        <5>4. QED
          BY <2>3, <4>1, <4>4, <5>1, <5>3
      <4>5. QED
        BY <4>2, <4>3, <4>4
    <3>6. QED
      BY <3>4, <3>5
  <2>6. QED
    BY <2>4, <2>5
<1>15. M \in B
  <2> HIDE DEF B
  <2>1. Nat \subseteq B
    BY <1>13, <1>14, Induction
  <2>2. QED
    BY <2>1
<1>16. Q(loop[M], M)
  <2>1. M \in 0 .. M
    OBVIOUS
  <2>2. QED
    BY <1>15, <2>1
<1>17. CASE Strayed(loop[M])
  BY <1>11, <1>17
<1>18. CASE ~ Strayed(loop[M])
  <2>1. PICK m \in 1 .. M : Good(loop[M], K, m) /\ (Over(loop[M]) \/ m + M = M)
    BY <1>16, <1>18
  <2>2. m + M # M
    OBVIOUS
  <2>3. QED
    BY <1>11, <2>1, <2>2
<1>19. QED
  BY <1>17, <1>18

\* Where the loop is over the tree is sound.
LEMMA OverIsSound ==
    ASSUME NEW t, NEW K, NEW M \in Nat, Good(t, K, M), Over(t), Distinct(K, Len(K))
    PROVE  Sound(t.tree, t.nodeSlot, t.entrySlot, K, Root)
<1>1. PICK T, N, E, a, lev, w :
        /\ t = State(T, N, E, a) /\ Len(T) = M
        /\ Trie(T, N, E, K, lev, w) /\ Full(T, M, a) /\ a \in 1 .. M
  BY DEF Good
<1>2. t.tree = T /\ t.nodeSlot = N /\ t.entrySlot = E /\ t.at = a
  BY <1>1 DEF State
<1>3. Full(T, M, Root)
  <2>1. ASSUME NEW m \in 2 .. M
        PROVE  \E s \in Slots : T[m][s] # 0
    <3>1. CASE m = a
      <4>1. T[a] # Blank
        BY <1>2, <3>1 DEF Over, Root
      <4>2. T[a] \in Rows
        BY <1>1, LevelTypes
      <4>3. ~ (\A s \in Slots : T[a][s] = 0)
        BY <4>1, <4>2 DEF Blank, Rows
      <4>4. QED
        BY <3>1, <4>3
    <3>2. CASE m # a
      BY <1>1, <3>2 DEF Full
    <3>3. QED
      BY <3>1, <3>2
  <2>2. QED
    BY <2>1 DEF Full
<1>4. Sound(T, N, E, K, Root)
  BY <1>1, <1>3, SoundBy
<1>5. QED
  BY <1>2, <1>4

\* What erase writes before it prunes.
LEMMA HoledIs ==
    ASSUME NEW T \in Seq(Rows), NEW M \in Nat, M = Len(T), NEW i \in Nat,
           NEW hn \in 1 .. M, NEW hs \in Slots, NEW bn \in 1 .. M, NEW bs \in Slots,
           T[hn][hs] = i,
           NEW V, IF hn = bn /\ hs = bs THEN V = T ELSE Written(T, V, bn, bs, i),
           NEW A, Written(V, A, hn, hs, 0)
    PROVE  Holed(T, A, M, hn, hs, bn, bs, i)
<1>1. /\ V \in Seq(Rows) /\ Len(V) = M
      /\ \A m \in 1 .. M, r \in Slots : V[m][r] = IF m = bn /\ r = bs THEN i ELSE T[m][r]
  <2>1. CASE hn = bn /\ hs = bs
    BY <2>1
  <2>2. CASE ~ (hn = bn /\ hs = bs)
    <3>1. Written(T, V, bn, bs, i) /\ i \in Int
      BY <2>2
    <3>2. QED
      BY <3>1, WrittenIs
  <2>3. QED
    BY <2>1, <2>2
<1>2. PICK o \in Int : o = 0
  OBVIOUS
<1>3. /\ A \in Seq(Rows) /\ Len(A) = M
      /\ \A m \in 1 .. M, r \in Slots : A[m][r] = IF m = hn /\ r = hs THEN o ELSE V[m][r]
  <2>1. V \in Seq(Rows) /\ M = Len(V) /\ Written(V, A, hn, hs, o)
    BY <1>1, <1>2
  <2>2. QED
    BY <2>1, WrittenIs
<1>4. \A m \in 1 .. M, r \in Slots :
        A[m][r] = IF m = hn /\ r = hs THEN 0 ELSE IF m = bn /\ r = bs THEN i ELSE T[m][r]
  BY <1>1, <1>2, <1>3
<1>5. QED
  BY <1>3, <1>4 DEF Holed

\* erase keeps the invariant, as long as it does not meet its bug.
LEMMA EraseKeepsInv ==
    ASSUME IInv, ~ EmptiesBelowLast, NEW k \in Keys, Erase(k)
    PROVE  IInv'
<1>1. PICK lw : Trie(tree, nodeSlot, entrySlot, keys, lw[1], lw[2])
  BY DEF IInv, Sound
<1>2. PICK T, N, E, K, lev, w : /\ T = tree /\ N = nodeSlot /\ E = entrySlot /\ K = keys
                                /\ lev = lw[1] /\ w = lw[2]
  OBVIOUS
<1>3. Trie(T, N, E, K, lev, w)
  BY <1>1, <1>2
<1>4. /\ Distinct(K, Len(K)) /\ Full(T, Len(T), Root) /\ Columns(K, values, cached)
      /\ T \in Seq(Rows) /\ N \in Seq(Places) /\ E \in Seq(Places)
      /\ K \in Seq(Keys) /\ Len(N) = Len(T) /\ Len(E) = Len(K)
  BY <1>2, <1>3 DEF IInv, Sound, Trie, Typed
<1>5. PICK M \in Nat, L \in Nat : M = Len(T) /\ L = Len(K) /\ L = Len(E)
  BY <1>4, LenProperties
<1>6. PICK i \in 1 .. L : i = Find(k)
  <2>1. Find(k) \in 0 .. Len(keys) /\ Find(k) # 0
    BY <1>1, FindIs DEF Erase
  <2>2. QED
    BY <1>2, <1>5, <2>1
<1>7. Linked(T, N, E, M, L)
  BY <1>3, <1>5 DEF Trie
<1>8. PICK hn \in 1 .. M, hs \in Slots : E[i] = <<hn, hs>> /\ T[hn][hs] = i
  BY <1>7 DEF Linked
<1>9. PICK bn \in 1 .. M, bs \in Slots : E[L] = <<bn, bs>> /\ T[bn][bs] = L
  BY <1>7 DEF Linked
<1>10. Last(E) = <<bn, bs>>
  BY <1>5, <1>9 DEF Last
<1>11. PICK V, A, F, d :
         /\ V = IF E[i] = Last(E) THEN T ELSE [T EXCEPT ![Last(E)[1]][Last(E)[2]] = i]
         /\ A = [V EXCEPT ![E[i][1]][E[i][2]] = 0]
         /\ F = Filled(E, i)
         /\ d = PrunedAll([tree |-> A, nodeSlot |-> N, entrySlot |-> F, at |-> E[i][1]])
  OBVIOUS
<1>12. /\ d.at \in DOMAIN d.tree
       /\ tree' = d.tree /\ nodeSlot' = d.nodeSlot /\ entrySlot' = d.entrySlot
       /\ keys' = Filled(keys, i) /\ values' = Filled(values, i) /\ cached' = Filled(cached, i)
  BY <1>2, <1>6, <1>11 DEF Erase
<1>13. Holed(T, A, M, hn, hs, bn, bs, i)
  <2>1. IF hn = bn /\ hs = bs THEN V = T ELSE Written(T, V, bn, bs, i)
    <3>1. E[i] = Last(E) <=> hn = bn /\ hs = bs
      BY <1>8, <1>10
    <3>2. CASE hn = bn /\ hs = bs
      BY <1>11, <3>1, <3>2
    <3>3. CASE ~ (hn = bn /\ hs = bs)
      <4>1. V = [T EXCEPT ![Last(E)[1]][Last(E)[2]] = i]
        BY <1>11, <3>1, <3>3
      <4>2. V = [T EXCEPT ![bn][bs] = i]
        BY <1>10, <4>1
      <4>3. QED
        BY <3>3, <4>2 DEF Written
    <3>4. QED
      BY <3>2, <3>3
  <2>2. Written(V, A, hn, hs, 0)
    BY <1>8, <1>11 DEF Written
  <2>3. i \in Nat
    OBVIOUS
  <2>4. QED
    BY <1>4, <1>5, <1>8, <2>1, <2>2, <2>3, HoledIs
<1>14. PICK Q : Q = Filled(K, i)
  OBVIOUS
<1>15. FilledBy(Places, E, F, L, i) /\ FilledBy(Keys, K, Q, L, i)
  BY <1>4, <1>5, <1>11, <1>14, FilledIs
<1>16. Trie(A, N, F, Q, lev, w) /\ Full(A, M, hn)
  <2>1. Full(T, M, Root)
    BY <1>4, <1>5
  <2>2. QED
    BY <1>3, <1>5, <1>8, <1>9, <1>13, <1>15, <2>1, ErasedEntry
<1>17. Good(State(A, N, F, hn), Q, M)
  BY <1>13, <1>16 DEF Good, Holed
<1>18. d = PrunedAll(State(A, N, F, hn))
  BY <1>8, <1>11 DEF State
<1>19. ~ Strayed(d)
  BY <1>12 DEF Strayed
<1>20. PICK m \in 1 .. M : Good(d, Q, m) /\ Over(d)
  BY <1>17, <1>18, <1>19, PrunedAllIs
<1>21. Distinct(Q, Len(Q)) /\ Columns(Q, Filled(values, i), Filled(cached, i))
  BY <1>4, <1>5, <1>14, ErasedKey
<1>22. Sound(d.tree, d.nodeSlot, d.entrySlot, Q, Root)
  <2>1. m \in Nat
    OBVIOUS
  <2>2. QED
    BY <1>20, <1>21, <2>1, OverIsSound
<1>23. Q = Filled(keys, i)
  BY <1>2, <1>14
<1>24. QED
  BY <1>12, <1>21, <1>22, <1>23 DEF IInv
-----------------------------------------------------------------------------
(* The invariant                                                             *)

\* An empty tree is sound: the root is on level 0, whatever its word.
LEMMA EmptyIsSound ==
    ASSUME NEW T, NEW N, NEW E, NEW K,
           T = <<Blank>>, N = <<<<1, 0>>>>, E = <<>>, K = <<>>
    PROVE  Sound(T, N, E, K, Root)
<1>1. PICK W \in Nat : W = Word /\ W > 0
  BY UnorderedVectorAssumption
<1>2. 0 \in Slots /\ Slots \subseteq Nat
  BY UnorderedVectorAssumption
<1>4. /\ T = <<Blank>> /\ N = <<<<1, 0>>>> /\ E = <<>> /\ K = <<>>
  OBVIOUS
<1>5. Blank \in Rows
  BY DEF Blank, Rows
<1>6. <<1, 0>> \in Places
  BY <1>2 DEF Places
<1>7. /\ T \in Seq(Rows) /\ Len(T) = 1 /\ T[1] = Blank /\ N \in Seq(Places) /\ Len(N) = 1
      /\ E \in Seq(Places) /\ Len(E) = 0 /\ K \in Seq(Keys) /\ Len(K) = 0
  BY <1>4, <1>5, <1>6, EmptySeq
<1>8. \A s \in Slots : T[1][s] = 0
  BY <1>7 DEF Blank
<1>9. PICK lev : lev = [m \in 1 .. 1 |-> 0]
  OBVIOUS
<1>10. PICK w : w = [m \in 1 .. 1 |-> [i \in 1 .. Word |-> 0]]
  OBVIOUS
<1>11. \A m \in 1 .. 1 : m = 1
  OBVIOUS
<1>12. Typed(T, N, E, K)
  BY <1>7 DEF Typed
<1>13. Linked(T, N, E, 1, 0)
  BY <1>8, <1>11 DEF Linked
<1>14. Leveled(1, lev, w)
  <2>1. 0 \in 0 .. Word - 1
    BY <1>1
  <2>2. [i \in 1 .. Word |-> 0] \in Words
    BY <1>2 DEF Words
  <2>3. lev \in [1 .. 1 -> 0 .. Word - 1] /\ lev[1] = 0
    BY <1>9, <2>1
  <2>4. w \in [1 .. 1 -> Words]
    BY <1>10, <2>2
  <2>5. QED
    BY <2>3, <2>4 DEF Leveled
<1>15. Sorted(T, K, 1, 0, lev, w)
  <2>1. ASSUME NEW p \in 1 .. 1, NEW m \in 1 .. 1, NEW s \in Slots, T[p][s] = -m
        PROVE  FALSE
    BY <1>8, <1>11, <2>1
  <2>2. 1 .. 0 = {}
    OBVIOUS
  <2>3. QED
    BY <2>1, <2>2 DEF Sorted
<1>16. Trie(T, N, E, K, lev, w)
  BY <1>7, <1>12, <1>13, <1>14, <1>15 DEF Trie
<1>17. Distinct(K, Len(K))
  BY <1>7 DEF Distinct
<1>18. Full(T, Len(T), Root)
  BY <1>7 DEF Full
<1>19. QED
  BY <1>16, <1>17, <1>18, SoundBy

\* An empty vector satisfies it.
LEMMA InitIsSound ==
    ASSUME Init
    PROVE  IInv
<1>1. PICK T, N, E, K : T = tree /\ N = nodeSlot /\ E = entrySlot /\ K = keys
  OBVIOUS
<1>2. /\ T = <<Blank>> /\ N = <<<<1, 0>>>> /\ E = <<>> /\ K = <<>> /\ values = <<>>
      /\ cached = <<>>
  BY <1>1 DEF Init, Root
<1>3. Sound(T, N, E, K, Root)
  BY <1>2, EmptyIsSound
<1>4. Columns(K, values, cached)
  <2>1. values \in Seq(Values) /\ Len(values) = 0 /\ cached \in Seq(Words) /\ Len(cached) = 0
    BY <1>2, EmptySeq
  <2>2. Len(K) = 0
    BY <1>2, EmptySeq
  <2>3. QED
    BY <2>1, <2>2 DEF Columns
<1>5. QED
  BY <1>1, <1>3, <1>4 DEF IInv

\* Every step keeps it.
LEMMA StepKeepsInv ==
    ASSUME ~ EmptiesBelowLast, HashesDiffer, IInv, [Next]_vars
    PROVE  IInv'
<1>1. CASE UNCHANGED vars
  BY <1>1 DEF vars, IInv
<1>2. ASSUME NEW k \in Keys, Erase(k)
      PROVE  IInv'
  BY <1>2, EraseKeepsInv
<1>3. ASSUME NEW k \in Keys, NEW v \in Values, Insert(k, v)
      PROVE  IInv'
  <2>1. CASE InsertPresent(k)
    BY <2>1 DEF InsertPresent, vars, IInv
  <2>2. CASE InsertAtSlot(k, v)
    BY <2>2, SlotKeepsInv
  <2>3. CASE InsertBySplit(k, v)
    BY <2>3, SplitKeepsInv
  <2>4. QED
    BY <1>3, <2>1, <2>2, <2>3 DEF Insert
<1>4. QED
  BY <1>1, <1>2, <1>3 DEF Next

\* After any calls of insert and erase the links of the tree are right, and find
\* returns the place of a key that is there and 0 for one that is not
\* (unordered_vector.hpp:80 place_find).
THEOREM KeysAreFound ==
    ASSUME ~ EmptiesBelowLast, HashesDiffer
    PROVE  Spec => []FindsEntries
<1>1. Init => IInv
  BY InitIsSound
<1>2. IInv /\ [Next]_vars => IInv'
  BY StepKeepsInv
<1>3. IInv => FindsEntries
  BY InvFinds
<1>4. QED
  BY <1>1, <1>2, <1>3, PTL DEF Spec
-----------------------------------------------------------------------------
(* The dense map                                                             *)

Pairs(K, V) == [i \in DOMAIN K |-> <<K[i], V[i]>>]

\* The entries are a sequence of pairs.
LEMMA PairsAre ==
    ASSUME NEW K \in Seq(Keys), NEW V \in Seq(Values), NEW L \in Nat, L = Len(K), L = Len(V)
    PROVE  /\ Pairs(K, V) \in Seq(Keys \X Values) /\ Len(Pairs(K, V)) = L
           /\ DOMAIN Pairs(K, V) = 1 .. L
           /\ \A f \in 1 .. L : Pairs(K, V)[f] = <<K[f], V[f]>>
<1>1. DOMAIN K = 1 .. L
  BY LenProperties
<1>2. PICK P : P = [i \in 1 .. L |-> <<K[i], V[i]>>]
  OBVIOUS
<1>3. Pairs(K, V) = P
  BY <1>1, <1>2 DEF Pairs
<1>4. \A f \in 1 .. L : K[f] \in Keys /\ V[f] \in Values
  BY ElementOfSeq
<1>5. P \in [1 .. L -> Keys \X Values]
  BY <1>2, <1>4
<1>6. P \in Seq(Keys \X Values) /\ Len(P) = L /\ DOMAIN P = 1 .. L
  BY <1>5
<1>7. QED
  BY <1>2, <1>3, <1>6

\* A pair is added where a key and a value are.
LEMMA AddedPair ==
    ASSUME NEW K \in Seq(Keys), NEW V \in Seq(Values), Len(V) = Len(K),
           NEW k \in Keys, NEW v \in Values
    PROVE  Pairs(Append(K, k), Append(V, v)) = Append(Pairs(K, V), <<k, v>>)
<1>1. PICK L \in Nat : L = Len(K) /\ L = Len(V)
  BY LenProperties
<1>2. PICK Q, W : Q = Append(K, k) /\ W = Append(V, v)
  OBVIOUS
<1>3. /\ Q \in Seq(Keys) /\ Len(Q) = L + 1 /\ Q[L + 1] = k /\ \A f \in 1 .. L : Q[f] = K[f]
      /\ W \in Seq(Values) /\ Len(W) = L + 1 /\ W[L + 1] = v /\ \A f \in 1 .. L : W[f] = V[f]
  BY <1>1, <1>2, AppendedAt
<1>4. PICK P, R, x : P = Pairs(K, V) /\ R = Pairs(Q, W) /\ x = <<k, v>>
  OBVIOUS
<1>5. P \in Seq(Keys \X Values) /\ Len(P) = L /\ \A f \in 1 .. L : P[f] = <<K[f], V[f]>>
  BY <1>1, <1>4, PairsAre
<1>6. /\ R \in Seq(Keys \X Values) /\ Len(R) = L + 1
      /\ \A f \in 1 .. L + 1 : R[f] = <<Q[f], W[f]>>
  BY <1>3, <1>4, PairsAre
<1>7. PICK A : A = Append(P, x)
  OBVIOUS
<1>8. x \in Keys \X Values
  BY <1>4
<1>9. /\ A \in Seq(Keys \X Values) /\ Len(A) = L + 1 /\ A[L + 1] = x
      /\ \A f \in 1 .. L : A[f] = P[f]
  BY <1>5, <1>7, <1>8, AppendedAt
<1>10. \A f \in 1 .. L + 1 : R[f] = A[f]
  <2>1. \A f \in 1 .. L + 1 : f \in 1 .. L \/ f = L + 1
    OBVIOUS
  <2>2. \A f \in 1 .. L : R[f] = A[f]
    <3>1. \A f \in 1 .. L : f \in 1 .. L + 1
      OBVIOUS
    <3>2. QED
      <4>1. ASSUME NEW f \in 1 .. L
            PROVE  R[f] = A[f]
        <5>1. Q[f] = K[f] /\ W[f] = V[f]
          BY <1>3
        <5>2. R[f] = <<Q[f], W[f]>>
          BY <1>6, <3>1
        <5>3. A[f] = <<K[f], V[f]>>
          BY <1>5, <1>9
        <5>4. QED
          BY <5>1, <5>2, <5>3
      <4>2. QED
        BY <4>1
  <2>3. R[L + 1] = A[L + 1]
    <3>1. L + 1 \in 1 .. L + 1
      OBVIOUS
    <3>2. QED
      BY <1>3, <1>4, <1>6, <1>9, <3>1
  <2>4. QED
    BY <2>1, <2>2, <2>3
<1>11. R = A
  BY <1>6, <1>9, <1>10, SeqEqual
<1>12. QED
  BY <1>2, <1>4, <1>7, <1>11

\* Pairs move where keys and values move.
LEMMA FilledPairs ==
    ASSUME NEW K \in Seq(Keys), NEW V \in Seq(Values), NEW L \in Nat, L = Len(K), L = Len(V),
           NEW i \in 1 .. L
    PROVE  Pairs(Filled(K, i), Filled(V, i)) = Filled(Pairs(K, V), i)
<1>1. PICK X : X = Keys \X Values
  OBVIOUS
<1>2. PICK P, Q, W : P = Pairs(K, V) /\ Q = Filled(K, i) /\ W = Filled(V, i)
  OBVIOUS
<1>3. P \in Seq(X) /\ Len(P) = L /\ \A f \in 1 .. L : P[f] = <<K[f], V[f]>>
  BY <1>1, <1>2, PairsAre
<1>4. PICK F, R : F = Filled(P, i) /\ R = Pairs(Q, W)
  OBVIOUS
<1>5. FilledBy(Keys, K, Q, L, i) /\ FilledBy(Values, V, W, L, i)
  BY <1>2, FilledIs
<1>6. FilledBy(X, P, F, L, i)
  BY <1>3, <1>4, FilledIs
<1>7. PICK l \in Nat : l = L - 1 /\ i \in 1 .. L /\ L = l + 1
  OBVIOUS
<1>8. /\ Q \in Seq(Keys) /\ Len(Q) = l /\ \A f \in 1 .. l : Q[f] = IF f = i THEN K[L] ELSE K[f]
      /\ W \in Seq(Values) /\ Len(W) = l
      /\ \A f \in 1 .. l : W[f] = IF f = i THEN V[L] ELSE V[f]
      /\ F \in Seq(X) /\ Len(F) = l /\ \A f \in 1 .. l : F[f] = IF f = i THEN P[L] ELSE P[f]
  BY <1>5, <1>6, <1>7 DEF FilledBy
<1>9. R \in Seq(X) /\ Len(R) = l /\ \A f \in 1 .. l : R[f] = <<Q[f], W[f]>>
  BY <1>1, <1>4, <1>8, PairsAre
<1>10. \A f \in 1 .. l : f \in 1 .. L /\ L \in 1 .. L
  BY <1>7
<1>11. ASSUME NEW f \in 1 .. l
       PROVE  R[f] = F[f]
  <2>1. CASE f = i
    <3>1. Q[f] = K[L] /\ W[f] = V[L] /\ F[f] = P[L]
      BY <1>8, <2>1
    <3>2. P[L] = <<K[L], V[L]>> /\ R[f] = <<Q[f], W[f]>>
      BY <1>3, <1>9, <1>10
    <3>3. QED
      BY <3>1, <3>2
  <2>2. CASE f # i
    <3>1. Q[f] = K[f] /\ W[f] = V[f] /\ F[f] = P[f]
      BY <1>8, <2>2
    <3>2. P[f] = <<K[f], V[f]>> /\ R[f] = <<Q[f], W[f]>>
      BY <1>3, <1>9, <1>10
    <3>3. QED
      BY <3>1, <3>2
  <2>3. QED
    BY <2>1, <2>2
<1>12. R = F
  BY <1>8, <1>9, <1>11, SeqEqual
<1>13. QED
  BY <1>2, <1>4, <1>12

\* The keys and the values, and what find says of them.
LEMMA KeysAndValues ==
    ASSUME IInv, NEW k \in Keys
    PROVE  /\ keys \in Seq(Keys) /\ values \in Seq(Values) /\ Len(values) = Len(keys)
           /\ Find(k) \in 0 .. Len(keys) /\ (Find(k) # 0 => keys[Find(k)] = k)
           /\ PlaceFind(k).entry = 0 \/ keys[PlaceFind(k).entry] # k
                => \A e \in 1 .. Len(keys) : keys[e] # k
<1>1. PICK lw : Trie(tree, nodeSlot, entrySlot, keys, lw[1], lw[2])
  BY DEF IInv, Sound
<1>2. keys \in Seq(Keys) /\ values \in Seq(Values) /\ Len(values) = Len(keys) /\ Len(keys) \in Nat
  BY <1>1, LenProperties DEF IInv, Trie, Typed, Columns
<1>3. Find(k) \in 0 .. Len(keys) /\ (Find(k) # 0 => keys[Find(k)] = k)
  BY <1>1, FindIs
<1>4. PICK at : at = PlaceFind(k)
  OBVIOUS
<1>5. ASSUME at.entry = 0 \/ keys[at.entry] # k, NEW e \in 1 .. Len(keys), keys[e] = k
      PROVE  FALSE
  <2>1. at.entry = e
    BY <1>1, <1>4, <1>5, EntryIsFound
  <2>2. e # 0
    BY <1>2
  <2>3. QED
    BY <1>5, <2>1, <2>2
<1>6. QED
  BY <1>2, <1>3, <1>4, <1>5

\* insert of a new key puts a pair at the end.
LEMMA InsertIsDense ==
    ASSUME IInv, NEW k \in Keys, NEW v \in Values, InsertAtSlot(k, v) \/ InsertBySplit(k, v)
    PROVE  Dense!Insert(k, v)
<1>1. /\ keys \in Seq(Keys) /\ values \in Seq(Values) /\ Len(values) = Len(keys)
      /\ PlaceFind(k).entry = 0 \/ keys[PlaceFind(k).entry] # k
           => \A e \in 1 .. Len(keys) : keys[e] # k
  BY KeysAndValues
<1>2. PlaceFind(k).entry = 0 \/ keys[PlaceFind(k).entry] # k
  BY DEF InsertAtSlot, InsertBySplit
<1>3. keys' = Append(keys, k) /\ values' = Append(values, v)
  BY DEF InsertAtSlot, InsertBySplit, PushedEntry
<1>4. PICK L \in Nat : L = Len(keys) /\ L = Len(values)
  BY <1>1, LenProperties
<1>5. DOMAIN Pairs(keys, values) = 1 .. L
      /\ \A f \in 1 .. L : Pairs(keys, values)[f] = <<keys[f], values[f]>>
  BY <1>1, <1>4, PairsAre
<1>6. ~ \E i \in DOMAIN Pairs(keys, values) : Pairs(keys, values)[i][1] = k
  BY <1>1, <1>2, <1>4, <1>5
<1>7. Pairs(keys', values') = Append(Pairs(keys, values), <<k, v>>)
  BY <1>1, <1>3, AddedPair
<1>8. QED
  BY <1>6, <1>7 DEF Pairs, Dense!Insert, Dense!Holds

\* erase moves the last pair into the hole.
LEMMA EraseIsDense ==
    ASSUME IInv, NEW k \in Keys, Erase(k)
    PROVE  Dense!Erase(k)
<1>1. /\ keys \in Seq(Keys) /\ values \in Seq(Values) /\ Len(values) = Len(keys)
      /\ Find(k) \in 0 .. Len(keys) /\ (Find(k) # 0 => keys[Find(k)] = k)
  BY KeysAndValues
<1>2. PICK L \in Nat : L = Len(keys) /\ L = Len(values)
  BY <1>1, LenProperties
<1>3. PICK i \in 1 .. L : i = Find(k) /\ keys[i] = k
  <2>1. Find(k) # 0
    BY DEF Erase
  <2>2. PICK j \in 0 .. L : j = Find(k)
    BY <1>1, <1>2
  <2>3. j \in 1 .. L
    BY <2>1, <2>2
  <2>4. QED
    BY <1>1, <2>1, <2>2, <2>3
<1>4. keys' = Filled(keys, i) /\ values' = Filled(values, i)
  BY <1>3 DEF Erase
<1>5. DOMAIN Pairs(keys, values) = 1 .. L /\ Pairs(keys, values)[i] = <<keys[i], values[i]>>
  BY <1>1, <1>2, PairsAre
<1>6. Pairs(keys', values') = Filled(Pairs(keys, values), i)
  BY <1>1, <1>2, <1>4, FilledPairs
<1>7. i \in DOMAIN Pairs(keys, values) /\ Pairs(keys, values)[i][1] = k
  BY <1>3, <1>5
<1>8. QED
  BY <1>6, <1>7 DEF Pairs, Filled, Front, Last, Dense!Erase, Dense!Front, Dense!Last

\* After any calls of insert and erase the arrays hold each key once with the
\* value of its first insert, in the order a dense map would have them
\* (unordered_vector.hpp:221 erase).
THEOREM VectorImplementsDenseMap ==
    ASSUME ~ EmptiesBelowLast, HashesDiffer
    PROVE  Spec => ImplementsDenseMap
<1>1. Init => IInv
  BY InitIsSound
<1>2. IInv /\ [Next]_vars => IInv'
  BY StepKeepsInv
<1>3. Init => Dense!Init
  BY DEF Init, Dense!Init
<1>4. ASSUME IInv, [Next]_vars
      PROVE  Dense!Next \/ UNCHANGED Pairs(keys, values)
  <2>1. CASE UNCHANGED vars
    BY <2>1 DEF vars, Pairs
  <2>2. ASSUME NEW k \in Keys, Erase(k)
        PROVE  Dense!Next
    BY <1>4, <2>2, EraseIsDense DEF Dense!Next
  <2>3. ASSUME NEW k \in Keys, NEW v \in Values, Insert(k, v)
        PROVE  Dense!Next \/ UNCHANGED Pairs(keys, values)
    <3>1. CASE InsertPresent(k)
      BY <3>1 DEF InsertPresent, vars, Pairs
    <3>2. CASE InsertAtSlot(k, v) \/ InsertBySplit(k, v)
      BY <1>4, <3>2, InsertIsDense DEF Dense!Next
    <3>3. QED
      BY <2>3, <3>1, <3>2 DEF Insert
  <2>4. QED
    BY <1>4, <2>1, <2>2, <2>3 DEF Next
<1>5. IInv /\ [Next]_vars => [Dense!Next]_(Pairs(keys, values))
  BY <1>4
<1>6. IInv /\ [Next]_vars => [Dense!Next]_([i \in DOMAIN keys |-> <<keys[i], values[i]>>])
  BY <1>5 DEF Pairs
<1>7. QED
  BY <1>1, <1>2, <1>3, <1>6, PTL DEF Spec, ImplementsDenseMap, Dense!Spec

-----------------------------------------------------------------------------
(***************************************************************************)
(* interning_vector_t                                                      *)
(*                                                                         *)
(* Its trie is the tree of unordered_vector_t without the indexes back, and *)
(* a hash is its own word.  What is proved above of a tree with indexes     *)
(* holds of it for the indexes it would have.                              *)
(***************************************************************************)

\* Hashes of Word digits, each of LevelBits bits.
InternHashes ==
  /\ LevelBits \in Nat \ {0} /\ Slots = Interner!Digits
  /\ \A k \in Keys : FirstWord(k) = k

\* The inductive invariant: a trie that indexes would make sound.
InternSound(t) ==
  /\ t = [nodes |-> t.nodes, hashes |-> t.hashes]
  /\ \E N, E : Sound(t.nodes, N, E, t.hashes, Root)

\* The number NumbersHashes gives a hash: its place among those inserted.
NumberOf(hashes, k) == Max({0} \cup {i \in DOMAIN hashes : hashes[i] = k})

\* The digits of a hash.
LEMMA HashDigit ==
    ASSUME InternHashes, NEW k \in Keys
    PROVE  /\ k \in Seq(Slots) /\ Len(k) = Word /\ Word \in Nat \ {0} /\ k = FirstWord(k)
           /\ \A l \in Nat : l < Word => Interner!Digit(k, l) = DigitAt(k, l) /\ DigitAt(k, l) \in Slots
<1>1. k = FirstWord(k) /\ Word \in Nat \ {0}
  BY UnorderedVectorAssumption DEF InternHashes
<1>2. k \in [1 .. Word -> Slots]
  BY <1>1, UnorderedVectorAssumption DEF FirstWord
<1>3. k \in Seq(Slots) /\ Len(k) = Word
  BY <1>1, <1>2
<1>4. ASSUME NEW l \in Nat, l < Word
      PROVE  Interner!Digit(k, l) = DigitAt(k, l) /\ DigitAt(k, l) \in Slots
  <2>1. Interner!Digit(k, l) = k[l + 1]
    BY <1>3, <1>4 DEF Interner!Digit
  <2>2. DigitAt(k, l) = k[l + 1]
    BY <1>1 DEF DigitAt
  <2>3. QED
    BY <1>4, <2>1, <2>2, DigitType
<1>5. QED
  BY <1>1, <1>3, <1>4

-----------------------------------------------------------------------------
(* The walk of place_find, a fold over the numbers of the nodes.             *)

Entered(T, k, p, depth) == [entry |-> T[p][Interner!Digit(k, depth)], node |-> p, depth |-> depth]
Deeper(T, k, at) == IF at.entry >= 0 THEN at ELSE Entered(T, k, -at.entry, at.depth + 1)
Turns(T, k, g, s) == IF s = {} THEN Entered(T, k, 1, 0) ELSE Deeper(T, k, g[s \ {Max(s)}])
TurnsOf(T, k, n, g) == g = [s \in SUBSET (1 .. n) |-> Turns(T, k, g, s)]

\* Without its largest number, a set of the numbers up to n + 1 is one of the
\* numbers up to n.
LEMMA WithoutTop ==
    ASSUME NEW n \in Nat, NEW s \in SUBSET (1 .. n + 1)
    PROVE  s \ {Max(s)} \in SUBSET (1 .. n)
<1>1. CASE n + 1 \in s
  <2>1. PICK top \in Nat : top = n + 1
    OBVIOUS
  <2>2. top \in s /\ \A y \in s : top >= y /\ y \in Nat
    BY <2>1, <1>1
  <2>3. PICK x : x = Max(s)
    OBVIOUS
  <2>4. \E z \in s : \A y \in s : z >= y
    BY <2>2
  <2>5. x \in s /\ \A y \in s : x >= y
    BY <2>3, <2>4, Zenon DEF Max
  <2>6. x = top
    BY <2>2, <2>5
  <2>7. s \ {top} \in SUBSET (1 .. n)
    BY <2>1
  <2>8. QED
    BY <2>3, <2>6, <2>7
<1>2. CASE n + 1 \notin s
  <2>1. ASSUME NEW x \in s
        PROVE  x \in 1 .. n
    <3>1. x \in 1 .. n + 1 /\ x # n + 1
      BY <1>2
    <3>2. QED
      BY <3>1
  <2>2. QED
    BY <2>1
<1>3. QED
  BY <1>1, <1>2

\* The fold is defined.
LEMMA TurnsExist ==
    ASSUME NEW T, NEW k, NEW n \in Nat
    PROVE  \E g : TurnsOf(T, k, n, g)
<1> DEFINE Settled == {m \in Nat : \E g : g = [s \in SUBSET (1 .. m) |-> Turns(T, k, g, s)]}
<1>1. 0 \in Settled
  <2>1. PICK g : g = [s \in SUBSET (1 .. 0) |-> Entered(T, k, 1, 0)]
    OBVIOUS
  <2>2. ASSUME NEW s \in SUBSET (1 .. 0)
        PROVE  Turns(T, k, g, s) = Entered(T, k, 1, 0)
    <3>1. s = {}
      OBVIOUS
    <3>2. QED
      BY <3>1 DEF Turns
  <2>3. g = [s \in SUBSET (1 .. 0) |-> Turns(T, k, g, s)]
    BY <2>1, <2>2
  <2>4. QED
    BY <2>3
<1>2. ASSUME NEW m \in Nat, m \in Settled
      PROVE  m + 1 \in Settled
  <2>1. PICK g : g = [s \in SUBSET (1 .. m) |-> Turns(T, k, g, s)]
    BY <1>2
  <2>2. PICK h : h = [s \in SUBSET (1 .. m + 1) |-> Turns(T, k, g, s)]
    OBVIOUS
  <2>3. ASSUME NEW s \in SUBSET (1 .. m + 1)
        PROVE  Turns(T, k, g, s) = Turns(T, k, h, s)
    <3>1. PICK u : u = s \ {Max(s)}
      OBVIOUS
    <3>2. u \in SUBSET (1 .. m)
      BY <3>1, WithoutTop
    <3>3. u \in SUBSET (1 .. m + 1)
      BY <3>2
    <3>4. g[u] = Turns(T, k, g, u)
      BY <3>2, <2>1
    <3>5. h[u] = Turns(T, k, g, u)
      BY <3>3, <2>2
    <3>6. g[s \ {Max(s)}] = h[s \ {Max(s)}]
      BY <3>1, <3>4, <3>5
    <3>7. QED
      BY <3>6 DEF Turns
  <2>4. h = [s \in SUBSET (1 .. m + 1) |-> Turns(T, k, h, s)]
    BY <2>2, <2>3
  <2>5. QED
    BY <2>4
<1> HIDE DEF Settled
<1>3. Nat \subseteq Settled
  BY <1>1, <1>2, Induction
<1>4. PICK g : g = [s \in SUBSET (1 .. n) |-> Turns(T, k, g, s)]
  BY <1>3 DEF Settled
<1>5. QED
  BY <1>4 DEF TurnsOf

\* It starts at the root and takes one turn after the other.
LEMMA TurnsInOrder ==
    ASSUME NEW T, NEW k, NEW n \in Nat, NEW g, TurnsOf(T, k, n, g)
    PROVE  \E tr : /\ tr[0] = Entered(T, k, 1, 0)
                   /\ \A m \in 1 .. n : tr[m] = Deeper(T, k, tr[m - 1])
                   /\ g[1 .. n] = tr[n]
<1>1. PICK tr : tr = [m \in 0 .. n |-> g[1 .. m]]
  OBVIOUS
<1>2. \A m \in 0 .. n : tr[m] = g[1 .. m] /\ g[1 .. m] = Turns(T, k, g, 1 .. m)
  <2>1. ASSUME NEW m \in 0 .. n
        PROVE  (1 .. m) \in SUBSET (1 .. n)
    OBVIOUS
  <2>2. QED
    BY <2>1, <1>1 DEF TurnsOf
<1>3. tr[0] = Entered(T, k, 1, 0)
  <2>1. 1 .. 0 = {}
    OBVIOUS
  <2>2. 0 \in 0 .. n
    OBVIOUS
  <2>3. QED
    BY <2>1, <2>2, <1>2 DEF Turns
<1>4. ASSUME NEW m \in 1 .. n
      PROVE  tr[m] = Deeper(T, k, tr[m - 1])
  <2>1. PICK j \in Nat : j = m - 1 /\ j + 1 = m /\ j \in 0 .. n
    OBVIOUS
  <2>2. PICK s : s = 1 .. m
    OBVIOUS
  <2>3. m \in s /\ \A y \in s : m >= y
    BY <2>2
  <2>4. Max(s) \in s /\ \A y \in s : Max(s) >= y
    BY <2>3 DEF Max
  <2>5. Max(s) = m
    BY <2>2, <2>3, <2>4
  <2>6. s \ {Max(s)} = 1 .. j /\ s # {}
    <3>1. (1 .. m) \ {m} = 1 .. j
      BY <2>1
    <3>2. s \ {m} = 1 .. j
      BY <3>1, <2>2
    <3>3. QED
      BY <3>2, <2>3, <2>5
  <2>7. Turns(T, k, g, s) = Deeper(T, k, g[1 .. j])
    <3>1. Turns(T, k, g, s) = Deeper(T, k, g[s \ {Max(s)}])
      BY <2>6 DEF Turns
    <3>2. QED
      BY <3>1, <2>6
  <2>8. tr[m] = Turns(T, k, g, s) /\ tr[j] = g[1 .. j]
    BY <2>1, <2>2, <1>2
  <2>9. QED
    BY <2>1, <2>7, <2>8
<1>5. tr[n] = g[1 .. n]
  BY <1>1
<1>6. QED
  BY <1>3, <1>4, <1>5

\* place_find takes a turn for every node.
LEMMA InternWalk ==
    ASSUME NEW t, NEW k, NEW n \in Nat, n = Len(t.nodes)
    PROVE  \E tr : /\ tr[0] = Entered(t.nodes, k, 1, 0)
                   /\ \A m \in 1 .. n : tr[m] = Deeper(t.nodes, k, tr[m - 1])
                   /\ Interner!PlaceFind(t, k) = tr[n]
<1>1. PICK T : T = t.nodes
  OBVIOUS
<1>2. PICK A : A = CHOOSE g : g = [s \in SUBSET (1 .. n) |-> Turns(T, k, g, s)]
  OBVIOUS
<1>3. PICK g : TurnsOf(T, k, n, g)
  BY TurnsExist
<1>4. TurnsOf(T, k, n, A)
  BY <1>2, <1>3 DEF TurnsOf
<1>5. Interner!PlaceFind(t, k) = A[1 .. n]
  <2>1. DOMAIN [m \in 1 .. Len(t.nodes) |-> m] = 1 .. n
    OBVIOUS
  <2>2. QED
    <3>1. Interner!PlaceFind(t, k) =
            (CHOOSE h : h = [s \in SUBSET (DOMAIN [m \in 1 .. Len(t.nodes) |-> m]) |->
                               Turns(t.nodes, k, h, s)])
            [DOMAIN [m \in 1 .. Len(t.nodes) |-> m]]
      BY SMTT(30) DEF Interner!PlaceFind, Interner!FoldLeft, Interner!MapThenFoldSet,
                      Interner!Max, Max, Turns, Deeper, Entered
    <3>2. QED
      BY <1>1, <1>2, <2>1, <3>1
<1>6. QED
  BY <1>1, <1>4, <1>5, TurnsInOrder

\* Where the walk of a hash ends: a node on its way, in a slot that names no
\* other node.  There are fewer levels than nodes, so that the turns suffice.
LEMMA InternWalkEnds ==
    ASSUME InternHashes, NEW t, NEW N, NEW E, NEW lev, NEW w,
           Trie(t.nodes, N, E, t.hashes, lev, w), NEW k \in Keys
    PROVE  \E n \in 1 .. Len(t.nodes), s \in Slots :
             /\ Interner!PlaceFind(t, k) = [entry |-> t.nodes[n][s], node |-> n, depth |-> lev[n]]
             /\ lev[n] \in Nat /\ lev[n] < Word /\ s = DigitAt(k, lev[n])
             /\ t.nodes[n][s] \in Int /\ t.nodes[n][s] >= 0
             /\ Agree(FirstWord(k), w[n], lev[n])
<1>1. PICK T, K : T = t.nodes /\ K = t.hashes
  OBVIOUS
<1>2. Trie(T, N, E, K, lev, w)
  BY <1>1
<1>3. PICK M \in Nat : M = Len(T) /\ 1 \in 1 .. M
  <2>1. 1 \in 1 .. Len(T) /\ Len(T) \in Nat
    BY <1>2, LenProperties DEF Trie, Typed
  <2>2. QED
    BY <2>1
<1>4. PICK tr : /\ tr[0] = Entered(T, k, 1, 0)
                /\ \A m \in 1 .. M : tr[m] = Deeper(T, k, tr[m - 1])
                /\ Interner!PlaceFind(t, k) = tr[M]
  <2>1. M = Len(t.nodes)
    BY <1>1, <1>3
  <2>2. \E tr : /\ tr[0] = Entered(t.nodes, k, 1, 0)
                /\ \A m \in 1 .. M : tr[m] = Deeper(t.nodes, k, tr[m - 1])
                /\ Interner!PlaceFind(t, k) = tr[M]
    BY <2>1, InternWalk, SMTT(30)
  <2>3. QED
    BY <1>1, <2>2
<1> DEFINE W == {n \in 1 .. M : Agree(FirstWord(k), w[n], lev[n])}
           at(n) == Entered(T, k, n, lev[n])
<1>5. ASSUME NEW n \in W
      PROVE  \E s \in Slots :
                /\ lev[n] \in Nat /\ lev[n] < Word /\ lev[n] < M
                /\ s = DigitAt(k, lev[n]) /\ T[n][s] \in Int
                /\ at(n) = [entry |-> T[n][s], node |-> n, depth |-> lev[n]]
  <2>1. n \in 1 .. Len(T)
    BY <1>3
  <2>2. PICK l \in Nat : l = lev[n] /\ l < Word /\ l < M
    BY <2>1, <1>2, <1>3, LevelTypes, LevelsAreFew
  <2>3. PICK s \in Slots : s = DigitAt(k, l) /\ s = Interner!Digit(k, l)
    BY <2>2, HashDigit
  <2>4. T[n] \in Rows
    BY <2>1, <1>2, LevelTypes
  <2>5. T[n][s] \in Int
    BY <2>3, <2>4 DEF Rows
  <2>6. at(n) = [entry |-> T[n][s], node |-> n, depth |-> l]
    BY <2>2, <2>3 DEF Entered
  <2>7. QED
    BY <2>2, <2>3, <2>5, <2>6
<1>6. ASSUME NEW n \in W
      PROVE  \E m \in W : /\ Deeper(T, k, at(n)) = at(m)
                          /\ IF T[n][DigitAt(k, lev[n])] >= 0 THEN m = n
                             ELSE lev[m] = lev[n] + 1
  <2>1. PICK s \in Slots : /\ s = DigitAt(k, lev[n]) /\ T[n][s] \in Int
                           /\ at(n) = [entry |-> T[n][s], node |-> n, depth |-> lev[n]]
    BY <1>5
  <2>2. PICK c \in Int : c = T[n][s]
    BY <2>1
  <2>3. at(n).entry = c /\ at(n).depth = lev[n]
    BY <2>1, <2>2
  <2>4. CASE c >= 0
    <3>1. Deeper(T, k, at(n)) = at(n)
      BY <2>3, <2>4 DEF Deeper
    <3>2. QED
      BY <3>1, <2>1, <2>2, <2>4
  <2>5. CASE c < 0
    <3>1. n \in 1 .. Len(T) /\ Agree(FirstWord(k), w[n], lev[n]) /\ c = T[n][DigitAt(k, lev[n])]
      BY <1>3, <2>1, <2>2
    <3>2. -c \in 1 .. Len(T) /\ Agree(FirstWord(k), w[-c], lev[-c]) /\ lev[-c] = lev[n] + 1
      BY <1>2, <2>5, <3>1, WayGoesOn
    <3>3. PICK m \in W : m = -c /\ lev[m] = lev[n] + 1
      BY <1>3, <3>2
    <3>4. Deeper(T, k, at(n)) = Entered(T, k, -c, lev[n] + 1)
      BY <2>3, <2>5 DEF Deeper
    <3>5. Deeper(T, k, at(n)) = at(m)
      BY <3>3, <3>4
    <3>6. ~ (T[n][DigitAt(k, lev[n])] >= 0)
      BY <2>5, <3>1
    <3> HIDE DEF at, W
    <3>7. QED
      BY <3>3, <3>5, <3>6
  <2>6. QED
    BY <2>4, <2>5
<1>7. 1 \in W /\ tr[0] = at(1)
  <2>1. lev[1] = 0
    <3>1. 1 \in 1 .. Len(T)
      BY <1>3
    <3>2. QED
      BY <1>2, <3>1, LevelTypes
  <2>2. 1 \in W
    BY <1>3, <2>1 DEF Agree
  <2>3. QED
    BY <1>4, <2>1, <2>2
<1> HIDE DEF at
<1> DEFINE Q(n) == n \in 0 .. M =>
                     \E m \in W : /\ tr[n] = at(m)
                                  /\ T[m][DigitAt(k, lev[m])] >= 0 \/ lev[m] >= n
           S == {n \in Nat : Q(n)}
<1>8. 0 \in S
  <2>1. lev[1] >= 0
    BY <1>5, <1>7
  <2> HIDE DEF W
  <2>2. QED
    BY <1>7, <2>1
<1>9. ASSUME NEW n \in Nat, n \in S
      PROVE  n + 1 \in S
  <2>1. SUFFICES ASSUME n + 1 \in 0 .. M PROVE Q(n + 1)
    OBVIOUS
  <2>2. n \in 0 .. M /\ n + 1 \in 1 .. M /\ (n + 1) - 1 = n
    BY <2>1
  <2> HIDE DEF W
  <2>3. PICK m \in W : tr[n] = at(m) /\ (T[m][DigitAt(k, lev[m])] >= 0 \/ lev[m] >= n)
    BY <1>9, <2>2
  <2>4. tr[n + 1] = Deeper(T, k, at(m))
    BY <1>4, <2>2, <2>3
  <2>5. PICK b \in W : /\ tr[n + 1] = at(b)
                       /\ IF T[m][DigitAt(k, lev[m])] >= 0 THEN b = m ELSE lev[b] = lev[m] + 1
    BY <1>6, <2>4
  <2>6. T[b][DigitAt(k, lev[b])] >= 0 \/ lev[b] >= n + 1
    <3>1. lev[m] \in Nat /\ lev[b] \in Nat
      BY <1>5
    <3>2. QED
      BY <2>3, <2>5, <3>1
  <2>7. QED
    BY <2>5, <2>6
<1>10. M \in S
  <2> HIDE DEF S
  <2>1. Nat \subseteq S
    BY <1>8, <1>9, Induction
  <2>2. QED
    BY <2>1
<1>11. PICK m \in W : tr[M] = at(m) /\ (T[m][DigitAt(k, lev[m])] >= 0 \/ lev[m] >= M)
  <2> HIDE DEF W
  <2>1. QED
    BY <1>10
<1>12. PICK s \in Slots : /\ lev[m] \in Nat /\ lev[m] < Word /\ lev[m] < M
                          /\ s = DigitAt(k, lev[m]) /\ T[m][s] \in Int
                          /\ at(m) = [entry |-> T[m][s], node |-> m, depth |-> lev[m]]
  BY <1>5
<1>13. T[m][s] >= 0
  BY <1>11, <1>12
<1>14. m \in 1 .. Len(T) /\ Agree(FirstWord(k), w[m], lev[m])
  BY <1>3
<1>15. Interner!PlaceFind(t, k) = [entry |-> T[m][s], node |-> m, depth |-> lev[m]]
  BY <1>4, <1>11, <1>12
<1>16. QED
  BY <1>1, <1>12, <1>13, <1>14, <1>15

-----------------------------------------------------------------------------
(* What the trie answers.                                                    *)

\* The number of a hash that stands at e, and of one that stands nowhere.
LEMMA NumberIs ==
    ASSUME NEW K \in Seq(Keys), Distinct(K, Len(K)), NEW k
    PROVE  /\ \A e \in 1 .. Len(K) : K[e] = k => NumberOf(K, k) = e
           /\ (\A e \in 1 .. Len(K) : K[e] # k) => NumberOf(K, k) = 0
<1>1. PICK L \in Nat : L = Len(K) /\ DOMAIN K = 1 .. L
  BY LenProperties
<1>2. PICK B : B = {0} \cup {i \in DOMAIN K : K[i] = k}
  OBVIOUS
<1>3. NumberOf(K, k) = Max(B)
  BY <1>2 DEF NumberOf
<1>4. ASSUME NEW e \in 1 .. L, K[e] = k
      PROVE  Max(B) = e
  <2>1. \A y \in B : y = 0 \/ y = e
    BY <1>1, <1>2, <1>4 DEF Distinct
  <2>2. e \in B /\ \A y \in B : e >= y
    BY <1>1, <1>2, <1>4, <2>1
  <2>3. PICK x : x = Max(B)
    OBVIOUS
  <2>4. x \in B /\ \A y \in B : x >= y
    <3>1. \E z \in B : \A y \in B : z >= y
      BY <2>2
    <3>2. QED
      BY <2>3, <3>1, Zenon DEF Max
  <2>5. x = e
    BY <2>1, <2>2, <2>4
  <2>6. QED
    BY <2>3, <2>5
<1>5. ASSUME \A e \in 1 .. L : K[e] # k
      PROVE  Max(B) = 0
  <2>1. B = {0}
    BY <1>1, <1>2, <1>5
  <2>2. PICK x : x = Max(B)
    OBVIOUS
  <2>3. x \in B
    <3>1. \E z \in B : \A y \in B : z >= y
      BY <2>1
    <3>2. QED
      BY <2>2, <3>1, Zenon DEF Max
  <2>4. QED
    BY <2>1, <2>2, <2>3
<1>6. QED
  BY <1>1, <1>3, <1>4, <1>5

\* find returns the number of a hash: the walk of one that stands at e ends
\* there, and another one's ends elsewhere.
LEMMA InternFinds ==
    ASSUME InternHashes, NEW t, NEW N, NEW E, NEW lev, NEW w,
           Trie(t.nodes, N, E, t.hashes, lev, w), Distinct(t.hashes, Len(t.hashes)),
           NEW k \in Keys
    PROVE  /\ Interner!Find(t, k) = NumberOf(t.hashes, k)
           /\ \A e \in 1 .. Len(t.hashes) : t.hashes[e] = k => Interner!PlaceFind(t, k).entry = e
<1>1. PICK T, K : T = t.nodes /\ K = t.hashes
  OBVIOUS
<1>2. Trie(T, N, E, K, lev, w) /\ Distinct(K, Len(K)) /\ K \in Seq(Keys)
  BY <1>1 DEF Trie, Typed
<1>3. PICK L \in Nat : L = Len(K)
  BY <1>2, LenProperties
<1>4. PICK n \in 1 .. Len(T), s \in Slots :
        /\ Interner!PlaceFind(t, k) = [entry |-> T[n][s], node |-> n, depth |-> lev[n]]
        /\ s = DigitAt(k, lev[n]) /\ T[n][s] \in Int /\ T[n][s] >= 0
        /\ Agree(FirstWord(k), w[n], lev[n])
  BY <1>1, InternWalkEnds
<1>5. PICK c \in Nat : c = T[n][s] /\ c = Interner!PlaceFind(t, k).entry
  BY <1>4
<1>6. Interner!Find(t, k) = IF c > 0 /\ K[c] = k THEN c ELSE 0
  BY <1>1, <1>5 DEF Interner!Find
<1>7. ASSUME NEW e \in 1 .. L, K[e] = k
      PROVE  c = e
  BY <1>2, <1>3, <1>4, <1>5, <1>7, EntryAtEnd
<1>8. c > 0 => c \in 1 .. L
  BY <1>2, <1>3, <1>4, <1>5 DEF Trie, Linked
<1>9. Interner!Find(t, k) = NumberOf(K, k)
  <2>1. CASE \E e \in 1 .. L : K[e] = k
    <3>1. PICK e \in 1 .. L : K[e] = k
      BY <2>1
    <3>2. c = e /\ NumberOf(K, k) = e
      BY <1>2, <1>3, <1>7, <3>1, NumberIs
    <3>3. QED
      BY <1>6, <3>1, <3>2
  <2>2. CASE \A e \in 1 .. L : K[e] # k
    <3>1. NumberOf(K, k) = 0
      BY <1>2, <1>3, <2>2, NumberIs
    <3>2. QED
      BY <1>6, <1>8, <2>2, <3>1
  <2>3. QED
    BY <2>1, <2>2
<1>10. QED
  BY <1>1, <1>3, <1>5, <1>7, <1>9

-----------------------------------------------------------------------------
(* insert of the trie.                                                       *)

\* Two words differ first d digits below l, and the loop over both hashers
\* ends there.
PartsAt(k, q, l, d) ==
  /\ d > 0 /\ Interner!Parting(k, q, l) = l + d /\ l + d < Word
  /\ Agree(FirstWord(k), FirstWord(q), l + d) /\ DigitAt(k, l + d) # DigitAt(q, l + d)

\* The two words differ first where the loop over both hashers ends.
LEMMA PartingIs ==
    ASSUME InternHashes, NEW k \in Keys, NEW q \in Keys, k # q, NEW l \in Nat, l < Word,
           Agree(FirstWord(k), FirstWord(q), l + 1)
    PROVE  \E d \in Nat : PartsAt(k, q, l, d)
<1>1. PICK z \in Nat : z = Word
  BY UnorderedVectorAssumption
<1>2. k \in Seq(Slots) /\ Len(k) = z /\ q \in Seq(Slots) /\ Len(q) = z
      /\ FirstWord(k) = k /\ FirstWord(q) = q
  BY <1>1, HashDigit
<1>3. \A i \in 1 .. l + 1 : k[i] = q[i]
  BY <1>2 DEF Agree
<1> DEFINE D == {j \in 1 .. z : k[j] # q[j]}
<1>4. PICK j \in D : \A i \in D : j <= i
  <2>1. D # {}
    <3>1. ASSUME D = {}
          PROVE  k = q
      <4>1. \A i \in 1 .. z : k[i] = q[i]
        BY <3>1
      <4>2. QED
        BY <1>2, <4>1, SeqEqual
    <3>2. QED
      BY <3>1
  <2>2. D \subseteq Nat
    OBVIOUS
  <2> HIDE DEF D
  <2>3. QED
    BY <2>1, <2>2, SmallestOf
<1>5. j \in Nat /\ j <= z /\ l + 1 < j /\ k[j] # q[j]
  <2>1. j \in 1 .. z /\ k[j] # q[j]
    OBVIOUS
  <2>2. j \notin 1 .. l + 1
    BY <1>3, <2>1
  <2>3. QED
    BY <2>1, <2>2
<1>6. \A i \in 1 .. j - 1 : k[i] = q[i]
  <2>1. \A i \in 1 .. j - 1 : i \in 1 .. z /\ ~ (j <= i)
    BY <1>5
  <2>2. QED
    BY <1>4, <2>1
<1>7. PICK d \in Nat : d > 0 /\ l + d < z /\ l + d + 1 = j
  <2>1. j - 1 - l \in Nat /\ j - 1 - l > 0 /\ l + (j - 1 - l) < z /\ l + (j - 1 - l) + 1 = j
    BY <1>5
  <2>2. QED
    BY <2>1
<1> HIDE DEF D
<1>8. PICK P : P = {x \in l .. Len(q) : Interner!Digit(k, x) # Interner!Digit(q, x)}
  OBVIOUS
<1>9. \A x \in Nat : x < z => Interner!Digit(k, x) = k[x + 1] /\ Interner!Digit(q, x) = q[x + 1]
  BY <1>2 DEF Interner!Digit
<1>10. l + d \in P
  <2>1. PICK x \in Nat : x = l + d /\ x < z /\ x + 1 = j /\ l <= x
    BY <1>7
  <2>2. Interner!Digit(k, x) # Interner!Digit(q, x)
    BY <1>5, <1>9, <2>1
  <2>3. x \in l .. Len(q)
    BY <1>2, <2>1
  <2>4. QED
    BY <1>8, <2>1, <2>2, <2>3
<1>11. ASSUME NEW y \in P
       PROVE  l + d <= y
  <2>1. y \in Nat /\ Interner!Digit(k, y) # Interner!Digit(q, y)
    BY <1>2, <1>8
  <2>2. ASSUME y < l + d
        PROVE  FALSE
    <3>1. y < z /\ y + 1 \in 1 .. j - 1
      BY <1>7, <2>1, <2>2
    <3>2. QED
      BY <1>6, <1>9, <2>1, <3>1
  <2>3. QED
    BY <2>1, <2>2
<1>12. PICK m : m = Interner!Parting(k, q, l)
  OBVIOUS
<1>13. m \in P /\ \A y \in P : m <= y
  <2>1. \E x \in P : \A y \in P : x <= y
    BY <1>10, <1>11
  <2>2. m = CHOOSE x \in P : \A y \in P : x <= y
    BY <1>8, <1>12 DEF Interner!Parting, Interner!Min
  <2>3. QED
    BY <2>1, <2>2
<1>14. m = l + d
  <2>1. m \in Nat
    BY <1>2, <1>8, <1>13
  <2>2. l + d <= m /\ m <= l + d
    BY <1>10, <1>11, <1>13
  <2>3. QED
    BY <2>1, <2>2
<1>15. Agree(FirstWord(k), FirstWord(q), l + d)
  <2>1. \A i \in 1 .. l + d : i \in 1 .. j - 1
    BY <1>7
  <2>2. QED
    BY <1>2, <1>6, <2>1 DEF Agree
<1>16. DigitAt(k, l + d) # DigitAt(q, l + d)
  BY <1>2, <1>5, <1>7 DEF DigitAt
<1>17. QED
  BY <1>1, <1>7, <1>12, <1>14, <1>15, <1>16 DEF PartsAt

\* A trie is what its nodes and its hashes are.
LEMMA InternSoundIs ==
    ASSUME NEW T, NEW N, NEW E, NEW K, Sound(T, N, E, K, Root),
           NEW t, t = [nodes |-> T, hashes |-> K]
    PROVE  InternSound(t) /\ t.hashes = K
<1>1. t.nodes = T /\ t.hashes = K /\ t = [nodes |-> t.nodes, hashes |-> t.hashes]
  OBVIOUS
<1>2. Sound(t.nodes, N, E, t.hashes, Root)
  BY <1>1
<1>3. QED
  BY <1>1, <1>2 DEF InternSound

\* A new hash goes into an empty slot.
LEMMA InternSlot ==
    ASSUME InternHashes, NEW t, NEW N, NEW E, Sound(t.nodes, N, E, t.hashes, Root),
           NEW k \in Keys, \A e \in 1 .. Len(t.hashes) : t.hashes[e] # k,
           Interner!PlaceFind(t, k).entry = 0, Interner!Find(t, k) = 0
    PROVE  /\ InternSound(Interner!Inserted(t, k))
           /\ Interner!Inserted(t, k).hashes = Append(t.hashes, k)
<1>1. PICK T, K : T = t.nodes /\ K = t.hashes
  OBVIOUS
<1>2. Sound(T, N, E, K, Root)
  BY <1>1
<1>3. PICK lw : Trie(T, N, E, K, lw[1], lw[2])
  BY <1>2 DEF Sound
<1>4. PICK lev, w : lev = lw[1] /\ w = lw[2]
  OBVIOUS
<1>5. Trie(T, N, E, K, lev, w) /\ Distinct(K, Len(K)) /\ Full(T, Len(T), Root) /\ K \in Seq(Keys)
  BY <1>2, <1>3, <1>4 DEF Sound, Trie, Typed
<1>6. PICK n \in 1 .. Len(T), s \in Slots :
        /\ Interner!PlaceFind(t, k) = [entry |-> T[n][s], node |-> n, depth |-> lev[n]]
        /\ lev[n] \in Nat /\ lev[n] < Word /\ s = DigitAt(k, lev[n])
        /\ Agree(FirstWord(k), w[n], lev[n])
  BY <1>1, <1>5, InternWalkEnds
<1>7. PICK at : at = Interner!PlaceFind(t, k)
  OBVIOUS
<1>8. at.entry = T[n][s] /\ at.node = n /\ at.depth = lev[n] /\ T[n][s] = 0
  BY <1>6, <1>7
<1>9. Interner!Digit(k, at.depth + 0) = s
  <2>1. at.depth + 0 = lev[n]
    BY <1>6, <1>8
  <2>2. QED
    BY <1>6, <2>1, HashDigit
<1>10. PICK U, Q : U = [T EXCEPT ![n][s] = Len(K) + 1] /\ Q = Append(K, k)
  OBVIOUS
<1>11. Interner!Inserted(t, k) = [nodes |-> U, hashes |-> Q]
  <2>1. at.entry = 0
    BY <1>8
  <2>2. QED
    BY <1>1, <1>7, <1>8, <1>9, <1>10, <2>1 DEF Interner!Inserted
<1>12. Hangs(lev, w, n, s, FirstWord(k))
  BY <1>6 DEF Hangs, DigitAt
<1>13. Written(T, U, n, s, Len(K) + 1)
  BY <1>10 DEF Written
<1>14. /\ Trie(U, N, Append(E, <<n, s>>), Q, lev, w)
       /\ \A x : Full(T, Len(T), x) => Full(U, Len(U), x)
  <2>1. /\ Trie(U, N, Append(E, <<n, s>>), Append(K, k), lev, w)
        /\ \A x : Full(T, Len(T), x) => Full(U, Len(U), x)
    BY <1>5, <1>8, <1>12, <1>13, AddedEntry
  <2>2. QED
    BY <1>10, <2>1
<1>15. Distinct(Q, Len(K) + 1) /\ Len(Q) = Len(K) + 1
  <2>1. \A e \in 1 .. Len(K) : K[e] # k
    BY <1>1
  <2>2. Distinct(Append(K, k), Len(K) + 1)
    BY <1>5, <2>1, AddedKey
  <2>3. Len(Append(K, k)) = Len(K) + 1
    BY <1>5, AppendedAt
  <2>4. QED
    BY <1>10, <2>2, <2>3
<1>16. Sound(U, N, Append(E, <<n, s>>), Q, Root)
  BY <1>5, <1>14, <1>15, SoundBy
<1>17. PICK u : u = Interner!Inserted(t, k) /\ u = [nodes |-> U, hashes |-> Q]
  BY <1>11
<1>18. InternSound(u) /\ u.hashes = Q
  BY <1>16, <1>17, InternSoundIs
<1>19. QED
  BY <1>1, <1>10, <1>17, <1>18

\* Where another hash is in the way, a chain of new nodes leads to both.
LEMMA InternSplit ==
    ASSUME InternHashes, NEW t, NEW N, NEW E, Sound(t.nodes, N, E, t.hashes, Root),
           NEW k \in Keys, \A e \in 1 .. Len(t.hashes) : t.hashes[e] # k,
           Interner!PlaceFind(t, k).entry # 0, Interner!Find(t, k) = 0
    PROVE  /\ InternSound(Interner!Inserted(t, k))
           /\ Interner!Inserted(t, k).hashes = Append(t.hashes, k)
<1>1. PICK T, K : T = t.nodes /\ K = t.hashes
  OBVIOUS
<1>2. Sound(T, N, E, K, Root)
  BY <1>1
<1>3. PICK lw : Trie(T, N, E, K, lw[1], lw[2])
  BY <1>2 DEF Sound
<1>4. PICK lev, w : lev = lw[1] /\ w = lw[2]
  OBVIOUS
<1>5. /\ Trie(T, N, E, K, lev, w) /\ Distinct(K, Len(K)) /\ Full(T, Len(T), Root)
      /\ T \in Seq(Rows) /\ N \in Seq(Places) /\ E \in Seq(Places) /\ K \in Seq(Keys)
      /\ Len(N) = Len(T) /\ Len(E) = Len(K)
  BY <1>2, <1>3, <1>4 DEF Sound, Trie, Typed
<1>6. PICK M \in Nat, L \in Nat : M = Len(T) /\ L = Len(K)
  BY <1>5, LenProperties
<1>7. PICK n \in 1 .. M, s \in Slots :
        /\ Interner!PlaceFind(t, k) = [entry |-> T[n][s], node |-> n, depth |-> lev[n]]
        /\ lev[n] \in Nat /\ lev[n] < Word /\ s = DigitAt(k, lev[n])
        /\ T[n][s] \in Int /\ T[n][s] >= 0 /\ Agree(FirstWord(k), w[n], lev[n])
  BY <1>1, <1>5, <1>6, InternWalkEnds
<1>8. PICK l \in Nat : l = lev[n] /\ l < Word
  BY <1>7
<1>9. PICK at : at = Interner!PlaceFind(t, k)
  OBVIOUS
<1>10. at.entry = T[n][s] /\ at.node = n /\ at.depth = l
  BY <1>7, <1>8, <1>9
<1>11. PICK e \in 1 .. L : e = T[n][s]
  <2>1. T[n][s] > 0
    BY <1>7, <1>9, <1>10
  <2>2. T[n][s] <= L
    BY <1>5, <1>6, <2>1 DEF Trie, Linked
  <2>3. QED
    BY <1>7, <2>1, <2>2
<1>12. PICK q \in Keys : q = K[e] /\ q # k
  <2>1. K[e] \in Keys
    BY <1>5, <1>6, ElementOfSeq
  <2>2. QED
    BY <1>1, <1>6, <2>1
<1>13. Agree(FirstWord(k), FirstWord(q), l + 1)
  <2>1. Hangs(lev, w, n, s, FirstWord(q))
    <3>1. T[n][s] = e /\ Sorted(T, K, M, L, lev, w)
      BY <1>5, <1>6, <1>11 DEF Trie
    <3>2. QED
      BY <1>12, <3>1 DEF Sorted
  <2>2. Agree(FirstWord(q), w[n], l) /\ FirstWord(q)[l + 1] = s
    BY <1>8, <2>1 DEF Hangs
  <2>3. Agree(FirstWord(k), w[n], l) /\ FirstWord(k)[l + 1] = s
    BY <1>7, <1>8 DEF DigitAt
  <2>4. \A i \in 1 .. l + 1 : i \in 1 .. l \/ i = l + 1
    OBVIOUS
  <2>5. QED
    BY <2>2, <2>3, <2>4 DEF Agree
<1>14. PICK b \in Nat : PartsAt(k, q, l, b)
  <2>1. k # q /\ l < Word
    BY <1>8, <1>12
  <2>2. QED
    BY <1>13, <2>1, PartingIs
<1>15. /\ b > 0 /\ Interner!Parting(k, q, l) = l + b /\ l + b < Word
       /\ Agree(FirstWord(k), FirstWord(q), l + b) /\ DigitAt(k, l + b) # DigitAt(q, l + b)
  BY <1>14 DEF PartsAt
<1>16. ASSUME NEW i \in 0 .. b
       PROVE  /\ Interner!Digit(k, l + i) = DigitAt(k, l + i) /\ DigitAt(k, l + i) \in Slots
              /\ Interner!Digit(q, l + i) = DigitAt(q, l + i) /\ DigitAt(q, l + i) \in Slots
  <2>1. PICK z \in Nat : z = Word
    BY UnorderedVectorAssumption
  <2>2. l + i \in Nat /\ l + i < z
    BY <1>15, <2>1
  <2>3. QED
    BY <2>1, <2>2, HashDigit
<1>17. ForkPlace(T, K, lev, w, n, s, k, q, e, b)
  BY <1>7, <1>8, <1>11, <1>12, <1>15 DEF ForkPlace
<1>18. PICK x \in Slots, y \in Slots : x = DigitAt(k, l + b) /\ y = DigitAt(q, l + b) /\ x # y
  <2>1. b \in 0 .. b
    BY <1>15
  <2>2. QED
    BY <1>15, <1>16, <2>1
<1> DEFINE C == [i \in 1 .. b |->
                   IF i = b THEN [Blank EXCEPT ![y] = e, ![x] = L + 1]
                   ELSE [Blank EXCEPT ![Interner!Digit(k, l + i)] = -(M + i + 1)]]
           Z == [i \in 1 .. b |-> IF i = 1 THEN <<n, s>> ELSE <<M + i - 1, DigitAt(k, l + (i - 1))>>]
<1>19. PICK U, P, F, Q :
         /\ U = [T EXCEPT ![n][s] = -(M + 1)] \o C /\ P = N \o Z /\ Q = Append(K, k)
         /\ F = Append([E EXCEPT ![e] = <<M + b, DigitAt(q, l + b)>>],
                       <<M + b, DigitAt(k, l + b)>>)
  OBVIOUS
<1>20. Interner!Inserted(t, k) = [nodes |-> U, hashes |-> Q]
  <2>1. at.entry # 0 /\ K[at.entry] = q /\ at.entry = e
    BY <1>10, <1>11, <1>12
  <2>2. Interner!Parting(k, K[at.entry], at.depth) - at.depth = b
    <3>1. Interner!Parting(k, K[at.entry], at.depth) = l + b
      BY <1>10, <1>15, <2>1
    <3>2. QED
      BY <1>10, <3>1
  <2>3. Interner!Blank = Blank
    BY DEF InternHashes, Blank, Interner!Blank
  <2>4. Interner!Digit(k, l + 0) = s /\ Interner!Digit(k, l + b) = x /\ Interner!Digit(q, l + b) = y
    <3>1. 0 \in 0 .. b /\ b \in 0 .. b /\ l + 0 = l
      BY <1>15
    <3>2. Interner!Digit(k, l + 0) = DigitAt(k, l) /\ Interner!Digit(k, l + b) = DigitAt(k, l + b)
          /\ Interner!Digit(q, l + b) = DigitAt(q, l + b)
      BY <1>16, <3>1
    <3>3. QED
      BY <1>7, <1>8, <1>18, <3>2
  <2>5. PICK R : R = [i \in 1 .. b |->
                        IF i = b THEN [Blank EXCEPT ![Interner!Digit(q, l + i)] = e,
                                                    ![Interner!Digit(k, l + i)] = L + 1]
                        ELSE [Blank EXCEPT ![Interner!Digit(k, l + i)] = -(M + i + 1)]]
    OBVIOUS
  <2>6. R = C
    BY <2>4, <2>5
  <2> HIDE DEF C, Z
  <2>7. Interner!Inserted(t, k) =
          [nodes |-> [T EXCEPT ![n][Interner!Digit(k, l + 0)] = -(M + 1)] \o R,
           hashes |-> Append(K, k)]
    BY <1>1, <1>6, <1>9, <1>10, <2>1, <2>2, <2>3, <2>5 DEF Interner!Inserted
  <2>8. QED
    BY <1>19, <2>4, <2>6, <2>7
<1>21. ASSUME NEW i \in 1 .. b - 1
       PROVE  /\ C[i] \in Rows
              /\ \A r \in Slots : C[i][r] = IF r = DigitAt(k, lev[n] + i) THEN -(M + i + 1) ELSE 0
  <2>1. i \in 1 .. b /\ i # b /\ i \in 0 .. b
    OBVIOUS
  <2>2. PICK r \in Slots : r = Interner!Digit(k, l + i) /\ r = DigitAt(k, lev[n] + i)
    BY <1>8, <1>16, <2>1
  <2>3. C[i] = [Blank EXCEPT ![r] = -(M + i + 1)]
    <3>1. C[i] = [Blank EXCEPT ![Interner!Digit(k, l + i)] = -(M + i + 1)]
      BY <2>1
    <3> HIDE DEF C
    <3>2. QED
      BY <2>2, <3>1
  <2>4. -(M + i + 1) \in Int
    OBVIOUS
  <2> HIDE DEF C
  <2>5. PICK row, c : row = C[i] /\ c = -(M + i + 1) /\ c \in Int
    BY <2>4
  <2>6. row = [Blank EXCEPT ![r] = c]
    BY <2>3, <2>5
  <2>7. row \in Rows /\ \A z \in Slots : row[z] = IF z = r THEN c ELSE 0
    BY <2>5, <2>6 DEF Blank, Rows
  <2>8. QED
    BY <2>2, <2>5, <2>7
<1>22. /\ C[b] \in Rows
       /\ \A r \in Slots : C[b][r] = IF r = DigitAt(k, lev[n] + b) THEN L + 1
                                     ELSE IF r = DigitAt(q, lev[n] + b) THEN e ELSE 0
  <2>1. C[b] = [Blank EXCEPT ![y] = e, ![x] = L + 1]
    <3>1. b \in 1 .. b
      BY <1>15
    <3>2. QED
      BY <3>1
  <2>2. e \in Int /\ L + 1 \in Int
    OBVIOUS
  <2> HIDE DEF C
  <2>3. PICK row, f, g : row = C[b] /\ f = e /\ g = L + 1 /\ f \in Int /\ g \in Int
    BY <2>2
  <2>4. row = [Blank EXCEPT ![y] = f, ![x] = g]
    BY <2>1, <2>3
  <2>5. row \in Rows /\ \A r \in Slots : row[r] = IF r = x THEN g ELSE IF r = y THEN f ELSE 0
    BY <2>3, <2>4 DEF Blank, Rows
  <2>6. QED
    BY <1>8, <1>18, <2>3, <2>5
<1>23. C \in [1 .. b -> Rows]
  <2>1. \A i \in 1 .. b : i = b \/ i \in 1 .. b - 1
    OBVIOUS
  <2>2. \A i \in 1 .. b : C[i] \in Rows
    <3> HIDE DEF C
    <3>1. QED
      BY <1>21, <1>22, <2>1
  <2>3. C = [i \in 1 .. b |-> C[i]]
    OBVIOUS
  <2> HIDE DEF C
  <2>4. QED
    BY <2>2, <2>3
<1>24. ForkedTree(T, U, M, L, lev, n, s, k, q, e, b)
  <2> HIDE DEF C, Z
  <2>1. \A i \in 1 .. b - 1, r \in Slots :
          C[i][r] = IF r = DigitAt(k, lev[n] + i) THEN -(M + i + 1) ELSE 0
    BY <1>21
  <2>2. ForkedTree(T, [T EXCEPT ![n][s] = -(M + 1)] \o C, M, L, lev, n, s, k, q, e, b)
    BY <1>5, <1>6, <1>15, <1>22, <1>23, <2>1, SplitTree
  <2>3. QED
    BY <1>19, <2>2
<1>25. Z \in [1 .. b -> Places] /\ Z[1] = <<n, s>>
  <2>1. ASSUME NEW i \in 2 .. b
        PROVE  <<M + i - 1, DigitAt(k, l + (i - 1))>> \in Places
    <3>1. i - 1 \in 0 .. b /\ M + i - 1 \in Nat
      OBVIOUS
    <3>2. DigitAt(k, l + (i - 1)) \in Slots
      BY <1>16, <3>1
    <3>3. QED
      BY <3>1, <3>2 DEF Places
  <2>2. <<n, s>> \in Places
    BY DEF Places
  <2>3. \A i \in 1 .. b : i = 1 \/ i \in 2 .. b
    OBVIOUS
  <2>4. 1 \in 1 .. b
    BY <1>15
  <2>5. QED
    BY <2>1, <2>2, <2>3, <2>4
<1>26. \A i \in 2 .. b : Z[i] = <<M + i - 1, DigitAt(k, lev[n] + (i - 1))>>
  <2>1. \A i \in 2 .. b : i \in 1 .. b /\ i # 1
    OBVIOUS
  <2>2. QED
    BY <1>8, <2>1
<1>27. ForkedNodes(N, P, M, lev, n, s, k, b)
  <2> HIDE DEF C, Z
  <2>1. ForkedNodes(N, N \o Z, M, lev, n, s, k, b)
    BY <1>5, <1>6, <1>15, <1>25, <1>26, SplitNodes
  <2>2. QED
    BY <1>19, <2>1
<1> HIDE DEF C, Z
<1>28. ForkedEntries(E, F, M, L, lev, n, k, q, e, b)
  <2>1. DigitAt(k, lev[n] + b) \in Slots /\ DigitAt(q, lev[n] + b) \in Slots
    BY <1>8, <1>18
  <2>2. ForkedEntries(E, Append([E EXCEPT ![e] = <<M + b, DigitAt(q, lev[n] + b)>>],
                                <<M + b, DigitAt(k, lev[n] + b)>>), M, L, lev, n, k, q, e, b)
    BY <1>5, <1>6, <1>15, <2>1, SplitEntries
  <2>3. QED
    BY <1>8, <1>19, <2>2
<1>29. Linked(U, P, F, M + b, L + 1)
  <2>1. Trie(T, N, E, K, lev, w)
    BY <1>5
  <2>2. QED
    BY <1>6, <1>15, <1>17, <1>24, <1>27, <1>28, <2>1, ForkKeepsLinks, ZenonT(30)
<1>30. PICK lv, wd : lv = ForkLevels(lev, M, n, b) /\ wd = ForkWords(w, M, k, b)
  OBVIOUS
<1>31. /\ Leveled(M + b, lv, wd) /\ Sorted(U, Q, M + b, L + 1, lv, wd)
       /\ \A a : Full(T, M, a) => Full(U, M + b, a)
  <2>1. Trie(T, N, E, K, lev, w) /\ Q = Append(K, k)
    BY <1>5, <1>19
  <2>2. /\ Leveled(M + b, ForkLevels(lev, M, n, b), ForkWords(w, M, k, b))
        /\ Sorted(U, Q, M + b, L + 1, ForkLevels(lev, M, n, b), ForkWords(w, M, k, b))
        /\ \A a : Full(T, M, a) => Full(U, M + b, a)
    BY <1>6, <1>15, <1>17, <1>24, <2>1, ForkIsSorted, ZenonT(30)
  <2>3. QED
    BY <1>30, <2>2
<1>32. Len(U) = M + b /\ U \in Seq(Rows) /\ P \in Seq(Places) /\ Len(P) = M + b
       /\ F \in Seq(Places) /\ Len(F) = L + 1
  BY <1>24, <1>27, <1>28 DEF ForkedTree, ForkedNodes, ForkedEntries
<1>33. Q \in Seq(Keys) /\ Len(Q) = L + 1
  BY <1>5, <1>6, <1>19, AppendedAt
<1>34. Trie(U, P, F, Q, lv, wd)
  <2>1. M + b >= 1
    BY <1>15
  <2>2. Typed(U, P, F, Q)
    BY <1>32, <1>33, <2>1 DEF Typed
  <2>3. QED
    BY <1>29, <1>31, <1>32, <1>33, <2>2 DEF Trie
<1>35. Distinct(Q, Len(Q))
  <2>1. \A i \in 1 .. Len(K) : K[i] # k
    BY <1>1
  <2>2. QED
    <3>1. Distinct(Append(K, k), Len(K) + 1)
      BY <1>5, <2>1, AddedKey
    <3>2. QED
      BY <1>6, <1>19, <1>33, <3>1
<1>36. Full(U, Len(U), Root)
  BY <1>5, <1>6, <1>31, <1>32
<1>37. Sound(U, P, F, Q, Root)
  BY <1>34, <1>35, <1>36, SoundBy
<1>38. PICK u : u = Interner!Inserted(t, k) /\ u = [nodes |-> U, hashes |-> Q]
  BY <1>20
<1>39. InternSound(u) /\ u.hashes = Q
  BY <1>37, <1>38, InternSoundIs
<1>40. QED
  BY <1>1, <1>19, <1>38, <1>39

\* The trie of no hashes.
LEMMA InternStarts ==
    ASSUME InternHashes
    PROVE  InternSound(Interner!EmptyTrie)
<1>1. PICK T, N, E, K : T = <<Blank>> /\ N = <<<<1, 0>>>> /\ E = <<>> /\ K = <<>>
  OBVIOUS
<1>2. Sound(T, N, E, K, Root)
  BY <1>1, EmptyIsSound
<1>3. Interner!Blank = Blank
  BY DEF InternHashes, Blank, Interner!Blank
<1>4. Interner!EmptyTrie = [nodes |-> T, hashes |-> K]
  BY <1>1, <1>3 DEF Interner!EmptyTrie
<1>5. QED
  BY <1>2, <1>4 DEF InternSound

\* insert numbers a new hash after the others, whatever their words have in
\* common, and find gives every hash its number: those inserted, and 0 for
\* another one.  InternSound is the inductive invariant, so that this holds of
\* every trie that insert builds from the empty one.
THEOREM InterningNumbersHashes ==
    ASSUME InternHashes
    PROVE  /\ InternSound(Interner!EmptyTrie)
           /\ \A t : InternSound(t) =>
                \A k \in Keys :
                  /\ InternSound(Interner!Inserted(t, k))
                  /\ Interner!Inserted(t, k).hashes =
                       IF NumberOf(t.hashes, k) = 0 THEN Append(t.hashes, k) ELSE t.hashes
                  /\ Interner!Find(t, k) = NumberOf(t.hashes, k)
<1>1. ASSUME NEW t, InternSound(t), NEW k \in Keys
      PROVE  /\ InternSound(Interner!Inserted(t, k))
             /\ Interner!Inserted(t, k).hashes =
                  IF NumberOf(t.hashes, k) = 0 THEN Append(t.hashes, k) ELSE t.hashes
             /\ Interner!Find(t, k) = NumberOf(t.hashes, k)
  <2>1. PICK N, E : Sound(t.nodes, N, E, t.hashes, Root)
    BY <1>1 DEF InternSound
  <2>2. PICK K : K = t.hashes
    OBVIOUS
  <2>3. PICK lw : Trie(t.nodes, N, E, t.hashes, lw[1], lw[2])
    BY <2>1 DEF Sound
  <2>4. Distinct(K, Len(K)) /\ K \in Seq(Keys)
    BY <2>1, <2>2, <2>3 DEF Sound, Trie, Typed
  <2>5. Interner!Find(t, k) = NumberOf(K, k)
    BY <2>2, <2>3, <2>4, InternFinds
  <2>6. CASE NumberOf(K, k) # 0
    <3>1. Interner!Inserted(t, k) = t
      <4>1. Interner!Find(t, k) # 0
        BY <2>5, <2>6
      <4>2. Interner!PlaceFind(t, k).entry > 0
        BY <4>1 DEF Interner!Find
      <4>3. Interner!PlaceFind(t, k).entry # 0
        BY <4>2
      <4>4. QED
        BY <4>1, <4>3 DEF Interner!Inserted
    <3>2. QED
      BY <1>1, <2>2, <2>5, <2>6, <3>1
  <2>7. CASE NumberOf(K, k) = 0
    <3>1. \A e \in 1 .. Len(K) : K[e] # k
      <4>1. ASSUME NEW e \in 1 .. Len(K), K[e] = k
            PROVE  FALSE
        <5>1. NumberOf(K, k) = e
          BY <2>4, <4>1, NumberIs
        <5>2. Len(K) \in Nat
          BY <2>4, LenProperties
        <5>3. QED
          BY <2>7, <5>1, <5>2
      <4>2. QED
        BY <4>1
    <3>2. /\ InternSound(Interner!Inserted(t, k))
          /\ Interner!Inserted(t, k).hashes = Append(t.hashes, k)
      <4>1. \A e \in 1 .. Len(t.hashes) : t.hashes[e] # k
        BY <2>2, <3>1
      <4>2. Interner!Find(t, k) = 0
        BY <2>5, <2>7
      <4>3. CASE Interner!PlaceFind(t, k).entry = 0
        BY <2>1, <4>1, <4>2, <4>3, InternSlot
      <4>4. CASE Interner!PlaceFind(t, k).entry # 0
        BY <2>1, <4>1, <4>2, <4>4, InternSplit
      <4>5. QED
        BY <4>3, <4>4
    <3>3. QED
      BY <2>2, <2>5, <2>7, <3>2
  <2>8. QED
    BY <2>6, <2>7
<1>2. QED
  BY <1>1, InternStarts
=============================================================================
