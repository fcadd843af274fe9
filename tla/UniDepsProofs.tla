--------------------------- MODULE UniDepsProofs ----------------------------
(***************************************************************************)
(* Theorems about the edge lists of bdeps.hpp and the two schedulers that  *)
(* keep their edges in them (udeps.hpp and rdeps.hpp), for any number of   *)
(* nodes, any size of the store and any batches of edges.                  *)
(*                                                                         *)
(* The argument goes in five steps.  Every cell of the store is filed      *)
(* under one owner, a node's list or a free block (Filed); the operations  *)
(* on lists keep it so and change no other list (Sound); hence an edge is  *)
(* found in its list until the list is dropped (OneEdge, NoEdges).  The    *)
(* in-degree of a node is a sum over the other lists (Counted) or over     *)
(* what it is still owed (Debts), and the loops of make_edges and defuse   *)
(* change that sum round by round (Looped, Settling).  Each step of rdeps  *)
(* is then a step of the abstract task graph (Mapped).                     *)
(***************************************************************************)
EXTENDS MCUniDeps, BlockRangesProofs

-----------------------------------------------------------------------------
(* Powers of two and size classes                                            *)

\* A greater power is at least twice the lesser.
LEMMA PowersGrow ==
    ASSUME NEW a \in Nat, NEW b \in Nat, a < b
    PROVE  2 * 2^a <= 2^b
<1> DEFINE S == {k \in Nat : 2 * 2^a <= 2^(a + 1 + k)}
<1>1. 0 \in S
  <2>1. 2^(a + 1) = 2 * 2^a /\ 2^a \in Nat
    BY PowerDoubles, PowerType
  <2>2. a + 1 + 0 = a + 1
    OBVIOUS
  <2>3. QED
    BY <2>1, <2>2
<1>2. ASSUME NEW k \in Nat, k \in S
      PROVE  k + 1 \in S
  <2>1. PICK d \in Nat : d = a + 1 + k
    OBVIOUS
  <2>2. 2^(d + 1) = 2 * 2^d /\ 2^d \in Nat /\ 2^a \in Nat
    BY PowerDoubles, PowerType
  <2>3. a + 1 + (k + 1) = d + 1
    BY <2>1
  <2>4. 2 * 2^a <= 2^d
    BY <1>2, <2>1
  <2>5. 2 * 2^a <= 2^(d + 1)
    BY <2>2, <2>4
  <2>6. QED
    BY <2>5, <2>3
<1>3. Nat \subseteq S
  <2> HIDE DEF S
  <2>1. QED
    BY <1>1, <1>2, Induction
<1>4. b - a - 1 \in Nat /\ a + 1 + (b - a - 1) = b
  OBVIOUS
<1>5. QED
  BY <1>3, <1>4

\* A class is a natural, so its power is a positive natural.
LEMMA ClassPower ==
    ASSUME NEW c \in Classes
    PROVE  c \in Nat /\ c <= MaxClass /\ 2^c \in Nat /\ 2^c > 0
<1>1. c \in Nat /\ c <= MaxClass
  BY ClassAssumption DEF Classes
<1>2. 2^c \in Nat \ {0}
  BY <1>1, PowerType
<1>3. QED
  BY <1>1, <1>2

\* The powers of two grow with their classes.
LEMMA ClassesOrdered ==
    ASSUME NEW a \in Classes, NEW b \in Classes
    PROVE  (a < b <=> 2^a < 2^b) /\ (a = b <=> 2^a = 2^b) /\ (a < b => 2 * 2^a <= 2^b)
<1>1. a \in Nat /\ b \in Nat /\ 2^a \in Nat /\ 2^a > 0 /\ 2^b \in Nat /\ 2^b > 0
  BY ClassPower
<1>2. a < b => 2 * 2^a <= 2^b
  BY <1>1, PowersGrow
<1>3. b < a => 2 * 2^b <= 2^a
  BY <1>1, PowersGrow
<1>4. PICK p \in Nat, q \in Nat : p = 2^a /\ q = 2^b /\ p > 0 /\ q > 0
  BY <1>1
<1>5. (a < b => 2 * p <= q) /\ (b < a => 2 * q <= p) /\ (a = b => p = q)
  BY <1>2, <1>3, <1>4
<1>6. (a < b <=> p < q) /\ (a = b <=> p = q)
  BY <1>5, <1>1, <1>4
<1>7. QED
  BY <1>6, <1>2, <1>4

\* The smallest class whose blocks hold n cells.
LEMMA CeilClassIs ==
    ASSUME NEW n \in Int, n <= 2^MaxClass
    PROVE  CeilClass(n) \in Classes /\ n <= 2^CeilClass(n)
           /\ \A c \in Classes : n <= 2^c => CeilClass(n) <= c
<1>1. PICK T : T = {c \in Classes : n <= 2^c}
  OBVIOUS
<1>2. MaxClass \in Classes /\ Classes \subseteq Nat
  BY ClassAssumption DEF Classes
<1>3. T \subseteq Nat /\ T # {}
  BY <1>1, <1>2
<1>4. Min(T) \in T /\ \A y \in T : Min(T) <= y
  BY <1>3, MinIsLeast
<1>5. CeilClass(n) = Min(T)
  BY <1>1 DEF CeilClass
<1>6. QED
  BY <1>1, <1>4, <1>5

\* The largest class whose blocks are no larger than n cells.
LEMMA FloorClassIs ==
    ASSUME NEW n \in Nat, n > 0
    PROVE  /\ FloorClass(n) \in Classes /\ 2^FloorClass(n) <= n
           /\ \A z \in Classes : 2^z <= n => z <= FloorClass(n)
<1>1. PICK T : T = {c \in Classes : 2^c <= n}
  OBVIOUS
<1>2. 0 \in Classes /\ Classes = 0 .. MaxClass /\ MaxClass \in Nat
  BY ClassAssumption DEF Classes
<1>3. 2^0 = 1
  <2>1. Cardinality(SUBSET (1 .. 0)) = 2^Cardinality(1 .. 0)
    <3>1. IsFiniteSet(1 .. 0)
      BY FS_Interval
    <3>2. QED
      BY <3>1, FS_SUBSET, Zenon
  <2>2. Cardinality(1 .. 0) = 0
    BY FS_EmptySet
  <2>3. SUBSET (1 .. 0) = {{}}
    OBVIOUS
  <2>4. Cardinality({{}}) = 1
    BY FS_Singleton
  <2>5. QED
    BY <2>1, <2>2, <2>3, <2>4, Zenon
<1>4. T \subseteq 0 .. MaxClass /\ T # {}
  <2>1. T \subseteq Classes
    BY <1>1
  <2>2. PICK p : p = 2^0
    OBVIOUS
  <2>3. p <= n
    BY <2>2, <1>3
  <2>4. 0 \in T
    BY <2>2, <2>3, <1>1, <1>2, Zenon
  <2>5. QED
    BY <2>1, <2>4, <1>2
<1>5. Max(T) \in T /\ \A y \in T : Max(T) >= y
  BY <1>2, <1>4, GreatestOf
<1>6. FloorClass(n) = Max(T)
  BY <1>1 DEF FloorClass
<1>7. PICK c : c = Max(T)
  OBVIOUS
<1>8. c \in Classes /\ 2^c <= n
  BY <1>1, <1>5, <1>7, Zenon
<1>9. ASSUME NEW z \in Classes, 2^z <= n
      PROVE  z <= c
  <2>1. z \in T
    BY <1>9, <1>1, Zenon
  <2>2. c >= z
    BY <2>1, <1>5, <1>7, Zenon
  <2>3. c \in Nat /\ z \in Nat
    BY <1>2, <1>8
  <2>4. QED
    BY <2>2, <2>3
<1>10. QED
  BY <1>6, <1>7, <1>8, <1>9, Zenon
-----------------------------------------------------------------------------
(* The free lists.  Every cell has an owner, a kind and a rank: kind c \in   *)
(* Classes is a block on the free list of class c, which lies at that depth; *)
(* kind -1 is the list of the node of that id; kind -2 a block that is being *)
(* handed out.  depth says how many blocks a class has, and chain[c][j] is   *)
(* the link to the one at depth j, whose own link is chain[c][j - 1].        *)

ClassCells(c) == 2^c
HeadStart(h) == IF 0 < h THEN h - 1 ELSE Complement(h)
HeadLink(h) == IF 0 < h THEN h - 1 ELSE -h
HeadCells(cells, c, h) == IF 0 < h THEN ClassCells(c) ELSE cells[Complement(h)] + 1

\* A link to a block of a class: a positive one to a block of exactly its size,
\* a negative one to a block that says in its first cell how large it is.
Entry(cells, c, h) ==
  /\ h \in Int /\ h # 0
  /\ h < 0 => /\ cells[Complement(h)] \in Nat
              /\ ClassCells(c) < cells[Complement(h)] + 1
              /\ FloorClass(cells[Complement(h)] + 1) = c

\* The owner of kind k and rank r has the n cells from a on.
Holds(kind, rank, k, r, a, n) ==
  \A i \in Int : (i \in DOMAIN kind /\ kind[i] = k /\ rank[i] = r) <=> (a <= i /\ i < a + n)

Shape(st) ==
  /\ st = [cells |-> st.cells, heads |-> st.heads, mask |-> st.mask, expected |-> st.expected]
  /\ \E n \in Nat : DOMAIN st.cells = 0 .. n - 1
  /\ st.cells = [i \in DOMAIN st.cells |-> st.cells[i]]
  /\ st.heads \in [Classes -> Int] /\ st.mask \subseteq Classes /\ st.expected \in Nat

Ghosts(st, kind, rank, depth, chain) ==
  /\ kind \in [DOMAIN st.cells -> Int] /\ rank \in [DOMAIN st.cells -> Int]
  /\ depth \in [Classes -> Nat] /\ chain \in [Classes -> [Nat -> Int]]

Threaded(st, depth, chain) ==
  \A c \in Classes :
    /\ chain[c][0] = 0
    /\ st.heads[c] = chain[c][depth[c]]
    /\ c \in st.mask <=> depth[c] # 0
    /\ \A j \in Nat : 0 < j /\ j <= depth[c] =>
         /\ Entry(st.cells, c, chain[c][j])
         /\ st.cells[HeadLink(chain[c][j])] = chain[c][j - 1]

Divided(st, kind, rank, depth, chain) ==
  /\ \A c \in Classes : \A j \in Nat : 0 < j /\ j <= depth[c] =>
       Holds(kind, rank, c, j, HeadStart(chain[c][j]), HeadCells(st.cells, c, chain[c][j]))
  /\ \A i \in DOMAIN st.cells : kind[i] \in Classes => 0 < rank[i] /\ rank[i] <= depth[kind[i]]

Filed(st, kind, rank, depth, chain) ==
  /\ Shape(st) /\ Ghosts(st, kind, rank, depth, chain)
  /\ Threaded(st, depth, chain) /\ Divided(st, kind, rank, depth, chain)

\* A class holds at least one cell.
LEMMA ClassCellsType ==
    ASSUME NEW c \in Classes
    PROVE  ClassCells(c) \in Nat /\ ClassCells(c) > 0
BY ClassPower DEF ClassCells

\* Where a block begins, it has its link and its size in cells of its own.
LEMMA EntryInside ==
    ASSUME NEW cells, NEW c \in Classes, NEW h, Entry(cells, c, h)
    PROVE  /\ HeadStart(h) \in Nat /\ HeadCells(cells, c, h) \in Nat
           /\ HeadLink(h) \in Int /\ HeadStart(h) <= HeadLink(h)
           /\ HeadLink(h) < HeadStart(h) + HeadCells(cells, c, h)
           /\ HeadCells(cells, c, h) > 0
           /\ h < 0 => Complement(h) = HeadStart(h) /\ HeadLink(h) = HeadStart(h) + 1
BY ClassCellsType DEF Entry, HeadStart, HeadLink, HeadCells, Complement

\* What happens to cells that are on no free list, and to their owners, is no
\* business of the free lists.
LEMMA FreeCellsKeepFiled ==
    ASSUME NEW st, NEW kind, NEW rank, NEW depth, NEW chain, NEW st2, NEW kind2, NEW rank2,
           Filed(st, kind, rank, depth, chain), Shape(st2),
           Ghosts(st2, kind2, rank2, depth, chain),
           \A i \in DOMAIN st.cells : kind[i] \in Classes =>
             /\ i \in DOMAIN st2.cells /\ st2.cells[i] = st.cells[i]
             /\ kind2[i] = kind[i] /\ rank2[i] = rank[i],
           \A i \in DOMAIN st2.cells : kind2[i] \in Classes =>
             i \in DOMAIN st.cells /\ kind2[i] = kind[i] /\ rank2[i] = rank[i],
           st2.heads = st.heads, st2.mask = st.mask
    PROVE  Filed(st2, kind2, rank2, depth, chain)
<1>1. DOMAIN kind = DOMAIN st.cells /\ DOMAIN kind2 = DOMAIN st2.cells
  BY DEF Filed, Ghosts
<1>2. ASSUME NEW c \in Classes, NEW j \in Nat, 0 < j, j <= depth[c], NEW h, h = chain[c][j]
      PROVE  /\ Entry(st2.cells, c, h) /\ st2.cells[HeadLink(h)] = st.cells[HeadLink(h)]
             /\ HeadCells(st2.cells, c, h) = HeadCells(st.cells, c, h)
             /\ Holds(kind2, rank2, c, j, HeadStart(h), HeadCells(st2.cells, c, h))
  <2>1. Entry(st.cells, c, h)
        /\ Holds(kind, rank, c, j, HeadStart(h), HeadCells(st.cells, c, h))
    BY <1>2 DEF Filed, Threaded, Divided
  <2>2. ASSUME NEW i \in Int, HeadStart(h) <= i, i < HeadStart(h) + HeadCells(st.cells, c, h)
        PROVE  st2.cells[i] = st.cells[i]
    <3>1. i \in DOMAIN kind /\ kind[i] = c
      BY <2>1, <2>2 DEF Holds
    <3>2. QED
      BY <3>1, <1>1
  <2>3. st2.cells[HeadLink(h)] = st.cells[HeadLink(h)]
    BY <2>1, <2>2, EntryInside
  <2>4. h < 0 => st2.cells[Complement(h)] = st.cells[Complement(h)]
    <3>1. HeadStart(h) \in Int /\ HeadCells(st.cells, c, h) > 0 /\ HeadCells(st.cells, c, h) \in Nat
      BY <2>1, EntryInside
    <3>2. st2.cells[HeadStart(h)] = st.cells[HeadStart(h)]
      BY <3>1, <2>2
    <3>3. QED
      BY <3>2, <2>1, EntryInside
  <2>5. Entry(st2.cells, c, h) /\ HeadCells(st2.cells, c, h) = HeadCells(st.cells, c, h)
    BY <2>1, <2>4 DEF Entry, HeadCells
  <2>6. \A i : (i \in DOMAIN kind /\ kind[i] = c /\ rank[i] = j)
                 <=> (i \in DOMAIN kind2 /\ kind2[i] = c /\ rank2[i] = j)
    BY <1>1
  <2>7. Holds(kind2, rank2, c, j, HeadStart(h), HeadCells(st2.cells, c, h))
    BY <2>1, <2>5, <2>6 DEF Holds
  <2>8. QED
    BY <2>3, <2>5, <2>7
<1>3. Threaded(st2, depth, chain)
  BY <1>2 DEF Filed, Threaded
<1>4. Divided(st2, kind2, rank2, depth, chain)
  BY <1>2 DEF Filed, Divided
<1>5. QED
  BY <1>3, <1>4 DEF Filed

\* In particular such cells may be written.
LEMMA WritesKeepFiled ==
    ASSUME NEW st, NEW kind, NEW rank, NEW depth, NEW chain, NEW st2,
           Filed(st, kind, rank, depth, chain), Shape(st2),
           DOMAIN st2.cells = DOMAIN st.cells,
           \A i \in DOMAIN st.cells : kind[i] \in Classes => st2.cells[i] = st.cells[i],
           st2.heads = st.heads, st2.mask = st.mask
    PROVE  Filed(st2, kind, rank, depth, chain)
<1>1. Ghosts(st2, kind, rank, depth, chain)
  BY DEF Filed, Ghosts
<1>2. QED
  BY <1>1, FreeCellsKeepFiled

\* The function f with another value at x.
Updated(f, x, v) == [f EXCEPT ![x] = v]

\* Who owns the cells after all those of one owner went to another.
Handed(cells, of, kind, rank, k1, r1, new) ==
  [i \in DOMAIN cells |-> IF kind[i] = k1 /\ rank[i] = r1 THEN new ELSE of[i]]

\* The cells of one owner go to another that had none; nobody else notices.
LEMMA HandedOver ==
    ASSUME NEW cells, NEW kind \in [DOMAIN cells -> Int], NEW rank \in [DOMAIN cells -> Int],
           NEW k1 \in Int, NEW r1 \in Int, NEW k2 \in Int, NEW r2 \in Int,
           \A i \in DOMAIN cells : ~(kind[i] = k2 /\ rank[i] = r2),
           NEW kind2, kind2 = Handed(cells, kind, kind, rank, k1, r1, k2),
           NEW rank2, rank2 = Handed(cells, rank, kind, rank, k1, r1, r2)
    PROVE  /\ kind2 \in [DOMAIN cells -> Int] /\ rank2 \in [DOMAIN cells -> Int]
           /\ \A i \in DOMAIN cells : (kind2[i] = k2 /\ rank2[i] = r2)
                                        <=> (kind[i] = k1 /\ rank[i] = r1)
           /\ \A i \in DOMAIN cells : kind2[i] # k2 \/ rank2[i] # r2 =>
                kind2[i] = kind[i] /\ rank2[i] = rank[i]
           /\ \A a, n : Holds(kind, rank, k1, r1, a, n) => Holds(kind2, rank2, k2, r2, a, n)
           /\ \A k, r, a, n : Holds(kind, rank, k, r, a, n) /\ ~(k = k1 /\ r = r1)
                /\ ~(k = k2 /\ r = r2) => Holds(kind2, rank2, k, r, a, n)
<1>1. kind2 \in [DOMAIN cells -> Int] /\ rank2 \in [DOMAIN cells -> Int]
  BY DEF Handed
<1>2. \A i \in DOMAIN cells : (kind2[i] = k2 /\ rank2[i] = r2)
                                        <=> (kind[i] = k1 /\ rank[i] = r1)
  BY DEF Handed
<1>3. \A i \in DOMAIN cells : kind2[i] # k2 \/ rank2[i] # r2 =>
                kind2[i] = kind[i] /\ rank2[i] = rank[i]
  BY DEF Handed
<1>4. DOMAIN kind = DOMAIN cells /\ DOMAIN rank = DOMAIN cells
      /\ DOMAIN kind2 = DOMAIN cells /\ DOMAIN rank2 = DOMAIN cells
  BY <1>1
<1>5. \A a, n : Holds(kind, rank, k1, r1, a, n) => Holds(kind2, rank2, k2, r2, a, n)
  BY <1>2, <1>4 DEF Holds
<1>6. \A i \in DOMAIN cells : \A k, r : ~(k = k1 /\ r = r1) /\ ~(k = k2 /\ r = r2) =>
        ((kind2[i] = k /\ rank2[i] = r) <=> (kind[i] = k /\ rank[i] = r))
  BY <1>2, <1>3
<1>7. \A k, r, a, n : Holds(kind, rank, k, r, a, n) /\ ~(k = k1 /\ r = r1)
                /\ ~(k = k2 /\ r = r2) => Holds(kind2, rank2, k, r, a, n)
  BY <1>6, <1>4 DEF Holds
<1>8. QED
  BY <1>1, <1>2, <1>3, <1>5, <1>7

\* Taking the first block off a free list.
LEMMA UnfileKeepsFiled ==
    ASSUME NEW st, NEW kind, NEW rank, NEW depth, NEW chain, NEW st2,
           Filed(st, kind, rank, depth, chain), Shape(st2), st2.cells = st.cells,
           NEW c \in Classes, NEW d \in Nat, d = depth[c], 0 < d,
           NEW h, h = chain[c][d],
           NEW k \in Int, k \notin Classes, NEW r \in Int,
           \A i \in DOMAIN st.cells : ~(kind[i] = k /\ rank[i] = r),
           NEW e \in Nat, e = d - 1, NEW next, next = chain[c][e],
           st2.heads = Updated(st.heads, c, next),
           next = 0 => st2.mask = st.mask \ {c}, next # 0 => st2.mask = st.mask,
           NEW kind2, kind2 = Handed(st.cells, kind, kind, rank, c, d, k),
           NEW rank2, rank2 = Handed(st.cells, rank, kind, rank, c, d, r),
           NEW depth2, depth2 = Updated(depth, c, e)
    PROVE  /\ Filed(st2, kind2, rank2, depth2, chain)
           /\ Holds(kind2, rank2, k, r, HeadStart(h), HeadCells(st.cells, c, h))
           /\ Entry(st.cells, c, h)
<1>a. Shape(st) /\ Ghosts(st, kind, rank, depth, chain)
      /\ Threaded(st, depth, chain) /\ Divided(st, kind, rank, depth, chain)
  BY DEF Filed
<1>0. c \in Int /\ kind \in [DOMAIN st.cells -> Int] /\ rank \in [DOMAIN st.cells -> Int]
  BY <1>a, ClassPower DEF Ghosts
<1>1. /\ kind2 \in [DOMAIN st.cells -> Int] /\ rank2 \in [DOMAIN st.cells -> Int]
      /\ \A i \in DOMAIN st.cells : (kind2[i] = k /\ rank2[i] = r)
                                        <=> (kind[i] = c /\ rank[i] = d)
      /\ \A i \in DOMAIN st.cells : kind2[i] # k \/ rank2[i] # r =>
                kind2[i] = kind[i] /\ rank2[i] = rank[i]
      /\ \A a, n : Holds(kind, rank, c, d, a, n) => Holds(kind2, rank2, k, r, a, n)
      /\ \A k0, r0, a, n : Holds(kind, rank, k0, r0, a, n) /\ ~(k0 = c /\ r0 = d)
                /\ ~(k0 = k /\ r0 = r) => Holds(kind2, rank2, k0, r0, a, n)
  BY <1>0, HandedOver
<1>2. depth2 \in [Classes -> Nat] /\ depth2[c] = d - 1
      /\ \A z \in Classes : z # c => depth2[z] = depth[z]
  BY <1>a DEF Ghosts, Updated
<1>3. \A z \in Classes : \A j \in Nat : 0 < j /\ j <= depth2[z] =>
        j <= depth[z] /\ ~(z = c /\ j = d)
  BY <1>2
<1>4. Ghosts(st2, kind2, rank2, depth2, chain)
  BY <1>a, <1>1, <1>2 DEF Ghosts
<1>5. Threaded(st2, depth2, chain)
  <2>1. ASSUME NEW z \in Classes
        PROVE  st2.heads[z] = chain[z][depth2[z]]
    BY <2>1, <1>a, <1>2 DEF Threaded, Shape, Updated
  <2>2. chain[c][d - 1] = 0 <=> d - 1 = 0
    <3>1. CASE d - 1 = 0
      BY <3>1, <1>a DEF Threaded
    <3>2. CASE d - 1 # 0
      <4>1. d - 1 \in Nat /\ 0 < d - 1 /\ d - 1 <= depth[c]
        BY <3>2
      <4>2. Entry(st.cells, c, chain[c][d - 1])
        BY <4>1, <1>a DEF Threaded
      <4>3. QED
        BY <4>2, <3>2 DEF Entry
    <3>3. QED
      BY <3>1, <3>2
  <2>3. ASSUME NEW z \in Classes
        PROVE  z \in st2.mask <=> depth2[z] # 0
    <3>1. z \in st.mask <=> depth[z] # 0
      BY <1>a DEF Threaded
    <3>2. QED
      BY <3>1, <2>2, <1>2
  <2>4. QED
    BY <2>1, <2>3, <1>3, <1>a DEF Threaded
<1>6. Divided(st2, kind2, rank2, depth2, chain)
  <2>1. ASSUME NEW z \in Classes, NEW j \in Nat, 0 < j, j <= depth2[z]
        PROVE  Holds(kind2, rank2, z, j, HeadStart(chain[z][j]), HeadCells(st2.cells, z, chain[z][j]))
    <3>1. j <= depth[z] /\ ~(z = c /\ j = d) /\ z # k
      BY <1>3, <2>1
    <3>2. Holds(kind, rank, z, j, HeadStart(chain[z][j]), HeadCells(st.cells, z, chain[z][j]))
      BY <3>1, <2>1, <1>a DEF Divided
    <3>3. QED
      BY <3>1, <3>2, <1>1
  <2>2. ASSUME NEW i \in DOMAIN st.cells, kind2[i] \in Classes
        PROVE  0 < rank2[i] /\ rank2[i] <= depth2[kind2[i]]
    <3>1. kind2[i] = kind[i] /\ rank2[i] = rank[i] /\ ~(kind[i] = c /\ rank[i] = d)
      BY <2>2, <1>1
    <3>2. 0 < rank[i] /\ rank[i] <= depth[kind[i]] /\ rank[i] \in Int
      BY <3>1, <2>2, <1>a DEF Divided, Ghosts
    <3>3. QED
      BY <3>1, <3>2, <1>2, <2>2
  <2>3. QED
    BY <2>1, <2>2 DEF Divided
<1>7. Entry(st.cells, c, h) /\ Holds(kind, rank, c, d, HeadStart(h), HeadCells(st.cells, c, h))
  BY <1>a DEF Threaded, Divided
<1>8. QED
  BY <1>1, <1>4, <1>5, <1>6, <1>7 DEF Filed

\* Putting a block first on a free list: its link says what was first.
LEMMA FileKeepsFiled ==
    ASSUME NEW st, NEW kind, NEW rank, NEW depth, NEW chain, NEW st2,
           Filed(st, kind, rank, depth, chain), Shape(st2), st2.cells = st.cells,
           NEW c \in Classes, NEW d \in Nat, d = depth[c] + 1,
           NEW h, Entry(st.cells, c, h), st.cells[HeadLink(h)] = st.heads[c],
           NEW k \in Int, k \notin Classes, NEW r \in Int,
           Holds(kind, rank, k, r, HeadStart(h), HeadCells(st.cells, c, h)),
           st2.heads = Updated(st.heads, c, h), st2.mask = st.mask \cup {c},
           NEW kind2, kind2 = Handed(st.cells, kind, kind, rank, k, r, c),
           NEW rank2, rank2 = Handed(st.cells, rank, kind, rank, k, r, d),
           NEW depth2, depth2 = Updated(depth, c, d),
           NEW chain2, chain2 = Updated(chain, c, Updated(chain[c], d, h))
    PROVE  Filed(st2, kind2, rank2, depth2, chain2)
<1>a. Shape(st) /\ Ghosts(st, kind, rank, depth, chain)
      /\ Threaded(st, depth, chain) /\ Divided(st, kind, rank, depth, chain)
  BY DEF Filed
<1>0. c \in Int /\ h \in Int /\ h # 0
  BY ClassPower DEF Entry
<1>b. \A i \in DOMAIN st.cells : ~(kind[i] = c /\ rank[i] = d)
  <2>1. ASSUME NEW i \in DOMAIN st.cells, kind[i] = c, rank[i] = d
        PROVE  FALSE
    <3>1. rank[i] <= depth[c] /\ depth[c] \in Nat
      BY <2>1, <1>a DEF Divided, Ghosts
    <3>2. QED
      BY <3>1, <2>1
  <2>2. QED
    BY <2>1
<1>1. /\ kind2 \in [DOMAIN st.cells -> Int] /\ rank2 \in [DOMAIN st.cells -> Int]
      /\ \A i \in DOMAIN st.cells : (kind2[i] = c /\ rank2[i] = d)
                                        <=> (kind[i] = k /\ rank[i] = r)
      /\ \A i \in DOMAIN st.cells : kind2[i] # c \/ rank2[i] # d =>
                kind2[i] = kind[i] /\ rank2[i] = rank[i]
      /\ \A a, n : Holds(kind, rank, k, r, a, n) => Holds(kind2, rank2, c, d, a, n)
      /\ \A k0, r0, a, n : Holds(kind, rank, k0, r0, a, n) /\ ~(k0 = k /\ r0 = r)
                /\ ~(k0 = c /\ r0 = d) => Holds(kind2, rank2, k0, r0, a, n)
  BY <1>a, <1>0, <1>b, HandedOver DEF Ghosts
<1>2. depth2 \in [Classes -> Nat] /\ depth2[c] = d /\ depth[c] \in Nat
      /\ \A e \in Classes : e # c => depth2[e] = depth[e]
  BY <1>a DEF Ghosts, Updated
<1>3. /\ chain2 \in [Classes -> [Nat -> Int]] /\ chain2[c][d] = h
      /\ \A e \in Classes : \A j \in Nat : ~(e = c /\ j = d) => chain2[e][j] = chain[e][j]
  BY <1>a, <1>0 DEF Ghosts, Updated
<1>4. Ghosts(st2, kind2, rank2, depth2, chain2)
  BY <1>a, <1>1, <1>2, <1>3 DEF Ghosts
<1>5. Threaded(st2, depth2, chain2)
  <2>1. ASSUME NEW e \in Classes
        PROVE  st2.heads[e] = chain2[e][depth2[e]]
    <3>1. CASE e = c
      BY <3>1, <1>a, <1>2, <1>3 DEF Shape, Updated
    <3>2. CASE e # c
      <4>1. depth2[e] = depth[e] /\ depth[e] \in Nat
        BY <3>2, <1>2, <1>a DEF Ghosts
      <4>2. chain2[e][depth2[e]] = chain[e][depth[e]]
        BY <4>1, <1>3, <3>2
      <4>3. st2.heads[e] = st.heads[e]
        BY <3>2, <1>a DEF Shape, Updated
      <4>4. QED
        BY <4>2, <4>3, <1>a DEF Threaded
    <3>3. QED
      BY <3>1, <3>2
  <2>2. ASSUME NEW e \in Classes
        PROVE  chain2[e][0] = 0 /\ (e \in st2.mask <=> depth2[e] # 0)
    <3>1. (e \in st.mask <=> depth[e] # 0) /\ chain[e][0] = 0
      BY <1>a DEF Threaded
    <3>2. 0 \in Nat /\ d # 0
      BY <1>2
    <3>3. chain2[e][0] = chain[e][0]
      BY <1>3, <3>2
    <3>4. QED
      BY <3>1, <3>3, <1>2
  <2>3. ASSUME NEW e \in Classes, NEW j \in Nat, 0 < j, j <= depth2[e]
        PROVE  /\ Entry(st2.cells, e, chain2[e][j])
               /\ st2.cells[HeadLink(chain2[e][j])] = chain2[e][j - 1]
    <3>1. j - 1 \in Nat /\ chain2[e][j - 1] = chain[e][j - 1]
      BY <2>3, <1>2, <1>3
    <3>2. CASE e = c /\ j = d
      <4>1. st.heads[c] = chain[c][d - 1]
        BY <1>a, <1>2 DEF Threaded
      <4>2. QED
        BY <3>1, <3>2, <4>1, <1>3
    <3>3. CASE ~(e = c /\ j = d)
      <4>1. j <= depth[e] /\ chain2[e][j] = chain[e][j]
        BY <3>3, <2>3, <1>2, <1>3
      <4>2. QED
        BY <4>1, <3>1, <2>3, <1>a DEF Threaded
    <3>4. QED
      BY <3>2, <3>3
  <2>4. QED
    BY <2>1, <2>2, <2>3 DEF Threaded
<1>6. Divided(st2, kind2, rank2, depth2, chain2)
  <2>1. ASSUME NEW e \in Classes, NEW j \in Nat, 0 < j, j <= depth2[e]
        PROVE  Holds(kind2, rank2, e, j, HeadStart(chain2[e][j]), HeadCells(st2.cells, e, chain2[e][j]))
    <3>1. CASE e = c /\ j = d
      BY <3>1, <1>1, <1>3
    <3>2. CASE ~(e = c /\ j = d)
      <4>1. j <= depth[e] /\ chain2[e][j] = chain[e][j] /\ e # k
        BY <3>2, <2>1, <1>2, <1>3
      <4>2. Holds(kind, rank, e, j, HeadStart(chain[e][j]), HeadCells(st.cells, e, chain[e][j]))
        BY <4>1, <2>1, <1>a DEF Divided
      <4>3. QED
        BY <4>1, <4>2, <3>2, <1>1
    <3>3. QED
      BY <3>1, <3>2
  <2>2. ASSUME NEW i \in DOMAIN st.cells, kind2[i] \in Classes
        PROVE  0 < rank2[i] /\ rank2[i] <= depth2[kind2[i]]
    <3>1. CASE kind2[i] = c /\ rank2[i] = d
      BY <3>1, <1>2
    <3>2. CASE ~(kind2[i] = c /\ rank2[i] = d)
      <4>1. kind2[i] = kind[i] /\ rank2[i] = rank[i]
        BY <3>2, <1>1
      <4>2. 0 < rank[i] /\ rank[i] <= depth[kind[i]] /\ rank[i] \in Int
        BY <4>1, <2>2, <1>a DEF Divided, Ghosts
      <4>3. QED
        BY <4>1, <4>2, <1>2, <2>2
    <3>3. QED
      BY <3>1, <3>2
  <2>3. QED
    BY <2>1, <2>2 DEF Divided
<1>7. QED
  BY <1>4, <1>5, <1>6 DEF Filed

\* What is on no free list, and not of the one owner, stays where it is, and as
\* it is.
Kept(st, kind, rank, st2, kind2, rank2, k, r) ==
  \A i \in Int, k0 \in Int, r0 \in Int : k0 \notin Classes /\ ~(k0 = k /\ r0 = r) =>
    /\ (i \in DOMAIN kind /\ kind[i] = k0 /\ rank[i] = r0)
         <=> (i \in DOMAIN kind2 /\ kind2[i] = k0 /\ rank2[i] = r0)
    /\ (i \in DOMAIN kind /\ kind[i] = k0 /\ rank[i] = r0) => st2.cells[i] = st.cells[i]

\* PushFree, field by field.
LEMMA PushFreeIs ==
    ASSUME NEW st, Shape(st), NEW class \in Classes, NEW index \in Int,
           NEW m, m = Magnitude(index), NEW h, h = IF index < 0 THEN index ELSE index + 1,
           NEW p, p = PushFree(st, class, index)
    PROVE  /\ Shape(p) /\ p.expected = st.expected
           /\ p.cells = [st.cells EXCEPT ![m] = st.heads[class]]
           /\ p.heads = Updated(st.heads, class, h)
           /\ p.mask = st.mask \cup {class}
<1>1. p = [cells |-> [st.cells EXCEPT ![m] = st.heads[class]],
           heads |-> Updated(st.heads, class, h),
           mask |-> st.mask \cup {class}, expected |-> st.expected]
  BY DEF PushFree, Shape, Updated
<1>2. Shape(p)
  BY <1>1 DEF Shape, Updated
<1>3. QED
  BY <1>1, <1>2

\* Blank, field by field.
LEMMA BlankIs ==
    ASSUME NEW st, Shape(st), NEW at, NEW n, NEW p, p = Blank(st, at, n)
    PROVE  /\ Shape(p) /\ p.expected = st.expected /\ p.heads = st.heads /\ p.mask = st.mask
           /\ DOMAIN p.cells = DOMAIN st.cells
           /\ \A i \in DOMAIN st.cells :
                p.cells[i] = IF i \in at .. at + n - 1 THEN Junk ELSE st.cells[i]
<1>1. p = [cells |-> [i \in DOMAIN st.cells |-> IF i \in at .. at + n - 1 THEN Junk ELSE st.cells[i]],
           heads |-> st.heads, mask |-> st.mask, expected |-> st.expected]
  BY DEF Blank, Shape
<1>2. Shape(p)
  BY <1>1 DEF Shape
<1>3. QED
  BY <1>1, <1>2

\* Another function of cells on the same domain.
LEMMA CellsWritten ==
    ASSUME NEW st, Shape(st), NEW cs, DOMAIN cs = DOMAIN st.cells,
           cs = [i \in DOMAIN cs |-> cs[i]], NEW p, p = [st EXCEPT !.cells = cs]
    PROVE  /\ Shape(p) /\ p.expected = st.expected /\ p.heads = st.heads /\ p.mask = st.mask
           /\ p.cells = cs
<1>1. p = [cells |-> cs, heads |-> st.heads, mask |-> st.mask, expected |-> st.expected]
  BY DEF Shape
<1>2. Shape(p)
  BY <1>1 DEF Shape
<1>3. QED
  BY <1>1, <1>2

\* Where the link to a block of so many cells is filed, and how.
FiledAs(at, total) == IF total = 2^FloorClass(total) THEN at + 1 ELSE Complement(at)

\* Deallocate, field by field.
LEMMA DeallocateIs ==
    ASSUME NEW st, Shape(st), NEW begin \in Int, NEW capacity \in Nat,
           NEW at \in Nat, at = IF begin < 0 THEN Complement(begin) ELSE begin,
           NEW total \in Nat, total = IF begin < 0 THEN capacity + 1 ELSE capacity, 0 < total,
           \A i \in Int : at <= i /\ i < at + total => i \in DOMAIN st.cells,
           NEW class, class = FloorClass(total), NEW h, h = FiledAs(at, total),
           NEW p, p = Deallocate(st, begin, capacity)
    PROVE  /\ Shape(p) /\ p.expected = st.expected
           /\ DOMAIN p.cells = DOMAIN st.cells
           /\ p.heads = Updated(st.heads, class, h)
           /\ p.mask = st.mask \cup {class}
           /\ p.cells[HeadLink(h)] = st.heads[class]
           /\ Entry(p.cells, class, h)
           /\ HeadStart(h) = at /\ HeadCells(p.cells, class, h) = total
           /\ \A i \in DOMAIN st.cells : ~(at <= i /\ i < at + total) => p.cells[i] = st.cells[i]
<1>1. class \in Classes /\ 2^class <= total
  BY FloorClassIs
<1>2. PICK size \in Nat : size = 2^class /\ 0 < size /\ size <= total
  BY <1>1, ClassPower
<1>3. PICK erased : erased = Blank(st, at, total)
  OBVIOUS
<1>4. /\ Shape(erased) /\ erased.expected = st.expected /\ erased.heads = st.heads
      /\ erased.mask = st.mask /\ DOMAIN erased.cells = DOMAIN st.cells
      /\ \A i \in DOMAIN st.cells : ~(at <= i /\ i < at + total) => erased.cells[i] = st.cells[i]
  BY <1>3, BlankIs
<1>5. CASE total = size
  <2>0. total # 0 /\ total = 2^class /\ class = FloorClass(total)
    BY <1>5, <1>2
  <2>1. p = PushFree(erased, class, at) /\ h = at + 1
    BY <2>0, <1>3, Zenon DEF Deallocate, FiledAs
  <2>2. at = Magnitude(at)
    BY DEF Magnitude
  <2>3. /\ Shape(p) /\ p.expected = erased.expected
        /\ p.cells = [erased.cells EXCEPT ![at] = erased.heads[class]]
        /\ p.heads = Updated(erased.heads, class, h)
        /\ p.mask = erased.mask \cup {class}
    BY <2>1, <2>2, <1>4, <1>1, PushFreeIs
  <2>4. HeadStart(h) = at /\ HeadLink(h) = at /\ at \in DOMAIN st.cells
    BY <1>2, <1>5, <2>1 DEF HeadStart, HeadLink
  <2>5. Entry(p.cells, class, h)
    BY <2>1 DEF Entry
  <2>6. HeadCells(p.cells, class, h) = total
    BY <2>1, <1>5, <1>2 DEF HeadCells, ClassCells
  <2>7. \A i \in DOMAIN st.cells : ~(at <= i /\ i < at + total) => p.cells[i] = st.cells[i]
    BY <2>3, <2>4, <1>4
  <2>8. p.cells[HeadLink(h)] = st.heads[class]
    BY <2>3, <2>4, <1>4
  <2>9. QED
    BY <2>1, <2>3, <2>4, <2>5, <2>6, <2>7, <2>8, <1>4
<1>6. CASE total # size
  <2>1. PICK sized : sized = [erased EXCEPT !.cells[at] = total - 1]
    OBVIOUS
  <2>0. total # 0 /\ total # 2^class /\ class = FloorClass(total)
    BY <1>6, <1>2
  <2>2. p = PushFree(sized, class, Complement(at)) /\ h = Complement(at)
    BY <2>0, <1>3, <2>1, Zenon DEF Deallocate, FiledAs
  <2>3. PICK cs : cs = [erased.cells EXCEPT ![at] = total - 1]
    OBVIOUS
  <2>4. DOMAIN cs = DOMAIN erased.cells /\ cs = [i \in DOMAIN cs |-> cs[i]]
        /\ sized = [erased EXCEPT !.cells = cs]
    BY <2>1, <2>3, <1>4 DEF Shape
  <2>5. /\ Shape(sized) /\ sized.expected = erased.expected /\ sized.heads = erased.heads
        /\ sized.mask = erased.mask /\ sized.cells = cs
    BY <2>4, <1>4, CellsWritten
  <2>6. Complement(at) \in Int /\ at + 1 = Magnitude(Complement(at)) /\ Complement(at) < 0
    BY DEF Magnitude, Complement
  <2>7. /\ Shape(p) /\ p.expected = sized.expected
        /\ p.cells = [sized.cells EXCEPT ![at + 1] = sized.heads[class]]
        /\ p.heads = Updated(sized.heads, class, h)
        /\ p.mask = sized.mask \cup {class}
    <3>1. PICK index \in Int : index = Complement(at)
      BY <2>6
    <3>2. h = IF index < 0 THEN index ELSE index + 1
      BY <3>1, <2>2, <2>6
    <3>3. PICK m : m = Magnitude(index)
      OBVIOUS
    <3>4. p = PushFree(sized, class, index) /\ at + 1 = m
      BY <3>1, <3>3, <2>2, <2>6
    <3>5. /\ Shape(p) /\ p.expected = sized.expected
          /\ p.cells = [sized.cells EXCEPT ![m] = sized.heads[class]]
          /\ p.heads = Updated(sized.heads, class, h)
          /\ p.mask = sized.mask \cup {class}
      BY <3>2, <3>3, <3>4, <2>5, <1>1, PushFreeIs
    <3>6. QED
      BY <3>4, <3>5
  <2>8. HeadStart(h) = at /\ HeadLink(h) = at + 1 /\ Complement(h) = at /\ h \in Int /\ h < 0
    BY <2>2 DEF HeadStart, HeadLink, Complement
  <2>9. at \in DOMAIN st.cells /\ at + 1 \in DOMAIN st.cells
    BY <1>2, <1>6
  <2>10. p.cells[at] = total - 1 /\ p.cells[at + 1] = st.heads[class]
    BY <2>7, <2>5, <2>3, <2>9, <1>4
  <2>11. Entry(p.cells, class, h)
    <3>1. total - 1 \in Nat /\ (total - 1) + 1 = total /\ ClassCells(class) < total
      BY <1>2, <1>6 DEF ClassCells
    <3>2. QED
      BY <2>8, <2>10, <3>1 DEF Entry
  <2>12. HeadCells(p.cells, class, h) = total
    BY <2>8, <2>10 DEF HeadCells
  <2>13. \A i \in DOMAIN st.cells : ~(at <= i /\ i < at + total) => p.cells[i] = st.cells[i]
    BY <2>7, <2>5, <2>3, <1>4, <1>2, <1>6
  <2>14. QED
    BY <2>2, <2>4, <2>5, <2>7, <2>8, <2>10, <2>11, <2>12, <2>13, <1>4
<1>7. QED
  BY <1>5, <1>6

\* What a block begins with, and how many cells it has, from the two numbers
\* that are kept of it.
BlockAt(begin) == IF begin < 0 THEN Complement(begin) ELSE begin
BlockCells(begin, capacity) == IF begin < 0 THEN capacity + 1 ELSE capacity

\* What deallocate_connections does with the block of an owner.
Freed(st, kind, rank, p, k, r) ==
  \E kind2, rank2, depth2, chain2 :
    /\ Filed(p, kind2, rank2, depth2, chain2)
    /\ Kept(st, kind, rank, p, kind2, rank2, k, r)
    /\ \A i \in DOMAIN kind2 : ~(kind2[i] = k /\ rank2[i] = r)
    /\ p.expected = st.expected /\ DOMAIN p.cells = DOMAIN st.cells

\* deallocate_connections: a block of any owner goes on the free list of its
\* class, and nothing else changes hands.
LEMMA DeallocateKeepsFiled ==
    ASSUME NEW st, NEW kind, NEW rank, NEW depth, NEW chain, Filed(st, kind, rank, depth, chain),
           NEW begin \in Int, NEW capacity \in Nat,
           NEW at \in Nat, at = BlockAt(begin),
           NEW total \in Nat, total = BlockCells(begin, capacity),
           NEW k \in Int, k \notin Classes, NEW r \in Int, Holds(kind, rank, k, r, at, total),
           NEW p, p = Deallocate(st, begin, capacity)
    PROVE  Freed(st, kind, rank, p, k, r)
<1>a. Shape(st) /\ Ghosts(st, kind, rank, depth, chain)
  BY DEF Filed
<1>1. CASE total = 0
  <2>1. p = st
    BY <1>1 DEF Deallocate, BlockAt, BlockCells
  <2>2. \A i \in DOMAIN kind : ~(kind[i] = k /\ rank[i] = r)
    <3>1. \A i \in DOMAIN kind : i \in Int
      BY <1>a DEF Ghosts, Shape
    <3>2. QED
      BY <3>1, <1>1 DEF Holds
  <2>3. Kept(st, kind, rank, p, kind, rank, k, r)
    BY <2>1 DEF Kept
  <2>4. QED
    BY <2>1, <2>2, <2>3 DEF Freed
<1>2. CASE 0 < total
  <2>1. PICK class : class = FloorClass(total)
    OBVIOUS
  <2>2. PICK h : h = FiledAs(at, total)
    OBVIOUS
  <2>3. \A i \in Int : at <= i /\ i < at + total =>
          i \in DOMAIN st.cells /\ kind[i] = k /\ rank[i] = r
    BY <1>a DEF Ghosts, Holds
  <2>4. /\ Shape(p) /\ p.expected = st.expected
        /\ DOMAIN p.cells = DOMAIN st.cells
        /\ p.heads = Updated(st.heads, class, h)
        /\ p.mask = st.mask \cup {class}
        /\ p.cells[HeadLink(h)] = st.heads[class]
        /\ Entry(p.cells, class, h)
        /\ HeadStart(h) = at /\ HeadCells(p.cells, class, h) = total
        /\ \A i \in DOMAIN st.cells : ~(at <= i /\ i < at + total) => p.cells[i] = st.cells[i]
    BY <1>2, <1>a, <2>1, <2>2, <2>3, DeallocateIs DEF BlockAt, BlockCells
  <2>5. class \in Classes
    BY <1>2, <2>1, FloorClassIs
  <2>6. PICK st1 : st1 = [st EXCEPT !.cells = p.cells]
    OBVIOUS
  <2>7. /\ Shape(st1) /\ st1.expected = st.expected /\ st1.heads = st.heads
        /\ st1.mask = st.mask /\ st1.cells = p.cells
    <3>1. p.cells = [i \in DOMAIN p.cells |-> p.cells[i]]
      BY <2>4 DEF Shape
    <3>2. QED
      BY <3>1, <2>4, <2>6, <1>a, CellsWritten
  <2>8. \A i \in DOMAIN st.cells : ~(kind[i] = k /\ rank[i] = r) => p.cells[i] = st.cells[i]
    <3>1. \A i \in DOMAIN st.cells : i \in Int
      BY <1>a DEF Shape
    <3>2. QED
      BY <3>1, <2>3, <2>4
  <2>9. Filed(st1, kind, rank, depth, chain)
    <3>1. \A i \in DOMAIN st.cells : kind[i] \in Classes => st1.cells[i] = st.cells[i]
      BY <2>7, <2>8
    <3>2. QED
      BY <3>1, <2>7, <2>4, WritesKeepFiled
  <2>10. PICK d \in Nat : d = depth[class] + 1
    BY <1>a, <2>5 DEF Ghosts
  <2>11. PICK kind2 : kind2 = Handed(st1.cells, kind, kind, rank, k, r, class)
    OBVIOUS
  <2>12. PICK rank2 : rank2 = Handed(st1.cells, rank, kind, rank, k, r, d)
    OBVIOUS
  <2>13. PICK depth2 : depth2 = Updated(depth, class, d)
    OBVIOUS
  <2>14. PICK chain2 : chain2 = Updated(chain, class, Updated(chain[class], d, h))
    OBVIOUS
  <2>15. Filed(p, kind2, rank2, depth2, chain2)
    <3>1. /\ Entry(st1.cells, class, h) /\ st1.cells[HeadLink(h)] = st1.heads[class]
          /\ Holds(kind, rank, k, r, HeadStart(h), HeadCells(st1.cells, class, h))
          /\ p.heads = Updated(st1.heads, class, h) /\ p.mask = st1.mask \cup {class}
          /\ p.cells = st1.cells /\ Shape(p)
      BY <2>4, <2>7
    <3>2. QED
      BY <3>1, <2>5, <2>9, <2>10, <2>11, <2>12, <2>13, <2>14, FileKeepsFiled
  <2>16. DOMAIN kind = DOMAIN st.cells /\ DOMAIN kind2 = DOMAIN st.cells
         /\ DOMAIN st1.cells = DOMAIN st.cells
    BY <1>a, <2>4, <2>7, <2>11 DEF Ghosts, Handed
  <2>17. \A i \in DOMAIN st.cells :
           IF kind[i] = k /\ rank[i] = r THEN kind2[i] = class
           ELSE kind2[i] = kind[i] /\ rank2[i] = rank[i]
    BY <2>11, <2>12, <2>16 DEF Handed
  <2>18. \A i \in DOMAIN kind2 : ~(kind2[i] = k /\ rank2[i] = r)
    BY <2>16, <2>17, <2>5
  <2>19. Kept(st, kind, rank, p, kind2, rank2, k, r)
    BY <2>16, <2>17, <2>5, <2>8 DEF Kept
  <2>20. QED
    BY <2>4, <2>15, <2>18, <2>19 DEF Freed
<1>3. QED
  BY <1>1, <1>2

\* What the caller of allocate_connections may rely on.
Handing(st, want, implicit) ==
  /\ want \in Nat /\ 0 < want /\ implicit \in BOOLEAN
  /\ (IF implicit THEN want ELSE want + 1) <= 2^MaxClass
  /\ implicit => IsPowerOfTwo(want)

\* A block that can hold as many connections as were wanted; one without a size
\* cell is exactly as large as was wanted.
Fresh(r, want, implicit) ==
  /\ r.begin \in Int /\ r.capacity \in Nat /\ want <= r.capacity
  /\ r.begin >= 0 => implicit /\ r.capacity = want
  /\ r.begin < 0 => /\ Complement(r.begin) \in DOMAIN r.store.cells
                    /\ r.store.cells[Complement(r.begin)] = r.capacity

\* What allocate_connections does for an owner that had nothing.
Allocated(st, kind, rank, r, want, implicit, k, x) ==
  \E kind2, rank2, depth2, chain2 :
    /\ Filed(r.store, kind2, rank2, depth2, chain2)
    /\ Kept(st, kind, rank, r.store, kind2, rank2, k, x)
    /\ Holds(kind2, rank2, k, x, BlockAt(r.begin), BlockCells(r.begin, r.capacity))
    /\ Fresh(r, want, implicit) /\ r.store.expected = st.expected

\* More cells at the end.
LEMMA GrowthKeepsFiled ==
    ASSUME NEW st, NEW kind, NEW rank, NEW depth, NEW chain, NEW st2,
           Filed(st, kind, rank, depth, chain), Shape(st2),
           NEW n \in Nat, DOMAIN st.cells = 0 .. n - 1,
           NEW m \in Nat, DOMAIN st2.cells = 0 .. n + m - 1,
           \A i \in 0 .. n - 1 : st2.cells[i] = st.cells[i],
           st2.heads = st.heads, st2.mask = st.mask,
           NEW k \in Int, k \notin Classes, NEW x \in Int,
           \A i \in DOMAIN st.cells : ~(kind[i] = k /\ rank[i] = x)
    PROVE  \E kind2, rank2 :
             /\ Filed(st2, kind2, rank2, depth, chain)
             /\ Kept(st, kind, rank, st2, kind2, rank2, k, x)
             /\ Holds(kind2, rank2, k, x, n, m)
<1>1. PICK kind2 : kind2 = [i \in 0 .. n + m - 1 |-> IF i < n THEN kind[i] ELSE k]
  OBVIOUS
<1>2. PICK rank2 : rank2 = [i \in 0 .. n + m - 1 |-> IF i < n THEN rank[i] ELSE x]
  OBVIOUS
<1>3. kind \in [0 .. n - 1 -> Int] /\ rank \in [0 .. n - 1 -> Int]
  BY DEF Filed, Ghosts
<1>4. kind2 \in [0 .. n + m - 1 -> Int] /\ rank2 \in [0 .. n + m - 1 -> Int]
  <2>1. \A i \in 0 .. n + m - 1 : i < n => i \in 0 .. n - 1
    OBVIOUS
  <2>2. QED
    BY <2>1, <1>1, <1>2, <1>3
<1>5. Ghosts(st2, kind2, rank2, depth, chain)
  BY <1>4 DEF Filed, Ghosts
<1>6. \A i \in 0 .. n - 1 : i \in 0 .. n + m - 1 /\ kind2[i] = kind[i] /\ rank2[i] = rank[i]
  BY <1>1, <1>2
<1>7. \A i \in 0 .. n + m - 1 : i \notin 0 .. n - 1 => kind2[i] = k /\ rank2[i] = x
  BY <1>1, <1>2
<1>8. Filed(st2, kind2, rank2, depth, chain)
  BY <1>5, <1>6, <1>7, FreeCellsKeepFiled
<1>9. DOMAIN kind = 0 .. n - 1 /\ DOMAIN kind2 = 0 .. n + m - 1
  BY <1>3, <1>4
<1>10. Kept(st, kind, rank, st2, kind2, rank2, k, x)
  BY <1>6, <1>7, <1>9 DEF Kept
<1>11. Holds(kind2, rank2, k, x, n, m)
  BY <1>6, <1>7, <1>9, SMTT(20) DEF Holds
<1>12. QED
  BY <1>8, <1>10, <1>11

\* As many cells as their numbers say.
LEMMA CellCount ==
    ASSUME NEW n \in Nat
    PROVE  Cardinality(0 .. n - 1) = n /\ IsFiniteSet(0 .. n - 1)
BY FS_Interval

\* Grown, field by field.
LEMMA GrownIs ==
    ASSUME NEW st, Shape(st), NEW n \in Nat, DOMAIN st.cells = 0 .. n - 1, NEW m \in Nat,
           NEW p, p = Grown(st, m)
    PROVE  /\ Shape(p) /\ p.expected = st.expected /\ p.heads = st.heads /\ p.mask = st.mask
           /\ DOMAIN p.cells = 0 .. n + m - 1
           /\ \A i \in 0 .. n - 1 : p.cells[i] = st.cells[i]
<1>1. Cardinality(DOMAIN st.cells) = n
  BY CellCount
<1>2. p = [cells |-> [i \in 0 .. n + m - 1 |-> IF i < n THEN st.cells[i] ELSE Junk],
           heads |-> st.heads, mask |-> st.mask, expected |-> st.expected]
  BY <1>1 DEF Grown, Shape
<1>3. n + m \in Nat
  OBVIOUS
<1>4. Shape(p)
  BY <1>2, <1>3 DEF Shape
<1>5. QED
  BY <1>2, <1>4

\* A block from the end of the vector.
LEMMA FromEndAllocates ==
    ASSUME NEW st, NEW kind, NEW rank, NEW depth, NEW chain, Filed(st, kind, rank, depth, chain),
           NEW want, NEW implicit, Handing(st, want, implicit),
           NEW k \in Int, k \notin Classes, NEW x \in Int,
           \A i \in DOMAIN st.cells : ~(kind[i] = k /\ rank[i] = x),
           NEW r, r = FromEnd(st, want, implicit)
    PROVE  Allocated(st, kind, rank, r, want, implicit, k, x)
<1>1. Shape(st) /\ want \in Nat /\ 0 < want /\ implicit \in BOOLEAN
  BY DEF Filed, Handing
<1>2. PICK n \in Nat : DOMAIN st.cells = 0 .. n - 1
  BY <1>1 DEF Shape
<1>3. Cardinality(DOMAIN st.cells) = n
  BY <1>2, CellCount
<1>4. CASE implicit
  <2>1. PICK p : p = Grown(st, want)
    OBVIOUS
  <2>2. r = [store |-> p, begin |-> n, capacity |-> want]
    BY <1>3, <1>4, <2>1 DEF FromEnd
  <2>3. /\ Shape(p) /\ p.expected = st.expected /\ p.heads = st.heads /\ p.mask = st.mask
        /\ DOMAIN p.cells = 0 .. n + want - 1
        /\ \A i \in 0 .. n - 1 : p.cells[i] = st.cells[i]
    BY <2>1, <1>1, <1>2, GrownIs
  <2>4. PICK kind2, rank2 :
             /\ Filed(p, kind2, rank2, depth, chain)
             /\ Kept(st, kind, rank, p, kind2, rank2, k, x)
             /\ Holds(kind2, rank2, k, x, n, want)
    BY <2>3, <1>1, <1>2, GrowthKeepsFiled
  <2>5. BlockAt(r.begin) = n /\ BlockCells(r.begin, r.capacity) = want /\ r.store = p
    BY <2>2 DEF BlockAt, BlockCells
  <2>6. Fresh(r, want, implicit)
    BY <2>2, <1>1, <1>4 DEF Fresh
  <2>7. QED
    BY <2>3, <2>4, <2>5, <2>6 DEF Allocated
<1>5. CASE ~implicit
  <2>0. PICK m \in Nat : m = want + 1
    BY <1>1
  <2>1. PICK g : g = Grown(st, m)
    OBVIOUS
  <2>2. PICK p : p = [g EXCEPT !.cells[n] = want]
    OBVIOUS
  <2>3. r = [store |-> p, begin |-> Complement(n), capacity |-> want]
    BY <1>3, <1>5, <2>0, <2>1, <2>2 DEF FromEnd
  <2>4. /\ Shape(g) /\ g.expected = st.expected /\ g.heads = st.heads /\ g.mask = st.mask
        /\ DOMAIN g.cells = 0 .. n + m - 1
        /\ \A i \in 0 .. n - 1 : g.cells[i] = st.cells[i]
    BY <2>0, <2>1, <1>1, <1>2, GrownIs
  <2>5. PICK cs : cs = [g.cells EXCEPT ![n] = want]
    OBVIOUS
  <2>6. DOMAIN cs = DOMAIN g.cells /\ cs = [i \in DOMAIN cs |-> cs[i]]
        /\ p = [g EXCEPT !.cells = cs] /\ cs[n] = want
        /\ \A i \in 0 .. n - 1 : cs[i] = st.cells[i]
    <3>1. n \in 0 .. n + m - 1 /\ \A i \in 0 .. n - 1 : i \in 0 .. n + m - 1 /\ i # n
      BY <2>0, <1>1
    <3>2. g.cells = [i \in DOMAIN g.cells |-> g.cells[i]]
      BY <2>4 DEF Shape
    <3>3. QED
      BY <2>2, <2>4, <2>5, <3>1, <3>2
  <2>7. /\ Shape(p) /\ p.expected = g.expected /\ p.heads = g.heads /\ p.mask = g.mask
        /\ p.cells = cs
    BY <2>4, <2>6, CellsWritten
  <2>8. PICK kind2, rank2 :
             /\ Filed(p, kind2, rank2, depth, chain)
             /\ Kept(st, kind, rank, p, kind2, rank2, k, x)
             /\ Holds(kind2, rank2, k, x, n, m)
    <3>1. /\ Shape(p) /\ DOMAIN p.cells = 0 .. n + m - 1
          /\ \A i \in 0 .. n - 1 : p.cells[i] = st.cells[i]
          /\ p.heads = st.heads /\ p.mask = st.mask
      BY <2>4, <2>6, <2>7
    <3>2. QED
      BY <3>1, <2>0, <1>2, GrowthKeepsFiled
  <2>9. BlockAt(r.begin) = n /\ BlockCells(r.begin, r.capacity) = m /\ r.store = p
    BY <2>0, <2>3 DEF BlockAt, BlockCells, Complement
  <2>10. Fresh(r, want, implicit)
    <3>1. Complement(n) \in Int /\ Complement(n) < 0 /\ Complement(Complement(n)) = n
      BY DEF Complement
    <3>2. n \in DOMAIN p.cells /\ p.cells[n] = want
      BY <2>0, <2>4, <2>6, <2>7, <1>1
    <3>3. QED
      BY <2>3, <3>1, <3>2, <1>1 DEF Fresh
  <2>11. QED
    BY <2>4, <2>7, <2>8, <2>9, <2>10 DEF Allocated
<1>6. QED
  BY <1>1, <1>4, <1>5

\* The first block of a free list changes hands.
LEMMA PopFreeKeepsFiled ==
    ASSUME NEW st, NEW kind, NEW rank, NEW depth, NEW chain, Filed(st, kind, rank, depth, chain),
           NEW c \in Classes, c \in st.mask,
           NEW k \in Int, k \notin Classes, NEW x \in Int,
           \A i \in DOMAIN st.cells : ~(kind[i] = k /\ rank[i] = x),
           NEW f, f = PopFree(st, c)
    PROVE  \E kind2, rank2, depth2, h :
             /\ Filed(f.store, kind2, rank2, depth2, chain)
             /\ Kept(st, kind, rank, f.store, kind2, rank2, k, x)
             /\ Entry(f.store.cells, c, h)
             /\ Holds(kind2, rank2, k, x, HeadStart(h), HeadCells(f.store.cells, c, h))
             /\ f.index = IF 0 < h THEN h - 1 ELSE h
             /\ f.store.expected = st.expected
<1>a. Shape(st) /\ Ghosts(st, kind, rank, depth, chain)
      /\ Threaded(st, depth, chain) /\ Divided(st, kind, rank, depth, chain)
  BY DEF Filed
<1>1. PICK d \in Nat : d = depth[c] /\ 0 < d
  <2>1. depth[c] \in Nat /\ depth[c] # 0
    BY <1>a DEF Ghosts, Threaded
  <2>2. QED
    BY <2>1
<1>2. PICK h : h = chain[c][d]
  OBVIOUS
<1>b. PICK e \in Nat : e = d - 1
  BY <1>1
<1>3. /\ st.heads[c] = h /\ Entry(st.cells, c, h)
      /\ st.cells[HeadLink(h)] = chain[c][d - 1]
      /\ Holds(kind, rank, c, d, HeadStart(h), HeadCells(st.cells, c, h))
  BY <1>a, <1>1, <1>2 DEF Threaded, Divided
<1>4. h \in Int /\ h # 0
  BY <1>3 DEF Entry
<1>5. PICK at : at = HeadLink(h)
  OBVIOUS
<1>6. PICK index \in Int : index = IF 0 < h THEN h - 1 ELSE h
  BY <1>4
<1>7. Magnitude(index) = at
  BY <1>4, <1>5, <1>6 DEF Magnitude, HeadLink
<1>8. PICK next : next = chain[c][e]
  OBVIOUS
<1>9. PICK s : s = f.store
  OBVIOUS
<1>10. /\ f.index = index
       /\ s = [cells |-> [st.cells EXCEPT ![at] = Junk],
               heads |-> Updated(st.heads, c, next),
               mask |-> IF next = 0 THEN st.mask \ {c} ELSE st.mask, expected |-> st.expected]
  <2>1. st.cells[at] = next /\ st.heads[c] = h
    BY <1>3, <1>5, <1>8, <1>b
  <2>2. f = [index |-> index,
             store |-> [st EXCEPT !.cells[at] = Junk, !.heads[c] = next,
                                  !.mask = IF next = 0 THEN @ \ {c} ELSE @]]
    BY <2>1, <1>6, <1>7 DEF PopFree
  <2>3. f.index = index /\ s = [st EXCEPT !.cells[at] = Junk, !.heads[c] = next,
                                  !.mask = IF next = 0 THEN @ \ {c} ELSE @]
    BY <2>2, <1>9
  <2>4. PICK mask : mask = IF next = 0 THEN st.mask \ {c} ELSE st.mask
    OBVIOUS
  <2>5. s = [st EXCEPT !.cells[at] = Junk, !.heads[c] = next, !.mask = mask]
    BY <2>3, <2>4
  <2>6. s = [cells |-> [st.cells EXCEPT ![at] = Junk], heads |-> Updated(st.heads, c, next),
             mask |-> mask, expected |-> st.expected]
    BY <2>5, <1>a DEF Shape, Updated
  <2>7. QED
    BY <2>3, <2>4, <2>6
<1>11. next \in Int
  BY <1>a, <1>b, <1>8 DEF Ghosts
<1>12. Shape(s) /\ s.expected = st.expected /\ DOMAIN s.cells = DOMAIN st.cells
       /\ s.heads = Updated(st.heads, c, next)
       /\ s.mask = (IF next = 0 THEN st.mask \ {c} ELSE st.mask)
       /\ \A i \in DOMAIN st.cells : i # at => s.cells[i] = st.cells[i]
  BY <1>10, <1>11, <1>a DEF Shape, Updated
<1>13. PICK st1 : st1 = [s EXCEPT !.cells = st.cells]
  OBVIOUS
<1>14. /\ Shape(st1) /\ st1.heads = s.heads /\ st1.mask = s.mask /\ st1.cells = st.cells
  <2>1. st.cells = [i \in DOMAIN st.cells |-> st.cells[i]]
    BY <1>a DEF Shape
  <2>2. QED
    BY <2>1, <1>12, <1>13, CellsWritten
<1>15. PICK kind2 : kind2 = Handed(st.cells, kind, kind, rank, c, d, k)
  OBVIOUS
<1>16. PICK rank2 : rank2 = Handed(st.cells, rank, kind, rank, c, d, x)
  OBVIOUS
<1>17. PICK depth2 : depth2 = Updated(depth, c, e)
  OBVIOUS
<1>18. /\ Filed(st1, kind2, rank2, depth2, chain)
       /\ Holds(kind2, rank2, k, x, HeadStart(h), HeadCells(st.cells, c, h))
  <2>1. /\ st1.heads = Updated(st.heads, c, next)
        /\ next = 0 => st1.mask = st.mask \ {c}
        /\ next # 0 => st1.mask = st.mask
    BY <1>12, <1>14
  <2>2. QED
    BY <2>1, <1>1, <1>2, <1>b, <1>8, <1>14, <1>15, <1>16, <1>17, UnfileKeepsFiled
<1>19. /\ DOMAIN kind = DOMAIN st.cells /\ DOMAIN kind2 = DOMAIN st.cells
       /\ \A i \in DOMAIN st.cells :
           IF kind[i] = c /\ rank[i] = d THEN kind2[i] = k /\ rank2[i] = x
           ELSE kind2[i] = kind[i] /\ rank2[i] = rank[i]
  BY <1>a, <1>15, <1>16 DEF Ghosts, Handed
<1>20. at \in Int /\ HeadStart(h) <= at /\ at < HeadStart(h) + HeadCells(st.cells, c, h)
       /\ (h < 0 => Complement(h) \in Int /\ Complement(h) # at
                    /\ HeadStart(h) <= Complement(h)
                    /\ Complement(h) < HeadStart(h) + HeadCells(st.cells, c, h))
  BY <1>3, <1>5, EntryInside
<1>21. at \in DOMAIN st.cells /\ kind[at] = c /\ rank[at] = d /\ kind2[at] = k
       /\ (h < 0 => Complement(h) \in DOMAIN st.cells)
  BY <1>3, <1>19, <1>20 DEF Holds
<1>22. \A i \in DOMAIN st.cells : kind2[i] \in Classes => s.cells[i] = st1.cells[i]
  BY <1>12, <1>14, <1>21
<1>23. Filed(s, kind2, rank2, depth2, chain)
  BY <1>12, <1>14, <1>18, <1>22, WritesKeepFiled
<1>24. Kept(st, kind, rank, s, kind2, rank2, k, x)
  BY <1>12, <1>19, <1>21 DEF Kept
<1>25. h < 0 => s.cells[Complement(h)] = st.cells[Complement(h)]
  BY <1>12, <1>20, <1>21
<1>26. Entry(s.cells, c, h) /\ HeadCells(s.cells, c, h) = HeadCells(st.cells, c, h)
  BY <1>25, <1>3 DEF Entry, HeadCells
<1>27. QED
  BY <1>6, <1>9, <1>10, <1>12, <1>18, <1>23, <1>24, <1>26

\* A block from a free list, when its class is large enough.
LEMMA FromFreeAllocates ==
    ASSUME NEW st, NEW kind, NEW rank, NEW depth, NEW chain, Filed(st, kind, rank, depth, chain),
           NEW want, NEW implicit, Handing(st, want, implicit),
           NEW c \in Classes, c \in st.mask,
           CeilClass(IF implicit THEN want ELSE want + 1) <= c,
           NEW k \in Int, k \notin Classes, NEW x \in Int,
           \A i \in DOMAIN st.cells : ~(kind[i] = k /\ rank[i] = x),
           NEW r, r = FromFree(PopFree(st, c), want, 2^c, implicit)
    PROVE  Allocated(st, kind, rank, r, want, implicit, k, x)
<1>1. PICK f : f = PopFree(st, c)
  OBVIOUS
<1>2. PICK kind2, rank2, depth2, h :
             /\ Filed(f.store, kind2, rank2, depth2, chain)
             /\ Kept(st, kind, rank, f.store, kind2, rank2, k, x)
             /\ Entry(f.store.cells, c, h)
             /\ Holds(kind2, rank2, k, x, HeadStart(h), HeadCells(f.store.cells, c, h))
             /\ f.index = IF 0 < h THEN h - 1 ELSE h
             /\ f.store.expected = st.expected
  BY <1>1, PopFreeKeepsFiled
<1>3. PICK s : s = f.store
  OBVIOUS
<1>4. PICK index : index = f.index
  OBVIOUS
<1>5. PICK w \in Nat : w = 2^c /\ 0 < w
  BY ClassPower
<1>6. w = ClassCells(c)
  BY <1>5 DEF ClassCells
<1>7. want \in Nat /\ 0 < want /\ implicit \in BOOLEAN
  BY DEF Handing
<1>b. r = FromFree(f, want, w, implicit)
  BY <1>1, <1>5
<1>8. (IF implicit THEN want ELSE want + 1) <= w
  <2>1. PICK need \in Nat : need = IF implicit THEN want ELSE want + 1
    BY <1>7
  <2>2. need <= 2^MaxClass
    BY <2>1 DEF Handing
  <2>3. PICK e : e = CeilClass(need)
    OBVIOUS
  <2>4. e \in Classes /\ need <= 2^e
    BY <2>2, <2>3, CeilClassIs
  <2>5. e <= c
    BY <2>1, <2>3
  <2>6. PICK v \in Nat : v = 2^e
    BY <2>4, ClassPower
  <2>7. v <= w
    <3>1. e = c \/ e < c
      BY <2>4, <2>5, ClassPower
    <3>2. CASE e = c
      BY <3>2, <2>6, <1>5
    <3>3. CASE e < c
      <4>1. 2^e < 2^c
        BY <3>3, <2>4, ClassesOrdered
      <4>2. QED
        BY <4>1, <2>6, <1>5
    <3>4. QED
      BY <3>1, <3>2, <3>3
  <2>8. need <= v
    BY <2>4, <2>6
  <2>9. QED
    BY <2>1, <2>7, <2>8
<1>9. h \in Int /\ h # 0 /\ Filed(s, kind2, rank2, depth2, chain) /\ Shape(s)
  BY <1>2, <1>3 DEF Entry, Filed
<1>10. CASE h < 0
  <2>1. PICK cap : cap = s.cells[Complement(h)]
    OBVIOUS
  <2>2. cap \in Nat /\ w < cap + 1
    BY <1>2, <1>3, <1>6, <1>10, <2>1 DEF Entry
  <2>3. index = h
    BY <1>2, <1>4, <1>9, <1>10
  <2>4. r = [store |-> s, begin |-> h, capacity |-> cap]
    <3>1. f.index < 0 /\ ~(f.index >= 0) /\ f.index = h /\ f.store = s
      BY <2>3, <1>3, <1>4, <1>9, <1>10
    <3>2. r = [store |-> f.store, begin |-> f.index,
               capacity |-> f.store.cells[Complement(f.index)]]
      BY <3>1, <1>b DEF FromFree
    <3>3. QED
      BY <3>1, <3>2, <2>1
  <2>5. BlockAt(r.begin) = HeadStart(h) /\ BlockCells(r.begin, r.capacity) = HeadCells(s.cells, c, h)
    BY <2>1, <2>4, <1>9, <1>10 DEF BlockAt, BlockCells, HeadStart, HeadCells
  <2>6. Complement(h) \in DOMAIN s.cells
    <3>1. /\ Holds(kind2, rank2, k, x, HeadStart(h), HeadCells(s.cells, c, h))
          /\ Entry(s.cells, c, h)
      BY <1>2, <1>3
    <3>2. HeadStart(h) \in DOMAIN kind2
      BY <3>1, EntryInside DEF Holds
    <3>3. QED
      BY <3>1, <3>2, <1>9, <1>10, EntryInside DEF Filed, Ghosts
  <2>7. Fresh(r, want, implicit)
    BY <2>1, <2>2, <2>4, <2>6, <1>7, <1>8, <1>9, <1>10 DEF Fresh
  <2>8. QED
    BY <2>4, <2>5, <2>7, <1>2, <1>3 DEF Allocated
<1>11. CASE 0 < h
  <2>1. index = h - 1 /\ index \in Nat
    BY <1>2, <1>4, <1>9, <1>11
  <2>2. HeadStart(h) = index /\ HeadCells(s.cells, c, h) = w
    BY <2>1, <1>6, <1>11 DEF HeadStart, HeadCells
  <2>3. ~(f.index < 0) /\ f.index >= 0 /\ f.store = s /\ f.index = index
    BY <2>1, <1>3, <1>4
  <2>4. Holds(kind2, rank2, k, x, index, w)
    BY <2>2, <1>2, <1>3
  <2>5. CASE implicit /\ want = w
    <3>1. r = [store |-> s, begin |-> index, capacity |-> w]
      <4>1. r = [store |-> f.store, begin |-> f.index, capacity |-> w]
        BY <2>3, <2>5, <1>b DEF FromFree
      <4>2. QED
        BY <4>1, <2>3, <1>5
    <3>2. BlockAt(r.begin) = index /\ BlockCells(r.begin, r.capacity) = w
      BY <3>1, <2>1 DEF BlockAt, BlockCells
    <3>3. Fresh(r, want, implicit)
      <4>1. r.begin = index /\ r.capacity = w /\ r.begin >= 0 /\ ~(r.begin < 0) /\ r.begin \in Int
        BY <3>1, <2>1
      <4>2. want = w
        BY <2>5, Zenon
      <4>3. implicit
        BY <2>5, Zenon
      <4>4. r.capacity = want /\ want <= r.capacity /\ r.capacity \in Nat
        BY <4>1, <4>2, <1>5
      <4>5. QED
        BY <4>1, <4>3, <4>4, Zenon DEF Fresh
    <3>4. QED
      BY <3>1, <3>2, <3>3, <2>4, <1>2, <1>3 DEF Allocated
  <2>6. CASE ~(implicit /\ want = w)
    <3>1. PICK cap \in Nat : cap = w - 1
      BY <1>5
    <3>2. want <= cap
      BY <3>1, <2>6, <1>5, <1>7, <1>8
    <3>3. PICK p : p = [s EXCEPT !.cells[index] = cap]
      OBVIOUS
    <3>4. r = [store |-> p, begin |-> Complement(index), capacity |-> cap]
      <4>1. r = [store |-> [f.store EXCEPT !.cells[f.index] = w - 1],
                 begin |-> Complement(f.index), capacity |-> w - 1]
        BY <2>3, <2>6, <1>b DEF FromFree
      <4>2. QED
        BY <4>1, <3>1, <3>3, <2>3
    <3>5. index \in DOMAIN s.cells /\ kind2[index] = k /\ rank2[index] = x
      <4>1. index \in DOMAIN kind2 /\ kind2[index] = k /\ rank2[index] = x
        BY <2>1, <2>4, <1>5 DEF Holds
      <4>2. QED
        BY <4>1, <1>9 DEF Filed, Ghosts
    <3>6. PICK cs : cs = [s.cells EXCEPT ![index] = cap]
      OBVIOUS
    <3>7. DOMAIN cs = DOMAIN s.cells /\ cs = [i \in DOMAIN cs |-> cs[i]]
          /\ p = [s EXCEPT !.cells = cs] /\ cs[index] = cap
          /\ \A i \in DOMAIN s.cells : i # index => cs[i] = s.cells[i]
      BY <3>3, <3>5, <3>6, <1>9 DEF Shape
    <3>8. /\ Shape(p) /\ p.expected = s.expected /\ p.heads = s.heads /\ p.mask = s.mask
          /\ p.cells = cs
      BY <3>7, <1>9, CellsWritten
    <3>9. Filed(p, kind2, rank2, depth2, chain)
      <4>1. \A i \in DOMAIN s.cells : kind2[i] \in Classes => p.cells[i] = s.cells[i]
        BY <3>5, <3>7, <3>8
      <4>2. QED
        BY <4>1, <3>7, <3>8, <1>9, WritesKeepFiled
    <3>10. Kept(st, kind, rank, p, kind2, rank2, k, x)
      <4>1. DOMAIN kind2 = DOMAIN s.cells
        BY <1>9 DEF Filed, Ghosts
      <4>2. \A i \in DOMAIN s.cells : ~(kind2[i] = k /\ rank2[i] = x) => p.cells[i] = s.cells[i]
        BY <3>5, <3>7, <3>8
      <4>3. Kept(st, kind, rank, s, kind2, rank2, k, x)
        BY <1>2, <1>3
      <4>4. QED
        BY <4>1, <4>2, <4>3 DEF Kept
    <3>11. Complement(index) \in Int /\ Complement(index) < 0 /\ Complement(Complement(index)) = index
      BY <2>1 DEF Complement
    <3>12. BlockAt(r.begin) = index /\ BlockCells(r.begin, r.capacity) = w
      BY <3>1, <3>4, <3>11, <1>5 DEF BlockAt, BlockCells
    <3>13. Fresh(r, want, implicit)
      <4>1. r.begin = Complement(index) /\ r.capacity = cap /\ r.store = p
        BY <3>4
      <4>2. r.begin \in Int /\ r.begin < 0 /\ ~(r.begin >= 0) /\ Complement(r.begin) = index
        BY <4>1, <3>11
      <4>3. index \in DOMAIN p.cells /\ p.cells[index] = cap
        BY <3>5, <3>7, <3>8
      <4>4. QED
        BY <3>2, <4>1, <4>2, <4>3 DEF Fresh
    <3>14. QED
      BY <3>4, <3>8, <3>9, <3>10, <3>12, <3>13, <2>4, <1>2, <1>3 DEF Allocated
  <2>7. QED
    BY <2>5, <2>6
<1>12. QED
  BY <1>9, <1>10, <1>11

\* allocate_connections.
LEMMA AllocateAllocates ==
    ASSUME NEW st, NEW kind, NEW rank, NEW depth, NEW chain, Filed(st, kind, rank, depth, chain),
           NEW want, NEW implicit, Handing(st, want, implicit),
           NEW k \in Int, k \notin Classes, NEW x \in Int,
           \A i \in DOMAIN st.cells : ~(kind[i] = k /\ rank[i] = x),
           NEW r, r = Allocate(st, want, implicit)
    PROVE  Allocated(st, kind, rank, r, want, implicit, k, x)
<1>1. PICK fits : fits = {c \in st.mask : CeilClass(IF implicit THEN want ELSE want + 1) <= c}
  OBVIOUS
<1>2. CASE fits = {}
  <2>1. r = FromEnd(st, want, implicit)
    BY <1>1, <1>2 DEF Allocate
  <2>2. QED
    BY <2>1, FromEndAllocates
<1>3. CASE fits # {}
  <2>1. PICK c : c = Min(fits)
    OBVIOUS
  <2>2. st.mask \subseteq Classes /\ Classes \subseteq Nat
    BY ClassPower DEF Filed, Shape
  <2>3. fits \subseteq Nat
    BY <1>1, <2>2
  <2>4. c \in fits
    BY <1>3, <2>1, <2>3, MinIsLeast
  <2>5. r = FromFree(PopFree(st, c), want, 2^c, implicit)
    BY <1>1, <1>3, <2>1 DEF Allocate
  <2>6. c \in Classes /\ c \in st.mask /\ CeilClass(IF implicit THEN want ELSE want + 1) <= c
    BY <1>1, <2>2, <2>4
  <2>7. QED
    BY <2>5, <2>6, FromFreeAllocates
<1>4. QED
  BY <1>2, <1>3

-----------------------------------------------------------------------------
(* The lists.                                                                *)

ListKind == -1
NewKind == -2

LEMMA KindsApart == /\ ListKind \in Int /\ NewKind \in Int /\ ListKind # NewKind
                    /\ ListKind \notin Classes /\ NewKind \notin Classes
BY ClassPower DEF ListKind, NewKind

\* The two numbers of a list of connections: none; a count whose block is the
\* least power of two that holds it; or a block that says how large it is.
GoodList(l, st) ==
  \/ l = NoList
  \/ /\ l = [begin |-> l.begin, len |-> l.len] /\ l.begin \in Int /\ l.len \in Int /\ l.len # 0
     /\ l.len < 0 => -l.len <= 2^MaxClass
     /\ l.len > 0 => /\ l.begin < 0 /\ Complement(l.begin) \in DOMAIN st.cells
                     /\ st.cells[Complement(l.begin)] \in Nat
                     /\ l.len <= st.cells[Complement(l.begin)]

ListAt(l) == BlockAt(l.begin)
ListSpan(l, st) == BlockCells(l.begin, Capacity(l, st))

\* What can be read off such a list.
LEMMA ListIs ==
    ASSUME NEW l, NEW st, GoodList(l, st)
    PROVE  /\ l.begin \in Int /\ l.len \in Int /\ l = [begin |-> l.begin, len |-> l.len]
           /\ Count(l) \in Nat /\ Capacity(l, st) \in Nat /\ Count(l) <= Capacity(l, st)
           /\ l.len = 0 => l.begin = 0 /\ Count(l) = 0 /\ Capacity(l, st) = 0
           /\ l.len < 0 => Count(l) = -l.len /\ Capacity(l, st) = BitCeil(Count(l))
           /\ l.len > 0 => /\ Count(l) = l.len
                           /\ Capacity(l, st) = st.cells[Complement(l.begin)]
           /\ ListAt(l) \in Nat /\ ListSpan(l, st) \in Nat
           /\ FirstCell(l) = IF l.begin < 0 THEN ListAt(l) + 1 ELSE ListAt(l)
           /\ ListAt(l) <= FirstCell(l)
           /\ FirstCell(l) + Capacity(l, st) = ListAt(l) + ListSpan(l, st)
<1>1. l.begin \in Int /\ l.len \in Int /\ l = [begin |-> l.begin, len |-> l.len]
  BY DEF GoodList, NoList
<1>2. Count(l) \in Nat /\ Count(l) = IF l.len < 0 THEN -l.len ELSE l.len
  BY <1>1 DEF Count, Magnitude
<1>3. FirstCell(l) = (IF l.begin < 0 THEN ListAt(l) + 1 ELSE ListAt(l)) /\ ListAt(l) \in Nat
  BY <1>1 DEF FirstCell, ListAt, BlockAt, Complement, Magnitude
<1>4. /\ Capacity(l, st) \in Nat /\ Count(l) <= Capacity(l, st)
      /\ l.len = 0 => l.begin = 0 /\ Capacity(l, st) = 0
      /\ l.len < 0 => Capacity(l, st) = BitCeil(Count(l))
      /\ l.len > 0 => Capacity(l, st) = st.cells[Complement(l.begin)]
  <2>1. CASE l.len = 0
    <3>1. l = NoList
      BY <2>1 DEF GoodList
    <3>2. l.begin = 0
      BY <3>1 DEF NoList
    <3>3. Capacity(l, st) = 0
      BY <2>1 DEF Capacity
    <3>4. QED
      BY <2>1, <3>2, <3>3, <1>2
  <2>2. CASE l.len < 0
    <3>1. l # NoList
      BY <2>2 DEF NoList
    <3>2. Count(l) <= 2^MaxClass
      BY <2>2, <3>1, <1>2 DEF GoodList
    <3>3. Capacity(l, st) = BitCeil(Count(l))
      BY <2>2, <1>1 DEF Capacity
    <3>4. PICK c : c = CeilClass(Count(l))
      OBVIOUS
    <3>5. c \in Classes /\ Count(l) <= 2^c
      BY <3>2, <3>4, <1>2, CeilClassIs
    <3>6. 2^c \in Nat /\ BitCeil(Count(l)) = 2^c
      BY <3>4, <3>5, ClassPower DEF BitCeil
    <3>7. PICK w \in Nat : w = 2^c
      BY <3>6
    <3>8. Capacity(l, st) = w /\ Count(l) <= w
      BY <3>3, <3>5, <3>6, <3>7
    <3>9. QED
      BY <3>3, <3>8, <2>2, <1>1
  <2>3. CASE l.len > 0
    <3>1. l # NoList /\ ~(l.len <= 0)
      BY <2>3, <1>1 DEF NoList
    <3>2. /\ Complement(l.begin) \in DOMAIN st.cells /\ st.cells[Complement(l.begin)] \in Nat
          /\ l.len <= st.cells[Complement(l.begin)]
      BY <2>3, <3>1 DEF GoodList
    <3>3. Capacity(l, st) = st.cells[Complement(l.begin)]
      BY <3>1, <3>2 DEF Capacity
    <3>4. QED
      BY <2>3, <3>2, <3>3, <1>1, <1>2
  <2>4. QED
    BY <1>1, <2>1, <2>2, <2>3
<1>5. ListSpan(l, st) \in Nat
      /\ ListSpan(l, st) = IF l.begin < 0 THEN Capacity(l, st) + 1 ELSE Capacity(l, st)
  BY <1>1, <1>4 DEF ListSpan, BlockCells
<1>6. PICK at \in Nat, f \in Nat, cap \in Nat, n \in Nat :
        at = ListAt(l) /\ f = FirstCell(l) /\ cap = Capacity(l, st) /\ n = ListSpan(l, st)
  BY <1>1, <1>3, <1>4, <1>5
<1>7. at <= f /\ f + cap = at + n
  BY <1>3, <1>5, <1>6, <1>1
<1>8. QED
  BY <1>1, <1>2, <1>3, <1>4, <1>5, <1>6, <1>7

\* A list is what it was while the cells of its block are.
LEMMA ListStays ==
    ASSUME NEW l, NEW st, NEW st2, GoodList(l, st),
           \A i \in Int : ListAt(l) <= i /\ i < ListAt(l) + ListSpan(l, st) =>
             (i \in DOMAIN st.cells => i \in DOMAIN st2.cells) /\ st2.cells[i] = st.cells[i]
    PROVE  GoodList(l, st2) /\ Capacity(l, st2) = Capacity(l, st)
           /\ ListSpan(l, st2) = ListSpan(l, st)
<1>1. CASE l.len > 0
  <2>1. l # NoList
    BY <1>1 DEF NoList
  <2>2. /\ l.begin < 0 /\ Complement(l.begin) \in DOMAIN st.cells
        /\ st.cells[Complement(l.begin)] \in Nat
    BY <1>1, <2>1 DEF GoodList
  <2>3. Complement(l.begin) = ListAt(l) /\ ListAt(l) \in Int
        /\ ListSpan(l, st) = Capacity(l, st) + 1 /\ Capacity(l, st) \in Nat
    BY <2>2, ListIs DEF ListAt, BlockAt, ListSpan, BlockCells
  <2>4. Complement(l.begin) \in DOMAIN st2.cells
        /\ st2.cells[Complement(l.begin)] = st.cells[Complement(l.begin)]
    BY <2>2, <2>3
  <2>5. GoodList(l, st2)
    BY <1>1, <2>1, <2>2, <2>4 DEF GoodList
  <2>6. Capacity(l, st2) = Capacity(l, st)
    BY <1>1, <2>4, <2>5, ListIs
  <2>7. QED
    BY <2>5, <2>6 DEF ListSpan
<1>2. CASE ~(l.len > 0)
  <2>1. GoodList(l, st2)
    BY <1>2 DEF GoodList, NoList
  <2>2. l.len <= 0
    BY <1>2, ListIs
  <2>3. Capacity(l, st2) = Capacity(l, st)
    BY <2>2 DEF Capacity
  <2>4. QED
    BY <2>1, <2>3 DEF ListSpan
<1>3. QED
  BY <1>1, <1>2

\* p is st with n cells from f on written to the cells from "to" on.
CopiedOver(st, p, to, f, n) ==
  /\ Shape(p) /\ p.expected = st.expected /\ p.heads = st.heads /\ p.mask = st.mask
  /\ DOMAIN p.cells = DOMAIN st.cells
  /\ \A i \in DOMAIN st.cells : ~(to <= i /\ i < to + n) => p.cells[i] = st.cells[i]
  /\ \A j \in Nat : j < n => p.cells[to + j] = st.cells[f + j]

\* Copied, field by field.
LEMMA CopiedIs ==
    ASSUME NEW l, NEW st, Shape(st), NEW to \in Nat, NEW n \in Nat, n = Count(l),
           NEW f \in Nat, f = FirstCell(l), NEW p, p = Copied(l, st, to),
           \A j \in Nat : j < n => to + j \in DOMAIN st.cells
    PROVE  CopiedOver(st, p, to, f, n)
<1>1. PICK cs : cs = [i \in DOMAIN st.cells |-> IF i \in to .. to + n - 1
                                                THEN st.cells[f + (i - to)] ELSE st.cells[i]]
  OBVIOUS
<1>2. DOMAIN cs = DOMAIN st.cells /\ cs = [i \in DOMAIN cs |-> cs[i]]
  BY <1>1
<1>3. p = [st EXCEPT !.cells = cs]
  BY <1>1 DEF Copied, Shape
<1>4. /\ Shape(p) /\ p.expected = st.expected /\ p.heads = st.heads /\ p.mask = st.mask
      /\ p.cells = cs
  BY <1>2, <1>3, CellsWritten
<1>5. \A i \in DOMAIN st.cells : ~(to <= i /\ i < to + n) => cs[i] = st.cells[i]
  BY <1>1
<1>6. ASSUME NEW j \in Nat, j < n
      PROVE  cs[to + j] = st.cells[f + j]
  <2>1. to + j \in DOMAIN st.cells /\ to + j \in to .. to + n - 1 /\ f + ((to + j) - to) = f + j
    BY <1>6
  <2>2. cs[to + j] = st.cells[f + ((to + j) - to)]
    BY <1>1, <2>1
  <2>3. QED
    BY <2>1, <2>2
<1>7. QED
  BY <1>2, <1>4, <1>5, <1>6 DEF CopiedOver

\* reserve_edge_list_impl: what was in the old block is in the new one, and the
\* old one is free.
LEMMA MoveKeepsFiled ==
    ASSUME NEW st, NEW kind, NEW rank, NEW depth, NEW chain, Filed(st, kind, rank, depth, chain),
           NEW l, GoodList(l, st), NEW x \in Int,
           Holds(kind, rank, ListKind, x, ListAt(l), ListSpan(l, st)),
           \A i \in DOMAIN st.cells : kind[i] # NewKind,
           NEW want, NEW implicit, NEW r,
           Allocated(st, kind, rank, r, want, implicit, NewKind, 0), Count(l) <= want, want \in Nat,
           NEW n \in Nat, n = Count(l), NEW f \in Nat, f = FirstCell(l),
           NEW to, to = Magnitude(r.begin),
           NEW p, p = Deallocate(Copied(l, r.store, to), l.begin, Capacity(l, st))
    PROVE  \E kind2, rank2, depth2, chain2 :
             /\ Filed(p, kind2, rank2, depth2, chain2)
             /\ Kept(st, kind, rank, p, kind2, rank2, ListKind, x)
             /\ Holds(kind2, rank2, ListKind, x, BlockAt(r.begin), BlockCells(r.begin, r.capacity))
             /\ \A j \in Nat : j < n => p.cells[to + j] = st.cells[f + j]
             /\ r.begin < 0 => /\ Complement(r.begin) \in DOMAIN p.cells
                               /\ p.cells[Complement(r.begin)] = r.capacity
             /\ p.expected = st.expected
<1> USE KindsApart
<1>1. PICK kind1, rank1, depth1, chain1 :
        /\ Filed(r.store, kind1, rank1, depth1, chain1)
        /\ Kept(st, kind, rank, r.store, kind1, rank1, NewKind, 0)
        /\ Holds(kind1, rank1, NewKind, 0, BlockAt(r.begin), BlockCells(r.begin, r.capacity))
        /\ Fresh(r, want, implicit) /\ r.store.expected = st.expected
  BY DEF Allocated
<1>2. PICK s1 : s1 = r.store
  OBVIOUS
<1>3. PICK begin \in Int, cap \in Nat : begin = r.begin /\ cap = r.capacity
  BY <1>1 DEF Fresh
<1>4. PICK at : at = BlockAt(begin)
  OBVIOUS
<1>5. PICK span : span = BlockCells(begin, cap)
  OBVIOUS
<1>6. /\ Filed(s1, kind1, rank1, depth1, chain1)
      /\ Kept(st, kind, rank, s1, kind1, rank1, NewKind, 0)
      /\ Holds(kind1, rank1, NewKind, 0, at, span)
      /\ s1.expected = st.expected
  BY <1>1, <1>2, <1>3, <1>4, <1>5
<1>7. /\ want <= cap
      /\ begin < 0 => /\ Complement(begin) \in DOMAIN s1.cells
                      /\ s1.cells[Complement(begin)] = cap
  BY <1>1, <1>2, <1>3 DEF Fresh
<1>8. /\ at \in Nat /\ span \in Nat /\ to \in Nat /\ at <= to /\ to + cap = at + span
      /\ begin < 0 => at = Complement(begin) /\ at < to /\ 0 < span
  BY <1>3, <1>4, <1>5 DEF BlockAt, BlockCells, Magnitude, Complement
<1>9. n <= cap
  BY <1>3, <1>7
<1>10. DOMAIN kind1 = DOMAIN s1.cells /\ \A i \in DOMAIN s1.cells : i \in Int
  BY <1>6 DEF Filed, Shape, Ghosts
<1>11. \A i \in Int : at <= i /\ i < at + span =>
         i \in DOMAIN s1.cells /\ kind1[i] = NewKind /\ rank1[i] = 0
  BY <1>6, <1>10 DEF Holds
<1>12. PICK s2 : s2 = Copied(l, s1, to)
  OBVIOUS
<1>13. Shape(s1)
  BY <1>6 DEF Filed
<1>14. /\ Shape(s2) /\ s2.expected = s1.expected /\ s2.heads = s1.heads /\ s2.mask = s1.mask
       /\ DOMAIN s2.cells = DOMAIN s1.cells
       /\ \A i \in DOMAIN s1.cells : ~(to <= i /\ i < to + n) => s2.cells[i] = s1.cells[i]
       /\ \A j \in Nat : j < n => s2.cells[to + j] = s1.cells[f + j]
  <2>1. \A j \in Nat : j < n => to + j \in DOMAIN s1.cells
    BY <1>8, <1>9, <1>11
  <2>2. to \in Nat
    BY <1>8
  <2>3. QED
    <3>1. CopiedOver(s1, s2, to, f, n)
      BY <2>1, <2>2, <1>12, <1>13, CopiedIs
    <3>2. QED
      BY <3>1 DEF CopiedOver
<1>15. Filed(s2, kind1, rank1, depth1, chain1)
       /\ \A i \in DOMAIN s1.cells : kind1[i] # NewKind => s2.cells[i] = s1.cells[i]
  <2>1. \A i \in DOMAIN s1.cells : kind1[i] # NewKind => s2.cells[i] = s1.cells[i]
    BY <1>8, <1>9, <1>10, <1>11, <1>14
  <2>2. QED
    BY <2>1, <1>6, <1>14, WritesKeepFiled
<1>16. PICK old \in Nat, at0 \in Nat, span0 \in Nat :
         old = Capacity(l, st) /\ at0 = ListAt(l) /\ span0 = ListSpan(l, st)
  BY ListIs
<1>17. /\ l.begin \in Int /\ at0 = BlockAt(l.begin) /\ span0 = BlockCells(l.begin, old)
       /\ n <= old /\ at0 <= f /\ f + old = at0 + span0
  BY <1>16, ListIs DEF ListAt, ListSpan
<1>18. Holds(kind, rank, ListKind, x, at0, span0)
  BY <1>16
<1>19. Holds(kind1, rank1, ListKind, x, at0, span0)
  BY <1>6, <1>18 DEF Holds, Kept
<1>20. PICK kind2, rank2, depth2, chain2 :
         /\ Filed(p, kind2, rank2, depth2, chain2)
         /\ Kept(s2, kind1, rank1, p, kind2, rank2, ListKind, x)
         /\ \A i \in DOMAIN kind2 : ~(kind2[i] = ListKind /\ rank2[i] = x)
         /\ p.expected = s2.expected /\ DOMAIN p.cells = DOMAIN s2.cells
  <2>1. p = Deallocate(s2, l.begin, old)
    BY <1>2, <1>12, <1>16
  <2>2. Freed(s2, kind1, rank1, p, ListKind, x)
    <3>1. Filed(s2, kind1, rank1, depth1, chain1) /\ l.begin \in Int /\ old \in Nat
          /\ at0 \in Nat /\ span0 \in Nat
      BY <1>15, <1>16, <1>17
    <3>2. QED
      BY <2>1, <3>1, <1>17, <1>19, DeallocateKeepsFiled
  <2>3. QED
    BY <2>2 DEF Freed
<1>21. /\ Ghosts(p, kind2, rank2, depth2, chain2) /\ Shape(p)
       /\ kind2 \in [DOMAIN p.cells -> Int] /\ rank2 \in [DOMAIN p.cells -> Int]
       /\ DOMAIN kind2 = DOMAIN p.cells /\ DOMAIN p.cells = DOMAIN s1.cells
  BY <1>14, <1>20 DEF Filed, Ghosts
<1>22. \A i \in Int : (at <= i /\ i < at + span) =>
         i \in DOMAIN p.cells /\ kind2[i] = NewKind /\ rank2[i] = 0 /\ p.cells[i] = s2.cells[i]
  BY <1>10, <1>11, <1>20, <1>21 DEF Kept
<1>23. Holds(kind2, rank2, NewKind, 0, at, span)
  BY <1>6, <1>20 DEF Holds, Kept
<1>24. PICK kind3 : kind3 = Handed(p.cells, kind2, kind2, rank2, NewKind, 0, ListKind)
  OBVIOUS
<1>25. PICK rank3 : rank3 = Handed(p.cells, rank2, kind2, rank2, NewKind, 0, x)
  OBVIOUS
<1>26. PICK zero \in Int : zero = 0
  OBVIOUS
<1>27. /\ kind3 \in [DOMAIN p.cells -> Int] /\ rank3 \in [DOMAIN p.cells -> Int]
       /\ \A i \in DOMAIN p.cells : (kind3[i] = ListKind /\ rank3[i] = x)
                                        <=> (kind2[i] = NewKind /\ rank2[i] = zero)
       /\ \A i \in DOMAIN p.cells : kind3[i] # ListKind \/ rank3[i] # x =>
                kind3[i] = kind2[i] /\ rank3[i] = rank2[i]
       /\ \A a, m : Holds(kind2, rank2, NewKind, zero, a, m) => Holds(kind3, rank3, ListKind, x, a, m)
  BY <1>20, <1>21, <1>24, <1>25, <1>26, HandedOver, SMTT(20)
<1>28. Holds(kind3, rank3, ListKind, x, at, span)
  BY <1>23, <1>26, <1>27
<1>29. \A i \in DOMAIN p.cells : IF kind2[i] = NewKind /\ rank2[i] = 0
         THEN kind3[i] = ListKind /\ rank3[i] = x
         ELSE kind3[i] = kind2[i] /\ rank3[i] = rank2[i]
  BY <1>26, <1>27
<1>30. Filed(p, kind3, rank3, depth2, chain2)
  <2>1. Ghosts(p, kind3, rank3, depth2, chain2)
    BY <1>21, <1>27 DEF Ghosts
  <2>2. \A i \in DOMAIN p.cells : kind2[i] \in Classes =>
          kind3[i] = kind2[i] /\ rank3[i] = rank2[i]
    BY <1>29
  <2>3. \A i \in DOMAIN p.cells : kind3[i] \in Classes =>
          kind3[i] = kind2[i] /\ rank3[i] = rank2[i]
    BY <1>29
  <2>4. QED
    BY <2>1, <2>2, <2>3, <1>20, <1>21, FreeCellsKeepFiled
<1>31. Kept(st, kind, rank, p, kind3, rank3, ListKind, x)
  <2>1. ASSUME NEW i \in Int, NEW k0 \in Int, NEW r0 \in Int,
               k0 \notin Classes, ~(k0 = ListKind /\ r0 = x)
        PROVE  /\ (i \in DOMAIN kind /\ kind[i] = k0 /\ rank[i] = r0)
                   <=> (i \in DOMAIN kind3 /\ kind3[i] = k0 /\ rank3[i] = r0)
               /\ (i \in DOMAIN kind /\ kind[i] = k0 /\ rank[i] = r0) => p.cells[i] = st.cells[i]
    <3>1. DOMAIN kind = DOMAIN st.cells /\ DOMAIN kind3 = DOMAIN p.cells
      BY <1>27 DEF Filed, Ghosts
    <3>2. CASE k0 = NewKind /\ r0 = 0
      <4>1. ~(i \in DOMAIN kind /\ kind[i] = k0 /\ rank[i] = r0)
        BY <3>1, <3>2
      <4>2. ~(i \in DOMAIN kind3 /\ kind3[i] = k0 /\ rank3[i] = r0)
        BY <3>1, <3>2, <1>29
      <4>3. QED
        BY <4>1, <4>2
    <3>3. CASE ~(k0 = NewKind /\ r0 = 0)
      <4>1. (i \in DOMAIN kind /\ kind[i] = k0 /\ rank[i] = r0)
              <=> (i \in DOMAIN kind1 /\ kind1[i] = k0 /\ rank1[i] = r0)
        BY <1>6, <2>1, <3>3 DEF Kept
      <4>2. (i \in DOMAIN kind1 /\ kind1[i] = k0 /\ rank1[i] = r0)
              <=> (i \in DOMAIN kind2 /\ kind2[i] = k0 /\ rank2[i] = r0)
        BY <1>20, <2>1 DEF Kept
      <4>3. (i \in DOMAIN kind2 /\ kind2[i] = k0 /\ rank2[i] = r0)
              <=> (i \in DOMAIN kind3 /\ kind3[i] = k0 /\ rank3[i] = r0)
        BY <1>21, <1>29, <2>1, <3>1, <3>3
      <4>4. ASSUME i \in DOMAIN kind, kind[i] = k0, rank[i] = r0
            PROVE  p.cells[i] = st.cells[i]
        <5>1. s1.cells[i] = st.cells[i]
          BY <4>4, <1>6, <2>1, <3>3 DEF Kept
        <5>2. kind1[i] # NewKind /\ i \in DOMAIN s1.cells
          <6>1. k0 # NewKind
            BY <4>4, <3>1
          <6>2. QED
            BY <6>1, <4>1, <4>4, <1>10
        <5>3. s2.cells[i] = s1.cells[i]
          BY <5>2, <1>15
        <5>4. p.cells[i] = s2.cells[i]
          BY <4>1, <4>4, <1>20, <2>1 DEF Kept
        <5>5. QED
          BY <5>1, <5>3, <5>4
      <4>5. QED
        BY <4>1, <4>2, <4>3, <4>4
    <3>4. QED
      BY <3>2, <3>3
  <2>2. QED
    BY <2>1 DEF Kept
<1>32. ASSUME NEW j \in Nat, j < n
       PROVE  p.cells[to + j] = st.cells[f + j]
  <2>1. to + j \in Int /\ at <= to + j /\ to + j < at + span
    BY <1>32, <1>8, <1>9
  <2>2. p.cells[to + j] = s2.cells[to + j]
    BY <2>1, <1>22
  <2>3. s2.cells[to + j] = s1.cells[f + j]
    BY <1>32, <1>14
  <2>4. f + j \in Int /\ at0 <= f + j /\ f + j < at0 + span0
    BY <1>32, <1>17
  <2>5. f + j \in DOMAIN kind /\ kind[f + j] = ListKind /\ rank[f + j] = x
    BY <2>4, <1>18 DEF Holds
  <2>6. s1.cells[f + j] = st.cells[f + j]
    BY <2>4, <2>5, <1>6 DEF Kept
  <2>7. QED
    BY <2>2, <2>3, <2>6
<1>33. begin < 0 => Complement(begin) \in DOMAIN p.cells /\ p.cells[Complement(begin)] = cap
  <2>1. SUFFICES ASSUME begin < 0
                 PROVE  Complement(begin) \in DOMAIN p.cells /\ p.cells[Complement(begin)] = cap
    OBVIOUS
  <2>2. at = Complement(begin) /\ at < to /\ 0 < span /\ at \in Int
    BY <2>1, <1>8
  <2>3. at \in DOMAIN p.cells /\ p.cells[at] = s2.cells[at]
    BY <2>2, <1>8, <1>22
  <2>4. s2.cells[at] = s1.cells[at]
    BY <2>2, <2>3, <1>8, <1>14, <1>21
  <2>5. QED
    BY <2>1, <2>2, <2>3, <2>4, <1>7
<1>34. p.expected = st.expected
  BY <1>6, <1>14, <1>20
<1>35. QED
  BY <1>3, <1>4, <1>5, <1>28, <1>30, <1>31, <1>32, <1>33, <1>34

\* The smallest block that holds so many cells has a class's size, and holds
\* them; and it is the same one for as many as go in.
LEMMA BitCeilIs ==
    ASSUME NEW n \in Nat, n <= 2^MaxClass
    PROVE  /\ BitCeil(n) \in Nat /\ n <= BitCeil(n) /\ IsPowerOfTwo(BitCeil(n))
           /\ BitCeil(n) <= 2^MaxClass
           /\ IsPowerOfTwo(n) => BitCeil(n) = n
           /\ \A m \in Nat : n <= m /\ m <= BitCeil(n) => BitCeil(m) = BitCeil(n)
<1>1. PICK c : c = CeilClass(n)
  OBVIOUS
<1>2. c \in Classes /\ n <= 2^c /\ \A e \in Classes : n <= 2^e => c <= e
  BY <1>1, CeilClassIs
<1>3. PICK w \in Nat : w = 2^c
  BY <1>2, ClassPower
<1>4. BitCeil(n) = w
  BY <1>1, <1>3 DEF BitCeil
<1>5. MaxClass \in Classes
  BY ClassAssumption DEF Classes
<1>6. PICK top \in Nat : top = 2^MaxClass
  BY <1>5, ClassPower
<1>7. w <= top
  <2>1. c <= MaxClass /\ c \in Nat /\ MaxClass \in Nat
    BY <1>2, <1>5, ClassPower
  <2>2. c = MaxClass => w = top
    BY <1>3, <1>6
  <2>3. c < MaxClass => 2^c < 2^MaxClass
    BY <1>2, <1>5, ClassesOrdered
  <2>4. c < MaxClass => w < top
    BY <2>3, <1>3, <1>6
  <2>5. QED
    BY <2>1, <2>2, <2>4
<1>8. n <= w
  BY <1>2, <1>3
<1>9. IsPowerOfTwo(w)
  BY <1>2, <1>3 DEF IsPowerOfTwo
<1>10. ASSUME IsPowerOfTwo(n)
       PROVE  n = w
  <2>1. PICK e \in Classes : n = 2^e
    BY <1>10 DEF IsPowerOfTwo
  <2>2. PICK v \in Nat : v = 2^e
    BY ClassPower
  <2>3. n = v
    BY <2>1, <2>2
  <2>4. n <= 2^e
    BY <2>2, <2>3
  <2>5. c <= e
    BY <2>4, <1>2
  <2>6. c = e \/ c < e
    BY <2>5, <1>2, ClassPower
  <2>7. c < e => 2^c < 2^e
    BY <1>2, ClassesOrdered
  <2>8. c < e => w < v
    BY <2>2, <2>7, <1>3
  <2>9. c = e => w = v
    BY <2>2, <1>3
  <2>10. QED
    BY <2>3, <2>6, <2>8, <2>9, <1>8
<1>11. ASSUME NEW m \in Nat, n <= m, m <= w
       PROVE  BitCeil(m) = w
  <2>1. m <= 2^MaxClass
    BY <1>6, <1>7, <1>11
  <2>2. PICK e : e = CeilClass(m)
    OBVIOUS
  <2>3. e \in Classes /\ m <= 2^e /\ \A z \in Classes : m <= 2^z => e <= z
    BY <2>1, <2>2, CeilClassIs
  <2>4. PICK v \in Nat : v = 2^e
    BY <2>3, ClassPower
  <2>5. n <= 2^e
    BY <2>3, <2>4, <1>11
  <2>6. m <= 2^c
    BY <1>3, <1>11
  <2>7. c <= e /\ e <= c
    BY <2>3, <2>5, <2>6, <1>2
  <2>8. c = e
    BY <2>3, <2>7, <1>2, ClassPower
  <2>9. QED
    BY <2>2, <2>8, <1>3 DEF BitCeil
<1>12. QED
  BY <1>4, <1>6, <1>7, <1>8, <1>9, <1>10, <1>11

\* The list l2 holds what l holds, and the cell s besides.
OneMore(cells, l, cells2, l2, s) ==
  /\ s \in Int
  /\ \E shift \in Int :
       /\ \A i \in Int : i \in Connections(l2) <=> i = s \/ i - shift \in Connections(l)
       /\ s - shift \notin Connections(l)
       /\ \A i \in Connections(l) : cells2[i + shift] = cells[i]

\* A list with a cell more for the owner that had l.
Placed(st, kind, rank, l, x, at) ==
  \E kind2, rank2, depth2, chain2 :
    /\ Filed(at.store, kind2, rank2, depth2, chain2)
    /\ Kept(st, kind, rank, at.store, kind2, rank2, ListKind, x)
    /\ Holds(kind2, rank2, ListKind, x, ListAt(at.list), ListSpan(at.list, at.store))
    /\ GoodList(at.list, at.store) /\ at.store.expected = st.expected
    /\ Count(at.list) = Count(l) + 1
    /\ OneMore(st.cells, l, at.store.cells, at.list, at.slot)

\* The cells of a list are what its two numbers say.
LEMMA ConnectionsAre ==
    ASSUME NEW l, NEW st, GoodList(l, st)
    PROVE  /\ \A i : i \in Connections(l) <=>
                i \in Int /\ FirstCell(l) <= i /\ i < FirstCell(l) + Count(l)
           /\ FirstCell(l) \in Nat /\ EndCell(l) = FirstCell(l) + Count(l) /\ EndCell(l) \in Nat
<1>1. PICK f \in Nat, n \in Nat : f = FirstCell(l) /\ n = Count(l)
  BY ListIs
<1>2. EndCell(l) = f + n
  BY <1>1 DEF EndCell
<1>3. Connections(l) = f .. f + n - 1
  BY <1>1, <1>2 DEF Connections
<1>4. QED
  BY <1>1, <1>2, <1>3

\* edge_list_push_back, the size cell taken for the newest connection.
LEMMA TakingFieldPlaces ==
    ASSUME NEW st, NEW kind, NEW rank, NEW depth, NEW chain, Filed(st, kind, rank, depth, chain),
           NEW l, GoodList(l, st), NEW x \in Int,
           Holds(kind, rank, ListKind, x, ListAt(l), ListSpan(l, st)),
           Count(l) + 1 <= 2^MaxClass, TakesField(l, st),
           NEW at, at = TakingField(l, st)
    PROVE  Placed(st, kind, rank, l, x, at)
<1>1. PICK n \in Nat : n = Count(l)
  BY ListIs
<1>2. l.len > 0 /\ Capacity(l, st) = n /\ IsPowerOfTwo(n + 1)
  BY <1>1 DEF TakesField
<1>3. l.begin \in Int /\ l.begin < 0 /\ Complement(l.begin) \in DOMAIN st.cells
  <2>1. l # NoList
    BY <1>2 DEF NoList
  <2>2. QED
    BY <1>2, <2>1 DEF GoodList
<1>4. PICK b \in Nat : b = Complement(l.begin)
  BY <1>3 DEF Complement
<1>5. PICK m \in Nat : m = n + 1
  OBVIOUS
<1>6. PICK l2 : l2 = [begin |-> b, len |-> -m]
  OBVIOUS
<1>7. at = [list |-> l2, store |-> st, slot |-> b]
  BY <1>1, <1>4, <1>5, <1>6 DEF TakingField
<1>8. m <= 2^MaxClass
  BY <1>1, <1>5
<1>9. GoodList(l2, st)
  <2>1. l2 = [begin |-> l2.begin, len |-> l2.len] /\ l2.begin \in Int /\ l2.len \in Int /\ l2.len # 0
    BY <1>5, <1>6
  <2>2. l2.len = -m /\ ~(l2.len > 0) /\ -l2.len = m
    BY <1>5, <1>6
  <2>3. QED
    BY <2>1, <2>2, <1>8 DEF GoodList
<1>10. Count(l2) = m /\ FirstCell(l2) = b
  BY <1>6 DEF Count, FirstCell, Magnitude
<1>11. Capacity(l2, st) = m
  <2>1. Capacity(l2, st) = BitCeil(m)
    BY <1>5, <1>6, <1>9, <1>10, ListIs
  <2>2. IsPowerOfTwo(m)
    BY <1>2, <1>5
  <2>3. QED
    BY <2>1, <2>2, <1>8, BitCeilIs
<1>12. ListAt(l2) = b /\ ListSpan(l2, st) = m
  BY <1>6, <1>11 DEF ListAt, BlockAt, ListSpan, BlockCells
<1>13. ListAt(l) = b /\ ListSpan(l, st) = m /\ FirstCell(l) = b + 1
  BY <1>2, <1>3, <1>4, <1>5, ListIs DEF ListAt, BlockAt, ListSpan, BlockCells
<1>14. OneMore(st.cells, l, st.cells, l2, b)
  <2>1. \A i : i \in Connections(l2) <=> i \in Int /\ b <= i /\ i < b + m
    BY <1>9, <1>10, ConnectionsAre
  <2>2. \A i : i \in Connections(l) <=> i \in Int /\ b + 1 <= i /\ i < (b + 1) + n
    BY <1>1, <1>13, ConnectionsAre
  <2>3. PICK shift \in Int : shift = 0
    OBVIOUS
  <2>4. \A i \in Int : i \in Connections(l2) <=> i = b \/ i - shift \in Connections(l)
    BY <2>1, <2>2, <2>3, <1>5
  <2>5. b - shift \notin Connections(l)
    BY <2>2, <2>3
  <2>6. \A i \in Connections(l) : st.cells[i + shift] = st.cells[i]
    BY <2>2, <2>3
  <2>7. QED
    BY <2>4, <2>5, <2>6 DEF OneMore
<1>15. Kept(st, kind, rank, st, kind, rank, ListKind, x)
  BY DEF Kept
<1>16. at.list = l2 /\ at.store = st /\ at.slot = b
  BY <1>7
<1>17. Holds(kind, rank, ListKind, x, ListAt(l2), ListSpan(l2, st))
  BY <1>12, <1>13
<1>18. Count(l2) = Count(l) + 1
  BY <1>1, <1>5, <1>10
<1>19. QED
  BY <1>9, <1>14, <1>15, <1>16, <1>17, <1>18 DEF Placed

\* edge_list_expand, when the block has room.
LEMMA RoomPlaces ==
    ASSUME NEW st, NEW kind, NEW rank, NEW depth, NEW chain, Filed(st, kind, rank, depth, chain),
           NEW l, GoodList(l, st), NEW x \in Int,
           Holds(kind, rank, ListKind, x, ListAt(l), ListSpan(l, st)),
           Count(l) + 1 <= 2^MaxClass, Capacity(l, st) >= Count(l) + 1,
           NEW at, at = [list |-> Lengthened(l, 1), store |-> st, slot |-> EndCell(l)]
    PROVE  Placed(st, kind, rank, l, x, at)
<1>1. PICK n \in Nat, cap \in Nat : n = Count(l) /\ cap = Capacity(l, st)
  BY ListIs
<1>2. n + 1 <= cap
  BY <1>1
<1>3. /\ l.begin \in Int /\ l.len \in Int /\ l = [begin |-> l.begin, len |-> l.len]
      /\ l.len # 0 /\ l # NoList
  <2>1. l.len # 0
    BY <1>1, <1>2, ListIs
  <2>2. QED
    BY <2>1, ListIs DEF NoList
<1>4. PICK b \in Int : b = l.begin
  BY <1>3
<1>5. PICK m \in Int : m = IF l.len < 0 THEN l.len - 1 ELSE l.len + 1
  BY <1>3
<1>6. PICK l2 : l2 = [begin |-> b, len |-> m]
  OBVIOUS
<1>7. Lengthened(l, 1) = l2
  BY <1>3, <1>4, <1>5, <1>6 DEF Lengthened
<1>8. l2.begin = b /\ l2.len = m /\ l2 = [begin |-> l2.begin, len |-> l2.len]
  BY <1>6
<1>9. PICK n2 \in Nat : n2 = n + 1
  OBVIOUS
<1>10. n2 <= 2^MaxClass
  BY <1>1, <1>9
<1>11. GoodList(l2, st) /\ Capacity(l2, st) = cap /\ Count(l2) = n2
  <2>1. CASE l.len < 0
    <3>1. n = -l.len /\ cap = BitCeil(n)
      BY <1>1, <2>1, ListIs
    <3>2. m = -n2 /\ m < 0
      BY <2>1, <3>1, <1>3, <1>5, <1>9
    <3>3. GoodList(l2, st)
      <4>1. l2.begin \in Int /\ l2.len \in Int /\ l2.len # 0 /\ ~(l2.len > 0) /\ -l2.len = n2
        BY <3>2, <1>8
      <4>2. QED
        BY <4>1, <1>8, <1>10 DEF GoodList
    <3>4. Count(l2) = n2
      BY <3>2, <1>8 DEF Count, Magnitude
    <3>5. Capacity(l2, st) = BitCeil(n2)
      BY <3>2, <3>3, <3>4, <1>8, ListIs
    <3>6. BitCeil(n2) = BitCeil(n)
      <4>1. n <= 2^MaxClass
        <5>1. PICK w \in Nat : w = 2^MaxClass
          BY ClassPower, ClassAssumption DEF Classes
        <5>2. QED
          BY <5>1, <1>9, <1>10
      <4>2. n <= n2 /\ n2 <= BitCeil(n)
        BY <3>1, <1>2, <1>9
      <4>3. QED
        BY <4>1, <4>2, BitCeilIs
    <3>7. QED
      BY <3>1, <3>3, <3>4, <3>5, <3>6
  <2>2. CASE l.len > 0
    <3>1. n = l.len /\ m = n2 /\ m > 0 /\ ~(m < 0)
      BY <1>1, <2>2, <1>3, <1>5, <1>9, ListIs
    <3>2. /\ b < 0 /\ Complement(b) \in DOMAIN st.cells /\ st.cells[Complement(b)] = cap
      BY <1>1, <1>3, <1>4, <2>2, ListIs DEF GoodList
    <3>3. GoodList(l2, st)
      <4>1. l2.begin \in Int /\ l2.len \in Int /\ l2.len # 0 /\ ~(l2.len < 0)
            /\ l2.len <= cap
        BY <3>1, <1>2, <1>8, <1>9
      <4>2. QED
        BY <4>1, <3>2, <1>8 DEF GoodList
    <3>4. Count(l2) = n2
      BY <3>1, <1>8 DEF Count, Magnitude
    <3>5. Capacity(l2, st) = cap
      BY <3>1, <3>2, <3>3, <1>8, ListIs
    <3>6. QED
      BY <3>3, <3>4, <3>5
  <2>3. QED
    BY <1>3, <2>1, <2>2
<1>12. ListAt(l2) = ListAt(l) /\ ListSpan(l2, st) = ListSpan(l, st) /\ FirstCell(l2) = FirstCell(l)
  BY <1>1, <1>4, <1>8, <1>11 DEF ListAt, ListSpan, FirstCell
<1>13. PICK f \in Nat : f = FirstCell(l) /\ EndCell(l) = f + n
  BY <1>1, ConnectionsAre
<1>14. OneMore(st.cells, l, st.cells, l2, EndCell(l))
  <2>1. \A i : i \in Connections(l2) <=> i \in Int /\ f <= i /\ i < f + n2
    BY <1>11, <1>12, <1>13, ConnectionsAre
  <2>2. \A i : i \in Connections(l) <=> i \in Int /\ f <= i /\ i < f + n
    BY <1>1, <1>13, ConnectionsAre
  <2>3. PICK shift \in Int : shift = 0
    OBVIOUS
  <2>4. PICK s \in Int : s = EndCell(l) /\ s = f + n
    BY <1>13
  <2>5. \A i \in Int : i \in Connections(l2) <=> i = s \/ i - shift \in Connections(l)
    BY <2>1, <2>2, <2>3, <2>4, <1>9
  <2>6. s - shift \notin Connections(l)
    BY <2>2, <2>3, <2>4
  <2>7. \A i \in Connections(l) : st.cells[i + shift] = st.cells[i]
    BY <2>2, <2>3
  <2>8. QED
    BY <2>4, <2>5, <2>6, <2>7 DEF OneMore
<1>15. Kept(st, kind, rank, st, kind, rank, ListKind, x)
  BY DEF Kept
<1>16. at.list = l2 /\ at.store = st /\ at.slot = EndCell(l)
  BY <1>7
<1>17. Holds(kind, rank, ListKind, x, ListAt(l2), ListSpan(l2, st))
  BY <1>12
<1>18. Count(l2) = Count(l) + 1
  BY <1>1, <1>9, <1>11
<1>19. QED
  BY <1>11, <1>14, <1>15, <1>16, <1>17, <1>18 DEF Placed


\* The greater of two numbers.
LEMMA MaxOfPair ==
    ASSUME NEW a \in Nat, NEW b \in Nat
    PROVE  Max({a, b}) \in {a, b} /\ Max({a, b}) \in Nat
           /\ a <= Max({a, b}) /\ b <= Max({a, b})
<1>1. \E y \in {a, b} : \A z \in {a, b} : y >= z
  OBVIOUS
<1>2. Max({a, b}) \in {a, b} /\ \A z \in {a, b} : Max({a, b}) >= z
  BY <1>1 DEF Max
<1>3. QED
  BY <1>2

\* edge_list_expand, when the list moves to a block that is longer.
LEMMA MovePlaces ==
    ASSUME NEW st, NEW kind, NEW rank, NEW depth, NEW chain, Filed(st, kind, rank, depth, chain),
           NEW l, GoodList(l, st), NEW x \in Int,
           Holds(kind, rank, ListKind, x, ListAt(l), ListSpan(l, st)),
           \A i \in DOMAIN st.cells : kind[i] # NewKind,
           NEW m \in Nat, m = Count(l) + 1, m <= 2^MaxClass, st.expected + 1 <= 2^MaxClass,
           NEW wanted \in Nat, wanted = Max({st.expected, BitCeil(m)}),
           Capacity(l, st) < wanted,
           NEW at, at = Longer(Reserved(l, st, BitCeil(m)))
    PROVE  Placed(st, kind, rank, l, x, at)
<1> USE KindsApart
<1>1. PICK n \in Nat, cap \in Nat : n = Count(l) /\ cap = Capacity(l, st)
  BY ListIs
<1>2. PICK g \in Nat : g = BitCeil(m)
  BY BitCeilIs
<1>3. m <= g /\ IsPowerOfTwo(g) /\ g <= 2^MaxClass
  BY <1>2, BitCeilIs
<1>4. PICK e \in Nat : e = st.expected
  BY DEF Filed, Shape
<1>5. PICK top \in Nat : top = 2^MaxClass
  BY ClassPower, ClassAssumption DEF Classes
<1>6. wanted = Max({e, g}) /\ wanted \in {e, g} /\ e <= wanted /\ g <= wanted
  BY <1>2, <1>4, MaxOfPair
<1>7. PICK implicit \in BOOLEAN : implicit = (g = wanted)
  OBVIOUS
<1>8. Handing(st, wanted, implicit)
  <2>1. m = n + 1 /\ 0 < wanted
    BY <1>1, <1>3, <1>6
  <2>2. implicit => wanted <= top
    BY <1>3, <1>5, <1>7
  <2>3. ~implicit => wanted + 1 <= top
    BY <1>4, <1>5, <1>6, <1>7
  <2>4. implicit => IsPowerOfTwo(wanted)
    BY <1>3, <1>7
  <2>5. (IF implicit THEN wanted ELSE wanted + 1) <= 2^MaxClass
    BY <2>2, <2>3, <1>5
  <2>6. QED
    BY <2>1, <2>4, <2>5 DEF Handing
<1>9. PICK r : r = Allocate(st, wanted, implicit)
  OBVIOUS
<1>10. PICK zero \in Int : zero = 0
  OBVIOUS
<1>11. Allocated(st, kind, rank, r, wanted, implicit, NewKind, 0)
  <2>1. \A i \in DOMAIN st.cells : ~(kind[i] = NewKind /\ rank[i] = zero)
    OBVIOUS
  <2>2. Allocated(st, kind, rank, r, wanted, implicit, NewKind, zero)
    BY <2>1, <1>8, <1>9, AllocateAllocates
  <2>3. QED
    BY <2>2, <1>10
<1>12. PICK to : to = Magnitude(r.begin)
  OBVIOUS
<1>13. PICK f \in Nat : f = FirstCell(l)
  BY ConnectionsAre
<1>14. PICK p : p = Deallocate(Copied(l, r.store, to), l.begin, Capacity(l, st))
  OBVIOUS
<1>15. n <= wanted
  BY <1>1, <1>3, <1>6
<1>16. PICK kind2, rank2, depth2, chain2 :
         /\ Filed(p, kind2, rank2, depth2, chain2)
         /\ Kept(st, kind, rank, p, kind2, rank2, ListKind, x)
         /\ Holds(kind2, rank2, ListKind, x, BlockAt(r.begin), BlockCells(r.begin, r.capacity))
         /\ \A j \in Nat : j < n => p.cells[to + j] = st.cells[f + j]
         /\ r.begin < 0 => /\ Complement(r.begin) \in DOMAIN p.cells
                           /\ p.cells[Complement(r.begin)] = r.capacity
         /\ p.expected = st.expected
  BY <1>1, <1>11, <1>12, <1>13, <1>14, <1>15, MoveKeepsFiled
<1>17. /\ r.begin \in Int /\ r.capacity \in Nat /\ wanted <= r.capacity
       /\ r.begin >= 0 => implicit /\ r.capacity = wanted
  BY <1>11 DEF Allocated, Fresh
<1>18. PICK b \in Int, rc \in Nat : b = r.begin /\ rc = r.capacity
  BY <1>17
<1>19. PICK same \in BOOLEAN : same = (implicit /\ rc = wanted)
  OBVIOUS
<1>20. at = Longer([list |-> [begin |-> b, len |-> n], store |-> p, implicit |-> same])
  <2>1. PICK mv : mv = Reserved(l, st, BitCeil(m))
    OBVIOUS
  <2>2. mv = Moved(l, st, wanted, implicit)
    BY <2>1, <1>2, <1>7 DEF Reserved
  <2>3. ~(wanted <= Capacity(l, st))
    BY <1>1
  <2>4. mv = MovedTo(l, r, Capacity(l, st), wanted, implicit)
    BY <2>2, <2>3, <1>9 DEF Moved
  <2>5. mv = [list |-> [begin |-> b, len |-> n], store |-> p, implicit |-> same]
    BY <2>4, <1>1, <1>12, <1>14, <1>18, <1>19 DEF MovedTo
  <2>6. QED
    BY <2>1, <2>5
<1>21. PICK len \in Int : len = IF same THEN -m ELSE m
  OBVIOUS
<1>22. PICK l2 : l2 = [begin |-> b, len |-> len]
  OBVIOUS
<1>23. m = n + 1 /\ 0 < m
  BY <1>1
<1>24. to \in Nat /\ to = (IF b < 0 THEN BlockAt(b) + 1 ELSE BlockAt(b)) /\ BlockAt(b) \in Nat
  BY <1>12, <1>18 DEF Magnitude, BlockAt, Complement
<1>25. at = [list |-> l2, store |-> p, slot |-> to + n]
  <2>1. PICK l1 : l1 = [begin |-> b, len |-> n]
    OBVIOUS
  <2>2. Lengthened(l1, 1) = [begin |-> b, len |-> m]
    BY <2>1, <1>23 DEF Lengthened
  <2>3. EndCell(l1) = to + n
    BY <2>1, <1>12, <1>18 DEF EndCell, FirstCell, Count, Magnitude
  <2>4. same => [Lengthened(l1, 1) EXCEPT !.len = -@] = l2
    BY <2>2, <1>21, <1>22
  <2>5. ~same => Lengthened(l1, 1) = l2
    BY <2>2, <1>21, <1>22
  <2>6. QED
    BY <2>1, <2>3, <2>4, <2>5, <1>20 DEF Longer
<1>26. l2.begin = b /\ l2.len = len /\ l2 = [begin |-> l2.begin, len |-> l2.len]
  BY <1>22
<1>27. Count(l2) = m /\ FirstCell(l2) = to
  BY <1>12, <1>18, <1>21, <1>23, <1>26 DEF Count, FirstCell, Magnitude
<1>28. GoodList(l2, p) /\ Capacity(l2, p) = rc
  <2>1. CASE same
    <3>1. l2.begin \in Int /\ l2.len \in Int /\ l2.len # 0 /\ ~(l2.len > 0) /\ -l2.len = m
          /\ l2.len < 0
      BY <2>1, <1>21, <1>23, <1>26
    <3>2. GoodList(l2, p)
      BY <3>1, <1>26 DEF GoodList
    <3>3. Capacity(l2, p) = BitCeil(m)
      BY <3>1, <3>2, <1>27, ListIs
    <3>4. rc = g
      BY <2>1, <1>7, <1>19
    <3>5. QED
      BY <3>2, <3>3, <3>4, <1>2
  <2>2. CASE ~same
    <3>1. b < 0
      BY <2>2, <1>17, <1>18, <1>19
    <3>2. Complement(b) \in DOMAIN p.cells /\ p.cells[Complement(b)] = rc
      BY <3>1, <1>16, <1>18
    <3>3. l2.begin \in Int /\ l2.len \in Int /\ l2.len # 0 /\ ~(l2.len < 0) /\ l2.len = m
          /\ l2.len > 0
      BY <2>2, <1>21, <1>23, <1>26
    <3>4. m <= rc
      BY <1>3, <1>6, <1>17, <1>18
    <3>5. GoodList(l2, p)
      BY <3>1, <3>2, <3>3, <3>4, <1>26 DEF GoodList
    <3>6. Capacity(l2, p) = rc
      BY <3>2, <3>3, <3>5, <1>26, ListIs
    <3>7. QED
      BY <3>5, <3>6
  <2>3. QED
    BY <2>1, <2>2
<1>29. ListAt(l2) = BlockAt(b) /\ ListSpan(l2, p) = BlockCells(b, rc)
  BY <1>26, <1>28 DEF ListAt, ListSpan
<1>30. OneMore(st.cells, l, p.cells, l2, to + n)
  <2>1. \A i : i \in Connections(l2) <=> i \in Int /\ to <= i /\ i < to + m
    BY <1>27, <1>28, ConnectionsAre
  <2>2. \A i : i \in Connections(l) <=> i \in Int /\ f <= i /\ i < f + n
    BY <1>1, <1>13, ConnectionsAre
  <2>3. PICK shift \in Int : shift = to - f
    BY <1>24
  <2>4. PICK s \in Int : s = to + n
    BY <1>24
  <2>5. \A i \in Int : i \in Connections(l2) <=> i = s \/ i - shift \in Connections(l)
    BY <2>1, <2>2, <2>3, <2>4, <1>23, <1>24
  <2>6. s - shift \notin Connections(l)
    BY <2>2, <2>3, <2>4, <1>24
  <2>7. ASSUME NEW i \in Connections(l)
        PROVE  p.cells[i + shift] = st.cells[i]
    <3>1. PICK j \in Nat : i = f + j /\ j < n
      <4>1. i \in Int /\ i - f \in Nat /\ i = f + (i - f) /\ i - f < n
        BY <2>2
      <4>2. QED
        BY <4>1
    <3>2. i + shift = to + j
      BY <3>1, <2>3, <1>24
    <3>3. QED
      BY <3>1, <3>2, <1>16
  <2>8. QED
    BY <2>4, <2>5, <2>6, <2>7 DEF OneMore
<1>31. at.list = l2 /\ at.store = p /\ at.slot = to + n
  BY <1>25
<1>32. Holds(kind2, rank2, ListKind, x, ListAt(l2), ListSpan(l2, p))
  BY <1>16, <1>18, <1>29
<1>33. Count(l2) = Count(l) + 1
  BY <1>27
<1>34. QED
  BY <1>16, <1>28, <1>30, <1>31, <1>32, <1>33 DEF Placed

\* edge_list_expand.
LEMMA ExpandedPlaces ==
    ASSUME NEW st, NEW kind, NEW rank, NEW depth, NEW chain, Filed(st, kind, rank, depth, chain),
           NEW l, GoodList(l, st), NEW x \in Int,
           Holds(kind, rank, ListKind, x, ListAt(l), ListSpan(l, st)),
           \A i \in DOMAIN st.cells : kind[i] # NewKind,
           Count(l) + 1 <= 2^MaxClass, st.expected + 1 <= 2^MaxClass,
           NEW force \in BOOLEAN, force => Capacity(l, st) < st.expected,
           NEW at, at = Expanded(l, st, force)
    PROVE  Placed(st, kind, rank, l, x, at)
<1>1. PICK n \in Nat, cap \in Nat : n = Count(l) /\ cap = Capacity(l, st)
  BY ListIs
<1>2. PICK m \in Nat : m = n + 1
  OBVIOUS
<1>3. CASE cap >= m /\ ~force
  <2>1. at = [list |-> Lengthened(l, 1), store |-> st, slot |-> EndCell(l)]
    BY <1>1, <1>2, <1>3 DEF Expanded
  <2>2. Capacity(l, st) >= Count(l) + 1
    BY <1>1, <1>2, <1>3
  <2>3. QED
    BY <2>1, <2>2, RoomPlaces
<1>4. CASE ~(cap >= m /\ ~force)
  <2>1. at = Longer(Reserved(l, st, BitCeil(m)))
    BY <1>1, <1>2, <1>4 DEF Expanded
  <2>2. m = Count(l) + 1 /\ m <= 2^MaxClass
    BY <1>1, <1>2
  <2>3. PICK g \in Nat : g = BitCeil(m) /\ m <= g
    BY <2>2, BitCeilIs
  <2>4. PICK e \in Nat : e = st.expected
    BY DEF Filed, Shape
  <2>5. PICK wanted \in Nat : wanted = Max({e, g}) /\ e <= wanted /\ g <= wanted
    BY MaxOfPair
  <2>6. cap < wanted
    <3>1. CASE force
      BY <3>1, <1>1, <2>4, <2>5
    <3>2. CASE ~force
      BY <3>2, <1>4, <2>3, <2>5
    <3>3. QED
      BY <3>1, <3>2
  <2>7. wanted = Max({st.expected, BitCeil(m)}) /\ Capacity(l, st) < wanted
    BY <1>1, <2>3, <2>4, <2>5, <2>6
  <2>8. QED
    BY <2>1, <2>2, <2>7, MovePlaces
<1>5. QED
  BY <1>3, <1>4

\* A list holds one connection more, to val.
Pushed(st, kind, rank, l, x, val, q) ==
  /\ \E kind2, rank2, depth2, chain2 :
       /\ Filed(q.store, kind2, rank2, depth2, chain2)
       /\ Kept(st, kind, rank, q.store, kind2, rank2, ListKind, x)
       /\ Holds(kind2, rank2, ListKind, x, ListAt(q.list), ListSpan(q.list, q.store))
  /\ GoodList(q.list, q.store) /\ q.store.expected = st.expected
  /\ Count(q.list) = Count(l) + 1
  /\ \E s : OneMore(st.cells, l, q.store.cells, q.list, s) /\ q.store.cells[s] = val

\* The newest connection is no size cell.
LEMMA StoredPushes ==
    ASSUME NEW st, NEW kind, NEW rank, NEW l, NEW x \in Int, NEW at,
           Placed(st, kind, rank, l, x, at), NEW val, NEW q, q = Stored(at, val)
    PROVE  Pushed(st, kind, rank, l, x, val, q)
<1> USE KindsApart
<1>1. PICK kind2, rank2, depth2, chain2 :
        /\ Filed(at.store, kind2, rank2, depth2, chain2)
        /\ Kept(st, kind, rank, at.store, kind2, rank2, ListKind, x)
        /\ Holds(kind2, rank2, ListKind, x, ListAt(at.list), ListSpan(at.list, at.store))
        /\ GoodList(at.list, at.store) /\ at.store.expected = st.expected
        /\ Count(at.list) = Count(l) + 1
        /\ OneMore(st.cells, l, at.store.cells, at.list, at.slot)
  BY DEF Placed
<1>2. PICK l2, s2, s : l2 = at.list /\ s2 = at.store /\ s = at.slot
  OBVIOUS
<1>3. s \in Int /\ s \in Connections(l2)
  BY <1>1, <1>2 DEF OneMore
<1>4. PICK a \in Nat, f \in Nat, n \in Nat, cap \in Nat, span \in Nat :
        /\ a = ListAt(l2) /\ f = FirstCell(l2) /\ n = Count(l2) /\ cap = Capacity(l2, s2)
        /\ span = ListSpan(l2, s2)
  BY <1>1, <1>2, ListIs, ConnectionsAre
<1>5. f <= s /\ s < f + n /\ n <= cap /\ a <= f /\ f + cap = a + span
  BY <1>1, <1>2, <1>3, <1>4, ListIs, ConnectionsAre
<1>6. a <= s /\ s < a + span
  BY <1>3, <1>4, <1>5
<1>7. DOMAIN kind2 = DOMAIN s2.cells /\ Shape(s2)
  BY <1>1, <1>2 DEF Filed, Ghosts
<1>8. s \in DOMAIN s2.cells /\ kind2[s] = ListKind /\ rank2[s] = x
  BY <1>1, <1>2, <1>3, <1>4, <1>6, <1>7 DEF Holds
<1>9. PICK cs : cs = [s2.cells EXCEPT ![s] = val]
  OBVIOUS
<1>10. PICK s3 : s3 = [s2 EXCEPT !.cells = cs]
  OBVIOUS
<1>11. q = [list |-> l2, store |-> s3]
  BY <1>2, <1>9, <1>10 DEF Stored
<1>12. /\ DOMAIN cs = DOMAIN s2.cells /\ cs = [i \in DOMAIN cs |-> cs[i]] /\ cs[s] = val
       /\ \A i \in DOMAIN s2.cells : i # s => cs[i] = s2.cells[i]
  BY <1>7, <1>8, <1>9 DEF Shape
<1>13. Shape(s3) /\ s3.expected = s2.expected /\ s3.heads = s2.heads /\ s3.mask = s2.mask
       /\ s3.cells = cs
  BY <1>7, <1>10, <1>12, CellsWritten
<1>14. Filed(s3, kind2, rank2, depth2, chain2)
  <2>1. \A i \in DOMAIN s2.cells : kind2[i] \in Classes => s3.cells[i] = s2.cells[i]
    BY <1>8, <1>12, <1>13
  <2>2. QED
    BY <2>1, <1>1, <1>2, <1>12, <1>13, WritesKeepFiled
<1>15. GoodList(l2, s3) /\ Capacity(l2, s3) = cap
  <2>1. CASE l2.len > 0
    <3>1. l2 # NoList /\ l2 = [begin |-> l2.begin, len |-> l2.len]
      BY <2>1, <1>1, <1>2, ListIs DEF NoList
    <3>2. /\ l2.begin \in Int /\ l2.begin < 0 /\ Complement(l2.begin) \in DOMAIN s2.cells
          /\ s2.cells[Complement(l2.begin)] \in Nat /\ l2.len <= s2.cells[Complement(l2.begin)]
          /\ l2.len \in Int
      BY <2>1, <3>1, <1>1, <1>2 DEF GoodList
    <3>3. Complement(l2.begin) = a /\ a < f
      BY <3>2, <1>1, <1>2, <1>4, ListIs DEF ListAt, BlockAt
    <3>4. Complement(l2.begin) # s
      BY <3>3, <1>3, <1>4, <1>5
    <3>5. s3.cells[Complement(l2.begin)] = s2.cells[Complement(l2.begin)]
          /\ Complement(l2.begin) \in DOMAIN s3.cells
      BY <3>2, <3>4, <1>12, <1>13
    <3>6. GoodList(l2, s3)
      BY <2>1, <3>1, <3>2, <3>5 DEF GoodList
    <3>7. QED
      BY <2>1, <3>5, <3>6, <1>1, <1>2, <1>4, ListIs
  <2>2. CASE ~(l2.len > 0)
    <3>1. GoodList(l2, s3)
      BY <2>2, <1>1, <1>2 DEF GoodList, NoList
    <3>2. l2.len <= 0
      BY <2>2, <3>1, ListIs
    <3>3. Capacity(l2, s3) = Capacity(l2, s2)
      BY <3>2 DEF Capacity
    <3>4. QED
      BY <3>1, <3>3, <1>4
  <2>3. QED
    BY <2>1, <2>2
<1>16. Holds(kind2, rank2, ListKind, x, ListAt(l2), ListSpan(l2, s3))
  <2>1. ListSpan(l2, s3) = ListSpan(l2, s2)
    BY <1>4, <1>15 DEF ListSpan
  <2>2. QED
    BY <2>1, <1>1, <1>2
<1>17. Kept(st, kind, rank, s3, kind2, rank2, ListKind, x)
  <2>1. ASSUME NEW i \in Int, NEW k0 \in Int, NEW r0 \in Int,
               k0 \notin Classes, ~(k0 = ListKind /\ r0 = x)
        PROVE  /\ (i \in DOMAIN kind /\ kind[i] = k0 /\ rank[i] = r0)
                   <=> (i \in DOMAIN kind2 /\ kind2[i] = k0 /\ rank2[i] = r0)
               /\ (i \in DOMAIN kind /\ kind[i] = k0 /\ rank[i] = r0) => s3.cells[i] = st.cells[i]
    <3>1. /\ (i \in DOMAIN kind /\ kind[i] = k0 /\ rank[i] = r0)
              <=> (i \in DOMAIN kind2 /\ kind2[i] = k0 /\ rank2[i] = r0)
          /\ (i \in DOMAIN kind /\ kind[i] = k0 /\ rank[i] = r0) => s2.cells[i] = st.cells[i]
      BY <2>1, <1>1, <1>2 DEF Kept
    <3>2. ASSUME i \in DOMAIN kind, kind[i] = k0, rank[i] = r0
          PROVE  s3.cells[i] = s2.cells[i]
      <4>1. i \in DOMAIN s2.cells /\ kind2[i] = k0 /\ rank2[i] = r0
        BY <3>1, <3>2, <1>7
      <4>2. i # s
        BY <4>1, <2>1, <1>8
      <4>3. QED
        BY <4>1, <4>2, <1>12, <1>13
    <3>3. QED
      BY <3>1, <3>2
  <2>2. QED
    BY <2>1 DEF Kept
<1>18. OneMore(st.cells, l, cs, l2, s)
  <2>1. PICK shift \in Int :
          /\ \A i \in Int : i \in Connections(l2) <=> i = s \/ i - shift \in Connections(l)
          /\ s - shift \notin Connections(l)
          /\ \A i \in Connections(l) : s2.cells[i + shift] = st.cells[i]
    BY <1>1, <1>2 DEF OneMore
  <2>2. ASSUME NEW i \in Connections(l)
        PROVE  cs[i + shift] = st.cells[i]
    <3>1. i \in Int
      BY <2>2 DEF Connections
    <3>2. PICK j \in Int : j = i + shift
      BY <3>1
    <3>3. j - shift = i
      BY <3>1, <3>2
    <3>4. j # s
      BY <3>3, <2>1
    <3>5. j \in Connections(l2)
      BY <3>2, <3>3, <2>1
    <3>6. f <= j /\ j < f + n
      BY <3>5, <1>1, <1>2, <1>4, ConnectionsAre
    <3>7. a <= j /\ j < a + span
      BY <3>6, <1>4, <1>5
    <3>8. j \in DOMAIN s2.cells
      BY <3>7, <1>1, <1>2, <1>4, <1>7 DEF Holds
    <3>9. cs[j] = s2.cells[j]
      BY <3>4, <3>8, <1>12
    <3>10. QED
      BY <3>2, <3>9, <2>1
  <2>3. QED
    BY <2>1, <2>2, <1>3 DEF OneMore
<1>19. q.list = l2 /\ q.store = s3
  BY <1>11
<1>20. QED
  <2>1. s3.expected = st.expected /\ Count(l2) = Count(l) + 1
    BY <1>1, <1>2, <1>13
  <2>2. OneMore(st.cells, l, s3.cells, l2, s) /\ s3.cells[s] = val
    BY <1>12, <1>13, <1>18
  <2>3. QED
    BY <2>1, <2>2, <1>14, <1>15, <1>16, <1>17, <1>19 DEF Pushed

\* edge_list_push_back.
LEMMA PushedBackPushes ==
    ASSUME NEW st, NEW kind, NEW rank, NEW depth, NEW chain, Filed(st, kind, rank, depth, chain),
           NEW l, GoodList(l, st), NEW x \in Int,
           Holds(kind, rank, ListKind, x, ListAt(l), ListSpan(l, st)),
           \A i \in DOMAIN st.cells : kind[i] # NewKind,
           Count(l) + 1 <= 2^MaxClass, st.expected + 1 <= 2^MaxClass,
           NEW force \in BOOLEAN, force => Capacity(l, st) < st.expected,
           NEW val, NEW q, q = PushedBack(l, st, val, force)
    PROVE  Pushed(st, kind, rank, l, x, val, q)
<1>1. CASE TakesField(l, st) /\ ~force
  <2>1. PICK at : at = TakingField(l, st)
    OBVIOUS
  <2>2. q = Stored(at, val)
    BY <1>1, <2>1 DEF PushedBack
  <2>3. Placed(st, kind, rank, l, x, at)
    BY <1>1, <2>1, TakingFieldPlaces
  <2>4. QED
    BY <2>2, <2>3, StoredPushes
<1>2. CASE ~(TakesField(l, st) /\ ~force)
  <2>1. PICK at : at = Expanded(l, st, force)
    OBVIOUS
  <2>2. q = Stored(at, val)
    BY <1>2, <2>1 DEF PushedBack
  <2>3. Placed(st, kind, rank, l, x, at)
    BY <2>1, ExpandedPlaces
  <2>4. QED
    BY <2>2, <2>3, StoredPushes
<1>3. QED
  BY <1>1, <1>2

\* The estimate is no part of what the cells mean.
LEMMA EstimateKeepsFiled ==
    ASSUME NEW st, NEW kind, NEW rank, NEW depth, NEW chain, Filed(st, kind, rank, depth, chain),
           NEW e \in Nat, NEW st2, st2 = [st EXCEPT !.expected = e]
    PROVE  /\ Filed(st2, kind, rank, depth, chain)
           /\ st2.cells = st.cells /\ st2.expected = e
<1>1. st2 = [cells |-> st.cells, heads |-> st.heads, mask |-> st.mask, expected |-> e]
  BY DEF Filed, Shape
<1>2. Shape(st2)
  BY <1>1 DEF Filed, Shape
<1>3. st2.cells = st.cells /\ st2.heads = st.heads /\ st2.mask = st.mask /\ st2.expected = e
  BY <1>1
<1>4. \A i \in DOMAIN st.cells : kind[i] \in Classes => st2.cells[i] = st.cells[i]
  BY <1>3
<1>5. QED
  BY <1>2, <1>3, <1>4, WritesKeepFiled

\* A list says the same about cells that are the same.
LEMMA SameCellsSameList ==
    ASSUME NEW l, NEW st, NEW st2, st2.cells = st.cells
    PROVE  /\ GoodList(l, st2) = GoodList(l, st) /\ Capacity(l, st2) = Capacity(l, st)
           /\ ListSpan(l, st2) = ListSpan(l, st)
<1>1. GoodList(l, st2) = GoodList(l, st)
  BY DEF GoodList
<1>2. Capacity(l, st2) = Capacity(l, st)
  BY DEF Capacity
<1>3. QED
  BY <1>1, <1>2 DEF ListSpan

\* edge_list_push_back with more to come: the estimate that is raised for the
\* call, and put back, is more than the block that is forced to grow.
LEMMA PushedBackOfPushes ==
    ASSUME NEW st, NEW kind, NEW rank, NEW depth, NEW chain, Filed(st, kind, rank, depth, chain),
           NEW l, GoodList(l, st), NEW x \in Int,
           Holds(kind, rank, ListKind, x, ListAt(l), ListSpan(l, st)),
           \A i \in DOMAIN st.cells : kind[i] # NewKind,
           Count(l) + 1 <= 2^MaxClass, st.expected + 1 <= 2^MaxClass,
           NEW later \in Nat, Count(l) + later + 1 <= 2^MaxClass,
           NEW val, NEW q, q = PushedBackOf(l, st, val, later)
    PROVE  Pushed(st, kind, rank, l, x, val, q)
<1>1. PICK n \in Nat, cap \in Nat : n = Count(l) /\ cap = Capacity(l, st)
  BY ListIs
<1>2. PICK e \in Nat : e = st.expected
  BY DEF Filed, Shape
<1>3. PICK sum \in Nat : sum = n + later
  OBVIOUS
<1>4. PICK top \in Nat : top = 2^MaxClass
  BY ClassPower, ClassAssumption DEF Classes
<1>5. PICK e2 \in Nat : e2 = Max({e, sum}) /\ e2 \in {e, sum} /\ e <= e2 /\ sum <= e2
  BY MaxOfPair
<1>6. e2 + 1 <= top
  <2>1. e + 1 <= top
    BY <1>2, <1>4
  <2>2. n + later + 1 <= top
    BY <1>1, <1>4
  <2>3. QED
    BY <2>1, <2>2, <1>3, <1>5
<1>7. PICK wider : wider = [st EXCEPT !.expected = e2]
  OBVIOUS
<1>8. /\ Filed(wider, kind, rank, depth, chain)
      /\ wider.cells = st.cells /\ wider.expected = e2
  BY <1>7, EstimateKeepsFiled
<1>9. PICK short \in BOOLEAN : short = (cap - n < later /\ 2 < later)
  OBVIOUS
<1>10. PICK force \in BOOLEAN : force = (short /\ st.expected % 2 = 1)
  OBVIOUS
<1>11. force => cap < e2
  <2>1. force => short
    BY <1>10, Zenon
  <2>2. short => cap - n < later
    BY <1>9, Zenon
  <2>3. cap - n < later => cap < e2
    BY <1>1, <1>3, <1>5
  <2>4. QED
    BY <2>1, <2>2, <2>3, Zenon
<1>12. PICK w : w = PushedBack(l, wider, val, force)
  OBVIOUS
<1>13. q = [w EXCEPT !.store.expected = e]
  <2>1. wider = [st EXCEPT !.expected = Max({@, Count(l) + later})]
    BY <1>1, <1>2, <1>3, <1>5, <1>7
  <2>2. force = ((Capacity(l, st) - Count(l) < later /\ 2 < later) /\ st.expected % 2 = 1)
    BY <1>1, <1>9, <1>10
  <2>3. QED
    BY <2>1, <2>2, <1>2, <1>12 DEF PushedBackOf
<1>14. Pushed(wider, kind, rank, l, x, val, w)
  <2>1. GoodList(l, wider) /\ Capacity(l, wider) = cap /\ ListSpan(l, wider) = ListSpan(l, st)
    BY <1>1, <1>8, SameCellsSameList
  <2>2. Holds(kind, rank, ListKind, x, ListAt(l), ListSpan(l, wider))
    BY <2>1
  <2>3. \A i \in DOMAIN wider.cells : kind[i] # NewKind
    BY <1>8
  <2>4. wider.expected + 1 <= 2^MaxClass
    BY <1>4, <1>6, <1>8
  <2>5. force => Capacity(l, wider) < wider.expected
    BY <2>1, <1>8, <1>11
  <2>6. QED
    BY <2>1, <2>2, <2>3, <2>4, <2>5, <1>8, <1>12, PushedBackPushes
<1>15. PICK kind2, rank2, depth2, chain2 :
         /\ Filed(w.store, kind2, rank2, depth2, chain2)
         /\ Kept(wider, kind, rank, w.store, kind2, rank2, ListKind, x)
         /\ Holds(kind2, rank2, ListKind, x, ListAt(w.list), ListSpan(w.list, w.store))
  BY <1>14 DEF Pushed
<1>16. PICK s3 : s3 = [w.store EXCEPT !.expected = e]
  OBVIOUS
<1>17. /\ Filed(s3, kind2, rank2, depth2, chain2)
       /\ s3.cells = w.store.cells /\ s3.expected = e
  BY <1>15, <1>16, EstimateKeepsFiled
<1>18. q.list = w.list /\ q.store = s3
  <2>1. w = [list |-> w.list, store |-> w.store]
    BY <1>12 DEF PushedBack, Stored
  <2>2. QED
    BY <2>1, <1>13, <1>16
<1>19. GoodList(w.list, s3) = GoodList(w.list, w.store)
       /\ ListSpan(w.list, s3) = ListSpan(w.list, w.store)
  BY <1>17, SameCellsSameList
<1>20. Kept(st, kind, rank, s3, kind2, rank2, ListKind, x)
  BY <1>8, <1>15, <1>17 DEF Kept
<1>21. Holds(kind2, rank2, ListKind, x, ListAt(w.list), ListSpan(w.list, s3))
  BY <1>15, <1>19
<1>22. GoodList(w.list, s3) /\ s3.expected = st.expected /\ Count(w.list) = Count(l) + 1
  BY <1>2, <1>14, <1>17, <1>19 DEF Pushed
<1>23. \E s : OneMore(st.cells, l, s3.cells, w.list, s) /\ s3.cells[s] = val
  BY <1>8, <1>14, <1>17 DEF Pushed
<1>24. QED
  BY <1>17, <1>18, <1>20, <1>21, <1>22, <1>23 DEF Pushed

-----------------------------------------------------------------------------
(* What the lists hold.                                                      *)

\* A set of numbers is as large when every one is moved by as much.
LEMMA ShiftedAreAsMany ==
    ASSUME NEW A, IsFiniteSet(A), A \subseteq Int, NEW shift \in Int,
           NEW B, B \subseteq Int, \A j \in Int : j \in B <=> j - shift \in A
    PROVE  IsFiniteSet(B) /\ Cardinality(B) = Cardinality(A)
<1>1. PICK g : g = [i \in A |-> i + shift]
  OBVIOUS
<1>2. \A i \in A : i + shift \in B /\ g[i] = i + shift
  <2>1. \A i \in A : i + shift \in Int /\ (i + shift) - shift = i
    OBVIOUS
  <2>2. QED
    BY <2>1, <1>1
<1>3. g \in [A -> B]
  BY <1>1, <1>2
<1>4. \A i, j \in A : g[i] = g[j] => i = j
  BY <1>2
<1>5. \A b \in B : \E i \in A : g[i] = b
  <2>1. ASSUME NEW b \in B
        PROVE  \E i \in A : g[i] = b
    <3>1. PICK i : i = b - shift
      OBVIOUS
    <3>2. i \in A /\ i + shift = b
      BY <3>1
    <3>3. QED
      BY <3>2, <1>2
  <2>2. QED
    BY <2>1
<1>6. g \in Bijection(A, B)
  BY <1>3, <1>4, <1>5 DEF Bijection, Injection, Surjection, IsInjective
<1>7. QED
  BY <1>6, FS_Bijection DEF ExistsBijection

\* Where a value stands in a list.
Standing(l, cells, val) == {i \in Connections(l) : cells[i] = val}

\* There are finitely many such places, no more than the list has connections.
LEMMA StandingFinite ==
    ASSUME NEW l, NEW st, GoodList(l, st), NEW val, NEW cells
    PROVE  /\ IsFiniteSet(Standing(l, cells, val)) /\ Standing(l, cells, val) \subseteq Int
           /\ Cardinality(Standing(l, cells, val)) \in Nat
           /\ Cardinality(Standing(l, cells, val)) <= Count(l)
<1>1. PICK f \in Nat, n \in Nat : f = FirstCell(l) /\ n = Count(l) /\ EndCell(l) = f + n
  BY ListIs, ConnectionsAre
<1>2. PICK g \in Int : g = f + n - 1
  OBVIOUS
<1>3. Connections(l) = f .. g
  BY <1>1, <1>2 DEF Connections
<1>4. IsFiniteSet(Connections(l)) /\ Cardinality(Connections(l)) = n
  <2>1. Cardinality(f .. g) = (IF f > g THEN 0 ELSE g - f + 1) /\ IsFiniteSet(f .. g)
    BY FS_Interval
  <2>2. QED
    BY <2>1, <1>2, <1>3
<1>5. Standing(l, cells, val) \subseteq Connections(l)
  BY DEF Standing
<1>6. QED
  BY <1>1, <1>3, <1>4, <1>5, FS_Subset, FS_CardinalityType

\* Occurrences counts them.
LEMMA OccurrencesAre ==
    ASSUME NEW l, NEW st, GoodList(l, st), NEW val
    PROVE  /\ Occurrences(l, st, val) = Cardinality(Standing(l, st.cells, val))
           /\ Occurrences(l, st, val) \in Nat /\ Occurrences(l, st, val) <= Count(l)
<1>1. Occurrences(l, st, val) = Cardinality(Standing(l, st.cells, val))
  BY DEF Occurrences, Standing
<1>2. QED
  BY <1>1, StandingFinite

\* One place more where the value stands that was pushed, and as many for
\* every other.
LEMMA PushCounts ==
    ASSUME NEW st, NEW kind, NEW rank, NEW l, GoodList(l, st), NEW x, NEW val, NEW q,
           Pushed(st, kind, rank, l, x, val, q), NEW v
    PROVE  Occurrences(q.list, q.store, v) = Occurrences(l, st, v) + (IF v = val THEN 1 ELSE 0)
<1>1. PICK s \in Int, shift \in Int :
        /\ q.store.cells[s] = val
        /\ \A i \in Int : i \in Connections(q.list) <=> i = s \/ i - shift \in Connections(l)
        /\ s - shift \notin Connections(l)
        /\ \A i \in Connections(l) : q.store.cells[i + shift] = st.cells[i]
  BY DEF Pushed, OneMore
<1>2. GoodList(q.list, q.store)
  BY DEF Pushed
<1>3. PICK A : A = Standing(l, st.cells, v)
  OBVIOUS
<1>4. PICK B : B = Standing(q.list, q.store.cells, v)
  OBVIOUS
<1>5. IsFiniteSet(A) /\ A \subseteq Int /\ IsFiniteSet(B) /\ B \subseteq Int /\ Cardinality(B) \in Nat
  BY <1>2, <1>3, <1>4, StandingFinite
<1>6. \A j \in Int : j \in B \ {s} <=> j - shift \in A
  <2>1. ASSUME NEW j \in Int
        PROVE  j \in B \ {s} <=> j - shift \in A
    <3>1. PICK i \in Int : i = j - shift /\ i + shift = j
      OBVIOUS
    <3>2. j \in B <=> j \in Connections(q.list) /\ q.store.cells[j] = v
      BY <1>4 DEF Standing
    <3>3. i \in A <=> i \in Connections(l) /\ st.cells[i] = v
      BY <1>3 DEF Standing
    <3>4. j \in Connections(q.list) <=> j = s \/ i \in Connections(l)
      BY <3>1, <1>1
    <3>5. j = s => i \notin Connections(l)
      BY <3>1, <1>1
    <3>6. i \in Connections(l) => q.store.cells[j] = st.cells[i]
      BY <3>1, <1>1
    <3>7. QED
      BY <3>1, <3>2, <3>3, <3>4, <3>5, <3>6
  <2>2. QED
    BY <2>1
<1>7. Cardinality(B \ {s}) = Cardinality(A)
  <2>1. B \ {s} \subseteq Int
    BY <1>5
  <2>2. QED
    BY <2>1, <1>5, <1>6, ShiftedAreAsMany
<1>8. s \in B <=> v = val
  <2>1. s \in Connections(q.list)
    BY <1>1
  <2>2. QED
    BY <2>1, <1>1, <1>4 DEF Standing
<1>9. Cardinality(B \ {s}) = IF s \in B THEN Cardinality(B) - 1 ELSE Cardinality(B)
  BY <1>5, FS_RemoveElement
<1>10. Cardinality(B) = Cardinality(A) + (IF v = val THEN 1 ELSE 0)
  BY <1>5, <1>7, <1>8, <1>9
<1>11. QED
  BY <1>2, <1>3, <1>4, <1>10, OccurrencesAre

\* A list whose cells stay holds what it held.
LEMMA SameCellsSameCounts ==
    ASSUME NEW l, NEW st, NEW st2, GoodList(l, st), GoodList(l, st2),
           \A i \in Int : ListAt(l) <= i /\ i < ListAt(l) + ListSpan(l, st) =>
             st2.cells[i] = st.cells[i],
           NEW v
    PROVE  Occurrences(l, st2, v) = Occurrences(l, st, v)
<1>1. PICK a \in Nat, f \in Nat, n \in Nat, cap \in Nat, span \in Nat :
        /\ a = ListAt(l) /\ f = FirstCell(l) /\ n = Count(l) /\ cap = Capacity(l, st)
        /\ span = ListSpan(l, st)
  BY ListIs, ConnectionsAre
<1>2. n <= cap /\ a <= f /\ f + cap = a + span
  BY <1>1, ListIs
<1>3. \A i \in Connections(l) : st2.cells[i] = st.cells[i]
  <2>1. ASSUME NEW i \in Connections(l)
        PROVE  st2.cells[i] = st.cells[i]
    <3>1. i \in Int /\ f <= i /\ i < f + n
      BY <1>1, ConnectionsAre
    <3>2. a <= i /\ i < a + span
      BY <3>1, <1>1, <1>2
    <3>3. QED
      BY <3>1, <3>2, <1>1
  <2>2. QED
    BY <2>1
<1>4. Standing(l, st2.cells, v) = Standing(l, st.cells, v)
  BY <1>3 DEF Standing
<1>5. QED
  BY <1>4, OccurrencesAre

-----------------------------------------------------------------------------
(* All lists in one store.                                                   *)

\* Every list has its block, and every cell is of a list or on a free list.
Held(ls, st, kind, rank) ==
  /\ \A n \in DOMAIN ls :
       /\ GoodList(ls[n], st)
       /\ Holds(kind, rank, ListKind, n, ListAt(ls[n]), ListSpan(ls[n], st))
  /\ \A i \in DOMAIN kind :
       kind[i] \in Classes \/ (kind[i] = ListKind /\ rank[i] \in DOMAIN ls)

Sound(ls, st) ==
  /\ DOMAIN ls \subseteq Int /\ ls = [n \in DOMAIN ls |-> ls[n]]
  /\ st.expected + 1 <= 2^MaxClass
  /\ \E kind, rank, depth, chain :
       Filed(st, kind, rank, depth, chain) /\ Held(ls, st, kind, rank)

\* ls2 and st2 are ls and st with the list of d changed to l2.
Changed(ls, st, ls2, st2, d, l2) ==
  /\ ls2 = [ls EXCEPT ![d] = l2] /\ DOMAIN ls2 = DOMAIN ls
  /\ ls2[d] = l2 /\ \A n \in DOMAIN ls : n # d => ls2[n] = ls[n]
  /\ \A n \in DOMAIN ls : n # d =>
       /\ GoodList(ls[n], st) /\ GoodList(ls[n], st2)
       /\ ListSpan(ls[n], st2) = ListSpan(ls[n], st)
       /\ \A i \in Int : ListAt(ls[n]) <= i /\ i < ListAt(ls[n]) + ListSpan(ls[n], st) =>
            st2.cells[i] = st.cells[i]

\* There is room for the connections of a call, and ls2 is ls with another list.
RoomFor(l, later) == Count(l) + later + 1 <= 2^MaxClass
Relisted(ls, d, l, ls2) == ls2 = [ls EXCEPT ![d] = l]

\* q is the list l, in the store st, with one more val.
Names(l, st, q, val) ==
  /\ Count(q.list) = Count(l) + 1
  /\ \A v : Occurrences(q.list, q.store, v) = Occurrences(l, st, v) + (IF v = val THEN 1 ELSE 0)

\* What changes hands with the list of d leaves the other lists alone.
LEMMA OthersStay ==
    ASSUME NEW ls, NEW st, DOMAIN ls \subseteq Int, ls = [n \in DOMAIN ls |-> ls[n]],
           NEW kind, NEW rank, NEW depth, NEW chain, Filed(st, kind, rank, depth, chain),
           Held(ls, st, kind, rank), NEW d \in DOMAIN ls, NEW l2, NEW ls2, ls2 = [ls EXCEPT ![d] = l2],
           NEW st2, NEW kind2, NEW rank2, NEW depth2, NEW chain2,
           Filed(st2, kind2, rank2, depth2, chain2),
           Kept(st, kind, rank, st2, kind2, rank2, ListKind, d),
           GoodList(l2, st2), Holds(kind2, rank2, ListKind, d, ListAt(l2), ListSpan(l2, st2))
    PROVE  Changed(ls, st, ls2, st2, d, l2) /\ Held(ls2, st2, kind2, rank2)
<1> USE KindsApart
<1>1. /\ DOMAIN ls2 = DOMAIN ls /\ ls2[d] = l2
      /\ \A n \in DOMAIN ls : n # d => ls2[n] = ls[n]
  OBVIOUS
<1>2. /\ DOMAIN kind = DOMAIN st.cells /\ DOMAIN kind2 = DOMAIN st2.cells
      /\ \A i \in DOMAIN kind2 : i \in Int /\ kind2[i] \in Int /\ rank2[i] \in Int
  BY DEF Filed, Shape, Ghosts
<1>3. ASSUME NEW n \in DOMAIN ls, n # d
      PROVE  /\ GoodList(ls[n], st) /\ GoodList(ls[n], st2)
             /\ ListSpan(ls[n], st2) = ListSpan(ls[n], st)
             /\ \A i \in Int : ListAt(ls[n]) <= i /\ i < ListAt(ls[n]) + ListSpan(ls[n], st) =>
                  st2.cells[i] = st.cells[i]
             /\ Holds(kind2, rank2, ListKind, n, ListAt(ls[n]), ListSpan(ls[n], st2))
  <2>1. PICK l : l = ls[n]
    OBVIOUS
  <2>2. n \in Int /\ ~(ListKind = ListKind /\ n = d)
    BY <1>3
  <2>3. GoodList(l, st) /\ Holds(kind, rank, ListKind, n, ListAt(l), ListSpan(l, st))
    BY <2>1 DEF Held
  <2>4. \A i \in Int :
          /\ (i \in DOMAIN kind /\ kind[i] = ListKind /\ rank[i] = n)
               <=> (i \in DOMAIN kind2 /\ kind2[i] = ListKind /\ rank2[i] = n)
          /\ (i \in DOMAIN kind /\ kind[i] = ListKind /\ rank[i] = n) =>
               st2.cells[i] = st.cells[i]
    BY <2>2 DEF Kept
  <2>5. Holds(kind2, rank2, ListKind, n, ListAt(l), ListSpan(l, st))
    BY <2>3, <2>4 DEF Holds
  <2>6. \A i \in Int : ListAt(l) <= i /\ i < ListAt(l) + ListSpan(l, st) =>
          (i \in DOMAIN st.cells => i \in DOMAIN st2.cells) /\ st2.cells[i] = st.cells[i]
    BY <2>3, <2>4, <1>2 DEF Holds
  <2>7. GoodList(l, st2) /\ ListSpan(l, st2) = ListSpan(l, st)
    BY <2>3, <2>6, ListStays
  <2>8. QED
    BY <2>1, <2>3, <2>5, <2>6, <2>7
<1>4. Changed(ls, st, ls2, st2, d, l2)
  BY <1>1, <1>3 DEF Changed
<1>5. \A n \in DOMAIN ls2 :
        /\ GoodList(ls2[n], st2)
        /\ Holds(kind2, rank2, ListKind, n, ListAt(ls2[n]), ListSpan(ls2[n], st2))
  BY <1>1, <1>3
<1>6. ASSUME NEW i \in DOMAIN kind2, kind2[i] \notin Classes
      PROVE  kind2[i] = ListKind /\ rank2[i] \in DOMAIN ls2
  <2>1. i \in Int /\ kind2[i] \in Int /\ rank2[i] \in Int
    BY <1>2
  <2>2. CASE kind2[i] = ListKind /\ rank2[i] = d
    BY <2>2, <1>1
  <2>3. CASE ~(kind2[i] = ListKind /\ rank2[i] = d)
    <3>1. i \in DOMAIN kind /\ kind[i] = kind2[i] /\ rank[i] = rank2[i]
      BY <2>1, <2>3, <1>6 DEF Kept
    <3>2. kind[i] \notin Classes
      BY <3>1, <1>6
    <3>3. QED
      BY <3>1, <3>2, <1>1 DEF Held
  <2>4. QED
    BY <2>2, <2>3
<1>7. QED
  BY <1>4, <1>5, <1>6 DEF Held

\* A push keeps every list, and adds a connection to one.
LEMMA PushKeepsSound ==
    ASSUME NEW ls, NEW st, Sound(ls, st), NEW d \in DOMAIN ls,
           NEW later \in Nat, RoomFor(ls[d], later),
           NEW val, NEW q, q = PushedBackOf(ls[d], st, val, later),
           NEW ls2, Relisted(ls, d, q.list, ls2)
    PROVE  /\ Sound(ls2, q.store) /\ Changed(ls, st, ls2, q.store, d, q.list)
           /\ Names(ls[d], st, q, val)
<1> USE KindsApart
<1>1. PICK kind, rank, depth, chain :
        Filed(st, kind, rank, depth, chain) /\ Held(ls, st, kind, rank)
  BY DEF Sound
<1>2. DOMAIN ls \subseteq Int /\ d \in Int /\ ls = [n \in DOMAIN ls |-> ls[n]]
      /\ st.expected + 1 <= 2^MaxClass
  BY DEF Sound
<1>3. PICK l : l = ls[d]
  OBVIOUS
<1>4. GoodList(l, st) /\ Holds(kind, rank, ListKind, d, ListAt(l), ListSpan(l, st))
  BY <1>1, <1>3 DEF Held
<1>5. \A i \in DOMAIN st.cells : kind[i] # NewKind
  BY <1>1 DEF Held, Filed, Ghosts
<1>6. Count(l) + 1 <= 2^MaxClass /\ Count(l) + later + 1 <= 2^MaxClass
  <2>1. PICK n \in Nat : n = Count(l)
    BY <1>4, ListIs
  <2>2. PICK top \in Nat : top = 2^MaxClass
    BY ClassPower, ClassAssumption DEF Classes
  <2>3. Count(l) + later + 1 <= 2^MaxClass
    BY <1>3 DEF RoomFor
  <2>4. n + later + 1 <= top
    BY <2>1, <2>2, <2>3
  <2>5. n + 1 <= top
    BY <2>4
  <2>6. QED
    BY <2>1, <2>2, <2>3, <2>5
<1>7. Pushed(st, kind, rank, l, d, val, q)
  BY <1>1, <1>2, <1>3, <1>4, <1>5, <1>6, PushedBackOfPushes
<1>8. PICK kind2, rank2, depth2, chain2 :
        /\ Filed(q.store, kind2, rank2, depth2, chain2)
        /\ Kept(st, kind, rank, q.store, kind2, rank2, ListKind, d)
        /\ Holds(kind2, rank2, ListKind, d, ListAt(q.list), ListSpan(q.list, q.store))
  BY <1>7 DEF Pushed
<1>9. GoodList(q.list, q.store) /\ q.store.expected = st.expected
      /\ Count(q.list) = Count(ls[d]) + 1
  BY <1>3, <1>7 DEF Pushed
<1>10. Changed(ls, st, ls2, q.store, d, q.list) /\ Held(ls2, q.store, kind2, rank2)
  BY <1>1, <1>2, <1>8, <1>9, OthersStay DEF Relisted
<1>11. DOMAIN ls2 = DOMAIN ls /\ ls2 = [n \in DOMAIN ls2 |-> ls2[n]]
  BY <1>2 DEF Relisted
<1>12. Sound(ls2, q.store)
  BY <1>2, <1>8, <1>9, <1>10, <1>11 DEF Sound
<1>13. \A v : Occurrences(q.list, q.store, v)
                = Occurrences(ls[d], st, v) + (IF v = val THEN 1 ELSE 0)
  BY <1>3, <1>4, <1>7, PushCounts
<1>14. Names(ls[d], st, q, val)
  BY <1>9, <1>13 DEF Names
<1>15. QED
  BY <1>10, <1>12, <1>14

\* A list that is deleted takes nothing of another with it.
LEMMA DeleteKeepsSound ==
    ASSUME NEW ls, NEW st, Sound(ls, st), NEW d \in DOMAIN ls,
           NEW p, p = Deleted(ls[d], st), NEW ls2, Relisted(ls, d, NoList, ls2)
    PROVE  /\ Sound(ls2, p) /\ Changed(ls, st, ls2, p, d, NoList)
<1> USE KindsApart
<1>1. PICK kind, rank, depth, chain :
        Filed(st, kind, rank, depth, chain) /\ Held(ls, st, kind, rank)
  BY DEF Sound
<1>2. DOMAIN ls \subseteq Int /\ d \in Int /\ ls = [n \in DOMAIN ls |-> ls[n]]
      /\ st.expected + 1 <= 2^MaxClass
  BY DEF Sound
<1>3. PICK l : l = ls[d]
  OBVIOUS
<1>4. GoodList(l, st) /\ Holds(kind, rank, ListKind, d, ListAt(l), ListSpan(l, st))
  BY <1>1, <1>3 DEF Held
<1>5. PICK begin \in Int, cap \in Nat, a \in Nat, span \in Nat :
        /\ begin = l.begin /\ cap = Capacity(l, st) /\ a = BlockAt(begin) /\ span = BlockCells(begin, cap)
        /\ a = ListAt(l) /\ span = ListSpan(l, st)
  BY <1>4, ListIs DEF ListAt, ListSpan
<1>6. p = Deallocate(st, begin, cap)
  BY <1>3, <1>5 DEF Deleted
<1>7. Holds(kind, rank, ListKind, d, a, span)
  BY <1>4, <1>5
<1>8. Freed(st, kind, rank, p, ListKind, d)
  BY <1>1, <1>2, <1>5, <1>6, <1>7, DeallocateKeepsFiled
<1>9. PICK kind2, rank2, depth2, chain2 :
         /\ Filed(p, kind2, rank2, depth2, chain2)
         /\ Kept(st, kind, rank, p, kind2, rank2, ListKind, d)
         /\ \A i \in DOMAIN kind2 : ~(kind2[i] = ListKind /\ rank2[i] = d)
         /\ p.expected = st.expected
  BY <1>8 DEF Freed
<1>10. GoodList(NoList, p)
  BY DEF GoodList
<1>11. ListAt(NoList) \in Nat /\ ListSpan(NoList, p) = 0
  <2>1. NoList.len = 0 /\ NoList.begin = 0
    BY DEF NoList
  <2>2. Capacity(NoList, p) = 0
    BY <2>1, <1>10, ListIs
  <2>3. QED
    BY <2>1, <2>2 DEF ListAt, ListSpan, BlockAt, BlockCells
<1>12. Holds(kind2, rank2, ListKind, d, ListAt(NoList), ListSpan(NoList, p))
  BY <1>9, <1>11 DEF Holds
<1>13. Changed(ls, st, ls2, p, d, NoList) /\ Held(ls2, p, kind2, rank2)
  BY <1>1, <1>2, <1>9, <1>10, <1>12, OthersStay DEF Relisted
<1>14. DOMAIN ls2 = DOMAIN ls /\ ls2 = [n \in DOMAIN ls2 |-> ls2[n]]
  BY <1>2 DEF Relisted
<1>15. Sound(ls2, p)
  BY <1>2, <1>9, <1>13, <1>14 DEF Sound
<1>16. QED
  BY <1>13, <1>15

\* New nodes have no cells.
LEMMA GrownListsSound ==
    ASSUME NEW ls, NEW st, Sound(ls, st), NEW ls2, DOMAIN ls2 \subseteq Int,
           DOMAIN ls \subseteq DOMAIN ls2, ls2 = [n \in DOMAIN ls2 |-> ls2[n]],
           \A n \in DOMAIN ls2 : ls2[n] = IF n \in DOMAIN ls THEN ls[n] ELSE NoList
    PROVE  Sound(ls2, st)
<1> USE KindsApart
<1>1. PICK kind, rank, depth, chain :
        Filed(st, kind, rank, depth, chain) /\ Held(ls, st, kind, rank)
  BY DEF Sound
<1>2. ASSUME NEW n \in DOMAIN ls2
      PROVE  /\ GoodList(ls2[n], st)
             /\ Holds(kind, rank, ListKind, n, ListAt(ls2[n]), ListSpan(ls2[n], st))
  <2>1. CASE n \in DOMAIN ls
    BY <2>1, <1>1 DEF Held
  <2>2. CASE n \notin DOMAIN ls
    <3>1. ls2[n] = NoList
      BY <2>2
    <3>2. GoodList(NoList, st)
      BY DEF GoodList
    <3>3. ListAt(NoList) \in Nat /\ ListSpan(NoList, st) = 0
      <4>1. NoList.len = 0 /\ NoList.begin = 0
        BY DEF NoList
      <4>2. Capacity(NoList, st) = 0
        BY <4>1, <3>2, ListIs
      <4>3. QED
        BY <4>1, <4>2 DEF ListAt, ListSpan, BlockAt, BlockCells
    <3>4. \A i \in DOMAIN kind : ~(kind[i] = ListKind /\ rank[i] = n)
      BY <2>2, <1>1 DEF Held
    <3>5. Holds(kind, rank, ListKind, n, ListAt(NoList), ListSpan(NoList, st))
      BY <3>3, <3>4 DEF Holds
    <3>6. QED
      BY <3>1, <3>2, <3>5
  <2>3. QED
    BY <2>1, <2>2
<1>3. \A i \in DOMAIN kind :
        kind[i] \in Classes \/ (kind[i] = ListKind /\ rank[i] \in DOMAIN ls2)
  BY <1>1 DEF Held
<1>4. Held(ls2, st, kind, rank)
  BY <1>2, <1>3 DEF Held
<1>5. QED
  BY <1>1, <1>4 DEF Sound

\* reserve_per_node
LEMMA EstimateKeepsSound ==
    ASSUME NEW ls, NEW st, Sound(ls, st), NEW e \in Nat, e + 1 <= 2^MaxClass,
           NEW st2, st2 = [st EXCEPT !.expected = e]
    PROVE  Sound(ls, st2) /\ st2.cells = st.cells
<1>1. PICK kind, rank, depth, chain :
        Filed(st, kind, rank, depth, chain) /\ Held(ls, st, kind, rank)
  BY DEF Sound
<1>2. Filed(st2, kind, rank, depth, chain) /\ st2.cells = st.cells /\ st2.expected = e
  BY <1>1, EstimateKeepsFiled
<1>3. \A n \in DOMAIN ls : GoodList(ls[n], st2) = GoodList(ls[n], st)
                           /\ ListSpan(ls[n], st2) = ListSpan(ls[n], st)
  BY <1>2, SameCellsSameList
<1>4. Held(ls, st2, kind, rank)
  BY <1>1, <1>3 DEF Held
<1>5. QED
  BY <1>2, <1>4 DEF Sound

\* At first there are neither cells nor connections.
LEMMA EmptySound ==
    ASSUME NEW ls, DOMAIN ls \subseteq Int, ls = [n \in DOMAIN ls |-> ls[n]],
           \A n \in DOMAIN ls : ls[n] = NoList
    PROVE  Sound(ls, EmptyStore)
<1>1. PICK st : st = EmptyStore
  OBVIOUS
<1>2. PICK none : none = [i \in {} |-> 0]
  OBVIOUS
<1>3. PICK depth : depth = [c \in Classes |-> 0]
  OBVIOUS
<1>4. PICK chain : chain = [c \in Classes |-> [j \in Nat |-> 0]]
  OBVIOUS
<1>5. st = [cells |-> none, heads |-> [c \in Classes |-> 0], mask |-> {}, expected |-> 0]
  BY <1>1, <1>2 DEF EmptyStore
<1>6. /\ st.cells = none /\ st.heads = [c \in Classes |-> 0] /\ st.mask = {} /\ st.expected = 0
      /\ DOMAIN none = {}
  BY <1>2, <1>5
<1>7. Shape(st)
  <2>1. DOMAIN st.cells = 0 .. 0 - 1
    BY <1>6
  <2>2. \E n \in Nat : DOMAIN st.cells = 0 .. n - 1
    BY <2>1
  <2>3. st.cells = [i \in DOMAIN st.cells |-> st.cells[i]]
    BY <1>2, <1>6
  <2>4. st.heads \in [Classes -> Int]
    BY <1>6
  <2>5. QED
    BY <2>2, <2>3, <2>4, <1>5, <1>6 DEF Shape
<1>8. Ghosts(st, none, none, depth, chain)
  <2>1. none \in [DOMAIN st.cells -> Int]
    BY <1>2, <1>6
  <2>2. depth \in [Classes -> Nat] /\ chain \in [Classes -> [Nat -> Int]]
    BY <1>3, <1>4
  <2>3. QED
    BY <2>1, <2>2 DEF Ghosts
<1>9. Threaded(st, depth, chain)
  BY <1>3, <1>4, <1>6 DEF Threaded
<1>10. Divided(st, none, none, depth, chain)
  BY <1>3, <1>6 DEF Divided
<1>11. Held(ls, st, none, none)
  <2>1. ASSUME NEW n \in DOMAIN ls
        PROVE  /\ GoodList(ls[n], st)
               /\ Holds(none, none, ListKind, n, ListAt(ls[n]), ListSpan(ls[n], st))
    <3>1. ls[n] = NoList /\ GoodList(NoList, st)
      BY DEF GoodList
    <3>2. NoList.len = 0 /\ NoList.begin = 0
      BY DEF NoList
    <3>3. Capacity(NoList, st) = 0
      BY <3>1, <3>2, ListIs
    <3>4. ListAt(NoList) \in Nat /\ ListSpan(NoList, st) = 0
      BY <3>2, <3>3 DEF ListAt, ListSpan, BlockAt, BlockCells
    <3>5. QED
      BY <3>1, <3>4, <1>6 DEF Holds
  <2>2. QED
    BY <2>1, <1>6 DEF Held
<1>12. 0 + 1 <= 2^MaxClass
  <2>1. PICK top \in Nat : top = 2^MaxClass /\ 0 < top
    BY ClassPower, ClassAssumption DEF Classes
  <2>2. QED
    BY <2>1
<1>13. QED
  BY <1>1, <1>6, <1>7, <1>8, <1>9, <1>10, <1>11, <1>12 DEF Sound, Filed

-----------------------------------------------------------------------------
(* The blocks on the free lists.                                             *)

\* The block at a depth of a free list.
BlockOfHead(cells, c, h) == HeadStart(h) .. HeadStart(h) + HeadCells(cells, c, h) - 1

\* No class has more blocks than there are cells.
LEMMA DepthBounded ==
    ASSUME NEW st, NEW kind, NEW rank, NEW depth, NEW chain, Filed(st, kind, rank, depth, chain),
           NEW c \in Classes
    PROVE  /\ IsFiniteSet(DOMAIN st.cells) /\ Cardinality(DOMAIN st.cells) \in Nat
           /\ depth[c] \in Nat /\ depth[c] <= Cardinality(DOMAIN st.cells)
<1>1. PICK n \in Nat : DOMAIN st.cells = 0 .. n - 1
  BY DEF Filed, Shape
<1>2. IsFiniteSet(DOMAIN st.cells) /\ Cardinality(DOMAIN st.cells) \in Nat
  <2>1. n - 1 \in Int
    OBVIOUS
  <2>2. IsFiniteSet(0 .. n - 1)
    BY <2>1, FS_Interval
  <2>3. QED
    BY <2>2, <1>1, FS_CardinalityType
<1>3. PICK d \in Nat : d = depth[c]
  BY DEF Filed, Ghosts
<1>4. PICK ch \in [Nat -> Int] : ch = chain[c]
  BY DEF Filed, Ghosts
<1>5. PICK f : f = [j \in 1 .. d |-> HeadStart(ch[j])]
  OBVIOUS
<1>6. ASSUME NEW j \in 1 .. d
      PROVE  f[j] \in DOMAIN st.cells /\ rank[f[j]] = j
  <2>1. j \in Nat /\ 0 < j /\ j <= d
    OBVIOUS
  <2>2. PICK h : h = ch[j]
    OBVIOUS
  <2>3. Entry(st.cells, c, h)
        /\ Holds(kind, rank, c, j, HeadStart(h), HeadCells(st.cells, c, h))
    BY <2>1, <2>2, <1>3, <1>4 DEF Filed, Threaded, Divided
  <2>4. HeadStart(h) \in Nat /\ HeadCells(st.cells, c, h) \in Nat /\ HeadCells(st.cells, c, h) > 0
    BY <2>3, EntryInside
  <2>5. PICK a \in Nat, m \in Nat : a = HeadStart(h) /\ m = HeadCells(st.cells, c, h) /\ m > 0
    BY <2>4
  <2>6. a \in Int /\ a <= a /\ a < a + m
    BY <2>5
  <2>7. a \in DOMAIN kind /\ rank[a] = j
    BY <2>3, <2>5, <2>6 DEF Holds
  <2>8. DOMAIN kind = DOMAIN st.cells
    BY DEF Filed, Ghosts
  <2>9. QED
    BY <2>2, <2>5, <2>7, <2>8, <1>5
<1>7. f \in Injection(1 .. d, DOMAIN st.cells)
  <2>1. f \in [1 .. d -> DOMAIN st.cells]
    BY <1>5, <1>6
  <2>2. \A i, j \in 1 .. d : f[i] = f[j] => i = j
    BY <1>6
  <2>3. QED
    BY <2>1, <2>2 DEF Injection, IsInjective
<1>8. Cardinality(1 .. d) = d
  <2>1. Cardinality(1 .. d) = IF 1 > d THEN 0 ELSE d - 1 + 1
    BY FS_Interval
  <2>2. QED
    BY <2>1
<1>9. Cardinality(1 .. d) <= Cardinality(DOMAIN st.cells)
  BY <1>2, <1>7, FS_Injection
<1>10. QED
  BY <1>2, <1>3, <1>8, <1>9

\* The walk through a free list meets its blocks, from the newest to the oldest.
LEMMA FreeBlocksAre ==
    ASSUME NEW st, NEW kind, NEW rank, NEW depth, NEW chain, Filed(st, kind, rank, depth, chain),
           NEW c \in Classes
    PROVE  FreeBlocks(st, c) = {BlockOfHead(st.cells, c, chain[c][j]) : j \in 1 .. depth[c]}
<1> DEFINE Link(h) == IF h = 0 THEN 0 ELSE st.cells[IF 0 < h THEN h - 1 ELSE -h]
<1>1. PICK d \in Nat, size \in Nat :
        d = depth[c] /\ size = Cardinality(DOMAIN st.cells) /\ d <= size
  BY DepthBounded
<1>2. PICK ch \in [Nat -> Int] : ch = chain[c]
  BY DEF Filed, Ghosts
<1>3. /\ ch[0] = 0 /\ st.heads[c] = ch[d]
      /\ \A j \in Nat : 0 < j /\ j <= d =>
           Entry(st.cells, c, ch[j]) /\ st.cells[HeadLink(ch[j])] = ch[j - 1]
  BY <1>1, <1>2 DEF Filed, Threaded
<1>4. \A j \in Nat : j <= d => (ch[j] # 0 <=> 0 < j)
  BY <1>3 DEF Entry
<1>5. \A j \in Nat : 0 < j /\ j <= d => Link(ch[j]) = ch[j - 1]
  <2>1. ASSUME NEW j \in Nat, 0 < j, j <= d
        PROVE  Link(ch[j]) = ch[j - 1]
    <3>1. PICK h \in Int : h = ch[j] /\ h # 0
      BY <2>1, <1>4
    <3>2. Link(h) = st.cells[HeadLink(h)]
      BY <3>1 DEF HeadLink
    <3>3. QED
      BY <3>1, <3>2, <2>1, <1>3
  <2>2. QED
    BY <2>1
<1>6. Link(0) = 0
  OBVIOUS
<1> HIDE DEF Link
<1>7. PICK W : W = [n \in 0 .. size |-> IF n <= d THEN ch[d - n] ELSE 0]
  OBVIOUS
<1>8. \A n \in 0 .. size : W[n] = IF n = 0 THEN st.heads[c] ELSE Link(W[n - 1])
  <2>1. ASSUME NEW n \in 0 .. size
        PROVE  W[n] = IF n = 0 THEN st.heads[c] ELSE Link(W[n - 1])
    <3>1. CASE n = 0
      <4>1. d - n = d /\ n <= d
        BY <3>1
      <4>2. W[n] = ch[d]
        BY <4>1, <1>7
      <4>3. QED
        BY <4>2, <3>1, <1>3
    <3>2. CASE 0 < n
      <4>1. n - 1 \in 0 .. size
        BY <3>2
      <4>2. CASE n <= d
        <5>1. PICK j \in Nat : j = d - (n - 1) /\ 0 < j /\ j <= d /\ j - 1 = d - n /\ n - 1 <= d
          BY <4>2, <3>2
        <5>2. W[n - 1] = ch[j] /\ W[n] = ch[j - 1]
          BY <5>1, <4>1, <4>2, <1>7
        <5>3. QED
          BY <5>1, <5>2, <3>2, <1>5
      <4>3. CASE n = d + 1
        <5>1. d - (n - 1) = 0 /\ n - 1 <= d /\ ~(n <= d)
          BY <4>3
        <5>2. W[n - 1] = ch[0] /\ W[n] = 0
          BY <5>1, <4>1, <1>7
        <5>3. QED
          BY <5>2, <3>2, <1>3, <1>6
      <4>4. CASE d + 1 < n
        <5>1. ~(n - 1 <= d) /\ ~(n <= d)
          BY <4>4
        <5>2. W[n - 1] = 0 /\ W[n] = 0
          BY <5>1, <4>1, <1>7
        <5>3. QED
          BY <5>2, <3>2, <1>6
      <4>5. QED
        BY <4>2, <4>3, <4>4
    <3>3. QED
      BY <3>1, <3>2
  <2>2. QED
    BY <2>1
<1>9. PICK walk : walk = CHOOSE g : g = [n \in 0 .. size |-> IF n = 0 THEN st.heads[c] ELSE Link(g[n - 1])]
  OBVIOUS
<1>10. walk = [n \in 0 .. size |-> IF n = 0 THEN st.heads[c] ELSE Link(walk[n - 1])]
  <2>1. W = [n \in 0 .. size |-> IF n = 0 THEN st.heads[c] ELSE Link(W[n - 1])]
    BY <1>7, <1>8
  <2>2. \E g : g = [n \in 0 .. size |-> IF n = 0 THEN st.heads[c] ELSE Link(g[n - 1])]
    BY <2>1
  <2>3. QED
    BY <2>2, <1>9
<1>11. \A n \in 0 .. size : walk[n] = W[n]
  <2> DEFINE S == {n \in Nat : n <= size => walk[n] = W[n]}
  <2>1. 0 \in S
    BY <1>8, <1>10
  <2>2. ASSUME NEW k \in Nat, k \in S
        PROVE  k + 1 \in S
    <3>1. SUFFICES ASSUME k + 1 <= size
                   PROVE  walk[k + 1] = W[k + 1]
      OBVIOUS
    <3>2. k + 1 \in 0 .. size /\ (k + 1) - 1 = k /\ k + 1 # 0 /\ k <= size
      BY <3>1
    <3>3. walk[k] = W[k]
      BY <3>2, <2>2
    <3>4. walk[k + 1] = Link(walk[k])
      BY <3>2, <1>10
    <3>5. W[k + 1] = Link(W[k])
      BY <3>2, <1>8
    <3>6. QED
      BY <3>3, <3>4, <3>5
  <2> HIDE DEF S
  <2>3. Nat \subseteq S
    BY <2>1, <2>2, Induction
  <2>4. QED
    BY <2>3 DEF S
<1>12. FreeBlocks(st, c) = {BlockOfHead(st.cells, c, walk[n]) : n \in {k \in 0 .. size : walk[k] # 0}}
  <2> DEFINE start(h) == IF 0 < h THEN h - 1 ELSE Complement(h)
             cells(h) == start(h) .. start(h) + (IF 0 < h THEN 2^c - 1 ELSE st.cells[start(h)])
  <2>1. FreeBlocks(st, c) = {cells(walk[n]) : n \in {k \in 0 .. size : walk[k] # 0}}
    BY <1>1, <1>9 DEF FreeBlocks, Link
  <2>2. ASSUME NEW n \in 0 .. size, walk[n] # 0
        PROVE  cells(walk[n]) = BlockOfHead(st.cells, c, walk[n])
    <3>1. n <= d /\ walk[n] = ch[d - n]
      BY <2>2, <1>7, <1>11
    <3>2. PICK j \in Nat : j = d - n /\ j <= d
      BY <3>1
    <3>3. PICK h \in Int : h = ch[j]
      BY <3>2
    <3>4. Entry(st.cells, c, h)
      BY <3>1, <3>2, <3>3, <2>2, <1>3, <1>4
    <3>5. PICK a \in Nat : a = HeadStart(h) /\ a = start(h)
      BY <3>3, <3>4, EntryInside DEF HeadStart
    <3>6. CASE 0 < h
      <4>1. PICK w \in Nat : w = 2^c
        BY ClassPower
      <4>2. HeadCells(st.cells, c, h) = w
        BY <3>6, <4>1 DEF HeadCells, ClassCells
      <4>3. cells(h) = a .. a + (w - 1)
        BY <3>5, <3>6, <4>1
      <4>4. a + (w - 1) = a + w - 1
        BY <4>1
      <4>5. QED
        BY <3>1, <3>2, <3>3, <3>5, <4>2, <4>3, <4>4 DEF BlockOfHead
    <3>7. CASE ~(0 < h)
      <4>1. h < 0 /\ a = Complement(h)
        BY <3>3, <3>4, <3>5, <3>7 DEF Entry, HeadStart
      <4>2. PICK m \in Nat : m = st.cells[a]
        BY <3>4, <4>1 DEF Entry
      <4>3. HeadCells(st.cells, c, h) = m + 1
        BY <3>7, <4>1, <4>2 DEF HeadCells
      <4>4. cells(h) = a .. a + m
        BY <3>5, <3>7, <4>2
      <4>5. a + m = a + (m + 1) - 1
        BY <4>2
      <4>6. QED
        BY <3>1, <3>2, <3>3, <3>5, <4>3, <4>4, <4>5 DEF BlockOfHead
    <3>8. QED
      BY <3>6, <3>7
  <2> HIDE DEF cells
  <2>3. QED
    BY <2>1, <2>2
<1>13. \A n \in 0 .. size : walk[n] # 0 => d - n \in 1 .. d /\ walk[n] = ch[d - n]
  <2>1. ASSUME NEW n \in 0 .. size, walk[n] # 0
        PROVE  d - n \in 1 .. d /\ walk[n] = ch[d - n]
    <3>1. n <= d /\ walk[n] = ch[d - n]
      BY <2>1, <1>7, <1>11
    <3>2. PICK j \in Nat : j = d - n /\ j <= d
      BY <3>1
    <3>3. 0 < j
      BY <3>1, <3>2, <2>1, <1>4
    <3>4. QED
      BY <3>1, <3>2, <3>3
  <2>2. QED
    BY <2>1
<1>14. \A j \in 1 .. d : d - j \in 0 .. size /\ walk[d - j] # 0 /\ walk[d - j] = ch[j]
  <2>1. ASSUME NEW j \in 1 .. d
        PROVE  d - j \in 0 .. size /\ walk[d - j] # 0 /\ walk[d - j] = ch[j]
    <3>1. PICK n \in 0 .. size : n = d - j /\ n <= d /\ d - n = j
      BY <1>1
    <3>2. walk[n] = ch[j]
      BY <3>1, <1>7, <1>11
    <3>3. QED
      BY <3>1, <3>2, <1>4
  <2>2. QED
    BY <2>1
<1>15. {BlockOfHead(st.cells, c, walk[n]) : n \in {k \in 0 .. size : walk[k] # 0}}
         = {BlockOfHead(st.cells, c, ch[j]) : j \in 1 .. d}
  BY <1>13, <1>14
<1>16. QED
  BY <1>1, <1>2, <1>12, <1>15

-----------------------------------------------------------------------------
(* Sound lists partition the cells.                                          *)

\* The cells of a list's block.
LEMMA BlockIs ==
    ASSUME NEW l, NEW st, GoodList(l, st)
    PROVE  /\ \A i : i \in Block(l, st) <=>
                i \in Int /\ ListAt(l) <= i /\ i < ListAt(l) + ListSpan(l, st)
           /\ Connections(l) \subseteq Block(l, st)
<1>1. PICK a \in Nat, f \in Nat, n \in Nat, cap \in Nat, span \in Nat :
        /\ a = ListAt(l) /\ f = FirstCell(l) /\ n = Count(l) /\ cap = Capacity(l, st)
        /\ span = ListSpan(l, st)
  BY ListIs, ConnectionsAre
<1>2. n <= cap /\ a <= f /\ f + cap = a + span
  BY <1>1, ListIs
<1>3. l.begin \in Int /\ (l.begin < 0 => Complement(l.begin) = a) /\ (~(l.begin < 0) => f = a)
  BY <1>1, ListIs DEF ListAt, BlockAt
<1>4. Block(l, st) = a .. f + cap - 1
  BY <1>1, <1>3 DEF Block
<1>5. \A i : i \in Block(l, st) <=> i \in Int /\ a <= i /\ i < a + span
  BY <1>2, <1>4
<1>6. \A i \in Connections(l) : i \in Int /\ f <= i /\ i < f + n
  BY <1>1, ConnectionsAre
<1>7. Connections(l) \subseteq Block(l, st)
  BY <1>2, <1>5, <1>6
<1>8. QED
  BY <1>1, <1>5, <1>7

\* The block of a power of two is filed under its own class.
LEMMA ClassOfPower ==
    ASSUME NEW c \in Classes
    PROVE  FloorClass(ClassCells(c)) = c
<1>1. PICK w \in Nat : w = 2^c /\ w > 0
  BY ClassPower
<1>2. PICK e : e = FloorClass(w)
  OBVIOUS
<1>3. MaxClass \in Classes
  BY ClassAssumption DEF Classes
<1>4. e \in Classes /\ 2^e <= w /\ \A z \in Classes : 2^z <= w => z <= e
  BY <1>1, <1>2, FloorClassIs
<1>5. PICK v \in Nat : v = 2^e
  BY <1>4, ClassPower
<1>6. 2^c <= w
  BY <1>1
<1>7. c <= e
  BY <1>4, <1>6
<1>8. c < e => 2^c < 2^e
  BY <1>4, ClassesOrdered
<1>9. c < e => w < v
  BY <1>1, <1>5, <1>8
<1>10. v <= w
  BY <1>4, <1>5
<1>11. c = e
  BY <1>4, <1>7, <1>9, <1>10, <1>1, ClassPower
<1>12. QED
  BY <1>1, <1>2, <1>11 DEF ClassCells

\* The cells of a free block, its owner, and the class its length says.
LEMMA FreeBlockIs ==
    ASSUME NEW st, NEW kind, NEW rank, NEW depth, NEW chain, Filed(st, kind, rank, depth, chain),
           NEW c \in Classes, NEW j \in 1 .. depth[c],
           NEW b, b = BlockOfHead(st.cells, c, chain[c][j])
    PROVE  /\ \A i : i \in b <=> i \in DOMAIN st.cells /\ kind[i] = c /\ rank[i] = j
           /\ b # {} /\ FloorClass(Cardinality(b)) = c
<1>1. depth[c] \in Nat
  BY DEF Filed, Ghosts
<1>2. j \in Nat /\ 0 < j /\ j <= depth[c]
  BY <1>1
<1>3. PICK h : h = chain[c][j]
  OBVIOUS
<1>4. Entry(st.cells, c, h)
      /\ Holds(kind, rank, c, j, HeadStart(h), HeadCells(st.cells, c, h))
  BY <1>2, <1>3 DEF Filed, Threaded, Divided
<1>5. PICK a \in Nat, m \in Nat : a = HeadStart(h) /\ m = HeadCells(st.cells, c, h) /\ m > 0
  BY <1>4, EntryInside
<1>6. b = a .. a + m - 1
  BY <1>3, <1>5 DEF BlockOfHead
<1>7. DOMAIN kind = DOMAIN st.cells /\ DOMAIN st.cells \subseteq Int
  BY DEF Filed, Ghosts, Shape
<1>8. \A i \in Int : (i \in DOMAIN kind /\ kind[i] = c /\ rank[i] = j) <=> (a <= i /\ i < a + m)
  BY <1>4, <1>5 DEF Holds
<1>9. \A i : i \in b <=> i \in DOMAIN st.cells /\ kind[i] = c /\ rank[i] = j
  BY <1>6, <1>7, <1>8
<1>10. a \in b
  BY <1>5, <1>6
<1>11. Cardinality(b) = m
  <2>1. PICK z \in Int : z = a + m - 1 /\ ~(a > z) /\ z - a + 1 = m
    BY <1>5
  <2>2. Cardinality(a .. z) = IF a > z THEN 0 ELSE z - a + 1
    BY FS_Interval
  <2>3. QED
    BY <2>1, <2>2, <1>6
<1>12. FloorClass(m) = c
  <2>1. CASE 0 < h
    BY <2>1, <1>5, ClassOfPower DEF HeadCells
  <2>2. CASE ~(0 < h)
    <3>1. h < 0 /\ FloorClass(st.cells[Complement(h)] + 1) = c
      BY <2>2, <1>4 DEF Entry
    <3>2. m = st.cells[Complement(h)] + 1
      BY <2>2, <1>5 DEF HeadCells
    <3>3. QED
      BY <3>1, <3>2
  <2>3. QED
    BY <2>1, <2>2
<1>13. QED
  BY <1>9, <1>10, <1>11, <1>12

PairsOf(S, T) == {<<n, i>> : n \in S, i \in T}

\* Where the lists are sound, the cells are partitioned.
LEMMA SoundPartitions ==
    ASSUME Sound(list, store), DOMAIN list = Ids
    PROVE  CellsPartitioned
<1> USE KindsApart
<1>1. PICK kind, rank, depth, chain :
        Filed(store, kind, rank, depth, chain) /\ Held(list, store, kind, rank)
  BY DEF Sound
<1>2. PICK D : D = DOMAIN store.cells
  OBVIOUS
<1>3. /\ DOMAIN kind = D /\ D \subseteq Int /\ IsFiniteSet(D)
      /\ \A i \in D : kind[i] \in Int /\ rank[i] \in Int
  <2>1. DOMAIN kind = D /\ D \subseteq Int
    BY <1>1, <1>2 DEF Filed, Ghosts, Shape
  <2>2. \A i \in D : kind[i] \in Int /\ rank[i] \in Int
    BY <1>1, <1>2 DEF Filed, Ghosts
  <2>3. MaxClass \in Classes
    BY ClassAssumption DEF Classes
  <2>4. IsFiniteSet(D)
    BY <2>3, <1>1, <1>2, DepthBounded
  <2>5. QED
    BY <2>1, <2>2, <2>4
<1>4. ASSUME NEW n \in Ids
      PROVE  /\ Connections(list[n]) \subseteq Block(list[n], store)
             /\ \A i : i \in Block(list[n], store) <=> i \in D /\ kind[i] = ListKind /\ rank[i] = n
  <2>1. PICK l : l = list[n]
    OBVIOUS
  <2>2. GoodList(l, store) /\ Holds(kind, rank, ListKind, n, ListAt(l), ListSpan(l, store))
    BY <2>1, <1>1 DEF Held
  <2>3. /\ \A i : i \in Block(l, store) <=>
             i \in Int /\ ListAt(l) <= i /\ i < ListAt(l) + ListSpan(l, store)
        /\ Connections(l) \subseteq Block(l, store)
    BY <2>2, BlockIs
  <2>4. \A i : i \in Block(l, store) <=> i \in D /\ kind[i] = ListKind /\ rank[i] = n
    BY <2>2, <2>3, <1>3 DEF Holds
  <2>5. QED
    BY <2>1, <2>3, <2>4
<1>5. PICK spare : spare = [c \in Classes |-> FreeBlocks(store, c)]
  OBVIOUS
<1>6. \A c \in Classes : spare[c] = {BlockOfHead(store.cells, c, chain[c][j]) : j \in 1 .. depth[c]}
  BY <1>1, <1>5, FreeBlocksAre
<1>7. ASSUME NEW c \in Classes, NEW j \in 1 .. depth[c],
             NEW b, b = BlockOfHead(store.cells, c, chain[c][j])
      PROVE  /\ \A i : i \in b <=> i \in D /\ kind[i] = c /\ rank[i] = j
             /\ b # {} /\ FloorClass(Cardinality(b)) = c
  BY <1>1, <1>2, <1>7, FreeBlockIs
<1>8. \A i \in D : \/ kind[i] = ListKind /\ rank[i] \in Ids
                   \/ kind[i] \in Classes /\ rank[i] \in 1 .. depth[kind[i]]
  <2>1. ASSUME NEW i \in D, kind[i] \in Classes
        PROVE  rank[i] \in 1 .. depth[kind[i]]
    <3>1. 0 < rank[i] /\ rank[i] <= depth[kind[i]]
      BY <2>1, <1>1, <1>2 DEF Filed, Divided
    <3>2. depth[kind[i]] \in Nat /\ rank[i] \in Int
      BY <2>1, <1>1, <1>2, <1>3 DEF Filed, Ghosts
    <3>3. QED
      BY <3>1, <3>2
  <2>2. QED
    BY <2>1, <1>1, <1>3 DEF Held
<1>9. PICK used : used = UNION {Block(list[n], store) : n \in Ids}
  OBVIOUS
<1>10. \A i : i \in used <=> i \in D /\ kind[i] = ListKind
  <2>1. ASSUME NEW i, i \in used
        PROVE  i \in D /\ kind[i] = ListKind
    BY <2>1, <1>4, <1>9
  <2>2. ASSUME NEW i, i \in D, kind[i] = ListKind
        PROVE  i \in used
    <3>1. rank[i] \in Ids
      BY <2>2, <1>8
    <3>2. PICK n \in Ids : n = rank[i]
      BY <3>1
    <3>3. i \in Block(list[n], store)
      BY <2>2, <3>2, <1>4
    <3>4. QED
      BY <3>3, <1>9
  <2>3. QED
    BY <2>1, <2>2
<1>11. PICK unused : unused = UNION {UNION spare[c] : c \in Classes}
  OBVIOUS
<1>12. \A i : i \in unused <=> i \in D /\ kind[i] \in Classes
  <2>1. ASSUME NEW i, i \in unused
        PROVE  i \in D /\ kind[i] \in Classes
    <3>1. PICK c \in Classes : i \in UNION spare[c]
      BY <2>1, <1>11
    <3>2. PICK b \in spare[c] : i \in b
      BY <3>1
    <3>3. PICK j \in 1 .. depth[c] : b = BlockOfHead(store.cells, c, chain[c][j])
      BY <3>2, <1>6
    <3>4. QED
      BY <3>1, <3>2, <3>3, <1>7
  <2>2. ASSUME NEW i, i \in D, kind[i] \in Classes
        PROVE  i \in unused
    <3>1. PICK c \in Classes : c = kind[i]
      BY <2>2
    <3>2. PICK j \in 1 .. depth[c] : j = rank[i]
      BY <2>2, <3>1, <1>8
    <3>3. PICK b : b = BlockOfHead(store.cells, c, chain[c][j])
      OBVIOUS
    <3>4. i \in b
      BY <2>2, <3>1, <3>2, <3>3, <1>7
    <3>5. b \in spare[c]
      BY <3>3, <1>6
    <3>6. QED
      BY <3>4, <3>5, <1>11
  <2>3. QED
    BY <2>1, <2>2
<1>13. used \cup unused = D /\ used \cap unused = {}
  <2>1. \A i \in D : kind[i] = ListKind \/ kind[i] \in Classes
    BY <1>8
  <2>2. \A i : i \in used \cup unused <=> i \in D
    BY <2>1, <1>10, <1>12
  <2>3. \A i : ~(i \in used /\ i \in unused)
    BY <1>10, <1>12
  <2>4. QED
    BY <2>2, <2>3
<1>14. PICK held : held = PairsOf(Ids, D)
  OBVIOUS
<1>15. PICK owners : owners = {h \in held : h[2] \in Block(list[h[1]], store)}
  OBVIOUS
<1>16. Cardinality(owners) = Cardinality(used)
  <2>1. PICK f : f = [i \in used |-> <<rank[i], i>>]
    OBVIOUS
  <2>2. ASSUME NEW i \in used
        PROVE  f[i] = <<rank[i], i>> /\ f[i] \in owners
    <3>1. i \in D /\ kind[i] = ListKind /\ rank[i] \in Ids
      BY <2>2, <1>3, <1>8, <1>10
    <3>2. i \in Block(list[rank[i]], store)
      BY <3>1, <1>4
    <3>3. QED
      BY <2>1, <3>1, <3>2, <1>14, <1>15 DEF PairsOf
  <2>3. f \in [used -> owners]
    BY <2>1, <2>2
  <2>4. \A i, j \in used : f[i] = f[j] => i = j
    BY <2>2
  <2>5. ASSUME NEW h \in owners
        PROVE  \E i \in used : f[i] = h
    <3>1. PICK n \in Ids, i \in D : h = <<n, i>> /\ i \in Block(list[n], store)
      BY <1>14, <1>15 DEF PairsOf
    <3>2. kind[i] = ListKind /\ rank[i] = n
      BY <3>1, <1>4
    <3>3. i \in used
      BY <3>2, <1>10
    <3>4. QED
      BY <3>1, <3>2, <3>3, <2>1
  <2>6. f \in Bijection(used, owners)
    BY <2>3, <2>4, <2>5 DEF Bijection, Injection, Surjection, IsInjective
  <2>7. IsFiniteSet(used)
    <3>1. used \in SUBSET D
      BY <1>10
    <3>2. QED
      BY <3>1, <1>3, FS_Subset
  <2>8. QED
    BY <2>6, <2>7, FS_Bijection DEF ExistsBijection
<1>17. PICK pieces : pieces = UNION {{<<c, b>> : b \in spare[c]} : c \in Classes}
  OBVIOUS
<1>18. ASSUME NEW p \in pieces, NEW q \in pieces, p # q
       PROVE  p[2] \cap q[2] = {}
  <2>1. PICK c \in Classes : p \in {<<c, x>> : x \in spare[c]}
    BY <1>17
  <2>2. PICK b \in spare[c] : p = <<c, b>>
    BY <2>1
  <2>3. PICK e \in Classes : q \in {<<e, x>> : x \in spare[e]}
    BY <1>17
  <2>4. PICK d \in spare[e] : q = <<e, d>>
    BY <2>3
  <2>5. PICK j \in 1 .. depth[c] : b = BlockOfHead(store.cells, c, chain[c][j])
    BY <2>2, <1>6
  <2>6. PICK k \in 1 .. depth[e] : d = BlockOfHead(store.cells, e, chain[e][k])
    BY <2>4, <1>6
  <2>7. c # e \/ j # k
    BY <2>2, <2>4, <2>5, <2>6, <1>18
  <2>8. b \cap d = {}
    <3>1. \A i : i \in b <=> i \in D /\ kind[i] = c /\ rank[i] = j
      BY <2>5, <1>7
    <3>2. \A i : i \in d <=> i \in D /\ kind[i] = e /\ rank[i] = k
      BY <2>6, <1>7
    <3>3. QED
      BY <3>1, <3>2, <2>7
  <2>9. QED
    BY <2>2, <2>4, <2>8
<1>19. ASSUME NEW c \in Classes
       PROVE  c \in store.mask <=> spare[c] # {}
  <2>1. PICK d \in Nat : d = depth[c]
    BY <1>1 DEF Filed, Ghosts
  <2>2. c \in store.mask <=> d # 0
    BY <2>1, <1>1 DEF Filed, Threaded
  <2>3. d # 0 => 1 \in 1 .. d
    OBVIOUS
  <2>4. d = 0 => 1 .. d = {}
    OBVIOUS
  <2>5. spare[c] # {} <=> 1 .. d # {}
    BY <2>1, <1>6
  <2>6. QED
    BY <2>2, <2>3, <2>4, <2>5
<1>20. ASSUME NEW c \in Classes, NEW b \in spare[c]
       PROVE  FloorClass(Cardinality(b)) = c
  <2>1. PICK j \in 1 .. depth[c] : b = BlockOfHead(store.cells, c, chain[c][j])
    BY <1>6
  <2>2. QED
    BY <2>1, <1>7
<1>21. /\ \A n \in Ids : Connections(list[n]) \subseteq Block(list[n], store)
       /\ used \cup unused = DOMAIN store.cells
       /\ used \cap unused = {}
       /\ Cardinality(owners) = Cardinality(used)
       /\ \A p, q \in pieces : p # q => p[2] \cap q[2] = {}
       /\ \A c \in Classes : (c \in store.mask) = (spare[c] # {})
       /\ \A c \in Classes : \A b \in spare[c] : FloorClass(Cardinality(b)) = c
  <2>1. \A c \in Classes : (c \in store.mask) = (spare[c] # {})
    BY <1>19
  <2>2. QED
    BY <2>1, <1>2, <1>4, <1>13, <1>16, <1>18, <1>20
<1>22. QED
  BY <1>21, <1>2, <1>5, <1>9, <1>11, <1>14, <1>15, <1>17 DEF CellsPartitioned, PairsOf

-----------------------------------------------------------------------------
(* Sums over the nodes.                                                      *)

Picked(s) == CHOOSE x \in s : TRUE
SumBody(fun, g, s) == IF s = {} THEN 0 ELSE fun[Picked(s)] + g[s \ {Picked(s)}]
SumsUp(fun, S, g) == g = [s \in SUBSET S |-> SumBody(fun, g, s)]
Integers(fun, S) == \A x \in S : fun[x] \in Int
Totals(fun, S, g) ==
  \A t \in SUBSET S : g[t] \in Int /\ \A x \in t : g[t] = fun[x] + g[t \ {x}]

\* A member less.
LEMMA PickedIs ==
    ASSUME NEW s, IsFiniteSet(s), NEW x \in s
    PROVE  /\ IsFiniteSet(s \ {x}) /\ Cardinality(s) \in Nat /\ Cardinality(s) > 0
           /\ Cardinality(s \ {x}) = Cardinality(s) - 1
           /\ Picked(s) \in s
<1>1. Cardinality(s) \in Nat /\ Cardinality(s) # 0
  BY FS_CardinalityType, FS_EmptySet
<1>2. IsFiniteSet(s \ {x}) /\ Cardinality(s \ {x}) = Cardinality(s) - 1
  BY FS_RemoveElement
<1>3. Picked(s) \in s
  BY DEF Picked
<1>4. QED
  BY <1>1, <1>2, <1>3

\* There is such a function of the subsets, the larger ones from the smaller.
LEMMA SumsExist ==
    ASSUME NEW S, IsFiniteSet(S), NEW fun
    PROVE  \E g : SumsUp(fun, S, g)
<1> DEFINE Level(k) == {t \in SUBSET S : Cardinality(t) <= k}
           Good == {k \in Nat : \E g : g = [t \in Level(k) |-> SumBody(fun, g, t)]}
<1>1. \A t \in SUBSET S : IsFiniteSet(t) /\ Cardinality(t) \in Nat
  BY FS_Subset, FS_CardinalityType
<1>2. 0 \in Good
  <2>1. PICK g : g = [t \in Level(0) |-> 0]
    OBVIOUS
  <2>2. ASSUME NEW t \in Level(0)
        PROVE  SumBody(fun, g, t) = 0
    <3>1. t \in SUBSET S /\ Cardinality(t) <= 0
      OBVIOUS
    <3>2. t = {}
      BY <3>1, <1>1, FS_EmptySet
    <3>3. QED
      BY <3>2 DEF SumBody
  <2> HIDE DEF Level
  <2>3. g = [t \in Level(0) |-> SumBody(fun, g, t)]
    BY <2>1, <2>2
  <2>4. QED
    BY <2>3
<1>3. ASSUME NEW k \in Nat, k \in Good
      PROVE  k + 1 \in Good
  <2>1. PICK g : g = [t \in Level(k) |-> SumBody(fun, g, t)]
    BY <1>3
  <2>2. PICK h : h = [t \in Level(k + 1) |-> SumBody(fun, g, t)]
    OBVIOUS
  <2>3. ASSUME NEW t \in Level(k + 1)
        PROVE  SumBody(fun, g, t) = SumBody(fun, h, t)
    <3>1. CASE t = {}
      BY <3>1 DEF SumBody
    <3>2. CASE t # {}
      <4>1. PICK x : x = Picked(t)
        OBVIOUS
      <4>2. t \in SUBSET S /\ Cardinality(t) <= k + 1
        OBVIOUS
      <4>3. PICK y \in t : TRUE
        BY <3>2
      <4>4. x \in t
        BY <4>1, <4>2, <4>3, <1>1, PickedIs
      <4>5. Cardinality(t \ {x}) = Cardinality(t) - 1 /\ Cardinality(t) \in Nat
        BY <4>2, <4>4, <1>1, PickedIs
      <4>6. t \ {x} \in Level(k) /\ t \ {x} \in Level(k + 1)
        BY <4>2, <4>5
      <4> HIDE DEF Level
      <4>7. g[t \ {x}] = SumBody(fun, g, t \ {x})
        BY <4>6, <2>1
      <4>8. h[t \ {x}] = SumBody(fun, g, t \ {x})
        BY <4>6, <2>2
      <4>9. QED
        BY <3>2, <4>1, <4>7, <4>8 DEF SumBody
    <3>3. QED
      BY <3>1, <3>2
  <2> HIDE DEF Level
  <2>4. h = [t \in Level(k + 1) |-> SumBody(fun, h, t)]
    BY <2>2, <2>3
  <2>5. QED
    BY <2>4
<1> HIDE DEF Good
<1>4. Nat \subseteq Good
  BY <1>2, <1>3, Induction
<1>5. Cardinality(S) \in Nat
  BY FS_CardinalityType
<1>6. Level(Cardinality(S)) = SUBSET S
  BY FS_Subset
<1> HIDE DEF Level
<1>7. \E g : g = [t \in Level(Cardinality(S)) |-> SumBody(fun, g, t)]
  BY <1>4, <1>5 DEF Good
<1>8. PICK g : g = [t \in SUBSET S |-> SumBody(fun, g, t)]
  BY <1>6, <1>7
<1>9. QED
  BY <1>8 DEF SumsUp

\* Such a function takes any member away as well as the one it picks, and is
\* the same for numbers that are the same.
LEMMA SumsAre ==
    ASSUME NEW S, IsFiniteSet(S), NEW fun, Integers(fun, S), NEW g, SumsUp(fun, S, g)
    PROVE  Totals(fun, S, g)
<1> DEFINE Right(t) == g[t] \in Int /\ \A x \in t : g[t] = fun[x] + g[t \ {x}]
           Good == {k \in Nat : \A t \in SUBSET S : Cardinality(t) <= k => Right(t)}
<1>1. \A t \in SUBSET S : IsFiniteSet(t) /\ Cardinality(t) \in Nat
  BY FS_Subset, FS_CardinalityType
<1>2. \A t \in SUBSET S : g[t] = SumBody(fun, g, t)
  BY DEF SumsUp
<1>3. 0 \in Good
  <2>1. ASSUME NEW t \in SUBSET S, Cardinality(t) <= 0
        PROVE  Right(t)
    <3>1. t = {}
      BY <2>1, <1>1, FS_EmptySet
    <3>2. g[t] = 0
      BY <3>1, <1>2 DEF SumBody
    <3>3. QED
      BY <3>1, <3>2
  <2>2. QED
    BY <2>1
<1>4. ASSUME NEW k \in Nat, k \in Good
      PROVE  k + 1 \in Good
  <2>1. ASSUME NEW t \in SUBSET S, Cardinality(t) <= k + 1
        PROVE  Right(t)
    <3>1. CASE t = {}
      <4>1. g[t] = 0
        BY <3>1, <1>2 DEF SumBody
      <4>2. QED
        BY <3>1, <4>1
    <3>2. CASE t # {}
      <4>1. PICK c : c = Picked(t)
        OBVIOUS
      <4>2. PICK y \in t : TRUE
        BY <3>2
      <4>3. c \in t
        BY <4>1, <4>2, <2>1, <1>1, PickedIs
      <4>4. g[t] = fun[c] + g[t \ {c}]
        BY <3>2, <4>1, <2>1, <1>2 DEF SumBody
      <4>5. ASSUME NEW x \in t
            PROVE  Right(t \ {x})
        <5>1. t \ {x} \in SUBSET S
          BY <2>1
        <5>2. Cardinality(t \ {x}) = Cardinality(t) - 1 /\ Cardinality(t) \in Nat
          BY <2>1, <1>1, PickedIs
        <5>3. Cardinality(t \ {x}) <= k
          BY <5>2, <2>1
        <5>4. QED
          BY <5>1, <5>3, <1>4
      <4>6. g[t \ {c}] \in Int
        BY <4>3, <4>5
      <4>7. ASSUME NEW x \in t, x # c
            PROVE  g[t] = fun[x] + g[t \ {x}]
        <5>1. g[t \ {c}] = fun[x] + g[(t \ {c}) \ {x}]
          BY <4>3, <4>5, <4>7
        <5>2. g[t \ {x}] = fun[c] + g[(t \ {x}) \ {c}]
          BY <4>3, <4>5, <4>7
        <5>3. (t \ {c}) \ {x} = (t \ {x}) \ {c} /\ (t \ {c}) \ {x} = (t \ {c}) \ {x}
          OBVIOUS
        <5>4. fun[x] \in Int /\ fun[c] \in Int /\ g[t \ {c}] \in Int /\ g[t \ {x}] \in Int
          BY <4>3, <4>5, <4>7, <2>1 DEF Integers
        <5>5. PICK u : u = g[(t \ {c}) \ {x}]
          OBVIOUS
        <5>6. u = g[(t \ {x}) \ {c}]
          BY <5>3, <5>5
        <5>7. u \in Int
          <6>1. ((t \ {c}) \ {x}) \in SUBSET S
            BY <2>1
          <6>2. PICK s : s = t \ {c}
            OBVIOUS
          <6>3. s \in SUBSET S /\ x \in s /\ IsFiniteSet(s)
            BY <6>2, <4>7, <2>1, <1>1
          <6>4. Cardinality(s \ {x}) = Cardinality(s) - 1 /\ Cardinality(s) \in Nat
            BY <6>3, PickedIs
          <6>5. Cardinality(s) = Cardinality(t) - 1
            BY <6>2, <4>3, <2>1, <1>1, PickedIs
          <6>6. Cardinality(t) \in Nat
            BY <2>1, <1>1
          <6>7. Cardinality(s \ {x}) <= k
            BY <6>4, <6>5, <6>6, <2>1
          <6>8. Right(s \ {x})
            BY <6>1, <6>2, <6>7, <1>4
          <6>9. QED
            BY <6>2, <6>8, <5>5
        <5>8. PICK fc \in Int, fx \in Int, v \in Int : fc = fun[c] /\ fx = fun[x] /\ v = u
          BY <5>4, <5>7
        <5>9. g[t \ {c}] = fx + v /\ g[t \ {x}] = fc + v
          BY <5>1, <5>2, <5>5, <5>6, <5>8
        <5>10. fc + (fx + v) = fx + (fc + v)
          OBVIOUS
        <5>11. g[t] = fc + (fx + v) /\ fun[x] + g[t \ {x}] = fx + (fc + v)
          BY <5>8, <5>9, <4>4
        <5>12. QED
          BY <5>10, <5>11
      <4>8. fun[c] \in Int
        BY <4>3, <2>1 DEF Integers
      <4>9. g[t] \in Int
        BY <4>4, <4>6, <4>8
      <4>10. \A x \in t : g[t] = fun[x] + g[t \ {x}]
        BY <4>4, <4>7
      <4>11. QED
        BY <4>9, <4>10
    <3>3. QED
      BY <3>1, <3>2
  <2>2. QED
    BY <2>1
<1> HIDE DEF Good
<1>5. Nat \subseteq Good
  BY <1>3, <1>4, Induction
<1>6. ASSUME NEW t \in SUBSET S
      PROVE  Right(t)
  <2>1. PICK k \in Nat : k = Cardinality(t)
    BY <1>1
  <2>2. k \in Good
    BY <1>5
  <2>3. Cardinality(t) <= k
    BY <2>1
  <2>4. \A s \in SUBSET S : Cardinality(s) <= k => Right(s)
    <3> HIDE DEF Right
    <3>1. QED
      BY <2>2, Zenon DEF Good
  <2>5. QED
    <3> HIDE DEF Right
    <3>1. QED
      BY <2>3, <2>4, Zenon
<1>7. QED
  BY <1>6 DEF Totals

-----------------------------------------------------------------------------
(* rdeps.hpp and the lists on their own come as instances, which have copies *)
(* of the operators on lists and blocks: a copy is what it copies.           *)

\* Count in the instance of rdeps.hpp.
LEMMA RSameCount ==
    ASSUME NEW l PROVE R!Count(l) = Count(l)
  BY DEF R!Count, Count, R!Magnitude, Magnitude

\* Capacity in the instance of rdeps.hpp.
LEMMA RSameCapacity ==
    ASSUME NEW l, NEW st PROVE R!Capacity(l, st) = Capacity(l, st)
  BY DEF R!Capacity, Capacity, R!Count, Count, R!Magnitude, Magnitude, R!CeilClass, CeilClass,
     R!BitCeil, BitCeil, R!Classes, Classes, R!Min, Min, R!Complement, Complement

\* Allocate in the instance of rdeps.hpp.
LEMMA RSameAllocate ==
    ASSUME NEW st, NEW want, NEW implicit
    PROVE  R!Allocate(st, want, implicit) = Allocate(st, want, implicit)
  BY DEF R!Allocate, Allocate, R!CeilClass, CeilClass, R!Classes, Classes, R!FromFree, FromFree,
     R!PopFree, PopFree, R!Magnitude, Magnitude, R!Complement, Complement, R!FromEnd, FromEnd,
     R!Grown, Grown, R!Min, Min, R!Cardinality, Cardinality

\* MovedTo in the instance of rdeps.hpp.
LEMMA RSameMovedTo ==
    ASSUME NEW l, NEW new, NEW old, NEW capacity, NEW implicit
    PROVE  R!MovedTo(l, new, old, capacity, implicit) =
             MovedTo(l, new, old, capacity, implicit)
  BY DEF R!MovedTo, MovedTo, R!Count, Count, R!Magnitude, Magnitude, R!Deallocate, Deallocate,
     R!Blank, Blank, R!PushFree, PushFree, R!FloorClass, FloorClass, R!Max, Max, R!Complement,
     Complement, R!Classes, Classes, R!Copied, Copied, R!FirstCell, FirstCell

\* Deallocate in the instance of rdeps.hpp.
LEMMA RSameDeallocate ==
    ASSUME NEW st, NEW begin, NEW capacity
    PROVE  R!Deallocate(st, begin, capacity) = Deallocate(st, begin, capacity)
  BY DEF R!Deallocate, Deallocate, R!Blank, Blank, R!PushFree, PushFree, R!Magnitude, Magnitude,
     R!FloorClass, FloorClass, R!Max, Max, R!Complement, Complement, R!Classes, Classes

\* BitCeil in the instance of rdeps.hpp.
LEMMA RSameBitCeil ==
    ASSUME NEW n PROVE R!BitCeil(n) = BitCeil(n)
  BY DEF R!BitCeil, BitCeil, R!CeilClass, CeilClass, R!Classes, Classes, R!Min, Min

\* Moved in the instance of rdeps.hpp.
LEMMA RSameMoved ==
    ASSUME NEW l, NEW st, NEW capacity, NEW implicit
    PROVE  R!Moved(l, st, capacity, implicit) = Moved(l, st, capacity, implicit)
  BY RSameAllocate, RSameMovedTo, RSameCapacity DEF R!Moved, Moved

\* EndCell in the instance of rdeps.hpp.
LEMMA RSameEndCell ==
    ASSUME NEW l PROVE R!EndCell(l) = EndCell(l)
  BY DEF R!EndCell, EndCell, R!FirstCell, FirstCell, R!Magnitude, Magnitude, R!Count, Count

\* Lengthened in the instance of rdeps.hpp.
LEMMA RSameLengthened ==
    ASSUME NEW l, NEW n PROVE R!Lengthened(l, n) = Lengthened(l, n)
  BY DEF R!Lengthened, Lengthened

\* Longer in the instance of rdeps.hpp.
LEMMA RSameLonger ==
    ASSUME NEW moved PROVE R!Longer(moved) = Longer(moved)
  BY RSameEndCell, RSameLengthened DEF R!Longer, Longer

\* Max in the instance of rdeps.hpp.
LEMMA RSameMax ==
    ASSUME NEW S PROVE R!Max(S) = Max(S)
  BY DEF R!Max, Max

\* Reserved in the instance of rdeps.hpp.
LEMMA RSameReserved ==
    ASSUME NEW l, NEW st, NEW geometric
    PROVE  R!Reserved(l, st, geometric) = Reserved(l, st, geometric)
  BY RSameMax, RSameMoved DEF R!Reserved, Reserved

\* Expanded in the instance of rdeps.hpp.
LEMMA RSameExpanded ==
    ASSUME NEW l, NEW st, NEW force
    PROVE  R!Expanded(l, st, force) = Expanded(l, st, force)
  BY RSameCapacity, RSameCount, RSameBitCeil, RSameEndCell, RSameLengthened, RSameLonger,
     RSameReserved DEF R!Expanded, Expanded

\* TakesField in the instance of rdeps.hpp.
LEMMA RSameTakesField ==
    ASSUME NEW l, NEW st PROVE R!TakesField(l, st) = TakesField(l, st)
  BY RSameCapacity, RSameCount DEF R!TakesField, TakesField, R!IsPowerOfTwo, IsPowerOfTwo,
     R!Classes, Classes

\* TakingField in the instance of rdeps.hpp.
LEMMA RSameTakingField ==
    ASSUME NEW l, NEW st PROVE R!TakingField(l, st) = TakingField(l, st)
  BY RSameCount DEF R!TakingField, TakingField, R!Complement, Complement

\* PushedBack in the instance of rdeps.hpp.
LEMMA RSamePushedBack ==
    ASSUME NEW l, NEW st, NEW val, NEW force
    PROVE  R!PushedBack(l, st, val, force) = PushedBack(l, st, val, force)
  BY RSameTakesField, RSameTakingField, RSameExpanded DEF R!PushedBack, PushedBack, R!Stored,
     Stored

\* PushedBackOf in the instance of rdeps.hpp.
LEMMA RSamePushedBackOf ==
    ASSUME NEW l, NEW st, NEW val, NEW later
    PROVE  R!PushedBackOf(l, st, val, later) = PushedBackOf(l, st, val, later)
  BY RSamePushedBack, RSameCapacity, RSameCount, RSameMax DEF R!PushedBackOf, PushedBackOf

\* Deleted in the instance of rdeps.hpp.
LEMMA RSameDeleted ==
    ASSUME NEW l, NEW st PROVE R!Deleted(l, st) = Deleted(l, st)
  BY RSameDeallocate, RSameCapacity DEF R!Deleted, Deleted

\* Occurrences in the instance of rdeps.hpp.
LEMMA RSameOccurrences ==
    ASSUME NEW l, NEW st, NEW val
    PROVE  R!Occurrences(l, st, val) = Occurrences(l, st, val)
  BY DEF R!Occurrences, Occurrences, R!Connections, Connections, R!FirstCell, FirstCell,
     R!EndCell, EndCell, R!Count, Count, R!Magnitude, Magnitude, R!Cardinality, Cardinality

\* NoList in the instance of rdeps.hpp.
LEMMA RSameNoList ==
    R!NoList = NoList
  BY DEF R!NoList, NoList

\* EmptyStore in the instance of rdeps.hpp.
LEMMA RSameEmptyStore ==
    R!EmptyStore = EmptyStore
  BY DEF R!EmptyStore, EmptyStore, R!Classes, Classes

\* Count in the instance for the lists alone.
LEMMA LSameCount ==
    ASSUME NEW l PROVE L!Count(l) = Count(l)
  BY DEF L!Count, Count, L!Magnitude, Magnitude

\* Capacity in the instance for the lists alone.
LEMMA LSameCapacity ==
    ASSUME NEW l, NEW st PROVE L!Capacity(l, st) = Capacity(l, st)
  BY DEF L!Capacity, Capacity, L!Count, Count, L!Magnitude, Magnitude, L!CeilClass, CeilClass,
     L!BitCeil, BitCeil, L!Classes, Classes, L!Min, Min, L!Complement, Complement

\* Allocate in the instance for the lists alone.
LEMMA LSameAllocate ==
    ASSUME NEW st, NEW want, NEW implicit
    PROVE  L!Allocate(st, want, implicit) = Allocate(st, want, implicit)
  BY DEF L!Allocate, Allocate, L!CeilClass, CeilClass, L!Classes, Classes, L!FromFree, FromFree,
     L!PopFree, PopFree, L!Magnitude, Magnitude, L!Complement, Complement, L!FromEnd, FromEnd,
     L!Grown, Grown, L!Min, Min, L!Cardinality, Cardinality

\* MovedTo in the instance for the lists alone.
LEMMA LSameMovedTo ==
    ASSUME NEW l, NEW new, NEW old, NEW capacity, NEW implicit
    PROVE  L!MovedTo(l, new, old, capacity, implicit) =
             MovedTo(l, new, old, capacity, implicit)
  BY DEF L!MovedTo, MovedTo, L!Count, Count, L!Magnitude, Magnitude, L!Deallocate, Deallocate,
     L!Blank, Blank, L!PushFree, PushFree, L!FloorClass, FloorClass, L!Max, Max, L!Complement,
     Complement, L!Classes, Classes, L!Copied, Copied, L!FirstCell, FirstCell

\* Deallocate in the instance for the lists alone.
LEMMA LSameDeallocate ==
    ASSUME NEW st, NEW begin, NEW capacity
    PROVE  L!Deallocate(st, begin, capacity) = Deallocate(st, begin, capacity)
  BY DEF L!Deallocate, Deallocate, L!Blank, Blank, L!PushFree, PushFree, L!Magnitude, Magnitude,
     L!FloorClass, FloorClass, L!Max, Max, L!Complement, Complement, L!Classes, Classes

\* BitCeil in the instance for the lists alone.
LEMMA LSameBitCeil ==
    ASSUME NEW n PROVE L!BitCeil(n) = BitCeil(n)
  BY DEF L!BitCeil, BitCeil, L!CeilClass, CeilClass, L!Classes, Classes, L!Min, Min

\* Moved in the instance for the lists alone.
LEMMA LSameMoved ==
    ASSUME NEW l, NEW st, NEW capacity, NEW implicit
    PROVE  L!Moved(l, st, capacity, implicit) = Moved(l, st, capacity, implicit)
  BY LSameAllocate, LSameMovedTo, LSameCapacity DEF L!Moved, Moved

\* EndCell in the instance for the lists alone.
LEMMA LSameEndCell ==
    ASSUME NEW l PROVE L!EndCell(l) = EndCell(l)
  BY DEF L!EndCell, EndCell, L!FirstCell, FirstCell, L!Magnitude, Magnitude, L!Count, Count

\* Lengthened in the instance for the lists alone.
LEMMA LSameLengthened ==
    ASSUME NEW l, NEW n PROVE L!Lengthened(l, n) = Lengthened(l, n)
  BY DEF L!Lengthened, Lengthened

\* Longer in the instance for the lists alone.
LEMMA LSameLonger ==
    ASSUME NEW moved PROVE L!Longer(moved) = Longer(moved)
  BY LSameEndCell, LSameLengthened DEF L!Longer, Longer

\* Max in the instance for the lists alone.
LEMMA LSameMax ==
    ASSUME NEW S PROVE L!Max(S) = Max(S)
  BY DEF L!Max, Max

\* Reserved in the instance for the lists alone.
LEMMA LSameReserved ==
    ASSUME NEW l, NEW st, NEW geometric
    PROVE  L!Reserved(l, st, geometric) = Reserved(l, st, geometric)
  BY LSameMax, LSameMoved DEF L!Reserved, Reserved

\* Expanded in the instance for the lists alone.
LEMMA LSameExpanded ==
    ASSUME NEW l, NEW st, NEW force
    PROVE  L!Expanded(l, st, force) = Expanded(l, st, force)
  BY LSameCapacity, LSameCount, LSameBitCeil, LSameEndCell, LSameLengthened, LSameLonger,
     LSameReserved DEF L!Expanded, Expanded

\* TakesField in the instance for the lists alone.
LEMMA LSameTakesField ==
    ASSUME NEW l, NEW st PROVE L!TakesField(l, st) = TakesField(l, st)
  BY LSameCapacity, LSameCount DEF L!TakesField, TakesField, L!IsPowerOfTwo, IsPowerOfTwo,
     L!Classes, Classes

\* TakingField in the instance for the lists alone.
LEMMA LSameTakingField ==
    ASSUME NEW l, NEW st PROVE L!TakingField(l, st) = TakingField(l, st)
  BY LSameCount DEF L!TakingField, TakingField, L!Complement, Complement

\* PushedBack in the instance for the lists alone.
LEMMA LSamePushedBack ==
    ASSUME NEW l, NEW st, NEW val, NEW force
    PROVE  L!PushedBack(l, st, val, force) = PushedBack(l, st, val, force)
  BY LSameTakesField, LSameTakingField, LSameExpanded DEF L!PushedBack, PushedBack, L!Stored,
     Stored

\* PushedBackOf in the instance for the lists alone.
LEMMA LSamePushedBackOf ==
    ASSUME NEW l, NEW st, NEW val, NEW later
    PROVE  L!PushedBackOf(l, st, val, later) = PushedBackOf(l, st, val, later)
  BY LSamePushedBack, LSameCapacity, LSameCount, LSameMax DEF L!PushedBackOf, PushedBackOf

\* Deleted in the instance for the lists alone.
LEMMA LSameDeleted ==
    ASSUME NEW l, NEW st PROVE L!Deleted(l, st) = Deleted(l, st)
  BY LSameDeallocate, LSameCapacity DEF L!Deleted, Deleted

\* Occurrences in the instance for the lists alone.
LEMMA LSameOccurrences ==
    ASSUME NEW l, NEW st, NEW val
    PROVE  L!Occurrences(l, st, val) = Occurrences(l, st, val)
  BY DEF L!Occurrences, Occurrences, L!Connections, Connections, L!FirstCell, FirstCell,
     L!EndCell, EndCell, L!Count, Count, L!Magnitude, Magnitude, L!Cardinality, Cardinality

\* NoList in the instance for the lists alone.
LEMMA LSameNoList ==
    L!NoList = NoList
  BY DEF L!NoList, NoList

\* EmptyStore in the instance for the lists alone.
LEMMA LSameEmptyStore ==
    L!EmptyStore = EmptyStore
  BY DEF L!EmptyStore, EmptyStore, L!Classes, Classes

\* SumFunction in the instance of rdeps.hpp.
LEMMA RSameSumFunction ==
    ASSUME NEW fun PROVE R!SumFunction(fun) = SumFunction(fun)
  BY DEF R!SumFunction, SumFunction, R!SumFunctionOnSet, SumFunctionOnSet, R!FoldFunctionOnSet,
     FoldFunctionOnSet, R!MapThenFoldSet, MapThenFoldSet

\* ConnectionSeq in the instance of rdeps.hpp.
LEMMA RSameConnectionSeq ==
    ASSUME NEW l PROVE R!ConnectionSeq(l) = ConnectionSeq(l)
  BY RSameCount DEF R!ConnectionSeq, ConnectionSeq, R!FirstCell, FirstCell, R!Magnitude,
     Magnitude

-----------------------------------------------------------------------------
(* What a sum is.                                                            *)

\* Two such functions agree where the numbers do, whatever is zero and only one
\* of them knows.
LEMMA SumsMatch ==
    ASSUME NEW S, IsFiniteSet(S), NEW fun, Integers(fun, S), NEW g, SumsUp(fun, S, g),
           NEW T, IsFiniteSet(T), NEW fun2, Integers(fun2, T), NEW h, SumsUp(fun2, T, h)
    PROVE  \A t \in SUBSET T :
             (\A y \in t : fun2[y] = IF y \in S THEN fun[y] ELSE 0) => h[t] = g[t \cap S]
<1> DEFINE Fit(t) == \A y \in t : fun2[y] = IF y \in S THEN fun[y] ELSE 0
           Good == {k \in Nat : \A t \in SUBSET T :
                      Cardinality(t) <= k /\ Fit(t) => h[t] = g[t \cap S]}
<1>1. \A t \in SUBSET T : IsFiniteSet(t) /\ Cardinality(t) \in Nat
  BY FS_Subset, FS_CardinalityType
<1>2. /\ \A t \in SUBSET S : g[t] \in Int /\ \A x \in t : g[t] = fun[x] + g[t \ {x}]
      /\ \A t \in SUBSET T : h[t] \in Int /\ \A x \in t : h[t] = fun2[x] + h[t \ {x}]
  <2>1. Totals(fun, S, g) /\ Totals(fun2, T, h)
    BY SumsAre
  <2>2. QED
    BY <2>1 DEF Totals
<1>3. g[{}] = 0 /\ h[{}] = 0
  BY DEF SumsUp, SumBody
<1>4. 0 \in Good
  <2>1. ASSUME NEW t \in SUBSET T, Cardinality(t) <= 0
        PROVE  h[t] = g[t \cap S]
    <3>1. t = {}
      BY <2>1, <1>1, FS_EmptySet
    <3>2. t \cap S = {}
      BY <3>1
    <3>3. QED
      BY <3>1, <3>2, <1>3
  <2>2. QED
    BY <2>1
<1>5. ASSUME NEW k \in Nat, k \in Good
      PROVE  k + 1 \in Good
  <2>1. ASSUME NEW t \in SUBSET T, Cardinality(t) <= k + 1, Fit(t)
        PROVE  h[t] = g[t \cap S]
    <3>1. CASE t = {}
      <4>1. t \cap S = {}
        BY <3>1
      <4>2. QED
        BY <3>1, <4>1, <1>3
    <3>2. CASE t # {}
      <4>1. PICK x \in t : TRUE
        BY <3>2
      <4>2. PICK u : u = t \ {x}
        OBVIOUS
      <4>3. u \in SUBSET T /\ Cardinality(u) = Cardinality(t) - 1 /\ Cardinality(t) \in Nat
        BY <4>2, <2>1, <1>1, PickedIs
      <4>4. Cardinality(u) <= k /\ Fit(u)
        BY <4>2, <4>3, <2>1
      <4>5. h[u] = g[u \cap S]
        BY <4>3, <4>4, <1>5
      <4>6. h[t] = fun2[x] + h[u]
        BY <4>2, <1>2, <2>1
      <4>7. CASE x \in S
        <5>1. x \in t \cap S /\ (t \cap S) \ {x} = u \cap S /\ t \cap S \in SUBSET S
          BY <4>2, <4>7
        <5>2. g[t \cap S] = fun[x] + g[u \cap S]
          BY <5>1, <1>2
        <5>3. fun2[x] = fun[x]
          BY <4>7, <2>1
        <5>4. QED
          BY <5>2, <5>3, <4>5, <4>6
      <4>8. CASE x \notin S
        <5>1. t \cap S = u \cap S
          BY <4>2, <4>8
        <5>2. fun2[x] = 0 /\ h[u] \in Int
          BY <4>3, <4>8, <2>1, <1>2
        <5>3. PICK w \in Int : w = h[u]
          BY <5>2
        <5>4. h[t] = 0 + w
          BY <5>2, <5>3, <4>6
        <5>5. h[t] = g[u \cap S]
          BY <5>3, <5>4, <4>5
        <5>6. QED
          BY <5>1, <5>5
      <4>9. QED
        BY <4>7, <4>8
    <3>3. QED
      BY <3>1, <3>2
  <2>2. QED
    BY <2>1
<1> HIDE DEF Good
<1>6. Nat \subseteq Good
  BY <1>4, <1>5, Induction
<1>7. ASSUME NEW t \in SUBSET T, Fit(t)
      PROVE  h[t] = g[t \cap S]
  <2>1. PICK k \in Nat : k = Cardinality(t)
    BY <1>1
  <2>2. QED
    BY <2>1, <1>6, <1>7 DEF Good
<1>8. QED
  BY <1>7

\* A sum of natural numbers is one, and none of them is larger.
LEMMA SumsNatural ==
    ASSUME NEW S, IsFiniteSet(S), NEW fun, \A x \in S : fun[x] \in Nat, NEW g, SumsUp(fun, S, g)
    PROVE  \A t \in SUBSET S : g[t] \in Nat /\ \A x \in t : fun[x] <= g[t]
<1> DEFINE Good == {k \in Nat : \A t \in SUBSET S : Cardinality(t) <= k => g[t] \in Nat}
<1>1. \A t \in SUBSET S : IsFiniteSet(t) /\ Cardinality(t) \in Nat
  BY FS_Subset, FS_CardinalityType
<1>2. \A t \in SUBSET S : g[t] \in Int /\ \A x \in t : g[t] = fun[x] + g[t \ {x}]
  <2>1. Integers(fun, S)
    BY DEF Integers
  <2>2. Totals(fun, S, g)
    BY <2>1, SumsAre
  <2>3. QED
    BY <2>2 DEF Totals
<1>3. g[{}] = 0
  BY DEF SumsUp, SumBody
<1>4. 0 \in Good
  <2>1. ASSUME NEW t \in SUBSET S, Cardinality(t) <= 0
        PROVE  g[t] \in Nat
    <3>1. t = {}
      BY <2>1, <1>1, FS_EmptySet
    <3>2. QED
      BY <3>1, <1>3
  <2>2. QED
    BY <2>1
<1>5. ASSUME NEW k \in Nat, k \in Good
      PROVE  k + 1 \in Good
  <2>1. ASSUME NEW t \in SUBSET S, Cardinality(t) <= k + 1
        PROVE  g[t] \in Nat
    <3>1. CASE t = {}
      BY <3>1, <1>3
    <3>2. CASE t # {}
      <4>1. PICK x \in t : TRUE
        BY <3>2
      <4>2. PICK u : u = t \ {x}
        OBVIOUS
      <4>3. u \in SUBSET S /\ Cardinality(u) = Cardinality(t) - 1 /\ Cardinality(t) \in Nat
        BY <4>2, <2>1, <1>1, PickedIs
      <4>4. Cardinality(u) <= k
        BY <4>3, <2>1
      <4>5. g[u] \in Nat
        BY <4>3, <4>4, <1>5
      <4>6. g[t] = fun[x] + g[u] /\ fun[x] \in Nat
        BY <4>2, <1>2, <2>1
      <4>7. QED
        BY <4>5, <4>6
    <3>3. QED
      BY <3>1, <3>2
  <2>2. QED
    BY <2>1
<1> HIDE DEF Good
<1>6. Nat \subseteq Good
  BY <1>4, <1>5, Induction
<1>7. ASSUME NEW t \in SUBSET S
      PROVE  g[t] \in Nat
  <2>1. PICK k \in Nat : k = Cardinality(t)
    BY <1>1
  <2>2. QED
    BY <2>1, <1>6 DEF Good
<1>8. ASSUME NEW t \in SUBSET S, NEW x \in t
      PROVE  fun[x] <= g[t]
  <2>1. PICK a \in Nat, b \in Nat : a = fun[x] /\ b = g[t \ {x}]
    BY <1>7
  <2>2. g[t] = a + b
    BY <2>1, <1>2
  <2>3. QED
    BY <2>1, <2>2
<1>9. QED
  BY <1>7, <1>8

\* SumFunction is the sum over all of the domain.
LEMMA SumFunctionIs ==
    ASSUME NEW fun, NEW S, S = DOMAIN fun, IsFiniteSet(S)
    PROVE  \E g : SumsUp(fun, S, g) /\ SumFunction(fun) = g[S]
<1>1. PICK g : g = CHOOSE f : SumsUp(fun, S, f)
  OBVIOUS
<1>2. SumsUp(fun, S, g)
  BY <1>1, SumsExist
<1>3. SumFunction(fun) = g[S]
  BY <1>1 DEF SumFunction, SumFunctionOnSet, FoldFunctionOnSet, MapThenFoldSet, SumsUp, SumBody, Picked
<1>4. QED
  BY <1>2, <1>3

\* Total of natural numbers.
LEMMA SumNatural ==
    ASSUME NEW fun, NEW S, S = DOMAIN fun, IsFiniteSet(S), \A x \in S : fun[x] \in Nat
    PROVE  /\ SumFunction(fun) \in Nat
           /\ \A x \in S : fun[x] <= SumFunction(fun)
<1>1. PICK g : SumsUp(fun, S, g) /\ SumFunction(fun) = g[S]
  BY SumFunctionIs
<1>2. QED
  BY <1>1, SumsNatural

\* The total is zero when there is nothing but zeros.
LEMMA SumOfZeros ==
    ASSUME NEW fun, NEW S, S = DOMAIN fun, IsFiniteSet(S), \A x \in S : fun[x] = 0
    PROVE  SumFunction(fun) = 0
<1>1. PICK h : SumsUp(fun, S, h) /\ SumFunction(fun) = h[S]
  BY SumFunctionIs
<1>2. PICK E : E = {}
  OBVIOUS
<1>3. IsFiniteSet(E) /\ Integers(fun, E)
  BY <1>2, FS_EmptySet DEF Integers
<1>4. PICK g : SumsUp(fun, E, g)
  BY <1>3, SumsExist
<1>5. \A y \in S : fun[y] = IF y \in E THEN fun[y] ELSE 0
  BY <1>2
<1>6. h[S] = g[S \cap E]
  <2>1. Integers(fun, S)
    BY DEF Integers
  <2>2. \A t \in SUBSET S :
          (\A y \in t : fun[y] = IF y \in E THEN fun[y] ELSE 0) => h[t] = g[t \cap E]
    BY <2>1, <1>1, <1>3, <1>4, SumsMatch
  <2>3. QED
    BY <2>2, <1>5
<1>7. S \cap E = {} /\ g[{}] = 0
  BY <1>2, <1>4 DEF SumsUp, SumBody
<1>8. QED
  BY <1>1, <1>6, <1>7

\* The total of more is the same when what is new is zero.
LEMMA SumExtended ==
    ASSUME NEW fun, NEW S, S = DOMAIN fun, IsFiniteSet(S), Integers(fun, S),
           NEW fun2, NEW T, T = DOMAIN fun2, IsFiniteSet(T), S \subseteq T,
           \A x \in T : fun2[x] = IF x \in S THEN fun[x] ELSE 0
    PROVE  SumFunction(fun2) = SumFunction(fun)
<1>1. PICK g : SumsUp(fun, S, g) /\ SumFunction(fun) = g[S]
  BY SumFunctionIs
<1>2. PICK h : SumsUp(fun2, T, h) /\ SumFunction(fun2) = h[T]
  BY SumFunctionIs
<1>3. Integers(fun2, T)
  BY DEF Integers
<1>4. h[T] = g[T \cap S]
  <2>1. \A t \in SUBSET T :
          (\A y \in t : fun2[y] = IF y \in S THEN fun[y] ELSE 0) => h[t] = g[t \cap S]
    BY <1>1, <1>2, <1>3, SumsMatch
  <2>2. QED
    BY <2>1
<1>5. T \cap S = S
  OBVIOUS
<1>6. QED
  BY <1>1, <1>2, <1>4, <1>5

\* The numbers are the same except one.
AlikeBut(fun, fun2, S, c) == \A x \in S : x # c => fun2[x] = fun[x]

\* The total changes by as much as the one number that changes.
LEMMA SumChanged ==
    ASSUME NEW fun, NEW S, S = DOMAIN fun, IsFiniteSet(S), Integers(fun, S),
           NEW fun2, S = DOMAIN fun2, Integers(fun2, S),
           NEW c \in S, AlikeBut(fun, fun2, S, c)
    PROVE  /\ SumFunction(fun) \in Int
           /\ SumFunction(fun2) = SumFunction(fun) + (fun2[c] - fun[c])
<1>1. PICK g : SumsUp(fun, S, g) /\ SumFunction(fun) = g[S]
  BY SumFunctionIs
<1>2. PICK h : SumsUp(fun2, S, h) /\ SumFunction(fun2) = h[S]
  BY SumFunctionIs
<1>3. PICK u : u = S \ {c}
  OBVIOUS
<1>4. h[u] = g[u]
  <2>1. u \in SUBSET S /\ u \cap S = u
    BY <1>3
  <2>2. \A y \in u : fun2[y] = IF y \in S THEN fun[y] ELSE 0
    BY <1>3 DEF AlikeBut
  <2>3. \A t \in SUBSET S :
          (\A y \in t : fun2[y] = IF y \in S THEN fun[y] ELSE 0) => h[t] = g[t \cap S]
    BY <1>1, <1>2, SumsMatch
  <2>4. h[u] = g[u \cap S]
    BY <2>1, <2>2, <2>3
  <2>5. QED
    BY <2>1, <2>4
<1>5. g[S] \in Int /\ g[S] = fun[c] + g[u] /\ g[u] \in Int
  <2>1. Totals(fun, S, g)
    BY <1>1, SumsAre
  <2>2. QED
    BY <2>1, <1>3 DEF Totals
<1>6. h[S] = fun2[c] + h[u]
  <2>1. Totals(fun2, S, h)
    BY <1>2, SumsAre
  <2>2. QED
    BY <2>1, <1>3 DEF Totals
<1>7. PICK a \in Int, b \in Int, w \in Int : a = fun[c] /\ b = fun2[c] /\ w = g[u]
  BY <1>5 DEF Integers
<1>8. g[S] = a + w /\ h[S] = b + w
  BY <1>4, <1>5, <1>6, <1>7
<1>9. QED
  BY <1>1, <1>2, <1>5, <1>7, <1>8

-----------------------------------------------------------------------------
(* The loops over the edges of a call.                                       *)

\* One round of each: an edge made in rdeps.hpp and in udeps.hpp, a dependant
\* discharged in the one and in the other.
Round(loop, flag, acc, e) ==
  CASE loop = 1 -> R!MadeEdge(acc, e.d, e.n, e.later)
    [] loop = 2 -> (IF acc.ok THEN MadeEdge(acc, e.d, e.n, e.later) ELSE acc)
    [] loop = 3 -> R!Discharged(acc, e)
    [] loop = 4 -> Discharged(acc, e, flag)
Rounds(loop, flag, base, seq, g, s) ==
  IF s = {} THEN base ELSE Round(loop, flag, g[s \ {Max(s)}], seq[Max(s)])
RoundsOf(loop, flag, base, seq, n, g) ==
  g = [s \in SUBSET (1 .. n) |-> Rounds(loop, flag, base, seq, g, s)]

\* What the accumulator is after every round.
Looped(loop, flag, base, seq, n, tr) ==
  tr[0] = base /\ \A k \in 1 .. n : tr[k] = Round(loop, flag, tr[k - 1], seq[k])

\* Which round is which.
LEMMA RoundIs ==
    ASSUME NEW acc, NEW e, NEW flag
    PROVE  /\ Round(1, flag, acc, e) = R!MadeEdge(acc, e.d, e.n, e.later)
           /\ Round(2, flag, acc, e) = IF acc.ok THEN MadeEdge(acc, e.d, e.n, e.later) ELSE acc
           /\ Round(3, flag, acc, e) = R!Discharged(acc, e)
           /\ Round(4, flag, acc, e) = Discharged(acc, e, flag)
  BY DEF Round

\* Without its largest number, a set of the numbers up to k + 1 is one of the
\* numbers up to k.
LEMMA WithoutLargest ==
    ASSUME NEW k \in Nat, NEW s \in SUBSET (1 .. k + 1)
    PROVE  s \ {Max(s)} \in SUBSET (1 .. k)
<1>1. CASE k + 1 \in s
  <2>1. PICK top \in Nat : top = k + 1
    OBVIOUS
  <2>2. top \in s /\ \A y \in s : top >= y /\ y \in Nat
    BY <2>1, <1>1
  <2>3. PICK m : m = Max(s)
    OBVIOUS
  <2>4. m \in s /\ \A y \in s : m >= y
    BY <2>2, <2>3 DEF Max
  <2>5. m = top
    BY <2>2, <2>4
  <2>6. s \ {top} \in SUBSET (1 .. k)
    BY <2>1
  <2>7. QED
    BY <2>3, <2>5, <2>6
<1>2. CASE k + 1 \notin s
  <2>1. ASSUME NEW x \in s
        PROVE  x \in 1 .. k
    <3>1. x \in 1 .. k + 1 /\ x # k + 1
      BY <1>2
    <3>2. QED
      BY <3>1
  <2>2. QED
    BY <2>1
<1>3. QED
  BY <1>1, <1>2

\* The fold is defined.
LEMMA RoundsExist ==
    ASSUME NEW loop, NEW flag, NEW base, NEW seq, NEW n \in Nat
    PROVE  \E g : RoundsOf(loop, flag, base, seq, n, g)
<1> DEFINE Good == {k \in Nat : \E g :
                      g = [s \in SUBSET (1 .. k) |-> Rounds(loop, flag, base, seq, g, s)]}
<1>1. 0 \in Good
  <2>1. PICK g : g = [s \in SUBSET (1 .. 0) |-> base]
    OBVIOUS
  <2>2. ASSUME NEW s \in SUBSET (1 .. 0)
        PROVE  Rounds(loop, flag, base, seq, g, s) = base
    <3>1. s = {}
      OBVIOUS
    <3>2. QED
      BY <3>1 DEF Rounds
  <2>3. g = [s \in SUBSET (1 .. 0) |-> Rounds(loop, flag, base, seq, g, s)]
    BY <2>1, <2>2
  <2>4. QED
    BY <2>3
<1>2. ASSUME NEW k \in Nat, k \in Good
      PROVE  k + 1 \in Good
  <2>1. PICK g : g = [s \in SUBSET (1 .. k) |-> Rounds(loop, flag, base, seq, g, s)]
    BY <1>2
  <2>2. PICK h : h = [s \in SUBSET (1 .. k + 1) |-> Rounds(loop, flag, base, seq, g, s)]
    OBVIOUS
  <2>3. ASSUME NEW s \in SUBSET (1 .. k + 1)
        PROVE  Rounds(loop, flag, base, seq, g, s) = Rounds(loop, flag, base, seq, h, s)
    <3>1. PICK u : u = s \ {Max(s)}
      OBVIOUS
    <3>2. u \in SUBSET (1 .. k)
      BY <3>1, WithoutLargest
    <3>3. u \in SUBSET (1 .. k + 1)
      BY <3>2
    <3>4. g[u] = Rounds(loop, flag, base, seq, g, u)
      BY <3>2, <2>1
    <3>5. h[u] = Rounds(loop, flag, base, seq, g, u)
      BY <3>3, <2>2
    <3>6. g[s \ {Max(s)}] = h[s \ {Max(s)}]
      BY <3>1, <3>4, <3>5
    <3>7. QED
      BY <3>6 DEF Rounds
  <2>4. h = [s \in SUBSET (1 .. k + 1) |-> Rounds(loop, flag, base, seq, h, s)]
    BY <2>2, <2>3
  <2>5. QED
    BY <2>4
<1> HIDE DEF Good
<1>3. Nat \subseteq Good
  BY <1>1, <1>2, Induction
<1>4. PICK g : g = [s \in SUBSET (1 .. n) |-> Rounds(loop, flag, base, seq, g, s)]
  BY <1>3 DEF Good
<1>5. QED
  BY <1>4 DEF RoundsOf

\* It goes through the sequence from the left.
LEMMA RoundsAreLooped ==
    ASSUME NEW loop, NEW flag, NEW base, NEW seq, NEW n \in Nat,
           NEW g, RoundsOf(loop, flag, base, seq, n, g)
    PROVE  \E tr : Looped(loop, flag, base, seq, n, tr) /\ g[1 .. n] = tr[n]
<1>1. PICK tr : tr = [k \in 0 .. n |-> g[1 .. k]]
  OBVIOUS
<1>2. \A k \in 0 .. n : tr[k] = g[1 .. k] /\ g[1 .. k] = Rounds(loop, flag, base, seq, g, 1 .. k)
  <2>1. ASSUME NEW k \in 0 .. n
        PROVE  (1 .. k) \in SUBSET (1 .. n)
    OBVIOUS
  <2>2. QED
    BY <2>1, <1>1 DEF RoundsOf
<1>3. tr[0] = base
  <2>1. 1 .. 0 = {}
    OBVIOUS
  <2>2. 0 \in 0 .. n
    OBVIOUS
  <2>3. QED
    BY <2>1, <2>2, <1>2 DEF Rounds
<1>4. ASSUME NEW k \in 1 .. n
      PROVE  tr[k] = Round(loop, flag, tr[k - 1], seq[k])
  <2>1. PICK j \in Nat : j = k - 1 /\ j + 1 = k /\ j \in 0 .. n
    OBVIOUS
  <2>2. PICK s : s = 1 .. k
    OBVIOUS
  <2>3. k \in s /\ \A y \in s : k >= y
    BY <2>2
  <2>4. Max(s) \in s /\ \A y \in s : Max(s) >= y
    BY <2>3 DEF Max
  <2>5. Max(s) = k
    BY <2>2, <2>3, <2>4
  <2>6. s \ {Max(s)} = 1 .. j /\ s # {}
    <3>1. (1 .. k) \ {k} = 1 .. j
      BY <2>1
    <3>2. s \ {k} = 1 .. j
      BY <3>1, <2>2
    <3>3. QED
      BY <3>2, <2>3, <2>5
  <2>7. Rounds(loop, flag, base, seq, g, s) = Round(loop, flag, g[1 .. j], seq[k])
    <3>1. Rounds(loop, flag, base, seq, g, s) = Round(loop, flag, g[s \ {Max(s)}], seq[Max(s)])
      BY <2>6 DEF Rounds
    <3>2. QED
      BY <3>1, <2>5, <2>6
  <2>8. tr[k] = Rounds(loop, flag, base, seq, g, s) /\ tr[j] = g[1 .. j]
    BY <2>1, <2>2, <1>2
  <2>9. QED
    BY <2>1, <2>7, <2>8
<1>5. tr[n] = g[1 .. n]
  BY <1>1
<1>6. QED
  BY <1>3, <1>4, <1>5 DEF Looped

\* make_edges of rdeps.hpp.
LEMMA RMadeEdgesLoop ==
    ASSUME NEW seq, NEW n \in Nat, DOMAIN seq = 1 .. n
    PROVE  \E tr : Looped(1, 0, R!Calling, seq, n, tr) /\ R!MadeEdges(seq) = tr[n]
<1>1. PICK A : A = CHOOSE g : g = [s \in SUBSET (1 .. n) |->
                     IF s = {} THEN R!Calling
                             ELSE R!MadeEdge(g[s \ {Max(s)}], seq[Max(s)].d, seq[Max(s)].n, seq[Max(s)].later)]
  OBVIOUS
<1>2. PICK g : RoundsOf(1, 0, R!Calling, seq, n, g)
  BY RoundsExist
<1>3. ASSUME NEW h, NEW s
      PROVE  Rounds(1, 0, R!Calling, seq, h, s) =
               IF s = {} THEN R!Calling
                       ELSE R!MadeEdge(h[s \ {Max(s)}], seq[Max(s)].d, seq[Max(s)].n, seq[Max(s)].later)
  BY DEF Rounds, Round
<1>4. g = [s \in SUBSET (1 .. n) |->
        IF s = {} THEN R!Calling
        ELSE R!MadeEdge(g[s \ {Max(s)}], seq[Max(s)].d, seq[Max(s)].n, seq[Max(s)].later)]
  BY <1>2, <1>3 DEF RoundsOf
<1>5. A = [s \in SUBSET (1 .. n) |->
        IF s = {} THEN R!Calling
        ELSE R!MadeEdge(A[s \ {Max(s)}], seq[Max(s)].d, seq[Max(s)].n, seq[Max(s)].later)]
  BY <1>1, <1>4
<1>6. RoundsOf(1, 0, R!Calling, seq, n, A)
  BY <1>3, <1>5 DEF RoundsOf
<1>7. R!MadeEdges(seq) = A[1 .. n]
  BY <1>1 DEF R!MadeEdges, R!FoldLeft, R!MapThenFoldSet, R!Max, Max
<1>8. PICK tr : Looped(1, 0, R!Calling, seq, n, tr) /\ A[1 .. n] = tr[n]
  BY <1>6, RoundsAreLooped
<1>9. QED
  BY <1>7, <1>8

\* make_edges of udeps.hpp.
LEMMA MadeEdgesLoop ==
    ASSUME NEW seq, NEW n \in Nat, DOMAIN seq = 1 .. n
    PROVE  \E tr : Looped(2, 0, UCalling, seq, n, tr) /\ MadeEdges(seq) = tr[n]
<1>1. PICK A : A = CHOOSE g : g = [s \in SUBSET (1 .. n) |->
                     IF s = {} THEN UCalling
                             ELSE IF g[s \ {Max(s)}].ok THEN MadeEdge(g[s \ {Max(s)}], seq[Max(s)].d, seq[Max(s)].n, seq[Max(s)].later)
                             ELSE g[s \ {Max(s)}]]
  OBVIOUS
<1>2. PICK g : RoundsOf(2, 0, UCalling, seq, n, g)
  BY RoundsExist
<1>3. ASSUME NEW h, NEW s
      PROVE  Rounds(2, 0, UCalling, seq, h, s) =
               IF s = {} THEN UCalling
                       ELSE IF h[s \ {Max(s)}].ok THEN MadeEdge(h[s \ {Max(s)}], seq[Max(s)].d, seq[Max(s)].n, seq[Max(s)].later)
                       ELSE h[s \ {Max(s)}]
  BY DEF Rounds, Round
<1>4. g = [s \in SUBSET (1 .. n) |->
        IF s = {} THEN UCalling
        ELSE IF g[s \ {Max(s)}].ok THEN MadeEdge(g[s \ {Max(s)}], seq[Max(s)].d, seq[Max(s)].n, seq[Max(s)].later)
        ELSE g[s \ {Max(s)}]]
  BY <1>2, <1>3 DEF RoundsOf
<1>5. A = [s \in SUBSET (1 .. n) |->
        IF s = {} THEN UCalling
        ELSE IF A[s \ {Max(s)}].ok THEN MadeEdge(A[s \ {Max(s)}], seq[Max(s)].d, seq[Max(s)].n, seq[Max(s)].later)
        ELSE A[s \ {Max(s)}]]
  BY <1>1, <1>4
<1>6. RoundsOf(2, 0, UCalling, seq, n, A)
  BY <1>3, <1>5 DEF RoundsOf
<1>7. MadeEdges(seq) = A[1 .. n]
  BY <1>1 DEF MadeEdges, FoldLeft, MapThenFoldSet, Max
<1>8. PICK tr : Looped(2, 0, UCalling, seq, n, tr) /\ A[1 .. n] = tr[n]
  BY <1>6, RoundsAreLooped
<1>9. QED
  BY <1>7, <1>8

\* The loop of defuse_and_free.
LEMMA RDischargedLoop ==
    ASSUME NEW base, NEW seq, NEW n \in Nat, DOMAIN seq = 1 .. n
    PROVE  \E tr : Looped(3, 0, base, seq, n, tr) /\ R!FoldLeft(R!Discharged, base, seq) = tr[n]
<1>1. PICK A : A = CHOOSE g : g = [s \in SUBSET (1 .. n) |->
                     IF s = {} THEN base ELSE R!Discharged(g[s \ {Max(s)}], seq[Max(s)])]
  OBVIOUS
<1>2. PICK g : RoundsOf(3, 0, base, seq, n, g)
  BY RoundsExist
<1>3. ASSUME NEW h, NEW s
      PROVE  Rounds(3, 0, base, seq, h, s) =
               IF s = {} THEN base ELSE R!Discharged(h[s \ {Max(s)}], seq[Max(s)])
  BY DEF Rounds, Round
<1>4. g = [s \in SUBSET (1 .. n) |-> IF s = {} THEN base ELSE R!Discharged(g[s \ {Max(s)}], seq[Max(s)])]
  BY <1>2, <1>3 DEF RoundsOf
<1>5. A = [s \in SUBSET (1 .. n) |-> IF s = {} THEN base ELSE R!Discharged(A[s \ {Max(s)}], seq[Max(s)])]
  BY <1>1, <1>4
<1>6. RoundsOf(3, 0, base, seq, n, A)
  BY <1>3, <1>5 DEF RoundsOf
<1>7. R!FoldLeft(R!Discharged, base, seq) = A[1 .. n]
  BY <1>1 DEF R!FoldLeft, R!MapThenFoldSet, R!Max, Max
<1>8. PICK tr : Looped(3, 0, base, seq, n, tr) /\ A[1 .. n] = tr[n]
  BY <1>6, RoundsAreLooped
<1>9. QED
  BY <1>7, <1>8

\* The loop of defuse.
PaysOff(flag, base, seq) == FoldLeft(LAMBDA acc, x : Discharged(acc, x, flag), base, seq)

LEMMA DischargedLoop ==
    ASSUME NEW base, NEW flag, NEW seq, NEW n \in Nat, DOMAIN seq = 1 .. n
    PROVE  \E tr : Looped(4, flag, base, seq, n, tr) /\ PaysOff(flag, base, seq) = tr[n]
<1>1. PICK A : A = CHOOSE g : g = [s \in SUBSET (1 .. n) |->
                     IF s = {} THEN base ELSE Discharged(g[s \ {Max(s)}], seq[Max(s)], flag)]
  OBVIOUS
<1>2. PICK g : RoundsOf(4, flag, base, seq, n, g)
  BY RoundsExist
<1>3. ASSUME NEW h, NEW s
      PROVE  Rounds(4, flag, base, seq, h, s) =
               IF s = {} THEN base ELSE Discharged(h[s \ {Max(s)}], seq[Max(s)], flag)
  BY DEF Rounds, Round
<1>4. g = [s \in SUBSET (1 .. n) |->
        IF s = {} THEN base ELSE Discharged(g[s \ {Max(s)}], seq[Max(s)], flag)]
  BY <1>2, <1>3 DEF RoundsOf
<1>5. A = [s \in SUBSET (1 .. n) |->
        IF s = {} THEN base ELSE Discharged(A[s \ {Max(s)}], seq[Max(s)], flag)]
  BY <1>1, <1>4
<1>6. RoundsOf(4, flag, base, seq, n, A)
  BY <1>3, <1>5 DEF RoundsOf
<1>7. PaysOff(flag, base, seq) = A[1 .. n]
  BY <1>1 DEF PaysOff, FoldLeft, MapThenFoldSet, Max
<1>8. PICK tr : Looped(4, flag, base, seq, n, tr) /\ A[1 .. n] = tr[n]
  BY <1>6, RoundsAreLooped
<1>9. QED
  BY <1>7, <1>8

-----------------------------------------------------------------------------
(* What the schedulers see of the lists: how often each names whom.          *)

\* The list of d names n once more.
OneEdge(ls, st, ls2, st2, d, n) ==
  /\ Sound(ls2, st2) /\ DOMAIN ls2 = DOMAIN ls
  /\ \A x \in DOMAIN ls : Count(ls2[x]) = Count(ls[x]) + (IF x = d THEN 1 ELSE 0)
  /\ \A x \in DOMAIN ls : \A v :
       Occurrences(ls2[x], st2, v) = Occurrences(ls[x], st, v) + (IF x = d /\ v = n THEN 1 ELSE 0)

\* The list of d names nobody any more.
NoEdges(ls, st, ls2, st2, d) ==
  /\ Sound(ls2, st2) /\ DOMAIN ls2 = DOMAIN ls /\ ls2[d] = NoList
  /\ \A x \in DOMAIN ls : x # d => ls2[x] = ls[x]
  /\ \A x \in DOMAIN ls : \A v :
       Occurrences(ls2[x], st2, v) = IF x = d THEN 0 ELSE Occurrences(ls[x], st, v)

\* A list names each no more often than it has connections.
LEMMA SoundCounts ==
    ASSUME NEW ls, NEW st, Sound(ls, st), NEW x \in DOMAIN ls
    PROVE  /\ GoodList(ls[x], st) /\ Count(ls[x]) \in Nat
           /\ \A v : Occurrences(ls[x], st, v) \in Nat /\ Occurrences(ls[x], st, v) <= Count(ls[x])
<1>1. PICK l : l = ls[x]
  OBVIOUS
<1>2. GoodList(l, st)
  BY <1>1 DEF Sound, Held
<1>3. Count(l) \in Nat
  BY <1>2, ListIs
<1>4. \A v : Occurrences(l, st, v) \in Nat /\ Occurrences(l, st, v) <= Count(l)
  BY <1>2, OccurrencesAre
<1>5. QED
  BY <1>1, <1>2, <1>3, <1>4

\* The empty list names nobody.
LEMMA NobodyNamed ==
    ASSUME NEW st
    PROVE  Count(NoList) = 0 /\ \A v : Occurrences(NoList, st, v) = 0
<1>1. GoodList(NoList, st)
  BY DEF GoodList
<1>2. Count(NoList) = 0
  BY DEF NoList, Count, Magnitude
<1>3. ASSUME NEW v
      PROVE  Occurrences(NoList, st, v) = 0
  <2>1. PICK k \in Nat : k = Occurrences(NoList, st, v)
    BY <1>1, OccurrencesAre
  <2>2. k <= 0
    BY <2>1, <1>1, <1>2, OccurrencesAre
  <2>3. QED
    BY <2>1, <2>2
<1>4. QED
  BY <1>2, <1>3

\* A push is one edge.
LEMMA EdgeStored ==
    ASSUME NEW ls, NEW st, Sound(ls, st), NEW d \in DOMAIN ls,
           NEW later \in Nat, RoomFor(ls[d], later),
           NEW n, NEW q, q = PushedBackOf(ls[d], st, n, later),
           NEW ls2, Relisted(ls, d, q.list, ls2)
    PROVE  OneEdge(ls, st, ls2, q.store, d, n)
<1>1. /\ Sound(ls2, q.store) /\ Changed(ls, st, ls2, q.store, d, q.list)
      /\ Names(ls[d], st, q, n)
  BY PushKeepsSound
<1>2. PICK st2 : st2 = q.store
  OBVIOUS
<1>3. DOMAIN ls2 = DOMAIN ls /\ ls2[d] = q.list /\ \A x \in DOMAIN ls : x # d => ls2[x] = ls[x]
  BY <1>1 DEF Changed
<1>4. ASSUME NEW x \in DOMAIN ls, x # d
      PROVE  \A v : Occurrences(ls2[x], st2, v) = Occurrences(ls[x], st, v)
  <2>1. PICK l : l = ls[x]
    OBVIOUS
  <2>2. GoodList(l, st) /\ GoodList(l, st2)
        /\ \A i \in Int : ListAt(l) <= i /\ i < ListAt(l) + ListSpan(l, st) => st2.cells[i] = st.cells[i]
    BY <2>1, <1>1, <1>2, <1>4 DEF Changed
  <2>3. \A v : Occurrences(l, st2, v) = Occurrences(l, st, v)
    BY <2>2, SameCellsSameCounts
  <2>4. QED
    BY <2>1, <2>3, <1>3, <1>4
<1>5. ASSUME NEW x \in DOMAIN ls
      PROVE  /\ Count(ls2[x]) = Count(ls[x]) + (IF x = d THEN 1 ELSE 0)
             /\ \A v : Occurrences(ls2[x], st2, v)
                         = Occurrences(ls[x], st, v) + (IF x = d /\ v = n THEN 1 ELSE 0)
  <2>1. CASE x = d
    <3>1. ls2[x] = q.list /\ ls[x] = ls[d]
      BY <2>1, <1>3
    <3>2. Count(ls2[x]) = Count(ls[x]) + 1
      BY <3>1, <1>1 DEF Names
    <3>3. \A v : Occurrences(ls2[x], st2, v) = Occurrences(ls[x], st, v) + (IF v = n THEN 1 ELSE 0)
      BY <3>1, <1>1, <1>2 DEF Names
    <3>4. QED
      BY <2>1, <3>2, <3>3
  <2>2. CASE x # d
    <3>1. Count(ls[x]) \in Nat /\ \A v : Occurrences(ls[x], st, v) \in Nat
      BY SoundCounts
    <3>2. \A v : Occurrences(ls2[x], st2, v) = Occurrences(ls[x], st, v)
      BY <2>2, <1>4
    <3>3. QED
      BY <2>2, <3>1, <3>2, <1>3
  <2>3. QED
    BY <2>1, <2>2
<1>6. Sound(ls2, st2)
  BY <1>1, <1>2
<1>7. OneEdge(ls, st, ls2, st2, d, n)
  BY <1>3, <1>5, <1>6 DEF OneEdge
<1>8. QED
  BY <1>2, <1>7

\* A list that is deleted names nobody.
LEMMA ListDropped ==
    ASSUME NEW ls, NEW st, Sound(ls, st), NEW d \in DOMAIN ls,
           NEW p, p = Deleted(ls[d], st), NEW ls2, Relisted(ls, d, NoList, ls2)
    PROVE  NoEdges(ls, st, ls2, p, d)
<1>1. Sound(ls2, p) /\ Changed(ls, st, ls2, p, d, NoList)
  BY DeleteKeepsSound
<1>2. DOMAIN ls2 = DOMAIN ls /\ ls2[d] = NoList /\ \A x \in DOMAIN ls : x # d => ls2[x] = ls[x]
  BY <1>1 DEF Changed
<1>3. ASSUME NEW x \in DOMAIN ls, x # d
      PROVE  \A v : Occurrences(ls2[x], p, v) = Occurrences(ls[x], st, v)
  <2>1. PICK l : l = ls[x]
    OBVIOUS
  <2>2. GoodList(l, st) /\ GoodList(l, p)
        /\ \A i \in Int : ListAt(l) <= i /\ i < ListAt(l) + ListSpan(l, st) => p.cells[i] = st.cells[i]
    BY <2>1, <1>1, <1>3 DEF Changed
  <2>3. \A v : Occurrences(l, p, v) = Occurrences(l, st, v)
    BY <2>2, SameCellsSameCounts
  <2>4. QED
    BY <2>1, <2>3, <1>2, <1>3
<1>4. \A x \in DOMAIN ls : \A v :
        Occurrences(ls2[x], p, v) = IF x = d THEN 0 ELSE Occurrences(ls[x], st, v)
  BY <1>2, <1>3, NobodyNamed
<1>5. QED
  BY <1>1, <1>2, <1>4 DEF NoEdges

-----------------------------------------------------------------------------
(* Nodes and lists together.                                                 *)

NodeType == [state : States, degree : Nat]

\* Every node has a list, and the lists name nodes.
Named(ls, st, ids) ==
  \A d \in ids : \A v : Occurrences(ls[d], st, v) # 0 => v \in ids
Wired(nd, ls, st) ==
  /\ \E size \in Nat : DOMAIN nd = 0 .. size - 1
  /\ nd \in [DOMAIN nd -> NodeType]
  /\ DOMAIN ls = DOMAIN nd /\ Sound(ls, st) /\ Named(ls, st, DOMAIN nd)

\* How often the lists name a node, and the in-degrees of rdeps.hpp.
Naming(ls, st, ids, n) == [d \in ids |-> Occurrences(ls[d], st, n)]
Counted(nd, ls, st) ==
  \A n \in DOMAIN nd : nd[n].degree = SumFunction(Naming(ls, st, DOMAIN nd, n))

\* There are finitely many nodes.
LEMMA IdsFinite ==
    ASSUME NEW nd, NEW ls, NEW st, Wired(nd, ls, st)
    PROVE  IsFiniteSet(DOMAIN nd) /\ DOMAIN nd \subseteq Int /\ Cardinality(DOMAIN nd) \in Nat
           /\ DOMAIN nd = 0 .. Cardinality(DOMAIN nd) - 1
<1>1. PICK size \in Nat : DOMAIN nd = 0 .. size - 1
  BY DEF Wired
<1>2. PICK top \in Int : top = size - 1
  OBVIOUS
<1>3. IsFiniteSet(0 .. top) /\ Cardinality(0 .. top) = IF 0 > top THEN 0 ELSE top - 0 + 1
  BY FS_Interval
<1>4. Cardinality(0 .. top) = size
  BY <1>2, <1>3
<1>5. QED
  BY <1>1, <1>2, <1>3, <1>4

\* With an edge more between nodes, the lists still name nodes.
LEMMA EdgeKeepsWired ==
    ASSUME NEW nd, NEW ls, NEW st, Wired(nd, ls, st), NEW d \in DOMAIN nd, NEW n \in DOMAIN nd,
           NEW ls2, NEW st2, OneEdge(ls, st, ls2, st2, d, n),
           NEW nd2, nd2 \in [DOMAIN nd -> NodeType]
    PROVE  Wired(nd2, ls2, st2)
<1>1. DOMAIN nd2 = DOMAIN nd /\ DOMAIN ls = DOMAIN nd
  BY DEF Wired
<1>2. DOMAIN ls2 = DOMAIN nd2 /\ Sound(ls2, st2) /\ Sound(ls, st)
  BY <1>1 DEF OneEdge, Wired
<1>3. ASSUME NEW x \in DOMAIN nd2, NEW v, v \notin DOMAIN nd2
      PROVE  Occurrences(ls2[x], st2, v) = 0
  <2>1. Occurrences(ls[x], st, v) = 0
    BY <1>1, <1>3 DEF Wired, Named
  <2>2. v # n
    BY <1>1, <1>3
  <2>3. Occurrences(ls2[x], st2, v) = Occurrences(ls[x], st, v) + (IF x = d /\ v = n THEN 1 ELSE 0)
    BY <1>1, <1>3 DEF OneEdge
  <2>4. QED
    BY <2>1, <2>2, <2>3
<1>4. Named(ls2, st2, DOMAIN nd2)
  BY <1>3 DEF Named
<1>5. QED
  BY <1>1, <1>2, <1>4 DEF Wired

\* An edge more is counted once, in the node it leads to.
LEMMA EdgeKeepsCounted ==
    ASSUME NEW nd, NEW ls, NEW st, Wired(nd, ls, st), Counted(nd, ls, st),
           NEW d \in DOMAIN nd, NEW n \in DOMAIN nd,
           NEW ls2, NEW st2, OneEdge(ls, st, ls2, st2, d, n),
           NEW nd2, DOMAIN nd2 = DOMAIN nd, nd2[n].degree = nd[n].degree + 1,
           \A x \in DOMAIN nd : x # n => nd2[x].degree = nd[x].degree
    PROVE  Counted(nd2, ls2, st2)
<1>1. PICK ids : ids = DOMAIN nd
  OBVIOUS
<1>2. IsFiniteSet(ids) /\ DOMAIN ls = ids /\ Sound(ls, st) /\ DOMAIN ls2 = ids /\ Sound(ls2, st2)
  BY <1>1, IdsFinite DEF Wired, OneEdge
<1>3. \A x \in ids : \A v :
        /\ Occurrences(ls[x], st, v) \in Nat
        /\ Occurrences(ls2[x], st2, v) = Occurrences(ls[x], st, v) + (IF x = d /\ v = n THEN 1 ELSE 0)
  BY <1>2, SoundCounts DEF OneEdge
<1>4. ASSUME NEW x \in ids
      PROVE  nd2[x].degree = SumFunction(Naming(ls2, st2, ids, x))
  <2>1. PICK f : f = Naming(ls, st, ids, x)
    OBVIOUS
  <2>2. PICK h : h = Naming(ls2, st2, ids, x)
    OBVIOUS
  <2>3. /\ ids = DOMAIN f /\ ids = DOMAIN h
        /\ \A c \in ids : f[c] = Occurrences(ls[c], st, x) /\ h[c] = Occurrences(ls2[c], st2, x)
    BY <2>1, <2>2 DEF Naming
  <2>4. nd[x].degree = SumFunction(f)
    BY <1>1, <2>1 DEF Counted
  <2>5. CASE x = n
    <3>1. \A c \in ids : f[c] \in Nat /\ h[c] \in Nat /\ (c # d => h[c] = f[c])
      BY <2>3, <1>3
    <3>2. Integers(f, ids) /\ Integers(h, ids) /\ AlikeBut(f, h, ids, d) /\ d \in ids
      BY <3>1, <1>1 DEF Integers, AlikeBut
    <3>3. ids = DOMAIN f /\ ids = DOMAIN h /\ IsFiniteSet(ids)
      BY <2>3, <1>2
    <3>4. SumFunction(f) \in Int /\ SumFunction(h) = SumFunction(f) + (h[d] - f[d])
      BY <3>2, <3>3, SumChanged, ZenonT(30)
    <3>5. h[d] = f[d] + 1 /\ f[d] \in Nat
      BY <2>3, <2>5, <1>1, <1>3
    <3>6. SumFunction(h) = SumFunction(f) + 1
      BY <3>4, <3>5
    <3>7. QED
      BY <3>6, <2>2, <2>4, <2>5
  <2>6. CASE x # n
    <3>1. \A c \in ids : h[c] = f[c]
      BY <2>3, <2>6, <1>3
    <3>2. f = [c \in ids |-> f[c]] /\ h = [c \in ids |-> h[c]]
      BY <2>1, <2>2 DEF Naming
    <3>3. f = h
      BY <3>1, <3>2
    <3>4. QED
      BY <3>3, <2>2, <2>4, <2>6, <1>1
  <2>7. QED
    BY <2>5, <2>6
<1>5. QED
  BY <1>1, <1>4 DEF Counted

-----------------------------------------------------------------------------
(* Edges of rdeps.hpp.                                                       *)

Acc(nd, ls, st, ok) == [nodes |-> nd, list |-> ls, store |-> st, ok |-> ok]
NodesAt(nd, n) == n \in DOMAIN nd /\ nd \in [DOMAIN nd -> NodeType]
Stores(nd, ls, st, ok, d, n, later, ls2, st2) ==
  /\ NodesAt(nd, n)
  /\ \E q : q = PushedBackOf(ls[d], st, n, later) /\ Relisted(ls, d, q.list, ls2) /\ st2 = q.store
Raised(nd, n) == [nd EXCEPT ![n] = [state |-> nd[n].state, degree |-> nd[n].degree + 1]]

\* The edges a call is asked for join nodes, and their lists have room.
Asked(seq, m) ==
  \A k \in 1 .. m :
    /\ seq[k].d \in Ids /\ seq[k].n \in Ids /\ seq[k].later \in Nat
    /\ Count(list[seq[k].d]) + k + seq[k].later <= 2^MaxClass

\* Neither end is a sentinel, as rdeps.hpp asserts.
Joinable(seq, m) ==
  \A k \in 1 .. m : nodes[seq[k].d].state # "sentinel" /\ nodes[seq[k].n].state # "sentinel"

\* One edge of rdeps.hpp in the accumulator.
LEMMA RMadeEdgeIs ==
    ASSUME NEW nd, NEW ls, NEW st, NEW ok, NEW d, NEW n, NEW later, NEW ls2, NEW st2,
           Stores(nd, ls, st, ok, d, n, later, ls2, st2)
    PROVE  R!MadeEdge(Acc(nd, ls, st, ok), d, n, later) = Acc(Raised(nd, n), ls2, st2, ok)
<1>0. PICK acc : acc = Acc(nd, ls, st, ok)
  OBVIOUS
<1>00. PICK q : q = PushedBackOf(ls[d], st, n, later) /\ Relisted(ls, d, q.list, ls2) /\ st2 = q.store
  BY DEF Stores
<1>1. acc.nodes = nd /\ acc.list = ls /\ acc.store = st
      /\ acc = [nodes |-> nd, list |-> ls, store |-> st, ok |-> ok]
  BY <1>0 DEF Acc
<1>2. R!PushedBackOf(acc.list[d], acc.store, n, later) = q
  BY <1>1, <1>00, RSamePushedBackOf
<1>3. ls2 = [acc.list EXCEPT ![d] = q.list]
  BY <1>1, <1>00 DEF Relisted
<1>4. PICK mid : mid = R!Connected(acc, d, n, later)
  OBVIOUS
<1>5. mid = [nodes |-> nd, list |-> ls2, store |-> st2, ok |-> ok]
  <2>1. mid = [[acc EXCEPT !.list = [acc.list EXCEPT ![d] = q.list]] EXCEPT !.store = q.store]
    BY <1>2, <1>4 DEF R!Connected, R!WithList
  <2>2. mid = [[acc EXCEPT !.list = ls2] EXCEPT !.store = st2]
    BY <2>1, <1>3, <1>00
  <2>3. PICK a2 : a2 = [acc EXCEPT !.list = ls2]
    OBVIOUS
  <2>4. a2 = [nodes |-> nd, list |-> ls2, store |-> st, ok |-> ok]
    BY <2>3, <1>1
  <2>5. [a2 EXCEPT !.store = st2] = [nodes |-> nd, list |-> ls2, store |-> st2, ok |-> ok]
    BY <2>4
  <2>6. QED
    BY <2>2, <2>3, <2>5
<1>6. R!Incremented(nd[n]) = [state |-> nd[n].state, degree |-> nd[n].degree + 1]
  <2>1. nd[n] \in NodeType
    BY DEF NodesAt, Stores
  <2>2. nd[n] = [state |-> nd[n].state, degree |-> nd[n].degree]
    BY <2>1 DEF NodeType
  <2>3. QED
    BY <2>2 DEF R!Incremented
<1>7. R!MadeEdge(acc, d, n, later)
        = [mid EXCEPT !.nodes = [mid.nodes EXCEPT ![n] = R!Incremented(mid.nodes[n])]]
  BY <1>4 DEF R!MadeEdge
<1>8. [mid.nodes EXCEPT ![n] = R!Incremented(mid.nodes[n])] = Raised(nd, n)
  BY <1>5, <1>6 DEF Raised
<1>9. R!MadeEdge(acc, d, n, later) = [mid EXCEPT !.nodes = Raised(nd, n)]
  BY <1>7, <1>8
<1>10. PICK more : more = Raised(nd, n)
  OBVIOUS
<1>11. [mid EXCEPT !.nodes = more] = [nodes |-> more, list |-> ls2, store |-> st2, ok |-> ok]
  BY <1>5
<1>12. QED
  BY <1>0, <1>9, <1>10, <1>11 DEF Acc

\* What the nodes are with one dependency more.
LEMMA RaisedIs ==
    ASSUME NEW nd, nd \in [DOMAIN nd -> NodeType], NEW n \in DOMAIN nd
    PROVE  /\ Raised(nd, n) \in [DOMAIN nd -> NodeType] /\ DOMAIN Raised(nd, n) = DOMAIN nd
           /\ \A x \in DOMAIN nd : Raised(nd, n)[x].state = nd[x].state
           /\ Raised(nd, n)[n].degree = nd[n].degree + 1
           /\ \A x \in DOMAIN nd : x # n => Raised(nd, n)[x] = nd[x]
<1>1. PICK more : more = [state |-> nd[n].state, degree |-> nd[n].degree + 1]
  OBVIOUS
<1>2. nd[n] \in NodeType
  OBVIOUS
<1>3. more \in NodeType /\ more.state = nd[n].state /\ more.degree = nd[n].degree + 1
  BY <1>1, <1>2 DEF NodeType
<1>4. Raised(nd, n) = [nd EXCEPT ![n] = more]
  BY <1>1 DEF Raised
<1>5. QED
  BY <1>3, <1>4

\* What holds after k of the edges: sound lists that name nodes, with every
\* edge counted, longer by no more than k; nobody's state has changed, and who
\* is a sentinel has kept its list and in-degree; and a list names a node more
\* often only when it was asked to.
RMade(seq, m, k, nd, ls, st) ==
  /\ Wired(nd, ls, st) /\ Counted(nd, ls, st) /\ DOMAIN nd = Ids
  /\ \A x \in Ids : nd[x].state = nodes[x].state /\ Count(ls[x]) <= Count(list[x]) + k
  /\ \A x \in Ids : nodes[x].state = "sentinel" => nd[x] = nodes[x] /\ ls[x] = list[x]
  /\ \A x \in Ids : \A v :
       /\ Occurrences(ls[x], st, v) >= Occurrences(list[x], store, v)
       /\ Occurrences(ls[x], st, v) # Occurrences(list[x], store, v) =>
            \E j \in 1 .. m : seq[j].d = x /\ seq[j].n = v

\* Every edge keeps this.
LEMMA REdgeMade ==
    ASSUME Wired(nodes, list, store), NEW seq, NEW m \in Nat, Asked(seq, m), Joinable(seq, m),
           NEW k \in 1 .. m, NEW j, j = k - 1, NEW nd, NEW ls, NEW st, RMade(seq, m, j, nd, ls, st),
           NEW ok, NEW acc, acc = Acc(nd, ls, st, ok)
    PROVE  \E nd2, ls2, st2 :
             /\ RMade(seq, m, k, nd2, ls2, st2)
             /\ Round(1, 0, acc, seq[k]) = Acc(nd2, ls2, st2, ok)
<1>1. PICK d \in Ids, n \in Ids, later \in Nat :
        /\ d = seq[k].d /\ n = seq[k].n /\ later = seq[k].later
        /\ Count(list[d]) + k + later <= 2^MaxClass
  BY DEF Asked
<1>2. nodes[d].state # "sentinel" /\ nodes[n].state # "sentinel"
  BY <1>1 DEF Joinable
<1>3. /\ Wired(nd, ls, st) /\ Counted(nd, ls, st) /\ DOMAIN nd = Ids
      /\ nd \in [DOMAIN nd -> NodeType] /\ DOMAIN ls = Ids /\ Sound(ls, st)
  BY DEF RMade, Wired
<1>4. DOMAIN list = Ids /\ Sound(list, store)
  BY DEF Wired, Ids
<1>5. RoomFor(ls[d], later)
  <2>1. PICK a \in Nat, b \in Nat, top \in Nat :
          a = Count(ls[d]) /\ b = Count(list[d]) /\ top = 2^MaxClass
    BY <1>3, <1>4, SoundCounts, ClassPower, ClassAssumption DEF Classes
  <2>2. a <= b + j /\ b + k + later <= top
    BY <2>1, <1>1 DEF RMade
  <2>3. a + later + 1 <= top
    BY <2>2
  <2>4. QED
    BY <2>1, <2>3 DEF RoomFor
<1>6. PICK q : q = PushedBackOf(ls[d], st, n, later)
  OBVIOUS
<1>7. PICK ls2 : ls2 = [ls EXCEPT ![d] = q.list]
  OBVIOUS
<1>8. PICK st2 : st2 = q.store
  OBVIOUS
<1>9. PICK nd2 : nd2 = Raised(nd, n)
  OBVIOUS
<1>10. OneEdge(ls, st, ls2, st2, d, n)
  BY <1>3, <1>5, <1>6, <1>7, <1>8, EdgeStored DEF Relisted
<1>11. /\ nd2 \in [DOMAIN nd -> NodeType] /\ DOMAIN nd2 = DOMAIN nd
       /\ \A x \in DOMAIN nd : nd2[x].state = nd[x].state
       /\ nd2[n].degree = nd[n].degree + 1
       /\ \A x \in DOMAIN nd : x # n => nd2[x] = nd[x]
  BY <1>3, <1>9, RaisedIs
<1>12. Round(1, 0, acc, seq[k]) = Acc(nd2, ls2, st2, ok)
  <2>1. Stores(nd, ls, st, ok, d, n, later, ls2, st2)
    BY <1>3, <1>6, <1>7, <1>8 DEF Relisted, NodesAt, Stores
  <2>2. R!MadeEdge(acc, d, n, later) = Acc(Raised(nd, n), ls2, st2, ok)
    BY <2>1, RMadeEdgeIs
  <2>3. Round(1, 0, acc, seq[k]) = R!MadeEdge(acc, d, n, later)
    <3>1. Round(1, 0, acc, seq[k]) = R!MadeEdge(acc, seq[k].d, seq[k].n, seq[k].later)
      BY RoundIs, ZenonT(30)
    <3>2. QED
      BY <3>1, <1>1
  <2>4. QED
    BY <2>2, <2>3, <1>9
<1>13. Wired(nd2, ls2, st2)
  BY <1>3, <1>10, <1>11, EdgeKeepsWired
<1>14. Counted(nd2, ls2, st2)
  BY <1>3, <1>10, <1>11, EdgeKeepsCounted
<1>15. ASSUME NEW x \in Ids
       PROVE  /\ nd2[x].state = nodes[x].state /\ Count(ls2[x]) <= Count(list[x]) + k
              /\ nodes[x].state = "sentinel" => nd2[x] = nodes[x] /\ ls2[x] = list[x]
  <2>1. nd2[x].state = nodes[x].state
    BY <1>3, <1>11 DEF RMade
  <2>2. PICK a \in Nat, b \in Nat : a = Count(ls[x]) /\ b = Count(list[x])
    BY <1>3, <1>4, SoundCounts
  <2>3. a <= b + j
    BY <2>2 DEF RMade
  <2>4. Count(ls2[x]) = a + (IF x = d THEN 1 ELSE 0)
    BY <2>2, <1>3, <1>10 DEF OneEdge
  <2>5. Count(ls2[x]) <= b + k
    BY <2>3, <2>4
  <2>6. nodes[x].state = "sentinel" => nd2[x] = nodes[x] /\ ls2[x] = list[x]
    BY <1>2, <1>3, <1>7, <1>11 DEF RMade
  <2>7. QED
    BY <2>1, <2>2, <2>5, <2>6
<1>16. ASSUME NEW x \in Ids, NEW v
       PROVE  /\ Occurrences(ls2[x], st2, v) >= Occurrences(list[x], store, v)
              /\ Occurrences(ls2[x], st2, v) # Occurrences(list[x], store, v) =>
                   \E i \in 1 .. m : seq[i].d = x /\ seq[i].n = v
  <2>1. PICK a \in Nat, b \in Nat : a = Occurrences(ls[x], st, v) /\ b = Occurrences(list[x], store, v)
    BY <1>3, <1>4, SoundCounts
  <2>2. a >= b /\ (a # b => \E i \in 1 .. m : seq[i].d = x /\ seq[i].n = v)
    BY <2>1 DEF RMade
  <2>3. Occurrences(ls2[x], st2, v) = a + (IF x = d /\ v = n THEN 1 ELSE 0)
    BY <2>1, <1>3, <1>10 DEF OneEdge
  <2>4. CASE x = d /\ v = n
    <3>1. \E i \in 1 .. m : seq[i].d = x /\ seq[i].n = v
      BY <2>4, <1>1
    <3>2. Occurrences(ls2[x], st2, v) = a + 1
      BY <2>3, <2>4
    <3>3. QED
      BY <3>1, <3>2, <2>1, <2>2
  <2>5. CASE ~(x = d /\ v = n)
    <3>1. Occurrences(ls2[x], st2, v) = a
      BY <2>3, <2>5
    <3>2. QED
      BY <3>1, <2>1, <2>2
  <2>6. QED
    BY <2>4, <2>5
<1>17. RMade(seq, m, k, nd2, ls2, st2)
  <2>1. \A x \in Ids : nd2[x].state = nodes[x].state /\ Count(ls2[x]) <= Count(list[x]) + k
    BY <1>15
  <2>2. \A x \in Ids : nodes[x].state = "sentinel" => nd2[x] = nodes[x] /\ ls2[x] = list[x]
    BY <1>15
  <2>3. DOMAIN nd2 = Ids
    BY <1>3, <1>11
  <2>4. QED
    BY <2>1, <2>2, <2>3, <1>13, <1>14, <1>16 DEF RMade
<1>18. QED
  BY <1>12, <1>17

\* All the edges of a call.
LEMMA REdgesMade ==
    ASSUME Wired(nodes, list, store), Counted(nodes, list, store),
           NEW seq, NEW m \in Nat, DOMAIN seq = 1 .. m, Asked(seq, m), Joinable(seq, m)
    PROVE  \E nd, ls, st, ok : RMade(seq, m, m, nd, ls, st) /\ R!MadeEdges(seq) = Acc(nd, ls, st, ok)
<1>1. PICK tr : Looped(1, 0, R!Calling, seq, m, tr) /\ R!MadeEdges(seq) = tr[m]
  BY RMadeEdgesLoop
<1>2. PICK ok : ok = TRUE
  OBVIOUS
<1> DEFINE Good == {k \in Nat : k <= m =>
                      \E nd, ls, st : RMade(seq, m, k, nd, ls, st) /\ tr[k] = Acc(nd, ls, st, ok)}
<1>3. 0 \in Good
  <2>1. tr[0] = Acc(nodes, list, store, ok)
    BY <1>1, <1>2 DEF Looped, Acc, R!Calling
  <2>2. DOMAIN list = Ids /\ Sound(list, store)
    BY DEF Wired, Ids
  <2>3. \A x \in Ids : Count(list[x]) \in Nat /\ \A v : Occurrences(list[x], store, v) \in Nat
    BY <2>2, SoundCounts
  <2>4. \A x \in Ids : Count(list[x]) <= Count(list[x]) + 0
    BY <2>3
  <2>5. \A x \in Ids : \A v : Occurrences(list[x], store, v) >= Occurrences(list[x], store, v)
    BY <2>3
  <2>6. RMade(seq, m, 0, nodes, list, store)
    BY <2>4, <2>5 DEF RMade, Ids
  <2>7. QED
    BY <2>1, <2>6
<1>4. ASSUME NEW j \in Nat, j \in Good
      PROVE  j + 1 \in Good
  <2>1. ASSUME j + 1 <= m
        PROVE  \E nd, ls, st : RMade(seq, m, j + 1, nd, ls, st) /\ tr[j + 1] = Acc(nd, ls, st, ok)
    <3>1. PICK k \in 1 .. m : k = j + 1 /\ j = k - 1
      BY <2>1
    <3>2. PICK nd, ls, st : RMade(seq, m, j, nd, ls, st) /\ tr[j] = Acc(nd, ls, st, ok)
      BY <2>1, <1>4
    <3>3. tr[k] = Round(1, 0, tr[j], seq[k])
      BY <3>1, <1>1 DEF Looped
    <3>4. PICK acc : acc = tr[j]
      OBVIOUS
    <3>5. PICK nd2, ls2, st2 :
            RMade(seq, m, k, nd2, ls2, st2) /\ Round(1, 0, acc, seq[k]) = Acc(nd2, ls2, st2, ok)
      BY <3>1, <3>2, <3>4, REdgeMade
    <3>6. QED
      BY <3>1, <3>3, <3>4, <3>5
  <2>2. QED
    BY <2>1
<1> HIDE DEF Good
<1>5. Nat \subseteq Good
  BY <1>3, <1>4, Induction
<1>6. \E nd, ls, st : RMade(seq, m, m, nd, ls, st) /\ tr[m] = Acc(nd, ls, st, ok)
  BY <1>5 DEF Good
<1>7. QED
  BY <1>1, <1>6

-----------------------------------------------------------------------------
(* Sequences of nodes.                                                       *)

\* What is in a sequence with one more.
LEMMA InAppended ==
    ASSUME NEW A, NEW s \in Seq(A), NEW e \in A
    PROVE  Append(s, e) \in Seq(A) /\ \A x : Contains(Append(s, e), x) <=> Contains(s, x) \/ x = e
<1>1. PICK n \in Nat : n = Len(s)
  OBVIOUS
<1>2. PICK t : t = Append(s, e)
  OBVIOUS
<1>3. t \in Seq(A) /\ Len(t) = n + 1 /\ t[n + 1] = e /\ \A i \in 1 .. n : t[i] = s[i]
  BY <1>1, <1>2
<1>4. ASSUME NEW x
      PROVE  Contains(t, x) <=> Contains(s, x) \/ x = e
  <2>1. Contains(t, x) <=> \E i \in 1 .. n + 1 : t[i] = x
    BY <1>3 DEF Contains
  <2>2. Contains(s, x) <=> \E i \in 1 .. n : s[i] = x
    BY <1>1 DEF Contains
  <2>3. \A i \in 1 .. n + 1 : i \in 1 .. n \/ i = n + 1
    BY <1>1
  <2>4. \A i \in 1 .. n : i \in 1 .. n + 1
    BY <1>1
  <2>5. n + 1 \in 1 .. n + 1
    BY <1>1
  <2>6. QED
    BY <2>1, <2>2, <2>3, <2>4, <2>5, <1>3
<1>5. QED
  BY <1>2, <1>3, <1>4

\* What is in two sequences, one after the other.
LEMMA InJoined ==
    ASSUME NEW A, NEW s \in Seq(A), NEW t \in Seq(A)
    PROVE  s \o t \in Seq(A) /\ \A x : Contains(s \o t, x) <=> Contains(s, x) \/ Contains(t, x)
<1>1. PICK n \in Nat, m \in Nat : n = Len(s) /\ m = Len(t)
  OBVIOUS
<1>2. PICK u : u = s \o t
  OBVIOUS
<1>3. u \in Seq(A) /\ Len(u) = n + m
      /\ \A i \in 1 .. n + m : u[i] = IF i <= n THEN s[i] ELSE t[i - n]
  BY <1>1, <1>2
<1>4. ASSUME NEW x
      PROVE  Contains(u, x) <=> Contains(s, x) \/ Contains(t, x)
  <2>1. Contains(u, x) <=> \E i \in 1 .. n + m : u[i] = x
    BY <1>3 DEF Contains
  <2>2. Contains(s, x) <=> \E i \in 1 .. n : s[i] = x
    BY <1>1 DEF Contains
  <2>3. Contains(t, x) <=> \E i \in 1 .. m : t[i] = x
    BY <1>1 DEF Contains
  <2>4. ASSUME NEW i \in 1 .. n + m, u[i] = x
        PROVE  Contains(s, x) \/ Contains(t, x)
    <3>1. CASE i <= n
      BY <3>1, <2>2, <2>4, <1>3
    <3>2. CASE ~(i <= n)
      <4>1. PICK j \in 1 .. m : j = i - n
        BY <3>2
      <4>2. t[j] = x
        BY <4>1, <3>2, <2>4, <1>3
      <4>3. QED
        BY <4>2, <2>3
    <3>3. QED
      BY <3>1, <3>2
  <2>5. ASSUME NEW i \in 1 .. n, s[i] = x
        PROVE  Contains(u, x)
    <3>1. i \in 1 .. n + m /\ u[i] = x
      BY <2>5, <1>3
    <3>2. QED
      BY <3>1, <2>1
  <2>6. ASSUME NEW i \in 1 .. m, t[i] = x
        PROVE  Contains(u, x)
    <3>1. PICK j \in 1 .. n + m : j = i + n /\ j - n = i /\ ~(j <= n)
      OBVIOUS
    <3>2. u[j] = x
      BY <3>1, <2>6, <1>3
    <3>3. QED
      BY <3>2, <2>1
  <2>7. QED
    BY <2>1, <2>2, <2>3, <2>4, <2>5, <2>6
<1>5. QED
  BY <1>2, <1>3, <1>4

-----------------------------------------------------------------------------
(* What keeps nodes and lists together.                                      *)

\* Where only states change.
LEMMA StatesKeepWired ==
    ASSUME NEW nd, NEW ls, NEW st, Wired(nd, ls, st), NEW nd2, nd2 \in [DOMAIN nd -> NodeType]
    PROVE  /\ Wired(nd2, ls, st) /\ DOMAIN nd2 = DOMAIN nd
           /\ Counted(nd, ls, st) /\ (\A n \in DOMAIN nd : nd2[n].degree = nd[n].degree)
                => Counted(nd2, ls, st)
<1>1. DOMAIN nd2 = DOMAIN nd
  OBVIOUS
<1>2. Wired(nd2, ls, st)
  BY <1>1 DEF Wired
<1>3. QED
  BY <1>1, <1>2 DEF Counted

\* nd2 and ls2 are nd and ls with new nodes, whose lists are empty.
Extends(nd, ls, nd2, ls2) ==
  /\ \E size \in Nat : DOMAIN nd2 = 0 .. size - 1
  /\ DOMAIN nd \subseteq DOMAIN nd2 /\ nd2 \in [DOMAIN nd2 -> NodeType]
  /\ DOMAIN ls2 = DOMAIN nd2 /\ ls2 = [n \in DOMAIN ls2 |-> ls2[n]]
  /\ \A n \in DOMAIN nd2 : ls2[n] = IF n \in DOMAIN nd THEN ls[n] ELSE NoList

\* New nodes wait for nobody and nobody waits for them.
LEMMA ExtendsKeepsWired ==
    ASSUME NEW nd, NEW ls, NEW st, Wired(nd, ls, st), NEW nd2, NEW ls2, Extends(nd, ls, nd2, ls2)
    PROVE  /\ Wired(nd2, ls2, st)
           /\ \A d, n \in DOMAIN nd2 :
                Occurrences(ls2[d], st, n) = IF d \in DOMAIN nd /\ n \in DOMAIN nd
                                             THEN Occurrences(ls[d], st, n) ELSE 0
<1>1. PICK ids : ids = DOMAIN nd
  OBVIOUS
<1>2. PICK all : all = DOMAIN nd2
  OBVIOUS
<1>3. /\ ids \subseteq all /\ all \subseteq Int /\ DOMAIN ls = ids /\ DOMAIN ls2 = all
      /\ ls2 = [n \in DOMAIN ls2 |-> ls2[n]] /\ Sound(ls, st) /\ Named(ls, st, ids)
      /\ \A n \in all : ls2[n] = IF n \in ids THEN ls[n] ELSE NoList
  BY <1>1, <1>2 DEF Extends, Wired
<1>4. Sound(ls2, st)
  BY <1>3, GrownListsSound
<1>5. ASSUME NEW d \in all, NEW v
      PROVE  Occurrences(ls2[d], st, v) = IF d \in ids /\ v \in ids THEN Occurrences(ls[d], st, v) ELSE 0
  <2>1. CASE d \in ids
    <3>1. ls2[d] = ls[d]
      BY <2>1, <1>3
    <3>2. v \notin ids => Occurrences(ls[d], st, v) = 0
      BY <2>1, <1>3 DEF Named
    <3>3. QED
      BY <3>1, <3>2, <2>1
  <2>2. CASE d \notin ids
    <3>1. ls2[d] = NoList
      BY <2>2, <1>3
    <3>2. QED
      BY <3>1, <2>2, NobodyNamed
  <2>3. QED
    BY <2>1, <2>2
<1>6. Named(ls2, st, all)
  BY <1>3, <1>5 DEF Named
<1>7. Wired(nd2, ls2, st)
  BY <1>2, <1>3, <1>4, <1>6 DEF Wired, Extends
<1>8. QED
  BY <1>1, <1>2, <1>5, <1>7

\* The in-degrees still count the edges.
LEMMA ExtendsKeepsCounted ==
    ASSUME NEW nd, NEW ls, NEW st, Wired(nd, ls, st), Counted(nd, ls, st),
           NEW nd2, NEW ls2, Extends(nd, ls, nd2, ls2),
           \A n \in DOMAIN nd2 : nd2[n].degree = IF n \in DOMAIN nd THEN nd[n].degree ELSE 0
    PROVE  Counted(nd2, ls2, st)
<1>1. PICK ids : ids = DOMAIN nd
  OBVIOUS
<1>2. PICK all : all = DOMAIN nd2
  OBVIOUS
<1>3. Wired(nd2, ls2, st) /\ \A d, n \in all :
        Occurrences(ls2[d], st, n) = IF d \in ids /\ n \in ids THEN Occurrences(ls[d], st, n) ELSE 0
  BY <1>1, <1>2, ExtendsKeepsWired
<1>4. IsFiniteSet(ids) /\ IsFiniteSet(all)
  BY <1>1, <1>2, <1>3, IdsFinite
<1>5. ids \subseteq all /\ Sound(ls, st) /\ DOMAIN ls = ids
  BY <1>1, <1>2 DEF Extends, Wired
<1>6. ASSUME NEW n \in all
      PROVE  nd2[n].degree = SumFunction(Naming(ls2, st, all, n))
  <2>1. PICK h : h = Naming(ls2, st, all, n)
    OBVIOUS
  <2>2. DOMAIN h = all /\ \A d \in all :
          h[d] = IF d \in ids /\ n \in ids THEN Occurrences(ls[d], st, n) ELSE 0
    BY <2>1, <1>3 DEF Naming
  <2>3. CASE n \in ids
    <3>1. PICK f : f = Naming(ls, st, ids, n)
      OBVIOUS
    <3>2. DOMAIN f = ids /\ \A d \in ids : f[d] = Occurrences(ls[d], st, n)
      BY <3>1 DEF Naming
    <3>3. \A d \in ids : Occurrences(ls[d], st, n) \in Nat
      BY <1>5, SoundCounts
    <3>4. Integers(f, ids)
      BY <3>2, <3>3 DEF Integers
    <3>5. \A d \in all : h[d] = IF d \in ids THEN f[d] ELSE 0
      BY <2>2, <2>3, <3>2
    <3>6. SumFunction(h) = SumFunction(f)
      BY <1>4, <1>5, <2>2, <3>2, <3>4, <3>5, SumExtended
    <3>7. nd[n].degree = SumFunction(f)
      BY <3>1, <2>3, <1>1 DEF Counted
    <3>8. QED
      BY <3>6, <3>7, <2>1, <2>3, <1>1, <1>2
  <2>4. CASE n \notin ids
    <3>1. \A d \in all : h[d] = 0
      BY <2>2, <2>4
    <3>2. SumFunction(h) = 0
      BY <3>1, <2>2, <1>4, SumOfZeros
    <3>3. QED
      BY <3>2, <2>1, <2>4, <1>1, <1>2
  <2>5. QED
    BY <2>3, <2>4
<1>7. QED
  BY <1>2, <1>6 DEF Counted

\* reserve_per_node
LEMMA EstimateKeepsWired ==
    ASSUME NEW nd, NEW ls, NEW st, Wired(nd, ls, st), NEW e \in Nat, e < 2^MaxClass,
           NEW st2, st2 = [st EXCEPT !.expected = e]
    PROVE  /\ Wired(nd, ls, st2) /\ st2.cells = st.cells
           /\ \A l, v : Occurrences(l, st2, v) = Occurrences(l, st, v)
           /\ Counted(nd, ls, st) => Counted(nd, ls, st2)
<1>1. e + 1 <= 2^MaxClass
  <2>1. PICK top \in Nat : top = 2^MaxClass
    BY ClassPower, ClassAssumption DEF Classes
  <2>2. e + 1 <= top
    BY <2>1
  <2>3. QED
    BY <2>1, <2>2
<1>2. Sound(ls, st)
  BY DEF Wired
<1>3. Sound(ls, st2) /\ st2.cells = st.cells
  BY <1>1, <1>2, EstimateKeepsSound
<1>4. \A l, v : Occurrences(l, st2, v) = Occurrences(l, st, v)
  BY <1>3 DEF Occurrences
<1>5. Wired(nd, ls, st2)
  BY <1>3, <1>4 DEF Wired, Named
<1>6. Counted(nd, ls, st) => Counted(nd, ls, st2)
  BY <1>4 DEF Counted, Naming
<1>7. QED
  BY <1>3, <1>4, <1>5, <1>6

\* At first, and after clear, there is nothing.
LEMMA EmptyWired ==
    ASSUME NEW nd, NEW ls, \E size \in Nat : DOMAIN nd = 0 .. size - 1, nd \in [DOMAIN nd -> NodeType],
           DOMAIN ls = DOMAIN nd, ls = [n \in DOMAIN ls |-> ls[n]], \A n \in DOMAIN nd : ls[n] = NoList
    PROVE  Wired(nd, ls, EmptyStore)
<1>1. DOMAIN ls \subseteq Int
  OBVIOUS
<1>2. Sound(ls, EmptyStore)
  BY <1>1, EmptySound
<1>3. Named(ls, EmptyStore, DOMAIN nd)
  BY NobodyNamed DEF Named
<1>4. QED
  BY <1>2, <1>3 DEF Wired

-----------------------------------------------------------------------------
(* The operations both schedulers have.                                      *)

\* Only states change, and a sentinel remains one.
Stirred ==
  /\ nodes' \in [Ids -> NodeType]
  /\ \A x \in Ids : /\ nodes'[x].degree = nodes[x].degree
                    /\ (nodes'[x].state = "sentinel") = (nodes[x].state = "sentinel")
  /\ UNCHANGED <<list, store, free>>

\* What a node is made of.
LEMMA NodeIs ==
    ASSUME NEW nd \in NodeType
    PROVE  /\ nd = [state |-> nd.state, degree |-> nd.degree]
           /\ nd.state \in {"sentinel", "ready", "active", "passive"} /\ nd.degree \in Nat
  BY DEF NodeType, States

\* query turns one node active.
LEMMA QueryTurns ==
    ASSUME nodes \in [Ids -> NodeType], NEW n \in Ids, Query(n)
    PROVE  /\ nodes[n].state = "ready" /\ nodes[n].degree = 0
           /\ \A x \in Ids : /\ nodes'[x].state = IF x = n THEN "active" ELSE nodes[x].state
                             /\ nodes'[x].degree = nodes[x].degree
           /\ Stirred /\ apply' = Append(apply, n)
<1>1. nodes[n].state = "ready" /\ nodes[n].degree = 0
  BY DEF Query, CanTrigger
<1>2. PICK me : me = nodes[n]
  OBVIOUS
<1>3. me = [state |-> me.state, degree |-> me.degree] /\ me.degree \in Nat
  BY <1>2, NodeIs
<1>4. PICK now : now = [state |-> "active", degree |-> me.degree]
  OBVIOUS
<1>5. Fired(me) = now
  BY <1>3, <1>4 DEF Fired
<1>6. nodes' = [nodes EXCEPT ![n] = now] /\ apply' = Append(apply, n)
      /\ UNCHANGED <<list, store, applied, free>>
  BY <1>2, <1>5 DEF Query
<1>7. now \in NodeType /\ now.state = "active" /\ now.degree = nodes[n].degree
  BY <1>2, <1>3, <1>4 DEF NodeType, States
<1>8. \A x \in Ids : /\ nodes'[x].state = IF x = n THEN "active" ELSE nodes[x].state
                     /\ nodes'[x].degree = nodes[x].degree
  BY <1>6, <1>7
<1>9. nodes' \in [Ids -> NodeType]
  BY <1>6, <1>7
<1>10. Stirred
  BY <1>1, <1>6, <1>8, <1>9 DEF Stirred
<1>11. QED
  BY <1>1, <1>6, <1>8, <1>10

\* seed_all_nodes turns every node that waits for nobody, and queues these.
LEMMA SeedTurns ==
    ASSUME nodes \in [Ids -> NodeType], SeedAllNodes
    PROVE  /\ \A x \in Ids : /\ nodes'[x].state = IF nodes[x].state = "ready" /\ nodes[x].degree = 0
                                                  THEN "active" ELSE nodes[x].state
                             /\ nodes'[x].degree = nodes[x].degree
           /\ Stirred /\ UNCHANGED applied
           /\ \E order \in Ascending({n \in Ids : CanTrigger(nodes[n])}) : apply' = apply \o order
<1>1. nodes' = [n \in Ids |-> FiredIf(TRUE, nodes[n])] /\ UNCHANGED <<list, store, applied, free>>
  BY DEF SeedAllNodes
<1>2. ASSUME NEW x \in Ids
      PROVE  /\ nodes'[x] \in NodeType
             /\ nodes'[x].state = IF nodes[x].state = "ready" /\ nodes[x].degree = 0
                                  THEN "active" ELSE nodes[x].state
             /\ nodes'[x].degree = nodes[x].degree
  <2>1. PICK me : me = nodes[x]
    OBVIOUS
  <2>2. me = [state |-> me.state, degree |-> me.degree] /\ me \in NodeType /\ me.degree \in Nat
    BY <2>1, NodeIs
  <2>3. nodes'[x] = FiredIf(TRUE, me)
    BY <2>1, <1>1
  <2>4. CASE me.state = "ready" /\ me.degree = 0
    <3>1. nodes'[x] = Fired(me)
      BY <2>3, <2>4 DEF FiredIf, CanTrigger
    <3>2. Fired(me) = [state |-> "active", degree |-> me.degree]
      BY <2>2 DEF Fired
    <3>3. QED
      BY <3>1, <3>2, <2>1, <2>2, <2>4 DEF NodeType, States
  <2>5. CASE ~(me.state = "ready" /\ me.degree = 0)
    <3>1. nodes'[x] = me
      BY <2>3, <2>5 DEF FiredIf, CanTrigger
    <3>2. QED
      BY <3>1, <2>1, <2>2, <2>5
  <2>6. QED
    BY <2>4, <2>5
<1>3. nodes' \in [Ids -> NodeType]
  BY <1>1, <1>2
<1>4. \A x \in Ids : (nodes'[x].state = "sentinel") = (nodes[x].state = "sentinel")
  BY <1>2
<1>5. Stirred
  BY <1>1, <1>2, <1>3, <1>4 DEF Stirred
<1>6. \E order \in Ascending({n \in Ids : CanTrigger(nodes[n])}) : apply' = apply \o order
  BY DEF SeedAllNodes
<1>7. QED
  BY <1>1, <1>2, <1>5, <1>6

\* A wave starts what was queued.
LEMMA BeginTurns ==
    ASSUME nodes \in [Ids -> NodeType], BeginWave,
           \A x \in Ids : Contains(apply, x) => nodes[x].state # "sentinel"
    PROVE  /\ \A x \in Ids : /\ nodes'[x].state = IF Contains(apply, x) THEN "passive" ELSE nodes[x].state
                             /\ nodes'[x].degree = nodes[x].degree
           /\ Stirred /\ apply' = <<>>
<1>1. /\ nodes' = [n \in Ids |-> IF Contains(apply, n) THEN Started(nodes[n]) ELSE nodes[n]]
      /\ UNCHANGED <<list, store, free>> /\ apply' = <<>>
  BY DEF BeginWave, EventsRunning
<1>2. ASSUME NEW x \in Ids
      PROVE  /\ nodes'[x] \in NodeType
             /\ nodes'[x].state = IF Contains(apply, x) THEN "passive" ELSE nodes[x].state
             /\ nodes'[x].degree = nodes[x].degree
  <2>1. PICK me : me = nodes[x]
    OBVIOUS
  <2>2. me = [state |-> me.state, degree |-> me.degree] /\ me \in NodeType /\ me.degree \in Nat
    BY <2>1, NodeIs
  <2>3. Started(me) = [state |-> "passive", degree |-> me.degree]
    BY <2>2 DEF Started
  <2>4. CASE Contains(apply, x)
    <3>1. nodes'[x] = Started(me)
      BY <2>1, <2>4, <1>1
    <3>2. QED
      BY <3>1, <2>1, <2>2, <2>3, <2>4 DEF NodeType, States
  <2>5. CASE ~Contains(apply, x)
    <3>1. nodes'[x] = me
      BY <2>1, <2>5, <1>1
    <3>2. QED
      BY <3>1, <2>1, <2>2, <2>5
  <2>6. QED
    BY <2>4, <2>5
<1>3. nodes' \in [Ids -> NodeType]
  BY <1>1, <1>2
<1>4. \A x \in Ids : (nodes'[x].state = "sentinel") = (nodes[x].state = "sentinel")
  BY <1>2
<1>5. Stirred
  BY <1>1, <1>2, <1>3, <1>4 DEF Stirred
<1>6. QED
  BY <1>1, <1>2, <1>5

\* The instance of rdeps.hpp has the same operations.
LEMMA RSameOperations ==
    /\ \A n : R!Query(n) = Query(n)
    /\ R!SeedAllNodes = SeedAllNodes
    /\ R!BeginWave = BeginWave
    /\ R!EndWave = EndWave
    /\ \A e : R!ReservePerNode(e) = ReservePerNode(e)
    /\ R!Clear = Clear
<1>1. R!Ids = Ids
  BY DEF R!Ids, Ids
<1>2. \A n : R!Query(n) = Query(n)
  BY DEF R!Query, Query, R!CanTrigger, CanTrigger, R!Fired, Fired
<1>3. R!SeedAllNodes = SeedAllNodes
  BY <1>1 DEF R!SeedAllNodes, SeedAllNodes, R!CanTrigger, CanTrigger, R!FiredIf, FiredIf, R!Fired, Fired,
     R!Ascending, Ascending, R!Cardinality, Cardinality
<1>4. R!BeginWave = BeginWave
  BY <1>1 DEF R!BeginWave, BeginWave, R!EventsRunning, EventsRunning, R!Started, Started,
     R!Contains, Contains
<1>5. R!EndWave = EndWave
  BY DEF R!EndWave, EndWave, R!EventsRunning, EventsRunning
<1>6. \A e : R!ReservePerNode(e) = ReservePerNode(e)
  BY DEF R!ReservePerNode, ReservePerNode
<1>7. R!Clear = Clear
  BY RSameNoList, RSameEmptyStore DEF R!Clear, Clear, R!EventsRunning, EventsRunning, R!FreshNode, FreshNode
<1>8. QED
  BY <1>2, <1>3, <1>4, <1>5, <1>6, <1>7

-----------------------------------------------------------------------------
(* The recycling scheduler.                                                  *)

\* A sentinel waits for nobody and has no cells; the ids to hand out again are
\* sentinels, each once; and the nodes to run are those that are active.
Resting(nd, ls) == \A n \in DOMAIN nd : nd[n].state = "sentinel" => nd[n].degree = 0 /\ ls[n] = NoList
Spare(fr, nd) ==
  /\ fr \in Seq(DOMAIN nd)
  /\ \A k \in 1 .. Len(fr) : nd[fr[k]].state = "sentinel"
  /\ \A j, k \in 1 .. Len(fr) : fr[j] = fr[k] => j = k
Lined(ap, nd) ==
  /\ ap \in Seq(DOMAIN nd)
  /\ \A n \in DOMAIN nd : Contains(ap, n) <=> nd[n].state = "active"

\* The inductive invariant of rdeps.hpp.
RInv ==
  /\ Wired(nodes, list, store) /\ Counted(nodes, list, store)
  /\ Resting(nodes, list) /\ Spare(free, nodes) /\ Lined(apply, nodes)
  /\ Ids \subseteq 0 .. MaxNodes - 1

\* The nodes of S are new, or new again.
Made(S) ==
  /\ Extends(nodes, list, nodes', list')
  /\ \A x \in DOMAIN nodes' :
       /\ nodes'[x].degree = IF x \in Ids THEN nodes[x].degree ELSE 0
       /\ nodes'[x].state = IF x \in S THEN "ready" ELSE nodes[x].state
       /\ x \in S \/ x \in Ids
  /\ \A x \in S : x \in DOMAIN nodes' /\ (x \in Ids => nodes[x].state = "sentinel")
  /\ UNCHANGED <<store, apply>>

\* New nodes keep the invariant.
LEMMA MadeKeepsRInv ==
    ASSUME RInv, NEW S, Made(S), Spare(free', nodes'), Ids' \subseteq 0 .. MaxNodes - 1
    PROVE  RInv'
<1>1. Extends(nodes, list, nodes', list') /\ UNCHANGED <<store, apply>>
  BY DEF Made
<1>2. \A x \in DOMAIN nodes' : nodes'[x].degree = IF x \in DOMAIN nodes THEN nodes[x].degree ELSE 0
  BY DEF Made, Ids
<1>3. Wired(nodes', list', store')
  BY <1>1, ExtendsKeepsWired DEF RInv
<1>4. Counted(nodes', list', store')
  BY <1>1, <1>2, ExtendsKeepsCounted DEF RInv
<1>5. Resting(nodes', list')
  <2>1. ASSUME NEW x \in DOMAIN nodes', nodes'[x].state = "sentinel"
        PROVE  nodes'[x].degree = 0 /\ list'[x] = NoList
    <3>1. x \in Ids /\ nodes[x].state = "sentinel"
      BY <2>1 DEF Made
    <3>2. nodes[x].degree = 0 /\ list[x] = NoList
      BY <3>1 DEF RInv, Resting, Ids
    <3>3. QED
      BY <3>1, <3>2, <1>1, <1>2 DEF Extends, Ids
  <2>2. QED
    BY <2>1 DEF Resting
<1>6. Lined(apply', nodes')
  <2>1. apply \in Seq(DOMAIN nodes')
    <3>1. DOMAIN nodes \subseteq DOMAIN nodes' /\ apply \in Seq(DOMAIN nodes)
      BY <1>1 DEF Extends, RInv, Lined
    <3>2. QED
      BY <3>1
  <2>2. ASSUME NEW x \in DOMAIN nodes'
        PROVE  Contains(apply, x) <=> nodes'[x].state = "active"
    <3>1. CASE x \in Ids
      <4>1. Contains(apply, x) <=> nodes[x].state = "active"
        BY <3>1 DEF RInv, Lined, Ids
      <4>2. CASE x \in S
        BY <4>1, <4>2, <3>1, <2>2 DEF Made
      <4>3. CASE x \notin S
        BY <4>1, <4>3, <2>2 DEF Made
      <4>4. QED
        BY <4>2, <4>3
    <3>2. CASE x \notin Ids
      <4>1. nodes'[x].state = "ready"
        BY <3>2, <2>2 DEF Made
      <4>2. ~Contains(apply, x)
        <5>1. apply \in Seq(Ids)
          BY DEF RInv, Lined, Ids
        <5>2. QED
          BY <5>1, <3>2 DEF Contains
      <4>3. QED
        BY <4>1, <4>2
    <3>3. QED
      BY <3>1, <3>2
  <2>3. QED
    BY <2>1, <2>2, <1>1 DEF Lined
<1>7. QED
  BY <1>3, <1>4, <1>5, <1>6 DEF RInv

\* Where only states change, what is queued has to be told.
LEMMA StirredKeepsRInv ==
    ASSUME RInv, Stirred, Lined(apply', nodes')
    PROVE  RInv'
<1>1. /\ nodes' \in [Ids -> NodeType] /\ DOMAIN nodes' = Ids
      /\ \A x \in Ids : /\ nodes'[x].degree = nodes[x].degree
                        /\ (nodes'[x].state = "sentinel") = (nodes[x].state = "sentinel")
      /\ list' = list /\ store' = store /\ free' = free
  BY DEF Stirred
<1>2. Wired(nodes', list', store') /\ Counted(nodes', list', store')
  BY <1>1, StatesKeepWired DEF RInv, Ids
<1>3. Resting(nodes', list')
  BY <1>1 DEF RInv, Resting, Ids
<1>4. Spare(free', nodes')
  <2>1. free \in Seq(Ids) /\ \A k \in 1 .. Len(free) : nodes[free[k]].state = "sentinel"
        /\ \A j, i \in 1 .. Len(free) : free[j] = free[i] => j = i
    BY DEF RInv, Spare, Ids
  <2>2. \A k \in 1 .. Len(free) : free[k] \in Ids
    BY <2>1
  <2>3. QED
    BY <2>1, <2>2, <1>1 DEF Spare
<1>5. Ids' \subseteq 0 .. MaxNodes - 1
  BY <1>1 DEF RInv, Ids
<1>6. QED
  BY <1>2, <1>3, <1>4, <1>5 DEF RInv

\* The nodes and lists of a call that makes "more" of them.
LEMMA RGrownIs ==
    ASSUME Wired(nodes, list, store), NEW more \in Nat, NEW nd, NEW ls,
           nd = R!GrownNodes(more, R!FreshNode), ls = R!GrownLists(more)
    PROVE  /\ \E size \in Nat : size = Cardinality(Ids) + more /\ DOMAIN nd = 0 .. size - 1
           /\ DOMAIN ls = DOMAIN nd /\ ls = [n \in DOMAIN ls |-> ls[n]] /\ Ids \subseteq DOMAIN nd
           /\ nd \in [DOMAIN nd -> NodeType]
           /\ \A x \in DOMAIN nd : /\ nd[x] = IF x \in Ids THEN nodes[x] ELSE [state |-> "ready", degree |-> 0]
                                   /\ ls[x] = IF x \in Ids THEN list[x] ELSE NoList
<1>1. Cardinality(Ids) \in Nat /\ Ids = 0 .. Cardinality(Ids) - 1 /\ nodes \in [Ids -> NodeType]
  BY IdsFinite DEF Ids, Wired
<1>2. PICK size \in Nat : size = Cardinality(Ids) + more
  BY <1>1
<1>3. PICK fresh : fresh = [state |-> "ready", degree |-> 0]
  OBVIOUS
<1>4. R!GrownNodes(more, R!FreshNode) = GrownNodes(more, fresh)
  BY <1>3 DEF R!GrownNodes, GrownNodes, R!Cardinality, Cardinality, R!Ids, Ids, R!FreshNode
<1>5. R!GrownLists(more) = GrownLists(more)
  BY RSameNoList DEF R!GrownLists, GrownLists, R!Cardinality, Cardinality, R!Ids, Ids
<1>6. /\ nd = [i \in 0 .. size - 1 |-> IF i \in Ids THEN nodes[i] ELSE fresh]
      /\ ls = [i \in 0 .. size - 1 |-> IF i \in Ids THEN list[i] ELSE NoList]
      /\ fresh \in NodeType
  <2>1. nd = [i \in 0 .. Cardinality(Ids) + more - 1 |-> IF i \in Ids THEN nodes[i] ELSE fresh]
    BY <1>4 DEF GrownNodes
  <2>2. ls = [i \in 0 .. Cardinality(Ids) + more - 1 |-> IF i \in Ids THEN list[i] ELSE NoList]
    BY <1>5 DEF GrownLists
  <2>3. fresh \in NodeType
    BY <1>3 DEF NodeType, States
  <2>4. 0 .. size - 1 = 0 .. Cardinality(Ids) + more - 1
    BY <1>1, <1>2
  <2>5. QED
    BY <2>1, <2>2, <2>3, <2>4
<1>7. Ids \subseteq 0 .. size - 1
  BY <1>1, <1>2
<1>8. DOMAIN nd = 0 .. size - 1 /\ DOMAIN ls = 0 .. size - 1
  BY <1>6
<1>9. \A x \in DOMAIN nd : /\ nd[x] = IF x \in Ids THEN nodes[x] ELSE fresh
                           /\ ls[x] = IF x \in Ids THEN list[x] ELSE NoList
                           /\ nd[x] \in NodeType
  BY <1>1, <1>6
<1>10. nd \in [DOMAIN nd -> NodeType] /\ ls = [n \in DOMAIN ls |-> ls[n]]
  BY <1>6, <1>8, <1>9
<1>11. QED
  BY <1>2, <1>3, <1>7, <1>8, <1>9, <1>10

-----------------------------------------------------------------------------
(* The nodes a call of rdeps.hpp makes.                                      *)

\* The lesser of two numbers.
LEMMA RLesser ==
    ASSUME NEW a \in Nat, NEW b \in Nat
    PROVE  R!Min({a, b}) \in Nat /\ R!Min({a, b}) <= a /\ R!Min({a, b}) <= b
<1>1. R!Min({a, b}) = Min({a, b})
  BY DEF R!Min, Min
<1>2. {a, b} \subseteq Nat /\ {a, b} # {}
  OBVIOUS
<1>3. Min({a, b}) \in {a, b} /\ \A y \in {a, b} : Min({a, b}) <= y
  BY <1>2, MinIsLeast
<1>4. QED
  BY <1>1, <1>3

\* A sequence that is not empty has an element.
LEMMA NotEmpty ==
    ASSUME NEW A, NEW s \in Seq(A), s # <<>>
    PROVE  Len(s) \in Nat /\ Len(s) # 0
<1>1. Len(s) \in Nat /\ s \in [1 .. Len(s) -> A]
  OBVIOUS
<1>2. ASSUME Len(s) = 0
      PROVE  FALSE
  <2>1. 1 .. Len(s) = {}
    BY <1>2
  <2>2. s = [i \in {} |-> s[i]]
    BY <1>1, <2>1
  <2>3. <<>> = [i \in {} |-> s[i]]
    OBVIOUS
  <2>4. QED
    BY <2>2, <2>3
<1>3. QED
  BY <1>1, <1>2

\* The ids that stay on the free list.
LEMMA SpareKept ==
    ASSUME NEW nd, NEW fr, Spare(fr, nd), NEW nd2, DOMAIN nd \subseteq DOMAIN nd2,
           NEW kept \in Nat, kept <= Len(fr),
           \A k \in 1 .. kept : nd2[fr[k]].state = "sentinel",
           NEW fr2, fr2 = SubSeq(fr, 1, kept)
    PROVE  Spare(fr2, nd2)
<1>1. fr \in Seq(DOMAIN nd) /\ \A j, k \in 1 .. Len(fr) : fr[j] = fr[k] => j = k
  BY DEF Spare
<1>2. Len(fr) \in Nat
  BY <1>1
<1>3. fr2 = [k \in 1 .. kept |-> fr[k]]
  BY <1>1, <1>2
<1>4. \A k \in 1 .. kept : k \in 1 .. Len(fr) /\ fr[k] \in DOMAIN nd2
  BY <1>1, <1>2
<1>5. fr2 \in Seq(DOMAIN nd2) /\ Len(fr2) = kept
  BY <1>3, <1>4
<1>6. \A k \in 1 .. kept : fr2[k] = fr[k]
  BY <1>3
<1>7. QED
  BY <1>1, <1>4, <1>5, <1>6 DEF Spare

\* make_node: an id that is left as it was, or a new node.
LEMMA RMakeNodeMakes ==
    ASSUME RInv, R!MakeNode
    PROVE  (\E S : Made(S)) /\ Spare(free', nodes') /\ Ids' \subseteq 0 .. MaxNodes - 1
<1>1. /\ Wired(nodes, list, store) /\ Spare(free, nodes) /\ Ids \subseteq 0 .. MaxNodes - 1
      /\ free \in Seq(Ids) /\ \A k \in 1 .. Len(free) : nodes[free[k]].state = "sentinel"
  BY DEF RInv, Spare, Ids
<1>2. UNCHANGED <<store, apply>>
  BY DEF R!MakeNode
<1>3. nodes \in [Ids -> NodeType] /\ DOMAIN list = Ids /\ list = [n \in DOMAIN list |-> list[n]]
      /\ \E size \in Nat : Ids = 0 .. size - 1
  BY <1>1 DEF Wired, Ids, Sound
<1>4. CASE free # <<>>
  <2>1. free' = R!Front(free) /\ UNCHANGED <<nodes, list>>
    BY <1>4 DEF R!MakeNode
  <2>2. PICK kept \in Nat : kept = Len(free) - 1 /\ kept <= Len(free)
    <3>1. Len(free) \in Nat /\ Len(free) # 0
      BY <1>1, <1>4, NotEmpty
    <3>2. QED
      BY <3>1, SMTT(20)
  <2>3. free' = SubSeq(free, 1, kept)
    BY <2>1, <2>2 DEF R!Front
  <2>4. \A k \in 1 .. kept : nodes'[free[k]].state = "sentinel"
    <3>1. \A k \in 1 .. kept : k \in 1 .. Len(free)
      BY <2>2
    <3>2. QED
      BY <3>1, <2>1, <1>1
  <2>5. Spare(free', nodes')
    BY <2>1, <2>2, <2>3, <2>4, <1>1, SpareKept
  <2>6. Extends(nodes, list, nodes', list')
    BY <2>1, <1>3 DEF Extends, Ids
  <2>7. Made({})
    BY <2>1, <2>6, <1>2 DEF Made, Ids
  <2>8. QED
    BY <2>1, <2>5, <2>7, <1>1 DEF Ids
<1>5. CASE free = <<>>
  <2>1. /\ R!Cardinality(R!Ids) < MaxNodes /\ UNCHANGED free
        /\ nodes' = R!GrownNodes(1, R!FreshNode) /\ list' = R!GrownLists(1)
    BY <1>5 DEF R!MakeNode
  <2>2. Cardinality(Ids) < MaxNodes
    BY <2>1 DEF R!Cardinality, Cardinality, R!Ids, Ids
  <2>3. PICK size \in Nat : size = Cardinality(Ids) + 1 /\ DOMAIN nodes' = 0 .. size - 1
    BY <1>1, <2>1, RGrownIs
  <2>4. /\ DOMAIN list' = DOMAIN nodes' /\ list' = [n \in DOMAIN list' |-> list'[n]]
        /\ Ids \subseteq DOMAIN nodes' /\ nodes' \in [DOMAIN nodes' -> NodeType]
        /\ \A x \in DOMAIN nodes' :
             /\ nodes'[x] = IF x \in Ids THEN nodes[x] ELSE [state |-> "ready", degree |-> 0]
             /\ list'[x] = IF x \in Ids THEN list[x] ELSE NoList
    BY <1>1, <2>1, RGrownIs
  <2>5. Extends(nodes, list, nodes', list')
    BY <2>3, <2>4 DEF Extends, Ids
  <2>6. PICK S : S = DOMAIN nodes' \ Ids
    OBVIOUS
  <2>7. Made(S)
    BY <2>4, <2>5, <2>6, <1>2 DEF Made
  <2>8. PICK kept \in Nat : kept = Len(free) /\ kept = 0
    BY <1>5
  <2>9. free' = SubSeq(free, 1, kept)
    BY <2>1, <2>8, <1>5
  <2>10. Spare(free', nodes')
    <3>1. DOMAIN nodes \subseteq DOMAIN nodes' /\ kept <= Len(free)
      BY <2>4, <2>8 DEF Ids
    <3>2. \A k \in 1 .. kept : nodes'[free[k]].state = "sentinel"
      BY <2>8
    <3>3. QED
      BY <3>1, <3>2, <2>8, <2>9, <1>1, SpareKept
  <2>11. Ids' \subseteq 0 .. MaxNodes - 1
    <3>1. PICK c \in Nat : c = Cardinality(Ids)
      BY <1>1, IdsFinite DEF Ids
    <3>2. MaxNodes \in Nat
      BY BoundsAssumption
    <3>3. size - 1 <= MaxNodes - 1
      BY <3>1, <3>2, <2>2, <2>3
    <3>4. QED
      BY <3>2, <3>3, <2>3 DEF Ids
  <2>12. QED
    BY <2>7, <2>10, <2>11
<1>6. QED
  BY <1>4, <1>5

\* make_nodes: new nodes, and nodes made new again.
LEMMA RMakeNodesMakes ==
    ASSUME RInv, NEW count \in Nat, R!MakeNodes(count)
    PROVE  (\E S : Made(S)) /\ Spare(free', nodes') /\ Ids' \subseteq 0 .. MaxNodes - 1
<1>1. /\ Wired(nodes, list, store) /\ Spare(free, nodes) /\ Resting(nodes, list)
      /\ free \in Seq(Ids) /\ \A k \in 1 .. Len(free) : nodes[free[k]].state = "sentinel"
      /\ \A j, k \in 1 .. Len(free) : free[j] = free[k] => j = k
  BY DEF RInv, Spare, Ids
<1>2. PICK len \in Nat : len = Len(free)
  BY <1>1
<1>3. PICK recycled \in Nat : recycled = R!Min({count, len}) /\ recycled <= count /\ recycled <= len
  BY RLesser
<1>4. PICK kept \in Nat : kept = len - recycled /\ kept <= len
  BY <1>3
<1>5. PICK more \in Nat : more = count - recycled
  BY <1>3
<1>6. PICK reused : reused = {free[k] : k \in kept + 1 .. len}
  OBVIOUS
<1>7. PICK nd : nd = R!GrownNodes(more, R!FreshNode)
  OBVIOUS
<1>8. PICK ls : ls = R!GrownLists(more)
  OBVIOUS
<1>9. /\ R!Cardinality(R!Ids) + count - recycled <= MaxNodes
      /\ nodes' = [n \in DOMAIN nd |-> IF n \in reused THEN R!FreshNode ELSE nd[n]]
      /\ list' = [n \in DOMAIN nodes' |-> IF n \in reused THEN R!NoList ELSE ls[n]]
      /\ free' = SubSeq(free, 1, kept) /\ UNCHANGED <<store, apply>>
  BY <1>2, <1>3, <1>4, <1>5, <1>6, <1>7, <1>8 DEF R!MakeNodes
<1>10. PICK size \in Nat : size = Cardinality(Ids) + more /\ DOMAIN nd = 0 .. size - 1
  BY <1>1, <1>7, <1>8, RGrownIs
<1>11. /\ DOMAIN ls = DOMAIN nd /\ Ids \subseteq DOMAIN nd /\ nd \in [DOMAIN nd -> NodeType]
       /\ \A x \in DOMAIN nd :
            /\ nd[x] = IF x \in Ids THEN nodes[x] ELSE [state |-> "ready", degree |-> 0]
            /\ ls[x] = IF x \in Ids THEN list[x] ELSE NoList
  BY <1>1, <1>7, <1>8, RGrownIs
<1>12. \A x \in reused : /\ x \in Ids /\ nodes[x].state = "sentinel"
                         /\ nodes[x].degree = 0 /\ list[x] = NoList
  <2>1. ASSUME NEW k \in kept + 1 .. len
        PROVE  free[k] \in Ids /\ nodes[free[k]].state = "sentinel"
    <3>1. k \in 1 .. Len(free)
      BY <1>2
    <3>2. QED
      BY <3>1, <1>1
  <2>2. QED
    BY <2>1, <1>6, <1>1 DEF Resting, Ids
<1>13. PICK fresh : fresh = [state |-> "ready", degree |-> 0]
  OBVIOUS
<1>14. R!FreshNode = fresh /\ R!NoList = NoList
  BY <1>13, RSameNoList DEF R!FreshNode
<1>15. fresh \in NodeType /\ fresh.state = "ready" /\ fresh.degree = 0
  BY <1>13 DEF NodeType, States
<1>16. DOMAIN nodes' = DOMAIN nd /\ DOMAIN list' = DOMAIN nd /\ list' = [n \in DOMAIN list' |-> list'[n]]
  BY <1>9
<1>17. \A x \in DOMAIN nd : nodes'[x] = IF x \in reused THEN fresh ELSE nd[x]
  BY <1>9, <1>14
<1>18. \A x \in DOMAIN nd : list'[x] = IF x \in Ids THEN list[x] ELSE NoList
  <2>1. \A x \in DOMAIN nd : list'[x] = IF x \in reused THEN NoList ELSE ls[x]
    BY <1>9, <1>14, <1>16
  <2>2. QED
    BY <2>1, <1>11, <1>12
<1>19. nodes' \in [DOMAIN nodes' -> NodeType]
  <2>1. \A x \in DOMAIN nd : nodes'[x] \in NodeType
    BY <1>11, <1>15, <1>17
  <2>2. nodes' = [n \in DOMAIN nd |-> nodes'[n]]
    BY <1>9
  <2>3. QED
    BY <2>1, <2>2, <1>16
<1>20. Extends(nodes, list, nodes', list')
  BY <1>10, <1>11, <1>16, <1>18, <1>19 DEF Extends, Ids
<1>21. PICK S : S = (DOMAIN nd \ Ids) \cup reused
  OBVIOUS
<1>22. \A x \in DOMAIN nd :
         /\ nodes'[x].degree = IF x \in Ids THEN nodes[x].degree ELSE 0
         /\ nodes'[x].state = IF x \in S THEN "ready" ELSE nodes[x].state
         /\ x \in S \/ x \in Ids
  BY <1>11, <1>12, <1>13, <1>15, <1>17, <1>21
<1>23. Made(S)
  BY <1>9, <1>11, <1>12, <1>16, <1>20, <1>21, <1>22 DEF Made
<1>24. Spare(free', nodes')
  <2>1. ASSUME NEW k \in 1 .. kept
        PROVE  nodes'[free[k]].state = "sentinel"
    <3>1. k \in 1 .. Len(free) /\ k <= kept
      BY <1>2, <1>4
    <3>2. free[k] \notin reused
      <4>1. ASSUME NEW j \in kept + 1 .. len, free[j] = free[k]
            PROVE  FALSE
        <5>1. j \in 1 .. Len(free) /\ j # k
          BY <1>2, <3>1
        <5>2. QED
          BY <5>1, <4>1, <3>1, <1>1
      <4>2. QED
        BY <4>1, <1>6
    <3>3. free[k] \in Ids /\ nodes[free[k]].state = "sentinel"
      BY <3>1, <1>1
    <3>4. QED
      BY <3>2, <3>3, <1>11, <1>17
  <2>2. DOMAIN nodes \subseteq DOMAIN nodes'
    BY <1>11, <1>16 DEF Ids
  <2>3. QED
    BY <2>1, <2>2, <1>1, <1>2, <1>4, <1>9, SpareKept
<1>25. Ids' \subseteq 0 .. MaxNodes - 1
  <2>1. PICK c \in Nat : c = Cardinality(Ids)
    BY <1>1, IdsFinite DEF Ids
  <2>2. MaxNodes \in Nat
    BY BoundsAssumption
  <2>3. R!Cardinality(R!Ids) = Cardinality(Ids)
    BY DEF R!Cardinality, Cardinality, R!Ids, Ids
  <2>4. c + count - recycled <= MaxNodes
    BY <2>1, <2>3, <1>9
  <2>5. size - 1 <= MaxNodes - 1
    BY <2>1, <2>2, <2>4, <1>3, <1>5, <1>10
  <2>6. QED
    BY <2>2, <2>5, <1>10, <1>16 DEF Ids
<1>26. QED
  BY <1>23, <1>24, <1>25

-----------------------------------------------------------------------------
(* What queues nodes, and what yields.                                       *)

\* A list of nodes in ascending order has them all.
LEMMA AscendingHasAll ==
    ASSUME NEW S, IsFiniteSet(S), S \subseteq Int, NEW order \in Ascending(S)
    PROVE  order \in Seq(S) /\ \A x : Contains(order, x) <=> x \in S
<1>1. PICK n \in Nat : n = Cardinality(S)
  BY FS_CardinalityType
<1>2. order \in [1 .. n -> S] /\ \A j, k \in 1 .. n : j < k => order[j] < order[k]
  BY <1>1 DEF Ascending
<1>3. \A j, k \in 1 .. n : order[j] = order[k] => j = k
  <2>1. ASSUME NEW j \in 1 .. n, NEW k \in 1 .. n, j < k
        PROVE  order[j] # order[k]
    <3>1. order[j] \in Int /\ order[k] \in Int /\ order[j] < order[k]
      BY <1>2, <2>1
    <3>2. QED
      BY <3>1
  <2>2. ASSUME NEW j \in 1 .. n, NEW k \in 1 .. n, order[j] = order[k]
        PROVE  j = k
    <3>1. ~(j < k) /\ ~(k < j)
      BY <2>1, <2>2
    <3>2. QED
      BY <3>1
  <2>3. QED
    BY <2>2
<1>4. order \in Injection(1 .. n, S)
  BY <1>2, <1>3 DEF Injection, IsInjective
<1>5. Cardinality(1 .. n) = n
  <2>1. Cardinality(1 .. n) = IF 1 > n THEN 0 ELSE n - 1 + 1
    BY FS_Interval
  <2>2. QED
    BY <2>1
<1>6. order \in Surjection(1 .. n, S)
  BY <1>1, <1>4, <1>5, FS_Injection
<1>7. \A x \in S : \E k \in 1 .. n : order[k] = x
  BY <1>6 DEF Surjection
<1>8. order \in Seq(S) /\ Len(order) = n
  BY <1>2
<1>9. QED
  BY <1>2, <1>7, <1>8 DEF Contains

\* Who is queued, after query ...
LEMMA QueryLines ==
    ASSUME Wired(nodes, list, store), Lined(apply, nodes), NEW n \in Ids, Query(n)
    PROVE  Stirred /\ Lined(apply', nodes')
<1>1. nodes \in [Ids -> NodeType] /\ apply \in Seq(Ids)
      /\ \A x \in Ids : Contains(apply, x) <=> nodes[x].state = "active"
  BY DEF Wired, Ids, Lined
<1>2. /\ \A x \in Ids : nodes'[x].state = IF x = n THEN "active" ELSE nodes[x].state
      /\ Stirred /\ apply' = Append(apply, n)
  BY <1>1, QueryTurns
<1>3. apply' \in Seq(Ids) /\ \A x : Contains(apply', x) <=> Contains(apply, x) \/ x = n
  BY <1>1, <1>2, InAppended
<1>4. DOMAIN nodes' = Ids
  BY <1>2 DEF Stirred
<1>5. QED
  BY <1>1, <1>2, <1>3, <1>4 DEF Lined

\* ... after seed_all_nodes ...
LEMMA SeedLines ==
    ASSUME Wired(nodes, list, store), Lined(apply, nodes), SeedAllNodes
    PROVE  Stirred /\ Lined(apply', nodes')
<1>1. nodes \in [Ids -> NodeType] /\ apply \in Seq(Ids) /\ IsFiniteSet(Ids) /\ Ids \subseteq Int
      /\ \A x \in Ids : Contains(apply, x) <=> nodes[x].state = "active"
  BY IdsFinite DEF Wired, Ids, Lined
<1>2. PICK seeds : seeds = {n \in Ids : CanTrigger(nodes[n])}
  OBVIOUS
<1>3. /\ \A x \in Ids : nodes'[x].state = IF nodes[x].state = "ready" /\ nodes[x].degree = 0
                                          THEN "active" ELSE nodes[x].state
      /\ Stirred
  BY <1>1, SeedTurns
<1>4. PICK order \in Ascending(seeds) : apply' = apply \o order
  BY <1>1, <1>2, SeedTurns
<1>5. \A x \in Ids : x \in seeds <=> nodes[x].state = "ready" /\ nodes[x].degree = 0
  BY <1>2 DEF CanTrigger
<1>6. IsFiniteSet(seeds) /\ seeds \subseteq Int /\ seeds \subseteq Ids
  <2>1. seeds \in SUBSET Ids
    BY <1>2
  <2>2. QED
    BY <2>1, <1>1, FS_Subset
<1>7. order \in Seq(seeds) /\ \A x : Contains(order, x) <=> x \in seeds
  BY <1>4, <1>6, AscendingHasAll
<1>8. order \in Seq(Ids)
  <2>1. order \in [1 .. Len(order) -> seeds] /\ Len(order) \in Nat
    BY <1>7
  <2>2. order \in [1 .. Len(order) -> Ids]
    BY <2>1, <1>6
  <2>3. QED
    BY <2>1, <2>2
<1>9. apply' \in Seq(Ids) /\ \A x : Contains(apply', x) <=> Contains(apply, x) \/ Contains(order, x)
  BY <1>1, <1>4, <1>8, InJoined
<1>10. DOMAIN nodes' = Ids
  BY <1>3 DEF Stirred
<1>11. \A x \in Ids : Contains(apply', x) <=> nodes'[x].state = "active"
  BY <1>1, <1>3, <1>5, <1>7, <1>9
<1>12. QED
  BY <1>3, <1>9, <1>10, <1>11 DEF Lined

\* ... and at the start of a wave.
LEMMA BeginLines ==
    ASSUME Wired(nodes, list, store), Lined(apply, nodes), BeginWave
    PROVE  Stirred /\ Lined(apply', nodes')
<1>1. nodes \in [Ids -> NodeType] /\ \A x \in Ids : Contains(apply, x) <=> nodes[x].state = "active"
  BY DEF Wired, Ids, Lined
<1>2. \A x \in Ids : Contains(apply, x) => nodes[x].state # "sentinel"
  BY <1>1
<1>3. /\ \A x \in Ids : nodes'[x].state = IF Contains(apply, x) THEN "passive" ELSE nodes[x].state
      /\ Stirred /\ apply' = <<>>
  BY <1>1, <1>2, BeginTurns
<1>4. DOMAIN nodes' = Ids
  BY <1>3 DEF Stirred
<1>5. \A x : ~Contains(<<>>, x)
  BY DEF Contains
<1>6. <<>> \in Seq(Ids)
  OBVIOUS
<1>7. \A x \in Ids : nodes'[x].state # "active"
  BY <1>1, <1>3
<1>8. QED
  BY <1>3, <1>4, <1>5, <1>6, <1>7 DEF Lined

\* These keep the invariant.
LEMMA RQueryKeepsRInv ==
    ASSUME RInv, NEW n \in Ids, Query(n)
    PROVE  RInv'
  BY QueryLines, StirredKeepsRInv DEF RInv

\* So does seed_all_nodes,
LEMMA RSeedKeepsRInv ==
    ASSUME RInv, SeedAllNodes
    PROVE  RInv'
  BY SeedLines, StirredKeepsRInv DEF RInv

\* and so does a wave.
LEMMA RBeginKeepsRInv ==
    ASSUME RInv, BeginWave
    PROVE  RInv'
  BY BeginLines, StirredKeepsRInv DEF RInv

\* What defuse_and_yeild makes of its node.
LEMMA RYieldTurns ==
    ASSUME nodes \in [Ids -> NodeType], NEW n \in Ids, R!DefuseAndYield(n)
    PROVE  /\ nodes[n].state = "passive"
           /\ \A x \in Ids : /\ nodes'[x].state = IF x # n THEN nodes[x].state
                                                  ELSE IF nodes[n].degree = 0 THEN "active" ELSE "ready"
                             /\ nodes'[x].degree = nodes[x].degree
           /\ Stirred /\ apply' = IF nodes[n].degree = 0 THEN Append(apply, n) ELSE apply
<1>1. PICK nd : nd = nodes[n]
  OBVIOUS
<1>2. nd = [state |-> nd.state, degree |-> nd.degree] /\ nd.degree \in Nat
  BY <1>1, NodeIs
<1>3. PICK calm : calm = [state |-> "ready", degree |-> nd.degree]
  OBVIOUS
<1>4. PICK me : me = R!FiredIf(TRUE, calm)
  OBVIOUS
<1>5. R!Defused(nd, FALSE) = calm
  BY <1>2, <1>3 DEF R!Defused
<1>6. /\ nd.state = "passive" /\ nodes' = [nodes EXCEPT ![n] = me]
      /\ apply' = IF me.state = "active" THEN Append(apply, n) ELSE apply
      /\ UNCHANGED <<list, store, free>>
  BY <1>1, <1>4, <1>5 DEF R!DefuseAndYield
<1>7. me = [state |-> IF nd.degree = 0 THEN "active" ELSE "ready", degree |-> nd.degree]
  <2>1. CASE nd.degree = 0
    <3>1. me = R!Fired(calm)
      BY <1>3, <1>4, <2>1 DEF R!FiredIf, R!CanTrigger
    <3>2. QED
      BY <3>1, <1>3, <2>1 DEF R!Fired
  <2>2. CASE nd.degree # 0
    <3>1. me = calm
      BY <1>3, <1>4, <2>2 DEF R!FiredIf, R!CanTrigger
    <3>2. QED
      BY <3>1, <1>3, <2>2
  <2>3. QED
    BY <2>1, <2>2
<1>8. me \in NodeType /\ me.degree = nd.degree
      /\ me.state = IF nd.degree = 0 THEN "active" ELSE "ready"
  BY <1>2, <1>7 DEF NodeType, States
<1>9. \A x \in Ids : nodes'[x] = IF x = n THEN me ELSE nodes[x]
  BY <1>6
<1>10. nodes' \in [Ids -> NodeType]
  BY <1>6, <1>8
<1>11. /\ \A x \in Ids : /\ nodes'[x].state = IF x # n THEN nodes[x].state
                                              ELSE IF nodes[n].degree = 0 THEN "active" ELSE "ready"
                         /\ nodes'[x].degree = nodes[x].degree
       /\ apply' = IF nodes[n].degree = 0 THEN Append(apply, n) ELSE apply
  BY <1>1, <1>6, <1>8, <1>9
<1>12. \A x \in Ids : (nodes'[x].state = "sentinel") = (nodes[x].state = "sentinel")
  BY <1>1, <1>6, <1>11
<1>13. Stirred
  BY <1>6, <1>10, <1>11, <1>12 DEF Stirred
<1>14. QED
  BY <1>1, <1>6, <1>11, <1>13

\* defuse_and_yeild keeps the invariant.
LEMMA RYieldKeepsRInv ==
    ASSUME RInv, NEW n \in Ids, R!DefuseAndYield(n)
    PROVE  RInv'
<1>1. nodes \in [Ids -> NodeType] /\ apply \in Seq(Ids)
      /\ \A x \in Ids : Contains(apply, x) <=> nodes[x].state = "active"
  BY DEF RInv, Wired, Ids, Lined
<1>2. /\ nodes[n].state = "passive"
      /\ \A x \in Ids : nodes'[x].state = IF x # n THEN nodes[x].state
                                          ELSE IF nodes[n].degree = 0 THEN "active" ELSE "ready"
      /\ Stirred /\ apply' = IF nodes[n].degree = 0 THEN Append(apply, n) ELSE apply
  BY <1>1, RYieldTurns
<1>3. DOMAIN nodes' = Ids
  BY <1>2 DEF Stirred
<1>4. apply' \in Seq(Ids) /\ \A x : Contains(apply', x) <=> Contains(apply, x)
                                                           \/ (x = n /\ nodes[n].degree = 0)
  <2>1. CASE nodes[n].degree = 0
    BY <2>1, <1>1, <1>2, InAppended
  <2>2. CASE nodes[n].degree # 0
    BY <2>2, <1>1, <1>2
  <2>3. QED
    BY <2>1, <2>2
<1>5. \A x \in Ids : Contains(apply', x) <=> nodes'[x].state = "active"
  BY <1>1, <1>2, <1>4
<1>6. Lined(apply', nodes')
  BY <1>3, <1>4, <1>5 DEF Lined
<1>7. QED
  BY <1>2, <1>6, StirredKeepsRInv

\* So do the end of a wave and a new estimate.
LEMMA RRestKeepsRInv ==
    ASSUME RInv, EndWave \/ \E e \in Expectations : ReservePerNode(e)
    PROVE  RInv'
<1>1. /\ Wired(nodes, list, store) /\ Counted(nodes, list, store)
      /\ Resting(nodes, list) /\ Spare(free, nodes) /\ Lined(apply, nodes)
      /\ Ids \subseteq 0 .. MaxNodes - 1
  BY DEF RInv
<1>2. CASE EndWave
  BY <1>1, <1>2 DEF EndWave, RInv, Ids
<1>3. ASSUME NEW e \in Expectations, ReservePerNode(e)
      PROVE  RInv'
  <2>1. store' = [store EXCEPT !.expected = e] /\ UNCHANGED <<nodes, list, apply, free>>
    BY <1>3 DEF ReservePerNode
  <2>2. e \in Nat /\ e < 2^MaxClass
    BY BoundsAssumption
  <2>3. Wired(nodes, list, store') /\ Counted(nodes, list, store')
    BY <2>1, <2>2, <1>1, EstimateKeepsWired
  <2>4. QED
    BY <1>1, <2>1, <2>3 DEF RInv, Ids
<1>4. QED
  BY <1>2, <1>3

\* Where there are no nodes, it holds.
LEMMA EmptyHolds ==
    ASSUME NEW nd, nd = [i \in {} |-> FreshNode], NEW ls, ls = [i \in {} |-> NoList]
    PROVE  /\ Wired(nd, ls, EmptyStore) /\ Counted(nd, ls, EmptyStore) /\ Resting(nd, ls)
           /\ Spare(<<>>, nd) /\ Lined(<<>>, nd) /\ DOMAIN nd = {}
<1>1. DOMAIN nd = {} /\ DOMAIN ls = {} /\ nd \in [{} -> NodeType] /\ ls = [n \in DOMAIN ls |-> ls[n]]
  OBVIOUS
<1>2. 0 .. 0 - 1 = {}
  OBVIOUS
<1>3. Wired(nd, ls, EmptyStore)
  BY <1>1, <1>2, EmptyWired
<1>4. Counted(nd, ls, EmptyStore) /\ Resting(nd, ls)
  BY <1>1 DEF Counted, Resting
<1>5. Spare(<<>>, nd) /\ Lined(<<>>, nd)
  BY <1>1 DEF Spare, Lined
<1>6. QED
  BY <1>1, <1>3, <1>4, <1>5

-----------------------------------------------------------------------------
(* The edges a call asks for.                                                *)

\* A batch of so many dependants of d, or of dependencies of n.
OutBatch(d, b, m) ==
  m = Len(b) /\ DOMAIN b = 1 .. m /\ \A k \in 1 .. m : b[k] \in Ids /\ <<d, b[k]>> \in Arcs
InBatch(n, b, m) ==
  m = Len(b) /\ DOMAIN b = 1 .. m /\ \A k \in 1 .. m : b[k] \in Ids /\ <<b[k], n>> \in Arcs

\* Every list has room for so many more, and one.
RoomLeft(m) == \A x \in Ids : Count(list[x]) + m + 1 <= 2^MaxClass
Counts == [d \in Ids |-> Count(list[d])]

\* Every edge goes along an arc.
Along(seq, m) == \A k \in 1 .. m : <<seq[k].d, seq[k].n>> \in Arcs

\* A bound of all connections is one of each list.
LEMMA RoomIsLeft ==
    ASSUME Wired(nodes, list, store), NEW m \in Nat, NEW top \in Nat, top < 2^MaxClass,
           NEW f, f = Counts, SumFunction(f) + m <= top
    PROVE  RoomLeft(m)
<1>1. IsFiniteSet(Ids) /\ DOMAIN list = Ids /\ Sound(list, store)
  BY IdsFinite DEF Wired, Ids
<1>2. PICK ids : ids = Ids
  OBVIOUS
<1>3. ids = DOMAIN f /\ IsFiniteSet(ids) /\ \A x \in ids : f[x] = Count(list[x])
  BY <1>1, <1>2 DEF Counts
<1>4. \A x \in ids : f[x] \in Nat
  BY <1>1, <1>2, <1>3, SoundCounts
<1>5. SumFunction(f) \in Nat /\ \A x \in ids : f[x] <= SumFunction(f)
  BY <1>3, <1>4, SumNatural
<1>6. PICK sum \in Nat : sum = SumFunction(f)
  BY <1>5
<1>7. PICK all \in Nat : all = 2^MaxClass
  BY ClassPower, ClassAssumption DEF Classes
<1>8. ASSUME NEW x \in Ids
      PROVE  Count(list[x]) + m + 1 <= 2^MaxClass
  <2>1. PICK c \in Nat : c = Count(list[x])
    BY <1>1, SoundCounts
  <2>2. c <= sum
    BY <2>1, <1>2, <1>3, <1>5, <1>6
  <2>3. c + m + 1 <= all
    BY <2>2, <1>6, <1>7
  <2>4. QED
    BY <2>1, <2>3, <1>7
<1>9. QED
  BY <1>8 DEF RoomLeft

\* The batches of a call.
LEMMA BatchIs ==
    ASSUME NEW S, NEW top \in Nat, NEW b \in SeqOf(S, top)
    PROVE  \E m \in Nat : m = Len(b) /\ DOMAIN b = 1 .. m /\ \A k \in 1 .. m : b[k] \in S
<1>1. PICK m \in 0 .. top : b \in [1 .. m -> S]
  BY DEF SeqOf
<1>2. m \in Nat /\ DOMAIN b = 1 .. m /\ \A k \in 1 .. m : b[k] \in S
  BY <1>1
<1>3. m = Len(b)
  BY <1>1
<1>4. QED
  BY <1>2, <1>3

\* The edges from one node ...
LEMMA OutIs ==
    ASSUME NEW d \in Ids, NEW m \in Nat, NEW b, OutBatch(d, b, m), RoomLeft(m), Sound(list, store),
           DOMAIN list = Ids, NEW seq, seq = EdgesOut(d, b)
    PROVE  /\ DOMAIN seq = 1 .. m /\ Asked(seq, m) /\ Along(seq, m)
           /\ \A k \in 1 .. m : seq[k].d = d /\ seq[k].n = b[k]
<1>1. /\ m = Len(b) /\ DOMAIN b = 1 .. m
      /\ \A k \in 1 .. m : b[k] \in Ids /\ <<d, b[k]>> \in Arcs
  BY DEF OutBatch
<1>2. DOMAIN seq = 1 .. m /\ \A k \in 1 .. m : seq[k] = [d |-> d, n |-> b[k], later |-> m + 1 - k]
  BY <1>1 DEF EdgesOut
<1>3. \A k \in 1 .. m : seq[k].d = d /\ seq[k].n = b[k] /\ seq[k].later = m + 1 - k
  BY <1>2
<1>4. ASSUME NEW k \in 1 .. m
      PROVE  seq[k].later \in Nat /\ Count(list[seq[k].d]) + k + seq[k].later <= 2^MaxClass
  <2>1. PICK c \in Nat, top \in Nat : c = Count(list[d]) /\ top = 2^MaxClass
    BY SoundCounts, ClassPower, ClassAssumption DEF Classes
  <2>2. c + m + 1 <= top
    BY <2>1 DEF RoomLeft
  <2>3. PICK more \in Nat : more = m + 1 - k
    OBVIOUS
  <2>4. c + k + more <= top
    BY <2>2, <2>3
  <2>5. QED
    BY <2>1, <2>3, <2>4, <1>3
<1>5. QED
  BY <1>1, <1>2, <1>3, <1>4 DEF Asked, Along

\* ... and to one.
LEMMA InIs ==
    ASSUME NEW n \in Ids, NEW m \in Nat, NEW b, InBatch(n, b, m), RoomLeft(m), Sound(list, store),
           DOMAIN list = Ids, NEW seq, seq = EdgesIn(n, b)
    PROVE  /\ DOMAIN seq = 1 .. m /\ Asked(seq, m) /\ Along(seq, m)
           /\ \A k \in 1 .. m : seq[k].d = b[k] /\ seq[k].n = n
<1>1. DOMAIN b = 1 .. m /\ \A k \in 1 .. m : b[k] \in Ids /\ <<b[k], n>> \in Arcs
  BY DEF InBatch
<1>2. DOMAIN seq = 1 .. m /\ \A k \in 1 .. m : seq[k] = [d |-> b[k], n |-> n, later |-> 0]
  BY <1>1 DEF EdgesIn
<1>3. \A k \in 1 .. m : seq[k].d = b[k] /\ seq[k].n = n /\ seq[k].later = 0
  BY <1>2
<1>4. ASSUME NEW k \in 1 .. m
      PROVE  seq[k].later \in Nat /\ Count(list[seq[k].d]) + k + seq[k].later <= 2^MaxClass
  <2>1. PICK x \in Ids : x = b[k]
    BY <1>1
  <2>2. PICK c \in Nat, top \in Nat : c = Count(list[x]) /\ top = 2^MaxClass
    BY SoundCounts, ClassPower, ClassAssumption DEF Classes
  <2>3. c + m + 1 <= top
    BY <2>2 DEF RoomLeft
  <2>4. c + k + 0 <= top
    BY <2>3
  <2>5. QED
    BY <2>1, <2>2, <2>4, <1>3
<1>5. QED
  BY <1>1, <1>2, <1>3, <1>4 DEF Asked, Along

\* What a call of make_edges in rdeps.hpp does.
Joined(seq, m) ==
  /\ DOMAIN seq = 1 .. m /\ Asked(seq, m) /\ Joinable(seq, m) /\ Along(seq, m)
  /\ RMade(seq, m, m, nodes', list', store')
  /\ UNCHANGED <<apply, applied, free>>

\* The room rdeps.hpp is given.
LEMMA RRoom ==
    ASSUME Wired(nodes, list, store), NEW m \in Nat, R!Room(m)
    PROVE  RoomLeft(m)
<1>1. PICK f : f = Counts
  OBVIOUS
<1>2. REdges \in Nat /\ REdges < 2^MaxClass
  BY PartsAssumption
<1>3. R!SumFunction([d \in R!Ids |-> R!Count(list[d])]) = SumFunction(f)
  BY <1>1, RSameCount, RSameSumFunction DEF Counts, R!Ids, Ids
<1>4. SumFunction(f) + m <= REdges
  BY <1>3 DEF R!Room
<1>5. QED
  BY <1>1, <1>2, <1>4, RoomIsLeft

\* The call is over when the accumulator is copied back.
LEMMA RReturned ==
    ASSUME Wired(nodes, list, store), Counted(nodes, list, store),
           NEW seq, NEW m \in Nat, DOMAIN seq = 1 .. m, Asked(seq, m), Joinable(seq, m), Along(seq, m),
           R!Return(R!MadeEdges(seq))
    PROVE  Joined(seq, m)
<1>1. PICK nd, ls, st, ok : RMade(seq, m, m, nd, ls, st) /\ R!MadeEdges(seq) = Acc(nd, ls, st, ok)
  BY REdgesMade
<1>2. PICK acc : acc = R!MadeEdges(seq)
  OBVIOUS
<1>3. acc.nodes = nd /\ acc.list = ls /\ acc.store = st
  BY <1>1, <1>2 DEF Acc
<1>4. nodes' = acc.nodes /\ list' = acc.list /\ store' = acc.store /\ UNCHANGED <<apply, applied, free>>
  BY <1>2 DEF R!Return
<1>5. RMade(seq, m, m, nodes', list', store')
  BY <1>1, <1>3, <1>4
<1>6. QED
  BY <1>4, <1>5 DEF Joined

\* Both calls of rdeps.hpp that make edges.
LEMMA REdgesJoin ==
    ASSUME RInv,
           \/ \E d \in Ids : \E b \in R!OutBatches(d) : R!MakeEdgesOut(d, b)
           \/ \E n \in Ids : \E b \in R!InBatches(n) : R!MakeEdgesIn(n, b)
    PROVE  \E seq : \E m \in Nat : Joined(seq, m)
<1>1. /\ Wired(nodes, list, store) /\ Counted(nodes, list, store)
      /\ DOMAIN list = Ids /\ Sound(list, store) /\ RBatch \in Nat
  BY PartsAssumption DEF RInv, Wired, Ids
<1>2. ASSUME NEW d \in Ids, NEW b \in R!OutBatches(d), R!MakeEdgesOut(d, b)
      PROVE  \E seq : \E m \in Nat : Joined(seq, m)
  <2>1. b \in SeqOf({n \in Ids : <<d, n>> \in Arcs}, RBatch)
    BY DEF R!OutBatches, R!SeqOf, SeqOf, R!Ids, Ids
  <2>2. PICK m \in Nat : m = Len(b) /\ DOMAIN b = 1 .. m
                         /\ \A k \in 1 .. m : b[k] \in {n \in Ids : <<d, n>> \in Arcs}
    BY <2>1, <1>1, BatchIs
  <2>3. OutBatch(d, b, m)
    BY <2>2 DEF OutBatch
  <2>4. R!Room(m) /\ \A n \in R!ToSet(b) : R!MayJoin(d, n)
    BY <1>2, <2>2 DEF R!MakeEdgesOut
  <2>5. RoomLeft(m)
    BY <2>4, <1>1, RRoom
  <2>6. PICK seq : seq = EdgesOut(d, b)
    OBVIOUS
  <2>7. R!Return(R!MadeEdges(seq))
    <3>1. R!EdgesOut(d, b) = EdgesOut(d, b)
      BY DEF R!EdgesOut, EdgesOut
    <3>2. QED
      BY <3>1, <2>6, <1>2 DEF R!MakeEdgesOut
  <2>8. /\ DOMAIN seq = 1 .. m /\ Asked(seq, m) /\ Along(seq, m)
        /\ \A k \in 1 .. m : seq[k].d = d /\ seq[k].n = b[k]
    BY <2>3, <2>5, <2>6, <1>1, OutIs
  <2>9. Joinable(seq, m)
    <3>1. ASSUME NEW k \in 1 .. m
          PROVE  nodes[d].state # "sentinel" /\ nodes[b[k]].state # "sentinel"
      <4>1. b[k] \in R!ToSet(b)
        BY <2>2 DEF R!ToSet
      <4>2. R!MayJoin(d, b[k])
        BY <4>1, <2>4
      <4>3. QED
        BY <4>2 DEF R!MayJoin, R!IsSentinel
    <3>2. QED
      BY <3>1, <2>8 DEF Joinable
  <2>10. QED
    BY <2>7, <2>8, <2>9, <1>1, RReturned
<1>3. ASSUME NEW n \in Ids, NEW b \in R!InBatches(n), R!MakeEdgesIn(n, b)
      PROVE  \E seq : \E m \in Nat : Joined(seq, m)
  <2>1. b \in SeqOf({d \in Ids : <<d, n>> \in Arcs}, RBatch)
    BY DEF R!InBatches, R!SeqOf, SeqOf, R!Ids, Ids
  <2>2. PICK m \in Nat : m = Len(b) /\ DOMAIN b = 1 .. m
                         /\ \A k \in 1 .. m : b[k] \in {d \in Ids : <<d, n>> \in Arcs}
    BY <2>1, <1>1, BatchIs
  <2>3. InBatch(n, b, m)
    BY <2>2 DEF InBatch
  <2>4. R!Room(m) /\ \A d \in R!ToSet(b) : R!MayJoin(d, n)
    BY <1>3, <2>2 DEF R!MakeEdgesIn
  <2>5. RoomLeft(m)
    BY <2>4, <1>1, RRoom
  <2>6. PICK seq : seq = EdgesIn(n, b)
    OBVIOUS
  <2>7. R!Return(R!MadeEdges(seq))
    <3>1. R!EdgesIn(n, b) = EdgesIn(n, b)
      BY DEF R!EdgesIn, EdgesIn
    <3>2. QED
      BY <3>1, <2>6, <1>3 DEF R!MakeEdgesIn
  <2>8. /\ DOMAIN seq = 1 .. m /\ Asked(seq, m) /\ Along(seq, m)
        /\ \A k \in 1 .. m : seq[k].d = b[k] /\ seq[k].n = n
    BY <2>3, <2>5, <2>6, <1>1, InIs
  <2>9. Joinable(seq, m)
    <3>1. ASSUME NEW k \in 1 .. m
          PROVE  nodes[b[k]].state # "sentinel" /\ nodes[n].state # "sentinel"
      <4>1. b[k] \in R!ToSet(b)
        BY <2>2 DEF R!ToSet
      <4>2. R!MayJoin(b[k], n)
        BY <4>1, <2>4
      <4>3. QED
        BY <4>2 DEF R!MayJoin, R!IsSentinel
    <3>2. QED
      BY <3>1, <2>8 DEF Joinable
  <2>10. QED
    BY <2>7, <2>8, <2>9, <1>1, RReturned
<1>4. QED
  BY <1>2, <1>3

\* They keep the invariant.
LEMMA JoinedKeepsRInv ==
    ASSUME RInv, NEW seq, NEW m \in Nat, Joined(seq, m)
    PROVE  RInv'
<1>1. /\ Resting(nodes, list) /\ Spare(free, nodes) /\ Lined(apply, nodes)
      /\ Ids \subseteq 0 .. MaxNodes - 1
  BY DEF RInv
<1>2. /\ Wired(nodes', list', store') /\ Counted(nodes', list', store') /\ DOMAIN nodes' = Ids
      /\ \A x \in Ids : nodes'[x].state = nodes[x].state
      /\ \A x \in Ids : nodes[x].state = "sentinel" => nodes'[x] = nodes[x] /\ list'[x] = list[x]
      /\ UNCHANGED <<apply, free>>
  BY DEF Joined, RMade
<1>3. Resting(nodes', list')
  BY <1>1, <1>2 DEF Resting, Ids
<1>4. Spare(free', nodes')
  <2>1. free \in Seq(Ids) /\ \A k \in 1 .. Len(free) : nodes[free[k]].state = "sentinel"
        /\ \A j, i \in 1 .. Len(free) : free[j] = free[i] => j = i
    BY <1>1 DEF Spare, Ids
  <2>2. \A k \in 1 .. Len(free) : free[k] \in Ids
    BY <2>1
  <2>3. QED
    BY <2>1, <2>2, <1>2 DEF Spare
<1>5. Lined(apply', nodes')
  BY <1>1, <1>2 DEF Lined, Ids
<1>6. QED
  BY <1>1, <1>2, <1>3, <1>4, <1>5 DEF RInv, Ids

-----------------------------------------------------------------------------
(* The dependants of a node that is done, one edge after the other.          *)

\* How often a sequence names x in its first k places.
Tally(seq, k, x) == Cardinality({j \in 1 .. k : seq[j] = x})

\* It grows by one where x stands.
LEMMA TallyGrows ==
    ASSUME NEW seq, NEW k \in Nat, NEW x
    PROVE  /\ Tally(seq, 0, x) = 0 /\ Tally(seq, k, x) \in Nat
           /\ Tally(seq, k + 1, x) = Tally(seq, k, x) + (IF seq[k + 1] = x THEN 1 ELSE 0)
<1>1. {j \in 1 .. 0 : seq[j] = x} = {}
  OBVIOUS
<1>2. Tally(seq, 0, x) = 0
  BY <1>1, FS_EmptySet DEF Tally
<1>3. PICK S : S = {j \in 1 .. k : seq[j] = x}
  OBVIOUS
<1>4. PICK T : T = {j \in 1 .. k + 1 : seq[j] = x}
  OBVIOUS
<1>5. IsFiniteSet(S) /\ Cardinality(S) \in Nat
  <2>1. IsFiniteSet(1 .. k)
    BY FS_Interval
  <2>2. S \in SUBSET (1 .. k)
    BY <1>3
  <2>3. IsFiniteSet(S)
    BY <2>1, <2>2, FS_Subset
  <2>4. QED
    BY <2>3, FS_CardinalityType
<1>6. CASE seq[k + 1] = x
  <2>1. PICK top \in Nat : top = k + 1
    OBVIOUS
  <2>2. T = S \cup {top} /\ top \notin S
    <3>1. \A j : j \in T <=> j \in S \/ j = top
      BY <1>3, <1>4, <1>6, <2>1
    <3>2. top \notin S
      BY <1>3, <2>1
    <3>3. QED
      BY <3>1, <3>2
  <2>3. Cardinality(T) = Cardinality(S) + 1
    BY <2>2, <1>5, FS_AddElement
  <2>4. QED
    BY <2>3, <1>2, <1>3, <1>4, <1>5, <1>6 DEF Tally
<1>7. CASE seq[k + 1] # x
  <2>1. T = S
    <3>1. PICK top \in Nat : top = k + 1
      OBVIOUS
    <3>2. ASSUME NEW j \in T
          PROVE  j \in S
      <4>1. j \in 1 .. top /\ seq[j] = x
        BY <3>1, <1>4
      <4>2. j # top
        BY <3>1, <4>1, <1>7
      <4>3. j \in 1 .. k
        BY <3>1, <4>1, <4>2
      <4>4. QED
        BY <4>1, <4>3, <1>3
    <3>3. ASSUME NEW j \in S
          PROVE  j \in T
      <4>1. j \in 1 .. k /\ seq[j] = x
        BY <1>3
      <4>2. j \in 1 .. k + 1
        BY <4>1
      <4>3. QED
        BY <4>1, <4>2, <1>4
    <3>4. QED
      BY <3>2, <3>3
  <2>2. Tally(seq, k + 1, x) = Tally(seq, k, x)
    BY <2>1, <1>3, <1>4 DEF Tally
  <2>3. Tally(seq, k, x) \in Nat
    BY <1>3, <1>5 DEF Tally
  <2>4. QED
    BY <2>2, <2>3, <1>2, <1>7
<1>8. QED
  BY <1>6, <1>7

\* The tally of some places is at most that of more.
LEMMA TallyBounded ==
    ASSUME NEW seq, NEW k \in Nat, NEW m \in Nat, k <= m, NEW x
    PROVE  Tally(seq, k, x) <= Tally(seq, m, x)
<1>1. {j \in 1 .. k : seq[j] = x} \in SUBSET {j \in 1 .. m : seq[j] = x}
  OBVIOUS
<1>2. IsFiniteSet({j \in 1 .. m : seq[j] = x})
  <2>1. IsFiniteSet(1 .. m)
    BY FS_Interval
  <2>2. {j \in 1 .. m : seq[j] = x} \in SUBSET (1 .. m)
    OBVIOUS
  <2>3. QED
    BY <2>1, <2>2, FS_Subset
<1>3. QED
  BY <1>1, <1>2, FS_Subset DEF Tally

\* The sequence of a list's connections names each as often as the list.
LEMMA TallyOfList ==
    ASSUME NEW l, GoodList(l, store), NEW seq, seq = ConnectionSeq(l)
    PROVE  /\ Count(l) \in Nat /\ DOMAIN seq = 1 .. Count(l)
           /\ \A x : Tally(seq, Count(l), x) = Occurrences(l, store, x)
<1>1. PICK f \in Nat, n \in Nat : f = FirstCell(l) /\ n = Count(l)
  BY ListIs
<1>2. DOMAIN seq = 1 .. n /\ \A k \in 1 .. n : seq[k] = store.cells[f + k - 1]
  BY <1>1 DEF ConnectionSeq
<1>3. ASSUME NEW x
      PROVE  Tally(seq, n, x) = Occurrences(l, store, x)
  <2>1. PICK A : A = Standing(l, store.cells, x)
    OBVIOUS
  <2>2. PICK B : B = {j \in 1 .. n : seq[j] = x}
    OBVIOUS
  <2>3. IsFiniteSet(A) /\ A \subseteq Int
    BY <2>1, StandingFinite
  <2>4. PICK shift \in Int : shift = 1 - f
    OBVIOUS
  <2>5. \A i : i \in A <=> i \in Int /\ f <= i /\ i < f + n /\ store.cells[i] = x
    BY <2>1, <1>1, ConnectionsAre DEF Standing
  <2>6. ASSUME NEW j \in Int
        PROVE  j \in B <=> j - shift \in A
    <3>1. PICK i \in Int : i = j - shift /\ i = f + j - 1
      BY <2>4
    <3>2. j \in 1 .. n <=> f <= i /\ i < f + n
      BY <3>1
    <3>3. j \in 1 .. n => seq[j] = store.cells[i]
      BY <3>1, <1>2
    <3>4. QED
      BY <3>1, <3>2, <3>3, <2>2, <2>5
  <2>7. B \subseteq Int
    BY <2>2
  <2>8. Cardinality(B) = Cardinality(A)
    BY <2>3, <2>6, <2>7, ShiftedAreAsMany
  <2>9. QED
    BY <2>1, <2>2, <2>8, OccurrencesAre DEF Tally
<1>4. QED
  BY <1>1, <1>2, <1>3

\* One edge paid off: the node it leads to waits for one less, and is queued
\* if that was the last one and the loop fires nodes (fl = 1); what a sentinel
\* keeps of its degree does not matter here.
Pays(nd, ap, x, fl, nd2, ap2) ==
  /\ nd2 \in [DOMAIN nd -> NodeType] /\ DOMAIN nd2 = DOMAIN nd
  /\ \A y \in DOMAIN nd : y # x => nd2[y] = nd[y]
  /\ nd[x].state = "sentinel" => nd2[x].state = "sentinel" /\ ap2 = ap
  /\ nd[x].state # "sentinel" =>
       /\ nd2[x].degree = nd[x].degree - 1
       /\ nd2[x].state = IF fl = 1 /\ nd[x].state = "ready" /\ nd[x].degree = 1
                         THEN "active" ELSE nd[x].state
       /\ ap2 = IF fl = 1 /\ nd[x].state = "ready" /\ nd[x].degree = 1 THEN Append(ap, x) ELSE ap
Disc(nd, ap) == [nodes |-> nd, apply |-> ap]
Indebted(nd, x) == NodesAt(nd, x) /\ (nd[x].state # "sentinel" => nd[x].degree >= 1)

\* What is written back for the node.
LEMMA PaysIs ==
    ASSUME NEW nd, NEW x, Indebted(nd, x), NEW fl, NEW ap, NEW now \in NodeType,
           nd[x].state = "sentinel" => now.state = "sentinel",
           nd[x].state # "sentinel" =>
             /\ now.degree = nd[x].degree - 1
             /\ now.state = IF fl = 1 /\ nd[x].state = "ready" /\ nd[x].degree = 1
                            THEN "active" ELSE nd[x].state,
           NEW ap2, nd[x].state = "sentinel" => ap2 = ap,
           nd[x].state # "sentinel" =>
             ap2 = IF fl = 1 /\ nd[x].state = "ready" /\ nd[x].degree = 1 THEN Append(ap, x) ELSE ap,
           NEW nd2, nd2 = [nd EXCEPT ![x] = now]
    PROVE  Pays(nd, ap, x, fl, nd2, ap2)
<1>1. x \in DOMAIN nd /\ nd \in [DOMAIN nd -> NodeType]
  BY DEF Indebted, NodesAt
<1>2. nd2 \in [DOMAIN nd -> NodeType] /\ DOMAIN nd2 = DOMAIN nd /\ nd2[x] = now
      /\ \A y \in DOMAIN nd : y # x => nd2[y] = nd[y]
  BY <1>1
<1>3. QED
  BY <1>2 DEF Pays

\* The edge of rdeps.hpp.
LEMMA RDischargedPays ==
    ASSUME NEW nd, NEW x, Indebted(nd, x), NEW ap
    PROVE  \E nd2, ap2 : Pays(nd, ap, x, 1, nd2, ap2) /\ R!Discharged(Disc(nd, ap), x) = Disc(nd2, ap2)
<1>1. PICK acc : acc = Disc(nd, ap)
  OBVIOUS
<1>2. acc.nodes = nd /\ acc.apply = ap
  BY <1>1 DEF Disc
<1>3. PICK was : was = nd[x]
  OBVIOUS
<1>4. was \in NodeType /\ was = [state |-> was.state, degree |-> was.degree] /\ was.degree \in Nat
      /\ was.state \in {"sentinel", "ready", "active", "passive"}
      /\ (was.state # "sentinel" => was.degree >= 1)
  BY <1>3, NodeIs DEF Indebted, NodesAt
<1>5. PICK less : less = R!Decremented(was)
  OBVIOUS
<1>6. PICK now : now = R!FiredIf(less.degree = 0, less)
  OBVIOUS
<1>7. PICK ap2 : ap2 = IF R!CanTrigger(less) THEN Append(ap, x) ELSE ap
  OBVIOUS
<1>8. PICK nd2 : nd2 = [nd EXCEPT ![x] = now]
  OBVIOUS
<1>9. R!Discharged(acc, x) = [nodes |-> nd2, apply |-> ap2]
  BY <1>2, <1>3, <1>5, <1>6, <1>7, <1>8 DEF R!Discharged
<1>10. CASE was.state = "sentinel"
  <2>1. less = was
    BY <1>5, <1>10 DEF R!Decremented, R!IsSentinel
  <2>2. ~R!CanTrigger(less)
    BY <2>1, <1>10 DEF R!CanTrigger
  <2>3. now = was /\ ap2 = ap
    BY <2>1, <2>2, <1>6, <1>7 DEF R!FiredIf
  <2>4. Pays(nd, ap, x, 1, nd2, ap2)
    BY <2>3, <1>3, <1>4, <1>8, <1>10, PaysIs
  <2>5. QED
    BY <2>4, <1>1, <1>9 DEF Disc
<1>11. CASE was.state # "sentinel"
  <2>1. PICK left \in Nat : left = was.degree - 1
    BY <1>4, <1>11
  <2>2. less = [state |-> was.state, degree |-> left]
    <3>1. less = [was EXCEPT !.degree = was.degree - 1]
      BY <1>5, <1>11 DEF R!Decremented, R!IsSentinel
    <3>2. QED
      BY <3>1, <2>1, <1>4
  <2>3. less.state = was.state /\ less.degree = left
    BY <2>2
  <2>4. CASE was.state = "ready" /\ left = 0
    <3>1. R!CanTrigger(less)
      BY <2>3, <2>4 DEF R!CanTrigger
    <3>2. now = R!Fired(less)
      BY <3>1, <2>3, <2>4, <1>6 DEF R!FiredIf
    <3>3. now = [state |-> "active", degree |-> left]
      BY <3>2, <2>2 DEF R!Fired
    <3>4. now \in NodeType /\ now.state = "active" /\ now.degree = left
      BY <3>3 DEF NodeType, States
    <3>5. ap2 = Append(ap, x)
      BY <3>1, <1>7
    <3>6. was.degree = 1
      BY <2>1, <2>4, <1>4
    <3>7. Pays(nd, ap, x, 1, nd2, ap2)
      BY <3>4, <3>5, <3>6, <2>1, <2>4, <1>3, <1>8, <1>11, PaysIs
    <3>8. QED
      BY <3>7, <1>1, <1>9 DEF Disc
  <2>5. CASE ~(was.state = "ready" /\ left = 0)
    <3>1. ~R!CanTrigger(less)
      BY <2>3, <2>5 DEF R!CanTrigger
    <3>2. now = less /\ ap2 = ap
      BY <3>1, <1>6, <1>7 DEF R!FiredIf
    <3>3. now \in NodeType /\ now.state = was.state /\ now.degree = left
      BY <3>2, <2>2, <1>4 DEF NodeType, States
    <3>4. ~(was.state = "ready" /\ was.degree = 1)
      BY <2>1, <2>5, <1>4
    <3>5. Pays(nd, ap, x, 1, nd2, ap2)
      BY <3>2, <3>3, <3>4, <2>1, <1>3, <1>8, <1>11, PaysIs
    <3>6. QED
      BY <3>5, <1>1, <1>9 DEF Disc
  <2>6. QED
    BY <2>4, <2>5
<1>12. QED
  BY <1>10, <1>11

\* The edge of udeps.hpp.
LEMMA DischargedPays ==
    ASSUME NEW nd, NEW x, Indebted(nd, x), NEW ap, NEW flag \in BOOLEAN,
           NEW fl, fl = IF flag THEN 1 ELSE 0
    PROVE  \E nd2, ap2 : Pays(nd, ap, x, fl, nd2, ap2) /\ Discharged(Disc(nd, ap), x, flag) = Disc(nd2, ap2)
<1>1. PICK acc : acc = Disc(nd, ap)
  OBVIOUS
<1>2. acc.nodes = nd /\ acc.apply = ap
  BY <1>1 DEF Disc
<1>3. PICK was : was = nd[x]
  OBVIOUS
<1>4. was \in NodeType /\ was = [state |-> was.state, degree |-> was.degree] /\ was.degree \in Nat
      /\ was.state \in {"sentinel", "ready", "active", "passive"}
      /\ (was.state # "sentinel" => was.degree >= 1)
  BY <1>3, NodeIs DEF Indebted, NodesAt
<1>5. PICK less : less = IF IsSentinel(was) THEN Errored(was) ELSE Decremented(was)
  OBVIOUS
<1>6. PICK now : now = FiredIf(flag, less)
  OBVIOUS
<1>7. PICK ap2 : ap2 = IF flag /\ CanTrigger(less) THEN Append(ap, x) ELSE ap
  OBVIOUS
<1>8. PICK nd2 : nd2 = [nd EXCEPT ![x] = now]
  OBVIOUS
<1>9. Discharged(acc, x, flag) = [nodes |-> nd2, apply |-> ap2]
  BY <1>2, <1>3, <1>5, <1>6, <1>7, <1>8 DEF Discharged
<1>10. CASE was.state = "sentinel"
  <2>1. less = Errored(was)
    BY <1>5, <1>10 DEF IsSentinel
  <2>2. less = [state |-> "sentinel", degree |-> IF was.degree = 0 THEN 1 ELSE was.degree]
    BY <2>1 DEF Errored
  <2>3. less \in NodeType /\ less.state = "sentinel"
    BY <2>2, <1>4 DEF NodeType, States
  <2>4. ~CanTrigger(less)
    BY <2>3 DEF CanTrigger
  <2>5. now = less /\ ap2 = ap
    BY <2>4, <1>6, <1>7 DEF FiredIf
  <2>6. Pays(nd, ap, x, fl, nd2, ap2)
    BY <2>3, <2>5, <1>3, <1>8, <1>10, PaysIs
  <2>7. QED
    BY <2>6, <1>1, <1>9 DEF Disc
<1>11. CASE was.state # "sentinel"
  <2>1. PICK left \in Nat : left = was.degree - 1
    BY <1>4, <1>11
  <2>2. less = [state |-> was.state, degree |-> left]
    <3>1. less = [was EXCEPT !.degree = was.degree - 1]
      BY <1>5, <1>11 DEF Decremented, IsSentinel
    <3>2. QED
      BY <3>1, <2>1, <1>4
  <2>3. less.state = was.state /\ less.degree = left
    BY <2>2
  <2>4. CASE flag /\ was.state = "ready" /\ left = 0
    <3>1. CanTrigger(less)
      BY <2>3, <2>4 DEF CanTrigger
    <3>2. now = Fired(less)
      BY <3>1, <2>4, <1>6 DEF FiredIf
    <3>3. now = [state |-> "active", degree |-> left]
      BY <3>2, <2>2 DEF Fired
    <3>4. now \in NodeType /\ now.state = "active" /\ now.degree = left
      BY <3>3 DEF NodeType, States
    <3>5. ap2 = Append(ap, x)
      BY <3>1, <2>4, <1>7
    <3>6. was.degree = 1 /\ fl = 1
      BY <2>1, <2>4, <1>4
    <3>7. Pays(nd, ap, x, fl, nd2, ap2)
      BY <3>4, <3>5, <3>6, <2>1, <2>4, <1>3, <1>8, <1>11, PaysIs
    <3>8. QED
      BY <3>7, <1>1, <1>9 DEF Disc
  <2>5. CASE ~(flag /\ was.state = "ready" /\ left = 0)
    <3>1. ~(flag /\ CanTrigger(less))
      BY <2>3, <2>5 DEF CanTrigger
    <3>2. now = less /\ ap2 = ap
      BY <3>1, <1>6, <1>7 DEF FiredIf
    <3>3. now \in NodeType /\ now.state = was.state /\ now.degree = left
      BY <3>2, <2>2, <1>4 DEF NodeType, States
    <3>4. ~(fl = 1 /\ was.state = "ready" /\ was.degree = 1)
      BY <2>1, <2>5, <1>4
    <3>5. Pays(nd, ap, x, fl, nd2, ap2)
      BY <3>2, <3>3, <3>4, <2>1, <1>3, <1>8, <1>11, PaysIs
    <3>6. QED
      BY <3>5, <1>1, <1>9 DEF Disc
  <2>6. QED
    BY <2>4, <2>5
<1>12. QED
  BY <1>10, <1>11

\* The loops that pay off edges, and whether they fire nodes.
Paying(loop, flag, fl) == (loop = 3 /\ fl = 1) \/ (loop = 4 /\ flag \in BOOLEAN /\ fl = IF flag THEN 1 ELSE 0)

LEMMA RoundPays ==
    ASSUME NEW loop, NEW flag, NEW fl, Paying(loop, flag, fl), NEW nd, NEW x, Indebted(nd, x), NEW ap
    PROVE  \E nd2, ap2 : Pays(nd, ap, x, fl, nd2, ap2) /\ Round(loop, flag, Disc(nd, ap), x) = Disc(nd2, ap2)
<1>1. CASE loop = 3 /\ fl = 1
  <2>1. PICK nd2, ap2 : Pays(nd, ap, x, fl, nd2, ap2) /\ R!Discharged(Disc(nd, ap), x) = Disc(nd2, ap2)
    BY <1>1, RDischargedPays
  <2>2. Round(loop, flag, Disc(nd, ap), x) = R!Discharged(Disc(nd, ap), x)
    BY <1>1, RoundIs
  <2>3. QED
    BY <2>1, <2>2
<1>2. CASE loop = 4 /\ flag \in BOOLEAN /\ fl = IF flag THEN 1 ELSE 0
  <2>1. PICK nd2, ap2 : Pays(nd, ap, x, fl, nd2, ap2) /\ Discharged(Disc(nd, ap), x, flag) = Disc(nd2, ap2)
    BY <1>2, DischargedPays
  <2>2. Round(loop, flag, Disc(nd, ap), x) = Discharged(Disc(nd, ap), x, flag)
    BY <1>2, RoundIs
  <2>3. QED
    BY <2>1, <2>2
<1>3. QED
  BY <1>1, <1>2 DEF Paying

\* After k edges: who is alive waits for that many less, and was fired if it
\* waits for nobody any more; the queue has exactly the active nodes.
Settled(nd0, seq, k, fl, nd, ap) ==
  /\ nd \in [DOMAIN nd0 -> NodeType] /\ Lined(ap, nd)
  /\ \A x \in DOMAIN nd0 : nd0[x].state = "sentinel" => nd[x].state = "sentinel"
  /\ \A x \in DOMAIN nd0 : Tally(seq, k, x) = 0 => nd[x] = nd0[x]
  /\ \A x \in DOMAIN nd0 : nd0[x].state # "sentinel" =>
       /\ nd[x].degree + Tally(seq, k, x) = nd0[x].degree
       /\ nd[x].state = IF fl = 1 /\ nd0[x].state = "ready" /\ Tally(seq, k, x) > 0 /\ nd[x].degree = 0
                        THEN "active" ELSE nd0[x].state

\* What one node was and is, and what an edge does to it or not.
Waiting(was, now, t, fl) ==
  /\ now.degree + t = was.degree
  /\ now.state = IF fl = 1 /\ was.state = "ready" /\ t > 0 /\ now.degree = 0
                 THEN "active" ELSE was.state
PaidOnce(was, mid, now, t, t2, fl) ==
  \/ t2 = t /\ now = mid
  \/ /\ t2 = t + 1 /\ t2 <= was.degree /\ now.degree = mid.degree - 1
     /\ now.state = IF fl = 1 /\ mid.state = "ready" /\ mid.degree = 1
                    THEN "active" ELSE mid.state

\* It still waits for what is left.
LEMMA EdgeSettles ==
    ASSUME NEW was \in NodeType, NEW mid \in NodeType, NEW now \in NodeType,
           NEW t \in Nat, NEW t2 \in Nat, NEW fl, Waiting(was, mid, t, fl),
           PaidOnce(was, mid, now, t, t2, fl)
    PROVE  Waiting(was, now, t2, fl)
<1>1. PICK a \in Nat, b \in Nat, c \in Nat : a = was.degree /\ b = mid.degree /\ c = now.degree
  BY NodeIs
<1>2. CASE t2 = t /\ now = mid
  BY <1>2
<1>3. CASE t2 # t \/ now # mid
  <2>1. /\ t2 = t + 1 /\ t2 <= a /\ c = b - 1
        /\ now.state = IF fl = 1 /\ mid.state = "ready" /\ b = 1 THEN "active" ELSE mid.state
    BY <1>1, <1>3 DEF PaidOnce
  <2>2. b + t = a /\ mid.state = IF fl = 1 /\ was.state = "ready" /\ t > 0 /\ b = 0
                                 THEN "active" ELSE was.state
    BY <1>1 DEF Waiting
  <2>3. b >= 1 /\ c + t2 = a /\ t2 > 0
    BY <2>1, <2>2
  <2>4. mid.state = was.state
    BY <2>2, <2>3
  <2>5. b = 1 <=> c = 0
    BY <2>1
  <2>6. now.state = IF fl = 1 /\ was.state = "ready" /\ t2 > 0 /\ c = 0 THEN "active" ELSE was.state
    BY <2>1, <2>3, <2>4, <2>5
  <2>7. QED
    BY <2>3, <2>6, <1>1 DEF Waiting
<1>4. QED
  BY <1>2, <1>3

\* The edges of a node that is done lead to nodes, and to none more often than
\* it waits for.
Settling(nd0, ap0, seq, m) ==
  /\ nd0 \in [DOMAIN nd0 -> NodeType] /\ Lined(ap0, nd0)
  /\ \A k \in 1 .. m : seq[k] \in DOMAIN nd0
  /\ \A x \in DOMAIN nd0 : nd0[x].state # "sentinel" => Tally(seq, m, x) <= nd0[x].degree

\* One edge after k of them.
LEMMA SettlesOn ==
    ASSUME NEW nd0, NEW ap0, NEW seq, NEW m \in Nat, Settling(nd0, ap0, seq, m), NEW fl,
           NEW k \in Nat, NEW j, j = k + 1, j \in 1 .. m, NEW nd, NEW ap,
           Settled(nd0, seq, k, fl, nd, ap)
    PROVE  /\ Indebted(nd, seq[j])
           /\ \A nd2, ap2 : Pays(nd, ap, seq[j], fl, nd2, ap2) => Settled(nd0, seq, j, fl, nd2, ap2)
<1>1. PICK ids : ids = DOMAIN nd0
  OBVIOUS
<1>2. PICK x \in ids : x = seq[j]
  BY <1>1 DEF Settling
<1>3. /\ nd0 \in [ids -> NodeType] /\ nd \in [ids -> NodeType] /\ DOMAIN nd = ids
      /\ ap \in Seq(ids) /\ \A y \in ids : Contains(ap, y) <=> nd[y].state = "active"
  BY <1>1 DEF Settling, Settled, Lined
<1>4. \A y \in ids : nd0[y].state = "sentinel" => nd[y].state = "sentinel"
  BY <1>1 DEF Settled
<1>5. \A y \in ids : nd0[y].state # "sentinel" =>
        /\ nd[y].degree + Tally(seq, k, y) = nd0[y].degree
        /\ nd[y].state = IF fl = 1 /\ nd0[y].state = "ready" /\ Tally(seq, k, y) > 0 /\ nd[y].degree = 0
                         THEN "active" ELSE nd0[y].state
  BY <1>1 DEF Settled
<1>6. \A y \in ids : /\ Tally(seq, k, y) \in Nat /\ Tally(seq, j, y) \in Nat
                     /\ Tally(seq, j, y) = Tally(seq, k, y) + (IF y = x THEN 1 ELSE 0)
                     /\ nd0[y].state # "sentinel" => Tally(seq, j, y) <= nd0[y].degree
  <2>1. ASSUME NEW y \in ids
        PROVE  /\ Tally(seq, k, y) \in Nat /\ Tally(seq, j, y) \in Nat
               /\ Tally(seq, j, y) = Tally(seq, k, y) + (IF y = x THEN 1 ELSE 0)
               /\ nd0[y].state # "sentinel" => Tally(seq, j, y) <= nd0[y].degree
    <3>1. PICK a \in Nat : a = Tally(seq, k, y)
      BY TallyGrows
    <3>2. Tally(seq, j, y) = a + (IF seq[j] = y THEN 1 ELSE 0)
      BY <3>1, TallyGrows
    <3>3. PICK b \in Nat : b = Tally(seq, j, y) /\ b = a + (IF y = x THEN 1 ELSE 0)
      BY <3>2, <1>2
    <3>4. j \in Nat /\ j <= m
      OBVIOUS
    <3>5. PICK c \in Nat : c = Tally(seq, m, y)
      BY TallyGrows
    <3>6. b <= c
      BY <3>3, <3>4, <3>5, TallyBounded
    <3>7. nd0[y].state # "sentinel" => c <= nd0[y].degree
      BY <3>5, <1>1 DEF Settling
    <3>8. nd0[y].degree \in Nat
      BY <1>3, NodeIs
    <3>9. QED
      BY <3>1, <3>3, <3>6, <3>7, <3>8
  <2>2. QED
    BY <2>1
<1>7. Indebted(nd, x)
  <2>1. ASSUME nd[x].state # "sentinel"
        PROVE  nd[x].degree >= 1
    <3>1. nd0[x].state # "sentinel"
      BY <2>1, <1>4
    <3>2. PICK a \in Nat, b \in Nat, c \in Nat :
            a = nd0[x].degree /\ b = nd[x].degree /\ c = Tally(seq, k, x)
      BY <1>3, <1>6, NodeIs
    <3>3. b + c = a /\ c + 1 <= a
      BY <3>1, <3>2, <1>5, <1>6
    <3>4. QED
      BY <3>2, <3>3
  <2>2. QED
    BY <2>1, <1>3 DEF Indebted, NodesAt
<1>8. ASSUME NEW nd2, NEW ap2, Pays(nd, ap, x, fl, nd2, ap2)
      PROVE  Settled(nd0, seq, j, fl, nd2, ap2)
  <2>1. /\ nd2 \in [ids -> NodeType] /\ DOMAIN nd2 = ids
        /\ \A y \in ids : y # x => nd2[y] = nd[y]
        /\ nd[x].state = "sentinel" => nd2[x].state = "sentinel" /\ ap2 = ap
    BY <1>3, <1>8 DEF Pays
  <2>2. nd[x].state # "sentinel" =>
          /\ nd2[x].degree = nd[x].degree - 1
          /\ nd2[x].state = IF fl = 1 /\ nd[x].state = "ready" /\ nd[x].degree = 1
                            THEN "active" ELSE nd[x].state
          /\ ap2 = IF fl = 1 /\ nd[x].state = "ready" /\ nd[x].degree = 1 THEN Append(ap, x) ELSE ap
    BY <1>8 DEF Pays
  <2>3. Lined(ap2, nd2)
    <3>1. CASE ap2 = Append(ap, x) /\ nd2[x].state = "active"
      <4>1. ap2 \in Seq(ids) /\ \A y : Contains(ap2, y) <=> Contains(ap, y) \/ y = x
        BY <3>1, <1>3, InAppended
      <4>2. QED
        BY <3>1, <4>1, <2>1, <1>3 DEF Lined
    <3>2. CASE ap2 = ap /\ nd2[x].state = nd[x].state
      BY <3>2, <2>1, <1>3 DEF Lined
    <3>3. CASE nd[x].state = "sentinel"
      BY <3>2, <3>3, <2>1
    <3>4. CASE nd[x].state # "sentinel"
      BY <3>1, <3>2, <3>4, <2>2
    <3>5. QED
      BY <3>3, <3>4
  <2>4. \A y \in ids : nd0[y].state = "sentinel" => nd2[y].state = "sentinel"
    BY <2>1, <1>4
  <2>5. ASSUME NEW y \in ids, nd0[y].state # "sentinel"
        PROVE  /\ nd2[y].degree + Tally(seq, j, y) = nd0[y].degree
               /\ nd2[y].state = IF fl = 1 /\ nd0[y].state = "ready" /\ Tally(seq, j, y) > 0
                                    /\ nd2[y].degree = 0
                                 THEN "active" ELSE nd0[y].state
    <3>1. PICK was \in NodeType, mid \in NodeType, now \in NodeType :
            was = nd0[y] /\ mid = nd[y] /\ now = nd2[y]
      BY <1>3, <2>1
    <3>2. PICK t \in Nat, t2 \in Nat : t = Tally(seq, k, y) /\ t2 = Tally(seq, j, y)
      BY <1>6
    <3>3. was.state # "sentinel" /\ mid.degree + t = was.degree
          /\ mid.state = IF fl = 1 /\ was.state = "ready" /\ t > 0 /\ mid.degree = 0
                         THEN "active" ELSE was.state
      BY <2>5, <3>1, <3>2, <1>5
    <3>4. mid.state # "sentinel"
      BY <3>3
    <3>5. \/ t2 = t /\ now = mid
          \/ /\ t2 = t + 1 /\ t2 <= was.degree /\ now.degree = mid.degree - 1
             /\ now.state = IF fl = 1 /\ mid.state = "ready" /\ mid.degree = 1
                            THEN "active" ELSE mid.state
      <4>1. CASE y = x
        <5>1. t2 = t + 1 /\ t2 <= was.degree
          BY <4>1, <2>5, <3>1, <3>2, <1>6
        <5>2. now.degree = mid.degree - 1
              /\ now.state = IF fl = 1 /\ mid.state = "ready" /\ mid.degree = 1
                             THEN "active" ELSE mid.state
          BY <4>1, <2>2, <3>1, <3>4
        <5>3. QED
          BY <5>1, <5>2
      <4>2. CASE y # x
        BY <4>2, <2>1, <3>1, <3>2, <1>6
      <4>3. QED
        BY <4>1, <4>2
    <3>6. Waiting(was, mid, t, fl) /\ PaidOnce(was, mid, now, t, t2, fl)
      BY <3>3, <3>5 DEF Waiting, PaidOnce
    <3>7. Waiting(was, now, t2, fl)
      BY <3>6, EdgeSettles
    <3>8. QED
      BY <3>1, <3>2, <3>7 DEF Waiting
  <2>6. ASSUME NEW y \in ids, Tally(seq, j, y) = 0
        PROVE  nd2[y] = nd0[y]
    <3>1. y # x /\ Tally(seq, k, y) = 0
      BY <2>6, <1>6
    <3>2. nd[y] = nd0[y]
      BY <3>1, <1>1 DEF Settled
    <3>3. QED
      BY <3>1, <3>2, <2>1
  <2>7. QED
    BY <1>1, <2>1, <2>3, <2>4, <2>5, <2>6 DEF Settled
<1>9. QED
  BY <1>2, <1>7, <1>8

\* All edges.
LEMMA AllSettled ==
    ASSUME NEW nd0, NEW ap0, NEW seq, NEW m \in Nat, Settling(nd0, ap0, seq, m),
           NEW loop, NEW flag, NEW fl, Paying(loop, flag, fl),
           NEW tr, Looped(loop, flag, Disc(nd0, ap0), seq, m, tr)
    PROVE  \E nd, ap : tr[m] = Disc(nd, ap) /\ Settled(nd0, seq, m, fl, nd, ap)
<1> DEFINE Good == {k \in Nat : k <= m =>
                      \E nd, ap : tr[k] = Disc(nd, ap) /\ Settled(nd0, seq, k, fl, nd, ap)}
<1>1. 0 \in Good
  <2>1. tr[0] = Disc(nd0, ap0)
    BY DEF Looped
  <2>2. \A x : Tally(seq, 0, x) = 0
    BY TallyGrows
  <2>3. nd0 \in [DOMAIN nd0 -> NodeType] /\ Lined(ap0, nd0)
    BY DEF Settling
  <2>4. \A x \in DOMAIN nd0 : nd0[x].degree \in Nat
    BY <2>3, NodeIs
  <2>5. ASSUME NEW x \in DOMAIN nd0
        PROVE  /\ nd0[x].degree + Tally(seq, 0, x) = nd0[x].degree
               /\ ~(Tally(seq, 0, x) > 0)
    BY <2>2, <2>4
  <2>6. Settled(nd0, seq, 0, fl, nd0, ap0)
    BY <2>3, <2>5 DEF Settled
  <2>7. QED
    BY <2>1, <2>6
<1>2. ASSUME NEW k \in Nat, k \in Good
      PROVE  k + 1 \in Good
  <2>1. ASSUME k + 1 <= m
        PROVE  \E nd, ap : tr[k + 1] = Disc(nd, ap) /\ Settled(nd0, seq, k + 1, fl, nd, ap)
    <3>1. PICK j \in 1 .. m : j = k + 1 /\ k = j - 1
      BY <2>1
    <3>2. PICK nd, ap : tr[k] = Disc(nd, ap) /\ Settled(nd0, seq, k, fl, nd, ap)
      BY <2>1, <1>2
    <3>3. tr[j] = Round(loop, flag, Disc(nd, ap), seq[j])
      BY <3>1, <3>2 DEF Looped
    <3>4. PICK x : x = seq[j]
      OBVIOUS
    <3>5. Indebted(nd, x)
          /\ \A nd2, ap2 : Pays(nd, ap, x, fl, nd2, ap2) => Settled(nd0, seq, j, fl, nd2, ap2)
      BY <3>1, <3>2, <3>4, SettlesOn
    <3>6. PICK nd2, ap2 : /\ Pays(nd, ap, x, fl, nd2, ap2)
                          /\ Round(loop, flag, Disc(nd, ap), x) = Disc(nd2, ap2)
      BY <3>5, RoundPays
    <3>7. Settled(nd0, seq, j, fl, nd2, ap2) /\ tr[j] = Disc(nd2, ap2)
      BY <3>3, <3>4, <3>5, <3>6
    <3>8. QED
      BY <3>1, <3>7
  <2>2. QED
    BY <2>1
<1>3. Nat \subseteq Good
  <2> HIDE DEF Good
  <2>1. QED
    BY <1>1, <1>2, Induction
<1>4. m \in Good
  BY <1>3
<1>5. QED
  BY <1>4

-----------------------------------------------------------------------------
(* A node of rdeps.hpp that is given back.                                   *)

\* Nobody names a node that waits for nobody.
LEMMA CountedNames ==
    ASSUME Wired(nodes, list, store), Counted(nodes, list, store), NEW x \in Ids
    PROVE  \A d \in Ids : /\ Occurrences(list[d], store, x) \in Nat
                          /\ Occurrences(list[d], store, x) <= nodes[x].degree
<1>1. IsFiniteSet(Ids) /\ DOMAIN list = Ids /\ Sound(list, store)
  BY IdsFinite DEF Wired, Ids
<1>2. PICK ids : ids = Ids
  OBVIOUS
<1>3. PICK f : f = Naming(list, store, ids, x)
  OBVIOUS
<1>4. ids = DOMAIN f /\ \A d \in ids : f[d] = Occurrences(list[d], store, x)
  BY <1>3 DEF Naming
<1>5. \A d \in ids : f[d] \in Nat
  BY <1>1, <1>2, <1>4, SoundCounts
<1>6. \A d \in ids : f[d] <= SumFunction(f)
  BY <1>1, <1>2, <1>4, <1>5, SumNatural
<1>7. nodes[x].degree = SumFunction(f)
  BY <1>2, <1>3 DEF Counted, Ids
<1>8. QED
  BY <1>2, <1>4, <1>5, <1>6, <1>7

\* What defuse_and_free does.
GivenBack(n) ==
  /\ nodes[n].state = "passive" /\ nodes[n].degree = 0
  /\ nodes' \in [Ids -> NodeType] /\ DOMAIN nodes' = Ids
  /\ nodes'[n].state = "sentinel" /\ nodes'[n].degree = 0
  /\ \A x \in Ids : x # n =>
       /\ nodes'[x].degree + Occurrences(list[n], store, x) = nodes[x].degree
       /\ nodes'[x].state = IF nodes[x].state = "ready" /\ Occurrences(list[n], store, x) > 0
                               /\ nodes'[x].degree = 0
                            THEN "active" ELSE nodes[x].state
  /\ Lined(apply', nodes') /\ NoEdges(list, store, list', store', n)
  /\ free' = Append(free, n) /\ UNCHANGED applied

LEMMA RFreeFrees ==
    ASSUME RInv, NEW n \in Ids, R!DefuseAndFree(n)
    PROVE  GivenBack(n)
<1>1. /\ Wired(nodes, list, store) /\ Counted(nodes, list, store) /\ Resting(nodes, list)
      /\ nodes \in [Ids -> NodeType] /\ DOMAIN list = Ids /\ Sound(list, store)
      /\ Named(list, store, Ids) /\ apply \in Seq(Ids)
      /\ \A x \in Ids : Contains(apply, x) <=> nodes[x].state = "active"
  BY DEF RInv, Wired, Ids, Lined
<1>2. PICK l : l = list[n]
  OBVIOUS
<1>3. GoodList(l, store)
  BY <1>1, <1>2, SoundCounts
<1>4. PICK seq : seq = ConnectionSeq(l)
  OBVIOUS
<1>5. PICK m \in Nat : /\ m = Count(l) /\ DOMAIN seq = 1 .. m
                       /\ \A x : Tally(seq, m, x) = Occurrences(l, store, x)
  BY <1>3, <1>4, TallyOfList
<1>6. nodes[n].state = "passive" /\ nodes[n].degree = 0
  BY DEF R!DefuseAndFree
<1>7. PICK done : done = [state |-> "sentinel", degree |-> 0]
  OBVIOUS
<1>8. done \in NodeType /\ done.state = "sentinel" /\ done.degree = 0
  BY <1>7 DEF NodeType, States
<1>9. [R!FreshNode EXCEPT !.state = "sentinel"] = done
  BY <1>7 DEF R!FreshNode
<1>10. R!Defused(nodes[n], TRUE) = done
  <2>1. nodes[n] = [state |-> "passive", degree |-> 0]
    BY <1>1, <1>6, NodeIs
  <2>2. QED
    BY <2>1, <1>7 DEF R!Defused
<1>11. PICK nd0 : nd0 = [nodes EXCEPT ![n] = done]
  OBVIOUS
<1>12. /\ nd0 \in [Ids -> NodeType] /\ DOMAIN nd0 = Ids /\ nd0[n] = done
       /\ \A x \in Ids : x # n => nd0[x] = nodes[x]
  BY <1>1, <1>8, <1>11
<1>13. PICK base : base = Disc(nd0, apply)
  OBVIOUS
<1>14. PICK last : last = R!FoldLeft(R!Discharged, base, seq)
  OBVIOUS
<1>15. /\ nodes' = [last.nodes EXCEPT ![n] = done] /\ apply' = last.apply
       /\ store' = R!Deleted(l, store) /\ list' = [list EXCEPT ![n] = R!NoList]
       /\ free' = Append(free, n) /\ UNCHANGED applied
  <2>1. [nodes EXCEPT ![n] = R!Defused(nodes[n], TRUE)] = nd0
    BY <1>10, <1>11
  <2>2. R!ConnectionSeq(list[n]) = seq
    BY <1>2, <1>4, RSameConnectionSeq
  <2>3. base = [nodes |-> [nodes EXCEPT ![n] = R!Defused(nodes[n], TRUE)], apply |-> apply]
    BY <2>1, <1>13 DEF Disc
  <2>4. QED
    BY <2>2, <2>3, <1>2, <1>9, <1>14 DEF R!DefuseAndFree
<1>16. PICK tr : Looped(3, 0, base, seq, m, tr) /\ last = tr[m]
  BY <1>5, <1>14, RDischargedLoop
<1>17. Settling(nd0, apply, seq, m)
  <2>1. \A x \in Ids : Contains(apply, x) <=> nd0[x].state = "active"
    <3>1. nd0[n].state # "active" /\ ~Contains(apply, n)
      BY <1>1, <1>6, <1>8, <1>12
    <3>2. QED
      BY <3>1, <1>1, <1>12
  <2>2. Lined(apply, nd0)
    BY <2>1, <1>1, <1>12 DEF Lined
  <2>3. ASSUME NEW k \in 1 .. m
        PROVE  seq[k] \in Ids
    <3>1. PICK x : x = seq[k]
      OBVIOUS
    <3>2. k \in {i \in 1 .. m : seq[i] = x}
      BY <3>1
    <3>3. Tally(seq, m, x) # 0
      <4>1. IsFiniteSet({i \in 1 .. m : seq[i] = x})
        <5>1. IsFiniteSet(1 .. m)
          BY FS_Interval
        <5>2. {i \in 1 .. m : seq[i] = x} \in SUBSET (1 .. m)
          OBVIOUS
        <5>3. QED
          BY <5>1, <5>2, FS_Subset
      <4>2. QED
        BY <4>1, <3>2, FS_EmptySet DEF Tally
    <3>4. QED
      BY <3>1, <3>3, <1>1, <1>2, <1>5 DEF Named
  <2>4. ASSUME NEW x \in Ids, nd0[x].state # "sentinel"
        PROVE  Tally(seq, m, x) <= nd0[x].degree
    <3>1. x # n
      BY <2>4, <1>8, <1>12
    <3>2. Occurrences(l, store, x) <= nodes[x].degree
      BY <1>1, <1>2, CountedNames
    <3>3. QED
      BY <3>1, <3>2, <1>5, <1>12
  <2>5. QED
    BY <2>2, <2>3, <2>4, <1>12 DEF Settling
<1>18. PICK nd, ap : tr[m] = Disc(nd, ap) /\ Settled(nd0, seq, m, 1, nd, ap)
  <2>1. Paying(3, 0, 1)
    BY DEF Paying
  <2>2. QED
    BY <2>1, <1>13, <1>16, <1>17, AllSettled
<1>19. last.nodes = nd /\ last.apply = ap
  BY <1>16, <1>18 DEF Disc
<1>20. /\ nd \in [Ids -> NodeType] /\ Lined(ap, nd) /\ nd[n].state = "sentinel"
       /\ \A x \in Ids : Occurrences(l, store, x) = 0 => nd[x] = nd0[x]
  BY <1>5, <1>8, <1>12, <1>18 DEF Settled
<1>21. \A x \in Ids : nd0[x].state # "sentinel" =>
         /\ nd[x].degree + Occurrences(l, store, x) = nd0[x].degree
         /\ nd[x].state = IF nd0[x].state = "ready" /\ Occurrences(l, store, x) > 0 /\ nd[x].degree = 0
                          THEN "active" ELSE nd0[x].state
  BY <1>5, <1>12, <1>18 DEF Settled
<1>22. /\ nodes' \in [Ids -> NodeType] /\ DOMAIN nodes' = Ids /\ nodes'[n] = done
       /\ \A x \in Ids : x # n => nodes'[x] = nd[x]
  BY <1>8, <1>15, <1>19, <1>20
<1>23. ASSUME NEW x \in Ids, x # n
       PROVE  /\ nodes'[x].degree + Occurrences(l, store, x) = nodes[x].degree
              /\ nodes'[x].state = IF nodes[x].state = "ready" /\ Occurrences(l, store, x) > 0
                                      /\ nodes'[x].degree = 0
                                   THEN "active" ELSE nodes[x].state
  <2>1. nodes'[x] = nd[x] /\ nd0[x] = nodes[x]
    BY <1>12, <1>22, <1>23
  <2>2. CASE nodes[x].state = "sentinel"
    <3>1. nodes[x].degree = 0
      BY <2>2, <1>1 DEF Resting, Ids
    <3>2. PICK o \in Nat : o = Occurrences(l, store, x) /\ o <= nodes[x].degree
      BY <1>1, <1>2, CountedNames
    <3>3. o = 0
      BY <3>1, <3>2
    <3>4. nodes'[x] = nodes[x]
      BY <3>2, <3>3, <2>1, <1>20
    <3>5. QED
      BY <3>1, <3>2, <3>3, <3>4, <2>2
  <2>3. CASE nodes[x].state # "sentinel"
    BY <2>1, <2>3, <1>21
  <2>4. QED
    BY <2>2, <2>3
<1>24. Lined(apply', nodes')
  <2>1. \A x \in Ids : nodes'[x].state = nd[x].state
    BY <1>8, <1>20, <1>22
  <2>2. DOMAIN nd = Ids
    BY <1>20
  <2>3. QED
    BY <2>1, <2>2, <1>15, <1>19, <1>20, <1>22 DEF Lined
<1>25. NoEdges(list, store, list', store', n)
  <2>1. store' = Deleted(list[n], store)
    BY <1>2, <1>15, RSameDeleted
  <2>2. Relisted(list, n, NoList, list')
    BY <1>15, RSameNoList DEF Relisted
  <2>3. QED
    BY <2>1, <2>2, <1>1, ListDropped
<1>26. QED
  BY <1>2, <1>6, <1>8, <1>15, <1>22, <1>23, <1>24, <1>25 DEF GivenBack

\* It keeps the invariant.
LEMMA GivenBackKeepsRInv ==
    ASSUME RInv, NEW n \in Ids, GivenBack(n)
    PROVE  RInv'
<1>1. /\ Wired(nodes, list, store) /\ Counted(nodes, list, store) /\ Resting(nodes, list)
      /\ nodes \in [Ids -> NodeType] /\ DOMAIN list = Ids /\ Sound(list, store)
      /\ Named(list, store, Ids) /\ Ids \subseteq 0 .. MaxNodes - 1 /\ IsFiniteSet(Ids)
      /\ \E size \in Nat : Ids = 0 .. size - 1
  BY IdsFinite DEF RInv, Wired, Ids
<1>2. /\ nodes[n].state = "passive" /\ nodes[n].degree = 0
      /\ nodes' \in [Ids -> NodeType] /\ DOMAIN nodes' = Ids
      /\ nodes'[n].state = "sentinel" /\ nodes'[n].degree = 0
      /\ Lined(apply', nodes') /\ free' = Append(free, n)
  BY DEF GivenBack
<1>3. \A x \in Ids : x # n => nodes'[x].degree + Occurrences(list[n], store, x) = nodes[x].degree
  BY DEF GivenBack
<1>4. \A x \in Ids : x # n =>
        nodes'[x].state = IF nodes[x].state = "ready" /\ Occurrences(list[n], store, x) > 0
                             /\ nodes'[x].degree = 0
                          THEN "active" ELSE nodes[x].state
  BY DEF GivenBack
<1>5. /\ Sound(list', store') /\ DOMAIN list' = Ids /\ list'[n] = NoList
      /\ \A x \in Ids : x # n => list'[x] = list[x]
      /\ \A x \in Ids : \A v :
           Occurrences(list'[x], store', v) = IF x = n THEN 0 ELSE Occurrences(list[x], store, v)
  BY <1>1 DEF GivenBack, NoEdges
<1>6. \A x, d \in Ids : /\ Occurrences(list[d], store, x) \in Nat
                        /\ Occurrences(list[d], store, x) <= nodes[x].degree
  BY <1>1, CountedNames
<1>7. Wired(nodes', list', store')
  <2>1. Named(list', store', Ids)
    BY <1>1, <1>5 DEF Named
  <2>2. QED
    BY <2>1, <1>1, <1>2, <1>5 DEF Wired
<1>8. ASSUME NEW x \in Ids
      PROVE  nodes'[x].degree = SumFunction(Naming(list', store', Ids, x))
  <2>1. PICK ids : ids = Ids
    OBVIOUS
  <2>2. PICK f : f = Naming(list, store, ids, x)
    OBVIOUS
  <2>3. PICK h : h = Naming(list', store', ids, x)
    OBVIOUS
  <2>4. /\ ids = DOMAIN f /\ ids = DOMAIN h /\ IsFiniteSet(ids)
        /\ \A c \in ids : f[c] = Occurrences(list[c], store, x) /\ h[c] = Occurrences(list'[c], store', x)
    BY <2>1, <2>2, <2>3, <1>1 DEF Naming
  <2>5. \A c \in ids : f[c] \in Nat /\ h[c] \in Nat /\ (c # n => h[c] = f[c])
    BY <2>1, <2>4, <1>5, <1>6
  <2>6. Integers(f, ids) /\ Integers(h, ids) /\ AlikeBut(f, h, ids, n) /\ n \in ids
    BY <2>1, <2>5 DEF Integers, AlikeBut
  <2>7. SumFunction(f) \in Int /\ SumFunction(h) = SumFunction(f) + (h[n] - f[n])
    BY <2>4, <2>6, SumChanged
  <2>8. h[n] = 0 /\ f[n] = Occurrences(list[n], store, x) /\ f[n] \in Nat
    BY <2>1, <2>4, <2>5, <1>5
  <2>9. nodes[x].degree = SumFunction(f)
    BY <2>1, <2>2, <1>1 DEF Counted, Ids
  <2>10. nodes[x].degree \in Nat /\ nodes'[x].degree \in Nat
    BY <1>1, <1>2, NodeIs
  <2>11. nodes'[x].degree + f[n] = nodes[x].degree
    <3>1. CASE x = n
      <4>1. f[n] <= 0
        BY <3>1, <2>8, <1>2, <1>6
      <4>2. QED
        BY <3>1, <4>1, <2>8, <1>2
    <3>2. CASE x # n
      BY <3>2, <2>8, <1>3
    <3>3. QED
      BY <3>1, <3>2
  <2>12. SumFunction(h) = nodes'[x].degree
    BY <2>7, <2>8, <2>9, <2>10, <2>11
  <2>13. QED
    BY <2>1, <2>3, <2>12
<1>9. Counted(nodes', list', store')
  BY <1>2, <1>8 DEF Counted
<1>10. ASSUME NEW x \in Ids, nodes'[x].state = "sentinel"
       PROVE  nodes'[x].degree = 0 /\ list'[x] = NoList
  <2>1. CASE x = n
    BY <2>1, <1>2, <1>5
  <2>2. CASE x # n
    <3>1. nodes[x].state = "sentinel"
      BY <2>2, <1>4, <1>10
    <3>2. nodes[x].degree = 0 /\ list[x] = NoList
      BY <3>1, <1>1 DEF Resting, Ids
    <3>3. PICK a \in Nat, b \in Nat : a = nodes'[x].degree /\ b = Occurrences(list[n], store, x)
      BY <1>2, <1>6, NodeIs
    <3>4. a + b = 0
      BY <3>2, <3>3, <2>2, <1>3
    <3>5. a = 0
      BY <3>4
    <3>6. QED
      BY <3>2, <3>3, <3>5, <2>2, <1>5
  <2>3. QED
    BY <2>1, <2>2
<1>11. Resting(nodes', list')
  BY <1>2, <1>10 DEF Resting
<1>12. Spare(free', nodes')
  <2>1. free \in Seq(Ids) /\ \A k \in 1 .. Len(free) : nodes[free[k]].state = "sentinel"
        /\ \A j, i \in 1 .. Len(free) : free[j] = free[i] => j = i
    BY DEF RInv, Spare, Ids
  <2>2. PICK len \in Nat : len = Len(free)
    BY <2>1
  <2>3. PICK fr : fr = Append(free, n)
    OBVIOUS
  <2>4. fr \in Seq(Ids) /\ Len(fr) = len + 1 /\ fr[len + 1] = n
        /\ \A k \in 1 .. len : fr[k] = free[k]
    BY <2>1, <2>2, <2>3
  <2>5. \A k \in 1 .. len : free[k] \in Ids /\ free[k] # n /\ nodes'[free[k]].state = "sentinel"
    <3>1. ASSUME NEW k \in 1 .. len
          PROVE  free[k] \in Ids /\ free[k] # n /\ nodes'[free[k]].state = "sentinel"
      <4>1. PICK x \in Ids : x = free[k] /\ nodes[x].state = "sentinel"
        BY <2>1, <2>2
      <4>2. x # n
        BY <4>1, <1>2
      <4>3. QED
        BY <4>1, <4>2, <1>4
    <3>2. QED
      BY <3>1
  <2>6. \A k \in 1 .. len + 1 : nodes'[fr[k]].state = "sentinel"
    <3>1. \A k \in 1 .. len + 1 : k = len + 1 \/ k \in 1 .. len
      OBVIOUS
    <3>2. QED
      BY <3>1, <2>4, <2>5, <1>2
  <2>7. ASSUME NEW j \in 1 .. len + 1, NEW i \in 1 .. len + 1, fr[j] = fr[i]
        PROVE  j = i
    <3>1. (j = len + 1 \/ j \in 1 .. len) /\ (i = len + 1 \/ i \in 1 .. len)
      OBVIOUS
    <3>2. CASE j \in 1 .. len /\ i \in 1 .. len
      <4>1. free[j] = free[i]
        BY <3>2, <2>4, <2>7
      <4>2. QED
        BY <4>1, <3>2, <2>1, <2>2
    <3>3. CASE j = len + 1 /\ i \in 1 .. len
      BY <3>3, <2>4, <2>5, <2>7
    <3>4. CASE j \in 1 .. len /\ i = len + 1
      BY <3>4, <2>4, <2>5, <2>7
    <3>5. QED
      BY <3>1, <3>2, <3>3, <3>4
  <2>8. QED
    BY <2>3, <2>4, <2>6, <2>7, <1>2 DEF Spare
<1>13. QED
  BY <1>1, <1>2, <1>7, <1>9, <1>11, <1>12 DEF RInv, Ids

\* Every step of rdeps.hpp keeps the invariant.
LEMMA RNextKeepsRInv ==
    ASSUME RInv, R!RNext
    PROVE  RInv'
<1>1. R!Ids = Ids
  BY DEF R!Ids, Ids
<1>2. CASE R!MakeNode
  BY <1>2, RMakeNodeMakes, MadeKeepsRInv
<1>3. ASSUME NEW count \in 1 .. RBatch, R!MakeNodes(count)
      PROVE  RInv'
  <2>1. count \in Nat
    BY PartsAssumption
  <2>2. QED
    BY <2>1, <1>3, RMakeNodesMakes, MadeKeepsRInv
<1>4. CASE \/ \E d \in Ids : \E b \in R!OutBatches(d) : R!MakeEdgesOut(d, b)
           \/ \E n \in Ids : \E b \in R!InBatches(n) : R!MakeEdgesIn(n, b)
  BY <1>4, REdgesJoin, JoinedKeepsRInv
<1>5. ASSUME NEW n \in Ids, R!DefuseAndFree(n)
      PROVE  RInv'
  BY <1>5, RFreeFrees, GivenBackKeepsRInv
<1>6. ASSUME NEW n \in Ids, R!DefuseAndYield(n)
      PROVE  RInv'
  BY <1>6, RYieldKeepsRInv
<1>7. ASSUME NEW n \in Ids, R!Query(n)
      PROVE  RInv'
  BY <1>7, RSameOperations, RQueryKeepsRInv
<1>8. CASE R!SeedAllNodes
  BY <1>8, RSameOperations, RSeedKeepsRInv
<1>9. CASE R!BeginWave
  BY <1>9, RSameOperations, RBeginKeepsRInv
<1>10. CASE R!EndWave \/ \E e \in Expectations : R!ReservePerNode(e)
  BY <1>10, RSameOperations, RRestKeepsRInv
<1>11. CASE R!Clear
  <2>1. Clear
    BY <1>11, RSameOperations
  <2>2. PICK nd : nd = [i \in {} |-> FreshNode]
    OBVIOUS
  <2>3. PICK ls : ls = [i \in {} |-> NoList]
    OBVIOUS
  <2>4. nodes' = nd /\ list' = ls /\ store' = EmptyStore /\ apply' = <<>> /\ free' = <<>>
    BY <2>1, <2>2, <2>3 DEF Clear
  <2>5. QED
    BY <2>2, <2>3, <2>4, EmptyHolds DEF RInv, Ids
<1>12. QED
  BY <1>1, <1>2, <1>3, <1>4, <1>5, <1>6, <1>7, <1>8, <1>9, <1>10, <1>11 DEF R!RNext

-----------------------------------------------------------------------------
(* The abstract tasks.                                                       *)

Nodes == 0 .. MaxNodes - 1
StatusIn(nd, n) ==
  IF n \notin DOMAIN nd THEN "none"
  ELSE CASE nd[n].state = "sentinel" -> "none"
         [] nd[n].state = "ready"    -> "idle"
         [] nd[n].state = "active"   -> "queued"
         [] nd[n].state = "passive"  -> "running"
WaitsIn(nd, ls, st, d, n) ==
  IF d \in DOMAIN nd /\ n \in DOMAIN nd THEN Occurrences(ls[d], st, n) ELSE 0

\* What a state says of a task.
LEMMA StatusInIs ==
    ASSUME NEW nd, NEW n
    PROVE  /\ n \notin DOMAIN nd => StatusIn(nd, n) = "none"
           /\ n \in DOMAIN nd =>
                /\ nd[n].state = "sentinel" => StatusIn(nd, n) = "none"
                /\ nd[n].state = "ready" => StatusIn(nd, n) = "idle"
                /\ nd[n].state = "active" => StatusIn(nd, n) = "queued"
                /\ nd[n].state = "passive" => StatusIn(nd, n) = "running"
  BY DEF StatusIn

\* And what a task's status says of the state.
LEMMA StateOfStatus ==
    ASSUME NEW nd, NEW n \in DOMAIN nd, nd[n] \in NodeType
    PROVE  /\ StatusIn(nd, n) = "none" <=> nd[n].state = "sentinel"
           /\ StatusIn(nd, n) = "idle" <=> nd[n].state = "ready"
           /\ StatusIn(nd, n) = "queued" <=> nd[n].state = "active"
           /\ StatusIn(nd, n) = "running" <=> nd[n].state = "passive"
<1>1. nd[n].state \in {"sentinel", "ready", "active", "passive"}
  BY NodeIs
<1>2. QED
  BY <1>1, StatusInIs

\* Equal states, equal status.
LEMMA SameStatus ==
    ASSUME NEW nd, NEW nd2, NEW n, n \in DOMAIN nd <=> n \in DOMAIN nd2,
           n \in DOMAIN nd => nd2[n].state = nd[n].state
    PROVE  StatusIn(nd2, n) = StatusIn(nd, n)
<1>1. CASE n \notin DOMAIN nd
  BY <1>1, StatusInIs
<1>2. CASE n \in DOMAIN nd
  <2>1. PICK s : s = nd[n].state
    OBVIOUS
  <2>2. nd2[n].state = s
    BY <1>2, <2>1
  <2>3. StatusIn(nd, n) = CASE s = "sentinel" -> "none" [] s = "ready" -> "idle"
                            [] s = "active" -> "queued" [] s = "passive" -> "running"
    BY <1>2, <2>1 DEF StatusIn
  <2>4. StatusIn(nd2, n) = CASE s = "sentinel" -> "none" [] s = "ready" -> "idle"
                             [] s = "active" -> "queued" [] s = "passive" -> "running"
    BY <1>2, <2>2 DEF StatusIn
  <2>5. QED
    BY <2>3, <2>4
<1>3. QED
  BY <1>1, <1>2

\* A node waits for nobody when its in-degree is zero.
LEMMA ZeroIsFree ==
    ASSUME NEW nd, NEW ls, NEW st, Wired(nd, ls, st), Counted(nd, ls, st), NEW n
    PROVE  n \in DOMAIN nd =>
             (nd[n].degree = 0 <=> \A d : WaitsIn(nd, ls, st, d, n) = 0)
<1>1. SUFFICES ASSUME n \in DOMAIN nd
               PROVE  nd[n].degree = 0 <=> \A d : WaitsIn(nd, ls, st, d, n) = 0
  OBVIOUS
<1>2. PICK ids : ids = DOMAIN nd
  OBVIOUS
<1>3. IsFiniteSet(ids) /\ DOMAIN ls = ids /\ Sound(ls, st)
  BY <1>2, IdsFinite DEF Wired
<1>4. PICK f : f = Naming(ls, st, ids, n)
  OBVIOUS
<1>5. ids = DOMAIN f /\ \A d \in ids : f[d] = Occurrences(ls[d], st, n)
  BY <1>4 DEF Naming
<1>6. \A d \in ids : f[d] \in Nat
  BY <1>3, <1>5, SoundCounts
<1>7. \A d \in ids : f[d] <= SumFunction(f)
  BY <1>3, <1>5, <1>6, SumNatural
<1>8. nd[n].degree = SumFunction(f)
  BY <1>1, <1>2, <1>4 DEF Counted
<1>9. ASSUME nd[n].degree = 0
      PROVE  \A d : WaitsIn(nd, ls, st, d, n) = 0
  <2>1. \A d \in ids : f[d] = 0
    BY <1>6, <1>7, <1>8, <1>9
  <2>2. QED
    BY <2>1, <1>2, <1>5 DEF WaitsIn
<1>10. ASSUME \A d : WaitsIn(nd, ls, st, d, n) = 0
       PROVE  nd[n].degree = 0
  <2>1. \A d \in ids : f[d] = 0
    BY <1>1, <1>2, <1>5, <1>10 DEF WaitsIn
  <2>2. SumFunction(f) = 0
    BY <2>1, <1>3, <1>5, SumOfZeros
  <2>3. QED
    BY <2>2, <1>8
<1>11. QED
  BY <1>9, <1>10

\* The refinement mapping, and a step of it.
Stat == [n \in Nodes |-> Status(n)]
Wait == [a \in Nodes \X Nodes |-> Waits(a[1], a[2])]
Images(nd, ls, st, stat, wait) ==
  /\ stat = [n \in Nodes |-> StatusIn(nd, n)]
  /\ wait = [a \in Nodes \X Nodes |-> WaitsIn(nd, ls, st, a[1], a[2])]

\* What the mapping is for rdeps.hpp, now ...
LEMMA MappedNow ==
    ASSUME part = "rdeps"
    PROVE  Images(nodes, list, store, Stat, Wait)
<1>1. ASSUME NEW n
      PROVE  Status(n) = StatusIn(nodes, n)
  BY DEF Status, StatusIn, Ids
<1>2. ASSUME NEW d, NEW n
      PROVE  Waits(d, n) = WaitsIn(nodes, list, store, d, n)
  BY DEF Waits, WaitsIn, Ids
<1>3. QED
  BY <1>1, <1>2 DEF Images, Stat, Wait

\* ... and in the next state.
LEMMA MappedNext ==
    ASSUME part' = "rdeps"
    PROVE  Images(nodes', list', store', Stat', Wait')
<1>1. ASSUME NEW n
      PROVE  Status(n)' = StatusIn(nodes', n)
  BY DEF Status, StatusIn, Ids
<1>2. ASSUME NEW d, NEW n
      PROVE  Waits(d, n)' = WaitsIn(nodes', list', store', d, n)
  BY DEF Waits, WaitsIn, Ids
<1>3. QED
  BY <1>1, <1>2 DEF Images, Stat, Wait

\* The images, place by place.
IsTable(f, S) == f = [x \in S |-> f[x]]
Tabled(nd, ls, st, stat, wait) ==
  /\ IsTable(stat, Nodes) /\ IsTable(wait, Nodes \X Nodes)
  /\ \A n \in Nodes : stat[n] = StatusIn(nd, n)
  /\ \A d, n \in Nodes : wait[<<d, n>>] = WaitsIn(nd, ls, st, d, n)

LEMMA ImagesAre ==
    ASSUME NEW nd, NEW ls, NEW st, NEW stat, NEW wait, Images(nd, ls, st, stat, wait)
    PROVE  Tabled(nd, ls, st, stat, wait)
<1>1. /\ stat = [n \in Nodes |-> StatusIn(nd, n)]
      /\ wait = [a \in Nodes \X Nodes |-> WaitsIn(nd, ls, st, a[1], a[2])]
  BY DEF Images
<1>2. \A d, n \in Nodes : /\ <<d, n>> \in Nodes \X Nodes
                          /\ <<d, n>>[1] = d /\ <<d, n>>[2] = n
  OBVIOUS
<1>3. \A d, n \in Nodes : wait[<<d, n>>] = WaitsIn(nd, ls, st, d, n)
  BY <1>1, <1>2
<1>4. IsTable(stat, Nodes) /\ IsTable(wait, Nodes \X Nodes)
  BY <1>1 DEF IsTable
<1>5. QED
  BY <1>1, <1>3, <1>4 DEF Tabled

\* Tables of waits that agree place by place are equal.
Alike(w, w2) == \A d, n \in Nodes : w2[<<d, n>>] = w[<<d, n>>]
LEMMA SameWaits ==
    ASSUME NEW w, NEW w2, IsTable(w, Nodes \X Nodes), IsTable(w2, Nodes \X Nodes),
           Alike(w, w2)
    PROVE  w2 = w
<1>1. ASSUME NEW a \in Nodes \X Nodes
      PROVE  w2[a] = w[a]
  <2>1. PICK d \in Nodes, n \in Nodes : a = <<d, n>>
    OBVIOUS
  <2>2. QED
    BY <2>1 DEF Alike
<1>2. QED
  BY <1>1 DEF IsTable

\* Both states of a step of rdeps.hpp.
Mapped ==
  /\ IsTable(Stat, Nodes) /\ IsTable(Stat', Nodes)
  /\ IsTable(Wait, Nodes \X Nodes) /\ IsTable(Wait', Nodes \X Nodes)
  /\ \A n \in Nodes : Stat[n] = StatusIn(nodes, n) /\ Stat'[n] = StatusIn(nodes', n)
  /\ \A d, n \in Nodes : /\ Wait[<<d, n>>] = WaitsIn(nodes, list, store, d, n)
                         /\ Wait'[<<d, n>>] = WaitsIn(nodes', list', store', d, n)

LEMMA MappedStep ==
    ASSUME part = "rdeps", part' = "rdeps"
    PROVE  Mapped
<1>1. PICK s, w : s = Stat /\ w = Wait
  OBVIOUS
<1>2. PICK s2, w2 : s2 = Stat' /\ w2 = Wait'
  OBVIOUS
<1>3. Images(nodes, list, store, s, w)
  BY <1>1, MappedNow
<1>4. Images(nodes', list', store', s2, w2)
  BY <1>2, MappedNext
<1>5. PICK nd, ls, st : nd = nodes /\ ls = list /\ st = store
  OBVIOUS
<1>6. PICK nd2, ls2, st2 : nd2 = nodes' /\ ls2 = list' /\ st2 = store'
  OBVIOUS
<1>7. Images(nd, ls, st, s, w) /\ Images(nd2, ls2, st2, s2, w2)
  BY <1>3, <1>4, <1>5, <1>6
<1>8. Tabled(nd, ls, st, s, w)
  BY <1>7, ImagesAre
<1>9. Tabled(nd2, ls2, st2, s2, w2)
  BY <1>7, ImagesAre
<1>10. QED
  BY <1>1, <1>2, <1>5, <1>6, <1>8, <1>9 DEF Mapped, Tabled

\* The steps of the abstract tasks, as the tables of the mapping change.
LEMMA StepCreate ==
    ASSUME NEW S \in SUBSET Nodes, \A n \in S : Stat[n] = "none",
           Stat' = [n \in Nodes |-> IF n \in S THEN "idle" ELSE Stat[n]], Wait' = Wait
    PROVE  AbstractTasks!Next
<1>1. AbstractTasks!Create(S)
  BY DEF AbstractTasks!Create, AbstractTasks!Some, Stat, Wait, Nodes
<1>2. QED
  BY <1>1 DEF AbstractTasks!Next, Nodes

LEMMA StepQueue ==
    ASSUME NEW S \in SUBSET Nodes,
           \A n \in S : Stat[n] = "idle" /\ \A d \in Nodes : Wait[<<d, n>>] = 0,
           Stat' = [n \in Nodes |-> IF n \in S THEN "queued" ELSE Stat[n]], Wait' = Wait
    PROVE  AbstractTasks!Next
<1>1. AbstractTasks!Queue(S)
  BY DEF AbstractTasks!Queue, AbstractTasks!Some, AbstractTasks!Free, Stat, Wait, Nodes
<1>2. QED
  BY <1>1 DEF AbstractTasks!Next, Nodes

LEMMA StepOrder ==
    ASSUME \A d, n \in Nodes :
             /\ Wait'[<<d, n>>] >= Wait[<<d, n>>]
             /\ Wait'[<<d, n>>] # Wait[<<d, n>>] => d # n /\ Stat[d] # "none" /\ Stat[n] # "none",
           Stat' = Stat
    PROVE  AbstractTasks!Next
<1>1. AbstractTasks!Order
  BY DEF AbstractTasks!Order, Stat, Wait, Nodes
<1>2. QED
  BY <1>1 DEF AbstractTasks!Next

LEMMA StepStart ==
    ASSUME Stat' = [n \in Nodes |-> IF Stat[n] = "queued" THEN "running" ELSE Stat[n]], Wait' = Wait
    PROVE  AbstractTasks!Next
<1>1. AbstractTasks!Start
  BY DEF AbstractTasks!Start, Stat, Wait, Nodes
<1>2. QED
  BY <1>1 DEF AbstractTasks!Next

LEMMA StepYield ==
    ASSUME NEW n \in Nodes, Stat[n] = "running",
           NEW new, new = IF \A d \in Nodes : Wait[<<d, n>>] = 0 THEN "queued" ELSE "idle",
           Stat' = [Stat EXCEPT ![n] = new], Wait' = Wait
    PROVE  AbstractTasks!Next
<1>1. AbstractTasks!Yield(n)
  BY DEF AbstractTasks!Yield, AbstractTasks!Free, Stat, Wait, Nodes
<1>2. QED
  BY <1>1 DEF AbstractTasks!Next, Nodes

LEMMA StepReset ==
    ASSUME Stat' = [n \in Nodes |-> "none"], Wait' = [a \in Nodes \X Nodes |-> 0]
    PROVE  AbstractTasks!Next
<1>1. AbstractTasks!Reset
  BY DEF AbstractTasks!Reset, Stat, Wait, Nodes
<1>2. QED
  BY <1>1 DEF AbstractTasks!Next

\* Who waited for n, and waits for nobody when n is done.
LeftOf(n) == [a \in Nodes \X Nodes |-> IF a[1] = n THEN 0 ELSE Wait[a]]
FreedBy(n) ==
  {m \in Nodes : Wait[<<n, m>>] > 0 /\ (\A d \in Nodes : LeftOf(n)[<<d, m>>] = 0) /\ Stat[m] = "idle"}

LEMMA StepFinish ==
    ASSUME NEW n \in Nodes, Stat[n] = "running", \A d \in Nodes : Wait[<<d, n>>] = 0,
           Wait' = LeftOf(n),
           Stat' = [m \in Nodes |-> IF m = n THEN "none" ELSE IF m \in FreedBy(n) THEN "queued" ELSE Stat[m]]
    PROVE  AbstractTasks!Next
<1>1. AbstractTasks!Finish(n)
  BY DEF AbstractTasks!Finish, AbstractTasks!Free, AbstractTasks!Some, Stat, Wait, Nodes, LeftOf, FreedBy
<1>2. QED
  BY <1>1 DEF AbstractTasks!Next, Nodes

\* What the tables are in the next state, told place by place.
LEMMA StatIs ==
    ASSUME Mapped, NEW f, IsTable(f, Nodes), \A n \in Nodes : f[n] = StatusIn(nodes', n)
    PROVE  Stat' = f
<1>1. PICK s2 : s2 = Stat'
  OBVIOUS
<1>2. IsTable(s2, Nodes) /\ \A n \in Nodes : s2[n] = f[n]
  BY <1>1 DEF Mapped
<1>3. s2 = f
  BY <1>2 DEF IsTable
<1>4. QED
  BY <1>1, <1>3

LEMMA WaitIs ==
    ASSUME Mapped, NEW f, IsTable(f, Nodes \X Nodes),
           \A d, n \in Nodes : f[<<d, n>>] = WaitsIn(nodes', list', store', d, n)
    PROVE  Wait' = f
<1>1. PICK w2 : w2 = Wait'
  OBVIOUS
<1>2. IsTable(w2, Nodes \X Nodes) /\ \A d, n \in Nodes : w2[<<d, n>>] = f[<<d, n>>]
  BY <1>1 DEF Mapped
<1>3. w2 = f
  <2>1. Alike(f, w2)
    BY <1>2 DEF Alike
  <2>2. QED
    BY <2>1, <1>2, SameWaits
<1>4. QED
  BY <1>1, <1>3

LEMMA StatStays ==
    ASSUME Mapped, \A n \in Nodes : StatusIn(nodes', n) = StatusIn(nodes, n)
    PROVE  Stat' = Stat
<1>1. PICK s : s = Stat
  OBVIOUS
<1>2. IsTable(s, Nodes) /\ \A n \in Nodes : s[n] = StatusIn(nodes', n)
  BY <1>1 DEF Mapped
<1>3. QED
  BY <1>1, <1>2, StatIs

LEMMA WaitStays ==
    ASSUME Mapped,
           \A d, n \in Nodes : WaitsIn(nodes', list', store', d, n) = WaitsIn(nodes, list, store, d, n)
    PROVE  Wait' = Wait
<1>1. PICK w : w = Wait
  OBVIOUS
<1>2. IsTable(w, Nodes \X Nodes) /\ \A d, n \in Nodes : w[<<d, n>>] = WaitsIn(nodes', list', store', d, n)
  BY <1>1 DEF Mapped
<1>3. QED
  BY <1>1, <1>2, WaitIs

\* Where only states change, nobody waits for anybody else.
LEMMA StirredStays ==
    ASSUME Mapped, Stirred
    PROVE  Wait' = Wait
<1>1. DOMAIN nodes' = DOMAIN nodes /\ list' = list /\ store' = store
  BY DEF Stirred, Ids
<1>2. \A d, n \in Nodes : WaitsIn(nodes', list', store', d, n) = WaitsIn(nodes, list, store, d, n)
  BY <1>1 DEF WaitsIn
<1>3. QED
  BY <1>2, WaitStays

\* A node that waits for nobody, among the tasks.
LEMMA FreeIs ==
    ASSUME NEW nd, NEW ls, NEW st, Wired(nd, ls, st), Counted(nd, ls, st), DOMAIN nd \subseteq Nodes,
           NEW n \in DOMAIN nd
    PROVE  nd[n].degree = 0 <=> \A d \in Nodes : WaitsIn(nd, ls, st, d, n) = 0
<1>1. nd[n].degree = 0 <=> \A d : WaitsIn(nd, ls, st, d, n) = 0
  BY ZeroIsFree
<1>2. \A d : d \notin Nodes => WaitsIn(nd, ls, st, d, n) = 0
  BY DEF WaitsIn
<1>3. QED
  BY <1>1, <1>2

\* make_node and make_nodes create tasks.
LEMMA MadeCreates ==
    ASSUME Mapped, RInv, NEW S, Made(S), Ids' \subseteq 0 .. MaxNodes - 1
    PROVE  AbstractTasks!Next
<1>1. /\ Extends(nodes, list, nodes', list') /\ store' = store
      /\ \A x \in DOMAIN nodes' :
           /\ nodes'[x].state = IF x \in S THEN "ready" ELSE nodes[x].state
           /\ x \in S \/ x \in Ids
      /\ \A x \in S : x \in DOMAIN nodes' /\ (x \in Ids => nodes[x].state = "sentinel")
  BY DEF Made
<1>2. /\ DOMAIN nodes' \subseteq Nodes /\ DOMAIN nodes \subseteq DOMAIN nodes'
      /\ Wired(nodes, list, store)
  BY <1>1 DEF Ids, Nodes, Extends, RInv
<1>3. PICK T : T = S
  OBVIOUS
<1>4. T \in SUBSET Nodes
  BY <1>1, <1>2, <1>3
<1>5. \A n \in T : Stat[n] = "none"
  <2>1. ASSUME NEW n \in T
        PROVE  StatusIn(nodes, n) = "none"
    BY <2>1, <1>1, <1>3, StatusInIs DEF Ids
  <2>2. QED
    BY <2>1, <1>4 DEF Mapped
<1>6. Stat' = [n \in Nodes |-> IF n \in T THEN "idle" ELSE Stat[n]]
  <2>1. PICK f : f = [n \in Nodes |-> IF n \in T THEN "idle" ELSE Stat[n]]
    OBVIOUS
  <2>2. ASSUME NEW n \in Nodes
        PROVE  f[n] = StatusIn(nodes', n)
    <3>1. CASE n \in T
      <4>1. n \in DOMAIN nodes' /\ nodes'[n].state = "ready"
        BY <3>1, <1>1, <1>3
      <4>2. StatusIn(nodes', n) = "idle"
        BY <4>1, StatusInIs
      <4>3. QED
        BY <4>2, <3>1, <2>1
    <3>2. CASE n \notin T
      <4>1. n \in DOMAIN nodes <=> n \in DOMAIN nodes'
        BY <3>2, <1>1, <1>2, <1>3 DEF Ids
      <4>2. n \in DOMAIN nodes => nodes'[n].state = nodes[n].state
        BY <3>2, <4>1, <1>1, <1>3
      <4>3. StatusIn(nodes', n) = StatusIn(nodes, n)
        BY <4>1, <4>2, SameStatus
      <4>4. f[n] = Stat[n] /\ Stat[n] = StatusIn(nodes, n)
        BY <3>2, <2>1 DEF Mapped
      <4>5. QED
        BY <4>3, <4>4
    <3>3. QED
      BY <3>1, <3>2
  <2>3. IsTable(f, Nodes)
    BY <2>1 DEF IsTable
  <2>4. QED
    BY <2>1, <2>2, <2>3, StatIs
<1>7. Wait' = Wait
  <2>1. \A d, n \in DOMAIN nodes' :
          Occurrences(list'[d], store, n) = IF d \in DOMAIN nodes /\ n \in DOMAIN nodes
                                            THEN Occurrences(list[d], store, n) ELSE 0
    BY <1>1, <1>2, ExtendsKeepsWired
  <2>2. \A d, n \in Nodes : WaitsIn(nodes', list', store', d, n) = WaitsIn(nodes, list, store, d, n)
    BY <2>1, <1>1, <1>2 DEF WaitsIn
  <2>3. QED
    BY <2>2, WaitStays
<1>8. QED
  BY <1>4, <1>5, <1>6, <1>7, StepCreate

\* make_edges orders tasks.
LEMMA JoinedOrders ==
    ASSUME Mapped, RInv, NEW seq, NEW m \in Nat, Joined(seq, m)
    PROVE  AbstractTasks!Next
<1>1. /\ DOMAIN nodes' = Ids /\ \A x \in Ids : nodes'[x].state = nodes[x].state
      /\ \A x \in Ids : \A v :
           /\ Occurrences(list'[x], store', v) >= Occurrences(list[x], store, v)
           /\ Occurrences(list'[x], store', v) # Occurrences(list[x], store, v) =>
                \E j \in 1 .. m : seq[j].d = x /\ seq[j].n = v
      /\ Joinable(seq, m) /\ Along(seq, m)
  BY DEF Joined, RMade
<1>2. Stat' = Stat
  <2>1. \A n \in Nodes : StatusIn(nodes', n) = StatusIn(nodes, n)
    BY <1>1, SameStatus DEF Ids
  <2>2. QED
    BY <2>1, StatStays
<1>3. ASSUME NEW d \in Nodes, NEW n \in Nodes
      PROVE  /\ Wait'[<<d, n>>] >= Wait[<<d, n>>]
             /\ Wait'[<<d, n>>] # Wait[<<d, n>>] => d # n /\ Stat[d] # "none" /\ Stat[n] # "none"
  <2>1. PICK a, b : a = WaitsIn(nodes, list, store, d, n) /\ b = WaitsIn(nodes', list', store', d, n)
    OBVIOUS
  <2>2. Wait[<<d, n>>] = a /\ Wait'[<<d, n>>] = b
    BY <2>1 DEF Mapped
  <2>3. CASE d \in Ids /\ n \in Ids
    <3>1. a = Occurrences(list[d], store, n) /\ b = Occurrences(list'[d], store', n)
      BY <2>1, <2>3, <1>1 DEF WaitsIn, Ids
    <3>2. b >= a
      BY <3>1, <2>3, <1>1
    <3>3. ASSUME b # a
          PROVE  d # n /\ Stat[d] # "none" /\ Stat[n] # "none"
      <4>1. PICK j \in 1 .. m : seq[j].d = d /\ seq[j].n = n
        BY <3>1, <3>3, <2>3, <1>1
      <4>2. <<d, n>> \in Arcs
        BY <4>1, <1>1 DEF Along
      <4>3. d # n
        <5>1. PICK a1 \in Arcs : a1 = <<d, n>>
          BY <4>2
        <5>2. a1[1] # a1[2]
          BY BoundsAssumption
        <5>3. QED
          BY <5>1, <5>2
      <4>4. nodes[d].state # "sentinel" /\ nodes[n].state # "sentinel"
        BY <4>1, <1>1 DEF Joinable
      <4>5. nodes[d] \in NodeType /\ nodes[n] \in NodeType
        BY <2>3 DEF RInv, Wired, Ids
      <4>6. StatusIn(nodes, d) # "none" /\ StatusIn(nodes, n) # "none"
        BY <4>4, <4>5, <2>3, StateOfStatus DEF Ids
      <4>7. QED
        BY <4>3, <4>6 DEF Mapped
    <3>4. QED
      BY <3>2, <3>3, <2>2
  <2>4. CASE ~(d \in Ids /\ n \in Ids)
    <3>1. a = 0 /\ b = 0
      BY <2>1, <2>4, <1>1 DEF WaitsIn, Ids
    <3>2. QED
      BY <3>1, <2>2
  <2>5. QED
    BY <2>3, <2>4
<1>4. QED
  BY <1>2, <1>3, StepOrder

\* query and seed_all_nodes queue tasks.
LEMMA QueryQueues ==
    ASSUME Mapped, RInv, Ids \subseteq Nodes, NEW n \in Ids, Query(n)
    PROVE  AbstractTasks!Next
<1>1. nodes \in [Ids -> NodeType] /\ Wired(nodes, list, store) /\ Counted(nodes, list, store)
  BY DEF RInv, Wired, Ids
<1>2. /\ nodes[n].state = "ready" /\ nodes[n].degree = 0
      /\ \A x \in Ids : nodes'[x].state = IF x = n THEN "active" ELSE nodes[x].state
      /\ Stirred
  BY <1>1, QueryTurns
<1>3. PICK S : S = {n}
  OBVIOUS
<1>4. DOMAIN nodes' = Ids
  BY <1>2 DEF Stirred
<1>5. Stat[n] = "idle"
  BY <1>2, StatusInIs DEF Mapped, Ids
<1>6. \A d \in Nodes : Wait[<<d, n>>] = 0
  <2>1. \A d \in Nodes : WaitsIn(nodes, list, store, d, n) = 0
    BY <1>1, <1>2, FreeIs DEF Ids
  <2>2. QED
    BY <2>1 DEF Mapped
<1>7. Stat' = [x \in Nodes |-> IF x \in S THEN "queued" ELSE Stat[x]]
  <2>1. PICK f : f = [x \in Nodes |-> IF x \in S THEN "queued" ELSE Stat[x]]
    OBVIOUS
  <2>2. ASSUME NEW x \in Nodes
        PROVE  f[x] = StatusIn(nodes', x)
    <3>1. CASE x = n
      <4>1. StatusIn(nodes', x) = "queued"
        BY <3>1, <1>2, <1>4, StatusInIs
      <4>2. QED
        BY <4>1, <3>1, <2>1, <1>3
    <3>2. CASE x # n
      <4>1. StatusIn(nodes', x) = StatusIn(nodes, x)
        BY <3>2, <1>2, <1>4, SameStatus DEF Ids
      <4>2. QED
        BY <4>1, <3>2, <2>1, <1>3 DEF Mapped
    <3>3. QED
      BY <3>1, <3>2
  <2>3. IsTable(f, Nodes)
    BY <2>1 DEF IsTable
  <2>4. QED
    BY <2>1, <2>2, <2>3, StatIs
<1>8. Wait' = Wait
  BY <1>2, StirredStays
<1>9. QED
  BY <1>3, <1>5, <1>6, <1>7, <1>8, StepQueue

LEMMA SeedQueues ==
    ASSUME Mapped, RInv, Ids \subseteq Nodes, SeedAllNodes
    PROVE  AbstractTasks!Next
<1>1. nodes \in [Ids -> NodeType] /\ Wired(nodes, list, store) /\ Counted(nodes, list, store)
  BY DEF RInv, Wired, Ids
<1>2. /\ \A x \in Ids : nodes'[x].state = IF nodes[x].state = "ready" /\ nodes[x].degree = 0
                                          THEN "active" ELSE nodes[x].state
      /\ Stirred
  BY <1>1, SeedTurns
<1>3. PICK S : S = {n \in Ids : nodes[n].state = "ready" /\ nodes[n].degree = 0}
  OBVIOUS
<1>4. DOMAIN nodes' = Ids /\ S \in SUBSET Nodes
  BY <1>2, <1>3 DEF Stirred
<1>5. ASSUME NEW n \in S
      PROVE  Stat[n] = "idle" /\ \A d \in Nodes : Wait[<<d, n>>] = 0
  <2>1. n \in Ids /\ n \in Nodes /\ nodes[n].state = "ready" /\ nodes[n].degree = 0
    BY <1>3
  <2>2. StatusIn(nodes, n) = "idle"
    BY <2>1, StatusInIs DEF Ids
  <2>3. \A d \in Nodes : WaitsIn(nodes, list, store, d, n) = 0
    BY <2>1, <1>1, FreeIs DEF Ids
  <2>4. QED
    BY <2>1, <2>2, <2>3 DEF Mapped
<1>6. Stat' = [x \in Nodes |-> IF x \in S THEN "queued" ELSE Stat[x]]
  <2>1. PICK f : f = [x \in Nodes |-> IF x \in S THEN "queued" ELSE Stat[x]]
    OBVIOUS
  <2>2. ASSUME NEW x \in Nodes
        PROVE  f[x] = StatusIn(nodes', x)
    <3>1. CASE x \in S
      <4>1. x \in Ids /\ nodes'[x].state = "active"
        BY <3>1, <1>2, <1>3
      <4>2. StatusIn(nodes', x) = "queued"
        BY <4>1, <1>4, StatusInIs
      <4>3. QED
        BY <4>2, <3>1, <2>1
    <3>2. CASE x \notin S
      <4>1. x \in Ids => nodes'[x].state = nodes[x].state
        BY <3>2, <1>2, <1>3
      <4>2. StatusIn(nodes', x) = StatusIn(nodes, x)
        BY <4>1, <1>4, SameStatus DEF Ids
      <4>3. QED
        BY <4>2, <3>2, <2>1 DEF Mapped
    <3>3. QED
      BY <3>1, <3>2
  <2>3. IsTable(f, Nodes)
    BY <2>1 DEF IsTable
  <2>4. QED
    BY <2>1, <2>2, <2>3, StatIs
<1>7. Wait' = Wait
  BY <1>2, StirredStays
<1>8. QED
  BY <1>4, <1>5, <1>6, <1>7, StepQueue

\* A wave starts every task that is queued.
LEMMA BeginStarts ==
    ASSUME Mapped, RInv, BeginWave
    PROVE  AbstractTasks!Next
<1>1. nodes \in [Ids -> NodeType] /\ \A x \in Ids : Contains(apply, x) <=> nodes[x].state = "active"
  BY DEF RInv, Wired, Ids, Lined
<1>2. \A x \in Ids : Contains(apply, x) => nodes[x].state # "sentinel"
  BY <1>1
<1>3. /\ \A x \in Ids : nodes'[x].state = IF Contains(apply, x) THEN "passive" ELSE nodes[x].state
      /\ Stirred
  BY <1>1, <1>2, BeginTurns
<1>4. DOMAIN nodes' = Ids
  BY <1>3 DEF Stirred
<1>5. Stat' = [n \in Nodes |-> IF Stat[n] = "queued" THEN "running" ELSE Stat[n]]
  <2>1. PICK f : f = [n \in Nodes |-> IF Stat[n] = "queued" THEN "running" ELSE Stat[n]]
    OBVIOUS
  <2>2. ASSUME NEW x \in Nodes
        PROVE  f[x] = StatusIn(nodes', x)
    <3>1. CASE x \in Ids /\ nodes[x].state = "active"
      <4>1. nodes'[x].state = "passive" /\ StatusIn(nodes, x) = "queued"
        BY <3>1, <1>1, <1>3, StatusInIs DEF Ids
      <4>2. StatusIn(nodes', x) = "running"
        BY <4>1, <3>1, <1>4, StatusInIs
      <4>3. QED
        BY <4>1, <4>2, <2>1 DEF Mapped
    <3>2. CASE ~(x \in Ids /\ nodes[x].state = "active")
      <4>1. x \in Ids => nodes'[x].state = nodes[x].state
        BY <3>2, <1>1, <1>3
      <4>2. StatusIn(nodes', x) = StatusIn(nodes, x)
        BY <4>1, <1>4, SameStatus DEF Ids
      <4>3. StatusIn(nodes, x) # "queued"
        <5>1. CASE x \in Ids
          BY <5>1, <3>2, <1>1, StateOfStatus DEF Ids
        <5>2. CASE x \notin Ids
          BY <5>2, StatusInIs DEF Ids
        <5>3. QED
          BY <5>1, <5>2
      <4>4. QED
        BY <4>2, <4>3, <2>1 DEF Mapped
    <3>3. QED
      BY <3>1, <3>2
  <2>3. IsTable(f, Nodes)
    BY <2>1 DEF IsTable
  <2>4. QED
    BY <2>1, <2>2, <2>3, StatIs
<1>6. Wait' = Wait
  BY <1>3, StirredStays
<1>7. QED
  BY <1>5, <1>6, StepStart

\* defuse_and_yeild
LEMMA YieldYields ==
    ASSUME Mapped, RInv, Ids \subseteq Nodes, NEW n \in Ids, R!DefuseAndYield(n)
    PROVE  AbstractTasks!Next
<1>1. nodes \in [Ids -> NodeType] /\ Wired(nodes, list, store) /\ Counted(nodes, list, store)
  BY DEF RInv, Wired, Ids
<1>2. /\ nodes[n].state = "passive"
      /\ \A x \in Ids : nodes'[x].state = IF x # n THEN nodes[x].state
                                          ELSE IF nodes[n].degree = 0 THEN "active" ELSE "ready"
      /\ Stirred
  BY <1>1, RYieldTurns
<1>3. DOMAIN nodes' = Ids /\ n \in Nodes
  BY <1>2 DEF Stirred
<1>4. PICK new : new = IF \A d \in Nodes : Wait[<<d, n>>] = 0 THEN "queued" ELSE "idle"
  OBVIOUS
<1>5. nodes[n].degree = 0 <=> \A d \in Nodes : Wait[<<d, n>>] = 0
  <2>1. nodes[n].degree = 0 <=> \A d \in Nodes : WaitsIn(nodes, list, store, d, n) = 0
    BY <1>1, FreeIs DEF Ids
  <2>2. QED
    BY <2>1, <1>3 DEF Mapped
<1>6. StatusIn(nodes', n) = new
  <2>1. CASE nodes[n].degree = 0
    <3>1. nodes'[n].state = "active" /\ new = "queued"
      BY <2>1, <1>2, <1>4, <1>5
    <3>2. QED
      BY <3>1, <1>3, StatusInIs
  <2>2. CASE nodes[n].degree # 0
    <3>1. nodes'[n].state = "ready" /\ new = "idle"
      BY <2>2, <1>2, <1>4, <1>5
    <3>2. QED
      BY <3>1, <1>3, StatusInIs
  <2>3. QED
    BY <2>1, <2>2
<1>7. Stat' = [Stat EXCEPT ![n] = new]
  <2>1. PICK s : s = Stat
    OBVIOUS
  <2>2. PICK f : f = [s EXCEPT ![n] = new]
    OBVIOUS
  <2>3. IsTable(s, Nodes) /\ \A x \in Nodes : s[x] = StatusIn(nodes, x)
    BY <2>1 DEF Mapped
  <2>4. IsTable(f, Nodes) /\ f[n] = new /\ \A x \in Nodes : x # n => f[x] = s[x]
    BY <2>2, <2>3, <1>3 DEF IsTable
  <2>5. ASSUME NEW x \in Nodes, x # n
        PROVE  StatusIn(nodes', x) = StatusIn(nodes, x)
    BY <2>5, <1>2, <1>3, SameStatus DEF Ids
  <2>6. \A x \in Nodes : f[x] = StatusIn(nodes', x)
    BY <2>3, <2>4, <2>5, <1>6
  <2>7. QED
    BY <2>1, <2>2, <2>4, <2>6, StatIs
<1>8. Wait' = Wait
  BY <1>2, StirredStays
<1>9. Stat[n] = "running"
  BY <1>2, <1>3, StatusInIs DEF Mapped, Ids
<1>10. QED
  BY <1>3, <1>4, <1>7, <1>8, <1>9, StepYield

\* The end of a wave and a new estimate are no steps of the tasks.
LEMMA RestStays ==
    ASSUME Mapped, RInv, EndWave \/ \E e \in Expectations : ReservePerNode(e)
    PROVE  Stat' = Stat /\ Wait' = Wait
<1>1. nodes' = nodes /\ list' = list
  BY DEF EndWave, ReservePerNode
<1>2. \A l, v : Occurrences(l, store', v) = Occurrences(l, store, v)
  <2>1. CASE EndWave
    BY <2>1 DEF EndWave
  <2>2. ASSUME NEW e \in Expectations, ReservePerNode(e)
        PROVE  \A l, v : Occurrences(l, store', v) = Occurrences(l, store, v)
    <3>1. store' = [store EXCEPT !.expected = e] /\ e \in Nat /\ e < 2^MaxClass
      BY <2>2, BoundsAssumption DEF ReservePerNode
    <3>2. Wired(nodes, list, store)
      BY DEF RInv
    <3>3. QED
      BY <3>1, <3>2, EstimateKeepsWired
  <2>3. QED
    BY <2>1, <2>2
<1>3. Stat' = Stat
  <2>1. \A n \in Nodes : StatusIn(nodes', n) = StatusIn(nodes, n)
    BY <1>1
  <2>2. QED
    BY <2>1, StatStays
<1>4. Wait' = Wait
  <2>1. \A d, n \in Nodes : WaitsIn(nodes', list', store', d, n) = WaitsIn(nodes, list, store, d, n)
    BY <1>1, <1>2 DEF WaitsIn
  <2>2. QED
    BY <2>1, WaitStays
<1>5. QED
  BY <1>3, <1>4

\* clear
LEMMA ClearResets ==
    ASSUME Mapped, Clear
    PROVE  AbstractTasks!Next
<1>1. DOMAIN nodes' = {}
  BY DEF Clear
<1>2. Stat' = [n \in Nodes |-> "none"]
  <2>1. PICK f : f = [n \in Nodes |-> "none"]
    OBVIOUS
  <2>2. IsTable(f, Nodes) /\ \A n \in Nodes : f[n] = StatusIn(nodes', n)
    BY <2>1, <1>1, StatusInIs DEF IsTable
  <2>3. QED
    BY <2>1, <2>2, StatIs
<1>3. Wait' = [a \in Nodes \X Nodes |-> 0]
  <2>1. PICK f : f = [a \in Nodes \X Nodes |-> 0]
    OBVIOUS
  <2>2. IsTable(f, Nodes \X Nodes) /\ \A d, n \in Nodes : f[<<d, n>>] = WaitsIn(nodes', list', store', d, n)
    BY <2>1, <1>1 DEF IsTable, WaitsIn
  <2>3. QED
    BY <2>1, <2>2, WaitIs
<1>4. QED
  BY <1>2, <1>3, StepReset

\* defuse_and_free finishes a task.
LEMMA GivenBackFinishes ==
    ASSUME Mapped, RInv, RInv', Ids \subseteq Nodes, NEW n \in Ids, GivenBack(n)
    PROVE  AbstractTasks!Next
<1>1. /\ Wired(nodes, list, store) /\ Counted(nodes, list, store)
      /\ Wired(nodes', list', store') /\ Counted(nodes', list', store')
      /\ nodes \in [Ids -> NodeType] /\ DOMAIN list = Ids /\ n \in Nodes
  BY DEF RInv, Wired, Ids
<1>2. /\ nodes[n].state = "passive" /\ nodes[n].degree = 0
      /\ DOMAIN nodes' = Ids /\ nodes'[n].state = "sentinel"
      /\ \A x \in Ids : x # n =>
           nodes'[x].state = IF nodes[x].state = "ready" /\ Occurrences(list[n], store, x) > 0
                                /\ nodes'[x].degree = 0
                             THEN "active" ELSE nodes[x].state
  BY DEF GivenBack
<1>3. \A x \in Ids : \A v :
        Occurrences(list'[x], store', v) = IF x = n THEN 0 ELSE Occurrences(list[x], store, v)
  BY <1>1 DEF GivenBack, NoEdges
<1>4. PICK left : left = LeftOf(n)
  OBVIOUS
<1>5. IsTable(left, Nodes \X Nodes)
      /\ \A d, m \in Nodes : left[<<d, m>>] = IF d = n THEN 0 ELSE Wait[<<d, m>>]
  <2>1. \A d, m \in Nodes : <<d, m>> \in Nodes \X Nodes /\ <<d, m>>[1] = d
    OBVIOUS
  <2>2. left = [a \in Nodes \X Nodes |-> IF a[1] = n THEN 0 ELSE Wait[a]]
    BY <1>4 DEF LeftOf
  <2>3. IsTable(left, Nodes \X Nodes)
    BY <2>2 DEF IsTable
  <2>4. QED
    BY <2>1, <2>2, <2>3
<1>6. ASSUME NEW d \in Nodes, NEW m \in Nodes
      PROVE  left[<<d, m>>] = WaitsIn(nodes', list', store', d, m)
  <2>1. Wait[<<d, m>>] = WaitsIn(nodes, list, store, d, m)
    BY DEF Mapped
  <2>2. CASE d \in Ids /\ m \in Ids
    <3>1. WaitsIn(nodes', list', store', d, m) = IF d = n THEN 0 ELSE Occurrences(list[d], store, m)
      BY <2>2, <1>2, <1>3 DEF WaitsIn
    <3>2. WaitsIn(nodes, list, store, d, m) = Occurrences(list[d], store, m)
      BY <2>2 DEF WaitsIn, Ids
    <3>3. QED
      BY <3>1, <3>2, <2>1, <1>5
  <2>3. CASE ~(d \in Ids /\ m \in Ids)
    <3>1. WaitsIn(nodes', list', store', d, m) = 0 /\ WaitsIn(nodes, list, store, d, m) = 0
      BY <2>3, <1>2 DEF WaitsIn, Ids
    <3>2. QED
      BY <3>1, <2>1, <1>5
  <2>4. QED
    BY <2>2, <2>3
<1>7. Wait' = LeftOf(n)
  BY <1>4, <1>5, <1>6, WaitIs
<1>8. \A d \in Nodes : Wait[<<d, n>>] = 0
  <2>1. \A d \in Nodes : WaitsIn(nodes, list, store, d, n) = 0
    BY <1>1, <1>2, FreeIs DEF Ids
  <2>2. QED
    BY <2>1, <1>1 DEF Mapped
<1>9. Stat[n] = "running"
  BY <1>1, <1>2, StatusInIs DEF Mapped, Ids
<1>10. ASSUME NEW x \in Nodes, x \in Ids
       PROVE  x \in FreedBy(n) <=> /\ nodes[x].state = "ready" /\ Occurrences(list[n], store, x) > 0
                                   /\ nodes'[x].degree = 0
  <2>1. Wait[<<n, x>>] = Occurrences(list[n], store, x)
    BY <1>1, <1>10 DEF Mapped, WaitsIn, Ids
  <2>2. nodes'[x].degree = 0 <=> \A d \in Nodes : left[<<d, x>>] = 0
    <3>1. nodes'[x].degree = 0 <=> \A d \in Nodes : WaitsIn(nodes', list', store', d, x) = 0
      <4>1. PICK nd, ls, st : nd = nodes' /\ ls = list' /\ st = store'
        OBVIOUS
      <4>2. Wired(nd, ls, st) /\ Counted(nd, ls, st) /\ DOMAIN nd \subseteq Nodes /\ x \in DOMAIN nd
        BY <4>1, <1>1, <1>2, <1>10
      <4>3. nd[x].degree = 0 <=> \A d \in Nodes : WaitsIn(nd, ls, st, d, x) = 0
        BY <4>2, FreeIs
      <4>4. QED
        BY <4>1, <4>3
    <3>2. QED
      BY <3>1, <1>6
  <2>3. Stat[x] = "idle" <=> nodes[x].state = "ready"
    <3>1. StatusIn(nodes, x) = "idle" <=> nodes[x].state = "ready"
      BY <1>1, <1>10, StateOfStatus DEF Ids
    <3>2. QED
      BY <3>1 DEF Mapped
  <2>4. QED
    BY <2>1, <2>2, <2>3, <1>4 DEF FreedBy
<1>11. Stat' = [m \in Nodes |-> IF m = n THEN "none" ELSE IF m \in FreedBy(n) THEN "queued" ELSE Stat[m]]
  <2>1. PICK f : f = [m \in Nodes |-> IF m = n THEN "none" ELSE IF m \in FreedBy(n) THEN "queued" ELSE Stat[m]]
    OBVIOUS
  <2>2. ASSUME NEW x \in Nodes
        PROVE  f[x] = StatusIn(nodes', x)
    <3>1. CASE x = n
      <4>1. StatusIn(nodes', x) = "none"
        BY <3>1, <1>2, StatusInIs
      <4>2. QED
        BY <4>1, <3>1, <2>1
    <3>2. CASE x # n /\ x \in Ids /\ x \in FreedBy(n)
      <4>1. nodes'[x].state = "active"
        BY <3>2, <1>2, <1>10
      <4>2. StatusIn(nodes', x) = "queued"
        BY <4>1, <3>2, <1>2, StatusInIs
      <4>3. QED
        BY <4>2, <3>2, <2>1
    <3>3. CASE x # n /\ x \in Ids /\ x \notin FreedBy(n)
      <4>1. nodes'[x].state = nodes[x].state
        BY <3>3, <1>2, <1>10
      <4>2. StatusIn(nodes', x) = StatusIn(nodes, x)
        BY <4>1, <3>3, <1>2, SameStatus DEF Ids
      <4>3. QED
        BY <4>2, <3>3, <2>1 DEF Mapped
    <3>4. CASE x \notin Ids
      <4>1. StatusIn(nodes', x) = "none" /\ StatusIn(nodes, x) = "none"
        BY <3>4, <1>2, StatusInIs DEF Ids
      <4>2. x \notin FreedBy(n)
        <5>1. Stat[x] # "idle"
          BY <4>1 DEF Mapped
        <5>2. QED
          BY <5>1 DEF FreedBy
      <4>3. QED
        BY <4>1, <4>2, <3>4, <2>1 DEF Mapped
    <3>5. QED
      BY <3>1, <3>2, <3>3, <3>4
  <2>3. IsTable(f, Nodes)
    BY <2>1 DEF IsTable
  <2>4. QED
    BY <2>1, <2>2, <2>3, StatIs
<1>12. QED
  BY <1>1, <1>7, <1>8, <1>9, <1>11, StepFinish

\* Every step of rdeps.hpp is a step of the abstract tasks, or none.
LEMMA RNextIsTasks ==
    ASSUME part = "rdeps", part' = "rdeps", RInv, R!RNext
    PROVE  AbstractTasks!Next \/ (Stat' = Stat /\ Wait' = Wait)
<1>1. R!Ids = Ids /\ Mapped /\ RInv' /\ Ids \subseteq Nodes /\ Ids' \subseteq 0 .. MaxNodes - 1
  <2>1. RInv'
    BY RNextKeepsRInv
  <2>2. Ids \subseteq Nodes /\ Ids' \subseteq 0 .. MaxNodes - 1
    BY <2>1 DEF RInv, Nodes
  <2>3. QED
    BY <2>1, <2>2, MappedStep DEF R!Ids, Ids
<1>2. CASE R!MakeNode
  BY <1>1, <1>2, RMakeNodeMakes, MadeCreates
<1>3. ASSUME NEW count \in 1 .. RBatch, R!MakeNodes(count)
      PROVE  AbstractTasks!Next
  <2>1. count \in Nat
    BY PartsAssumption
  <2>2. QED
    BY <2>1, <1>1, <1>3, RMakeNodesMakes, MadeCreates
<1>4. CASE \/ \E d \in Ids : \E b \in R!OutBatches(d) : R!MakeEdgesOut(d, b)
           \/ \E n \in Ids : \E b \in R!InBatches(n) : R!MakeEdgesIn(n, b)
  BY <1>1, <1>4, REdgesJoin, JoinedOrders
<1>5. ASSUME NEW n \in Ids, R!DefuseAndFree(n)
      PROVE  AbstractTasks!Next
  BY <1>1, <1>5, RFreeFrees, GivenBackFinishes
<1>6. ASSUME NEW n \in Ids, R!DefuseAndYield(n)
      PROVE  AbstractTasks!Next
  BY <1>1, <1>6, YieldYields
<1>7. ASSUME NEW n \in Ids, R!Query(n)
      PROVE  AbstractTasks!Next
  BY <1>1, <1>7, RSameOperations, QueryQueues
<1>8. CASE R!SeedAllNodes
  BY <1>1, <1>8, RSameOperations, SeedQueues
<1>9. CASE R!BeginWave
  BY <1>1, <1>9, RSameOperations, BeginStarts
<1>10. CASE R!EndWave \/ \E e \in Expectations : R!ReservePerNode(e)
  BY <1>1, <1>10, RSameOperations, RestStays
<1>11. CASE R!Clear
  BY <1>1, <1>11, RSameOperations, ClearResets
<1>12. QED
  BY <1>1, <1>2, <1>3, <1>4, <1>5, <1>6, <1>7, <1>8, <1>9, <1>10, <1>11 DEF R!RNext

-----------------------------------------------------------------------------
(* Edges of udeps.hpp, and the debts they are.                               *)

UAcc(nd, ls, st, ok, ow) == [nodes |-> nd, list |-> ls, store |-> st, ok |-> ok, owed |-> ow]
Alive(nd, x) == nd[x].state # "sentinel"
OwedIn(ow, d, n) == IF <<d, n>> \in DOMAIN ow THEN ow[<<d, n>>] ELSE 0
Owing(ow, ids, n) == [d \in ids |-> OwedIn(ow, d, n)]

\* Between nodes that are alive every edge is a debt, and a node that is alive
\* waits for what is owed to it.
DebtsOf(ow, ids) ==
  DOMAIN ow \subseteq ids \X ids /\ ow = [a \in DOMAIN ow |-> ow[a]] /\ \A a \in DOMAIN ow : ow[a] \in Nat
Debts(nd, ls, st, ow) ==
  /\ DebtsOf(ow, DOMAIN nd)
  /\ \A d, n \in DOMAIN nd : Alive(nd, d) /\ Alive(nd, n) => OwedIn(ow, d, n) = Occurrences(ls[d], st, n)
  /\ \A n \in DOMAIN nd : Alive(nd, n) => nd[n].degree = SumFunction(Owing(ow, DOMAIN nd, n))

\* One more debt of d to n, and an edge that is a debt or not.
DebtMore(ow, d, n) ==
  [a \in DOMAIN ow \cup {<<d, n>>} |->
     (IF a \in DOMAIN ow THEN ow[a] ELSE 0) + (IF a = <<d, n>> THEN 1 ELSE 0)]
Charged(nd, ow, d, n, nd2, ow2) ==
  /\ nd2 \in [DOMAIN nd -> NodeType]
  /\ \A x \in DOMAIN nd : nd2[x].state = nd[x].state /\ (x # n => nd2[x] = nd[x])
  /\ Alive(nd, d) /\ Alive(nd, n) => nd2[n].degree = nd[n].degree + 1 /\ ow2 = DebtMore(ow, d, n)
  /\ ~Alive(nd, d) \/ ~Alive(nd, n) => ow2 = ow /\ (Alive(nd, n) => nd2[n] = nd[n])

\* What is owed is a number.
LEMMA OwedIsNatural ==
    ASSUME NEW ow, NEW ids, DebtsOf(ow, ids)
    PROVE  \A d, n : OwedIn(ow, d, n) \in Nat
  BY DEF DebtsOf, OwedIn

\* With one debt more.
LEMMA DebtMoreIs ==
    ASSUME NEW ow, NEW ids, DebtsOf(ow, ids), NEW d \in ids, NEW n \in ids, NEW ow2, ow2 = DebtMore(ow, d, n)
    PROVE  /\ DebtsOf(ow2, ids)
           /\ \A c, x : OwedIn(ow2, c, x) = OwedIn(ow, c, x) + (IF c = d /\ x = n THEN 1 ELSE 0)
<1>1. PICK p \in ids \X ids : p = <<d, n>>
  OBVIOUS
<1>2. /\ DOMAIN ow2 = DOMAIN ow \cup {p} /\ ow2 = [a \in DOMAIN ow2 |-> ow2[a]]
      /\ \A a \in DOMAIN ow2 : ow2[a] = (IF a \in DOMAIN ow THEN ow[a] ELSE 0) + (IF a = p THEN 1 ELSE 0)
  BY <1>1 DEF DebtMore
<1>3. DOMAIN ow \subseteq ids \X ids /\ \A a \in DOMAIN ow : ow[a] \in Nat
  BY DEF DebtsOf
<1>4. \A a \in DOMAIN ow2 : ow2[a] \in Nat
  BY <1>2, <1>3
<1>5. DebtsOf(ow2, ids)
  BY <1>2, <1>3, <1>4 DEF DebtsOf
<1>6. ASSUME NEW c, NEW x
      PROVE  OwedIn(ow2, c, x) = OwedIn(ow, c, x) + (IF c = d /\ x = n THEN 1 ELSE 0)
  <2>1. PICK a : a = <<c, x>>
    OBVIOUS
  <2>2. a = p <=> c = d /\ x = n
    BY <2>1, <1>1
  <2>3. OwedIn(ow, c, x) = IF a \in DOMAIN ow THEN ow[a] ELSE 0
    BY <2>1 DEF OwedIn
  <2>4. OwedIn(ow2, c, x) = IF a \in DOMAIN ow2 THEN ow2[a] ELSE 0
    BY <2>1 DEF OwedIn
  <2>5. OwedIn(ow, c, x) \in Nat
    BY OwedIsNatural
  <2>6. CASE a = p
    BY <2>2, <2>3, <2>4, <2>5, <2>6, <1>2
  <2>7. CASE a # p
    <3>1. a \in DOMAIN ow2 <=> a \in DOMAIN ow
      BY <2>7, <1>2
    <3>2. a \in DOMAIN ow => ow2[a] = ow[a]
      BY <2>7, <1>2, <1>3
    <3>3. QED
      BY <3>1, <3>2, <2>2, <2>3, <2>4, <2>5, <2>7
  <2>8. QED
    BY <2>6, <2>7
<1>7. QED
  BY <1>5, <1>6

\* An edge keeps this.
LEMMA ChargedKeepsDebts ==
    ASSUME NEW nd, NEW ls, NEW st, Wired(nd, ls, st), NEW ow, Debts(nd, ls, st, ow),
           NEW d \in DOMAIN nd, NEW n \in DOMAIN nd,
           NEW ls2, NEW st2, OneEdge(ls, st, ls2, st2, d, n),
           NEW nd2, NEW ow2, Charged(nd, ow, d, n, nd2, ow2)
    PROVE  Debts(nd2, ls2, st2, ow2)
<1>1. PICK ids : ids = DOMAIN nd
  OBVIOUS
<1>2. /\ IsFiniteSet(ids) /\ DOMAIN ls = ids /\ Sound(ls, st) /\ nd \in [ids -> NodeType]
      /\ nd2 \in [ids -> NodeType] /\ DOMAIN nd2 = ids /\ DebtsOf(ow, ids) /\ d \in ids /\ n \in ids
  BY <1>1, IdsFinite DEF Wired, Debts, Charged
<1>3. /\ \A x \in ids : Alive(nd2, x) <=> Alive(nd, x)
      /\ \A x \in ids : x # n => nd2[x] = nd[x]
      /\ Alive(nd, n) /\ ~Alive(nd, d) => nd2[n] = nd[n]
      /\ Alive(nd, d) /\ Alive(nd, n) => nd2[n].degree = nd[n].degree + 1
  BY <1>1 DEF Charged, Alive
<1>4. \A x \in ids : \A v :
        /\ Occurrences(ls[x], st, v) \in Nat
        /\ Occurrences(ls2[x], st2, v) = Occurrences(ls[x], st, v) + (IF x = d /\ v = n THEN 1 ELSE 0)
  BY <1>2, SoundCounts DEF OneEdge
<1>5. \A c, x : OwedIn(ow, c, x) \in Nat
  BY <1>2, OwedIsNatural
<1>6. /\ DebtsOf(ow2, ids)
      /\ Alive(nd, d) /\ Alive(nd, n) =>
           \A c, x : OwedIn(ow2, c, x) = OwedIn(ow, c, x) + (IF c = d /\ x = n THEN 1 ELSE 0)
      /\ ~Alive(nd, d) \/ ~Alive(nd, n) => ow2 = ow
  <2>1. CASE Alive(nd, d) /\ Alive(nd, n)
    <3>1. ow2 = DebtMore(ow, d, n)
      BY <2>1 DEF Charged
    <3>2. QED
      BY <3>1, <2>1, <1>2, DebtMoreIs
  <2>2. CASE ~(Alive(nd, d) /\ Alive(nd, n))
    <3>1. ow2 = ow
      BY <2>2 DEF Charged
    <3>2. QED
      BY <3>1, <2>2, <1>2
  <2>3. QED
    BY <2>1, <2>2
<1>7. ASSUME NEW c \in ids, NEW x \in ids, Alive(nd, c), Alive(nd, x)
      PROVE  OwedIn(ow2, c, x) = Occurrences(ls2[c], st2, x)
  <2>1. OwedIn(ow, c, x) = Occurrences(ls[c], st, x)
    BY <1>1, <1>7 DEF Debts
  <2>2. CASE Alive(nd, d) /\ Alive(nd, n)
    <3>1. OwedIn(ow2, c, x) = OwedIn(ow, c, x) + (IF c = d /\ x = n THEN 1 ELSE 0)
      BY <2>2, <1>6
    <3>2. QED
      BY <3>1, <2>1, <1>4
  <2>3. CASE ~(Alive(nd, d) /\ Alive(nd, n))
    <3>1. ~(c = d /\ x = n)
      BY <2>3, <1>7
    <3>2. Occurrences(ls2[c], st2, x) = Occurrences(ls[c], st, x)
      BY <3>1, <1>4
    <3>3. QED
      BY <3>2, <2>1, <2>3, <1>6
  <2>4. QED
    BY <2>2, <2>3
<1>8. ASSUME NEW x \in ids, Alive(nd, x)
      PROVE  nd2[x].degree = SumFunction(Owing(ow2, ids, x))
  <2>1. PICK f : f = Owing(ow, ids, x)
    OBVIOUS
  <2>2. PICK h : h = Owing(ow2, ids, x)
    OBVIOUS
  <2>3. /\ ids = DOMAIN f /\ ids = DOMAIN h /\ f = [c \in ids |-> f[c]] /\ h = [c \in ids |-> h[c]]
        /\ \A c \in ids : f[c] = OwedIn(ow, c, x) /\ h[c] = OwedIn(ow2, c, x)
    BY <2>1, <2>2 DEF Owing
  <2>4. nd[x].degree = SumFunction(f)
    BY <1>1, <1>8, <2>1 DEF Debts
  <2>5. CASE Alive(nd, d) /\ x = n
    <3>1. \A c \in ids : h[c] = f[c] + (IF c = d THEN 1 ELSE 0)
      BY <2>3, <2>5, <1>6, <1>8
    <3>2. \A c \in ids : f[c] \in Nat /\ h[c] \in Nat /\ (c # d => h[c] = f[c])
      BY <3>1, <2>3, <1>5
    <3>3. Integers(f, ids) /\ Integers(h, ids) /\ AlikeBut(f, h, ids, d)
      BY <3>2 DEF Integers, AlikeBut
    <3>4. SumFunction(f) \in Int /\ SumFunction(h) = SumFunction(f) + (h[d] - f[d])
      BY <3>3, <2>3, <1>2, SumChanged
    <3>5. h[d] = f[d] + 1 /\ f[d] \in Nat
      BY <3>1, <3>2, <1>2
    <3>6. SumFunction(h) = SumFunction(f) + 1
      BY <3>4, <3>5
    <3>7. nd2[x].degree = nd[x].degree + 1
      BY <2>5, <1>3, <1>8
    <3>8. QED
      BY <3>6, <3>7, <2>2, <2>4
  <2>6. CASE ~(Alive(nd, d) /\ x = n)
    <3>1. \A c \in ids : OwedIn(ow2, c, x) = OwedIn(ow, c, x)
      <4>1. CASE Alive(nd, d) /\ Alive(nd, n)
        <5>1. x # n
          BY <4>1, <2>6
        <5>2. \A c \in ids : OwedIn(ow2, c, x) = OwedIn(ow, c, x) + 0
          BY <5>1, <4>1, <1>6
        <5>3. QED
          BY <5>2, <1>5
      <4>2. CASE ~(Alive(nd, d) /\ Alive(nd, n))
        BY <4>2, <1>6
      <4>3. QED
        BY <4>1, <4>2
    <3>2. h = f
      BY <3>1, <2>3
    <3>3. nd2[x] = nd[x]
      BY <2>6, <1>3, <1>8
    <3>4. QED
      BY <3>2, <3>3, <2>2, <2>4
  <2>7. QED
    BY <2>5, <2>6
<1>9. \A c, x \in ids : Alive(nd2, c) /\ Alive(nd2, x) => OwedIn(ow2, c, x) = Occurrences(ls2[c], st2, x)
  BY <1>3, <1>7
<1>10. \A x \in ids : Alive(nd2, x) => nd2[x].degree = SumFunction(Owing(ow2, ids, x))
  BY <1>3, <1>8
<1>11. QED
  BY <1>2, <1>6, <1>9, <1>10 DEF Debts

\* One edge of udeps.hpp in the accumulator.
LEMMA MadeEdgeIs ==
    ASSUME NEW nd, NEW ls, NEW st, NEW ok, NEW ow, NEW d \in DOMAIN nd, NEW n, NEW later, NEW ls2, NEW st2,
           Stores(nd, ls, st, ok, d, n, later, ls2, st2), NEW acc, acc = UAcc(nd, ls, st, ok, ow)
    PROVE  \E nd2, ok2, ow2 : /\ Charged(nd, ow, d, n, nd2, ow2)
                              /\ MadeEdge(acc, d, n, later) = UAcc(nd2, ls2, st2, ok2, ow2)
<1>1. PICK q : q = PushedBackOf(ls[d], st, n, later) /\ Relisted(ls, d, q.list, ls2) /\ st2 = q.store
  BY DEF Stores
<1>2. acc.nodes = nd /\ acc.list = ls /\ acc.store = st
      /\ acc = [nodes |-> nd, list |-> ls, store |-> st, ok |-> ok, owed |-> ow]
  BY DEF UAcc
<1>3. ls2 = [acc.list EXCEPT ![d] = q.list]
  BY <1>1, <1>2 DEF Relisted
<1>4. PICK mid : mid = Connected(acc, d, n, later)
  OBVIOUS
<1>5. mid = [nodes |-> nd, list |-> ls2, store |-> st2, ok |-> ok, owed |-> ow]
  <2>1. PushedBackOf(acc.list[d], acc.store, n, later) = q
    BY <1>1, <1>2
  <2>2. mid = [[acc EXCEPT !.list = [acc.list EXCEPT ![d] = q.list]] EXCEPT !.store = q.store]
    BY <2>1, <1>4 DEF Connected, WithList
  <2>3. mid = [[acc EXCEPT !.list = ls2] EXCEPT !.store = st2]
    BY <2>2, <1>1, <1>3
  <2>4. PICK a2 : a2 = [acc EXCEPT !.list = ls2]
    OBVIOUS
  <2>5. a2 = [nodes |-> nd, list |-> ls2, store |-> st, ok |-> ok, owed |-> ow]
    BY <2>4, <1>2
  <2>6. [a2 EXCEPT !.store = st2] = [nodes |-> nd, list |-> ls2, store |-> st2, ok |-> ok, owed |-> ow]
    BY <2>5
  <2>7. QED
    BY <2>3, <2>4, <2>6
<1>6. PICK was : was = nd[n]
  OBVIOUS
<1>7. /\ n \in DOMAIN nd /\ nd \in [DOMAIN nd -> NodeType]
      /\ was = [state |-> was.state, degree |-> was.degree] /\ was \in NodeType
      /\ was.degree \in Nat /\ was.state \in {"sentinel", "ready", "active", "passive"}
  BY <1>6, NodeIs DEF Stores, NodesAt
<1>8. PICK now : now = IF IsSentinel(nd[d]) THEN was
                       ELSE IF ~IsSentinel(nd[d]) /\ IsSentinel(was) THEN Errored(was)
                       ELSE Incremented(was)
  OBVIOUS
<1>9. PICK ok2 : ok2 = ~(~IsSentinel(nd[d]) /\ IsSentinel(was))
  OBVIOUS
<1>10. PICK ow2 : ow2 = IF IsSentinel(nd[d]) \/ (~IsSentinel(nd[d]) /\ IsSentinel(was)) THEN ow
                        ELSE DebtMore(ow, d, n)
  OBVIOUS
<1>11. PICK nd2 : nd2 = [nd EXCEPT ![n] = now]
  OBVIOUS
<1>12. MadeEdge(acc, d, n, later) = UAcc(nd2, ls2, st2, ok2, ow2)
  <2>1. mid.nodes = nd /\ mid.owed = ow
    BY <1>5
  <2>2. MadeEdge(acc, d, n, later)
          = [mid EXCEPT !.nodes[n] = now, !.ok = ok2, !.owed = ow2]
    BY <2>1, <1>2, <1>4, <1>6, <1>8, <1>9, <1>10 DEF MadeEdge, DebtMore
  <2>3. PICK m1 : m1 = [mid EXCEPT !.nodes = [mid.nodes EXCEPT ![n] = now]]
    OBVIOUS
  <2>4. MadeEdge(acc, d, n, later) = [[m1 EXCEPT !.ok = ok2] EXCEPT !.owed = ow2]
    BY <2>2, <2>3
  <2>5. m1 = [mid EXCEPT !.nodes = nd2]
    BY <2>1, <2>3, <1>11
  <2>6. m1 = [nodes |-> nd2, list |-> ls2, store |-> st2, ok |-> ok, owed |-> ow]
    BY <2>5, <1>5
  <2>7. PICK m2 : m2 = [m1 EXCEPT !.ok = ok2]
    OBVIOUS
  <2>8. m2 = [nodes |-> nd2, list |-> ls2, store |-> st2, ok |-> ok2, owed |-> ow]
    BY <2>6, <2>7
  <2>9. [m2 EXCEPT !.owed = ow2] = [nodes |-> nd2, list |-> ls2, store |-> st2, ok |-> ok2, owed |-> ow2]
    BY <2>8
  <2>10. QED
    BY <2>4, <2>7, <2>9 DEF UAcc
<1>13. /\ now \in NodeType /\ now.state = was.state
       /\ Alive(nd, d) /\ Alive(nd, n) => now.degree = was.degree + 1 /\ ow2 = DebtMore(ow, d, n)
       /\ ~Alive(nd, d) \/ ~Alive(nd, n) => ow2 = ow /\ (Alive(nd, n) => now = was)
  <2>1. CASE nd[d].state = "sentinel"
    <3>1. now = was /\ ow2 = ow
      BY <2>1, <1>8, <1>10 DEF IsSentinel
    <3>2. QED
      BY <3>1, <2>1, <1>7 DEF Alive
  <2>2. CASE nd[d].state # "sentinel" /\ was.state = "sentinel"
    <3>1. now = Errored(was) /\ ow2 = ow
      BY <2>2, <1>8, <1>10 DEF IsSentinel
    <3>2. now = [state |-> "sentinel", degree |-> IF was.degree = 0 THEN 1 ELSE was.degree]
      BY <3>1 DEF Errored
    <3>3. now \in NodeType /\ now.state = was.state
      BY <3>2, <2>2, <1>7 DEF NodeType, States
    <3>4. ~Alive(nd, n)
      BY <2>2, <1>6 DEF Alive
    <3>5. QED
      BY <3>1, <3>3, <3>4
  <2>3. CASE nd[d].state # "sentinel" /\ was.state # "sentinel"
    <3>1. now = Incremented(was) /\ ow2 = DebtMore(ow, d, n)
      BY <2>3, <1>8, <1>10 DEF IsSentinel
    <3>2. now = [state |-> was.state, degree |-> was.degree + 1]
      BY <3>1, <1>7 DEF Incremented
    <3>3. now \in NodeType /\ now.state = was.state /\ now.degree = was.degree + 1
      BY <3>2, <1>7 DEF NodeType, States
    <3>4. Alive(nd, n) /\ Alive(nd, d)
      BY <2>3, <1>6 DEF Alive
    <3>5. QED
      BY <3>1, <3>3, <3>4
  <2>4. QED
    BY <2>1, <2>2, <2>3
<1>14. /\ nd2 \in [DOMAIN nd -> NodeType] /\ nd2[n] = now
       /\ \A x \in DOMAIN nd : x # n => nd2[x] = nd[x]
  BY <1>7, <1>11, <1>13
<1>15. \A x \in DOMAIN nd : nd2[x].state = nd[x].state
  BY <1>6, <1>13, <1>14
<1>16. Charged(nd, ow, d, n, nd2, ow2)
  <2>1. Alive(nd, d) /\ Alive(nd, n) => nd2[n].degree = nd[n].degree + 1 /\ ow2 = DebtMore(ow, d, n)
    BY <1>6, <1>13, <1>14
  <2>2. ~Alive(nd, d) \/ ~Alive(nd, n) => ow2 = ow /\ (Alive(nd, n) => nd2[n] = nd[n])
    BY <1>6, <1>13, <1>14
  <2>3. QED
    BY <2>1, <2>2, <1>14, <1>15 DEF Charged
<1>17. QED
  BY <1>12, <1>16

\* What holds after k of the edges.
UMade(k, nd, ls, st, ow) ==
  /\ Wired(nd, ls, st) /\ Debts(nd, ls, st, ow) /\ DOMAIN nd = Ids
  /\ \A x \in Ids : nd[x].state = nodes[x].state /\ Count(ls[x]) <= Count(list[x]) + k

\* Every edge keeps this, and so does a call that has failed.
LEMMA UEdgeMade ==
    ASSUME Wired(nodes, list, store), NEW seq, NEW m \in Nat, Asked(seq, m),
           NEW k \in 1 .. m, NEW j, j = k - 1, NEW nd, NEW ls, NEW st, NEW ow, UMade(j, nd, ls, st, ow),
           NEW ok, NEW acc, acc = UAcc(nd, ls, st, ok, ow)
    PROVE  \E nd2, ls2, st2, ok2, ow2 :
             UMade(k, nd2, ls2, st2, ow2) /\ Round(2, 0, acc, seq[k]) = UAcc(nd2, ls2, st2, ok2, ow2)
<1>1. PICK d \in Ids, n \in Ids, later \in Nat :
        /\ d = seq[k].d /\ n = seq[k].n /\ later = seq[k].later
        /\ Count(list[d]) + k + later <= 2^MaxClass
  BY DEF Asked
<1>2. /\ Wired(nd, ls, st) /\ Debts(nd, ls, st, ow) /\ DOMAIN nd = Ids
      /\ nd \in [DOMAIN nd -> NodeType] /\ DOMAIN ls = Ids /\ Sound(ls, st)
  BY DEF UMade, Wired
<1>3. DOMAIN list = Ids /\ Sound(list, store)
  BY DEF Wired, Ids
<1>4. Round(2, 0, acc, seq[k]) = IF acc.ok THEN MadeEdge(acc, d, n, later) ELSE acc
  <2>1. Round(2, 0, acc, seq[k])
          = IF acc.ok THEN MadeEdge(acc, seq[k].d, seq[k].n, seq[k].later) ELSE acc
    BY RoundIs, Zenon
  <2>2. QED
    BY <2>1, <1>1
<1>5. CASE Round(2, 0, acc, seq[k]) = acc
  <2>1. ASSUME NEW x \in Ids
        PROVE  nd[x].state = nodes[x].state /\ Count(ls[x]) <= Count(list[x]) + k
    <3>1. PICK a \in Nat, b \in Nat : a = Count(ls[x]) /\ b = Count(list[x])
      BY <1>2, <1>3, SoundCounts
    <3>2. a <= b + j
      BY <3>1 DEF UMade
    <3>3. a <= b + k
      BY <3>2
    <3>4. QED
      BY <3>1, <3>3 DEF UMade
  <2>2. UMade(k, nd, ls, st, ow)
    BY <2>1, <1>2 DEF UMade
  <2>3. QED
    BY <2>2, <1>5
<1>6. CASE Round(2, 0, acc, seq[k]) = MadeEdge(acc, d, n, later)
  <2>1. RoomFor(ls[d], later)
    <3>1. PICK a \in Nat, b \in Nat, top \in Nat :
            a = Count(ls[d]) /\ b = Count(list[d]) /\ top = 2^MaxClass
      BY <1>2, <1>3, SoundCounts, ClassPower, ClassAssumption DEF Classes
    <3>2. a <= b + j /\ b + k + later <= top
      BY <3>1, <1>1 DEF UMade
    <3>3. a + later + 1 <= top
      BY <3>2
    <3>4. QED
      BY <3>1, <3>3 DEF RoomFor
  <2>2. PICK q : q = PushedBackOf(ls[d], st, n, later)
    OBVIOUS
  <2>3. PICK ls2 : ls2 = [ls EXCEPT ![d] = q.list]
    OBVIOUS
  <2>4. PICK st2 : st2 = q.store
    OBVIOUS
  <2>5. OneEdge(ls, st, ls2, st2, d, n)
    BY <2>1, <2>2, <2>3, <2>4, <1>2, EdgeStored DEF Relisted
  <2>6. Stores(nd, ls, st, ok, d, n, later, ls2, st2) /\ d \in DOMAIN nd /\ n \in DOMAIN nd
    BY <2>2, <2>3, <2>4, <1>2 DEF Relisted, NodesAt, Stores
  <2>7. PICK nd2, ok2, ow2 : /\ Charged(nd, ow, d, n, nd2, ow2)
                             /\ MadeEdge(acc, d, n, later) = UAcc(nd2, ls2, st2, ok2, ow2)
    BY <2>6, MadeEdgeIs
  <2>8. nd2 \in [DOMAIN nd -> NodeType] /\ \A x \in DOMAIN nd : nd2[x].state = nd[x].state
    BY <2>7 DEF Charged
  <2>9. Wired(nd2, ls2, st2)
    BY <2>5, <2>6, <2>8, <1>2, EdgeKeepsWired
  <2>10. Debts(nd2, ls2, st2, ow2)
    BY <2>5, <2>6, <2>7, <1>2, ChargedKeepsDebts
  <2>11. ASSUME NEW x \in Ids
         PROVE  nd2[x].state = nodes[x].state /\ Count(ls2[x]) <= Count(list[x]) + k
    <3>1. nd2[x].state = nodes[x].state
      BY <2>8, <1>2 DEF UMade
    <3>2. PICK a \in Nat, b \in Nat : a = Count(ls[x]) /\ b = Count(list[x])
      BY <1>2, <1>3, SoundCounts
    <3>3. a <= b + j
      BY <3>2 DEF UMade
    <3>4. Count(ls2[x]) = a + (IF x = d THEN 1 ELSE 0)
      BY <3>2, <1>2, <2>5 DEF OneEdge
    <3>5. Count(ls2[x]) <= b + k
      BY <3>3, <3>4
    <3>6. QED
      BY <3>1, <3>2, <3>5
  <2>12. DOMAIN nd2 = Ids
    BY <2>8, <1>2
  <2>13. UMade(k, nd2, ls2, st2, ow2)
    BY <2>9, <2>10, <2>11, <2>12 DEF UMade
  <2>14. QED
    BY <2>7, <2>13, <1>6
<1>7. QED
  BY <1>4, <1>5, <1>6

\* All the edges of a call.
LEMMA UEdgesMade ==
    ASSUME Wired(nodes, list, store), Debts(nodes, list, store, owed),
           NEW seq, NEW m \in Nat, DOMAIN seq = 1 .. m, Asked(seq, m)
    PROVE  \E nd, ls, st, ok, ow : UMade(m, nd, ls, st, ow) /\ MadeEdges(seq) = UAcc(nd, ls, st, ok, ow)
<1>1. PICK tr : Looped(2, 0, UCalling, seq, m, tr) /\ MadeEdges(seq) = tr[m]
  BY MadeEdgesLoop
<1>2. PICK yes : yes = TRUE
  OBVIOUS
<1> DEFINE Good == {k \in Nat : k <= m =>
                      \E nd, ls, st, ok, ow : UMade(k, nd, ls, st, ow) /\ tr[k] = UAcc(nd, ls, st, ok, ow)}
<1>3. 0 \in Good
  <2>1. tr[0] = UAcc(nodes, list, store, yes, owed)
    BY <1>1, <1>2 DEF Looped, UAcc, UCalling
  <2>2. DOMAIN list = Ids /\ Sound(list, store)
    BY DEF Wired, Ids
  <2>3. \A x \in Ids : Count(list[x]) \in Nat
    BY <2>2, SoundCounts
  <2>4. \A x \in Ids : Count(list[x]) <= Count(list[x]) + 0
    BY <2>3
  <2>5. UMade(0, nodes, list, store, owed)
    BY <2>4 DEF UMade, Ids
  <2>6. QED
    BY <2>1, <2>5
<1>4. ASSUME NEW j \in Nat, j \in Good
      PROVE  j + 1 \in Good
  <2>1. ASSUME j + 1 <= m
        PROVE  \E nd, ls, st, ok, ow :
                 UMade(j + 1, nd, ls, st, ow) /\ tr[j + 1] = UAcc(nd, ls, st, ok, ow)
    <3>1. PICK k \in 1 .. m : k = j + 1 /\ j = k - 1
      BY <2>1
    <3>2. PICK nd, ls, st, ok, ow : UMade(j, nd, ls, st, ow) /\ tr[j] = UAcc(nd, ls, st, ok, ow)
      BY <2>1, <1>4
    <3>3. tr[k] = Round(2, 0, tr[j], seq[k])
      BY <3>1, <1>1 DEF Looped
    <3>4. PICK acc : acc = tr[j]
      OBVIOUS
    <3>5. PICK nd2, ls2, st2, ok2, ow2 :
            UMade(k, nd2, ls2, st2, ow2) /\ Round(2, 0, acc, seq[k]) = UAcc(nd2, ls2, st2, ok2, ow2)
      BY <3>1, <3>2, <3>4, UEdgeMade
    <3>6. QED
      BY <3>1, <3>3, <3>4, <3>5
  <2>2. QED
    BY <2>1
<1> HIDE DEF Good
<1>5. Nat \subseteq Good
  BY <1>3, <1>4, Induction
<1>6. \E nd, ls, st, ok, ow : UMade(m, nd, ls, st, ow) /\ tr[m] = UAcc(nd, ls, st, ok, ow)
  BY <1>5 DEF Good
<1>7. QED
  BY <1>1, <1>6

-----------------------------------------------------------------------------
(* The unordered scheduler.                                                  *)

\* The inductive invariant of udeps.hpp.
UInv ==
  /\ Wired(nodes, list, store) /\ Debts(nodes, list, store, owed) /\ Lined(apply, nodes)

\* What a call of make_edges in udeps.hpp does.
UJoined ==
  /\ Wired(nodes', list', store') /\ Debts(nodes', list', store', owed') /\ DOMAIN nodes' = Ids
  /\ \A x \in Ids : nodes'[x].state = nodes[x].state
  /\ UNCHANGED apply

\* The room udeps.hpp is given.
LEMMA URoom ==
    ASSUME Wired(nodes, list, store), NEW m \in Nat, Room(m)
    PROVE  RoomLeft(m)
<1>1. PICK f : f = Counts
  OBVIOUS
<1>2. MaxEdges \in Nat /\ MaxEdges < 2^MaxClass
  BY BoundsAssumption
<1>3. SumFunction([d \in Ids |-> Count(list[d])]) = SumFunction(f)
  BY <1>1 DEF Counts
<1>4. SumFunction(f) + m <= MaxEdges
  BY <1>3 DEF Room
<1>5. QED
  BY <1>1, <1>2, <1>4, RoomIsLeft

\* The call is over when the accumulator is copied back.
LEMMA UReturned ==
    ASSUME UInv, NEW seq, NEW m \in Nat, DOMAIN seq = 1 .. m, Asked(seq, m), Return(MadeEdges(seq))
    PROVE  UJoined
<1>1. PICK nd, ls, st, ok, ow : UMade(m, nd, ls, st, ow) /\ MadeEdges(seq) = UAcc(nd, ls, st, ok, ow)
  BY UEdgesMade DEF UInv
<1>2. PICK acc : acc = MadeEdges(seq)
  OBVIOUS
<1>3. acc.nodes = nd /\ acc.list = ls /\ acc.store = st /\ acc.owed = ow
  BY <1>1, <1>2 DEF UAcc
<1>4. /\ nodes' = acc.nodes /\ list' = acc.list /\ store' = acc.store /\ owed' = acc.owed
      /\ UNCHANGED apply
  BY <1>2 DEF Return
<1>5. nodes' = nd /\ list' = ls /\ store' = st /\ owed' = ow
  BY <1>3, <1>4
<1>6. QED
  BY <1>1, <1>4, <1>5 DEF UJoined, UMade

\* Both calls of udeps.hpp that make edges.
LEMMA UEdgesJoin ==
    ASSUME UInv,
           \/ \E d \in Ids : \E b \in OutBatches(d) : MakeEdgesOut(d, b)
           \/ \E n \in Ids : \E b \in InBatches(n) : MakeEdgesIn(n, b)
    PROVE  UJoined
<1>1. Wired(nodes, list, store) /\ DOMAIN list = Ids /\ Sound(list, store) /\ MaxBatch \in Nat
  BY BoundsAssumption DEF UInv, Wired, Ids
<1>2. ASSUME NEW d \in Ids, NEW b \in OutBatches(d), MakeEdgesOut(d, b)
      PROVE  UJoined
  <2>1. b \in SeqOf({n \in Ids : <<d, n>> \in Arcs}, MaxBatch)
    BY DEF OutBatches
  <2>2. PICK m \in Nat : m = Len(b) /\ DOMAIN b = 1 .. m
                         /\ \A k \in 1 .. m : b[k] \in {n \in Ids : <<d, n>> \in Arcs}
    BY <2>1, <1>1, BatchIs
  <2>3. OutBatch(d, b, m)
    BY <2>2 DEF OutBatch
  <2>4. PICK seq : seq = EdgesOut(d, b)
    OBVIOUS
  <2>5. Room(m) /\ Return(MadeEdges(seq))
    BY <1>2, <2>2, <2>4 DEF MakeEdgesOut
  <2>6. RoomLeft(m)
    BY <2>5, <1>1, URoom
  <2>7. DOMAIN seq = 1 .. m /\ Asked(seq, m)
    BY <2>3, <2>4, <2>6, <1>1, OutIs
  <2>8. QED
    BY <2>5, <2>7, UReturned
<1>3. ASSUME NEW n \in Ids, NEW b \in InBatches(n), MakeEdgesIn(n, b)
      PROVE  UJoined
  <2>1. b \in SeqOf({d \in Ids : <<d, n>> \in Arcs}, MaxBatch)
    BY DEF InBatches
  <2>2. PICK m \in Nat : m = Len(b) /\ DOMAIN b = 1 .. m
                         /\ \A k \in 1 .. m : b[k] \in {d \in Ids : <<d, n>> \in Arcs}
    BY <2>1, <1>1, BatchIs
  <2>3. InBatch(n, b, m)
    BY <2>2 DEF InBatch
  <2>4. PICK seq : seq = EdgesIn(n, b)
    OBVIOUS
  <2>5. Room(m) /\ Return(MadeEdges(seq))
    BY <1>3, <2>2, <2>4 DEF MakeEdgesIn
  <2>6. RoomLeft(m)
    BY <2>5, <1>1, URoom
  <2>7. DOMAIN seq = 1 .. m /\ Asked(seq, m)
    BY <2>3, <2>4, <2>6, <1>1, InIs
  <2>8. QED
    BY <2>5, <2>7, UReturned
<1>4. QED
  BY <1>2, <1>3

\* They keep the invariant.
LEMMA JoinedKeepsUInv ==
    ASSUME UInv, UJoined
    PROVE  UInv'
<1>1. /\ Wired(nodes', list', store') /\ Debts(nodes', list', store', owed')
      /\ DOMAIN nodes' = Ids /\ apply' = apply
      /\ \A x \in Ids : nodes'[x].state = nodes[x].state
  BY DEF UJoined
<1>2. Lined(apply', nodes')
  BY <1>1 DEF UInv, Lined, Ids
<1>3. QED
  BY <1>1, <1>2 DEF UInv

\* Where only states change and nobody dies or comes to life, the debts stay.
LEMMA StirredKeepsUInv ==
    ASSUME UInv, Stirred, Lined(apply', nodes'), UNCHANGED owed
    PROVE  UInv'
<1>1. /\ nodes' \in [Ids -> NodeType] /\ DOMAIN nodes' = Ids
      /\ \A x \in Ids : /\ nodes'[x].degree = nodes[x].degree
                        /\ (nodes'[x].state = "sentinel") = (nodes[x].state = "sentinel")
      /\ list' = list /\ store' = store /\ owed' = owed
  BY DEF Stirred
<1>2. Wired(nodes', list', store')
  BY <1>1, StatesKeepWired DEF UInv, Ids
<1>3. Debts(nodes', list', store', owed')
  BY <1>1 DEF UInv, Debts, Alive, Ids
<1>4. QED
  BY <1>2, <1>3 DEF UInv

\* make_nodes: more nodes, whose lists are empty, and no debts.
UMore(state) ==
  /\ Extends(nodes, list, nodes', list')
  /\ \A x \in DOMAIN nodes' : IF x \in Ids THEN nodes'[x] = nodes[x]
                              ELSE nodes'[x].state = state /\ nodes'[x].degree = 0
  /\ UNCHANGED <<store, apply, owed>>

LEMMA UMakeNodesMakes ==
    ASSUME Wired(nodes, list, store), NEW count \in Nat, NEW complete, MakeNodes(count, complete)
    PROVE  \E state \in {"sentinel", "ready"} : UMore(state)
<1>1. PICK state \in {"sentinel", "ready"} : state = IF complete THEN "sentinel" ELSE "ready"
  OBVIOUS
<1>2. PICK node : node = [state |-> state, degree |-> 0]
  OBVIOUS
<1>3. node = [FreshNode EXCEPT !.state = IF complete THEN "sentinel" ELSE @]
  BY <1>1, <1>2 DEF FreshNode
<1>4. /\ nodes' = GrownNodes(count, node) /\ list' = GrownLists(count)
      /\ UNCHANGED <<store, apply, owed>>
  BY <1>3 DEF MakeNodes
<1>5. Cardinality(Ids) \in Nat /\ Ids = 0 .. Cardinality(Ids) - 1 /\ nodes \in [Ids -> NodeType]
  BY IdsFinite DEF Ids, Wired
<1>6. PICK size \in Nat : size = Cardinality(Ids) + count
  BY <1>5
<1>7. 0 .. size - 1 = 0 .. Cardinality(Ids) + count - 1 /\ Ids \subseteq 0 .. size - 1
  BY <1>5, <1>6
<1>8. nodes' = [i \in 0 .. size - 1 |-> IF i \in Ids THEN nodes[i] ELSE node]
  BY <1>4, <1>7 DEF GrownNodes
<1>9. list' = [i \in 0 .. size - 1 |-> IF i \in Ids THEN list[i] ELSE NoList]
  BY <1>4, <1>7 DEF GrownLists
<1>10. node \in NodeType /\ node.state = state /\ node.degree = 0
  BY <1>1, <1>2 DEF NodeType, States
<1>11. nodes' \in [0 .. size - 1 -> NodeType]
  BY <1>5, <1>8, <1>10
<1>12. DOMAIN nodes' = 0 .. size - 1 /\ DOMAIN list' = 0 .. size - 1
  BY <1>8, <1>9
<1>13. Extends(nodes, list, nodes', list')
  <2>1. \A x \in 0 .. size - 1 : list'[x] = IF x \in Ids THEN list[x] ELSE NoList
    BY <1>9
  <2>2. list' = [n \in DOMAIN list' |-> list'[n]]
    BY <1>9
  <2>3. QED
    BY <2>1, <2>2, <1>7, <1>11, <1>12 DEF Extends, Ids
<1>14. \A x \in DOMAIN nodes' : IF x \in Ids THEN nodes'[x] = nodes[x]
                                ELSE nodes'[x].state = state /\ nodes'[x].degree = 0
  BY <1>8, <1>10, <1>12
<1>15. UMore(state)
  BY <1>4, <1>13, <1>14 DEF UMore
<1>16. QED
  BY <1>15

\* New nodes keep the invariant.
LEMMA UMoreKeepsUInv ==
    ASSUME UInv, NEW state \in {"sentinel", "ready"}, UMore(state)
    PROVE  UInv'
<1>1. /\ Wired(nodes, list, store) /\ Debts(nodes, list, store, owed)
      /\ Extends(nodes, list, nodes', list')
      /\ UNCHANGED <<store, apply, owed>>
  BY DEF UInv, UMore
<1>2. PICK ids : ids = Ids
  OBVIOUS
<1>3. PICK all : all = DOMAIN nodes'
  OBVIOUS
<1>4. /\ Wired(nodes', list', store')
      /\ \A d, n \in all :
           Occurrences(list'[d], store', n) = IF d \in ids /\ n \in ids THEN Occurrences(list[d], store, n) ELSE 0
  <2>1. PICK nd2 : nd2 = nodes'
    OBVIOUS
  <2>2. PICK ls2 : ls2 = list'
    OBVIOUS
  <2>3. /\ Wired(nd2, ls2, store)
        /\ \A d, n \in DOMAIN nd2 :
             Occurrences(ls2[d], store, n) = IF d \in DOMAIN nodes /\ n \in DOMAIN nodes
                                             THEN Occurrences(list[d], store, n) ELSE 0
    BY <2>1, <2>2, <1>1, ExtendsKeepsWired
  <2>4. QED
    BY <2>1, <2>2, <2>3, <1>1, <1>2, <1>3 DEF Ids
<1>5. /\ IsFiniteSet(ids) /\ IsFiniteSet(all) /\ ids \subseteq all /\ Ids = ids
      /\ DebtsOf(owed, ids)
  BY <1>1, <1>2, <1>3, <1>4, IdsFinite DEF Extends, Debts, Ids
<1>6. DebtsOf(owed, all)
  <2>1. ids \X ids \subseteq all \X all
    BY <1>5
  <2>2. QED
    BY <2>1, <1>5 DEF DebtsOf
<1>7. \A d, n : OwedIn(owed, d, n) \in Nat
  BY <1>5, OwedIsNatural
<1>8. \A d, n : ~(d \in ids /\ n \in ids) => OwedIn(owed, d, n) = 0
  <2>1. ASSUME NEW d, NEW n, ~(d \in ids /\ n \in ids)
        PROVE  OwedIn(owed, d, n) = 0
    <3>1. <<d, n>> \notin ids \X ids
      BY <2>1
    <3>2. <<d, n>> \notin DOMAIN owed
      BY <3>1, <1>5 DEF DebtsOf
    <3>3. QED
      BY <3>2 DEF OwedIn
  <2>2. QED
    BY <2>1
<1>9. \A x \in all : IF x \in ids THEN nodes'[x] = nodes[x]
                     ELSE nodes'[x].state = state /\ nodes'[x].degree = 0
  BY <1>2, <1>3 DEF UMore
<1>10. ASSUME NEW d \in all, NEW n \in all, Alive(nodes', d), Alive(nodes', n)
       PROVE  OwedIn(owed, d, n) = Occurrences(list'[d], store', n)
  <2>1. CASE d \in ids /\ n \in ids
    <3>1. Alive(nodes, d) /\ Alive(nodes, n)
      BY <2>1, <1>9, <1>10 DEF Alive
    <3>2. OwedIn(owed, d, n) = Occurrences(list[d], store, n)
      BY <3>1, <2>1, <1>1, <1>2 DEF Debts, Ids
    <3>3. QED
      BY <3>2, <2>1, <1>4
  <2>2. CASE ~(d \in ids /\ n \in ids)
    BY <2>2, <1>4, <1>8
  <2>3. QED
    BY <2>1, <2>2
<1>11. ASSUME NEW n \in all, Alive(nodes', n)
       PROVE  nodes'[n].degree = SumFunction(Owing(owed, all, n))
  <2>1. PICK h : h = Owing(owed, all, n)
    OBVIOUS
  <2>2. DOMAIN h = all /\ \A d \in all : h[d] = OwedIn(owed, d, n)
    BY <2>1 DEF Owing
  <2>3. CASE n \in ids
    <3>1. PICK f : f = Owing(owed, ids, n)
      OBVIOUS
    <3>2. DOMAIN f = ids /\ \A d \in ids : f[d] = OwedIn(owed, d, n)
      BY <3>1 DEF Owing
    <3>3. Integers(f, ids)
      BY <3>2, <1>7 DEF Integers
    <3>4. \A d \in all : h[d] = IF d \in ids THEN f[d] ELSE 0
      BY <2>2, <3>2, <1>8
    <3>5. SumFunction(h) = SumFunction(f)
      BY <1>5, <2>2, <3>2, <3>3, <3>4, SumExtended
    <3>6. Alive(nodes, n) /\ nodes'[n] = nodes[n]
      BY <2>3, <1>9, <1>11 DEF Alive
    <3>7. nodes[n].degree = SumFunction(f)
      BY <3>1, <3>6, <2>3, <1>1, <1>2 DEF Debts, Ids
    <3>8. QED
      BY <3>5, <3>6, <3>7, <2>1
  <2>4. CASE n \notin ids
    <3>1. \A d \in all : h[d] = 0
      BY <2>2, <2>4, <1>8
    <3>2. SumFunction(h) = 0
      BY <3>1, <2>2, <1>5, SumOfZeros
    <3>3. QED
      BY <3>2, <2>1, <2>4, <1>9
  <2>5. QED
    BY <2>3, <2>4
<1>12. Debts(nodes', list', store', owed')
  BY <1>1, <1>3, <1>6, <1>10, <1>11 DEF Debts
<1>13. Lined(apply', nodes')
  <2>1. apply \in Seq(ids) /\ \A x \in ids : Contains(apply, x) <=> nodes[x].state = "active"
    BY <1>2 DEF UInv, Lined, Ids
  <2>2. apply \in Seq(all)
    <3>1. apply \in [1 .. Len(apply) -> ids] /\ Len(apply) \in Nat
      BY <2>1
    <3>2. apply \in [1 .. Len(apply) -> all]
      BY <3>1, <1>5
    <3>3. QED
      BY <3>1, <3>2
  <2>3. ASSUME NEW x \in all
        PROVE  Contains(apply, x) <=> nodes'[x].state = "active"
    <3>1. CASE x \in ids
      BY <3>1, <2>1, <1>9
    <3>2. CASE x \notin ids
      <4>1. nodes'[x].state # "active"
        BY <3>2, <1>9
      <4>2. ~Contains(apply, x)
        BY <3>2, <2>1 DEF Contains
      <4>3. QED
        BY <4>1, <4>2
    <3>3. QED
      BY <3>1, <3>2
  <2>4. QED
    BY <2>2, <2>3, <1>1, <1>3 DEF Lined
<1>14. QED
  BY <1>4, <1>12, <1>13 DEF UInv

\* The end of a wave and a new estimate keep it.
LEMMA URestKeepsUInv ==
    ASSUME UInv, UNCHANGED owed, EndWave \/ \E e \in Expectations : ReservePerNode(e)
    PROVE  UInv'
<1>1. CASE EndWave
  BY <1>1 DEF EndWave, UInv
<1>2. ASSUME NEW e \in Expectations, ReservePerNode(e)
      PROVE  UInv'
  <2>1. store' = [store EXCEPT !.expected = e] /\ UNCHANGED <<nodes, list, apply>>
    BY <1>2 DEF ReservePerNode
  <2>2. e \in Nat /\ e < 2^MaxClass
    BY BoundsAssumption
  <2>3. Wired(nodes, list, store') /\ \A l, v : Occurrences(l, store', v) = Occurrences(l, store, v)
    <3>1. PICK st2 : st2 = store'
      OBVIOUS
    <3>2. Wired(nodes, list, st2) /\ \A l, v : Occurrences(l, st2, v) = Occurrences(l, store, v)
      BY <3>1, <2>1, <2>2, EstimateKeepsWired DEF UInv
    <3>3. QED
      BY <3>1, <3>2
  <2>4. Debts(nodes, list, store', owed)
    BY <2>3 DEF UInv, Debts
  <2>5. QED
    BY <2>1, <2>3, <2>4 DEF UInv
<1>3. QED
  BY <1>1, <1>2

\* Nobody owes anything where there are no nodes.
LEMMA EmptyOwes ==
    ASSUME NEW nd, DOMAIN nd = {}, NEW ow, ow = [a \in {} |-> 0], NEW ls, NEW st
    PROVE  Debts(nd, ls, st, ow)
<1>1. DOMAIN ow = {} /\ ow = [a \in DOMAIN ow |-> ow[a]]
  OBVIOUS
<1>2. QED
  BY <1>1 DEF Debts, DebtsOf

\* clear keeps it.
LEMMA UClearKeepsUInv ==
    ASSUME Clear, owed' = [a \in {} |-> 0]
    PROVE  UInv'
<1>1. PICK nd : nd = [i \in {} |-> FreshNode]
  OBVIOUS
<1>2. PICK ls : ls = [i \in {} |-> NoList]
  OBVIOUS
<1>3. PICK ow : ow = [a \in {} |-> 0]
  OBVIOUS
<1>4. nodes' = nd /\ list' = ls /\ store' = EmptyStore /\ apply' = <<>> /\ owed' = ow
  BY <1>1, <1>2, <1>3 DEF Clear
<1>5. Wired(nd, ls, EmptyStore) /\ Lined(<<>>, nd) /\ DOMAIN nd = {}
  BY <1>1, <1>2, EmptyHolds
<1>6. Debts(nd, ls, EmptyStore, ow)
  BY <1>3, <1>5, EmptyOwes
<1>7. QED
  BY <1>4, <1>5, <1>6 DEF UInv

\* What defuse makes of its node: it goes on, it is stopped, or it is done and
\* pays what it owes.
UResumed(n, now) ==
  /\ now \in NodeType /\ now.degree = nodes[n].degree /\ now.state \in {"ready", "active"}
  /\ nodes' = [nodes EXCEPT ![n] = now]
  /\ apply' = IF now.state = "active" THEN Append(apply, n) ELSE apply
  /\ UNCHANGED <<list, store, free, owed>>
UStopped(n, now) ==
  /\ now \in NodeType /\ now.state = "sentinel"
  /\ nodes' = [nodes EXCEPT ![n] = now]
  /\ UNCHANGED <<apply, list, store, owed>>
UPaid(n, done) ==
  /\ nodes' = done.nodes /\ apply' = done.apply
  /\ owed' = [a \in {b \in DOMAIN owed : b[1] # n} |-> owed[a]]
  /\ UNCHANGED <<list, store>>
Paid(n, q) ==
  PaysOff(q, Disc([nodes EXCEPT ![n] = [state |-> "sentinel", degree |-> 0]], apply),
          ConnectionSeq(list[n]))

LEMMA DefuseTurns ==
    ASSUME nodes \in [Ids -> NodeType], NEW n \in Ids, NEW c \in BOOLEAN, NEW m \in BOOLEAN, NEW q \in BOOLEAN,
           Defuse(n, c, m, q)
    PROVE  /\ nodes[n].state = "passive"
           /\ \/ \E now : UResumed(n, now)
              \/ \E now : UStopped(n, now)
              \/ \E done : done = Paid(n, q) /\ UPaid(n, done)
<1>1. PICK nd : nd = nodes[n]
  OBVIOUS
<1>2. nd = [state |-> nd.state, degree |-> nd.degree] /\ nd.degree \in Nat
  BY <1>1, NodeIs
<1>3. PICK calm : calm = [state |-> IF c THEN "sentinel" ELSE "ready", degree |-> nd.degree]
  OBVIOUS
<1>4. Defused(nd, c) = calm
  BY <1>2, <1>3 DEF Defused
<1>5. PICK me : me = FiredIf(m, calm)
  OBVIOUS
<1>6. PICK written : written = [nodes EXCEPT ![n] = me]
  OBVIOUS
<1>7. PICK queued : queued = IF me.state = "active" THEN Append(apply, n) ELSE apply
  OBVIOUS
<1>8. PICK done : done = PaysOff(q, [nodes |-> written, apply |-> queued], ConnectionSeq(list[n]))
  OBVIOUS
<1>9. nd.state = "passive" /\ UNCHANGED <<list, store, free>>
  BY <1>1 DEF Defuse
<1>10. /\ nodes' = IF c /\ ~IsUnrecoverable(me) THEN done.nodes ELSE written
       /\ apply' = IF c /\ ~IsUnrecoverable(me) THEN done.apply ELSE queued
       /\ owed' = IF c /\ ~IsUnrecoverable(me)
                  THEN [a \in {b \in DOMAIN owed : b[1] # n} |-> owed[a]] ELSE owed
  BY <1>1, <1>4, <1>5, <1>6, <1>7, <1>8 DEF Defuse, PaysOff
<1>11. CASE ~c
  <2>1. calm = [state |-> "ready", degree |-> nd.degree]
    BY <1>3, <1>11
  <2>2. me \in NodeType /\ me.degree = nd.degree /\ me.state \in {"ready", "active"}
    <3>1. CASE m /\ CanTrigger(calm)
      <4>1. me = Fired(calm)
        BY <3>1, <1>5 DEF FiredIf
      <4>2. me = [state |-> "active", degree |-> nd.degree]
        BY <4>1, <2>1 DEF Fired
      <4>3. QED
        BY <4>2, <1>2 DEF NodeType, States
    <3>2. CASE ~(m /\ CanTrigger(calm))
      <4>1. me = calm
        BY <3>2, <1>5 DEF FiredIf
      <4>2. QED
        BY <4>1, <2>1, <1>2 DEF NodeType, States
    <3>3. QED
      BY <3>1, <3>2
  <2>3. UResumed(n, me)
    BY <2>2, <1>1, <1>6, <1>7, <1>9, <1>10, <1>11 DEF UResumed
  <2>4. QED
    BY <2>3, <1>1, <1>9
<1>12. CASE c
  <2>1. calm = [state |-> "sentinel", degree |-> nd.degree]
    BY <1>3, <1>12
  <2>2. me = calm
    <3>1. ~CanTrigger(calm)
      BY <2>1 DEF CanTrigger
    <3>2. QED
      BY <3>1, <1>5 DEF FiredIf
  <2>3. me \in NodeType /\ me.state = "sentinel" /\ me.degree = nd.degree
    BY <2>1, <2>2, <1>2 DEF NodeType, States
  <2>4. queued = apply
    BY <2>3, <1>7
  <2>5. CASE nd.degree # 0
    <3>1. IsUnrecoverable(me)
      BY <2>3, <2>5 DEF IsUnrecoverable, IsSentinel
    <3>2. UStopped(n, me)
      BY <3>1, <2>3, <2>4, <1>6, <1>9, <1>10 DEF UStopped
    <3>3. QED
      BY <3>2, <1>1, <1>9
  <2>6. CASE nd.degree = 0
    <3>1. ~IsUnrecoverable(me)
      BY <2>3, <2>6 DEF IsUnrecoverable
    <3>2. UPaid(n, done)
      BY <3>1, <1>9, <1>10, <1>12 DEF UPaid
    <3>3. done = Paid(n, q)
      <4>1. me = [state |-> "sentinel", degree |-> 0]
        BY <2>1, <2>2, <2>6
      <4>2. [nodes |-> written, apply |-> queued]
              = Disc([nodes EXCEPT ![n] = [state |-> "sentinel", degree |-> 0]], apply)
        BY <4>1, <2>4, <1>6 DEF Disc
      <4>3. QED
        BY <4>2, <1>8 DEF Paid
    <3>4. QED
      BY <3>2, <3>3, <1>1, <1>9
  <2>7. QED
    BY <2>5, <2>6
<1>13. QED
  BY <1>11, <1>12

\* A node that goes on.
LEMMA ResumedKeepsUInv ==
    ASSUME UInv, NEW n \in Ids, nodes[n].state = "passive", NEW now, UResumed(n, now)
    PROVE  UInv'
<1>1. /\ nodes \in [Ids -> NodeType] /\ apply \in Seq(Ids)
      /\ \A x \in Ids : Contains(apply, x) <=> nodes[x].state = "active"
  BY DEF UInv, Wired, Ids, Lined
<1>2. /\ now \in NodeType /\ now.degree = nodes[n].degree /\ now.state \in {"ready", "active"}
      /\ nodes' = [nodes EXCEPT ![n] = now]
      /\ apply' = IF now.state = "active" THEN Append(apply, n) ELSE apply
      /\ UNCHANGED <<list, store, free, owed>>
  BY DEF UResumed
<1>3. nodes' \in [Ids -> NodeType] /\ DOMAIN nodes' = Ids
      /\ \A x \in Ids : nodes'[x] = IF x = n THEN now ELSE nodes[x]
  BY <1>1, <1>2
<1>4. Stirred
  <2>1. \A x \in Ids : /\ nodes'[x].degree = nodes[x].degree
                       /\ (nodes'[x].state = "sentinel") = (nodes[x].state = "sentinel")
    BY <1>2, <1>3
  <2>2. QED
    BY <2>1, <1>2, <1>3 DEF Stirred
<1>5. apply' \in Seq(Ids) /\ \A x : Contains(apply', x) <=> Contains(apply, x)
                                                         \/ (x = n /\ now.state = "active")
  <2>1. CASE now.state = "active"
    BY <2>1, <1>1, <1>2, InAppended
  <2>2. CASE now.state # "active"
    BY <2>2, <1>1, <1>2
  <2>3. QED
    BY <2>1, <2>2
<1>6. \A x \in Ids : Contains(apply', x) <=> nodes'[x].state = "active"
  BY <1>1, <1>3, <1>5
<1>7. Lined(apply', nodes')
  BY <1>3, <1>5, <1>6 DEF Lined
<1>8. QED
  BY <1>2, <1>4, <1>7, StirredKeepsUInv

\* A node that is stopped while others still owe it edges.
LEMMA StoppedKeepsUInv ==
    ASSUME UInv, NEW n \in Ids, nodes[n].state = "passive", NEW now, UStopped(n, now)
    PROVE  UInv'
<1>1. /\ Wired(nodes, list, store) /\ nodes \in [Ids -> NodeType] /\ apply \in Seq(Ids)
      /\ \A x \in Ids : Contains(apply, x) <=> nodes[x].state = "active"
      /\ DebtsOf(owed, Ids)
  BY DEF UInv, Wired, Ids, Lined, Debts
<1>2. /\ now \in NodeType /\ now.state = "sentinel"
      /\ nodes' = [nodes EXCEPT ![n] = now]
      /\ apply' = apply /\ list' = list /\ store' = store /\ owed' = owed
  BY DEF UStopped
<1>3. nodes' \in [Ids -> NodeType] /\ DOMAIN nodes' = Ids
      /\ \A x \in Ids : nodes'[x] = IF x = n THEN now ELSE nodes[x]
  BY <1>1, <1>2
<1>4. Wired(nodes', list', store')
  BY <1>1, <1>2, <1>3, StatesKeepWired DEF Ids
<1>5. \A x \in Ids : Alive(nodes', x) => Alive(nodes, x) /\ nodes'[x] = nodes[x]
  BY <1>2, <1>3 DEF Alive
<1>6. Debts(nodes', list', store', owed')
  <2>1. DOMAIN nodes = Ids /\ Debts(nodes, list, store, owed)
    BY <1>1 DEF UInv
  <2>2. \A d, x \in Ids : Alive(nodes, d) /\ Alive(nodes, x)
           => OwedIn(owed, d, x) = Occurrences(list[d], store, x)
    BY <2>1 DEF Debts
  <2>3. \A x \in Ids : Alive(nodes, x) => nodes[x].degree = SumFunction(Owing(owed, Ids, x))
    BY <2>1 DEF Debts
  <2>4. \A d, x \in Ids : Alive(nodes', d) /\ Alive(nodes', x)
           => OwedIn(owed', d, x) = Occurrences(list'[d], store', x)
    BY <1>2, <1>5, <2>2
  <2>5. \A x \in Ids : Alive(nodes', x) => nodes'[x].degree = SumFunction(Owing(owed', Ids, x))
    BY <1>2, <1>5, <2>3
  <2>6. DebtsOf(owed', Ids) /\ DOMAIN nodes' = Ids
    BY <1>1, <1>2, <1>3
  <2>7. QED
    BY <2>4, <2>5, <2>6 DEF Debts
<1>7. Lined(apply', nodes')
  BY <1>1, <1>2, <1>3 DEF Lined
<1>8. QED
  BY <1>4, <1>6, <1>7 DEF UInv

\* What a node that is alive owes to another is part of what that one waits for.
LEMMA OwedBounded ==
    ASSUME UInv, NEW d \in Ids, NEW x \in Ids, Alive(nodes, d), Alive(nodes, x)
    PROVE  /\ Occurrences(list[d], store, x) = OwedIn(owed, d, x)
           /\ Occurrences(list[d], store, x) <= nodes[x].degree
<1>1. IsFiniteSet(Ids) /\ DebtsOf(owed, Ids)
  BY IdsFinite DEF UInv, Wired, Debts, Ids
<1>2. PICK ids : ids = Ids
  OBVIOUS
<1>3. PICK f : f = Owing(owed, ids, x)
  OBVIOUS
<1>4. ids = DOMAIN f /\ \A c \in ids : f[c] = OwedIn(owed, c, x)
  BY <1>3 DEF Owing
<1>5. \A c \in ids : f[c] \in Nat
  BY <1>1, <1>4, OwedIsNatural
<1>6. \A c \in ids : f[c] <= SumFunction(f)
  BY <1>1, <1>2, <1>4, <1>5, SumNatural
<1>7. nodes[x].degree = SumFunction(f) /\ Occurrences(list[d], store, x) = OwedIn(owed, d, x)
  BY <1>2, <1>3 DEF UInv, Debts, Ids
<1>8. QED
  BY <1>2, <1>4, <1>6, <1>7

\* A node that is done has paid everybody who is alive, and fires who waits
\* for nobody any more if it is asked to.
UDone(n) ==
  /\ nodes' \in [Ids -> NodeType] /\ Lined(apply', nodes') /\ ~Alive(nodes', n)
  /\ \A x \in Ids : Alive(nodes', x) <=> Alive(nodes, x) /\ x # n
  /\ \A x \in Ids : Alive(nodes, x) /\ x # n =>
       nodes'[x].degree + Occurrences(list[n], store, x) = nodes[x].degree
  /\ owed' = [a \in {b \in DOMAIN owed : b[1] # n} |-> owed[a]]
  /\ UNCHANGED <<list, store>>

LEMMA UPaidIsDone ==
    ASSUME UInv, NEW n \in Ids, nodes[n].state = "passive", NEW q \in BOOLEAN,
           NEW done, done = Paid(n, q), UPaid(n, done)
    PROVE  UDone(n)
<1>1. /\ nodes \in [Ids -> NodeType] /\ DOMAIN list = Ids /\ Sound(list, store)
      /\ Named(list, store, Ids) /\ apply \in Seq(Ids)
      /\ \A x \in Ids : Contains(apply, x) <=> nodes[x].state = "active"
  BY DEF UInv, Wired, Ids, Lined
<1>2. PICK l : l = list[n]
  OBVIOUS
<1>3. GoodList(l, store)
  BY <1>1, <1>2, SoundCounts
<1>4. PICK seq : seq = ConnectionSeq(l)
  OBVIOUS
<1>5. PICK m \in Nat : /\ m = Count(l) /\ DOMAIN seq = 1 .. m
                       /\ \A x : Tally(seq, m, x) = Occurrences(l, store, x)
  BY <1>3, <1>4, TallyOfList
<1>6. PICK me : me = [state |-> "sentinel", degree |-> 0]
  OBVIOUS
<1>7. me \in NodeType /\ me.state = "sentinel"
  BY <1>6 DEF NodeType, States
<1>8. PICK nd0 : nd0 = [nodes EXCEPT ![n] = me]
  OBVIOUS
<1>9. /\ nd0 \in [Ids -> NodeType] /\ DOMAIN nd0 = Ids /\ nd0[n] = me
      /\ \A x \in Ids : x # n => nd0[x] = nodes[x]
  BY <1>1, <1>7, <1>8
<1>10. PICK base : base = Disc(nd0, apply)
  OBVIOUS
<1>11. done = PaysOff(q, base, seq)
  BY <1>2, <1>4, <1>6, <1>8, <1>10 DEF Paid
<1>12. PICK tr : Looped(4, q, base, seq, m, tr) /\ done = tr[m]
  BY <1>5, <1>11, DischargedLoop
<1>13. Settling(nd0, apply, seq, m)
  <2>1. \A x \in Ids : Contains(apply, x) <=> nd0[x].state = "active"
    <3>1. nd0[n].state # "active" /\ ~Contains(apply, n)
      BY <1>1, <1>7, <1>9
    <3>2. QED
      BY <3>1, <1>1, <1>9
  <2>2. Lined(apply, nd0)
    BY <2>1, <1>1, <1>9 DEF Lined
  <2>3. ASSUME NEW k \in 1 .. m
        PROVE  seq[k] \in Ids
    <3>1. PICK x : x = seq[k]
      OBVIOUS
    <3>2. k \in {i \in 1 .. m : seq[i] = x}
      BY <3>1
    <3>3. Tally(seq, m, x) # 0
      <4>1. IsFiniteSet({i \in 1 .. m : seq[i] = x})
        <5>1. IsFiniteSet(1 .. m)
          BY <1>5, FS_Interval
        <5>2. {i \in 1 .. m : seq[i] = x} \in SUBSET (1 .. m)
          OBVIOUS
        <5>3. QED
          BY <5>1, <5>2, FS_Subset
      <4>2. QED
        BY <4>1, <3>2, FS_EmptySet DEF Tally
    <3>4. QED
      BY <3>1, <3>3, <1>1, <1>2, <1>5 DEF Named
  <2>4. ASSUME NEW x \in Ids, nd0[x].state # "sentinel"
        PROVE  Tally(seq, m, x) <= nd0[x].degree
    <3>1. x # n
      BY <2>4, <1>7, <1>9
    <3>2. nd0[x] = nodes[x] /\ Alive(nodes, x) /\ Alive(nodes, n)
      BY <2>4, <3>1, <1>9 DEF Alive
    <3>3. Occurrences(l, store, x) <= nodes[x].degree
      BY <3>2, <1>2, OwedBounded
    <3>4. QED
      BY <3>2, <3>3, <1>5
  <2>5. QED
    BY <2>2, <2>3, <2>4, <1>9 DEF Settling
<1>14. PICK fl : fl = IF q THEN 1 ELSE 0
  OBVIOUS
<1>15. PICK nd, ap : tr[m] = Disc(nd, ap) /\ Settled(nd0, seq, m, fl, nd, ap)
  <2>1. Paying(4, q, fl)
    BY <1>14 DEF Paying
  <2>2. QED
    BY <2>1, <1>10, <1>12, <1>13, AllSettled
<1>16. done.nodes = nd /\ done.apply = ap
  BY <1>12, <1>15 DEF Disc
<1>17. /\ nd \in [Ids -> NodeType] /\ Lined(ap, nd)
       /\ \A x \in Ids : nd0[x].state = "sentinel" => nd[x].state = "sentinel"
  BY <1>9, <1>15 DEF Settled
<1>18. \A x \in Ids : nd0[x].state # "sentinel" =>
         /\ nd[x].degree + Occurrences(l, store, x) = nd0[x].degree
         /\ nd[x].state # "sentinel"
  <2>1. \A x \in Ids : nd0[x].state # "sentinel" =>
          /\ nd[x].degree + Tally(seq, m, x) = nd0[x].degree
          /\ nd[x].state = IF fl = 1 /\ nd0[x].state = "ready" /\ Tally(seq, m, x) > 0 /\ nd[x].degree = 0
                           THEN "active" ELSE nd0[x].state
    BY <1>9, <1>15 DEF Settled
  <2>2. QED
    BY <2>1, <1>5
<1>19. nodes' = nd /\ apply' = ap
  BY <1>16 DEF UPaid
<1>20. \A x \in Ids : (nd0[x].state # "sentinel") <=> Alive(nodes, x) /\ x # n
  BY <1>7, <1>9 DEF Alive
<1>21. \A x \in Ids : (nd[x].state # "sentinel") <=> Alive(nodes, x) /\ x # n
  BY <1>17, <1>18, <1>20
<1>22. \A x \in Ids : Alive(nodes', x) <=> Alive(nodes, x) /\ x # n
  BY <1>19, <1>21 DEF Alive
<1>23. \A x \in Ids : Alive(nodes, x) /\ x # n =>
         nodes'[x].degree + Occurrences(list[n], store, x) = nodes[x].degree
  BY <1>2, <1>9, <1>18, <1>19, <1>20
<1>24. QED
  BY <1>17, <1>19, <1>22, <1>23 DEF UDone, UPaid

\* It keeps the invariant: the node owes nothing from now on.
LEMMA DoneKeepsUInv ==
    ASSUME UInv, NEW n \in Ids, Alive(nodes, n), UDone(n)
    PROVE  UInv'
<1>1. PICK ids : ids = Ids
  OBVIOUS
<1>2. PICK ow : ow = owed'
  OBVIOUS
<1>3. /\ Wired(nodes, list, store) /\ DebtsOf(owed, ids) /\ IsFiniteSet(ids) /\ n \in ids
      /\ DOMAIN list = ids /\ Sound(list, store)
  BY <1>1, IdsFinite DEF UInv, Debts, Wired, Ids
<1>4. /\ nodes' \in [ids -> NodeType] /\ DOMAIN nodes' = ids
      /\ list' = list /\ store' = store
      /\ Lined(apply', nodes')
      /\ \A x \in ids : Alive(nodes', x) <=> Alive(nodes, x) /\ x # n
  BY <1>1 DEF UDone
<1>5. \A x \in ids : Alive(nodes, x) /\ x # n =>
        nodes'[x].degree + Occurrences(list[n], store, x) = nodes[x].degree
  BY <1>1 DEF UDone
<1>6. Wired(nodes', list', store')
  BY <1>1, <1>3, <1>4, StatesKeepWired DEF Ids
<1>7. ow = [a \in {b \in DOMAIN owed : b[1] # n} |-> owed[a]]
  BY <1>2 DEF UDone
<1>8. /\ \A a : a \in DOMAIN ow <=> a \in DOMAIN owed /\ a[1] # n
      /\ \A a \in DOMAIN ow : ow[a] = owed[a]
      /\ ow = [a \in DOMAIN ow |-> ow[a]]
  BY <1>7
<1>9. DebtsOf(ow, ids)
  BY <1>3, <1>8 DEF DebtsOf
<1>10. \A d, x : OwedIn(owed, d, x) \in Nat
  BY <1>3, OwedIsNatural
<1>11. ASSUME NEW d, NEW x
       PROVE  OwedIn(ow, d, x) = IF d = n THEN 0 ELSE OwedIn(owed, d, x)
  <2>1. PICK a : a = <<d, x>>
    OBVIOUS
  <2>2. a[1] = d
    BY <2>1
  <2>3. OwedIn(owed, d, x) = IF a \in DOMAIN owed THEN owed[a] ELSE 0
    BY <2>1 DEF OwedIn
  <2>4. OwedIn(ow, d, x) = IF a \in DOMAIN ow THEN ow[a] ELSE 0
    BY <2>1 DEF OwedIn
  <2>5. QED
    BY <2>2, <2>3, <2>4, <1>8
<1>12. ASSUME NEW d \in ids, NEW x \in ids, Alive(nodes', d), Alive(nodes', x)
       PROVE  OwedIn(ow, d, x) = Occurrences(list[d], store, x)
  <2>1. Alive(nodes, d) /\ Alive(nodes, x) /\ d # n
    BY <1>4, <1>12
  <2>2. OwedIn(owed, d, x) = Occurrences(list[d], store, x)
    BY <2>1, <1>1, OwedBounded
  <2>3. QED
    BY <2>1, <2>2, <1>11
<1>13. ASSUME NEW x \in ids, Alive(nodes', x)
       PROVE  nodes'[x].degree = SumFunction(Owing(ow, ids, x))
  <2>1. PICK f : f = Owing(owed, ids, x)
    OBVIOUS
  <2>2. PICK h : h = Owing(ow, ids, x)
    OBVIOUS
  <2>3. /\ ids = DOMAIN f /\ ids = DOMAIN h
        /\ \A c \in ids : f[c] = OwedIn(owed, c, x) /\ h[c] = OwedIn(ow, c, x)
    BY <2>1, <2>2 DEF Owing
  <2>4. \A c \in ids : f[c] \in Nat /\ h[c] \in Nat /\ (c # n => h[c] = f[c])
    BY <2>3, <1>10, <1>11
  <2>5. Integers(f, ids) /\ Integers(h, ids) /\ AlikeBut(f, h, ids, n)
    BY <2>4 DEF Integers, AlikeBut
  <2>6. SumFunction(f) \in Int /\ SumFunction(h) = SumFunction(f) + (h[n] - f[n])
    BY <2>3, <2>5, <1>3, SumChanged
  <2>7. Alive(nodes, x) /\ x # n
    BY <1>4, <1>13
  <2>8. nodes[x].degree = SumFunction(f)
    BY <2>1, <2>7, <1>1 DEF UInv, Debts, Ids
  <2>9. Occurrences(list[n], store, x) = f[n] /\ h[n] = 0 /\ f[n] \in Nat
    BY <2>3, <2>4, <2>7, <1>1, <1>3, <1>11, OwedBounded
  <2>10. nodes'[x].degree + f[n] = nodes[x].degree
    BY <2>7, <2>9, <1>5
  <2>11. nodes'[x].degree \in Nat
    BY <1>4, NodeIs
  <2>12. QED
    BY <2>2, <2>6, <2>8, <2>9, <2>10, <2>11
<1>14. Debts(nodes', list', store', owed')
  BY <1>2, <1>4, <1>9, <1>12, <1>13 DEF Debts
<1>15. QED
  BY <1>4, <1>6, <1>14 DEF UInv

\* Every step of udeps.hpp keeps the invariant.
LEMMA UNextKeepsUInv ==
    ASSUME UInv, UNext
    PROVE  UInv'
<1>1. Wired(nodes, list, store) /\ Lined(apply, nodes) /\ nodes \in [Ids -> NodeType]
  BY DEF UInv, Wired, Ids
<1>2. ASSUME NEW count \in 1 .. MaxBatch, NEW complete \in BOOLEAN, MakeNodes(count, complete)
      PROVE  UInv'
  <2>1. count \in Nat
    BY BoundsAssumption
  <2>2. PICK state \in {"sentinel", "ready"} : UMore(state)
    BY <2>1, <1>1, <1>2, UMakeNodesMakes
  <2>3. QED
    BY <2>2, UMoreKeepsUInv
<1>3. CASE \/ \E d \in Ids : \E b \in OutBatches(d) : MakeEdgesOut(d, b)
           \/ \E n \in Ids : \E b \in InBatches(n) : MakeEdgesIn(n, b)
  BY <1>3, UEdgesJoin, JoinedKeepsUInv
<1>4. ASSUME NEW n \in Ids, NEW c \in BOOLEAN, NEW m \in BOOLEAN, NEW q \in BOOLEAN, Defuse(n, c, m, q)
      PROVE  UInv'
  <2>1. nodes[n].state = "passive"
    BY <1>1, <1>4, DefuseTurns
  <2>2. ASSUME NEW now, UResumed(n, now)
        PROVE  UInv'
    BY <2>1, <2>2, ResumedKeepsUInv
  <2>3. ASSUME NEW now, UStopped(n, now)
        PROVE  UInv'
    BY <2>1, <2>3, StoppedKeepsUInv
  <2>4. ASSUME NEW done, done = Paid(n, q), UPaid(n, done)
        PROVE  UInv'
    <3>1. UDone(n)
      BY <2>1, <2>4, UPaidIsDone
    <3>2. Alive(nodes, n)
      BY <2>1 DEF Alive
    <3>3. QED
      BY <3>1, <3>2, DoneKeepsUInv
  <2>5. QED
    BY <2>2, <2>3, <2>4, <1>1, <1>4, DefuseTurns
<1>5. ASSUME NEW n \in Ids, Query(n), UNCHANGED owed
      PROVE  UInv'
  BY <1>1, <1>5, QueryLines, StirredKeepsUInv
<1>6. CASE SeedAllNodes /\ UNCHANGED owed
  BY <1>1, <1>6, SeedLines, StirredKeepsUInv
<1>7. CASE BeginWave /\ UNCHANGED owed
  BY <1>1, <1>7, BeginLines, StirredKeepsUInv
<1>8. CASE (EndWave \/ \E e \in Expectations : ReservePerNode(e)) /\ UNCHANGED owed
  BY <1>8, URestKeepsUInv
<1>9. CASE Clear /\ owed' = [a \in {} |-> 0]
  BY <1>9, UClearKeepsUInv
<1>10. QED
  BY <1>2, <1>3, <1>4, <1>5, <1>6, <1>7, <1>8, <1>9 DEF UNext

-----------------------------------------------------------------------------
(* The lists on their own.                                                   *)

\* An owner's list names its owner and nobody else.
Owning(ls, st) == \A o \in DOMAIN ls : Occurrences(ls[o], st, o) = Count(ls[o])
LInv == Sound(list, store) /\ Owning(list, store) /\ DOMAIN list = {0, 1} /\ Ids = {0, 1}

\* A push keeps this.
LEMMA PushKeepsOwning ==
    ASSUME NEW ls, NEW st, Sound(ls, st), Owning(ls, st), NEW o \in DOMAIN ls,
           NEW ls2, NEW st2, OneEdge(ls, st, ls2, st2, o, o)
    PROVE  Owning(ls2, st2)
<1>1. /\ DOMAIN ls2 = DOMAIN ls
      /\ \A x \in DOMAIN ls : Count(ls2[x]) = Count(ls[x]) + (IF x = o THEN 1 ELSE 0)
      /\ \A x \in DOMAIN ls : \A v :
           Occurrences(ls2[x], st2, v) = Occurrences(ls[x], st, v) + (IF x = o /\ v = o THEN 1 ELSE 0)
  BY DEF OneEdge
<1>2. ASSUME NEW x \in DOMAIN ls
      PROVE  Occurrences(ls2[x], st2, x) = Count(ls2[x])
  <2>1. PICK a \in Nat : a = Count(ls[x]) /\ a = Occurrences(ls[x], st, x)
    BY SoundCounts DEF Owning
  <2>2. Occurrences(ls2[x], st2, x) = a + (IF x = o THEN 1 ELSE 0)
    BY <2>1, <1>1
  <2>3. QED
    BY <2>1, <2>2, <1>1
<1>3. QED
  BY <1>1, <1>2 DEF Owning

\* Every step of the lists keeps their invariant.
LEMMA LNextKeepsLInv ==
    ASSUME LInv, L!LNext, UNCHANGED nodes
    PROVE  LInv'
<1>1. Sound(list, store) /\ Owning(list, store) /\ DOMAIN list = {0, 1} /\ Ids = {0, 1} /\ Ids' = {0, 1}
  BY DEF LInv, Ids
<1>2. ASSUME NEW o \in {0, 1}, NEW later \in 0 .. ListLength,
             L!Count(list[o]) + later <= ListLength, L!Push(o, later)
      PROVE  LInv'
  <2>1. PICK c \in Nat, top \in Nat : c = Count(list[o]) /\ top = 2^MaxClass
    BY <1>1, SoundCounts, ClassPower, ClassAssumption DEF Classes
  <2>2. later \in Nat /\ ListLength \in Nat /\ ListLength < top
    BY <2>1, PartsAssumption
  <2>3. c + later <= ListLength
    BY <2>1, <1>2, LSameCount
  <2>4. c + later + 1 <= top
    BY <2>2, <2>3
  <2>5. RoomFor(list[o], later)
    BY <2>1, <2>4 DEF RoomFor
  <2>6. PICK q : q = PushedBackOf(list[o], store, o, later)
    OBVIOUS
  <2>7. list' = [list EXCEPT ![o] = q.list] /\ store' = q.store
    BY <2>6, <1>2, LSamePushedBackOf DEF L!Push, L!Return
  <2>8. PICK ls2 : ls2 = list'
    OBVIOUS
  <2>9. OneEdge(list, store, ls2, q.store, o, o)
    BY <2>2, <2>5, <2>6, <2>7, <2>8, <1>1, EdgeStored DEF Relisted
  <2>10. Owning(ls2, q.store) /\ Sound(ls2, q.store) /\ DOMAIN ls2 = {0, 1}
    BY <2>9, <1>1, PushKeepsOwning DEF OneEdge
  <2>11. QED
    BY <2>7, <2>8, <2>10, <1>1 DEF LInv
<1>3. ASSUME NEW o \in {0, 1}, L!Drop(o)
      PROVE  LInv'
  <2>1. PICK p : p = Deleted(list[o], store)
    OBVIOUS
  <2>2. PICK ls2 : ls2 = [list EXCEPT ![o] = NoList]
    OBVIOUS
  <2>3. store' = p /\ list' = ls2
    BY <2>1, <2>2, <1>3, LSameDeleted, LSameNoList DEF L!Drop
  <2>4. NoEdges(list, store, ls2, p, o)
    BY <2>1, <2>2, <1>1, ListDropped DEF Relisted
  <2>5. /\ Sound(ls2, p) /\ DOMAIN ls2 = {0, 1} /\ ls2[o] = NoList
        /\ \A x \in {0, 1} : x # o => ls2[x] = list[x]
        /\ \A x \in {0, 1} : \A v : Occurrences(ls2[x], p, v) = IF x = o THEN 0 ELSE Occurrences(list[x], store, v)
    BY <2>4, <1>1 DEF NoEdges
  <2>6. Owning(ls2, p)
    BY <2>5, <1>1, NobodyNamed DEF Owning
  <2>7. QED
    BY <2>3, <2>5, <2>6, <1>1 DEF LInv
<1>4. ASSUME NEW e \in Estimates, L!Expect(e)
      PROVE  LInv'
  <2>1. e \in Nat /\ e + 1 <= 2^MaxClass
    <3>1. PICK top \in Nat : top = 2^MaxClass
      BY ClassPower, ClassAssumption DEF Classes
    <3>2. e \in Nat /\ e < top
      BY <3>1, PartsAssumption
    <3>3. e + 1 <= top
      BY <3>1, <3>2
    <3>4. QED
      BY <3>1, <3>2, <3>3
  <2>2. PICK st2 : st2 = [store EXCEPT !.expected = e]
    OBVIOUS
  <2>3. store' = st2 /\ list' = list
    BY <2>2, <1>4 DEF L!Expect
  <2>4. Sound(list, st2) /\ st2.cells = store.cells
    BY <2>1, <2>2, <1>1, EstimateKeepsSound
  <2>5. \A l, v : Occurrences(l, st2, v) = Occurrences(l, store, v)
    BY <2>4 DEF Occurrences
  <2>6. Owning(list, st2)
    BY <2>5, <1>1 DEF Owning
  <2>7. QED
    BY <2>3, <2>4, <2>6, <1>1 DEF LInv
<1>5. QED
  BY <1>2, <1>3, <1>4 DEF L!LNext

-----------------------------------------------------------------------------
(* The specification as a whole: one of the three.                           *)

\* The inductive invariant.
MCInv ==
  /\ part \in {"udeps", "rdeps", "lists"}
  /\ part = "udeps" => UInv
  /\ part = "rdeps" => RInv
  /\ part = "lists" => LInv

\* It holds at first.
LEMMA MCInitHolds ==
    ASSUME MCInit
    PROVE  MCInv
<1>1. CASE UInit /\ part \in {"udeps", "rdeps"}
  <2>1. PICK nd : nd = [i \in {} |-> FreshNode]
    OBVIOUS
  <2>2. PICK ls : ls = [i \in {} |-> NoList]
    OBVIOUS
  <2>3. PICK ow : ow = [a \in {} |-> 0]
    OBVIOUS
  <2>4. nodes = nd /\ list = ls /\ store = EmptyStore /\ apply = <<>> /\ free = <<>> /\ owed = ow
    BY <2>1, <2>2, <2>3, <1>1 DEF UInit, Init
  <2>5. /\ Wired(nd, ls, EmptyStore) /\ Counted(nd, ls, EmptyStore) /\ Resting(nd, ls)
        /\ Spare(<<>>, nd) /\ Lined(<<>>, nd) /\ DOMAIN nd = {}
    BY <2>1, <2>2, EmptyHolds
  <2>6. RInv
    BY <2>4, <2>5 DEF RInv, Ids
  <2>7. UInv
    BY <2>3, <2>4, <2>5, EmptyOwes DEF UInv
  <2>8. QED
    BY <2>6, <2>7, <1>1 DEF MCInv
<1>2. CASE L!LInit /\ part = "lists" /\ nodes = [n \in {0, 1} |-> FreshNode]
  <2>1. list = [o \in {0, 1} |-> NoList] /\ store = EmptyStore
    BY <1>2, LSameNoList, LSameEmptyStore DEF L!LInit
  <2>2. DOMAIN list = {0, 1} /\ list = [n \in DOMAIN list |-> list[n]] /\ \A n \in DOMAIN list : list[n] = NoList
    BY <2>1
  <2>3. Sound(list, EmptyStore)
    BY <2>2, EmptySound
  <2>4. Owning(list, EmptyStore)
    BY <2>2, NobodyNamed DEF Owning
  <2>5. Ids = {0, 1}
    BY <1>2 DEF Ids
  <2>6. QED
    BY <2>1, <2>2, <2>3, <2>4, <2>5, <1>2 DEF MCInv, LInv
<1>3. QED
  BY <1>1, <1>2 DEF MCInit

\* Every step keeps it.
LEMMA MCNextKeeps ==
    ASSUME MCInv, [MCNext]_mcVars
    PROVE  MCInv'
<1>1. CASE part = "udeps" /\ UNext /\ UNCHANGED part
  BY <1>1, UNextKeepsUInv DEF MCInv
<1>2. CASE part = "rdeps" /\ R!RNext /\ Aside
  BY <1>2, RNextKeepsRInv DEF MCInv, Aside
<1>3. CASE part = "lists" /\ L!LNext /\ Aside /\ UNCHANGED <<nodes, apply, applied, free>>
  BY <1>3, LNextKeepsLInv DEF MCInv, Aside
<1>4. CASE UNCHANGED mcVars
  <2>1. UNCHANGED <<nodes, list, store, apply, applied, free, owed, part>>
    BY <1>4 DEF mcVars, udepsVars, vars
  <2>2. (UInv => UInv') /\ (RInv => RInv') /\ (LInv => LInv')
    BY <2>1 DEF UInv, RInv, LInv, Ids
  <2>3. QED
    BY <2>1, <2>2 DEF MCInv
<1>5. QED
  BY <1>1, <1>2, <1>3, <1>4 DEF MCNext

\* Every cell of the store belongs to exactly one block, in every state of
\* the two schedulers and of the lists alone.
LEMMA MCInvPartitions ==
    ASSUME MCInv
    PROVE  CellsPartitioned
<1>1. Sound(list, store) /\ DOMAIN list = Ids
  BY DEF MCInv, UInv, RInv, LInv, Wired, Ids
<1>2. QED
  BY <1>1, SoundPartitions

\* The degrees count what is owed ...
LEMMA UInvCounts ==
    ASSUME UInv
    PROVE  DegreeIsOwed
<1>1. \A n \in Ids : Alive(nodes, n) => nodes[n].degree = SumFunction(Owing(owed, Ids, n))
  BY DEF UInv, Debts, Ids
<1>2. ASSUME NEW n
      PROVE  Owing(owed, Ids, n) = [d \in Ids |-> Owed(d, n)]
  BY DEF Owing, OwedIn, Owed
<1>3. QED
  BY <1>1, <1>2 DEF DegreeIsOwed, IsSentinel, Alive

\* ... or the edges.
LEMMA RInvCounts ==
    ASSUME RInv
    PROVE  R!DegreeIsEdges
<1>1. \A n \in Ids : nodes[n].degree = SumFunction(Naming(list, store, Ids, n))
  BY DEF RInv, Counted, Ids
<1>2. R!Ids = Ids
  BY DEF R!Ids, Ids
<1>3. ASSUME NEW n
      PROVE  R!SumFunction([d \in R!Ids |-> R!Occurrences(list[d], store, n)])
               = SumFunction(Naming(list, store, Ids, n))
  BY <1>2, RSameSumFunction, RSameOccurrences DEF Naming
<1>4. QED
  BY <1>1, <1>2, <1>3 DEF R!DegreeIsEdges

\* In every part.
LEMMA MCInvCounts ==
    ASSUME MCInv
    PROVE  EdgesAreCounted
<1>1. part = "udeps" => DegreeIsOwed
  BY UInvCounts DEF MCInv
<1>2. part = "rdeps" => R!DegreeIsEdges
  BY RInvCounts DEF MCInv
<1>3. ASSUME part = "lists"
      PROVE  L!ListsKeepConnections
  <2>1. \A o \in {0, 1} : Occurrences(list[o], store, o) = Count(list[o])
    BY <1>3 DEF MCInv, LInv, Owning
  <2>2. QED
    BY <2>1, LSameOccurrences, LSameCount DEF L!ListsKeepConnections
<1>4. QED
  BY <1>1, <1>2, <1>3 DEF MCInv, EdgesAreCounted

\* At first there are no tasks.
LEMMA InitIsTasks ==
    ASSUME MCInit
    PROVE  AbstractTasks!Init
<1>1. \A n \in Nodes : Status(n) = "none"
  BY DEF MCInit, UInit, Init, Status, Ids
<1>2. \A d, n \in Nodes : Waits(d, n) = 0
  BY DEF MCInit, UInit, Init, Waits, Ids
<1>3. Stat = [n \in Nodes |-> "none"]
  BY <1>1 DEF Stat
<1>4. Wait = [a \in Nodes \X Nodes |-> 0]
  <2>1. \A a \in Nodes \X Nodes : Waits(a[1], a[2]) = 0
    BY <1>2
  <2>2. QED
    BY <2>1 DEF Wait
<1>5. QED
  BY <1>3, <1>4 DEF AbstractTasks!Init, Stat, Wait, Nodes

\* The other parts have no tasks, and a step never leaves its part.
LEMMA NextIsTasks ==
    ASSUME MCInv, [MCNext]_mcVars
    PROVE  AbstractTasks!Next \/ (Stat' = Stat /\ Wait' = Wait)
<1>1. CASE part = "rdeps" /\ R!RNext /\ Aside
  BY <1>1, RNextIsTasks DEF MCInv, Aside
<1>2. CASE part # "rdeps" /\ part' = part
  <2>1. \A n : Status(n) = "none" /\ Status(n)' = "none"
    BY <1>2 DEF Status
  <2>2. \A d, n : Waits(d, n) = 0 /\ Waits(d, n)' = 0
    BY <1>2 DEF Waits
  <2>3. Stat' = Stat
    BY <2>1 DEF Stat, Nodes
  <2>4. Wait' = Wait
    BY <2>2 DEF Wait, Nodes
  <2>5. QED
    BY <2>3, <2>4
<1>3. CASE UNCHANGED mcVars
  <2>1. UNCHANGED <<nodes, list, store, apply, applied, free, owed, part>>
    BY <1>3 DEF mcVars, udepsVars, vars
  <2>2. Stat' = Stat
    BY <2>1 DEF Stat, Status, Ids, Nodes
  <2>3. Wait' = Wait
    BY <2>1 DEF Wait, Waits, Ids, Nodes, Occurrences, Connections, FirstCell, EndCell, Count, Magnitude
  <2>4. QED
    BY <2>2, <2>3
<1>4. CASE part = "udeps" /\ UNext /\ UNCHANGED part
  BY <1>2, <1>4
<1>5. CASE part = "lists" /\ L!LNext /\ Aside
  BY <1>2, <1>5 DEF Aside
<1>6. QED
  BY <1>1, <1>3, <1>4, <1>5 DEF MCNext

-----------------------------------------------------------------------------
(* The theorems.                                                             *)

\* The invariant holds in every state.
LEMMA MCInvHolds == MCSpec => []MCInv
<1>1. MCInit => MCInv
  BY MCInitHolds
<1>2. MCInv /\ [MCNext]_mcVars => MCInv'
  BY MCNextKeeps
<1>3. QED
  BY <1>1, <1>2, PTL DEF MCSpec

\* Every cell of the store belongs to exactly one block: of a node's list, or
\* of the free list of its class (bdeps.hpp, as udeps.hpp and rdeps.hpp use it).
THEOREM CellsArePartitioned == MCSpec => []CellsPartitioned
<1>1. MCInv => CellsPartitioned
  BY MCInvPartitions
<1>2. QED
  BY <1>1, MCInvHolds, PTL

\* The in-degree of a node is the number of edges that still hold it back: in
\* udeps.hpp those its unfinished dependencies owe it, in rdeps.hpp those that
\* the lists name it in; and a list keeps what its owner pushed.
THEOREM EdgesAreCountedRight == MCSpec => []EdgesAreCounted
<1>1. MCInv => EdgesAreCounted
  BY MCInvCounts
<1>2. QED
  BY <1>1, MCInvHolds, PTL

\* rdeps.hpp implements the abstract task graph: a task is queued when its last
\* dependency finishes and never before.
THEOREM RdepsImplementsTasks == MCSpec => ImplementsTasks
<1>1. MCInit => AbstractTasks!Init
  BY InitIsTasks
<1>2. MCInv /\ [MCNext]_mcVars => [AbstractTasks!Next]_<<Stat, Wait>>
  BY NextIsTasks
<1>3. QED
  BY <1>1, <1>2, MCInvHolds, PTL DEF MCSpec, ImplementsTasks, AbstractTasks!Spec, Stat, Wait, Nodes

\* On its own, the unordered scheduler partitions the cells and counts the
\* edges that are owed.
THEOREM UdepsCountsWhatIsOwed == USpec => [](CellsPartitioned /\ DegreeIsOwed)
<1>1. UInit => UInv
  <2>1. SUFFICES ASSUME UInit PROVE UInv
    OBVIOUS
  <2>2. PICK nd : nd = [i \in {} |-> FreshNode]
    OBVIOUS
  <2>3. PICK ls : ls = [i \in {} |-> NoList]
    OBVIOUS
  <2>4. PICK ow : ow = [a \in {} |-> 0]
    OBVIOUS
  <2>5. nodes = nd /\ list = ls /\ store = EmptyStore /\ apply = <<>> /\ owed = ow
    BY <2>1, <2>2, <2>3, <2>4 DEF UInit, Init
  <2>6. Wired(nd, ls, EmptyStore) /\ Lined(<<>>, nd) /\ DOMAIN nd = {}
    BY <2>2, <2>3, EmptyHolds
  <2>7. QED
    BY <2>4, <2>5, <2>6, EmptyOwes DEF UInv
<1>2. UInv /\ [UNext]_udepsVars => UInv'
  <2>1. CASE UNext
    BY <2>1, UNextKeepsUInv
  <2>2. CASE UNCHANGED udepsVars
    BY <2>2 DEF UInv, udepsVars, vars
  <2>3. QED
    BY <2>1, <2>2
<1>3. UInv => CellsPartitioned /\ DegreeIsOwed
  <2>1. SUFFICES ASSUME UInv PROVE CellsPartitioned /\ DegreeIsOwed
    OBVIOUS
  <2>2. CellsPartitioned
    BY <2>1, SoundPartitions DEF UInv, Wired, Ids
  <2>3. DegreeIsOwed
    BY <2>1, UInvCounts
  <2>4. QED
    BY <2>2, <2>3
<1>4. QED
  BY <1>1, <1>2, <1>3, PTL DEF USpec

\* So does the recycling scheduler, where an edge of a node that is gone
\* counts for nobody.
THEOREM RdepsCountsItsEdges == R!RSpec => [](CellsPartitioned /\ R!DegreeIsEdges)
<1>1. R!Init => RInv
  <2>1. SUFFICES ASSUME R!Init PROVE RInv
    OBVIOUS
  <2>2. PICK nd : nd = [i \in {} |-> FreshNode]
    OBVIOUS
  <2>3. PICK ls : ls = [i \in {} |-> NoList]
    OBVIOUS
  <2>4. nodes = nd /\ list = ls /\ store = EmptyStore /\ apply = <<>> /\ free = <<>>
    BY <2>1, <2>2, <2>3, RSameNoList, RSameEmptyStore DEF R!Init, R!FreshNode, FreshNode
  <2>5. /\ Wired(nd, ls, EmptyStore) /\ Counted(nd, ls, EmptyStore) /\ Resting(nd, ls)
        /\ Spare(<<>>, nd) /\ Lined(<<>>, nd) /\ DOMAIN nd = {}
    BY <2>2, <2>3, EmptyHolds
  <2>6. QED
    BY <2>4, <2>5 DEF RInv, Ids
<1>2. RInv /\ [R!RNext]_R!vars => RInv'
  <2>1. CASE RInv /\ R!RNext
    BY <2>1, RNextKeepsRInv
  <2>2. CASE RInv /\ UNCHANGED R!vars
    BY <2>2 DEF RInv, Ids, R!vars
  <2>3. QED
    BY <2>1, <2>2
<1>3. RInv => CellsPartitioned /\ R!DegreeIsEdges
  <2>1. SUFFICES ASSUME RInv PROVE CellsPartitioned /\ R!DegreeIsEdges
    OBVIOUS
  <2>2. CellsPartitioned
    BY <2>1, SoundPartitions DEF RInv, Wired, Ids
  <2>3. R!DegreeIsEdges
    BY <2>1, RInvCounts
  <2>4. QED
    BY <2>2, <2>3
<1>4. QED
  BY <1>1, <1>2, <1>3, PTL DEF R!RSpec
=============================================================================
