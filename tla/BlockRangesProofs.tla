------------------------- MODULE BlockRangesProofs -------------------------
(***************************************************************************)
(* What the operators of BlockRanges.tla compute, for containers of any    *)
(* number of blocks, free in any pattern, and buffers of any size: that    *)
(* RangeFor is what find_bits promises, and that the block counts that     *)
(* GrownCounts and OddCounts settle for fit in the buffer.  Both work down *)
(* or up an index, so the proofs are inductions; the induction principle   *)
(* is that of a set of naturals.                                           *)
(***************************************************************************)
EXTENDS BlockRanges, FiniteSetTheorems, WellFoundedInduction, TLAPS

\* A set of naturals has a least member.
LEMMA SmallestOf ==
    ASSUME NEW T, T \subseteq Nat, T # {}
    PROVE  \E x \in T : \A y \in T : x <= y
<1>0. PICK R : R = OpToRel(<, Nat)
  OBVIOUS
<1>1. IsWellFoundedOn(R, Nat)
  BY NatLessThanWellFounded, <1>0
<1>2. \A x, y \in Nat : <<x, y>> \in R <=> x < y
  BY <1>0 DEF OpToRel
<1>3. \E x \in T : \A y \in T : ~ (<<y, x>> \in R)
  BY <1>1, WFMin
<1>4. PICK x \in T : \A y \in T : ~ (<<y, x>> \in R)
  BY <1>3
<1>5. \A y \in T : ~ (y < x)
  BY <1>2, <1>4
<1>6. QED
  BY <1>5

\* Induction, for a set of naturals.
LEMMA Induction ==
    ASSUME NEW S, 0 \in S, \A n \in Nat : n \in S => n + 1 \in S
    PROVE  Nat \subseteq S
<1> DEFINE T == Nat \ S
<1>1. SUFFICES ASSUME T # {} PROVE FALSE
  OBVIOUS
<1>2. PICK x \in T : \A y \in T : x <= y
  BY <1>1, SmallestOf
<1>3. QED
  BY <1>2

\* The value of a recursive function at x, G[x][f], depends only on the values
\* of f at the places before x, of which m says how many there can be.
Recursive(D, V, M, m, G) ==
  /\ M \in Nat /\ m \in [D -> 0 .. M]
  /\ V # {} /\ G \in [D -> [[D -> V] -> V]]
  /\ \A x \in D : \A g, h \in [D -> V] :
       (\A y \in D : m[y] < m[x] => g[y] = h[y]) => G[x][g] = G[x][h]

\* Then the function exists.
LEMMA BoundedRecursion ==
    ASSUME NEW D, NEW V, NEW M, NEW m, NEW G, Recursive(D, V, M, m, G)
    PROVE  \E f \in [D -> V] : \A x \in D : f[x] = G[x][f]
<1>a. M \in Nat /\ m \in [D -> 0 .. M] /\ V # {} /\ G \in [D -> [[D -> V] -> V]]
  BY DEF Recursive
<1> DEFINE P(k) == \E f \in [D -> V] : \A x \in D : m[x] < k => f[x] = G[x][f]
           S == {k \in Nat : P(k)}
<1>1. 0 \in S
  <2>1. PICK v \in V : TRUE
    BY <1>a
  <2>2. [x \in D |-> v] \in [D -> V]
    OBVIOUS
  <2>3. \A x \in D : ~ (m[x] < 0)
    BY <1>a
  <2>4. P(0)
    BY <2>2, <2>3
  <2>5. QED
    BY <2>4
<1>2. ASSUME NEW k \in Nat, P(k)
      PROVE  P(k + 1)
  <2>1. PICK f \in [D -> V] : \A x \in D : m[x] < k => f[x] = G[x][f]
    BY <1>2
  <2> DEFINE g == [x \in D |-> IF m[x] = k THEN G[x][f] ELSE f[x]]
  <2>2. g \in [D -> V]
    BY <1>a
  <2>3. \A y \in D : m[y] < k => g[y] = f[y]
    BY <1>a
  <2>4. ASSUME NEW x \in D, m[x] < k + 1
        PROVE  g[x] = G[x][g]
    <3>1. m[x] \in Nat /\ m[x] <= k
      BY <2>4, <1>a
    <3>2. \A y \in D : m[y] < m[x] => g[y] = f[y]
      BY <3>1, <2>3
    <3>3. G[x][g] = G[x][f]
      BY <3>2, <2>2 DEF Recursive
    <3>4. g[x] = G[x][f]
      <4>1. CASE m[x] = k
        BY <4>1
      <4>2. CASE m[x] < k
        BY <4>2, <2>1
      <4>3. QED
        BY <3>1, <4>1, <4>2
    <3>5. QED
      BY <3>3, <3>4
  <2> HIDE DEF g
  <2>5. QED
    BY <2>2, <2>4
<1>3. Nat \subseteq S
  <2> HIDE DEF P
  <2>1. \A k \in Nat : k \in S => k + 1 \in S
    BY <1>2
  <2>3. 0 \in S
    BY <1>1
  <2> HIDE DEF S
  <2>2. QED
    BY <2>3, <2>1, Induction
<1>4. P(M + 1)
  <2> HIDE DEF P
  <2>1. M + 1 \in S
    BY <1>3, <1>a
  <2>2. QED
    BY <2>1
<1>5. \A x \in D : m[x] < M + 1
  BY <1>a
<1>6. QED
  BY <1>4, <1>5

-----------------------------------------------------------------------------

\* A power of two is a positive natural.
LEMMA PowerType ==
    ASSUME NEW k \in Nat
    PROVE  2^k \in Nat \ {0}
<1>1. IsFiniteSet(1 .. k) /\ Cardinality(1 .. k) = k
  BY FS_Interval
<1>2. IsFiniteSet(SUBSET (1 .. k)) /\ Cardinality(SUBSET (1 .. k)) = 2^k
  BY <1>1, FS_SUBSET
<1>3. Cardinality(SUBSET (1 .. k)) \in Nat
  BY <1>2, FS_CardinalityType
<1>4. Cardinality(SUBSET (1 .. k)) # 0
  BY <1>2, FS_EmptySet
<1>5. QED
  BY <1>2, <1>3, <1>4

\* The next power is twice the last.
LEMMA PowerDoubles ==
    ASSUME NEW k \in Nat
    PROVE  2^(k + 1) = 2 * 2^k
<1>1. PICK A : A = SUBSET (1 .. k)
  OBVIOUS
<1>2. PICK B : B = SUBSET (1 .. k + 1)
  OBVIOUS
<1> DEFINE C == B \ A
           f == [s \in A |-> s \cup {k + 1}]
<1>3. IsFiniteSet(A) /\ Cardinality(A) = 2^k /\ Cardinality(A) \in Nat
  <2>1. IsFiniteSet(1 .. k) /\ Cardinality(1 .. k) = k
    BY FS_Interval
  <2>2. QED
    BY <1>1, <2>1, FS_SUBSET, FS_CardinalityType
<1>4. IsFiniteSet(B) /\ Cardinality(B) = 2^(k + 1) /\ Cardinality(B) \in Nat
  <2>1. k + 1 \in Nat
    OBVIOUS
  <2>2. IsFiniteSet(1 .. k + 1) /\ Cardinality(1 .. k + 1) = k + 1
    BY <2>1, FS_Interval
  <2>3. QED
    BY <1>2, <2>2, FS_SUBSET, FS_CardinalityType
<1>5. f \in Bijection(A, C)
  <2>1. f \in [A -> C]
    BY <1>1, <1>2
  <2>2. ASSUME NEW s \in A, NEW t \in A, f[s] = f[t]
        PROVE  s = t
    <3>1. k + 1 \notin s /\ k + 1 \notin t
      BY <1>1
    <3>2. s \cup {k + 1} = t \cup {k + 1}
      BY <2>2
    <3>3. QED
      BY <3>1, <3>2
  <2>3. ASSUME NEW c \in C
        PROVE  \E s \in A : f[s] = c
    <3>1. k + 1 \in c /\ c \subseteq 1 .. k + 1
      BY <1>1, <1>2
    <3>2. c \ {k + 1} \in A /\ (c \ {k + 1}) \cup {k + 1} = c
      BY <3>1, <1>1
    <3>3. QED
      BY <3>2
  <2> HIDE DEF f, C
  <2>4. QED
    BY <2>1, <2>2, <2>3 DEF Bijection, Injection, Surjection, IsInjective
<1> HIDE DEF f, C
<1>6. IsFiniteSet(C) /\ Cardinality(C) = Cardinality(A)
  <2>1. IsFiniteSet(C)
    BY <1>4, FS_Subset DEF C
  <2>2. ExistsBijection(A, C)
    BY <1>5 DEF ExistsBijection
  <2>3. QED
    BY <1>3, <2>2, FS_Bijection
<1>7. A \cup C = B /\ A \cap C = {}
  BY <1>1, <1>2 DEF C
<1>8. Cardinality(A \cup C) = Cardinality(A) + Cardinality(C) - Cardinality(A \cap C)
  BY <1>3, <1>6, FS_Union
<1>9. Cardinality(A \cap C) = 0
  BY <1>7, FS_EmptySet
<1>10. QED
  <2>1. PICK p : p = 2^k
    OBVIOUS
  <2>2. PICK q : q = 2^(k + 1)
    OBVIOUS
  <2>3. q = p + p /\ p \in Nat
    BY <2>1, <2>2, <1>3, <1>4, <1>6, <1>7, <1>8, <1>9
  <2>4. q = 2 * p
    BY <2>3
  <2>5. QED
    BY <2>1, <2>2, <2>4

-----------------------------------------------------------------------------
(* The free blocks in a row                                                  *)

\* k is how many blocks in a row are free from i on.
InARow(n, free, i, k) ==
  /\ k \in 0 .. n - i
  /\ i .. i + k - 1 \subseteq free
  /\ i + k = n \/ i + k \notin free

\* Runs is a solution of its equation.
LEMMA RunsEquation ==
    ASSUME NEW n \in Nat, NEW free
    PROVE  /\ Runs(n, free) \in [0 .. n -> Nat]
           /\ \A i \in 0 .. n :
                Runs(n, free)[i] = IF i \in free /\ i < n THEN 1 + Runs(n, free)[i + 1] ELSE 0
<1> DEFINE D == 0 .. n
           P(f) == f = [i \in D |-> IF i \in free /\ i < n THEN 1 + f[i + 1] ELSE 0]
           G == [i \in D |-> [f \in [D -> Nat] |->
                   IF i \in free /\ i < n THEN 1 + f[i + 1] ELSE 0]]
           m == [i \in D |-> n - i]
<1>1. G \in [D -> [[D -> Nat] -> Nat]]
  OBVIOUS
<1>2. m \in [D -> 0 .. n]
  OBVIOUS
<1>3. ASSUME NEW x \in D, NEW g \in [D -> Nat], NEW h \in [D -> Nat],
             \A y \in D : m[y] < m[x] => g[y] = h[y]
      PROVE  G[x][g] = G[x][h]
  <2>1. x < n => x + 1 \in D /\ m[x + 1] < m[x]
    OBVIOUS
  <2>2. x < n => g[x + 1] = h[x + 1]
    BY <1>3, <2>1
  <2>3. QED
    BY <2>2
<1>4. \E f \in [D -> Nat] : \A x \in D : f[x] = G[x][f]
  <2> HIDE DEF G, m, D
  <2>1. Recursive(D, Nat, n, m, G)
    BY <1>1, <1>2, <1>3 DEF Recursive
  <2>2. QED
    BY <2>1, BoundedRecursion
<1>5. PICK g \in [D -> Nat] : \A x \in D : g[x] = G[x][g]
  BY <1>4
<1>6. P(g)
  <2>1. g = [x \in D |-> g[x]]
    OBVIOUS
  <2>2. \A x \in D : g[x] = IF x \in free /\ x < n THEN 1 + g[x + 1] ELSE 0
    BY <1>5
  <2>3. QED
    BY <2>1, <2>2
<1>7. PICK r : r = Runs(n, free)
  OBVIOUS
<1>8. P(r)
  <2>1. r = CHOOSE f : P(f)
    BY <1>7 DEF Runs
  <2>2. QED
    BY <2>1, <1>6
<1>9. \A i \in D : r[i] = IF i \in free /\ i < n THEN 1 + r[i + 1] ELSE 0
  BY <1>8
<1>10. r \in [D -> Nat]
  <2> DEFINE S == {k \in Nat : \A i \in D : n - i = k => r[i] \in Nat}
  <2>1. 0 \in S
    BY <1>9
  <2>2. ASSUME NEW k \in Nat, k \in S
        PROVE  k + 1 \in S
    <3>1. ASSUME NEW i \in D, n - i = k + 1
          PROVE  r[i] \in Nat
      <4>1. i + 1 \in D /\ n - (i + 1) = k
        BY <3>1
      <4>2. r[i + 1] \in Nat
        BY <2>2, <4>1
      <4>3. QED
        BY <4>2, <1>9
    <3>2. QED
      BY <3>1
  <2>3. Nat \subseteq S
    <3> HIDE DEF S
    <3>1. QED
      BY <2>1, <2>2, Induction
  <2>4. \A i \in D : r[i] \in Nat
    <3>1. \A i \in D : n - i \in Nat /\ n - i \in S
      <4> HIDE DEF S
      <4>1. QED
        BY <2>3
    <3>2. QED
      BY <3>1
  <2>5. QED
    BY <2>4, <1>8
<1>11. QED
  BY <1>7, <1>9, <1>10

\* Runs counts the free blocks in a row from each one on.
LEMMA RunsAreInARow ==
    ASSUME NEW n \in Nat, NEW free, NEW i \in 0 .. n
    PROVE  InARow(n, free, i, Runs(n, free)[i])
<1> DEFINE D == 0 .. n
<1>1. PICK r : r = Runs(n, free)
  OBVIOUS
<1>2. \A j \in D : r[j] = IF j \in free /\ j < n THEN 1 + r[j + 1] ELSE 0
  BY <1>1, RunsEquation
<1> DEFINE S == {k \in Nat : \A j \in D : n - j = k => InARow(n, free, j, r[j])}
<1>3. 0 \in S
  BY <1>2 DEF InARow
<1>4. ASSUME NEW k \in Nat, k \in S
      PROVE  k + 1 \in S
  <2>1. ASSUME NEW j \in D, n - j = k + 1
        PROVE  InARow(n, free, j, r[j])
    <3>1. j + 1 \in D /\ n - (j + 1) = k
      BY <2>1
    <3>2. InARow(n, free, j + 1, r[j + 1])
      BY <1>4, <3>1
    <3>3. CASE j \in free
      <4>1. r[j] = 1 + r[j + 1]
        BY <3>3, <1>2, <2>1
      <4>2. r[j + 1] \in Nat
        BY <3>2 DEF InARow
      <4>3. j .. j + r[j] - 1 = {j} \cup ((j + 1) .. (j + 1) + r[j + 1] - 1)
        BY <4>1, <4>2
      <4>4. j .. j + r[j] - 1 \subseteq free
        BY <4>3, <3>2, <3>3 DEF InARow
      <4>5. QED
        BY <4>1, <4>2, <4>4, <3>2, <2>1 DEF InARow
    <3>4. CASE j \notin free
      BY <3>4, <1>2, <2>1 DEF InARow
    <3>5. QED
      BY <3>3, <3>4
  <2>2. QED
    BY <2>1
<1>5. Nat \subseteq S
  <2> HIDE DEF S
  <2>1. QED
    BY <1>3, <1>4, Induction
<1>6. n - i \in S
  BY <1>5
<1>7. QED
  BY <1>6, <1>1

\* What follows from it about two places of the same run, and about a run that
\* is known to be long enough.
LEMMA RunsEndTogether ==
    ASSUME NEW n \in Nat, NEW free, NEW i \in 0 .. n, NEW k, InARow(n, free, i, k),
           NEW j \in i .. i + k, NEW l, InARow(n, free, j, l)
    PROVE  j + l = i + k
<1>1. k \in Nat /\ l \in Nat /\ i + k <= n /\ j + l <= n
  BY DEF InARow
<1>2. ~ (j + l < i + k)
  <2>1. SUFFICES ASSUME j + l < i + k PROVE FALSE
    OBVIOUS
  <2>2. j + l \in i .. i + k - 1
    BY <1>1, <2>1
  <2>3. QED
    BY <1>1, <2>1, <2>2 DEF InARow
<1>3. ~ (i + k < j + l)
  <2>1. SUFFICES ASSUME i + k < j + l PROVE FALSE
    OBVIOUS
  <2>2. i + k \in j .. j + l - 1
    BY <1>1, <2>1
  <2>3. QED
    BY <1>1, <2>1, <2>2 DEF InARow
<1>4. QED
  BY <1>1, <1>2, <1>3

\* A run is as long as the table says, and no longer.
LEMMA RunsAreLongest ==
    ASSUME NEW n \in Nat, NEW free, free \subseteq 0 .. n - 1, NEW i \in 0 .. n - 1, NEW k, InARow(n, free, i, k),
           NEW c \in Nat \ {0}
    PROVE  i .. i + c - 1 \subseteq free <=> c <= k
<1>1. k \in Nat /\ i + k <= n
  BY DEF InARow
<1>2. ASSUME c <= k
      PROVE  i .. i + c - 1 \subseteq free
  <2>1. i .. i + c - 1 \subseteq i .. i + k - 1
    BY <1>1, <1>2
  <2>2. QED
    BY <2>1 DEF InARow
<1>3. ASSUME k < c
      PROVE  ~ (i .. i + c - 1 \subseteq free)
  <2>1. i + k \in i .. i + c - 1
    BY <1>1, <1>3
  <2>2. i + k \notin free
    BY <1>1 DEF InARow
  <2>3. QED
    BY <2>1, <2>2
<1>4. QED
  BY <1>1, <1>2, <1>3

-----------------------------------------------------------------------------
(* The first run that is long enough                                         *)

\* Min of a set of numbers.
LEMMA MinIsLeast ==
    ASSUME NEW T, T \subseteq Nat, T # {}
    PROVE  Min(T) \in T /\ \A y \in T : Min(T) <= y
BY SmallestOf DEF Min

\* Min is the least member.
LEMMA LeastIsMin ==
    ASSUME NEW T, T \subseteq Nat, NEW x \in T, \A y \in T : x <= y
    PROVE  Min(T) = x
<1>1. Min(T) \in T /\ \A y \in T : Min(T) <= y
  BY MinIsLeast
<1>2. Min(T) <= x /\ x <= Min(T) /\ x \in Nat /\ Min(T) \in Nat
  BY <1>1
<1>3. QED
  BY <1>2

\* And of two members the lesser.
LEMMA MinOfTwo ==
    ASSUME NEW a \in Nat, NEW b \in Nat
    PROVE  Min({a, b}) = IF a <= b THEN a ELSE b
<1>1. CASE a <= b
  BY <1>1, LeastIsMin, a \in {a, b}
<1>2. CASE b < a
  BY <1>2, LeastIsMin, b \in {a, b}
<1>3. QED
  BY <1>1, <1>2

\* The aligned blocks from i on where at least min blocks are free, and the
\* range of the first.
LongFrom(n, free, aligned, min, i) == {j \in aligned : j >= i /\ Runs(n, free)[j] >= min}
RangeAt(n, free, j) == [begin |-> j, len |-> Runs(n, free)[j]]
FirstLong(n, free, aligned, min, i) ==
  IF LongFrom(n, free, aligned, min, i) = {} THEN NoRange
  ELSE RangeAt(n, free, Min(LongFrom(n, free, aligned, min, i)))
FirstLongs(n, free, aligned, min) == [i \in 0 .. n |-> FirstLong(n, free, aligned, min, i)]

\* No run that is long enough begins between a block and the one that ended the
\* run too short which begins there.
LEMMA ShortRunsHideNothing ==
    ASSUME NEW n \in Nat, NEW free, NEW aligned, aligned \subseteq 0 .. n - 1,
           NEW min \in Nat \ {0}, NEW i \in 0 .. n,
           NEW b, b \in aligned, b >= i, \A j \in aligned : j >= i => b <= j,
           Runs(n, free)[b] < min,
           NEW next \in Nat, next = IF b + Runs(n, free)[b] + 1 <= n THEN b + Runs(n, free)[b] + 1 ELSE n
    PROVE  /\ LongFrom(n, free, aligned, min, i) = LongFrom(n, free, aligned, min, next)
           /\ next \in i + 1 .. n
<1>1. PICK r : r = Runs(n, free)
  OBVIOUS
<1>2. b \in 0 .. n - 1 /\ b \in Nat
  OBVIOUS
<1>3. r \in [0 .. n -> Nat] /\ \A j \in 0 .. n : InARow(n, free, j, r[j])
  BY <1>1, RunsEquation, RunsAreInARow
<1>4. r[b] \in Nat
  BY <1>2, <1>3
<1>5. next \in i + 1 .. n
  BY <1>1, <1>2, <1>4
<1>6. ASSUME NEW j \in aligned, j >= i, r[j] >= min
      PROVE  j >= next
  <2>1. j \in 0 .. n - 1 /\ b <= j /\ r[j] \in Nat
    BY <1>3, <1>6
  <2>2. ASSUME j <= b + r[b] PROVE FALSE
    <3>1. j \in b .. b + r[b]
      BY <2>1, <2>2, <1>2, <1>4
    <3>2. InARow(n, free, b, r[b]) /\ InARow(n, free, j, r[j])
      BY <1>2, <1>3, <2>1
    <3>3. j + r[j] = b + r[b]
      BY <3>1, <3>2, <1>2, RunsEndTogether
    <3>4. QED
      BY <3>3, <2>1, <1>1, <1>2, <1>4, <1>6
  <2>3. QED
    BY <2>1, <2>2, <1>1, <1>2, <1>4
<1>7. \A j \in aligned : j \in Nat
  OBVIOUS
<1>8. \A j \in aligned : (j >= i /\ r[j] >= min) <=> (j >= next /\ r[j] >= min)
  <2> HIDE DEF InARow
  <2>1. i \in Nat /\ i <= next
    BY <1>5
  <2>2. QED
    BY <2>1, <1>6, <1>7
<1>9. QED
  BY <1>1, <1>5, <1>8 DEF LongFrom

\* RunsFound finds, from each block on, the first run that is long enough.
LEMMA RunsFoundIsFirst ==
    ASSUME NEW n \in Nat, NEW free, NEW aligned, aligned \subseteq 0 .. n - 1,
           NEW min \in Nat \ {0}
    PROVE  RunsFound(n, free, aligned, min) = FirstLongs(n, free, aligned, min)
<1> DEFINE D == 0 .. n
           first(i) == FirstLong(n, free, aligned, min, i)
           W == [i \in D |-> first(i)]
           begin(i) == Min({j \in aligned : j >= i} \cup {n})
           next(b) == Min({b + Runs(n, free)[b] + 1, n})
           value(f, i) == IF begin(i) = n THEN NoRange
                          ELSE IF Runs(n, free)[begin(i)] >= min
                               THEN RangeAt(n, free, begin(i))
                               ELSE f[next(begin(i))]
           P(f) == f = [i \in D |-> value(f, i)]
<1>0. \A j \in aligned : j \in Nat /\ j < n
  OBVIOUS
<1>1. ASSUME NEW i \in D
      PROVE  /\ begin(i) \in Nat /\ (begin(i) = n \/ begin(i) \in aligned)
             /\ i <= begin(i) /\ \A j \in aligned : j >= i => begin(i) <= j
  <2>1. PICK T : T = {j \in aligned : j >= i} \cup {n}
    OBVIOUS
  <2>2. T \subseteq Nat /\ T # {} /\ \A j \in T : j >= i
    <3> HIDE DEF value, P, W, first, begin, next
    <3>1. i \in Nat /\ i <= n
      OBVIOUS
    <3>2. QED
      BY <1>0, <2>1, <3>1
  <2>3. Min(T) \in T /\ \A y \in T : Min(T) <= y
    BY <2>2, MinIsLeast
  <2>4. QED
    BY <2>1, <2>2, <2>3
<1>2. ASSUME NEW i \in D, begin(i) = n
      PROVE  first(i) = NoRange
  <2>1. LongFrom(n, free, aligned, min, i) = {}
    <3> HIDE DEF value, P, W, first, begin, next
    <3>1. \A j \in aligned : ~ (j >= i)
      BY <1>0, <1>1, <1>2
    <3>2. QED
      BY <3>1 DEF LongFrom
  <2>2. QED
    BY <2>1 DEF FirstLong
<1>3. ASSUME NEW i \in D, begin(i) # n, Runs(n, free)[begin(i)] >= min
      PROVE  first(i) = RangeAt(n, free, begin(i))
  <2>1. PICK T : T = LongFrom(n, free, aligned, min, i)
    OBVIOUS
  <2>2. PICK b : b = begin(i)
    OBVIOUS
  <2>3. b \in T /\ T \subseteq Nat /\ \A j \in T : b <= j
    <3> HIDE DEF value, P, W, first, begin, next
    <3>1. b \in aligned /\ b >= i /\ \A j \in aligned : j >= i => b <= j
      BY <1>1, <1>3, <2>2
    <3>2. QED
      BY <3>1, <1>0, <1>3, <2>1, <2>2 DEF LongFrom
  <2>4. Min(T) = b
    BY <2>3, LeastIsMin
  <2>5. QED
    BY <2>1, <2>2, <2>3, <2>4 DEF FirstLong
<1>4. ASSUME NEW i \in D, begin(i) # n, ~ (Runs(n, free)[begin(i)] >= min)
      PROVE  next(begin(i)) \in i + 1 .. n /\ first(i) = first(next(begin(i)))
  <2>1. PICK b : b = begin(i)
    OBVIOUS
  <2>2. b \in aligned /\ b \in 0 .. n - 1 /\ b >= i /\ \A j \in aligned : j >= i => b <= j
    <3> HIDE DEF begin
    <3>1. QED
      BY <1>1, <1>4, <2>1
  <2>3. Runs(n, free)[b] \in Nat
    BY <2>2, RunsEquation
  <2>4. next(b) = IF b + Runs(n, free)[b] + 1 <= n THEN b + Runs(n, free)[b] + 1 ELSE n
    <3>1. b + Runs(n, free)[b] + 1 \in Nat
      BY <2>2, <2>3
    <3>2. QED
      BY <3>1, MinOfTwo
  <2>5. next(b) \in Nat
    BY <2>2, <2>3, <2>4
  <2>6. Runs(n, free)[b] < min
    BY <1>4, <2>1, <2>3
  <2>7. /\ LongFrom(n, free, aligned, min, i) = LongFrom(n, free, aligned, min, next(b))
        /\ next(b) \in i + 1 .. n
    <3> HIDE DEF next
    <3>1. QED
      BY <2>2, <2>4, <2>5, <2>6, ShortRunsHideNothing
  <2>8. QED
    BY <2>1, <2>7 DEF FirstLong
<1>5. \A i \in D : first(i) = value(W, i)
  <2>1. ASSUME NEW i \in D
        PROVE  first(i) = value(W, i)
    <3> HIDE DEF begin, next, first
    <3>1. CASE begin(i) = n
      BY <3>1, <1>2
    <3>2. CASE begin(i) # n /\ Runs(n, free)[begin(i)] >= min
      BY <3>2, <1>3
    <3>3. CASE begin(i) # n /\ ~ (Runs(n, free)[begin(i)] >= min)
      <4>1. next(begin(i)) \in D /\ first(i) = first(next(begin(i)))
        BY <3>3, <1>4
      <4>2. QED
        BY <3>3, <4>1
    <3>4. QED
      BY <3>1, <3>2, <3>3
  <2>2. QED
    BY <2>1
<1>6. P(W)
  <2> HIDE DEF value, first
  <2>1. QED
    BY <1>5
<1>7. PICK f : f = RunsFound(n, free, aligned, min)
  OBVIOUS
<1>8. P(f)
  <2>1. f = CHOOSE g : P(g)
    BY <1>7 DEF RunsFound, RangeAt
  <2> HIDE DEF P
  <2>2. QED
    BY <2>1, <1>6
<1>9. \A i \in D : f[i] = value(f, i)
  <2> HIDE DEF value
  <2>1. QED
    BY <1>8
<1> DEFINE S == {k \in Nat : \A i \in D : n - i <= k => f[i] = first(i)}
<1> HIDE DEF begin, next, first
<1>10. ASSUME NEW i \in D, \A j \in i + 1 .. n : f[j] = first(j)
       PROVE  f[i] = first(i)
  <2>1. CASE begin(i) = n
    BY <2>1, <1>2, <1>9
  <2>2. CASE begin(i) # n /\ Runs(n, free)[begin(i)] >= min
    BY <2>2, <1>3, <1>9
  <2>3. CASE begin(i) # n /\ ~ (Runs(n, free)[begin(i)] >= min)
    <3>1. next(begin(i)) \in i + 1 .. n /\ first(i) = first(next(begin(i)))
      BY <2>3, <1>4
    <3>2. f[i] = f[next(begin(i))]
      BY <2>3, <1>9
    <3>3. QED
      BY <3>1, <3>2, <1>10
  <2>4. QED
    BY <2>1, <2>2, <2>3
<1> HIDE DEF value, P
<1>11. 0 \in S
  BY <1>10
<1>12. ASSUME NEW k \in Nat, k \in S
       PROVE  k + 1 \in S
  <2>1. ASSUME NEW i \in D, n - i <= k + 1
        PROVE  f[i] = first(i)
    <3>1. \A j \in i + 1 .. n : j \in D /\ n - j <= k
      BY <2>1
    <3>2. \A j \in i + 1 .. n : f[j] = first(j)
      BY <1>12, <3>1
    <3>3. QED
      BY <3>2, <1>10
  <2>2. QED
    BY <2>1
<1>13. Nat \subseteq S
  <2> HIDE DEF S
  <2>1. QED
    BY <1>11, <1>12, Induction
<1>14. n \in S
  BY <1>13
<1>15. \A i \in D : f[i] = first(i)
  BY <1>14
<1>16. QED
  BY <1>15, <1>7, <1>8 DEF P, first, FirstLongs

-----------------------------------------------------------------------------
(* The shortest run                                                          *)

\* The places where a run that is long enough begins as far as alignment can
\* tell: no aligned block before it belongs to the same run.
Heads(free, aligned, fits) == {b \in fits : \A a \in aligned : ~ (a < b /\ a .. b \subseteq free)}

\* Each place of a list of first long runs holds none, or one of them, and then
\* the runs behind it are those behind the first.
LEMMA FirstLongIs ==
    ASSUME NEW n \in Nat, NEW free, NEW aligned, aligned \subseteq 0 .. n - 1,
           NEW min \in Nat \ {0}, NEW e \in 0 .. n,
           NEW r, r = FirstLong(n, free, aligned, min, e)
    PROVE  \/ r = NoRange /\ LongFrom(n, free, aligned, min, e) = {}
           \/ \E c \in LongFrom(n, free, aligned, min, e) :
                /\ r = RangeAt(n, free, c)
                /\ \A b \in LongFrom(n, free, aligned, min, e) : c <= b
                /\ c \in 0 .. n - 1 /\ r.begin = c /\ r.len = Runs(n, free)[c]
                /\ r.len \in Nat /\ r.len >= min /\ c + r.len \in 0 .. n
                /\ \A b \in Heads(free, aligned, LongFrom(n, free, aligned, min, 0)) :
                     b >= e => b = c \/ b >= c + r.len
<1>1. PICK T : T = LongFrom(n, free, aligned, min, e)
  OBVIOUS
<1>2. T \subseteq Nat /\ T \subseteq aligned
  <2>1. T \subseteq aligned
    BY <1>1 DEF LongFrom
  <2>2. \A j \in aligned : j \in Nat
    OBVIOUS
  <2>3. QED
    BY <2>1, <2>2
<1>3. CASE T = {}
  BY <1>1, <1>3 DEF FirstLong
<1>4. CASE T # {}
  <2>1. PICK c : c = Min(T)
    OBVIOUS
  <2>2. c \in T /\ \A b \in T : c <= b
    BY <1>2, <1>4, <2>1, MinIsLeast
  <2>3. r = RangeAt(n, free, c)
    BY <1>1, <1>4, <2>1 DEF FirstLong
  <2>4. r.begin = c /\ r.len = Runs(n, free)[c]
    BY <2>3 DEF RangeAt
  <2>5. c \in 0 .. n - 1 /\ c \in 0 .. n
    BY <1>2, <2>2
  <2>6. InARow(n, free, c, r.len)
    BY <2>4, <2>5, RunsAreInARow
  <2>7. r.len \in Nat /\ c + r.len \in 0 .. n
    BY <2>5, <2>6 DEF InARow
  <2>8. r.len >= min
    BY <2>2, <2>4, <1>1 DEF LongFrom
  <2>9. ASSUME NEW b \in Heads(free, aligned, LongFrom(n, free, aligned, min, 0)), b >= e,
               b # c, b < c + r.len
        PROVE  FALSE
    <3>1. b \in aligned /\ b \in 0 .. n - 1 /\ Runs(n, free)[b] >= min
      BY <2>9 DEF Heads, LongFrom
    <3>2. b \in T
      BY <2>9, <3>1, <1>1 DEF LongFrom
    <3>3. c < b
      BY <2>2, <2>5, <2>9, <3>1, <3>2
    <3>4. c .. b \subseteq c .. c + r.len - 1
      BY <2>5, <2>7, <2>9, <3>1
    <3>5. c .. b \subseteq free
      BY <3>4, <2>6 DEF InARow
    <3>6. QED
      BY <3>3, <3>5, <1>2, <2>2, <2>9 DEF Heads
  <2>10. \A b \in Heads(free, aligned, LongFrom(n, free, aligned, min, 0)) :
           b >= e => b = c \/ b >= c + r.len
    <3>1. \A b \in Heads(free, aligned, LongFrom(n, free, aligned, min, 0)) : b \in Nat
      BY DEF Heads, LongFrom
    <3>2. QED
      BY <3>1, <2>5, <2>7, <2>9
  <2>11. QED
    BY <1>1, <2>2, <2>3, <2>4, <2>5, <2>7, <2>8, <2>10
<1>5. QED
  BY <1>3, <1>4

\* A run that is long enough, and no longer than any, if there is one.
IsShortest(n, free, aligned, min, s) ==
  LET long == LongFrom(n, free, aligned, min, 0)
  IN  IF long = {} THEN s = NoRange
      ELSE /\ \E c \in long : s = RangeAt(n, free, c)
           /\ \A b \in Heads(free, aligned, long) : s.len <= Runs(n, free)[b]

\* ShortestRun finds such a run.
LEMMA ShortestRunIsShortest ==
    ASSUME NEW n \in Nat, NEW free, NEW aligned, aligned \subseteq 0 .. n - 1,
           NEW min \in Nat \ {0}, NEW found, found = RunsFound(n, free, aligned, min)
    PROVE  IsShortest(n, free, aligned, min, ShortestRun(n, found))
<1> DEFINE D == 0 .. n
           first(i) == FirstLong(n, free, aligned, min, i)
           long == LongFrom(n, free, aligned, min, 0)
           heads == Heads(free, aligned, long)
           R == Range(found)
           rest(r) == found[r.begin + r.len]
           value(f, r) == IF rest(r).len = 0 THEN r
                          ELSE IF f[rest(r)].len < r.len THEN f[rest(r)] ELSE r
           P(f) == f = [r \in R |-> value(f, r)]
           IsLong(r) == \E c \in long : r = RangeAt(n, free, c) /\ r.begin = c /\ c \in 0 .. n - 1
                                        /\ r.len \in Nat /\ r.len >= min /\ c + r.len \in D
<1>1. found = [i \in D |-> first(i)]
  <2> HIDE DEF long, heads, R, rest, value, P, IsLong
  <2>1. RunsFound(n, free, aligned, min) = FirstLongs(n, free, aligned, min)
    BY RunsFoundIsFirst
  <2>2. QED
    BY <2>1 DEF FirstLongs
<1>2. ASSUME NEW e \in D
      PROVE  \/ first(e) = NoRange /\ first(e).len = 0 /\ LongFrom(n, free, aligned, min, e) = {}
             \/ /\ IsLong(first(e)) /\ first(e).len # 0 /\ first(e).begin >= e
                /\ \A b \in heads : b >= e => b = first(e).begin \/ b >= first(e).begin + first(e).len
  <2> HIDE DEF heads, first
  <2>1. PICK r : r = first(e)
    OBVIOUS
  <2>2. CASE r = NoRange /\ LongFrom(n, free, aligned, min, e) = {}
    BY <2>1, <2>2 DEF NoRange
  <2>3. ASSUME NEW c \in LongFrom(n, free, aligned, min, e),
               /\ r = RangeAt(n, free, c)
               /\ c \in 0 .. n - 1 /\ r.begin = c /\ r.len = Runs(n, free)[c]
               /\ r.len \in Nat /\ r.len >= min /\ c + r.len \in 0 .. n
               /\ \A b \in heads : b >= e => b = c \/ b >= c + r.len
        PROVE  /\ IsLong(r) /\ r.len # 0 /\ r.begin >= e
               /\ \A b \in heads : b >= e => b = r.begin \/ b >= r.begin + r.len
    <3>1. c \in long /\ c >= e
      BY <2>3 DEF LongFrom
    <3> HIDE DEF long
    <3>2. QED
      BY <2>3, <3>1
  <2>4. QED
    <3>1. \/ r = NoRange /\ LongFrom(n, free, aligned, min, e) = {}
          \/ \E c \in LongFrom(n, free, aligned, min, e) :
               /\ r = RangeAt(n, free, c)
               /\ \A b \in LongFrom(n, free, aligned, min, e) : c <= b
               /\ c \in 0 .. n - 1 /\ r.begin = c /\ r.len = Runs(n, free)[c]
               /\ r.len \in Nat /\ r.len >= min /\ c + r.len \in 0 .. n
               /\ \A b \in heads : b >= e => b = c \/ b >= c + r.len
      BY <2>1, FirstLongIs, ZenonT(30) DEF heads, first
    <3> HIDE DEF IsLong
    <3>2. QED
      BY <2>1, <2>2, <2>3, <3>1
<1> HIDE DEF first, heads, IsLong, long
<1>3. /\ \A r \in R : r = NoRange \/ IsLong(r)
      /\ \A i \in D : found[i] = first(i) /\ found[i] \in R
  BY <1>1, <1>2 DEF Range
<1>4. \A r \in R : r.begin \in Nat /\ r.len \in Nat /\ r.begin + r.len \in D /\ r.begin <= n
  BY <1>3 DEF IsLong, NoRange
<1>5. \A r \in R : rest(r) \in R /\ rest(r) = first(r.begin + r.len)
  BY <1>3, <1>4
<1> HIDE DEF R, D
<1> DEFINE m == [r \in R |-> IF r.len = 0 THEN n + 1 ELSE n - r.begin]
           G == [r \in R |-> [f \in [R -> R] |-> value(f, r)]]
<1>6. Recursive(R, R, n + 1, m, G)
  <2>1. m \in [R -> 0 .. n + 1]
    BY <1>4
  <2>2. 0 \in D
    BY DEF D
  <2>3. R # {}
    BY <1>3, <2>2
  <2>4. G \in [R -> [[R -> R] -> R]]
    <3>1. \A r \in R : \A f \in [R -> R] : value(f, r) \in R
      <4> HIDE DEF rest
      <4>1. QED
        BY <1>5
    <3> HIDE DEF value
    <3>2. QED
      BY <3>1
  <2>5. ASSUME NEW x \in R, NEW g \in [R -> R], NEW h \in [R -> R],
               \A y \in R : m[y] < m[x] => g[y] = h[y]
        PROVE  G[x][g] = G[x][h]
    <3>1. CASE rest(x).len = 0
      BY <3>1
    <3>2. CASE rest(x).len # 0
      <4>1. rest(x) \in R /\ rest(x) = first(x.begin + x.len) /\ x.begin + x.len \in D
        BY <1>4, <1>5
      <4>2. rest(x).begin >= x.begin + x.len
        BY <4>1, <3>2, <1>2
      <4>3. m[rest(x)] < m[x]
        <5> HIDE DEF rest
        <5>1. m[rest(x)] = n - rest(x).begin
          BY <4>1, <3>2
        <5>2. QED
          BY <4>1, <4>2, <5>1, <1>4
      <4>4. g[rest(x)] = h[rest(x)]
        BY <4>1, <4>3, <2>5
      <4>5. QED
        BY <4>4
    <3>3. QED
      BY <3>1, <3>2
  <2>6. n + 1 \in Nat
    OBVIOUS
  <2> HIDE DEF m, G
  <2>7. QED
    BY <2>1, <2>3, <2>4, <2>5, <2>6 DEF Recursive
<1>7. PICK g \in [R -> R] : \A r \in R : g[r] = G[r][g]
  <2> HIDE DEF m, G
  <2>1. QED
    BY <1>6, BoundedRecursion
<1>8. P(g)
  <2>1. \A r \in R : g[r] = value(g, r)
    BY <1>7
  <2> HIDE DEF value
  <2>2. QED
    BY <2>1
<1>9. PICK least : least = CHOOSE f : P(f)
  OBVIOUS
<1>10. P(least)
  <2> HIDE DEF P
  <2>1. QED
    BY <1>8, <1>9
<1>11. ShortestRun(n, found) = IF found[0].len = 0 THEN NoRange ELSE least[found[0]]
  BY <1>9 DEF ShortestRun, R
<1>12. \A r \in R : least[r] = value(least, r)
  <2> HIDE DEF value
  <2>1. QED
    BY <1>10
\* What least finds from a run on
<1> DEFINE Q(r) == /\ IsLong(least[r]) /\ least[r].len <= r.len
                   /\ \A b \in heads : b >= r.begin + r.len => least[r].len <= Runs(n, free)[b]
<1>a. \A r : IsLong(r) => /\ r.len \in Nat /\ r.len # 0 /\ r.begin \in 0 .. n - 1 /\ r.begin + r.len \in D
                          /\ r.len = Runs(n, free)[r.begin]
  BY DEF IsLong, RangeAt
<1>b. \A b \in heads : b \in 0 .. n - 1 /\ Runs(n, free)[b] \in Nat /\ b \in long
  <2>1. \A b \in heads : b \in 0 .. n - 1 /\ b \in long
    BY DEF heads, Heads, long, LongFrom
  <2>2. QED
    BY <2>1, RunsEquation
<1>13. ASSUME NEW r \in R, IsLong(r),
              \A q \in R : IsLong(q) /\ q.begin > r.begin => Q(q)
       PROVE  Q(r)
  <2>1. PICK e : e = r.begin + r.len
    OBVIOUS
  <2>2. e \in D /\ e \in Nat /\ r.begin \in Nat /\ r.begin < e
    BY <2>1, <1>13, <1>a DEF D
  <2>3. PICK q : q = rest(r)
    OBVIOUS
  <2>4. q \in R /\ q = first(e)
    BY <2>1, <2>3, <1>5
  <2>5. least[r] = IF q.len = 0 THEN r ELSE IF least[q].len < r.len THEN least[q] ELSE r
    BY <2>3, <1>12
  <2>6. CASE q.len = 0
    <3>1. LongFrom(n, free, aligned, min, e) = {}
      BY <2>2, <2>4, <2>6, <1>2
    <3>2. \A b \in heads : ~ (b >= e)
      BY <3>1, <1>b DEF long, LongFrom
    <3>3. QED
      BY <3>2, <2>1, <2>5, <2>6, <1>13, <1>a
  <2>7. CASE q.len # 0
    <3>1. /\ IsLong(q) /\ q.begin >= e
          /\ \A b \in heads : b >= e => b = q.begin \/ b >= q.begin + q.len
      BY <2>2, <2>4, <2>7, <1>2
    <3>2. Q(q)
      <4>1. q.begin > r.begin
        BY <2>2, <3>1, <1>a
      <4>2. QED
        BY <4>1, <3>1, <2>4, <1>13
    <3>3. \A b \in heads : b >= e => least[q].len <= Runs(n, free)[b]
      BY <3>1, <3>2, <1>a
    <3>4. CASE least[q].len < r.len
      BY <3>2, <3>3, <3>4, <2>1, <2>5, <2>7, <1>13, <1>a
    <3>5. CASE ~ (least[q].len < r.len)
      <4>1. least[r] = r
        BY <3>5, <2>5, <2>7
      <4>2. \A b \in heads : b >= e => r.len <= Runs(n, free)[b]
        BY <3>2, <3>3, <3>5, <1>13, <1>a, <1>b
      <4>3. QED
        BY <4>1, <4>2, <2>1, <1>13, <1>a
    <3>6. QED
      BY <3>4, <3>5
  <2>8. QED
    BY <2>6, <2>7
<1> DEFINE S == {k \in Nat : \A r \in R : IsLong(r) /\ n - r.begin <= k => Q(r)}
<1> HIDE DEF Q
<1>14. 0 \in S
  BY <1>a
<1>15. ASSUME NEW k \in Nat, k \in S
       PROVE  k + 1 \in S
  <2>1. ASSUME NEW r \in R, IsLong(r), n - r.begin <= k + 1
        PROVE  Q(r)
    <3>1. \A q \in R : IsLong(q) /\ q.begin > r.begin => n - q.begin <= k
      BY <2>1, <1>a
    <3>2. \A q \in R : IsLong(q) /\ q.begin > r.begin => Q(q)
      BY <3>1, <1>15
    <3>3. QED
      BY <2>1, <3>2, <1>13
  <2>2. QED
    BY <2>1
<1>16. Nat \subseteq S
  <2> HIDE DEF S
  <2>1. QED
    BY <1>14, <1>15, Induction
<1>17. \A r \in R : IsLong(r) => Q(r)
  <2>1. n \in S
    BY <1>16
  <2>2. QED
    BY <2>1, <1>a
<1>18. 0 \in D
  BY DEF D
<1>19. CASE first(0) = NoRange /\ first(0).len = 0 /\ LongFrom(n, free, aligned, min, 0) = {}
  BY <1>19, <1>11, <1>3, <1>18 DEF IsShortest
<1>20. CASE /\ IsLong(first(0)) /\ first(0).len # 0
            /\ \A b \in heads : b >= 0 => b = first(0).begin \/ b >= first(0).begin + first(0).len
  <2>1. PICK r : r = first(0)
    OBVIOUS
  <2>2. r \in R /\ r = found[0] /\ IsLong(r)
    BY <2>1, <1>20, <1>3, <1>18
  <2>3. Q(r)
    BY <2>2, <1>17
  <2>4. ShortestRun(n, found) = least[r]
    BY <2>1, <2>2, <1>11, <1>20
  <2>5. \A b \in heads : least[r].len <= Runs(n, free)[b]
    BY <2>1, <2>2, <2>3, <1>20, <1>a, <1>b DEF Q
  <2>6. \E c \in long : least[r] = RangeAt(n, free, c)
    BY <2>3 DEF Q, IsLong
  <2>7. QED
    BY <2>4, <2>5, <2>6 DEF heads, long, IsShortest
<1>21. QED
  BY <1>18, <1>19, <1>20, <1>2

-----------------------------------------------------------------------------
(* The range of a request                                                    *)

\* Where enough blocks in a row are free.
RangesFit(free, aligned, min) == {b \in aligned : b .. b + min - 1 \subseteq free}

\* The places that fit are those whose run is long enough.
LEMMA FitsAreLong ==
    ASSUME NEW n \in Nat, NEW free, free \subseteq 0 .. n - 1,
           NEW aligned, aligned \subseteq 0 .. n - 1, NEW min \in Nat \ {0}
    PROVE  RangesFit(free, aligned, min) = LongFrom(n, free, aligned, min, 0)
<1>1. ASSUME NEW b \in aligned
      PROVE  b .. b + min - 1 \subseteq free <=> b >= 0 /\ Runs(n, free)[b] >= min
  <2>1. b \in 0 .. n - 1 /\ b \in 0 .. n
    OBVIOUS
  <2>2. InARow(n, free, b, Runs(n, free)[b])
    BY <2>1, RunsAreInARow
  <2>3. b .. b + min - 1 \subseteq free <=> min <= Runs(n, free)[b]
    BY <2>1, <2>2, RunsAreLongest
  <2>4. Runs(n, free)[b] \in Nat
    BY <2>1, RunsEquation
  <2>5. QED
    BY <2>1, <2>3, <2>4
<1>2. QED
  BY <1>1 DEF RangesFit, LongFrom

\* How long the run is that begins at a block, as the blocks tell.
LEMMA LongestRun ==
    ASSUME NEW n \in Nat, NEW free, free \subseteq 0 .. n - 1, NEW b \in 0 .. n - 1,
           Runs(n, free)[b] # 0
    PROVE  Max({k \in 1 .. n : b .. b + k - 1 \subseteq free}) = Runs(n, free)[b]
<1>1. PICK l : l = Runs(n, free)[b]
  OBVIOUS
<1>2. b \in 0 .. n
  OBVIOUS
<1>3. InARow(n, free, b, l)
  BY <1>1, <1>2, RunsAreInARow
<1>4. l \in 1 .. n
  BY <1>1, <1>3 DEF InARow
<1>5. PICK T : T = {k \in 1 .. n : b .. b + k - 1 \subseteq free}
  OBVIOUS
<1>6. ASSUME NEW k \in 1 .. n
      PROVE  k \in T <=> k <= l
  <2>1. k \in Nat \ {0}
    OBVIOUS
  <2>2. b .. b + k - 1 \subseteq free <=> k <= l
    BY <2>1, <1>3, RunsAreLongest
  <2>3. QED
    BY <2>2, <1>5
<1>7. l \in T /\ T \subseteq Int /\ \A k \in T : l >= k
  BY <1>4, <1>5, <1>6
<1>8. Max(T) \in T /\ \A k \in T : Max(T) >= k
  BY <1>7 DEF Max
<1>9. Max(T) = l
  <2>1. PICK x : x = Max(T)
    OBVIOUS
  <2>2. x \in Int /\ l \in Int /\ x >= l /\ l >= x
    BY <2>1, <1>4, <1>7, <1>8
  <2>3. x = l
    BY <2>2
  <2>4. QED
    BY <2>1, <2>3
<1>10. QED
  BY <1>1, <1>5, <1>9

\* What alloc_block_range of block_states.hpp finds: nothing only if nothing
\* fits; the first fit; or a fit in a run no longer than any it could have cut.
RightRange(n, free, aligned, min, best, range) ==
  LET fits == RangesFit(free, aligned, min)
      run  == Runs(n, free)
  IN  /\ range = [begin |-> range.begin, len |-> range.len]
      /\ IF fits = {} THEN range.len = 0
         ELSE /\ range.len = min /\ range.begin \in fits
              /\ IF best THEN \A b \in Heads(free, aligned, fits) : run[range.begin] <= run[b]
                 ELSE range.begin = Min(fits)

\* RangeFor finds the right range in any bitmap.
THEOREM RangeForIsRight ==
    ASSUME NEW n \in Nat, NEW free, free \subseteq 0 .. n - 1,
           NEW aligned, aligned \subseteq 0 .. n - 1, NEW min \in Nat \ {0}, NEW best \in BOOLEAN
    PROVE  RightRange(n, free, aligned, min, best, RangeFor(n, free, aligned, min, best))
<1>1. PICK found : found = RunsFound(n, free, aligned, min)
  OBVIOUS
<1>2. PICK long : long = LongFrom(n, free, aligned, min, 0)
  OBVIOUS
<1>3. RangesFit(free, aligned, min) = long
  BY <1>2, FitsAreLong
<1>4. PICK range : range = IF best THEN ShortestRun(n, found) ELSE found[0]
  OBVIOUS
<1>5. PICK taken : taken = [range EXCEPT !.len = Min({range.len, min})]
  OBVIOUS
<1>6. RangeFor(n, free, aligned, min, best) = taken
  BY <1>1, <1>4, <1>5 DEF RangeFor
<1>7. found[0] = FirstLong(n, free, aligned, min, 0)
  <2>1. found = FirstLongs(n, free, aligned, min)
    BY <1>1, RunsFoundIsFirst
  <2>2. 0 \in 0 .. n
    OBVIOUS
  <2>3. QED
    BY <2>1, <2>2 DEF FirstLongs
<1>8. \A c \in long : /\ c \in 0 .. n - 1 /\ c \in Nat
                      /\ Runs(n, free)[c] \in Nat /\ Runs(n, free)[c] >= min
  <2>1. \A c \in long : c \in 0 .. n - 1 /\ Runs(n, free)[c] >= min
    BY <1>2 DEF LongFrom
  <2>2. QED
    BY <2>1, RunsEquation
<1>9. /\ long = {} => range = NoRange
      /\ long # {} => \E c \in long :
                        /\ range = RangeAt(n, free, c)
                        /\ IF best THEN \A b \in Heads(free, aligned, long) : range.len <= Runs(n, free)[b]
                           ELSE c = Min(long)
  <2>1. CASE best
    <3>1. range = ShortestRun(n, found)
      BY <1>4, <2>1
    <3>2. IF long = {} THEN range = NoRange
          ELSE /\ \E c \in long : range = RangeAt(n, free, c)
               /\ \A b \in Heads(free, aligned, long) : range.len <= Runs(n, free)[b]
      <4>1. IsShortest(n, free, aligned, min, ShortestRun(n, found))
        BY <1>1, ShortestRunIsShortest
      <4>2. QED
        BY <4>1, <3>1, <1>2 DEF IsShortest
    <3>3. CASE long = {}
      BY <3>2, <3>3
    <3>4. CASE long # {}
      BY <3>2, <3>4, <2>1
    <3>5. QED
      BY <3>3, <3>4
  <2>2. CASE ~ best
    <3>1. range = FirstLong(n, free, aligned, min, 0)
      BY <1>4, <1>7, <2>2
    <3>2. long # {} => Min(long) \in long
      <4>1. long \subseteq Nat
        BY <1>8
      <4>2. QED
        BY <4>1, MinIsLeast
    <3>3. QED
      BY <3>1, <3>2, <1>2, <2>2 DEF FirstLong
  <2>3. QED
    BY <2>1, <2>2
<1>10. CASE long = {}
  <2>1. range = [begin |-> 0, len |-> 0]
    BY <1>9, <1>10 DEF NoRange
  <2>2. Min({0, min}) = 0
    BY MinOfTwo
  <2>3. taken = [begin |-> 0, len |-> 0]
    BY <2>1, <2>2, <1>5
  <2>4. QED
    BY <2>3, <1>3, <1>6, <1>10 DEF RightRange
<1>11. CASE long # {}
  <2>1. PICK c \in long :
               /\ range = RangeAt(n, free, c)
               /\ IF best THEN \A b \in Heads(free, aligned, long) : range.len <= Runs(n, free)[b]
                  ELSE c = Min(long)
    BY <1>9, <1>11
  <2>2. range = [begin |-> c, len |-> Runs(n, free)[c]]
    BY <2>1 DEF RangeAt
  <2>3. Min({Runs(n, free)[c], min}) = min
    <3>1. Runs(n, free)[c] \in Nat /\ Runs(n, free)[c] >= min
      BY <1>8
    <3>2. CASE Runs(n, free)[c] = min
      <4>1. Min({Runs(n, free)[c], min}) = Runs(n, free)[c]
        BY <3>1, <3>2, MinOfTwo
      <4>2. QED
        BY <3>2, <4>1
    <3>3. CASE Runs(n, free)[c] # min
      <4>1. ~ (Runs(n, free)[c] <= min)
        BY <3>1, <3>3
      <4>2. QED
        BY <3>1, <4>1, MinOfTwo
    <3>4. QED
      BY <3>2, <3>3
  <2>4. taken = [begin |-> c, len |-> min]
    BY <2>2, <2>3, <1>5
  <2>5. IF best THEN \A b \in Heads(free, aligned, long) : Runs(n, free)[c] <= Runs(n, free)[b]
        ELSE c = Min(long)
    BY <2>1, <2>2
  <2>6. QED
    BY <2>4, <2>5, <1>3, <1>6, <1>11 DEF RightRange
<1>12. QED
  BY <1>10, <1>11

-----------------------------------------------------------------------------
(* Functions that are defined from their last place down                     *)

\* Induction from the last index down.
LEMMA DownwardInduction ==
    ASSUME NEW n \in Nat, NEW T, n \in T, \A i \in 0 .. n - 1 : i + 1 \in T => i \in T
    PROVE  0 .. n \subseteq T
<1> DEFINE S == {k \in Nat : k <= n => n - k \in T}
<1>1. 0 \in S
  OBVIOUS
<1>2. ASSUME NEW k \in Nat, k \in S
      PROVE  k + 1 \in S
  <2>1. SUFFICES ASSUME k + 1 <= n PROVE n - (k + 1) \in T
    OBVIOUS
  <2>2. n - k \in T
    BY <1>2, <2>1
  <2>3. n - (k + 1) \in 0 .. n - 1 /\ (n - (k + 1)) + 1 = n - k
    BY <2>1
  <2>4. QED
    BY <2>2, <2>3
<1>3. Nat \subseteq S
  <2> HIDE DEF S
  <2>1. QED
    BY <1>1, <1>2, Induction
<1>4. ASSUME NEW i \in 0 .. n
      PROVE  i \in T
  <2>1. n - i \in Nat /\ n - i <= n /\ n - (n - i) = i
    OBVIOUS
  <2>2. n - i \in S
    BY <1>3, <2>1
  <2>3. QED
    BY <2>1, <2>2
<1>5. QED
  BY <1>4

\* Such a function has a last value and a step from each place to the one below.
Stepwise(n, V, last, step) ==
  n \in Nat /\ last \in V /\ step \in [0 .. n - 1 -> [V -> V]]
StepsDown(n, V, last, step, f) ==
  f \in [0 .. n -> V] /\ f[n] = last /\ \A i \in 0 .. n - 1 : f[i] = step[i][f[i + 1]]

\* A function that each index defines from the next one exists.
LEMMA DownwardRecursion ==
    ASSUME NEW n, NEW V, NEW last, NEW step, Stepwise(n, V, last, step)
    PROVE  \E f : StepsDown(n, V, last, step, f)
<1>0. n \in Nat /\ last \in V /\ step \in [0 .. n - 1 -> [V -> V]]
  BY DEF Stepwise
<1> DEFINE D == 0 .. n
           m == [i \in D |-> n - i]
           G == [i \in D |-> [f \in [D -> V] |-> IF i = n THEN last ELSE step[i][f[i + 1]]]]
<1>1. m \in [D -> 0 .. n]
  BY <1>0
<1>2. G \in [D -> [[D -> V] -> V]]
  <2>1. ASSUME NEW i \in D, NEW f \in [D -> V], i # n
        PROVE  step[i][f[i + 1]] \in V
    <3>1. i \in 0 .. n - 1 /\ i + 1 \in D
      BY <2>1, <1>0
    <3>2. QED
      BY <3>1, <1>0
  <2>2. QED
    BY <2>1, <1>0
<1>3. ASSUME NEW x \in D, NEW g \in [D -> V], NEW h \in [D -> V],
             \A y \in D : m[y] < m[x] => g[y] = h[y]
      PROVE  G[x][g] = G[x][h]
  <2>1. CASE x = n
    BY <2>1
  <2>2. CASE x # n
    <3>1. x + 1 \in D /\ m[x + 1] < m[x]
      BY <2>2, <1>0
    <3>2. g[x + 1] = h[x + 1]
      BY <1>3, <3>1
    <3>3. QED
      BY <2>2, <3>2
  <2>3. QED
    BY <2>1, <2>2
<1>4. Recursive(D, V, n, m, G)
  <2> HIDE DEF D, m, G
  <2>1. QED
    BY <1>0, <1>1, <1>2, <1>3 DEF Recursive
<1>5. PICK f \in [D -> V] : \A x \in D : f[x] = G[x][f]
  <2> HIDE DEF D, m, G
  <2>1. QED
    BY <1>4, BoundedRecursion
<1>6. f[n] = last
  <2>1. n \in D
    BY <1>0
  <2>2. QED
    BY <1>5, <2>1
<1>7. \A i \in 0 .. n - 1 : f[i] = step[i][f[i + 1]]
  <2>1. \A i \in 0 .. n - 1 : i \in D /\ i # n
    BY <1>0
  <2>2. QED
    BY <1>5, <2>1
<1>8. QED
  BY <1>6, <1>7 DEF StepsDown

\* SumsAbove adds up what it says.
LEMMA SumsEquation ==
    ASSUME NEW N \in Nat \ {0}, NEW f \in [0 .. N - 1 -> Nat]
    PROVE  /\ SumsAbove(N, f) \in [0 .. N - 1 -> Nat]
           /\ SumsAbove(N, f)[N - 1] = 0
           /\ \A i \in 0 .. N - 2 : SumsAbove(N, f)[i] = SumsAbove(N, f)[i + 1] + f[i + 1]
<1> DEFINE D == 0 .. N - 1
           P(s) == s = [i \in D |-> IF i = N - 1 THEN 0 ELSE s[i + 1] + f[i + 1]]
           step == [i \in 0 .. (N - 1) - 1 |-> [v \in Nat |-> v + f[i + 1]]]
<1>1. step \in [0 .. (N - 1) - 1 -> [Nat -> Nat]]
  <2>1. \A i \in 0 .. (N - 1) - 1 : f[i + 1] \in Nat
    OBVIOUS
  <2>2. QED
    BY <2>1
<1>2. PICK g \in [D -> Nat] : /\ g[N - 1] = 0
                              /\ \A i \in 0 .. (N - 1) - 1 : g[i] = step[i][g[i + 1]]
  <2>1. Stepwise(N - 1, Nat, 0, step)
    BY <1>1 DEF Stepwise
  <2> HIDE DEF step
  <2>2. PICK g : StepsDown(N - 1, Nat, 0, step, g)
    BY <2>1, DownwardRecursion
  <2>3. QED
    BY <2>2 DEF StepsDown
<1>3. \A i \in 0 .. (N - 1) - 1 : g[i] = g[i + 1] + f[i + 1]
  <2>1. \A i \in 0 .. (N - 1) - 1 : g[i + 1] \in Nat
    OBVIOUS
  <2>2. QED
    BY <1>2, <2>1
<1>4. P(g)
  BY <1>2, <1>3
<1>5. PICK s : s = CHOOSE t : P(t)
  OBVIOUS
<1>6. P(s)
  <2> HIDE DEF P
  <2>1. QED
    BY <1>4, <1>5
<1>7. SumsAbove(N, f) = s
  BY <1>5 DEF SumsAbove
<1>8. s[N - 1] = 0 /\ \A i \in 0 .. N - 2 : s[i] = s[i + 1] + f[i + 1]
  BY <1>6
<1>9. \A i \in D : s[i] \in Nat
  <2> DEFINE T == {i \in D : s[i] \in Nat}
  <2>1. N - 1 \in Nat /\ N - 1 \in T
    BY <1>8
  <2>2. ASSUME NEW i \in 0 .. (N - 1) - 1, i + 1 \in T
        PROVE  i \in T
    <3>1. i \in 0 .. N - 2 /\ f[i + 1] \in Nat
      OBVIOUS
    <3>2. QED
      BY <1>8, <2>2, <3>1, SMTT(20)
  <2> HIDE DEF T
  <2>3. D \subseteq T
    BY <2>1, <2>2, DownwardInduction
  <2>4. QED
    BY <2>3 DEF T
<1>10. QED
  BY <1>6, <1>7, <1>8, <1>9

-----------------------------------------------------------------------------
(* The blocks of the containers                                              *)

\* Max is the greatest member.
LEMMA GreatestOf ==
    ASSUME NEW n \in Nat, NEW T, T \subseteq 0 .. n, T # {}
    PROVE  Max(T) \in T /\ \A y \in T : Max(T) >= y
<1>1. \A y \in T : y \in Nat /\ y <= n
  OBVIOUS
<1>2. PICK U : U = {n - y : y \in T}
  OBVIOUS
<1>3. U \subseteq Nat /\ U # {}
  <2>1. \A y \in T : n - y \in Nat /\ n - y \in U
    BY <1>1, <1>2
  <2>2. PICK y \in T : TRUE
    OBVIOUS
  <2>3. n - y \in U
    BY <2>1
  <2>4. QED
    BY <2>1, <2>3, <1>2
<1>4. PICK x \in U : \A y \in U : x <= y
  BY <1>3, SmallestOf
<1>5. PICK z \in T : x = n - z
  BY <1>2
<1>6. ASSUME NEW y \in T
      PROVE  z >= y
  <2>1. n - y \in U
    BY <1>2
  <2>2. n - z <= n - y
    BY <2>1, <1>4, <1>5
  <2>3. QED
    BY <2>2, <1>1
<1>7. QED
  BY <1>6 DEF Max

\* The bits of more blocks are no fewer bytes.
LEMMA BitBytesGrow ==
    ASSUME NEW count \in Nat, NEW more \in Nat
    PROVE  BitBytes(count) \in Nat /\ BitBytes(count + more) \in Nat
           /\ BitBytes(count) <= BitBytes(count + more)
BY DEF BitBytes, CeilDiv

\* What the containers take, up to the last one and including it.
Taken(N, counts) ==
  LET data == [i \in 0 .. N - 1 |-> counts[i] * 2^i]
      bits == [i \in 0 .. N - 1 |-> BitBytes(counts[i])]
  IN  SumsAbove(N, data)[0] + data[0] + SumsAbove(N, bits)[0] + bits[0]

\* It is a number.
LEMMA TakenType ==
    ASSUME NEW N \in Nat \ {0}, NEW counts \in [0 .. N - 1 -> Nat]
    PROVE  Taken(N, counts) \in Nat
<1>1. PICK data : data = [i \in 0 .. N - 1 |-> counts[i] * 2^i]
  OBVIOUS
<1>2. PICK bits : bits = [i \in 0 .. N - 1 |-> BitBytes(counts[i])]
  OBVIOUS
<1>3. data \in [0 .. N - 1 -> Nat]
  <2>1. ASSUME NEW i \in 0 .. N - 1
        PROVE  counts[i] * 2^i \in Nat
    <3>1. PICK x \in Nat, y \in Nat : x = counts[i] /\ y = 2^i
      BY PowerType
    <3>2. QED
      BY <3>1, x * y \in Nat
  <2>2. QED
    BY <2>1, <1>1
<1>4. bits \in [0 .. N - 1 -> Nat]
  <2>1. \A i \in 0 .. N - 1 : BitBytes(counts[i]) \in Nat
    BY DEF BitBytes, CeilDiv
  <2>2. QED
    BY <2>1, <1>2
<1>5. 0 \in 0 .. N - 1
  OBVIOUS
<1>6. PICK d \in [0 .. N - 1 -> Nat] : d = SumsAbove(N, data)
  BY <1>3, SumsEquation
<1>7. PICK e \in [0 .. N - 1 -> Nat] : e = SumsAbove(N, bits)
  BY <1>4, SumsEquation
<1>8. Taken(N, counts) = d[0] + data[0] + e[0] + bits[0]
  BY <1>1, <1>2, <1>6, <1>7 DEF Taken
<1>9. QED
  BY <1>3, <1>4, <1>5, <1>6, <1>7, <1>8

\* room is what each container finds of "left", of which the containers above it
\* have taken what they have beyond the base count.
Rooms(N, counts, base, left, room) ==
  /\ counts \in [0 .. N - 1 -> Nat] /\ base \in Nat /\ left \in Int
  /\ room \in [0 .. N - 1 -> Int] /\ room[N - 1] = left
  /\ \A i \in 0 .. N - 2 :
       room[i] = room[i + 1] - ((counts[i + 1] - base) * 2^(i + 1)
                                + BitBytes(counts[i + 1]) - BitBytes(base))

\* Then what they take together follows from the room of the last one.
LEMMA TakenByRoom ==
    ASSUME NEW N \in Nat \ {0}, NEW counts, NEW base \in Nat, NEW left \in Int, NEW room,
           Rooms(N, counts, base, left, room)
    PROVE  Taken(N, counts) = (2^N - 1) * base + N * BitBytes(base) + left - room[0]
                              + (counts[0] - base) + BitBytes(counts[0]) - BitBytes(base)
<1> DEFINE data == [i \in 0 .. N - 1 |-> counts[i] * 2^i]
           bits == [i \in 0 .. N - 1 |-> BitBytes(counts[i])]
<1>1. \A i \in 0 .. N : i \in Nat /\ 2^i \in Nat \ {0}
  BY PowerType
<1>2. \A i \in 0 .. N - 1 : 2^(i + 1) = 2 * 2^i
  BY PowerDoubles
<1>3. PICK w : w = [i \in 0 .. N |-> 2^i]
  OBVIOUS
<1>4. /\ w \in [0 .. N -> Nat \ {0}] /\ \A i \in 0 .. N : w[i] = 2^i
      /\ \A i \in 0 .. N - 1 : w[i + 1] = 2 * w[i]
      /\ w[0] = 1
  <2>1. w \in [0 .. N -> Nat \ {0}] /\ \A i \in 0 .. N : w[i] = 2^i
    BY <1>1, <1>3
  <2>2. \A i \in 0 .. N - 1 : i \in 0 .. N /\ i + 1 \in 0 .. N
    OBVIOUS
  <2>3. \A i \in 0 .. N - 1 : w[i + 1] = 2 * w[i]
    BY <2>1, <2>2, <1>2
  <2>4. 0 \in 0 .. N /\ 2^0 = 1
    OBVIOUS
  <2>5. w[0] = 1
    BY <2>1, <2>4
  <2>6. QED
    BY <2>1, <2>3, <2>5
<1>5. PICK b \in Nat : b = BitBytes(base)
  BY DEF BitBytes, CeilDiv
<1>6. PICK k : k = bits
  OBVIOUS
<1>7. counts \in [0 .. N - 1 -> Nat] /\ room \in [0 .. N - 1 -> Int] /\ room[N - 1] = left
  BY DEF Rooms
<1>8. k \in [0 .. N - 1 -> Nat] /\ \A i \in 0 .. N - 1 : k[i] = BitBytes(counts[i])
  <2>1. \A i \in 0 .. N - 1 : counts[i] \in Nat
    BY <1>7
  <2>2. \A i \in 0 .. N - 1 : BitBytes(counts[i]) \in Nat
    BY <2>1 DEF BitBytes, CeilDiv
  <2>3. QED
    BY <2>2, <1>6
<1>9. PICK c : c = data
  OBVIOUS
<1>10. c \in [0 .. N - 1 -> Nat] /\ \A i \in 0 .. N - 1 : c[i] = counts[i] * w[i]
  <2>1. \A i \in 0 .. N - 1 : i \in 0 .. N /\ c[i] = counts[i] * w[i]
    BY <1>4, <1>9
  <2>2. ASSUME NEW i \in 0 .. N - 1
        PROVE  c[i] \in Nat
    <3>1. PICK x \in Nat : x = counts[i]
      BY <1>7
    <3>2. PICK y \in Nat : y = w[i]
      BY <2>1, <1>4
    <3>3. x * y \in Nat
      OBVIOUS
    <3>4. QED
      BY <3>1, <3>2, <3>3, <2>1
  <2>3. QED
    BY <2>1, <2>2, <1>9
<1>11. PICK d : d = SumsAbove(N, c)
  OBVIOUS
<1>12. PICK e : e = SumsAbove(N, k)
  OBVIOUS
<1>13. /\ d \in [0 .. N - 1 -> Nat] /\ d[N - 1] = 0
       /\ \A i \in 0 .. N - 2 : d[i] = d[i + 1] + c[i + 1]
  BY <1>10, <1>11, SumsEquation
<1>14. /\ e \in [0 .. N - 1 -> Nat] /\ e[N - 1] = 0
       /\ \A i \in 0 .. N - 2 : e[i] = e[i + 1] + k[i + 1]
  BY <1>8, <1>12, SumsEquation
<1> HIDE DEF data, bits
<1>15. PICK wN \in Nat : wN = w[N]
  BY <1>4
<1> DEFINE Sum(i) == d[i] + e[i] + room[i] = base * (wN - w[i + 1]) + (N - 1 - i) * b + left
           T == {i \in 0 .. N - 1 : Sum(i)}
<1>16. N - 1 \in T
  <2>1. N - 1 \in 0 .. N - 1 /\ (N - 1) + 1 = N /\ N - 1 - (N - 1) = 0
    OBVIOUS
  <2>2. base * (wN - wN) + 0 * b + left = left
    OBVIOUS
  <2>3. d[N - 1] + e[N - 1] + room[N - 1] = left
    BY <1>7, <1>13, <1>14
  <2>4. Sum(N - 1)
    BY <2>1, <2>2, <2>3, <1>15
  <2>5. QED
    BY <2>1, <2>4
<1>17. ASSUME NEW i \in 0 .. (N - 1) - 1, i + 1 \in T
       PROVE  i \in T
  <2>1. /\ i \in 0 .. N - 2 /\ i + 1 \in 0 .. N - 1 /\ i + 2 \in 0 .. N /\ i \in 0 .. N - 1
        /\ i + 1 \in 0 .. N /\ (i + 1) + 1 = i + 2
    OBVIOUS
  <2>2. PICK x \in Nat : x = counts[i + 1]
    BY <2>1, <1>7
  <2>3. PICK y \in Nat : y = w[i + 1]
    BY <2>1, <1>4
  <2>4. PICK z \in Nat : z = k[i + 1]
    BY <2>1, <1>8
  <2>5. PICK d0 \in Int, d1 \in Int : d0 = d[i] /\ d1 = d[i + 1]
    BY <2>1, <1>13
  <2>6. PICK e0 \in Int, e1 \in Int : e0 = e[i] /\ e1 = e[i + 1]
    BY <2>1, <1>14
  <2>7. PICK r0 \in Int, r1 \in Int : r0 = room[i] /\ r1 = room[i + 1]
    BY <2>1, <1>7
  <2>8. d0 = d1 + x * y /\ e0 = e1 + z
    BY <2>1, <2>2, <2>3, <2>4, <2>5, <2>6, <1>10, <1>13, <1>14
  <2>9. r0 = r1 - ((x - base) * y + z - b)
    <3>1. room[i] = room[i + 1] - ((counts[i + 1] - base) * 2^(i + 1)
                                   + BitBytes(counts[i + 1]) - BitBytes(base))
      BY <2>1 DEF Rooms
    <3>2. 2^(i + 1) = y /\ BitBytes(counts[i + 1]) = z
      BY <2>1, <2>3, <2>4, <1>4, <1>8
    <3>3. QED
      BY <3>1, <3>2, <2>2, <2>7, <1>5
  <2>10. w[i + 2] = 2 * y
    BY <2>1, <2>3, <1>4
  <2>11. PICK m \in Int : m = N - 1 - i
    OBVIOUS
  <2>12. d1 + e1 + r1 = base * (wN - 2 * y) + (m - 1) * b + left
    <3>1. Sum(i + 1)
      BY <1>17
    <3>2. N - 1 - (i + 1) = m - 1
      BY <2>11
    <3>3. QED
      BY <3>1, <3>2, <2>1, <2>5, <2>6, <2>7, <2>10
  <2>13. d0 + e0 + r0 = base * (wN - y) + m * b + left
    <3>1. (x - base) * y = x * y - base * y
      OBVIOUS
    <3>2. base * (wN - y) = base * wN - base * y /\ base * (wN - 2 * y) = base * wN - 2 * (base * y)
      OBVIOUS
    <3>3. (m - 1) * b = m * b - b
      OBVIOUS
    <3>4. QED
      BY <3>1, <3>2, <3>3, <2>8, <2>9, <2>12
  <2>14. Sum(i)
    BY <2>3, <2>5, <2>6, <2>7, <2>11, <2>13
  <2>15. QED
    BY <2>1, <2>14
<1>18. 0 \in T
  <2>1. N - 1 \in Nat /\ 0 \in 0 .. N - 1
    OBVIOUS
  <2> HIDE DEF T
  <2>2. 0 .. N - 1 \subseteq T
    BY <1>16, <1>17, <2>1, DownwardInduction
  <2>3. QED
    BY <2>1, <2>2
<1>19. 0 \in 0 .. N - 1
  OBVIOUS
<1>20. PICK d0 \in Int, e0 \in Int, r0 \in Int, c0 \in Int, k0 \in Int :
         d0 = d[0] /\ e0 = e[0] /\ r0 = room[0] /\ c0 = counts[0] /\ k0 = k[0]
  BY <1>19, <1>7, <1>8, <1>13, <1>14
<1>21. d0 + e0 + r0 = base * (wN - 2) + (N - 1) * b + left
  <2>1. w[0 + 1] = 2
    BY <1>4, <1>19
  <2>2. Sum(0)
    BY <1>18
  <2>3. N - 1 - 0 = N - 1
    OBVIOUS
  <2>4. QED
    BY <2>1, <2>2, <2>3, <1>20
<1>22. Taken(N, counts) = d0 + c0 + e0 + k0
  <2>1. c[0] = c0 * 1
    BY <1>4, <1>10, <1>19, <1>20
  <2>2. Taken(N, counts) = d[0] + c[0] + e[0] + k[0]
    BY <1>6, <1>9, <1>11, <1>12 DEF Taken, data, bits
  <2>3. QED
    BY <2>1, <2>2, <1>20
<1>23. d0 + c0 + e0 + k0 = (wN - 1) * base + N * b + left - r0 + (c0 - base) + k0 - b
  <2>1. base * (wN - 2) = base * wN - 2 * base /\ (wN - 1) * base = base * wN - base
    OBVIOUS
  <2>2. PICK n \in Int : n = N
    OBVIOUS
  <2>3. (n - 1) * b = n * b - b
    OBVIOUS
  <2>4. QED
    BY <2>1, <2>2, <2>3, <1>21
<1>24. wN = 2^N /\ k0 = BitBytes(counts[0])
  <2>1. N \in 0 .. N
    OBVIOUS
  <2>2. QED
    BY <2>1, <1>4, <1>8, <1>15, <1>19, <1>20
<1>25. QED
  BY <1>5, <1>20, <1>22, <1>23, <1>24

\* What is left below a power of two, after the bit below it is taken off.
LEMMA BitTakenOff ==
    ASSUME NEW x \in Nat, NEW p \in Nat \ {0}
    PROVE  (x % (2 * p)) - ((x \div p) % 2) * p = x % p
<1>1. PICK q \in Int, r \in Int : q = x \div p /\ r = x % p /\ x = p * q + r /\ 0 <= r /\ r < p
  OBVIOUS
<1>2. PICK e \in Int, o \in Int : e = q \div 2 /\ o = q % 2 /\ q = 2 * e + o /\ (o = 0 \/ o = 1)
  OBVIOUS
<1>3. PICK t \in Nat \ {0}, u \in Int : t = 2 * p /\ u = o * p /\ (u = 0 \/ u = p)
  <2>1. o * p = 0 \/ o * p = p
    BY <1>2
  <2>2. QED
    BY <2>1
<1>4. PICK s \in Int : s = u + r /\ 0 <= s /\ s < t
  BY <1>1, <1>3
<1>5. PICK f \in Int : f = t * e /\ p * q = f + u
  <2>1. p * (2 * e + o) = (2 * p) * e + o * p
    OBVIOUS
  <2>2. QED
    BY <2>1, <1>2, <1>3
<1>6. x = t * e + s
  BY <1>1, <1>4, <1>5
<1>7. x \div t = e
  BY <1>4, <1>6
<1>8. x % t = s
  BY <1>4, <1>6, <1>7
<1>9. s - u = r
  BY <1>4
<1>10. QED
  BY <1>1, <1>2, <1>3, <1>8, <1>9

\* Growing the containers from the base count takes no more than is left.
LEMMA GrownCountsFit ==
    ASSUME NEW N \in Nat \ {0}, NEW base \in Nat, NEW left \in Nat
    PROVE  /\ GrownCounts(N, base, left) \in [0 .. N - 1 -> Nat]
           /\ Taken(N, GrownCounts(N, base, left)) <= (2^N - 1) * base + N * BitBytes(base) + left
<1> DEFINE D == 0 .. N - 1
           cost(i, more) == more * 2^i + BitBytes(base + more) - BitBytes(base)
           fit(i, rest) == Max({more \in 0 .. rest : cost(i, more) <= rest})
           P(f) == f = [i \in D |-> IF i = N - 1 THEN left
                                    ELSE f[i + 1] - cost(i + 1, fit(i + 1, f[i + 1]))]
           step == [i \in 0 .. (N - 1) - 1 |-> [v \in Nat |-> v - cost(i + 1, fit(i + 1, v))]]
<1>1. ASSUME NEW i \in Nat, NEW v \in Nat
      PROVE  fit(i, v) \in Nat /\ cost(i, fit(i, v)) <= v /\ cost(i, fit(i, v)) \in Nat
  <2>1. PICK w \in Nat : w = 2^i
    BY PowerType
  <2>2. PICK b \in Nat : b = BitBytes(base)
    BY DEF BitBytes, CeilDiv
  <2>3. cost(i, 0) = 0
    <3>1. 0 * w = 0 /\ base + 0 = base /\ b - b = 0
      OBVIOUS
    <3>2. QED
      BY <3>1, <2>1, <2>2
  <2>4. PICK T : T = {more \in 0 .. v : cost(i, more) <= v}
    OBVIOUS
  <2>5. 0 \in T /\ T \subseteq 0 .. v
    <3> HIDE DEF cost
    <3>1. QED
      BY <2>3, <2>4
  <2>6. Max(T) \in T
    BY <2>5, GreatestOf
  <2>7. PICK m \in Nat : m = Max(T) /\ m \in T
    <3>1. \A y \in T : y \in Nat
      BY <2>5
    <3>2. QED
      BY <3>1, <2>6
  <2>8. fit(i, v) = m /\ cost(i, m) <= v
    <3> HIDE DEF cost
    <3>1. QED
      BY <2>4, <2>7
  <2>9. cost(i, m) \in Nat
    <3>1. PICK k \in Nat : k = BitBytes(base + m) /\ b <= k
      BY <2>2, BitBytesGrow
    <3>2. m * w \in Nat
      OBVIOUS
    <3>3. m * w + k - b \in Nat
      BY <3>1, <3>2
    <3>4. QED
      BY <3>1, <3>3, <2>1, <2>2
  <2>10. QED
    BY <2>8, <2>9
<1> HIDE DEF cost, fit
<1>2. step \in [0 .. (N - 1) - 1 -> [Nat -> Nat]]
  <2>1. ASSUME NEW i \in 0 .. (N - 1) - 1, NEW v \in Nat
        PROVE  v - cost(i + 1, fit(i + 1, v)) \in Nat
    <3>1. i + 1 \in Nat
      OBVIOUS
    <3>2. QED
      BY <3>1, <1>1
  <2>2. QED
    BY <2>1
<1>3. PICK g : StepsDown(N - 1, Nat, left, step, g)
  <2>1. Stepwise(N - 1, Nat, left, step)
    BY <1>2 DEF Stepwise
  <2> HIDE DEF step
  <2>2. QED
    BY <2>1, DownwardRecursion
<1>4. P(g)
  <2>1. g \in [D -> Nat] /\ g[N - 1] = left
    BY <1>3 DEF StepsDown
  <2>2. ASSUME NEW i \in D, i # N - 1
        PROVE  g[i] = g[i + 1] - cost(i + 1, fit(i + 1, g[i + 1]))
    <3>1. i \in 0 .. (N - 1) - 1 /\ i + 1 \in D
      BY <2>2
    <3>2. g[i] = step[i][g[i + 1]]
      BY <3>1, <1>3 DEF StepsDown
    <3>3. g[i + 1] \in Nat
      BY <3>1, <2>1
    <3>4. QED
      BY <3>1, <3>2, <3>3
  <2>3. QED
    BY <2>1, <2>2
<1>5. PICK room : room = CHOOSE f : P(f)
  OBVIOUS
<1>6. P(room)
  <2> HIDE DEF P
  <2>1. QED
    BY <1>4, <1>5
<1>7. PICK counts : counts = [i \in D |-> base + fit(i, room[i])]
  OBVIOUS
<1>8. GrownCounts(N, base, left) = counts
  BY <1>5, <1>7 DEF GrownCounts, cost, fit
<1>9. /\ room[N - 1] = left
      /\ \A i \in 0 .. (N - 1) - 1 : room[i] = room[i + 1] - cost(i + 1, fit(i + 1, room[i + 1]))
  BY <1>6
<1>10. \A i \in D : room[i] \in Nat
  <2> DEFINE T == {i \in D : room[i] \in Nat}
  <2>1. N - 1 \in Nat /\ N - 1 \in T
    BY <1>9
  <2>2. ASSUME NEW i \in 0 .. (N - 1) - 1, i + 1 \in T
        PROVE  i \in T
    <3>1. i \in D /\ i + 1 \in Nat /\ room[i + 1] \in Nat
      BY <2>2
    <3>2. PICK x \in Nat, y \in Nat : x = room[i + 1] /\ y = cost(i + 1, fit(i + 1, x)) /\ y <= x
      BY <3>1, <1>1
    <3>3. room[i] = x - y
      BY <3>2, <1>9
    <3>4. x - y \in Nat
      BY <3>2
    <3>5. QED
      BY <3>1, <3>3, <3>4
  <2> HIDE DEF T
  <2>3. D \subseteq T
    BY <2>1, <2>2, DownwardInduction
  <2>4. QED
    BY <2>3 DEF T
<1>11. counts \in [D -> Nat] /\ \A i \in D : counts[i] = base + fit(i, room[i]) /\ fit(i, room[i]) \in Nat
  <2>1. ASSUME NEW i \in D
        PROVE  fit(i, room[i]) \in Nat
    <3>1. i \in Nat /\ room[i] \in Nat
      BY <1>10
    <3>2. QED
      BY <3>1, <1>1
  <2>2. QED
    BY <2>1, <1>7
<1>12. Rooms(N, counts, base, left, room)
  <2>1. room \in [D -> Int]
    BY <1>6, <1>10
  <2>2. ASSUME NEW i \in 0 .. N - 2
        PROVE  room[i] = room[i + 1] - ((counts[i + 1] - base) * 2^(i + 1)
                                        + BitBytes(counts[i + 1]) - BitBytes(base))
    <3>1. i \in 0 .. (N - 1) - 1 /\ i + 1 \in D
      OBVIOUS
    <3>2. PICK x \in Nat : x = fit(i + 1, room[i + 1])
      BY <3>1, <1>11
    <3>3. counts[i + 1] = base + x /\ (base + x) - base = x
      BY <3>1, <3>2, <1>11
    <3>4. room[i] = room[i + 1] - cost(i + 1, x)
      BY <3>1, <3>2, <1>9
    <3>5. QED
      BY <3>3, <3>4 DEF cost
  <2>3. QED
    BY <2>1, <2>2, <1>9, <1>11 DEF Rooms
<1>13. Taken(N, counts) = (2^N - 1) * base + N * BitBytes(base) + left - room[0]
                          + (counts[0] - base) + BitBytes(counts[0]) - BitBytes(base)
  BY <1>12, TakenByRoom
<1>14. 0 \in D
  OBVIOUS
<1>15. PICK r \in Nat, x \in Nat : r = room[0] /\ x = fit(0, room[0]) /\ counts[0] = base + x
                                   /\ cost(0, x) <= r
  BY <1>14, <1>1, <1>10, <1>11
<1>16. PICK b \in Nat, k \in Nat : b = BitBytes(base) /\ k = BitBytes(base + x)
  BY BitBytesGrow
<1>17. x + k - b <= r
  <2>1. x * 2^0 = x
    OBVIOUS
  <2>2. QED
    BY <2>1, <1>15, <1>16 DEF cost
<1>18. PICK h \in Int : h = (2^N - 1) * base + N * b
  <2>1. PICK w \in Nat : w = 2^N
    BY PowerType
  <2>2. (w - 1) * base + N * b \in Int
    OBVIOUS
  <2>3. QED
    BY <2>1, <2>2
<1>19. Taken(N, counts) = h + left - r + ((base + x) - base) + k - b
  BY <1>13, <1>15, <1>16, <1>18
<1>20. Taken(N, counts) <= h + left
  BY <1>17, <1>19
<1>21. QED
  BY <1>8, <1>11, <1>16, <1>18, <1>20

\* Bit by bit, all that is left is taken.
OddCounts(N, base, left, counts) ==
  /\ base % 8 # 0 /\ left < 2^N
  /\ counts = [i \in 0 .. N - 1 |-> base + ((left \div 2^i) % 2)]

\* The counts that split what is left by its bits take it all.
LEMMA OddCountsFit ==
    ASSUME NEW N \in Nat \ {0}, NEW base \in Nat, NEW left \in Nat, NEW counts,
           OddCounts(N, base, left, counts)
    PROVE  /\ counts \in [0 .. N - 1 -> Nat]
           /\ Taken(N, counts) = (2^N - 1) * base + N * BitBytes(base) + left
<1> DEFINE D == 0 .. N - 1
           odd(i) == (left \div 2^i) % 2
<1>1. PICK room : room = [i \in D |-> left % 2^(i + 1)]
  OBVIOUS
<1>2. ASSUME NEW i \in Nat
      PROVE  odd(i) \in {0, 1} /\ left % 2^(i + 1) \in Nat
             /\ (left % 2^(i + 1)) - odd(i) * 2^i = left % 2^i
  <2>1. PICK p \in Nat \ {0} : p = 2^i
    BY PowerType
  <2>2. 2^(i + 1) = 2 * p
    BY <2>1, PowerDoubles
  <2>3. (left \div p) % 2 \in {0, 1}
    OBVIOUS
  <2>4. left % (2 * p) \in Nat
    OBVIOUS
  <2>5. (left % (2 * p)) - ((left \div p) % 2) * p = left % p
    BY BitTakenOff
  <2>6. QED
    BY <2>1, <2>2, <2>3, <2>4, <2>5
<1> HIDE DEF odd
<1>3. /\ \A i \in D : counts[i] = base + odd(i) /\ odd(i) \in {0, 1} /\ room[i] \in Nat
      /\ counts \in [D -> Nat] /\ room \in [D -> Int]
  <2>0. \A i \in D : i \in Nat
    OBVIOUS
  <2>1. \A i \in D : odd(i) \in {0, 1} /\ left % 2^(i + 1) \in Nat
    BY <1>2, <2>0
  <2>2. counts = [i \in D |-> base + odd(i)]
    BY DEF odd, OddCounts
  <2>3. \A i \in D : base + odd(i) \in Nat
    <3>1. base + 0 \in Nat /\ base + 1 \in Nat
      OBVIOUS
    <3>2. QED
      BY <3>1, <2>1
  <2>4. counts \in [D -> Nat] /\ \A i \in D : counts[i] = base + odd(i)
    BY <2>2, <2>3
  <2>5. room \in [D -> Int] /\ \A i \in D : room[i] \in Nat
    <3>1. \A i \in D : room[i] = left % 2^(i + 1)
      BY <1>1
    <3>2. \A i \in D : room[i] \in Nat
      BY <3>1, <2>1
    <3>3. room = [i \in D |-> room[i]]
      BY <1>1
    <3>4. QED
      BY <3>2, <3>3
  <2>6. QED
    BY <2>1, <2>4, <2>5
<1>4. \A i \in D : BitBytes(counts[i]) = BitBytes(base)
  <2>1. BitBytes(base + 1) = BitBytes(base) /\ BitBytes(base + 0) = BitBytes(base)
    BY DEF BitBytes, CeilDiv, OddCounts
  <2>2. \A i \in D : counts[i] = base + 0 \/ counts[i] = base + 1
    BY <1>3
  <2>3. QED
    BY <2>1, <2>2
<1>5. room[N - 1] = left
  <2>1. N - 1 \in D /\ (N - 1) + 1 = N
    OBVIOUS
  <2>2. PICK p \in Nat \ {0} : p = 2^N
    BY PowerType
  <2>3. left % p = left
    BY <2>2 DEF OddCounts
  <2>4. QED
    BY <2>1, <2>2, <2>3, <1>1
<1>6. Rooms(N, counts, base, left, room)
  <2>1. ASSUME NEW i \in 0 .. N - 2
        PROVE  room[i] = room[i + 1] - ((counts[i + 1] - base) * 2^(i + 1)
                                        + BitBytes(counts[i + 1]) - BitBytes(base))
    <3>1. i \in D /\ i + 1 \in D /\ i + 1 \in Nat
      OBVIOUS
    <3>2. PICK o \in Int : o = odd(i + 1)
      BY <3>1, <1>3
    <3>3. counts[i + 1] - base = o
      BY <3>1, <3>2, <1>3
    <3>4. PICK b \in Nat : b = BitBytes(base) /\ b = BitBytes(counts[i + 1])
      BY <3>1, <1>4 DEF BitBytes, CeilDiv
    <3>5. PICK p \in Nat : p = 2^(i + 1)
      BY <3>1, PowerType
    <3>6. PICK r0 \in Int, r1 \in Int : r0 = room[i] /\ r1 = room[i + 1]
      BY <3>1, <1>3
    <3>7. r1 - o * p = r0
      <4>1. room[i + 1] = left % 2^((i + 1) + 1) /\ room[i] = left % 2^(i + 1)
        BY <3>1, <1>1
      <4>2. (left % 2^((i + 1) + 1)) - odd(i + 1) * 2^(i + 1) = left % 2^(i + 1)
        BY <3>1, <1>2
      <4>3. QED
        BY <4>1, <4>2, <3>2, <3>5, <3>6
    <3>8. r0 = r1 - (o * p + b - b)
      BY <3>7
    <3>9. QED
      BY <3>3, <3>4, <3>5, <3>6, <3>8
  <2>2. QED
    BY <2>1, <1>3, <1>5 DEF Rooms
<1>7. Taken(N, counts) = (2^N - 1) * base + N * BitBytes(base) + left - room[0]
                         + (counts[0] - base) + BitBytes(counts[0]) - BitBytes(base)
  BY <1>6, TakenByRoom
<1>8. PICK r \in Int, o \in Int : r = room[0] /\ o = odd(0) /\ counts[0] = base + o /\ r = o
  <2>1. 0 \in D
    OBVIOUS
  <2>2. room[0] = left % 2 /\ odd(0) = left % 2
    <3>1. 2^0 = 1 /\ 2^(0 + 1) = 2 /\ left \div 1 = left
      OBVIOUS
    <3>2. QED
      BY <3>1, <2>1, <1>1 DEF odd
  <2>3. QED
    BY <2>1, <2>2, <1>3
<1>9. PICK b \in Nat : b = BitBytes(base) /\ BitBytes(counts[0]) = b
  <2>1. 0 \in D
    OBVIOUS
  <2>2. QED
    BY <2>1, <1>4 DEF BitBytes, CeilDiv
<1>10. PICK h \in Int : h = (2^N - 1) * base + N * b
  <2>1. PICK w \in Nat : w = 2^N
    BY PowerType
  <2>2. (w - 1) * base + N * b \in Int
    OBVIOUS
  <2>3. QED
    BY <2>1, <2>2
<1>11. Taken(N, counts) = h + left - r + ((base + o) - base) + b - b
  BY <1>7, <1>8, <1>9, <1>10
<1>12. Taken(N, counts) = h + left
  <2>1. h + left - o + ((base + o) - base) + b - b = h + left
    OBVIOUS
  <2>2. QED
    BY <2>1, <1>8, <1>11
<1>13. QED
  BY <1>3, <1>9, <1>10, <1>12

\* The containers of an allocator and their bits fit into the bytes they are
\* computed for (calculate_block_count_for_each_container), whatever their
\* number, unless what the base counts leave is negative.
THEOREM BlockCountsFit ==
    ASSUME NEW N \in Nat \ {0}, NEW bytes \in Nat, Remainder(N, bytes) >= 0
    PROVE  /\ BlockCounts(N, bytes) \in [0 .. N - 1 -> Nat]
           /\ Taken(N, BlockCounts(N, bytes)) <= bytes
<1>1. PICK w \in Nat \ {0} : w = 2^N
  BY PowerType
<1>2. PICK base \in Nat : base = BaseCount(N, bytes)
  <2>1. N + 8 * (w - 1) \in Nat \ {0}
    OBVIOUS
  <2>2. (8 * bytes) \div (N + 8 * (w - 1)) \in Nat
    <3>1. PICK d \in Nat \ {0} : d = N + 8 * (w - 1)
      BY <2>1
    <3>2. (8 * bytes) \div d \in Nat
      OBVIOUS
    <3>3. QED
      BY <3>1, <3>2
  <2>3. QED
    BY <2>2, <1>1 DEF BaseCount
<1>3. PICK b \in Nat : b = BitBytes(base)
  BY DEF BitBytes, CeilDiv
<1>4. PICK left \in Nat : left = Remainder(N, bytes) /\ left = bytes - (w - 1) * base - b * N
  <2>1. bytes - (w - 1) * base - b * N \in Int
    OBVIOUS
  <2>2. Remainder(N, bytes) = bytes - (w - 1) * base - b * N
    BY <1>1, <1>2, <1>3 DEF Remainder
  <2>3. QED
    BY <2>1, <2>2
<1>5. PICK h \in Int : h = (2^N - 1) * base + N * BitBytes(base) /\ h + left = bytes
  <2>1. PICK h \in Int : h = (w - 1) * base + N * b
    OBVIOUS
  <2>2. b * N = N * b
    OBVIOUS
  <2>3. h + left = bytes
    BY <2>1, <2>2, <1>4
  <2>4. QED
    BY <2>1, <2>3, <1>1, <1>3
<1>6. PICK counts : counts = BlockCounts(N, bytes)
  OBVIOUS
<1>7. counts = IF base % 8 = 0 \/ left >= w
               THEN GrownCounts(N, base, IF base % 8 = 0 THEN left ELSE left - (left % w))
               ELSE [i \in 0 .. N - 1 |-> base + ((left \div 2^i) % 2)]
  BY <1>1, <1>2, <1>4, <1>6 DEF BlockCounts
<1>8. CASE base % 8 = 0 \/ left >= w
  <2>1. PICK rest \in Nat : rest <= left /\ counts = GrownCounts(N, base, rest)
    <3>1. CASE base % 8 = 0
      BY <3>1, <1>7
    <3>2. CASE ~ (base % 8 = 0)
      <4>1. left - (left % w) \in Nat /\ left - (left % w) <= left
        BY <1>8, <3>2
      <4>2. QED
        BY <4>1, <1>7, <1>8, <3>2
    <3>3. QED
      BY <3>1, <3>2
  <2>2. counts \in [0 .. N - 1 -> Nat] /\ Taken(N, counts) <= h + rest
    BY <2>1, <1>5, GrownCountsFit
  <2>3. QED
    <3>1. PICK t : t = Taken(N, counts)
      OBVIOUS
    <3>2. t \in Int
      <4>1. Taken(N, counts) \in Int
        BY <2>2, TakenType
      <4>2. QED
        BY <3>1, <4>1
    <3>3. t <= bytes
      BY <3>1, <3>2, <2>1, <2>2, <1>5
    <3>4. QED
      BY <3>1, <3>3, <2>2, <1>6
<1>9. CASE ~ (base % 8 = 0 \/ left >= w)
  <2>1. left < 2^N
    BY <1>1, <1>9
  <2>2. counts = [i \in 0 .. N - 1 |-> base + ((left \div 2^i) % 2)]
    BY <1>7, <1>9
  <2>3. base % 8 # 0
    BY <1>9
  <2>4. OddCounts(N, base, left, counts)
    BY <2>1, <2>2, <2>3 DEF OddCounts
  <2>5. /\ counts \in [0 .. N - 1 -> Nat]
        /\ Taken(N, counts) = (2^N - 1) * base + N * BitBytes(base) + left
    BY <2>4, OddCountsFit
  <2>6. QED
    BY <2>5, <1>5, <1>6
<1>10. QED
  BY <1>8, <1>9
=============================================================================
