-------------------------- MODULE AllocatorsProofs --------------------------
(***************************************************************************)
(* Every block that an allocator hands out is the client's own: the proofs  *)
(* that what the allocators of Allocators.tla do together implements        *)
(* Memory.tla and that the pool finds a place whenever there is one, for    *)
(* every layout, every set of requests and any number of blocks.            *)
(***************************************************************************)
EXTENDS Allocators, BlockRangesProofs, SequenceTheorems

-----------------------------------------------------------------------------
(* Arithmetic                                                                *)

\* One more factor is one more term.
LEMMA ProductOrder ==
    ASSUME NEW a \in Nat, NEW b \in Nat, NEW w \in Nat, a < b
    PROVE  a * w \in Nat /\ b * w \in Nat /\ a * w + w <= b * w
<1>1. PICK d \in Nat : b = (a + 1) + d
  <2>1. b - (a + 1) \in Nat /\ b = (a + 1) + (b - (a + 1))
    OBVIOUS
  <2>2. QED
    BY <2>1
<1>2. d * w \in Nat /\ a * w \in Nat
  OBVIOUS
<1>3. ((a + 1) + d) * w = a * w + w + d * w
  OBVIOUS
<1>4. QED
  BY <1>1, <1>2, <1>3

\* More factors, larger product.
LEMMA ProductGrows ==
    ASSUME NEW a \in Nat, NEW b \in Nat, NEW w \in Nat, a <= b
    PROVE  a * w \in Nat /\ b * w \in Nat /\ a * w <= b * w
<1>1. CASE a = b
  <2>1. a * w \in Nat
    OBVIOUS
  <2>2. QED
    BY <2>1, <1>1
<1>2. CASE a < b
  BY <1>2, ProductOrder
<1>3. QED
  BY <1>1, <1>2

\* An interval of l pieces of w bytes is those pieces.
Piece(d, w, b) == d + b * w .. d + (b + 1) * w - 1

\* A stretch of memory is the pieces it is cut into.
LEMMA CutUp ==
    ASSUME NEW d \in Nat, NEW w \in Nat \ {0}, NEW m \in Nat, NEW l \in Nat, NEW x
    PROVE  x \in d + m * w .. d + (m + l) * w - 1 <=> \E b \in m .. m + l - 1 : x \in Piece(d, w, b)
<1>1. ASSUME x \in d + m * w .. d + (m + l) * w - 1
      PROVE  \E b \in m .. m + l - 1 : x \in Piece(d, w, b)
  <2>1. PICK mw \in Nat, lw \in Nat : mw = m * w /\ lw = (m + l) * w
    <3>1. m * w \in Nat /\ (m + l) * w \in Nat
      OBVIOUS
    <3>2. QED
      BY <3>1
  <2>2. x \in Int /\ d + mw <= x /\ x <= d + lw - 1
    BY <1>1, <2>1
  <2>3. PICK y \in Nat : y = x - d
    BY <2>2
  <2>4. PICK b \in Int, bw \in Int : b = y \div w /\ bw = b * w /\ bw <= y /\ y < bw + w
    <3>1. y \div w \in Int /\ (y \div w) * w <= y /\ y < (y \div w) * w + w
      OBVIOUS
    <3>2. QED
      BY <3>1
  <2>5. b \in Nat
    BY <2>4
  <2>6. m <= b
    <3>1. SUFFICES ASSUME b < m PROVE FALSE
      BY <2>5
    <3>2. b * w + w <= m * w
      BY <3>1, <2>5, ProductOrder
    <3>3. QED
      BY <3>2, <2>1, <2>2, <2>3, <2>4
  <2>7. b < m + l
    <3>1. SUFFICES ASSUME m + l <= b PROVE FALSE
      BY <2>5
    <3>2. m + l \in Nat
      OBVIOUS
    <3>3. (m + l) * w <= b * w
      BY <3>1, <3>2, <2>5, ProductGrows
    <3>4. QED
      BY <3>3, <2>1, <2>2, <2>3, <2>4
  <2>8. (b + 1) * w = bw + w
    <3>1. (b + 1) * w = b * w + w
      OBVIOUS
    <3>2. QED
      BY <3>1, <2>4
  <2>9. x \in Piece(d, w, b)
    BY <2>2, <2>3, <2>4, <2>8 DEF Piece
  <2>10. QED
    BY <2>5, <2>6, <2>7, <2>9
<1>2. ASSUME NEW b \in m .. m + l - 1, x \in Piece(d, w, b)
      PROVE  x \in d + m * w .. d + (m + l) * w - 1
  <2>1. b \in Nat /\ m <= b /\ b + 1 <= m + l /\ b + 1 \in Nat /\ m + l \in Nat
    OBVIOUS
  <2>2. m * w \in Nat /\ b * w \in Nat /\ m * w <= b * w
    BY <2>1, ProductGrows
  <2>3. (b + 1) * w \in Nat /\ (m + l) * w \in Nat /\ (b + 1) * w <= (m + l) * w
    BY <2>1, ProductGrows
  <2>4. x \in Int /\ d + b * w <= x /\ x <= d + (b + 1) * w - 1
    BY <1>2, <2>2, <2>3 DEF Piece
  <2>5. PICK m1 \in Nat, b1 \in Nat, b2 \in Nat, m2 \in Nat :
          m1 = m * w /\ b1 = b * w /\ b2 = (b + 1) * w /\ m2 = (m + l) * w
    BY <2>2, <2>3
  <2>6. x \in d + m1 .. d + m2 - 1
    BY <2>2, <2>3, <2>4, <2>5
  <2>7. QED
    BY <2>5, <2>6
<1>3. QED
  BY <1>1, <1>2

\* The pieces do not overlap and none is empty.
LEMMA PiecesApart ==
    ASSUME NEW d \in Nat, NEW w \in Nat \ {0}, NEW a \in Nat, NEW b \in Nat, NEW x,
           x \in Piece(d, w, a), x \in Piece(d, w, b)
    PROVE  a = b
<1>1. \A e, f \in Nat : e < f /\ x \in Piece(d, w, e) => ~ (x \in Piece(d, w, f))
  <2>1. SUFFICES ASSUME NEW e \in Nat, NEW f \in Nat, e < f, x \in Piece(d, w, e), x \in Piece(d, w, f)
                 PROVE  FALSE
    OBVIOUS
  <2>2. PICK e1 \in Nat, f1 \in Nat : e1 = e * w /\ f1 = f * w /\ e1 + w <= f1
    BY <2>1, ProductOrder
  <2>3. PICK e2 \in Nat, f2 \in Nat : e2 = (e + 1) * w /\ f2 = (f + 1) * w /\ e2 = e1 + w /\ f2 = f1 + w
    <3>1. (e + 1) * w = e * w + w /\ (f + 1) * w = f * w + w
      OBVIOUS
    <3>2. QED
      BY <3>1, <2>2
  <2>4. x \in d + e1 .. d + e2 - 1 /\ x \in d + f1 .. d + f2 - 1
    BY <2>1, <2>2, <2>3 DEF Piece
  <2>5. QED
    BY <2>2, <2>3, <2>4
<1>2. QED
  BY <1>1

\* Every piece begins with a byte of its own.
LEMMA PieceNotEmpty ==
    ASSUME NEW d \in Nat, NEW w \in Nat \ {0}, NEW b \in Nat
    PROVE  d + b * w \in Piece(d, w, b)
<1>1. PICK c \in Nat, e \in Nat : c = b * w /\ e = (b + 1) * w /\ e = c + w
  <2>1. b * w \in Nat /\ (b + 1) * w \in Nat /\ (b + 1) * w = b * w + w
    OBVIOUS
  <2>2. QED
    BY <2>1
<1>2. d + c \in d + c .. d + e - 1
  BY <1>1
<1>3. QED
  BY <1>1, <1>2 DEF Piece

-----------------------------------------------------------------------------
(* The inductive invariant                                                   *)

Shape(p) ==
  /\ p = [size |-> p.size, counts |-> p.counts, free |-> p.free]
  /\ p.size \in PoolSizes
  /\ p.counts = BlockCounts(N, p.size - 1)
PoolShape(p) ==
  /\ Shape(p)
  /\ p.free \in [Containers -> SUBSET Int]
  /\ \A i \in Containers : p.free[i] \subseteq 0 .. p.counts[i] - 1

\* The bytes of a bump allocator: the stack, up to StackEnd, and the rest.
Caches ==
  [monotonicPtr : Nat, monotonicLeft : Nat, useMonotonic : BOOLEAN,
   stackPtr : Nat, stackLeft : Nat, useStack : BOOLEAN]
StackEnd(c) == c.stackPtr + c.stackLeft
BumpShape(c, size) ==
  /\ c \in Caches
  /\ c.monotonicPtr + c.monotonicLeft = BumpStart + size - (IF c.useStack THEN 0 ELSE 1)
  /\ StackEnd(c) = BumpStart + (IF c.useStack THEN size \div 2 ELSE 0)
  /\ BumpStart <= c.stackPtr /\ StackEnd(c) <= c.monotonicPtr
  /\ c.useStack => c.stackPtr % 2^BumpAlign = 0

\* What a block is made of, whoever served it.
Held(b) == b.at .. b.at + b.len - 1
LiveBlocks == [at : Nat, len : Nat \ {0}, asked : Requests, took : SUBSET Int]
OfPool(p, b) ==
  /\ b.asked.via = "pool" /\ ~b.asked.safe /\ ~b.asked.cacheOnly
  /\ \E i \in Containers :
       LET range == RangeBack(p, i, b, b.asked)
       IN  /\ range.begin \in Nat /\ range.len \in Nat \ {0}
           /\ range.begin + range.len <= p.counts[i]
           /\ b.took = BytesOfRange(p, i, range)
OfStack(c, b) ==
  /\ ~b.asked.safe /\ b.asked.alloca /\ c.useStack
  /\ b.took = b.at .. b.at + RoundedUp(b.asked.size, BumpAlign) - 1
  /\ BumpStart <= b.at /\ b.at + RoundedUp(b.asked.size, BumpAlign) <= StackEnd(c)
  /\ b.at % 2^BumpAlign = 0
OfBuffer(c, b) ==
  /\ ~b.asked.safe
  /\ b.took \subseteq StackEnd(c) .. c.monotonicPtr - 1
OfHeap(b) ==
  /\ b.asked.safe \/ ~b.asked.cacheOnly
  /\ b.took = Held(b) /\ Held(b) \subseteq HeapArea
Belongs(p, c, b) ==
  /\ Held(b) \subseteq b.took
  /\ OfPool(p, b) \/ OfStack(c, b) \/ OfBuffer(c, b) \/ OfHeap(b)

\* The blocks share nothing with each other or with what is free, and those on
\* the stack are there in the order they were taken, without a gap.
FreeOf(p, c, h) == PoolFreeBytes(p) \cup BumpFreeBytes(c) \cup h
Apart(free, s) ==
  /\ \A j, k \in DOMAIN s : j # k => s[j].took \cap s[k].took = {}
  /\ \A k \in DOMAIN s : s[k].took \cap free = {}
Stacked(c, s) ==
  /\ \A j, k \in DOMAIN s : OfStack(c, s[j]) /\ OfStack(c, s[k]) /\ j < k => s[j].at < s[k].at
  /\ c.useStack => \A x \in BumpStart .. c.stackPtr - 1 :
                     \E k \in DOMAIN s : OfStack(c, s[k]) /\ x \in s[k].took

Owned(p, c, h, s) ==
  /\ PoolShape(p)
  /\ \E size \in BumpSizes : BumpShape(c, size)
  /\ h \subseteq HeapArea
  /\ s \in Seq(LiveBlocks)
  /\ \A k \in DOMAIN s : Belongs(p, c, s[k])
  /\ Apart(FreeOf(p, c, h), s)
  /\ Stacked(c, s)

AllocInv == Owned(pool, bump, heap, live)
-----------------------------------------------------------------------------
(* Where the containers of a pool are                                        *)

\* The sums over larger indexes leave room for what lies between.
LEMMA SumsGrow ==
    ASSUME NEW n \in Nat \ {0}, NEW f \in [0 .. n - 1 -> Nat], NEW s, s = SumsAbove(n, f),
           NEW j \in 0 .. n - 1
    PROVE  \A i \in 0 .. n - 1 : i < j => s[j] + f[j] <= s[i]
<1>1. /\ s \in [0 .. n - 1 -> Nat]
      /\ \A i \in 0 .. n - 2 : s[i] = s[i + 1] + f[i + 1]
  BY SumsEquation
<1>2. CASE j = 0
  BY <1>2
<1>3. CASE j # 0
  <2>1. j - 1 \in Nat /\ (j - 1) + 1 = j /\ j \in Nat
    BY <1>3
  <2> DEFINE T == {i \in 0 .. n - 1 : s[j] + f[j] <= s[i]}
  <2>2. j - 1 \in T
    <3>1. j - 1 \in 0 .. n - 2 /\ j - 1 \in 0 .. n - 1
      BY <2>1
    <3>2. s[j - 1] = s[j] + f[j]
      BY <3>1, <2>1, <1>1
    <3>3. s[j - 1] \in Nat /\ s[j] \in Nat /\ f[j] \in Nat
      BY <3>1, <1>1
    <3>4. QED
      BY <3>1, <3>2, <3>3
  <2>3. ASSUME NEW i \in 0 .. (j - 1) - 1, i + 1 \in T
        PROVE  i \in T
    <3>1. i \in 0 .. n - 2 /\ i \in 0 .. n - 1 /\ i + 1 \in 0 .. n - 1
      BY <2>1
    <3>2. s[i] = s[i + 1] + f[i + 1] /\ s[j] + f[j] <= s[i + 1]
      BY <3>1, <2>3, <1>1
    <3>3. s[i] \in Nat /\ s[i + 1] \in Nat /\ f[i + 1] \in Nat /\ s[j] \in Nat /\ f[j] \in Nat
      BY <3>1, <1>1
    <3>4. QED
      BY <3>1, <3>2, <3>3
  <2>4. 0 .. j - 1 \subseteq T
    <3> HIDE DEF T
    <3>1. QED
      BY <2>1, <2>2, <2>3, DownwardInduction
  <2>5. \A i \in 0 .. n - 1 : i < j => i \in 0 .. j - 1
    BY <2>1
  <2>6. QED
    BY <2>4, <2>5
<1>4. QED
  BY <1>2, <1>3

EndOf(p, i) == DataOf(p, i) + p.counts[i] * 2^i
DataSizes(p) == [j \in Containers |-> p.counts[j] * 2^j]
BitSizes(p) == [j \in Containers |-> BitBytes(p.counts[j])]

\* The containers take no more than the bytes in front of the lock's.
LEMMA CountsOfPool ==
    ASSUME NEW p, Shape(p)
    PROVE  /\ p.size \in Nat \ {0} /\ p.counts \in [Containers -> Nat]
           /\ Taken(N, p.counts) <= p.size - 1
<1>1. p.size \in Nat \ {0} /\ p.size - 1 \in Nat /\ Remainder(N, p.size - 1) >= 0
  BY SizesAssumption DEF Shape
<1>2. N \in Nat \ {0}
  BY PoolAssumption
<1>3. PICK bytes \in Nat : bytes = p.size - 1
  BY <1>1
<1>4. /\ BlockCounts(N, bytes) \in [0 .. N - 1 -> Nat]
      /\ Taken(N, BlockCounts(N, bytes)) <= bytes
  BY <1>1, <1>2, <1>3, BlockCountsFit
<1>5. QED
  BY <1>1, <1>3, <1>4 DEF Shape, Containers

\* The sizes of a pool's containers and of their bits are numbers.
LEMMA SizesOfPool ==
    ASSUME NEW p, Shape(p)
    PROVE  DataSizes(p) \in [Containers -> Nat] /\ BitSizes(p) \in [Containers -> Nat]
<1>1. p.counts \in [Containers -> Nat]
  BY CountsOfPool
<1>2. ASSUME NEW i \in Containers
      PROVE  p.counts[i] * 2^i \in Nat /\ BitBytes(p.counts[i]) \in Nat
  <2>1. i \in Nat
    BY PoolAssumption DEF Containers
  <2>2. PICK x \in Nat, y \in Nat : x = p.counts[i] /\ y = 2^i
    BY <1>1, <2>1, PowerType
  <2>3. x * y \in Nat
    OBVIOUS
  <2>4. BitBytes(x) \in Nat
    BY DEF BitBytes, CeilDiv
  <2>5. QED
    BY <2>2, <2>3, <2>4
<1>3. QED
  BY <1>2 DEF DataSizes, BitSizes

\* The larger the blocks of a container, the earlier it is; behind them all come
\* the byte of the lock and the bits.
Laid(p) ==
  /\ \A i \in Containers : /\ DataOf(p, i) \in Nat /\ EndOf(p, i) \in Nat
                           /\ PoolStart <= DataOf(p, i) /\ EndOf(p, i) <= MutexByte(p)
  /\ \A i, j \in Containers : i < j => EndOf(p, j) <= DataOf(p, i)
  /\ MutexByte(p) \in Nat /\ MutexByte(p) < PoolStart + p.size
  /\ \A i \in Containers : \A x \in BitsOf(p, i) : MutexByte(p) < x /\ x < PoolStart + p.size

\* The containers, the lock and the bits of a pool do not overlap (obj_t).
LEMMA PoolIsLaid ==
    ASSUME NEW p, Shape(p)
    PROVE  Laid(p)
<1>1. N \in Nat \ {0} /\ PoolStart \in Nat /\ Containers = 0 .. N - 1
  BY PoolAssumption DEF Containers
<1>2. PICK f \in [0 .. N - 1 -> Nat] : f = DataSizes(p)
  BY <1>1, SizesOfPool
<1>3. PICK g \in [0 .. N - 1 -> Nat] : g = BitSizes(p)
  BY <1>1, SizesOfPool
<1>4. PICK s \in [0 .. N - 1 -> Nat] : s = SumsAbove(N, f)
  BY <1>1, SumsEquation
<1>5. PICK t \in [0 .. N - 1 -> Nat] : t = SumsAbove(N, g)
  BY <1>1, SumsEquation
<1>6. PICK size \in Nat \ {0} : size = p.size
  BY CountsOfPool
<1>7. \A i, j \in 0 .. N - 1 : i < j => s[j] + f[j] <= s[i] /\ t[j] + g[j] <= t[i]
  BY <1>1, <1>4, <1>5, SumsGrow
<1>8. 0 \in 0 .. N - 1 /\ \A i \in 0 .. N - 1 : i = 0 \/ 0 < i
  BY <1>1
<1>9. s[0] + f[0] + t[0] + g[0] <= size - 1
  <2>1. Taken(N, p.counts) = s[0] + f[0] + t[0] + g[0]
    BY <1>1, <1>2, <1>3, <1>4, <1>5 DEF Taken, DataSizes, BitSizes
  <2>2. QED
    BY <2>1, <1>6, CountsOfPool
<1>10. \A i \in 0 .. N - 1 : DataOf(p, i) = PoolStart + s[i]
  BY <1>1, <1>2, <1>4 DEF DataOf, DataSizes
<1>11. \A i \in 0 .. N - 1 : f[i] = p.counts[i] * 2^i /\ g[i] = BitBytes(p.counts[i])
  BY <1>1, <1>2, <1>3 DEF DataSizes, BitSizes
<1>12. \A i \in 0 .. N - 1 : EndOf(p, i) = PoolStart + s[i] + f[i]
  BY <1>10, <1>11 DEF EndOf
<1>13. MutexByte(p) = PoolStart + s[0] + f[0]
  <2>1. p.counts[0] * 2^0 = p.counts[0]
    <3>1. PICK x \in Nat : x = p.counts[0]
      BY <1>1, <1>8, CountsOfPool
    <3>2. QED
      BY <3>1
  <2>2. QED
    BY <2>1, <1>8, <1>10, <1>11 DEF MutexByte
<1>14. \A i \in 0 .. N - 1 : s[i] \in Nat /\ f[i] \in Nat /\ t[i] \in Nat /\ g[i] \in Nat
  OBVIOUS
<1>15. \A i \in 0 .. N - 1 : s[i] + f[i] <= s[0] + f[0] /\ t[i] + g[i] <= t[0] + g[0]
  <2>1. ASSUME NEW i \in 0 .. N - 1
        PROVE  s[i] + f[i] <= s[0] + f[0] /\ t[i] + g[i] <= t[0] + g[0]
    <3>1. CASE i = 0
      BY <3>1, <1>14
    <3>2. CASE 0 < i
      <4>1. s[i] + f[i] <= s[0] /\ t[i] + g[i] <= t[0]
        BY <3>2, <1>7, <1>8
      <4>2. QED
        BY <4>1, <1>8, <1>14
    <3>3. QED
      BY <3>1, <3>2, <1>8
  <2>2. QED
    BY <2>1
<1>16. PICK s0 \in Nat, f0 \in Nat, t0 \in Nat, g0 \in Nat :
         s0 = s[0] /\ f0 = f[0] /\ t0 = t[0] /\ g0 = g[0]
  BY <1>8, <1>14
<1>17. ASSUME NEW i \in Containers
       PROVE  /\ DataOf(p, i) \in Nat /\ EndOf(p, i) \in Nat
              /\ PoolStart <= DataOf(p, i) /\ EndOf(p, i) <= MutexByte(p)
  <2>1. i \in 0 .. N - 1
    BY <1>1
  <2>2. PICK si \in Nat, fi \in Nat : si = s[i] /\ fi = f[i]
    BY <2>1, <1>14
  <2>3. si + fi <= s0 + f0
    BY <2>1, <2>2, <1>15, <1>16
  <2>4. DataOf(p, i) = PoolStart + si /\ EndOf(p, i) = PoolStart + si + fi
    BY <2>1, <2>2, <1>10, <1>12
  <2>5. MutexByte(p) = PoolStart + s0 + f0
    BY <1>13, <1>16
  <2>6. QED
    BY <2>3, <2>4, <2>5, <1>1
<1>18. ASSUME NEW i \in Containers, NEW j \in Containers, i < j
       PROVE  EndOf(p, j) <= DataOf(p, i)
  <2>1. i \in 0 .. N - 1 /\ j \in 0 .. N - 1
    BY <1>1
  <2>2. PICK si \in Nat, sj \in Nat, fj \in Nat : si = s[i] /\ sj = s[j] /\ fj = f[j]
    BY <2>1, <1>14
  <2>3. sj + fj <= si
    BY <2>1, <2>2, <1>7, <1>18
  <2>4. DataOf(p, i) = PoolStart + si /\ EndOf(p, j) = PoolStart + sj + fj
    BY <2>1, <2>2, <1>10, <1>12
  <2>5. QED
    BY <2>3, <2>4, <1>1
<1>19. MutexByte(p) \in Nat /\ MutexByte(p) < PoolStart + p.size
  <2>1. MutexByte(p) = PoolStart + s0 + f0 /\ s0 + f0 + t0 + g0 <= size - 1
    BY <1>9, <1>13, <1>16
  <2>2. PICK a \in Nat : a = PoolStart
    BY <1>1
  <2>3. a + s0 + f0 \in Nat /\ a + s0 + f0 < a + size
    BY <2>1
  <2>4. QED
    BY <2>1, <2>2, <2>3, <1>6
<1>20. ASSUME NEW i \in Containers, NEW x \in BitsOf(p, i)
       PROVE  MutexByte(p) < x /\ x < PoolStart + p.size
  <2>1. i \in 0 .. N - 1
    BY <1>1
  <2>2. PICK ti \in Nat, gi \in Nat : ti = t[i] /\ gi = g[i]
    BY <2>1, <1>14
  <2>3. ti + gi <= t0 + g0
    BY <2>1, <2>2, <1>15, <1>16
  <2>4. PICK a \in Nat, end \in Int : a = PoolStart /\ end = a + size - ti
    BY <1>1
  <2>5. BitsOf(p, i) = end - gi .. end - 1
    <3>1. p.size = size /\ SumsAbove(N, [j \in Containers |-> BitBytes(p.counts[j])])[i] = ti
      BY <2>2, <1>3, <1>5, <1>6 DEF BitSizes
    <3>2. BitBytes(p.counts[i]) = gi
      BY <2>1, <2>2, <1>11
    <3>3. QED
      BY <2>4, <3>1, <3>2 DEF BitsOf
  <2>6. MutexByte(p) = a + s0 + f0 /\ s0 + f0 + t0 + g0 <= size - 1
    BY <1>9, <1>13, <1>16, <2>4
  <2>7. x \in Int /\ end - gi <= x /\ x <= end - 1
    BY <2>5, <1>20
  <2>8. a + s0 + f0 < x /\ x < a + size
    BY <2>3, <2>4, <2>6, <2>7
  <2>9. QED
    BY <2>4, <2>6, <2>8, <1>6
<1>21. QED
  BY <1>17, <1>18, <1>19, <1>20 DEF Laid

-----------------------------------------------------------------------------
(* The bytes of the blocks of a pool                                         *)

Cell(p, i, b) == BytesOfRange(p, i, [begin |-> b, len |-> 1])
Ranges == [begin : Nat, len : Nat]

\* A block of a container is one of its pieces.
LEMMA CellIsPiece ==
    ASSUME NEW p, NEW i, NEW b
    PROVE  Cell(p, i, b) = Piece(DataOf(p, i), 2^i, b)
BY DEF Cell, BytesOfRange, Piece

\* A container's blocks have a size.
LEMMA WidthType ==
    ASSUME NEW i \in Containers
    PROVE  i \in Nat /\ 2^i \in Nat \ {0}
<1>1. i \in Nat
  BY PoolAssumption DEF Containers
<1>2. QED
  BY <1>1, PowerType

\* A range is its blocks.
LEMMA RangeIsCells ==
    ASSUME NEW p, Shape(p), NEW i \in Containers, NEW range \in Ranges, NEW x
    PROVE  x \in BytesOfRange(p, i, range) <=> \E b \in Blocks(range) : x \in Cell(p, i, b)
<1>1. PICK d \in Nat, w \in Nat \ {0} : d = DataOf(p, i) /\ w = 2^i
  BY PoolIsLaid, WidthType DEF Laid
<1>2. PICK m \in Nat, l \in Nat : m = range.begin /\ l = range.len
  BY DEF Ranges
<1>3. x \in d + m * w .. d + (m + l) * w - 1 <=> \E b \in m .. m + l - 1 : x \in Piece(d, w, b)
  BY CutUp
<1>4. BytesOfRange(p, i, range) = d + m * w .. d + (m + l) * w - 1 /\ Blocks(range) = m .. m + l - 1
  BY <1>1, <1>2 DEF BytesOfRange, Blocks
<1>5. \A b : Cell(p, i, b) = Piece(d, w, b)
  BY <1>1, CellIsPiece
<1>6. QED
  BY <1>3, <1>4, <1>5

\* It is where its container is.
LEMMA RangeWithin ==
    ASSUME NEW p, Shape(p), NEW i \in Containers, NEW range \in Ranges,
           range.begin + range.len <= p.counts[i]
    PROVE  BytesOfRange(p, i, range) \subseteq DataOf(p, i) .. EndOf(p, i) - 1
<1>1. PICK d \in Nat, w \in Nat \ {0} : d = DataOf(p, i) /\ w = 2^i
  BY PoolIsLaid, WidthType DEF Laid
<1>2. PICK m \in Nat, l \in Nat, n \in Nat : m = range.begin /\ l = range.len /\ n = p.counts[i]
  BY CountsOfPool DEF Ranges
<1>3. m + l \in Nat /\ m + l <= n /\ 0 <= m
  BY <1>2
<1>4. PICK mw \in Nat, lw \in Nat, nw \in Nat :
        mw = m * w /\ lw = (m + l) * w /\ nw = n * w /\ lw <= nw
  <2>1. m * w \in Nat
    OBVIOUS
  <2>2. (m + l) * w \in Nat /\ n * w \in Nat /\ (m + l) * w <= n * w
    BY <1>3, ProductGrows
  <2>3. QED
    BY <2>1, <2>2
<1>5. BytesOfRange(p, i, range) = d + mw .. d + lw - 1 /\ EndOf(p, i) = d + nw
  BY <1>1, <1>2, <1>4 DEF BytesOfRange, EndOf
<1>6. d + mw .. d + lw - 1 \subseteq d .. (d + nw) - 1
  BY <1>4
<1>7. QED
  BY <1>1, <1>5, <1>6

\* A block lies in its container, and is not empty.
LEMMA CellWithin ==
    ASSUME NEW p, Shape(p), NEW i \in Containers, NEW b \in 0 .. p.counts[i] - 1
    PROVE  /\ Cell(p, i, b) \subseteq DataOf(p, i) .. EndOf(p, i) - 1
           /\ Cell(p, i, b) # {}
<1>1. PICK n \in Nat : n = p.counts[i]
  BY CountsOfPool
<1>2. b \in Nat /\ b + 1 <= n
  BY <1>1
<1>3. PICK range \in Ranges : range = [begin |-> b, len |-> 1]
  BY <1>2 DEF Ranges
<1>4. range.begin + range.len <= p.counts[i]
  BY <1>1, <1>2, <1>3
<1>5. Cell(p, i, b) \subseteq DataOf(p, i) .. EndOf(p, i) - 1
  BY <1>3, <1>4, RangeWithin DEF Cell
<1>6. PICK d \in Nat, w \in Nat \ {0} : d = DataOf(p, i) /\ w = 2^i
  BY PoolIsLaid, WidthType DEF Laid
<1>7. d + b * w \in Cell(p, i, b)
  BY <1>2, <1>6, CellIsPiece, PieceNotEmpty
<1>8. QED
  BY <1>5, <1>7

\* No byte is in the containers of two kinds of blocks.
LEMMA ContainersApart ==
    ASSUME NEW p, Shape(p), NEW i \in Containers, NEW j \in Containers, NEW x,
           x \in DataOf(p, i) .. EndOf(p, i) - 1, x \in DataOf(p, j) .. EndOf(p, j) - 1
    PROVE  i = j
<1>1. Laid(p)
  BY PoolIsLaid
<1>2. i \in Int /\ j \in Int
  BY WidthType
<1>3. PICK di \in Nat, ei \in Nat, dj \in Nat, ej \in Nat :
        di = DataOf(p, i) /\ ei = EndOf(p, i) /\ dj = DataOf(p, j) /\ ej = EndOf(p, j)
  BY <1>1 DEF Laid
<1>4. x \in di .. ei - 1 /\ x \in dj .. ej - 1
  BY <1>3
<1>5. (i < j => ej <= di) /\ (j < i => ei <= dj)
  BY <1>1, <1>3 DEF Laid
<1>6. QED
  BY <1>2, <1>4, <1>5

\* No byte is in two blocks.
LEMMA CellsApart ==
    ASSUME NEW p, Shape(p), NEW i \in Containers, NEW j \in Containers,
           NEW b \in 0 .. p.counts[i] - 1, NEW c \in 0 .. p.counts[j] - 1, NEW x,
           x \in Cell(p, i, b), x \in Cell(p, j, c)
    PROVE  i = j /\ b = c
<1>1. i = j
  BY CellWithin, ContainersApart
<1>2. PICK d \in Nat, w \in Nat \ {0} : d = DataOf(p, i) /\ w = 2^i
  BY PoolIsLaid, WidthType DEF Laid
<1>3. b \in Nat /\ c \in Nat
  OBVIOUS
<1>4. x \in Piece(d, w, b) /\ x \in Piece(d, w, c)
  BY <1>1, <1>2, CellIsPiece
<1>5. b = c
  BY <1>3, <1>4, PiecesApart
<1>6. QED
  BY <1>1, <1>5

\* The free bytes of a pool are those of its free blocks.
LEMMA FreeCells ==
    ASSUME NEW p, NEW x
    PROVE  x \in PoolFreeBytes(p) <=> \E i \in Containers : \E b \in p.free[i] : x \in Cell(p, i, b)
<1> DEFINE of(i) == UNION {Cell(p, i, b) : b \in p.free[i]}
<1>1. PoolFreeBytes(p) = UNION {of(i) : i \in Containers}
  BY DEF PoolFreeBytes, Cell
<1>2. \A i : x \in of(i) <=> \E b \in p.free[i] : x \in Cell(p, i, b)
  OBVIOUS
<1> HIDE DEF of
<1>3. x \in UNION {of(i) : i \in Containers} <=> \E i \in Containers : x \in of(i)
  OBVIOUS
<1>4. QED
  BY <1>1, <1>2, <1>3

\* What is free is in the containers, in front of the lock and the bits.
LEMMA FreeInFront ==
    ASSUME NEW p, PoolShape(p), NEW x \in PoolFreeBytes(p)
    PROVE  x \in Int /\ PoolStart <= x /\ x < MutexByte(p)
<1>1. Shape(p)
  BY DEF PoolShape
<1>2. PICK i \in Containers : \E b \in p.free[i] : x \in Cell(p, i, b)
  BY FreeCells
<1>3. PICK b \in p.free[i] : x \in Cell(p, i, b)
  BY <1>2
<1>4. b \in 0 .. p.counts[i] - 1
  BY DEF PoolShape
<1>5. x \in DataOf(p, i) .. EndOf(p, i) - 1
  BY <1>1, <1>3, <1>4, CellWithin
<1>6. PICK d \in Nat, e \in Nat, a \in Nat, m \in Nat :
        d = DataOf(p, i) /\ e = EndOf(p, i) /\ a = PoolStart /\ m = MutexByte(p) /\ a <= d /\ e <= m
  BY <1>1, PoolIsLaid, PoolAssumption DEF Laid
<1>7. x \in d .. e - 1
  BY <1>5, <1>6
<1>8. QED
  BY <1>6, <1>7

\* What a pool keeps for itself is behind its blocks.
LEMMA ReservedBehind ==
    ASSUME NEW p, Shape(p), NEW x \in PoolReserved(p)
    PROVE  MutexByte(p) <= x /\ x < PoolStart + p.size /\ x \in Int
<1>1. Laid(p) /\ MutexByte(p) \in Nat
  BY PoolIsLaid DEF Laid
<1>2. x = MutexByte(p) \/ \E i \in Containers : x \in BitsOf(p, i)
  BY DEF PoolReserved
<1>3. CASE x = MutexByte(p)
  BY <1>1, <1>3 DEF Laid
<1>4. ASSUME NEW i \in Containers, x \in BitsOf(p, i)
      PROVE  MutexByte(p) < x /\ x < PoolStart + p.size /\ x \in Int
  BY <1>1, <1>4 DEF Laid, BitsOf
<1>5. PICK m \in Nat : m = MutexByte(p)
  BY <1>1
<1>6. QED
  BY <1>2, <1>3, <1>4, <1>5

-----------------------------------------------------------------------------
(* What taking and giving back a range does                                  *)

\* The layout of a pool depends on its size and counts alone.
LEMMA SameLayout ==
    ASSUME NEW p, NEW q, q.size = p.size, q.counts = p.counts
    PROVE  /\ Shape(p) /\ q = [size |-> q.size, counts |-> q.counts, free |-> q.free] => Shape(q)
           /\ \A i : DataOf(q, i) = DataOf(p, i) /\ EndOf(q, i) = EndOf(p, i)
           /\ \A i, range : BytesOfRange(q, i, range) = BytesOfRange(p, i, range)
           /\ \A i, b : Cell(q, i, b) = Cell(p, i, b)
           /\ PoolReserved(q) = PoolReserved(p)
           /\ \A b : OfPool(q, b) <=> OfPool(p, b)
           /\ \A b : PoolOwns(q, b) <=> PoolOwns(p, b)
<1>1. Shape(p) /\ q = [size |-> q.size, counts |-> q.counts, free |-> q.free] => Shape(q)
  BY DEF Shape
<1>2. \A i : DataOf(q, i) = DataOf(p, i)
  BY DEF DataOf
<1>3. \A i : EndOf(q, i) = EndOf(p, i)
  BY <1>2 DEF EndOf
<1>4. \A i : BitsOf(q, i) = BitsOf(p, i)
  BY DEF BitsOf
<1>5. MutexByte(q) = MutexByte(p)
  BY <1>2 DEF MutexByte
<1>6. \A i, range : BytesOfRange(q, i, range) = BytesOfRange(p, i, range)
  BY <1>2 DEF BytesOfRange
<1>7. \A i, b : Cell(q, i, b) = Cell(p, i, b)
  BY <1>6 DEF Cell
<1>8. PoolReserved(q) = PoolReserved(p)
  BY <1>4, <1>5 DEF PoolReserved
<1>9. \A i, b, r : RangeBack(q, i, b, r) = RangeBack(p, i, b, r)
  BY <1>2 DEF RangeBack
<1>10. \A b : OfPool(q, b) <=> OfPool(p, b)
  BY <1>6, <1>9 DEF OfPool
<1>11. \A b : PoolOwns(q, b) <=> PoolOwns(p, b)
  BY <1>2 DEF PoolOwns, BucketOwns
<1>12. QED
  BY <1>1, <1>2, <1>3, <1>6, <1>7, <1>8, <1>10, <1>11

\* Taking a range takes its bytes.
LEMMA RangeIsTaken ==
    ASSUME NEW p, PoolShape(p), NEW i \in Containers, NEW range \in Ranges,
           Blocks(range) \subseteq p.free[i],
           NEW q, q = [p EXCEPT !.free[i] = @ \ Blocks(range)]
    PROVE  /\ PoolShape(q) /\ q.size = p.size /\ q.counts = p.counts
           /\ BytesOfRange(p, i, range) \subseteq PoolFreeBytes(p)
           /\ PoolFreeBytes(q) = PoolFreeBytes(p) \ BytesOfRange(p, i, range)
<1>1. /\ Shape(p) /\ p.free \in [Containers -> SUBSET Int]
      /\ \A j \in Containers : p.free[j] \subseteq 0 .. p.counts[j] - 1
      /\ p = [size |-> p.size, counts |-> p.counts, free |-> p.free]
  BY DEF PoolShape, Shape
<1>2. q = [p EXCEPT !.free = [p.free EXCEPT ![i] = @ \ Blocks(range)]]
  OBVIOUS
<1>3. /\ q = [size |-> p.size, counts |-> p.counts, free |-> q.free]
      /\ q.size = p.size /\ q.counts = p.counts
      /\ q.free = [p.free EXCEPT ![i] = @ \ Blocks(range)]
  BY <1>1, <1>2
<1>4. /\ q.free \in [Containers -> SUBSET Int]
      /\ q.free[i] = p.free[i] \ Blocks(range)
      /\ \A j \in Containers : j # i => q.free[j] = p.free[j]
  BY <1>1, <1>3
<1>5. \A j \in Containers : q.free[j] \subseteq p.free[j]
  BY <1>4
<1>6. PoolShape(q)
  <2>1. Shape(q)
    BY <1>1, <1>3, SameLayout
  <2>2. QED
    BY <2>1, <1>1, <1>3, <1>4, <1>5 DEF PoolShape
<1>7. \A j, b : Cell(q, j, b) = Cell(p, j, b)
  BY <1>3 DEF Cell, BytesOfRange, DataOf
<1>8. \A x : x \in BytesOfRange(p, i, range) <=> \E b \in Blocks(range) : x \in Cell(p, i, b)
  BY <1>1, RangeIsCells
<1>9. BytesOfRange(p, i, range) \subseteq PoolFreeBytes(p)
  BY <1>8, FreeCells
<1>10. ASSUME NEW x \in PoolFreeBytes(q)
       PROVE  x \in PoolFreeBytes(p) \ BytesOfRange(p, i, range)
  <2>1. PICK j \in Containers : \E b \in q.free[j] : x \in Cell(q, j, b)
    BY FreeCells
  <2>2. PICK b \in q.free[j] : x \in Cell(p, j, b)
    BY <2>1, <1>7
  <2>3. x \in PoolFreeBytes(p)
    BY <2>2, <1>5, FreeCells
  <2>4. ASSUME NEW c \in Blocks(range), x \in Cell(p, i, c)
        PROVE  FALSE
    <3>1. b \in 0 .. p.counts[j] - 1 /\ c \in 0 .. p.counts[i] - 1
      BY <1>1, <1>5
    <3>2. j = i /\ b = c
      BY <3>1, <2>2, <2>4, <1>1, CellsApart
    <3>3. QED
      BY <3>2, <1>4
  <2>5. QED
    BY <2>3, <2>4, <1>8
<1>11. ASSUME NEW x \in PoolFreeBytes(p), ~ (x \in BytesOfRange(p, i, range))
       PROVE  x \in PoolFreeBytes(q)
  <2>1. PICK j \in Containers : \E b \in p.free[j] : x \in Cell(p, j, b)
    BY FreeCells
  <2>2. PICK b \in p.free[j] : x \in Cell(p, j, b)
    BY <2>1
  <2>3. b \in q.free[j]
    BY <2>2, <1>4, <1>8, <1>11
  <2>4. QED
    BY <2>2, <2>3, <1>7, FreeCells
<1>12. QED
  BY <1>3, <1>6, <1>9, <1>10, <1>11

\* Giving a range back gives its bytes back.
LEMMA RangeIsGiven ==
    ASSUME NEW p, PoolShape(p), NEW i \in Containers, NEW range \in Ranges,
           Blocks(range) \subseteq 0 .. p.counts[i] - 1,
           NEW q, q = [p EXCEPT !.free[i] = @ \cup Blocks(range)]
    PROVE  /\ PoolShape(q) /\ q.size = p.size /\ q.counts = p.counts
           /\ PoolFreeBytes(q) = PoolFreeBytes(p) \cup BytesOfRange(p, i, range)
<1>1. /\ Shape(p) /\ p.free \in [Containers -> SUBSET Int]
      /\ \A j \in Containers : p.free[j] \subseteq 0 .. p.counts[j] - 1
      /\ p = [size |-> p.size, counts |-> p.counts, free |-> p.free]
  BY DEF PoolShape, Shape
<1>2. q = [p EXCEPT !.free = [p.free EXCEPT ![i] = @ \cup Blocks(range)]]
  OBVIOUS
<1>3. /\ q = [size |-> p.size, counts |-> p.counts, free |-> q.free]
      /\ q.size = p.size /\ q.counts = p.counts
      /\ q.free = [p.free EXCEPT ![i] = @ \cup Blocks(range)]
  BY <1>1, <1>2
<1>4. Blocks(range) \subseteq Int
  BY DEF Blocks
<1>5. /\ q.free \in [Containers -> SUBSET Int]
      /\ q.free[i] = p.free[i] \cup Blocks(range)
      /\ \A j \in Containers : j # i => q.free[j] = p.free[j]
  BY <1>1, <1>3, <1>4
<1>6. PoolShape(q)
  <2>1. Shape(q)
    BY <1>1, <1>3, SameLayout
  <2>2. \A j \in Containers : q.free[j] \subseteq 0 .. p.counts[j] - 1
    BY <1>1, <1>5
  <2>3. QED
    BY <2>1, <2>2, <1>3, <1>5 DEF PoolShape
<1>7. \A j, b : Cell(q, j, b) = Cell(p, j, b)
  BY <1>3 DEF Cell, BytesOfRange, DataOf
<1>8. \A x : x \in BytesOfRange(p, i, range) <=> \E b \in Blocks(range) : x \in Cell(p, i, b)
  BY <1>1, RangeIsCells
<1>9. ASSUME NEW x \in PoolFreeBytes(q)
      PROVE  x \in PoolFreeBytes(p) \cup BytesOfRange(p, i, range)
  <2>1. PICK j \in Containers : \E b \in q.free[j] : x \in Cell(q, j, b)
    BY FreeCells
  <2>2. PICK b \in q.free[j] : x \in Cell(p, j, b)
    BY <2>1, <1>7
  <2>3. b \in p.free[j] \/ (j = i /\ b \in Blocks(range))
    BY <2>2, <1>5
  <2>4. QED
    BY <2>2, <2>3, <1>8, FreeCells
<1>10. ASSUME NEW x \in PoolFreeBytes(p) \cup BytesOfRange(p, i, range)
       PROVE  x \in PoolFreeBytes(q)
  <2>1. \E j \in Containers : \E b \in q.free[j] : x \in Cell(p, j, b)
    <3>1. CASE x \in BytesOfRange(p, i, range)
      BY <3>1, <1>5, <1>8
    <3>2. CASE x \in PoolFreeBytes(p)
      <4>1. PICK j \in Containers : \E b \in p.free[j] : x \in Cell(p, j, b)
        BY <3>2, FreeCells
      <4>2. \A b : b \in p.free[j] => b \in q.free[j]
        BY <1>5
      <4>3. QED
        BY <4>1, <4>2
    <3>3. QED
      BY <3>1, <3>2
  <2>2. QED
    BY <2>1, <1>7, FreeCells
<1>11. QED
  BY <1>3, <1>6, <1>9, <1>10

-----------------------------------------------------------------------------
(* What a pool serves                                                        *)

\* Rounding up gives enough blocks, and at least one.
LEMMA CeilIsEnough ==
    ASSUME NEW a \in Nat \ {0}, NEW w \in Nat \ {0}
    PROVE  /\ CeilDiv(a, w) \in Nat \ {0} /\ a <= CeilDiv(a, w) * w
           /\ CeilDiv(a + w, w) = CeilDiv(a, w) + 1 /\ CeilDiv(a + 0, w) = CeilDiv(a, w)
<1>1. PICK x \in Nat : x = a + w - 1 /\ x >= w
  OBVIOUS
<1>2. PICK c \in Int, cw \in Int : c = x \div w /\ cw = c * w /\ cw <= x /\ x < cw + w
  <2>1. x \div w \in Int /\ (x \div w) * w <= x /\ x < (x \div w) * w + w
    OBVIOUS
  <2>2. QED
    BY <2>1
<1>3. c \in Nat \ {0}
  <2>1. SUFFICES ASSUME c <= 0 PROVE FALSE
    OBVIOUS
  <2>2. c * w <= 0
    <3>1. PICK d \in Nat : d = -c
      BY <2>1
    <3>2. d * w \in Nat /\ c * w = -(d * w)
      BY <3>1
    <3>3. QED
      BY <3>2
  <2>3. QED
    BY <2>2, <1>1, <1>2
<1>4. CeilDiv(a, w) = c
  BY <1>1, <1>2 DEF CeilDiv
<1>5. a <= cw
  BY <1>1, <1>2
<1>6. CeilDiv(a + w, w) = c + 1
  <2>1. (c + 1) * w = cw + w
    <3>1. (c + 1) * w = c * w + w
      OBVIOUS
    <3>2. QED
      BY <3>1, <1>2
  <2>2. PICK y \in Int, e \in Int : y = x + w /\ e = c + 1 /\ e * w <= y /\ y < e * w + w
    BY <2>1, <1>2
  <2>3. y \div w = e
    BY <2>2
  <2>4. (a + w) + w - 1 = y
    BY <2>2, <1>1
  <2>5. QED
    BY <2>2, <2>3, <2>4 DEF CeilDiv
<1>7. a + 0 = a
  OBVIOUS
<1>8. QED
  BY <1>2, <1>3, <1>4, <1>5, <1>6, <1>7

\* A whole number of blocks is not rounded.
LEMMA CeilOfWhole ==
    ASSUME NEW l \in Nat, NEW w \in Nat \ {0}
    PROVE  CeilDiv(l * w, w) = l
<1>1. PICK x \in Nat : x = l * w
  <2>1. l * w \in Nat
    OBVIOUS
  <2>2. QED
    BY <2>1
<1>2. PICK y \in Int : y = x + w - 1 /\ l * w <= y /\ y < l * w + w
  BY <1>1
<1>3. y \div w = l
  BY <1>2
<1>4. QED
  BY <1>1, <1>2, <1>3 DEF CeilDiv

Need(i, r) == CeilDiv(r.size, 2^i) + (IF Realigns(i, r) THEN 1 ELSE 0)

\* What a request is made of.
LEMMA RequestType ==
    ASSUME NEW r \in Requests
    PROVE  /\ r.size \in Nat \ {0} /\ r.align \in Nat /\ r.best \in BOOLEAN /\ r.exact \in BOOLEAN
           /\ r.safe \in BOOLEAN /\ r.cacheOnly \in BOOLEAN /\ r.alloca \in BOOLEAN
           /\ r.monotonic \in BOOLEAN /\ r.forwards \in BOOLEAN
BY RequestsAssumption

\* With the bytes of one more block, rounding gives one more block (just_allocate).
LEMMA NeedIsCounted ==
    ASSUME NEW i \in Containers, NEW r \in Requests
    PROVE  /\ Need(i, r) \in Nat \ {0}
           /\ CeilDiv(r.size + (IF Realigns(i, r) THEN 2^i ELSE 0), 2^i) = Need(i, r)
<1>1. PICK w \in Nat \ {0}, a \in Nat \ {0} : w = 2^i /\ a = r.size
  BY WidthType, RequestType
<1>2. /\ CeilDiv(a, w) \in Nat \ {0} /\ CeilDiv(a + w, w) = CeilDiv(a, w) + 1
      /\ CeilDiv(a + 0, w) = CeilDiv(a, w)
  BY CeilIsEnough
<1>3. PICK c \in Nat \ {0} : c = CeilDiv(a, w)
  BY <1>2
<1>4. CASE Realigns(i, r)
  BY <1>1, <1>2, <1>3, <1>4 DEF Need
<1>5. CASE ~ Realigns(i, r)
  BY <1>1, <1>2, <1>3, <1>5 DEF Need
<1>6. QED
  BY <1>4, <1>5

\* A container finds the right range.
LEMMA RangeInIsRight ==
    ASSUME NEW p, PoolShape(p), NEW i \in Containers, NEW r \in Requests
    PROVE  RightRange(p.counts[i], p.free[i], AlignedBlocks(p, i, r), Need(i, r), r.best, RangeIn(p, i, r))
<1>1. PICK n \in Nat : n = p.counts[i]
  BY CountsOfPool DEF PoolShape
<1>2. PICK free : free = p.free[i] /\ free \subseteq 0 .. n - 1
  BY <1>1 DEF PoolShape
<1>3. PICK aligned : aligned = AlignedBlocks(p, i, r) /\ aligned \subseteq 0 .. n - 1
  BY <1>1 DEF AlignedBlocks
<1>4. PICK need \in Nat \ {0} : need = Need(i, r)
  BY NeedIsCounted
<1>5. PICK best \in BOOLEAN : best = r.best
  BY RequestType
<1>6. RangeIn(p, i, r) = RangeFor(n, free, aligned, need, best)
  BY <1>1, <1>2, <1>3, <1>4, <1>5, NeedIsCounted DEF RangeIn
<1>7. RightRange(n, free, aligned, need, best, RangeFor(n, free, aligned, need, best))
  BY <1>2, <1>3, RangeForIsRight
<1>8. QED
  BY <1>1, <1>2, <1>3, <1>4, <1>5, <1>6, <1>7

\* What FitsAreFound says of one container and one request.
FoundIn(p, i, r) ==
  LET free    == p.free[i]
      aligned == AlignedBlocks(p, i, r)
      need    == CeilDiv(r.size, 2^i) + (IF Realigns(i, r) THEN 1 ELSE 0)
      fits    == {b \in aligned : b .. b + need - 1 \subseteq free}
      range   == RangeIn(p, i, r)
      before(b)  == {a \in aligned : a < b /\ a .. b \subseteq free}
      runFrom(b) == Max({k \in 1 .. p.counts[i] : b .. b + k - 1 \subseteq free})
  IN  IF fits = {} THEN range.len = 0
      ELSE /\ range.len = need /\ range.begin \in fits
           /\ IF r.best THEN \A b \in fits : before(b) = {} => runFrom(range.begin) <= runFrom(b)
              ELSE range.begin = Min(fits)

\* A container finds what it should, whatever its free blocks are (just_allocate).
LEMMA RightIsFound ==
    ASSUME NEW p, PoolShape(p), NEW i \in Containers, NEW r \in Requests
    PROVE  FoundIn(p, i, r)
<1>1. PICK n \in Nat : n = p.counts[i]
  BY CountsOfPool DEF PoolShape
<1>2. PICK free : free = p.free[i] /\ free \subseteq 0 .. n - 1
  BY <1>1 DEF PoolShape
<1>3. PICK aligned : aligned = AlignedBlocks(p, i, r) /\ aligned \subseteq 0 .. n - 1
  BY <1>1 DEF AlignedBlocks
<1>4. PICK need \in Nat \ {0} : need = Need(i, r)
  BY NeedIsCounted
<1>5. PICK range : range = RangeIn(p, i, r)
  OBVIOUS
<1>6. RightRange(n, free, aligned, need, r.best, range)
  BY <1>1, <1>2, <1>3, <1>4, <1>5, RangeInIsRight
<1>7. PICK fits : fits = {b \in aligned : b .. b + need - 1 \subseteq free}
  OBVIOUS
<1>8. PICK run : run = Runs(n, free) /\ run \in [0 .. n -> Nat]
  BY RunsEquation
<1> DEFINE longest(b) == Max({k \in 1 .. n : b .. b + k - 1 \subseteq free})
           before(b) == {a \in aligned : a < b /\ a .. b \subseteq free}
<1>9. ASSUME NEW b \in fits
      PROVE  longest(b) = run[b]
  <2>1. b \in 0 .. n - 1 /\ b \in free
    <3>1. b \in 0 .. n - 1 /\ b .. b + need - 1 \subseteq free
      BY <1>3, <1>7
    <3>2. b \in b .. b + need - 1
      BY <3>1
    <3>3. QED
      BY <3>1, <3>2
  <2>2. run[b] = 1 + run[b + 1] /\ run[b + 1] \in Nat
    BY <2>1, <1>8, RunsEquation
  <2>3. QED
    BY <2>1, <2>2, <1>2, <1>8, LongestRun
<1>10. Heads(free, aligned, fits) = {b \in fits : before(b) = {}}
  BY DEF Heads
<1> HIDE DEF longest, before
<1>11. IF fits = {} THEN range.len = 0
       ELSE /\ range.len = need /\ range.begin \in fits
            /\ IF r.best THEN \A b \in fits : before(b) = {} => longest(range.begin) <= longest(b)
               ELSE range.begin = Min(fits)
  <2>1. IF fits = {} THEN range.len = 0
        ELSE /\ range.len = need /\ range.begin \in fits
             /\ IF r.best THEN \A b \in Heads(free, aligned, fits) : run[range.begin] <= run[b]
                ELSE range.begin = Min(fits)
    BY <1>6, <1>7, <1>8 DEF RightRange, RangesFit
  <2>2. QED
    BY <2>1, <1>9, <1>10
<1>12. QED
  BY <1>1, <1>2, <1>3, <1>4, <1>5, <1>7, <1>11 DEF FoundIn, Need, longest, before

\* A range that serves is free, aligned and long enough.
LEMMA ServingRange ==
    ASSUME NEW p, PoolShape(p), NEW i \in Containers, NEW r \in Requests, Serves(p, i, r),
           NEW range, range = RangeIn(p, i, r)
    PROVE  /\ range \in Ranges /\ range.len = Need(i, r)
           /\ Blocks(range) \subseteq p.free[i]
           /\ range.begin \in AlignedBlocks(p, i, r)
<1>1. PICK n \in Nat : n = p.counts[i]
  BY CountsOfPool DEF PoolShape
<1>2. PICK need \in Nat \ {0} : need = Need(i, r)
  BY NeedIsCounted
<1>3. PICK fits : fits = RangesFit(p.free[i], AlignedBlocks(p, i, r), need)
  OBVIOUS
<1>4. /\ range = [begin |-> range.begin, len |-> range.len]
      /\ fits = {} => range.len = 0
      /\ fits # {} => range.len = need /\ range.begin \in fits
  <2>1. RightRange(n, p.free[i], AlignedBlocks(p, i, r), need, r.best, range)
    BY <1>1, <1>2, RangeInIsRight
  <2>2. QED
    BY <2>1, <1>3 DEF RightRange
<1>5. range.len > 0
  BY DEF Serves
<1>6. range.len = need /\ range.begin \in fits
  BY <1>4, <1>5
<1>7. range.begin \in AlignedBlocks(p, i, r) /\ range.begin .. range.begin + need - 1 \subseteq p.free[i]
  BY <1>3, <1>6 DEF RangesFit
<1>8. range.begin \in Nat
  BY <1>7, <1>1 DEF AlignedBlocks
<1>9. QED
  BY <1>2, <1>4, <1>6, <1>7, <1>8 DEF Ranges, Blocks

\* The sorted containers are containers.
LEMMA ContainersAreSorted ==
    ASSUME NEW n \in Nat \ {0}, NEW size
    PROVE  BestContainers(n, size) \in [1 .. n -> 0 .. n - 1]
<1>1. PICK m \in Nat : m = n * n
  <2>1. n * n \in Nat
    OBVIOUS
  <2>2. QED
    BY <2>1
<1> DEFINE D == 0 .. m
           V == [1 .. n -> 0 .. n - 1]
           score(c) == Score(size, 2^c)
           swapped(s, i, j) == IF j < i /\ score(s[i]) < score(s[j])
                               THEN [s EXCEPT ![i] = s[j], ![j] = s[i]] ELSE s
           first == [i \in 1 .. n |-> i - 1]
           next(s, k) == swapped(s, (k - 1) \div n + 1, ((k - 1) % n) + 1)
           P(f) == f = [k \in D |-> IF k = 0 THEN first ELSE next(f[k - 1], k)]
           G == [k \in D |-> [f \in [D -> V] |-> IF k = 0 THEN first ELSE next(f[k - 1], k)]]
           order == [k \in D |-> k]
<1>2. first \in V
  OBVIOUS
<1>3. ASSUME NEW s \in V, NEW k \in D, k # 0
      PROVE  next(s, k) \in V
  <2>1. PICK x \in Nat : x = k - 1 /\ x < m
    BY <1>3
  <2>2. PICK q \in Int, r \in Int, qn \in Int :
          q = x \div n /\ r = x % n /\ qn = q * n /\ qn <= x /\ x < qn + n /\ 0 <= r /\ r < n
    <3>1. x \div n \in Int /\ (x \div n) * n <= x /\ x < (x \div n) * n + n
      OBVIOUS
    <3>2. x % n \in 0 .. n - 1
      OBVIOUS
    <3>3. QED
      BY <3>1, <3>2
  <2>3. q >= 0
    BY <2>2
  <2>4. q < n
    <3>1. SUFFICES ASSUME n <= q PROVE FALSE
      BY <2>3
    <3>2. n * n <= q * n
      BY <3>1, <2>3, ProductGrows
    <3>3. QED
      BY <3>2, <1>1, <2>1, <2>2
  <2>5. PICK i \in 1 .. n, j \in 1 .. n : i = q + 1 /\ j = r + 1
    <3>1. q + 1 \in 1 .. n
      BY <2>3, <2>4
    <3>2. r + 1 \in 1 .. n
      BY <2>2
    <3>3. QED
      BY <3>1, <3>2
  <2>6. next(s, k) = swapped(s, i, j)
    BY <2>1, <2>2, <2>5
  <2>7. [s EXCEPT ![i] = s[j], ![j] = s[i]] \in V
    BY <1>3
  <2> HIDE DEF score
  <2>8. swapped(s, i, j) \in V
    BY <2>7, <1>3
  <2>9. QED
    BY <2>6, <2>8
<1> HIDE DEF next
<1>4. G \in [D -> [[D -> V] -> V]]
  <2>1. ASSUME NEW k \in D, NEW f \in [D -> V]
        PROVE  (IF k = 0 THEN first ELSE next(f[k - 1], k)) \in V
    <3>1. CASE k = 0
      BY <3>1, <1>2
    <3>2. CASE k # 0
      <4>1. k - 1 \in D
        BY <3>2
      <4>2. f[k - 1] \in V
        <5> HIDE DEF V
        <5>1. QED
          BY <4>1
      <4>3. QED
        BY <4>2, <3>2, <1>3
    <3>3. QED
      BY <3>1, <3>2
  <2> HIDE DEF V, first
  <2>2. QED
    BY <2>1
<1>5. ASSUME NEW x \in D, NEW g \in [D -> V], NEW h \in [D -> V],
             \A y \in D : order[y] < order[x] => g[y] = h[y]
      PROVE  G[x][g] = G[x][h]
  <2>1. CASE x = 0
    BY <2>1
  <2>2. CASE x # 0
    <3>1. x - 1 \in D /\ order[x - 1] < order[x]
      BY <2>2
    <3>2. g[x - 1] = h[x - 1]
      BY <3>1, <1>5
    <3>3. QED
      BY <3>2, <2>2
  <2>3. QED
    BY <2>1, <2>2
<1>6. Recursive(D, V, m, order, G)
  <2>1. order \in [D -> 0 .. m]
    OBVIOUS
  <2>2. V # {}
    BY <1>2
  <2> HIDE DEF D, V, G, order
  <2>3. QED
    BY <2>1, <2>2, <1>4, <1>5 DEF Recursive
<1>7. PICK f \in [D -> V] : \A x \in D : f[x] = G[x][f]
  <2> HIDE DEF D, V, G, order
  <2>1. QED
    BY <1>6, BoundedRecursion
<1>8. P(f)
  <2> HIDE DEF V, first
  <2>1. QED
    BY <1>7
<1>9. PICK sorted : sorted = CHOOSE g : P(g)
  OBVIOUS
<1>10. P(sorted)
  <2> HIDE DEF P
  <2>1. QED
    BY <1>8, <1>9
<1>11. BestContainers(n, size) = sorted[m]
  BY <1>1, <1>9 DEF BestContainers, next
<1>12. \A k \in D : sorted[k] \in V
  <2> DEFINE S == {k \in Nat : k \in D => sorted[k] \in V}
  <2>1. 0 \in S
    <3>1. sorted[0] = first
      BY <1>10
    <3>2. QED
      BY <3>1, <1>2
  <2>2. ASSUME NEW k \in Nat, k \in S
        PROVE  k + 1 \in S
    <3>1. SUFFICES ASSUME k + 1 \in D PROVE sorted[k + 1] \in V
      BY SMTT(20)
    <3>2. k \in D /\ k + 1 # 0 /\ (k + 1) - 1 = k
      BY <3>1
    <3>3. sorted[k + 1] = next(sorted[k], k + 1)
      BY <3>1, <3>2, <1>10
    <3>4. sorted[k] \in V
      BY <3>2, <2>2
    <3>5. QED
      BY <3>1, <3>2, <3>3, <3>4, <1>3
  <2>3. Nat \subseteq S
    <3> HIDE DEF S
    <3>1. QED
      BY <2>1, <2>2, Induction
  <2>4. QED
    BY <2>3, SMTT(20)
<1>13. m \in D
  OBVIOUS
<1>14. QED
  BY <1>11, <1>12, <1>13

\* A smaller power of two divides a larger one.
LEMMA PowersDivide ==
    ASSUME NEW a \in Nat, NEW b \in Nat, a <= b
    PROVE  \E q \in Nat \ {0} : 2^b = q * 2^a
<1> DEFINE S == {d \in Nat : \E q \in Nat \ {0} : 2^(a + d) = q * 2^a}
<1>1. 0 \in S
  <2>1. a + 0 = a
    OBVIOUS
  <2>2. PICK w \in Nat \ {0} : w = 2^a
    BY PowerType
  <2>3. w = 1 * w
    OBVIOUS
  <2>4. QED
    BY <2>1, <2>2, <2>3
<1>2. ASSUME NEW d \in Nat, d \in S
      PROVE  d + 1 \in S
  <2>1. PICK q \in Nat \ {0} : 2^(a + d) = q * 2^a
    BY <1>2
  <2>2. PICK w \in Nat \ {0} : w = 2^a
    BY PowerType
  <2>3. a + (d + 1) = (a + d) + 1 /\ a + d \in Nat
    OBVIOUS
  <2>4. 2^(a + (d + 1)) = 2 * 2^(a + d)
    BY <2>3, PowerDoubles
  <2>5. 2 * (q * w) = (2 * q) * w /\ 2 * q \in Nat \ {0}
    OBVIOUS
  <2>6. PICK r \in Nat \ {0}, qw \in Nat : r = 2 * q /\ qw = q * w /\ 2 * qw = r * w
    BY <2>5, q * w \in Nat
  <2>7. 2^(a + (d + 1)) = r * w
    BY <2>1, <2>2, <2>4, <2>6
  <2>8. QED
    BY <2>2, <2>7
<1>3. b - a \in Nat /\ a + (b - a) = b
  OBVIOUS
<1>4. b - a \in S
  <2> HIDE DEF S
  <2>1. Nat \subseteq S
    BY <1>1, <1>2, Induction
  <2>2. QED
    BY <1>3, <2>1
<1>5. QED
  BY <1>3, <1>4

\* What leaves no remainder is a multiple.
LEMMA Multiple ==
    ASSUME NEW x \in Nat, NEW w \in Nat \ {0}, x % w = 0
    PROVE  \E y \in Int : x = w * y
<1>1. x \div w \in Int
  OBVIOUS
<1>2. PICK u \in Int, t \in Int : u = x \div w /\ t = w * u
  BY <1>1
<1>3. x % w = x - w * (x \div w)
  OBVIOUS
<1>4. 0 = x - t
  BY <1>2, <1>3
<1>5. x = t
  BY <1>4
<1>6. QED
  BY <1>2, <1>5

\* What is aligned for more is aligned for less.
LEMMA AlignedForLess ==
    ASSUME NEW x \in Nat, NEW a \in Nat, NEW b \in Nat, a <= b, x % 2^b = 0
    PROVE  x % 2^a = 0
<1>1. PICK v \in Nat \ {0}, w \in Nat \ {0} : v = 2^a /\ w = 2^b
  BY PowerType
<1>2. PICK q \in Nat \ {0} : w = q * v
  BY <1>1, PowersDivide
<1>3. PICK y \in Int : x = y * w
  <2>1. PICK y \in Int : x = w * y
    BY <1>1, Multiple
  <2>2. w * y = y * w
    OBVIOUS
  <2>3. QED
    BY <2>1, <2>2
<1>4. PICK z \in Int : x = z * v
  <2>1. y * (q * v) = (y * q) * v /\ y * q \in Int
    OBVIOUS
  <2>2. QED
    BY <2>1, <1>2, <1>3
<1>5. x % v = 0
  <2>1. PICK zv \in Int : zv = z * v
    BY <1>4
  <2>2. (z * v) % v = 0
    OBVIOUS
  <2>3. QED
    BY <2>2, <1>4
<1>6. QED
  BY <1>1, <1>5

\* Rounding up gives an aligned number that is not smaller.
LEMMA RoundedIsAligned ==
    ASSUME NEW x \in Nat, NEW a \in Nat
    PROVE  /\ RoundedUp(x, a) \in Nat /\ x <= RoundedUp(x, a)
           /\ RoundedUp(x, a) % 2^a = 0
<1>1. PICK w \in Nat \ {0} : w = 2^a
  BY PowerType
<1>2. PICK y \in Nat : y = x + w - 1
  OBVIOUS
<1>3. PICK q \in Int, qw \in Int : q = y \div w /\ qw = w * q /\ qw <= y /\ y < qw + w
  <2>1. y \div w \in Int /\ w * (y \div w) <= y /\ y < w * (y \div w) + w
    OBVIOUS
  <2>2. QED
    BY <2>1
<1>4. RoundedUp(x, a) = qw
  BY <1>1, <1>2, <1>3 DEF RoundedUp
<1>5. x <= qw /\ qw \in Nat
  BY <1>2, <1>3
<1>6. qw % w = 0
  <2>1. (w * q) % w = 0
    OBVIOUS
  <2>2. QED
    BY <2>1, <1>3
<1>7. QED
  BY <1>1, <1>4, <1>5, <1>6

\* Aligned numbers have an aligned sum.
LEMMA SumIsAligned ==
    ASSUME NEW x \in Nat, NEW y \in Nat, NEW a \in Nat, x % 2^a = 0, y % 2^a = 0
    PROVE  (x + y) % 2^a = 0
<1>1. PICK w \in Nat \ {0} : w = 2^a
  BY PowerType
<1>2. PICK p \in Int : x = w * p
  BY <1>1, Multiple
<1>3. PICK q \in Int : y = w * q
  BY <1>1, Multiple
<1>4. x + y = w * (p + q) /\ p + q \in Int
  BY <1>2, <1>3
<1>5. (w * (p + q)) % w = 0
  OBVIOUS
<1>6. QED
  BY <1>1, <1>4, <1>5

-----------------------------------------------------------------------------
(* A pool takes a block and takes it back                                    *)

\* The pool q has handed out the range of blocks of the container i, at "at".
HandsOut(p, q, r, i, range, at) ==
  /\ PoolShape(q) /\ q.size = p.size /\ q.counts = p.counts
  /\ BytesOfRange(p, i, range) \subseteq PoolFreeBytes(p)
  /\ PoolFreeBytes(q) = PoolFreeBytes(p) \ BytesOfRange(p, i, range)
  /\ range.len = Need(i, r) /\ range.begin + range.len <= p.counts[i]
  /\ at = DataOf(p, i) + range.begin * 2^i /\ at % 2^r.align = 0

\* A pool that can serve hands out an aligned range of free blocks (allocate).
LEMMA PoolTakes ==
    ASSUME NEW p, PoolShape(p), NEW r \in Requests, PoolAllocates(p, r)
    PROVE  \E i \in Containers, range \in Ranges :
             /\ HandsOut(p, PoolAllocated(p, r).pool, r, i, range, PoolAllocated(p, r).block.at)
             /\ PoolAllocated(p, r).block.len = range.len * 2^i
<1>1. N \in Nat \ {0}
  BY PoolAssumption
<1>2. PICK k : k = Min(ServingPlaces(p, r))
  OBVIOUS
<1>3. k \in ServingPlaces(p, r)
  <2>1. ServingPlaces(p, r) \subseteq Nat /\ ServingPlaces(p, r) # {}
    BY DEF ServingPlaces, PoolAllocates
  <2>2. QED
    BY <2>1, <1>2, MinIsLeast
<1>4. k \in 1 .. N /\ Serves(p, ContainersFor(r)[k], r)
  BY <1>3 DEF ServingPlaces
<1>5. PICK i \in Containers : i = ContainersFor(r)[k]
  <2>1. ContainersFor(r) \in [1 .. N -> 0 .. N - 1]
    BY <1>1, ContainersAreSorted DEF ContainersFor
  <2>2. QED
    BY <2>1, <1>4 DEF Containers
<1>6. PICK range : range = RangeIn(p, i, r)
  OBVIOUS
<1>7. /\ range \in Ranges /\ range.len = Need(i, r)
      /\ Blocks(range) \subseteq p.free[i]
      /\ range.begin \in AlignedBlocks(p, i, r)
  BY <1>4, <1>5, <1>6, ServingRange
<1>8. PICK t : t = PoolAllocated(p, r)
  OBVIOUS
<1>9. /\ t.pool = [p EXCEPT !.free[i] = @ \ Blocks(range)]
      /\ t.block.at = DataOf(p, i) + range.begin * 2^i
      /\ t.block.len = range.len * 2^i
  BY <1>2, <1>5, <1>6, <1>8 DEF PoolAllocated, TakenIn, RangeTaken
<1>10. /\ PoolShape(t.pool) /\ t.pool.size = p.size /\ t.pool.counts = p.counts
       /\ BytesOfRange(p, i, range) \subseteq PoolFreeBytes(p)
       /\ PoolFreeBytes(t.pool) = PoolFreeBytes(p) \ BytesOfRange(p, i, range)
  BY <1>7, <1>9, RangeIsTaken
<1>11. range.begin + range.len <= p.counts[i]
  <2>1. PICK n \in Nat, m \in Nat, l \in Nat \ {0} : n = p.counts[i] /\ m = range.begin /\ l = range.len
    BY <1>7, CountsOfPool, NeedIsCounted DEF PoolShape, Ranges
  <2>2. m .. m + l - 1 \subseteq 0 .. n - 1
    BY <2>1, <1>7 DEF Blocks, PoolShape
  <2>3. m + l - 1 \in m .. m + l - 1
    BY <2>1
  <2>4. QED
    BY <2>1, <2>2, <2>3
<1>12. t.block.at % 2^r.align = 0
  BY <1>7, <1>9 DEF AlignedBlocks
<1>13. QED
  BY <1>7, <1>8, <1>9, <1>10, <1>11, <1>12 DEF HandsOut

\* The block that a client keeps of such a range is large enough, and it leads
\* back to the range.
LEMMA RangeLeadsBack ==
    ASSUME NEW p, Shape(p), NEW i \in Containers, NEW range \in Ranges, NEW r \in Requests,
           range.len = Need(i, r),
           NEW b, b.at = DataOf(p, i) + range.begin * 2^i,
           b.len = IF r.exact THEN r.size ELSE range.len * 2^i
    PROVE  /\ RangeBack(p, i, b, r) = range /\ range.len \in Nat \ {0}
           /\ Held(b) \subseteq BytesOfRange(p, i, range)
           /\ b.at \in Nat /\ b.len \in Nat \ {0} /\ r.size <= b.len
<1>1. PICK d \in Nat, w \in Nat \ {0} : d = DataOf(p, i) /\ w = 2^i
  BY PoolIsLaid, WidthType DEF Laid
<1>2. PICK m \in Nat, l \in Nat \ {0} : m = range.begin /\ l = range.len
  BY NeedIsCounted DEF Ranges
<1>3. PICK size \in Nat \ {0} : size = r.size
  BY RequestType
<1>4. PICK c \in Nat \ {0}, cw \in Nat : c = CeilDiv(size, w) /\ cw = c * w /\ size <= cw
  <2>1. CeilDiv(size, w) \in Nat \ {0} /\ size <= CeilDiv(size, w) * w
    BY CeilIsEnough
  <2>2. PICK c \in Nat \ {0} : c = CeilDiv(size, w)
    BY <2>1
  <2>3. c * w \in Nat
    OBVIOUS
  <2>4. QED
    BY <2>1, <2>2, <2>3
<1>5. l = c + (IF Realigns(i, r) THEN 1 ELSE 0)
  BY <1>1, <1>2, <1>3, <1>4 DEF Need
<1>6. PICK mw \in Nat, lw \in Nat, tw \in Nat :
        mw = m * w /\ lw = l * w /\ tw = (m + l) * w /\ tw = mw + lw /\ cw <= lw
  <2>1. m * w \in Nat /\ (m + l) * w \in Nat /\ (m + l) * w = m * w + l * w
    OBVIOUS
  <2>2. c <= l
    BY <1>5
  <2>3. c * w <= l * w /\ l * w \in Nat
    BY <2>2, ProductGrows
  <2>4. QED
    BY <2>1, <2>3, <1>4
<1>7. b.at = d + mw /\ (r.exact => b.len = size) /\ (~ r.exact => b.len = lw)
  BY <1>1, <1>2, <1>3, <1>6
<1>8. size <= b.len /\ b.len <= lw /\ b.len \in Nat
  BY <1>4, <1>6, <1>7
<1>9. BytesOfRange(p, i, range) = d + mw .. d + tw - 1
  BY <1>1, <1>2, <1>6 DEF BytesOfRange
<1>10. Held(b) \subseteq d + mw .. d + tw - 1
  BY <1>6, <1>7, <1>8 DEF Held
<1>11. (b.at - DataOf(p, i)) \div 2^i = m
  <2>1. PICK y \in Nat : y = mw /\ m * w <= y /\ y < m * w + w
    BY <1>6
  <2>2. y \div w = m
    BY <2>1
  <2>3. b.at - d = y
    BY <1>7, <2>1
  <2>4. QED
    BY <2>2, <2>3, <1>1
<1>12. CeilDiv(b.len, 2^i) + (IF r.exact /\ Realigns(i, r) THEN 1 ELSE 0) = l
  <2>1. CASE r.exact
    BY <2>1, <1>1, <1>4, <1>5, <1>7
  <2>2. CASE ~ r.exact
    <3>1. CeilDiv(b.len, 2^i) = l
      BY <2>2, <1>1, <1>6, <1>7, CeilOfWhole
    <3>2. QED
      BY <3>1, <2>2
  <2>3. QED
    BY <2>1, <2>2
<1>13. RangeBack(p, i, b, r) = range
  BY <1>2, <1>11, <1>12 DEF RangeBack, Ranges
<1>14. QED
  BY <1>2, <1>3, <1>7, <1>8, <1>9, <1>10, <1>13

\* The ends of a block are its own.
LEMMA EndsOfBlock ==
    ASSUME NEW b \in LiveBlocks
    PROVE  /\ b.at \in Nat /\ b.len \in Nat \ {0} /\ b.asked \in Requests
           /\ b.at \in Held(b) /\ b.at + b.len - 1 \in Held(b)
BY DEF LiveBlocks, Held

\* The pool knows its blocks, and takes back what it handed out.
LEMMA PoolGives ==
    ASSUME NEW p, PoolShape(p), NEW b \in LiveBlocks, OfPool(p, b), Held(b) \subseteq b.took,
           NEW q, q = PoolDeallocated(p, b, b.asked)
    PROVE  /\ PoolOwns(p, b)
           /\ PoolShape(q) /\ q.size = p.size /\ q.counts = p.counts
           /\ PoolFreeBytes(q) = PoolFreeBytes(p) \cup b.took
<1>1. Shape(p)
  BY DEF PoolShape
<1>2. PICK i \in Containers :
        LET range == RangeBack(p, i, b, b.asked)
        IN  /\ range.begin \in Nat /\ range.len \in Nat \ {0}
            /\ range.begin + range.len <= p.counts[i]
            /\ b.took = BytesOfRange(p, i, range)
  BY DEF OfPool
<1>3. PICK range : range = RangeBack(p, i, b, b.asked)
  OBVIOUS
<1>4. /\ range \in Ranges /\ range.begin + range.len <= p.counts[i]
      /\ b.took = BytesOfRange(p, i, range)
  BY <1>2, <1>3 DEF RangeBack, Ranges
<1>5. b.took \subseteq DataOf(p, i) .. EndOf(p, i) - 1
  BY <1>1, <1>4, RangeWithin
<1>6. \A j \in Containers : DataOf(p, j) \in Nat /\ EndOf(p, j) \in Nat
  BY <1>1, PoolIsLaid DEF Laid
<1>7. \A j \in Containers : BucketOwns(p, j, b) <=> DataOf(p, j) <= b.at /\ b.at + b.len <= EndOf(p, j)
  BY DEF BucketOwns, EndOf
<1>8. BucketOwns(p, i, b)
  <2>1. b.at \in DataOf(p, i) .. EndOf(p, i) - 1 /\ b.at + b.len - 1 \in DataOf(p, i) .. EndOf(p, i) - 1
    BY <1>5, EndsOfBlock
  <2>2. PICK d \in Nat, e \in Nat, x \in Nat, l \in Nat :
          d = DataOf(p, i) /\ e = EndOf(p, i) /\ x = b.at /\ l = b.len
    BY <1>6, EndsOfBlock
  <2>3. d <= x /\ x + l <= e
    BY <2>1, <2>2
  <2>4. QED
    BY <2>2, <2>3, <1>7
<1>9. ASSUME NEW j \in Containers, BucketOwns(p, j, b)
      PROVE  j = i
  <2>1. PICK d \in Nat, e \in Nat, x \in Nat, l \in Nat \ {0} :
          d = DataOf(p, j) /\ e = EndOf(p, j) /\ x = b.at /\ l = b.len
    BY <1>6, EndsOfBlock
  <2>2. d <= x /\ x + l <= e
    BY <2>1, <1>7, <1>9
  <2>3. b.at \in DataOf(p, j) .. EndOf(p, j) - 1
    BY <2>1, <2>2
  <2>4. b.at \in DataOf(p, i) .. EndOf(p, i) - 1
    BY <1>5, EndsOfBlock
  <2>5. QED
    BY <2>3, <2>4, <1>1, ContainersApart
<1>10. Min({j \in Containers : BucketOwns(p, j, b)}) = i
  <2>1. {j \in Containers : BucketOwns(p, j, b)} = {i}
    BY <1>8, <1>9
  <2>2. i \in Nat
    BY WidthType
  <2>3. Min({i}) = i
    BY <2>2, LeastIsMin
  <2>4. QED
    BY <2>1, <2>3
<1>11. q = [p EXCEPT !.free[i] = @ \cup Blocks(range)]
  BY <1>3, <1>10 DEF PoolDeallocated
<1>12. Blocks(range) \subseteq 0 .. p.counts[i] - 1
  <2>1. PICK n \in Nat, m \in Nat, l \in Nat : n = p.counts[i] /\ m = range.begin /\ l = range.len
    BY <1>1, <1>4, CountsOfPool DEF Ranges
  <2>2. m .. m + l - 1 \subseteq 0 .. n - 1
    BY <2>1, <1>4
  <2>3. QED
    BY <2>1, <2>2 DEF Blocks
<1>13. QED
  BY <1>4, <1>8, <1>11, <1>12, RangeIsGiven DEF PoolOwns

\* And no others.
LEMMA PoolOwnsNothingElse ==
    ASSUME NEW p, Shape(p), NEW b \in LiveBlocks, Held(b) \cap PoolArea(p.size) = {}
    PROVE  ~ PoolOwns(p, b)
<1>1. SUFFICES ASSUME NEW i \in Containers, BucketOwns(p, i, b) PROVE FALSE
  BY DEF PoolOwns
<1>2. PICK d \in Nat, e \in Nat, x \in Nat, l \in Nat \ {0}, m \in Nat, a \in Nat, s \in Nat :
        /\ d = DataOf(p, i) /\ e = EndOf(p, i) /\ x = b.at /\ l = b.len
        /\ m = MutexByte(p) /\ a = PoolStart /\ s = p.size
        /\ a <= d /\ e <= m /\ m < a + s
  <2>1. /\ DataOf(p, i) \in Nat /\ EndOf(p, i) \in Nat /\ MutexByte(p) \in Nat
        /\ PoolStart <= DataOf(p, i) /\ EndOf(p, i) <= MutexByte(p) /\ MutexByte(p) < PoolStart + p.size
    BY PoolIsLaid DEF Laid
  <2>2. PoolStart \in Nat /\ p.size \in Nat
    BY CountsOfPool, PoolAssumption
  <2>3. QED
    BY <2>1, <2>2, EndsOfBlock
<1>3. d <= x /\ x + l <= e
  BY <1>1, <1>2 DEF BucketOwns, EndOf
<1>4. x \in a .. a + s - 1
  BY <1>2, <1>3
<1>5. b.at \in PoolArea(p.size)
  BY <1>2, <1>4 DEF PoolArea
<1>6. QED
  BY <1>5, EndsOfBlock

-----------------------------------------------------------------------------
(* The two ends of a bump allocator's buffer                                 *)

\* What is aligned is not rounded.
LEMMA RoundedWhole ==
    ASSUME NEW x \in Nat, NEW a \in Nat, x % 2^a = 0
    PROVE  RoundedUp(x, a) = x
<1>1. PICK w \in Nat \ {0} : w = 2^a
  BY PowerType
<1>2. PICK y \in Int : x = w * y
  BY <1>1, Multiple
<1>3. PICK z \in Int : z = x + w - 1 /\ w * y <= z /\ z < w * y + w
  BY <1>2
<1>4. z \div w = y
  BY <1>3
<1>5. QED
  BY <1>1, <1>2, <1>3, <1>4 DEF RoundedUp

\* What a bump allocator's buffer is.
LEMMA BumpType ==
    ASSUME NEW size \in BumpSizes
    PROVE  BumpStart \in Nat /\ BumpAlign \in Nat /\ size \in Nat \ {0} /\ BumpStart % 2^BumpAlign = 0
BY BumpAssumption

\* A new bump allocator, with a lock or without (obj_t of bump_alloc.hpp).
LEMMA NewBumpHasShape ==
    ASSUME NEW size \in BumpSizes, NEW locked \in BOOLEAN
    PROVE  BumpShape(NewBump(size, locked), size) /\ NewBump(size, locked).stackPtr = BumpStart
<1>1. BumpStart \in Nat /\ BumpAlign \in Nat /\ size \in Nat \ {0} /\ BumpStart % 2^BumpAlign = 0
  BY BumpType
<1>2. PICK whole : whole = [monotonicPtr |-> BumpStart, monotonicLeft |-> size, useMonotonic |-> ~locked,
                            stackPtr |-> BumpStart, stackLeft |-> 0, useStack |-> ~locked]
  OBVIOUS
<1>3. CASE locked
  <2>1. NewBump(size, locked) = [whole EXCEPT !.monotonicLeft = size - 1]
    BY <1>2, <1>3 DEF NewBump
  <2>2. NewBump(size, locked)
          = [monotonicPtr |-> BumpStart, monotonicLeft |-> size - 1, useMonotonic |-> FALSE,
             stackPtr |-> BumpStart, stackLeft |-> 0, useStack |-> FALSE]
    BY <2>1, <1>2, <1>3
  <2>3. size - 1 \in Nat
    BY <1>1
  <2>4. QED
    BY <2>2, <2>3, <1>1 DEF BumpShape, Caches, StackEnd
<1>4. CASE ~ locked
  <2>1. PICK half \in Nat, rest \in Nat : half = size \div 2 /\ rest = size - half
    <3>1. size \div 2 \in Nat /\ size - (size \div 2) \in Nat
      BY <1>1
    <3>2. QED
      BY <3>1
  <2>2. MonotonicAt(whole, BumpAlign) = BumpStart
    BY <1>1, <1>2, RoundedWhole DEF MonotonicAt
  <2>3. PICK m : m = MonotonicAllocated(whole, [size |-> size \div 2, align |-> BumpAlign])
    OBVIOUS
  <2>4. /\ m.block.len = half
        /\ m.cache = [whole EXCEPT !.monotonicPtr = BumpStart + half,
                                   !.monotonicLeft = size - ((BumpStart + half) - BumpStart)]
    <3>0. PICK q : q = [size |-> size \div 2, align |-> BumpAlign]
      OBVIOUS
    <3>1. q.size = half /\ q.align = BumpAlign
      BY <2>1, <3>0
    <3>2. whole.monotonicPtr = BumpStart /\ whole.monotonicLeft = size
      BY <1>2
    <3>3. /\ m.block.len = q.size
          /\ m.cache = [whole EXCEPT
               !.monotonicPtr = MonotonicAt(whole, q.align) + q.size,
               !.monotonicLeft = whole.monotonicLeft
                                 - ((MonotonicAt(whole, q.align) + q.size) - whole.monotonicPtr)]
      <4>1. MonotonicAllocated(whole, q) = MonotonicAllocated(whole, [size |-> size \div 2, align |-> BumpAlign])
        BY <3>0
      <4>2. QED
        BY <4>1, <2>3, <1>2 DEF MonotonicAllocated
    <3>4. QED
      BY <2>2, <3>1, <3>2, <3>3
  <2>5. size - ((BumpStart + half) - BumpStart) = rest
    BY <2>1, <1>1
  <2>6. NewBump(size, locked) = [m.cache EXCEPT !.stackLeft = half]
    BY <2>3, <2>4, <1>2, <1>4 DEF NewBump
  <2>7. NewBump(size, locked)
          = [monotonicPtr |-> BumpStart + half, monotonicLeft |-> rest, useMonotonic |-> TRUE,
             stackPtr |-> BumpStart, stackLeft |-> half, useStack |-> TRUE]
    BY <2>4, <2>5, <2>6, <1>2, <1>4, ZenonT(30)
  <2>8. QED
    BY <2>1, <2>7, <1>1 DEF BumpShape, Caches, StackEnd
<1>5. QED
  BY <1>3, <1>4

\* What the numbers of a cache are.
LEMMA BumpNumbers ==
    ASSUME NEW size \in BumpSizes, NEW c, BumpShape(c, size)
    PROVE  /\ c.monotonicPtr \in Nat /\ c.monotonicLeft \in Nat
           /\ c.stackPtr \in Nat /\ c.stackLeft \in Nat /\ c.useStack \in BOOLEAN
           /\ StackEnd(c) \in Nat /\ StackEnd(c) = c.stackPtr + c.stackLeft
           /\ BumpStart <= c.stackPtr /\ c.stackPtr <= StackEnd(c) /\ StackEnd(c) <= c.monotonicPtr
           /\ c.monotonicPtr + c.monotonicLeft <= BumpStart + size
           /\ ~ c.useStack => c.monotonicPtr + c.monotonicLeft = BumpStart + size - 1
                              /\ StackEnd(c) = BumpStart
<1>1. BumpStart \in Nat /\ size \in Nat
  BY BumpType
<1>2. c \in Caches
  BY DEF BumpShape
<1>3. /\ c.monotonicPtr \in Nat /\ c.monotonicLeft \in Nat
      /\ c.stackPtr \in Nat /\ c.stackLeft \in Nat /\ c.useStack \in BOOLEAN
  BY <1>2 DEF Caches
<1>4. StackEnd(c) = c.stackPtr + c.stackLeft /\ StackEnd(c) \in Nat
  BY <1>3 DEF StackEnd
<1>5. QED
  BY <1>1, <1>3, <1>4 DEF BumpShape

\* The cache d is what is left of the cache c when the bytes "taken" are gone
\* (or are back): the ends of the two parts stay where they are.
SameEnds(c, d) ==
  /\ d.useStack = c.useStack /\ StackEnd(d) = StackEnd(c) /\ c.monotonicPtr <= d.monotonicPtr
  /\ d.monotonicPtr + d.monotonicLeft = c.monotonicPtr + c.monotonicLeft

\* Switching the cache off moves nothing.
LEMMA SwitchingOff ==
    ASSUME NEW size \in BumpSizes, NEW c, BumpShape(c, size), NEW d, d = [c EXCEPT !.useMonotonic = FALSE]
    PROVE  /\ BumpShape(d, size) /\ SameEnds(c, d) /\ BumpFreeBytes(d) = BumpFreeBytes(c)
           /\ d.monotonicPtr = c.monotonicPtr /\ d.stackPtr = c.stackPtr
<1>1. c \in Caches
  BY DEF BumpShape
<1>2. /\ d \in Caches /\ d.monotonicPtr = c.monotonicPtr /\ d.monotonicLeft = c.monotonicLeft
      /\ d.stackPtr = c.stackPtr /\ d.stackLeft = c.stackLeft /\ d.useStack = c.useStack
  BY <1>1 DEF Caches
<1>3. StackEnd(d) = StackEnd(c) /\ BumpFreeBytes(d) = BumpFreeBytes(c)
  BY <1>2 DEF StackEnd, BumpFreeBytes
<1>4. BumpShape(d, size)
  BY <1>2, <1>3 DEF BumpShape
<1>5. c.monotonicPtr <= d.monotonicPtr
  BY <1>2, BumpNumbers
<1>6. QED
  BY <1>2, <1>3, <1>4, <1>5 DEF SameEnds

\* What alloca takes from the stack was free (fn_alloca).
LEMMA StackTakes ==
    ASSUME NEW size \in BumpSizes, NEW c, BumpShape(c, size), NEW r \in Requests, StackServes(c, r),
           NEW t, t = StackAllocated(c, r),
           NEW R, R = RoundedUp(r.size, BumpAlign)
    PROVE  /\ BumpShape(t.cache, size) /\ SameEnds(c, t.cache) /\ t.cache.monotonicPtr = c.monotonicPtr
           /\ R \in Nat /\ r.size <= R /\ t.cache.stackPtr = c.stackPtr + R
           /\ c.stackPtr .. c.stackPtr + R - 1 \subseteq BumpFreeBytes(c)
           /\ BumpFreeBytes(t.cache) = BumpFreeBytes(c) \ (c.stackPtr .. c.stackPtr + R - 1)
           /\ t.block.at = c.stackPtr /\ t.block.len = (IF r.exact THEN r.size ELSE R)
           /\ c.stackPtr % 2^BumpAlign = 0 /\ c.stackPtr % 2^r.align = 0
<1>1. BumpStart \in Nat /\ BumpAlign \in Nat /\ size \in Nat \ {0}
  BY BumpType
<1>2. r.size \in Nat \ {0} /\ r.align \in Nat
  BY RequestType
<1>3. R \in Nat /\ r.size <= R /\ R % 2^BumpAlign = 0
  BY <1>1, <1>2, RoundedIsAligned
<1>4. PICK sp \in Nat, sl \in Nat, mp \in Nat, ml \in Nat :
        sp = c.stackPtr /\ sl = c.stackLeft /\ mp = c.monotonicPtr /\ ml = c.monotonicLeft
  BY BumpNumbers
<1>5. c \in Caches /\ c.useStack /\ R <= sl /\ r.align <= BumpAlign
  BY <1>4 DEF StackServes, BumpShape
<1>6. PICK d : d = t.cache
  OBVIOUS
<1>7. d = [c EXCEPT !.stackPtr = sp + R, !.stackLeft = sl - R]
  BY <1>4, <1>6 DEF StackAllocated
<1>8. sp + R \in Nat /\ sl - R \in Nat
  BY <1>3, <1>5
<1>9. /\ d \in Caches /\ d.monotonicPtr = mp /\ d.monotonicLeft = ml
      /\ d.stackPtr = sp + R /\ d.stackLeft = sl - R /\ d.useStack = c.useStack
  BY <1>4, <1>5, <1>7, <1>8 DEF Caches
<1>10. StackEnd(c) = sp + sl /\ StackEnd(d) = sp + sl
  <2>1. (sp + R) + (sl - R) = sp + sl
    BY <1>3
  <2>2. QED
    BY <2>1, <1>4, <1>9 DEF StackEnd
<1>11. SameEnds(c, d) /\ d.monotonicPtr = c.monotonicPtr
  BY <1>4, <1>9, <1>10 DEF SameEnds
<1>12. sp % 2^BumpAlign = 0
  BY <1>4, <1>5 DEF BumpShape
<1>13. sp % 2^r.align = 0
  BY <1>1, <1>2, <1>5, <1>12, AlignedForLess
<1>14. BumpShape(d, size)
  <2>1. (sp + R) % 2^BumpAlign = 0
    BY <1>1, <1>3, <1>12, SumIsAligned
  <2>2. BumpStart <= sp + R
    BY <1>1, <1>3, <1>4 DEF BumpShape
  <2>3. QED
    BY <2>1, <2>2, <1>4, <1>9, <1>10 DEF BumpShape
<1>15. /\ BumpFreeBytes(c) = sp .. sp + sl - 1 \cup mp .. mp + ml - 1
       /\ BumpFreeBytes(d) = sp + R .. (sp + R) + (sl - R) - 1 \cup mp .. mp + ml - 1
  BY <1>4, <1>9 DEF BumpFreeBytes
<1>16. sp + sl <= mp
  BY <1>4, <1>10 DEF BumpShape
<1>17. sp .. sp + R - 1 \subseteq BumpFreeBytes(c)
  BY <1>3, <1>5, <1>15
<1>18. BumpFreeBytes(d) = BumpFreeBytes(c) \ (sp .. sp + R - 1)
  BY <1>3, <1>5, <1>15, <1>16
<1>19. t.block.at = sp /\ t.block.len = (IF r.exact THEN r.size ELSE R)
  BY <1>4 DEF StackAllocated
<1>20. QED
  BY <1>3, <1>4, <1>6, <1>9, <1>11, <1>12, <1>13, <1>14, <1>17, <1>18, <1>19

\* What the buffer loses to a block, with the bytes skipped in front of it
Used(c, r) == c.monotonicPtr .. MonotonicAt(c, r.align) + r.size - 1

\* What is taken from the buffer was free (monotonic_allocate).
LEMMA BufferTakes ==
    ASSUME NEW size \in BumpSizes, NEW c, BumpShape(c, size), NEW r \in Requests, MonotonicServes(c, r),
           NEW t, t = MonotonicAllocated(c, r)
    PROVE  /\ BumpShape(t.cache, size) /\ SameEnds(c, t.cache) /\ t.cache.stackPtr = c.stackPtr
           /\ Used(c, r) \subseteq BumpFreeBytes(c)
           /\ BumpFreeBytes(t.cache) = BumpFreeBytes(c) \ Used(c, r)
           /\ Used(c, r) \subseteq StackEnd(t.cache) .. t.cache.monotonicPtr - 1
           /\ t.block.at \in Nat /\ t.block.len = r.size /\ t.block.at % 2^r.align = 0
           /\ t.block.at .. t.block.at + r.size - 1 \subseteq Used(c, r)
<1>1. BumpStart \in Nat /\ BumpAlign \in Nat /\ size \in Nat \ {0}
  BY BumpType
<1>2. r.size \in Nat \ {0} /\ r.align \in Nat
  BY RequestType
<1>3. PICK sp \in Nat, sl \in Nat, mp \in Nat, ml \in Nat, n \in Nat \ {0} :
        /\ sp = c.stackPtr /\ sl = c.stackLeft /\ mp = c.monotonicPtr /\ ml = c.monotonicLeft
        /\ n = r.size
  BY <1>2, BumpNumbers
<1>4. PICK at \in Nat : at = MonotonicAt(c, r.align) /\ mp <= at /\ at % 2^r.align = 0
  BY <1>2, <1>3, RoundedIsAligned DEF MonotonicAt
<1>5. at + n <= mp + ml /\ c \in Caches
  BY <1>3, <1>4 DEF MonotonicServes, BumpShape
<1>6. PICK d : d = t.cache
  OBVIOUS
<1>7. PICK end \in Nat, left \in Nat : end = at + n /\ left = ml - (end - mp)
  <2>1. at + n \in Nat /\ ml - ((at + n) - mp) \in Nat
    BY <1>4, <1>5
  <2>2. QED
    BY <2>1
<1>8. d = [c EXCEPT !.monotonicPtr = end, !.monotonicLeft = left]
  BY <1>3, <1>4, <1>6, <1>7 DEF MonotonicAllocated
<1>9. /\ d \in Caches /\ d.monotonicPtr = end /\ d.monotonicLeft = left
      /\ d.stackPtr = sp /\ d.stackLeft = sl /\ d.useStack = c.useStack
  BY <1>3, <1>5, <1>8 DEF Caches
<1>10. StackEnd(c) = sp + sl /\ StackEnd(d) = sp + sl
  BY <1>3, <1>9 DEF StackEnd
<1>11. end + left = mp + ml /\ mp <= end
  BY <1>4, <1>7
<1>12. SameEnds(c, d)
  BY <1>3, <1>9, <1>10, <1>11 DEF SameEnds
<1>13. sp + sl <= mp
  BY <1>3, <1>10 DEF BumpShape
<1>14. BumpShape(d, size)
  <2>1. d.monotonicPtr + d.monotonicLeft = c.monotonicPtr + c.monotonicLeft
    BY <1>3, <1>9, <1>11
  <2>2. StackEnd(d) <= d.monotonicPtr
    BY <1>9, <1>10, <1>11, <1>13
  <2>3. QED
    BY <2>1, <2>2, <1>3, <1>9, <1>10 DEF BumpShape
<1>15. /\ BumpFreeBytes(c) = sp .. sp + sl - 1 \cup mp .. mp + ml - 1
       /\ BumpFreeBytes(d) = sp .. sp + sl - 1 \cup end .. end + left - 1
  BY <1>3, <1>9 DEF BumpFreeBytes
<1>16. Used(c, r) = mp .. end - 1
  BY <1>3, <1>4, <1>7 DEF Used
<1>17. Used(c, r) \subseteq BumpFreeBytes(c)
  BY <1>5, <1>7, <1>15, <1>16
<1>18. BumpFreeBytes(d) = BumpFreeBytes(c) \ Used(c, r)
  BY <1>11, <1>13, <1>15, <1>16
<1>19. Used(c, r) \subseteq StackEnd(d) .. d.monotonicPtr - 1
  BY <1>9, <1>10, <1>13, <1>16
<1>20. t.block.at = at /\ t.block.len = n
  BY <1>3, <1>4 DEF MonotonicAllocated
<1>21. at .. at + n - 1 \subseteq Used(c, r)
  <2>1. at .. at + n - 1 \subseteq mp .. end - 1
    BY <1>4, <1>7
  <2>2. QED
    BY <2>1, <1>16
<1>22. QED
  BY <1>3, <1>4, <1>6, <1>9, <1>12, <1>14, <1>17, <1>18, <1>19, <1>20, <1>21

\* The topmost block of the stack goes back to it.
LEMMA StackGives ==
    ASSUME NEW size \in BumpSizes, NEW c, BumpShape(c, size), NEW b \in LiveBlocks, OfStack(c, b),
           b.at + RoundedUp(b.asked.size, BumpAlign) = c.stackPtr,
           NEW d, d = StackDeallocated(c, b)
    PROVE  /\ BumpShape(d, size) /\ SameEnds(c, d) /\ d.monotonicPtr = c.monotonicPtr
           /\ d.stackPtr = b.at
           /\ BumpFreeBytes(d) = BumpFreeBytes(c) \cup b.took
<1>1. BumpStart \in Nat /\ BumpAlign \in Nat /\ size \in Nat \ {0}
  BY BumpType
<1>2. PICK sp \in Nat, sl \in Nat, mp \in Nat, ml \in Nat :
        sp = c.stackPtr /\ sl = c.stackLeft /\ mp = c.monotonicPtr /\ ml = c.monotonicLeft
  BY BumpNumbers
<1>3. PICK at \in Nat : at = b.at
  BY EndsOfBlock
<1>4. PICK R \in Nat : R = RoundedUp(b.asked.size, BumpAlign) /\ at + R = sp
  <2>1. b.asked.size \in Nat
    BY EndsOfBlock, RequestType
  <2>2. RoundedUp(b.asked.size, BumpAlign) \in Nat
    BY <2>1, <1>1, RoundedIsAligned
  <2>3. QED
    BY <2>2, <1>2, <1>3
<1>5. /\ c \in Caches /\ c.useStack /\ BumpStart <= at /\ at % 2^BumpAlign = 0
      /\ b.took = at .. at + R - 1
  BY <1>3, <1>4 DEF OfStack, BumpShape
<1>6. d = [c EXCEPT !.stackPtr = at, !.stackLeft = sl + R]
  <2>1. sp - at = R
    BY <1>4
  <2>2. QED
    BY <2>1, <1>2, <1>3, <1>5 DEF StackDeallocated, Caches
<1>7. /\ d \in Caches /\ d.monotonicPtr = mp /\ d.monotonicLeft = ml
      /\ d.stackPtr = at /\ d.stackLeft = sl + R /\ d.useStack = c.useStack
  <2>1. sl + R \in Nat
    OBVIOUS
  <2>2. QED
    BY <2>1, <1>2, <1>5, <1>6 DEF Caches
<1>8. StackEnd(c) = sp + sl /\ StackEnd(d) = sp + sl
  <2>1. at + (sl + R) = sp + sl
    BY <1>4
  <2>2. QED
    BY <2>1, <1>2, <1>7 DEF StackEnd
<1>9. SameEnds(c, d)
  BY <1>2, <1>7, <1>8 DEF SameEnds
<1>10. BumpShape(d, size)
  BY <1>2, <1>5, <1>7, <1>8 DEF BumpShape
<1>11. /\ BumpFreeBytes(c) = sp .. sp + sl - 1 \cup mp .. mp + ml - 1
       /\ BumpFreeBytes(d) = at .. at + (sl + R) - 1 \cup mp .. mp + ml - 1
  BY <1>2, <1>7 DEF BumpFreeBytes
<1>12. BumpFreeBytes(d) = BumpFreeBytes(c) \cup b.took
  BY <1>4, <1>5, <1>11, SMTT(20)
<1>13. QED
  BY <1>2, <1>3, <1>7, <1>9, <1>10, <1>12

-----------------------------------------------------------------------------
(* The list of the client's blocks                                           *)

\* The client's list grows at its end.
LEMMA Appended ==
    ASSUME NEW S, NEW s \in Seq(S), NEW b \in S, NEW t, t = Append(s, b)
    PROVE  /\ t \in Seq(S) /\ Len(s) \in Nat
           /\ DOMAIN s = 1 .. Len(s) /\ DOMAIN t = 1 .. Len(s) + 1
           /\ t[Len(s) + 1] = b
           /\ \A k \in DOMAIN s : k \in DOMAIN t /\ t[k] = s[k] /\ k <= Len(s)
           /\ \A k \in DOMAIN t : k = Len(s) + 1 \/ k \in DOMAIN s
OBVIOUS

\* What is left behind block k moves up by one.
Skip(k, j) == IF j < k THEN j ELSE j + 1

\* And may shrink anywhere.
LEMMA Removed ==
    ASSUME NEW S, NEW s \in Seq(S), NEW k \in DOMAIN s, NEW t, t = RemoveAt(s, k)
    PROVE  /\ t \in Seq(S)
           /\ \A j \in DOMAIN t : Skip(k, j) \in DOMAIN s /\ Skip(k, j) # k /\ t[j] = s[Skip(k, j)]
           /\ \A i, j \in DOMAIN t : i < j => Skip(k, i) < Skip(k, j)
           /\ \A i, j \in DOMAIN t : i # j => Skip(k, i) # Skip(k, j)
           /\ \A i \in DOMAIN s : i # k => \E j \in DOMAIN t : Skip(k, j) = i
<1>1. PICK n \in Nat : n = Len(s) /\ DOMAIN s = 1 .. n /\ k \in 1 .. n
  OBVIOUS
<1>2. \A i \in 1 .. n : s[i] \in S
  BY <1>1
<1>3. PICK u : u = SubSeq(s, 1, k - 1)
  OBVIOUS
<1>4. u \in Seq(S) /\ Len(u) = k - 1 /\ \A i \in 1 .. k - 1 : u[i] = s[i]
  <2>1. 1 \in Int /\ k - 1 \in Int /\ \A i \in 1 .. k - 1 : s[i] \in S
    BY <1>1, <1>2
  <2>2. /\ SubSeq(s, 1, k - 1) \in Seq(S)
        /\ Len(SubSeq(s, 1, k - 1)) = IF 1 <= k - 1 THEN (k - 1) - 1 + 1 ELSE 0
        /\ \A i \in 1 .. (k - 1) - 1 + 1 : SubSeq(s, 1, k - 1)[i] = s[1 + i - 1]
    BY <2>1, SubSeqProperties
  <2>3. (k - 1) - 1 + 1 = k - 1 /\ \A i \in 1 .. k - 1 : 1 + i - 1 = i
    BY <1>1
  <2>4. QED
    BY <2>2, <2>3, <1>1, <1>3
<1>5. PICK v : v = SubSeq(s, k + 1, n)
  OBVIOUS
<1>6. v \in Seq(S) /\ Len(v) = n - k /\ \A i \in 1 .. n - k : v[i] = s[k + i]
  <2>1. k + 1 \in Int /\ n \in Int /\ \A i \in k + 1 .. n : s[i] \in S
    BY <1>1, <1>2
  <2>2. /\ SubSeq(s, k + 1, n) \in Seq(S)
        /\ Len(SubSeq(s, k + 1, n)) = IF k + 1 <= n THEN n - (k + 1) + 1 ELSE 0
        /\ \A i \in 1 .. n - (k + 1) + 1 : SubSeq(s, k + 1, n)[i] = s[(k + 1) + i - 1]
    BY <2>1, SubSeqProperties
  <2>3. n - (k + 1) + 1 = n - k /\ \A i \in 1 .. n - k : (k + 1) + i - 1 = k + i
    BY <1>1
  <2>4. QED
    BY <2>2, <2>3, <1>1, <1>5
<1>7. t = u \o v
  BY <1>1, <1>3, <1>5 DEF RemoveAt
<1>8. /\ t \in Seq(S) /\ Len(t) = n - 1
      /\ \A i \in 1 .. n - 1 : t[i] = IF i <= k - 1 THEN u[i] ELSE v[i - (k - 1)]
  <2>1. (k - 1) + (n - k) = n - 1
    BY <1>1
  <2>2. /\ u \o v \in Seq(S) /\ Len(u \o v) = Len(u) + Len(v)
        /\ \A i \in 1 .. Len(u) + Len(v) : (u \o v)[i] = IF i <= Len(u) THEN u[i] ELSE v[i - Len(u)]
    BY <1>4, <1>6, ConcatProperties
  <2>3. Len(u) = k - 1 /\ Len(u) + Len(v) = n - 1
    BY <2>1, <1>4, <1>6
  <2>4. QED
    BY <2>2, <2>3, <1>7
<1>9. DOMAIN t = 1 .. n - 1
  BY <1>8
<1>10. ASSUME NEW j \in DOMAIN t
       PROVE  Skip(k, j) \in DOMAIN s /\ Skip(k, j) # k /\ t[j] = s[Skip(k, j)]
  <2>1. j \in 1 .. n - 1
    BY <1>9
  <2>2. CASE j < k
    <3>1. j <= k - 1 /\ j \in 1 .. k - 1 /\ j \in 1 .. n
      BY <2>1, <2>2, <1>1
    <3>2. t[j] = s[j]
      BY <3>1, <2>1, <1>4, <1>8
    <3>3. QED
      BY <3>1, <3>2, <2>2, <1>1 DEF Skip
  <2>3. CASE ~ (j < k)
    <3>1. ~ (j <= k - 1) /\ j - (k - 1) \in 1 .. n - k /\ k + (j - (k - 1)) = j + 1 /\ j + 1 \in 1 .. n
      BY <2>1, <2>3, <1>1
    <3>2. t[j] = v[j - (k - 1)]
      BY <3>1, <2>1, <1>8
    <3>3. t[j] = s[j + 1]
      BY <3>1, <3>2, <1>6
    <3>4. j + 1 # k
      BY <2>1, <2>3, <1>1
    <3>5. QED
      BY <3>1, <3>3, <3>4, <2>3, <1>1 DEF Skip
  <2>4. QED
    BY <2>2, <2>3
<1>11. \A i, j \in DOMAIN t : i < j => Skip(k, i) < Skip(k, j)
  BY <1>1, <1>9 DEF Skip
<1>12. \A i, j \in DOMAIN t : i # j => Skip(k, i) # Skip(k, j)
  BY <1>1, <1>9 DEF Skip
<1>13. ASSUME NEW i \in DOMAIN s, i # k
       PROVE  \E j \in DOMAIN t : Skip(k, j) = i
  <2>1. i \in 1 .. n
    BY <1>1
  <2>2. CASE i < k
    <3>1. i \in DOMAIN t /\ Skip(k, i) = i
      BY <2>1, <2>2, <1>1, <1>9 DEF Skip
    <3>2. QED
      BY <3>1
  <2>3. CASE ~ (i < k)
    <3>1. i - 1 \in DOMAIN t /\ Skip(k, i - 1) = i
      BY <2>1, <2>3, <1>1, <1>9, <1>13 DEF Skip
    <3>2. QED
      BY <3>1
  <2>4. QED
    BY <2>2, <2>3
<1>14. QED
  BY <1>8, <1>10, <1>11, <1>12, <1>13

-----------------------------------------------------------------------------
(* Whose a byte is                                                           *)

\* The buffers and the heap are apart, and what is free lies in them.
LEMMA AreasApart ==
    ASSUME NEW p, Shape(p), NEW size \in BumpSizes
    PROVE  /\ PoolArea(p.size) \cap BumpArea(size) = {}
           /\ PoolArea(p.size) \cap HeapArea = {}
           /\ BumpArea(size) \cap HeapArea = {}
BY AreasAssumption DEF Shape

\* A pool's free bytes are in its buffer.
LEMMA PoolFreeInArea ==
    ASSUME NEW p, PoolShape(p)
    PROVE  PoolFreeBytes(p) \subseteq PoolArea(p.size)
<1>1. PICK m \in Nat, a \in Nat, s \in Nat : m = MutexByte(p) /\ a = PoolStart /\ s = p.size /\ m < a + s
  BY PoolIsLaid, CountsOfPool, PoolAssumption DEF Laid, PoolShape
<1>2. ASSUME NEW x \in PoolFreeBytes(p)
      PROVE  x \in PoolArea(p.size)
  <2>1. x \in Int /\ a <= x /\ x < m
    BY <1>1, FreeInFront
  <2>2. x \in a .. a + s - 1
    BY <1>1, <2>1
  <2>3. QED
    BY <1>1, <2>2 DEF PoolArea
<1>3. QED
  BY <1>2

\* What the pool keeps for itself is in its buffer, and never free.
LEMMA PoolKeepsToItself ==
    ASSUME NEW p, PoolShape(p)
    PROVE  /\ PoolReserved(p) \subseteq PoolArea(p.size)
           /\ PoolReserved(p) \cap PoolFreeBytes(p) = {}
<1>1. PICK m \in Nat, a \in Nat, s \in Nat : m = MutexByte(p) /\ a = PoolStart /\ s = p.size /\ m < a + s /\ a <= m
  <2>1. Laid(p) /\ p.size \in Nat /\ PoolStart \in Nat
    BY PoolIsLaid, CountsOfPool, PoolAssumption DEF PoolShape
  <2>2. MutexByte(p) \in Nat /\ MutexByte(p) < PoolStart + p.size
    BY <2>1 DEF Laid
  <2>3. 0 \in Containers
    BY PoolAssumption DEF Containers
  <2>4. PoolStart <= DataOf(p, 0) /\ DataOf(p, 0) \in Nat /\ DataOf(p, 0) <= EndOf(p, 0) /\ EndOf(p, 0) <= MutexByte(p)
    <3>1. DataOf(p, 0) \in Nat /\ EndOf(p, 0) \in Nat /\ PoolStart <= DataOf(p, 0) /\ EndOf(p, 0) <= MutexByte(p)
      BY <2>1, <2>3 DEF Laid
    <3>2. PICK d \in Nat, n \in Nat, w \in Nat : d = DataOf(p, 0) /\ n = p.counts[0] /\ w = 2^0
      BY <3>1, <2>3, CountsOfPool, WidthType DEF PoolShape
    <3>3. n * w \in Nat
      OBVIOUS
    <3>4. d <= d + n * w
      BY <3>3
    <3>5. QED
      BY <3>1, <3>2, <3>4 DEF EndOf
  <2>5. PICK d \in Nat, e \in Nat : d = DataOf(p, 0) /\ e = EndOf(p, 0)
    BY <2>1, <2>3 DEF Laid
  <2>6. QED
    BY <2>1, <2>2, <2>4, <2>5
<1>2. ASSUME NEW x \in PoolReserved(p)
      PROVE  x \in PoolArea(p.size) /\ x \notin PoolFreeBytes(p)
  <2>1. x \in Int /\ m <= x /\ x < a + s
    BY <1>1, ReservedBehind DEF PoolShape
  <2>2. x \in a .. a + s - 1
    BY <1>1, <2>1
  <2>3. ~ (x < m)
    BY <1>1, <2>1
  <2>4. x \notin PoolFreeBytes(p)
    BY <2>3, <1>1, FreeInFront
  <2>5. QED
    BY <1>1, <2>2, <2>4 DEF PoolArea
<1>3. QED
  BY <1>2

\* So are a bump allocator's.
LEMMA BumpFreeInArea ==
    ASSUME NEW size \in BumpSizes, NEW c, BumpShape(c, size)
    PROVE  BumpFreeBytes(c) \subseteq BumpArea(size)
<1>1. PICK a \in Nat, s \in Nat : a = BumpStart /\ s = size
  BY BumpType
<1>2. PICK sp \in Nat, sl \in Nat, mp \in Nat, ml \in Nat :
        /\ sp = c.stackPtr /\ sl = c.stackLeft /\ mp = c.monotonicPtr /\ ml = c.monotonicLeft
        /\ a <= sp /\ sp + sl <= mp /\ mp + ml <= a + s
  BY <1>1, BumpNumbers
<1>3. BumpFreeBytes(c) = sp .. sp + sl - 1 \cup mp .. mp + ml - 1
  BY <1>2 DEF BumpFreeBytes
<1>4. sp .. sp + sl - 1 \cup mp .. mp + ml - 1 \subseteq a .. a + s - 1
  BY <1>2
<1>5. QED
  BY <1>1, <1>3, <1>4 DEF BumpArea

\* The byte of a bump allocator's lock is in its buffer, and never free.
LockByte(c) == IF c.useStack THEN {} ELSE {c.monotonicPtr + c.monotonicLeft}
\* The byte of its lock is neither free nor outside its buffer.
LEMMA BumpKeepsToItself ==
    ASSUME NEW size \in BumpSizes, NEW c, BumpShape(c, size)
    PROVE  LockByte(c) \subseteq BumpArea(size) /\ LockByte(c) \cap BumpFreeBytes(c) = {}
<1>1. CASE c.useStack
  BY <1>1 DEF LockByte
<1>2. CASE ~ c.useStack
  <2>1. PICK a \in Nat, s \in Nat \ {0} : a = BumpStart /\ s = size
    BY BumpType
  <2>2. PICK sp \in Nat, sl \in Nat, mp \in Nat, ml \in Nat :
          /\ sp = c.stackPtr /\ sl = c.stackLeft /\ mp = c.monotonicPtr /\ ml = c.monotonicLeft
          /\ a <= sp /\ sp + sl <= mp /\ mp + ml = a + s - 1 /\ sp + sl = a
    BY <1>2, <2>1, BumpNumbers
  <2>3. LockByte(c) = {a + s - 1}
    BY <1>2, <2>2 DEF LockByte
  <2>4. BumpFreeBytes(c) = sp .. sp + sl - 1 \cup mp .. mp + ml - 1
    BY <2>2 DEF BumpFreeBytes
  <2>5. a + s - 1 \in a .. a + s - 1 /\ a + s - 1 \notin sp .. sp + sl - 1 \cup mp .. mp + ml - 1
    BY <2>1, <2>2
  <2>6. QED
    BY <2>1, <2>3, <2>4, <2>5 DEF BumpArea
<1>3. QED
  BY <1>1, <1>2

\* Where the blocks of each allocator are.
LEMMA PlaceOfPools ==
    ASSUME NEW p, Shape(p), NEW b, OfPool(p, b)
    PROVE  b.took \subseteq PoolArea(p.size)
<1>1. PICK i \in Containers :
        LET range == RangeBack(p, i, b, b.asked)
        IN  /\ range.begin \in Nat /\ range.len \in Nat \ {0}
            /\ range.begin + range.len <= p.counts[i]
            /\ b.took = BytesOfRange(p, i, range)
  BY DEF OfPool
<1>2. PICK range : range = RangeBack(p, i, b, b.asked)
  OBVIOUS
<1>3. /\ range \in Ranges /\ range.begin + range.len <= p.counts[i]
      /\ b.took = BytesOfRange(p, i, range)
  BY <1>1, <1>2 DEF RangeBack, Ranges
<1>4. b.took \subseteq DataOf(p, i) .. EndOf(p, i) - 1
  BY <1>3, RangeWithin
<1>5. PICK d \in Nat, e \in Nat, m \in Nat, a \in Nat, s \in Nat :
        /\ d = DataOf(p, i) /\ e = EndOf(p, i) /\ m = MutexByte(p) /\ a = PoolStart /\ s = p.size
        /\ a <= d /\ e <= m /\ m < a + s
  <2>1. /\ DataOf(p, i) \in Nat /\ EndOf(p, i) \in Nat /\ MutexByte(p) \in Nat
        /\ PoolStart <= DataOf(p, i) /\ EndOf(p, i) <= MutexByte(p) /\ MutexByte(p) < PoolStart + p.size
    BY PoolIsLaid DEF Laid
  <2>2. PoolStart \in Nat /\ p.size \in Nat
    BY CountsOfPool, PoolAssumption
  <2>3. QED
    BY <2>1, <2>2
<1>6. d .. e - 1 \subseteq a .. a + s - 1
  BY <1>5
<1>7. QED
  BY <1>4, <1>5, <1>6 DEF PoolArea

\* The stack's blocks end before the rest of the buffer begins.
LEMMA PlaceOfBumps ==
    ASSUME NEW size \in BumpSizes, NEW c, BumpShape(c, size), NEW b \in LiveBlocks
    PROVE  /\ OfStack(c, b) => b.took \subseteq BumpStart .. StackEnd(c) - 1
           /\ OfStack(c, b) \/ OfBuffer(c, b) => b.took \subseteq BumpArea(size)
<1>1. PICK a \in Nat, s \in Nat : a = BumpStart /\ s = size
  BY BumpType
<1>2. PICK e \in Nat, mp \in Nat : e = StackEnd(c) /\ mp = c.monotonicPtr /\ a <= e /\ e <= mp /\ mp <= a + s
  BY <1>1, BumpNumbers
<1>3. ASSUME OfStack(c, b)
      PROVE  b.took \subseteq a .. e - 1
  <2>1. PICK at \in Nat, R \in Nat : at = b.at /\ R = RoundedUp(b.asked.size, BumpAlign)
    BY EndsOfBlock, RequestType, BumpType, RoundedIsAligned
  <2>2. b.took = at .. at + R - 1 /\ a <= at /\ at + R <= e
    BY <1>1, <1>2, <1>3, <2>1 DEF OfStack
  <2>3. QED
    BY <2>2
<1>4. ASSUME OfBuffer(c, b)
      PROVE  b.took \subseteq e .. mp - 1
  BY <1>2, <1>4 DEF OfBuffer
<1>5. a .. e - 1 \subseteq a .. a + s - 1 /\ e .. mp - 1 \subseteq a .. a + s - 1
  BY <1>2
<1>6. QED
  BY <1>1, <1>2, <1>3, <1>4, <1>5 DEF BumpArea

\* Every allocator knows which blocks are its own.
Whose(p, c, b) ==
  /\ OfPool(p, b) =>
       /\ ~ OfStack(c, b) /\ ~ OfBuffer(c, b) /\ ~ OfHeap(b)
       /\ PoolOwns(p, b) /\ ~ IsOnStack(c, b) /\ ~ IsMonotonic(c, b)
  /\ OfStack(c, b) =>
       /\ ~ OfPool(p, b) /\ ~ OfBuffer(c, b) /\ ~ OfHeap(b)
       /\ ~ PoolOwns(p, b) /\ IsOnStack(c, b)
  /\ OfBuffer(c, b) =>
       /\ ~ OfPool(p, b) /\ ~ OfStack(c, b) /\ ~ OfHeap(b)
       /\ ~ PoolOwns(p, b) /\ ~ IsOnStack(c, b) /\ IsMonotonic(c, b)
  /\ OfHeap(b) =>
       /\ ~ OfPool(p, b) /\ ~ OfStack(c, b) /\ ~ OfBuffer(c, b)
       /\ ~ PoolOwns(p, b) /\ ~ IsOnStack(c, b) /\ ~ IsMonotonic(c, b)

\* is_owner and memory_is_inside tell the blocks of the allocators apart.
LEMMA WhoseIsKnown ==
    ASSUME NEW p, PoolShape(p), NEW size \in BumpSizes, NEW c, BumpShape(c, size),
           NEW b \in LiveBlocks, Held(b) \subseteq b.took
    PROVE  Whose(p, c, b)
<1>1. PICK a \in Nat, s \in Nat : a = BumpStart /\ s = size
  BY BumpType
<1>2. PICK e \in Nat, mp \in Nat : e = StackEnd(c) /\ mp = c.monotonicPtr /\ a <= e /\ e <= mp /\ mp <= a + s
  BY <1>1, BumpNumbers
<1>3. PICK x \in Nat, l \in Nat \ {0} : x = b.at /\ l = b.len
  BY EndsOfBlock
<1>4. x \in Held(b) /\ x + l - 1 \in Held(b) /\ x \in b.took /\ x + l - 1 \in b.took
  BY <1>3, EndsOfBlock
<1>5. Shape(p)
  BY DEF PoolShape
<1>6. /\ IsOnStack(c, b) <=> c.useStack /\ a <= x /\ x + l <= e
      /\ IsMonotonic(c, b) <=> a <= x /\ x + l <= mp
  BY <1>1, <1>2, <1>3 DEF IsOnStack, IsMonotonic, Inside, StackEnd
<1>7. a .. a + s - 1 = BumpArea(size)
  BY <1>1 DEF BumpArea
<1>8. ASSUME x \notin BumpArea(size)
      PROVE  ~ IsOnStack(c, b) /\ ~ IsMonotonic(c, b) /\ ~ OfStack(c, b) /\ ~ OfBuffer(c, b)
  <2>1. ~ (a <= x /\ x + l <= mp)
    BY <1>2, <1>7, <1>8
  <2>2. ~ IsMonotonic(c, b)
    BY <1>6, <2>1
  <2>3. ~ IsOnStack(c, b)
    <3>1. ~ (a <= x /\ x + l <= e)
      BY <2>1, <1>2
    <3>2. QED
      BY <3>1, <1>6
  <2>4. QED
    BY <2>2, <2>3, <1>4, <1>8, PlaceOfBumps
<1>9. ASSUME x \notin PoolArea(p.size)
      PROVE  ~ OfPool(p, b)
  BY <1>4, <1>5, <1>9, PlaceOfPools
<1>10. ASSUME Held(b) \cap PoolArea(p.size) = {}
       PROVE  ~ PoolOwns(p, b)
  BY <1>5, <1>10, PoolOwnsNothingElse
<1>11. OfHeap(b) => b.took \subseteq HeapArea /\ x \in HeapArea
  BY <1>4 DEF OfHeap
<1>12. CASE OfPool(p, b)
  <2>1. b.took \subseteq PoolArea(p.size)
    BY <1>5, <1>12, PlaceOfPools
  <2>2. x \notin BumpArea(size) /\ x \notin HeapArea
    BY <2>1, <1>4, <1>5, AreasApart
  <2>3. PoolOwns(p, b)
    BY <1>12, PoolGives
  <2>4. QED
    BY <2>2, <2>3, <1>8, <1>11 DEF Whose
<1>13. CASE OfStack(c, b)
  <2>1. b.took \subseteq BumpStart .. StackEnd(c) - 1 /\ b.took \subseteq BumpArea(size)
    BY <1>13, PlaceOfBumps
  <2>2. x \in a .. e - 1 /\ x + l - 1 \in a .. e - 1
    BY <2>1, <1>1, <1>2, <1>4
  <2>3. IsOnStack(c, b)
    <3>1. c.useStack
      BY <1>13 DEF OfStack
    <3>2. a <= x /\ x + l <= e
      BY <2>2
    <3>3. QED
      BY <3>1, <3>2, <1>6
  <2>4. ~ OfBuffer(c, b)
    <3>1. x \notin e .. mp - 1
      BY <2>2
    <3>2. QED
      BY <3>1, <1>2, <1>4 DEF OfBuffer
  <2>5. Held(b) \cap PoolArea(p.size) = {} /\ x \notin HeapArea
    BY <2>1, <1>4, <1>5, AreasApart
  <2>6. x \notin PoolArea(p.size)
    BY <2>5, <1>4
  <2>7. QED
    BY <2>3, <2>4, <2>5, <2>6, <1>9, <1>10, <1>11 DEF Whose
<1>14. CASE OfBuffer(c, b)
  <2>1. b.took \subseteq BumpArea(size) /\ b.took \subseteq e .. mp - 1
    BY <1>2, <1>14, PlaceOfBumps DEF OfBuffer
  <2>2. x \in e .. mp - 1 /\ x + l - 1 \in e .. mp - 1
    BY <2>1, <1>4
  <2>3. IsMonotonic(c, b) /\ ~ IsOnStack(c, b)
    <3>1. a <= x /\ x + l <= mp /\ ~ (x + l <= e)
      BY <2>2, <1>2
    <3>2. QED
      BY <3>1, <1>6
  <2>4. ~ OfStack(c, b)
    <3>1. x \notin a .. e - 1
      BY <2>2
    <3>2. QED
      BY <3>1, <1>1, <1>2, <1>4, PlaceOfBumps
  <2>5. Held(b) \cap PoolArea(p.size) = {} /\ x \notin HeapArea
    BY <2>1, <1>4, <1>5, AreasApart
  <2>6. x \notin PoolArea(p.size)
    BY <2>5, <1>4
  <2>7. QED
    BY <2>3, <2>4, <2>5, <2>6, <1>9, <1>10, <1>11 DEF Whose
<1>15. CASE OfHeap(b)
  <2>1. b.took \subseteq HeapArea
    BY <1>15, <1>11
  <2>2. Held(b) \cap PoolArea(p.size) = {} /\ x \notin BumpArea(size)
    BY <2>1, <1>4, <1>5, AreasApart
  <2>3. x \notin PoolArea(p.size)
    BY <2>2, <1>4
  <2>4. QED
    BY <2>2, <2>3, <1>8, <1>9, <1>10 DEF Whose
<1>16. CASE ~ (OfPool(p, b) \/ OfStack(c, b) \/ OfBuffer(c, b) \/ OfHeap(b))
  BY <1>16 DEF Whose
<1>17. QED
  BY <1>12, <1>13, <1>14, <1>15, <1>16

-----------------------------------------------------------------------------
(* What becomes of the other blocks when an allocator takes or gives         *)

\* A block stays whose it was while the ends of the parts stay.
LEMMA StillTheirs ==
    ASSUME NEW p, Shape(p), NEW q, Shape(q), q.size = p.size, q.counts = p.counts,
           NEW size \in BumpSizes, NEW c, BumpShape(c, size), NEW d, BumpShape(d, size), SameEnds(c, d),
           NEW b
    PROVE  /\ OfPool(q, b) <=> OfPool(p, b)
           /\ OfStack(d, b) <=> OfStack(c, b)
           /\ OfBuffer(c, b) => OfBuffer(d, b)
           /\ Belongs(p, c, b) => Belongs(q, d, b)
<1>1. OfPool(q, b) <=> OfPool(p, b)
  BY SameLayout
<1>2. OfStack(d, b) <=> OfStack(c, b)
  BY DEF OfStack, SameEnds
<1>3. ASSUME OfBuffer(c, b)
      PROVE  OfBuffer(d, b)
  <2>1. PICK e \in Nat, m \in Nat, n \in Nat :
          e = StackEnd(c) /\ e = StackEnd(d) /\ m = c.monotonicPtr /\ n = d.monotonicPtr /\ m <= n
    BY BumpNumbers DEF SameEnds
  <2>2. e .. m - 1 \subseteq e .. n - 1
    BY <2>1
  <2>3. QED
    BY <2>1, <2>2, <1>3 DEF OfBuffer
<1>4. QED
  BY <1>1, <1>2, <1>3 DEF Belongs, OfHeap

\* Only the buffer's blocks are not given back, and that does not change.
IsLasting(c, b) == IsMonotonic(c, b) /\ ~ IsOnStack(c, b)
\* Which is what is_owner and fn_try_dealloca tell of a block.
LEMMA LastingIsBuffer ==
    ASSUME NEW p, PoolShape(p), NEW size \in BumpSizes, NEW c, BumpShape(c, size),
           NEW b \in LiveBlocks, Belongs(p, c, b)
    PROVE  IsLasting(c, b) <=> OfBuffer(c, b)
<1>1. Whose(p, c, b)
  BY WhoseIsKnown DEF Belongs
<1>2. QED
  BY <1>1 DEF Belongs, Whose, IsLasting

\* What is given back does not depend on what was allocated meanwhile.
LEMMA LastingStays ==
    ASSUME NEW p, PoolShape(p), NEW q, PoolShape(q), q.size = p.size, q.counts = p.counts,
           NEW size \in BumpSizes, NEW c, BumpShape(c, size), NEW d, BumpShape(d, size), SameEnds(c, d),
           NEW b \in LiveBlocks, Belongs(p, c, b)
    PROVE  IsLasting(d, b) <=> IsLasting(c, b)
<1>1. Shape(p) /\ Shape(q)
  BY DEF PoolShape
<1>2. /\ OfPool(q, b) <=> OfPool(p, b)
      /\ OfStack(d, b) <=> OfStack(c, b)
      /\ OfBuffer(c, b) => OfBuffer(d, b)
      /\ Belongs(q, d, b)
  BY <1>1, StillTheirs
<1>3. Whose(q, d, b)
  BY <1>2, WhoseIsKnown DEF Belongs
<1>4. OfBuffer(d, b) => OfBuffer(c, b)
  BY <1>2, <1>3 DEF Belongs, Whose
<1>5. QED
  BY <1>2, <1>4, LastingIsBuffer

\* Nothing of the client's is free, and its blocks are of its own bytes.
LEMMA OwnedBlocks ==
    ASSUME NEW p, NEW c, NEW h, NEW s, Owned(p, c, h, s)
    PROVE  /\ PoolShape(p) /\ Shape(p) /\ h \subseteq HeapArea /\ s \in Seq(LiveBlocks)
           /\ \A k \in DOMAIN s :
                /\ s[k] \in LiveBlocks /\ Belongs(p, c, s[k]) /\ Held(s[k]) \subseteq s[k].took
                /\ s[k].at \in s[k].took /\ s[k].took \cap FreeOf(p, c, h) = {}
           /\ \A j, k \in DOMAIN s : j # k => s[j].took \cap s[k].took = {}
<1>1. s \in Seq(LiveBlocks)
  BY DEF Owned
<1>2. \A k \in DOMAIN s : s[k] \in LiveBlocks
  BY <1>1
<1>3. \A k \in DOMAIN s : Belongs(p, c, s[k]) /\ Held(s[k]) \subseteq s[k].took
  BY DEF Owned, Belongs
<1>4. \A k \in DOMAIN s : s[k].at \in s[k].took
  BY <1>2, <1>3, EndsOfBlock
<1>5. QED
  BY <1>1, <1>2, <1>3, <1>4 DEF Owned, Apart, PoolShape

\* What is left of the stack is free.
LEMMA StackIsFree ==
    ASSUME NEW p, NEW size \in BumpSizes, NEW c, BumpShape(c, size), NEW h
    PROVE  c.stackPtr .. StackEnd(c) - 1 \subseteq FreeOf(p, c, h)
<1>1. c.stackPtr .. StackEnd(c) - 1 \subseteq BumpFreeBytes(c)
  <2>1. PICK sp \in Nat, sl \in Nat : sp = c.stackPtr /\ sl = c.stackLeft /\ sp + sl = StackEnd(c)
    BY BumpNumbers
  <2>2. QED
    BY <2>1 DEF BumpFreeBytes
<1>2. QED
  BY <1>1 DEF FreeOf

\* A block costs the stack at least a byte.
LEMMA StackCost ==
    ASSUME NEW n \in Nat \ {0}
    PROVE  RoundedUp(n, BumpAlign) \in Nat \ {0} /\ n <= RoundedUp(n, BumpAlign)
<1>1. BumpAlign \in Nat
  BY BumpAssumption
<1>2. PICK R \in Nat : R = RoundedUp(n, BumpAlign) /\ n <= R
  BY <1>1, RoundedIsAligned
<1>3. QED
  BY <1>2

\* A block of bytes that were free joins the others.
LEMMA Taking ==
    ASSUME NEW p, NEW c, NEW h, NEW s, Owned(p, c, h, s),
           NEW size \in BumpSizes, BumpShape(c, size),
           NEW q, PoolShape(q), q.size = p.size, q.counts = p.counts,
           NEW d, BumpShape(d, size), SameEnds(c, d),
           NEW g, g \subseteq HeapArea,
           NEW b \in LiveBlocks, Belongs(q, d, b),
           FreeOf(q, d, g) \subseteq FreeOf(p, c, h), b.took = FreeOf(p, c, h) \ FreeOf(q, d, g),
           \/ d.stackPtr = c.stackPtr /\ ~ OfStack(d, b)
           \/ /\ OfStack(d, b) /\ b.at = c.stackPtr
              /\ d.stackPtr = b.at + RoundedUp(b.asked.size, BumpAlign),
           NEW t, t = Append(s, b)
    PROVE  Owned(q, d, g, t)
<1>1. /\ PoolShape(p) /\ Shape(p) /\ s \in Seq(LiveBlocks)
      /\ \A k \in DOMAIN s :
           /\ s[k] \in LiveBlocks /\ Belongs(p, c, s[k])
           /\ s[k].at \in s[k].took /\ s[k].took \cap FreeOf(p, c, h) = {}
      /\ \A j, k \in DOMAIN s : j # k => s[j].took \cap s[k].took = {}
  BY OwnedBlocks
<1>2. PICK n \in Nat : n = Len(s)
  BY <1>1
<1>3. /\ t \in Seq(LiveBlocks)
      /\ DOMAIN s = 1 .. n /\ DOMAIN t = 1 .. n + 1 /\ t[n + 1] = b
      /\ \A k \in DOMAIN s : k \in DOMAIN t /\ t[k] = s[k] /\ k <= n
      /\ \A k \in DOMAIN t : k = n + 1 \/ k \in DOMAIN s
  BY <1>1, <1>2, Appended
<1>4. Shape(q)
  BY DEF PoolShape
<1>5. \A a : OfStack(d, a) <=> OfStack(c, a)
  BY <1>1, <1>4, StillTheirs
<1>6. \A k \in DOMAIN t : Belongs(q, d, t[k])
  <2>1. \A a : Belongs(p, c, a) => Belongs(q, d, a)
    BY <1>1, <1>4, StillTheirs
  <2>2. QED
    BY <2>1, <1>1, <1>3
<1>7. \A k \in DOMAIN s : s[k].took \cap b.took = {} /\ s[k].took \cap FreeOf(q, d, g) = {}
  BY <1>1
<1>8. b.took \cap FreeOf(q, d, g) = {}
  OBVIOUS
<1>9. Apart(FreeOf(q, d, g), t)
  <2>1. ASSUME NEW j \in DOMAIN t, NEW k \in DOMAIN t, j # k
        PROVE  t[j].took \cap t[k].took = {}
    <3>1. CASE j \in DOMAIN s /\ k \in DOMAIN s
      BY <3>1, <2>1, <1>1, <1>3
    <3>2. CASE j = n + 1 /\ k \in DOMAIN s
      BY <3>2, <1>3, <1>7
    <3>3. CASE j \in DOMAIN s /\ k = n + 1
      BY <3>3, <1>3, <1>7
    <3>4. QED
      BY <3>1, <3>2, <3>3, <2>1, <1>3
  <2>2. ASSUME NEW k \in DOMAIN t
        PROVE  t[k].took \cap FreeOf(q, d, g) = {}
    <3>1. CASE k \in DOMAIN s
      BY <3>1, <1>3, <1>7
    <3>2. CASE k = n + 1
      BY <3>2, <1>3, <1>8
    <3>3. QED
      BY <3>1, <3>2, <1>3
  <2>3. QED
    BY <2>1, <2>2 DEF Apart
<1>10. Stacked(d, t)
  <2>0. /\ \A j, k \in DOMAIN s : OfStack(c, s[j]) /\ OfStack(c, s[k]) /\ j < k => s[j].at < s[k].at
        /\ c.useStack => \A x \in BumpStart .. c.stackPtr - 1 :
                           \E k \in DOMAIN s : OfStack(c, s[k]) /\ x \in s[k].took
    BY DEF Owned, Stacked
  <2>1. ASSUME NEW k \in DOMAIN s, OfStack(c, s[k]), OfStack(d, b)
        PROVE  s[k].at < b.at
    <3>1. PICK sp \in Nat, e \in Nat, x \in Nat, R \in Nat \ {0} :
            /\ sp = c.stackPtr /\ e = StackEnd(c) /\ e = c.stackPtr + c.stackLeft
            /\ x = s[k].at /\ R = RoundedUp(s[k].asked.size, BumpAlign)
      <4>1. s[k].at \in Nat /\ s[k].asked.size \in Nat \ {0}
        BY <1>1, EndsOfBlock, RequestType
      <4>2. RoundedUp(s[k].asked.size, BumpAlign) \in Nat \ {0}
        BY <4>1, StackCost
      <4>3. c.stackPtr \in Nat /\ StackEnd(c) \in Nat /\ StackEnd(c) = c.stackPtr + c.stackLeft
        BY BumpNumbers
      <4>4. QED
        BY <4>1, <4>2, <4>3
    <3>2. x + R <= e /\ x \in s[k].took
      BY <3>1, <2>1, <1>1 DEF OfStack
    <3>3. sp .. e - 1 \subseteq FreeOf(p, c, h)
      BY <3>1, StackIsFree
    <3>4. x \notin sp .. e - 1
      BY <3>2, <3>3, <1>1
    <3>5. x < sp
      BY <3>1, <3>2, <3>4
    <3>6. b.at = c.stackPtr
      BY <2>1
    <3>7. QED
      BY <3>1, <3>5, <3>6
  <2>2. ASSUME NEW j \in DOMAIN t, NEW k \in DOMAIN t, OfStack(d, t[j]), OfStack(d, t[k]), j < k
        PROVE  t[j].at < t[k].at
    <3>1. j \in DOMAIN s
      BY <2>2, <1>3
    <3>2. CASE k \in DOMAIN s
      BY <3>1, <3>2, <2>0, <2>2, <1>3, <1>5
    <3>3. CASE k = n + 1
      BY <3>1, <3>3, <2>1, <2>2, <1>3, <1>5
    <3>4. QED
      BY <3>2, <3>3, <1>3
  <2>3. ASSUME d.useStack, NEW x \in BumpStart .. d.stackPtr - 1
        PROVE  \E k \in DOMAIN t : OfStack(d, t[k]) /\ x \in t[k].took
    <3>1. c.useStack
      BY <2>3 DEF SameEnds
    <3>2. CASE x \in BumpStart .. c.stackPtr - 1
      <4>1. PICK k \in DOMAIN s : OfStack(c, s[k]) /\ x \in s[k].took
        BY <3>1, <3>2, <2>0
      <4>2. QED
        BY <4>1, <1>3, <1>5
    <3>3. CASE x \notin BumpStart .. c.stackPtr - 1
      <4>1. d.stackPtr # c.stackPtr
        BY <3>3, <2>3
      <4>2. /\ OfStack(d, b) /\ b.at = c.stackPtr
            /\ d.stackPtr = b.at + RoundedUp(b.asked.size, BumpAlign)
        BY <4>1
      <4>3. PICK at \in Nat, R \in Nat : at = b.at /\ R = RoundedUp(b.asked.size, BumpAlign)
        BY EndsOfBlock, RequestType, BumpType, RoundedIsAligned
      <4>4. b.took = at .. at + R - 1
        BY <4>2, <4>3 DEF OfStack
      <4>5. x \in BumpStart .. (at + R) - 1 /\ x \notin BumpStart .. at - 1
        BY <4>2, <4>3, <3>3, <2>3
      <4>6. x \in at .. at + R - 1
        BY <4>3, <4>5, BumpType, SMTT(20)
      <4>7. n + 1 \in DOMAIN t
        BY <1>3
      <4>8. QED
        BY <4>2, <4>4, <4>6, <4>7, <1>3
    <3>4. QED
      BY <3>2, <3>3
  <2>4. QED
    BY <2>2, <2>3 DEF Stacked
<1>11. QED
  BY <1>3, <1>6, <1>9, <1>10 DEF Owned

\* A block goes: its bytes may be free again, and the stack ends where it began.
LEMMA Giving ==
    ASSUME NEW p, NEW c, NEW h, NEW s, Owned(p, c, h, s),
           NEW size \in BumpSizes, BumpShape(c, size),
           NEW q, PoolShape(q), q.size = p.size, q.counts = p.counts,
           NEW d, BumpShape(d, size), SameEnds(c, d),
           NEW g, g \subseteq HeapArea,
           NEW k \in DOMAIN s,
           FreeOf(q, d, g) \subseteq FreeOf(p, c, h) \cup s[k].took,
           d.stackPtr = IF OfStack(c, s[k]) THEN s[k].at ELSE c.stackPtr,
           OfStack(c, s[k]) => d.stackPtr <= c.stackPtr,
           NEW t, t = RemoveAt(s, k)
    PROVE  Owned(q, d, g, t)
<1>1. /\ PoolShape(p) /\ Shape(p) /\ s \in Seq(LiveBlocks)
      /\ \A j \in DOMAIN s :
           /\ s[j] \in LiveBlocks /\ Belongs(p, c, s[j])
           /\ s[j].took \cap FreeOf(p, c, h) = {}
      /\ \A i, j \in DOMAIN s : i # j => s[i].took \cap s[j].took = {}
  BY OwnedBlocks
<1>2. /\ t \in Seq(LiveBlocks)
      /\ \A j \in DOMAIN t : Skip(k, j) \in DOMAIN s /\ Skip(k, j) # k /\ t[j] = s[Skip(k, j)]
      /\ \A i, j \in DOMAIN t : i < j => Skip(k, i) < Skip(k, j)
      /\ \A i, j \in DOMAIN t : i # j => Skip(k, i) # Skip(k, j)
      /\ \A i \in DOMAIN s : i # k => \E j \in DOMAIN t : Skip(k, j) = i
  BY <1>1, Removed
<1>3. Shape(q)
  BY DEF PoolShape
<1>4. \A a : OfStack(d, a) <=> OfStack(c, a)
  BY <1>1, <1>3, StillTheirs
<1>5. \A j \in DOMAIN t : Belongs(q, d, t[j])
  <2>1. \A a : Belongs(p, c, a) => Belongs(q, d, a)
    BY <1>1, <1>3, StillTheirs
  <2>2. QED
    BY <2>1, <1>1, <1>2
<1>6. Apart(FreeOf(q, d, g), t)
  <2>1. ASSUME NEW i \in DOMAIN t, NEW j \in DOMAIN t, i # j
        PROVE  t[i].took \cap t[j].took = {}
    BY <2>1, <1>1, <1>2
  <2>2. ASSUME NEW j \in DOMAIN t
        PROVE  t[j].took \cap FreeOf(q, d, g) = {}
    <3>1. Skip(k, j) \in DOMAIN s /\ Skip(k, j) # k /\ t[j] = s[Skip(k, j)]
      BY <1>2
    <3>2. t[j].took \cap s[k].took = {} /\ t[j].took \cap FreeOf(p, c, h) = {}
      BY <3>1, <1>1
    <3>3. QED
      BY <3>2
  <2>3. QED
    BY <2>1, <2>2 DEF Apart
<1>7. Stacked(d, t)
  <2>0. /\ \A j, i \in DOMAIN s : OfStack(c, s[j]) /\ OfStack(c, s[i]) /\ j < i => s[j].at < s[i].at
        /\ c.useStack => \A x \in BumpStart .. c.stackPtr - 1 :
                           \E i \in DOMAIN s : OfStack(c, s[i]) /\ x \in s[i].took
    BY DEF Owned, Stacked
  <2>1. \A i, j \in DOMAIN t : OfStack(d, t[i]) /\ OfStack(d, t[j]) /\ i < j => t[i].at < t[j].at
    BY <2>0, <1>2, <1>4
  <2>2. ASSUME d.useStack, NEW x \in BumpStart .. d.stackPtr - 1
        PROVE  \E j \in DOMAIN t : OfStack(d, t[j]) /\ x \in t[j].took
    <3>1. c.useStack
      BY <2>2 DEF SameEnds
    <3>2. x \in BumpStart .. c.stackPtr - 1
      <4>1. PICK a \in Nat, m \in Nat, n \in Nat : a = BumpStart /\ m = d.stackPtr /\ n = c.stackPtr /\ m <= n
        <5>1. BumpStart \in Nat
          BY BumpType
        <5>2. d.stackPtr \in Nat /\ c.stackPtr \in Nat
          BY BumpNumbers
        <5>3. CASE OfStack(c, s[k])
          BY <5>1, <5>2, <5>3
        <5>4. CASE ~ OfStack(c, s[k])
          BY <5>1, <5>2, <5>4
        <5>5. QED
          BY <5>3, <5>4
      <4>2. x \in a .. m - 1
        BY <4>1, <2>2
      <4>3. x \in a .. n - 1
        BY <4>1, <4>2
      <4>4. QED
        BY <4>1, <4>3
    <3>3. PICK i \in DOMAIN s : OfStack(c, s[i]) /\ x \in s[i].took
      BY <3>1, <3>2, <2>0
    <3>4. i # k
      <4>1. ASSUME i = k PROVE FALSE
        <5>1. OfStack(c, s[k]) /\ x \in s[k].took /\ d.stackPtr = s[k].at
          BY <4>1, <3>3
        <5>2. PICK at \in Nat, R \in Nat : at = s[k].at /\ R = RoundedUp(s[k].asked.size, BumpAlign)
          BY <1>1, EndsOfBlock, RequestType, BumpType, RoundedIsAligned
        <5>3. s[k].took = at .. at + R - 1
          BY <5>1, <5>2 DEF OfStack
        <5>4. x \in at .. at + R - 1 /\ x \in BumpStart .. at - 1
          BY <5>1, <5>2, <5>3, <2>2
        <5>5. QED
          BY <5>4, <5>2
      <4>2. QED
        BY <4>1
    <3>5. PICK j \in DOMAIN t : Skip(k, j) = i
      BY <3>4, <1>2
    <3>6. t[j] = s[i]
      BY <3>5, <1>2
    <3>7. QED
      BY <3>3, <3>5, <3>6, <1>4
  <2>3. QED
    BY <2>1, <2>2 DEF Stacked
<1>8. QED
  BY <1>2, <1>5, <1>6, <1>7 DEF Owned

\* The block that alloca took last is the topmost of the stack.
LEMMA Topmost ==
    ASSUME NEW p, NEW c, NEW h, NEW s, Owned(p, c, h, s),
           NEW size \in BumpSizes, BumpShape(c, size),
           NEW k \in DOMAIN s, OfStack(c, s[k]),
           \A j \in DOMAIN s : k < j => ~ s[j].asked.alloca
    PROVE  s[k].at + RoundedUp(s[k].asked.size, BumpAlign) = c.stackPtr
<1>1. /\ s \in Seq(LiveBlocks)
      /\ \A j \in DOMAIN s :
           s[j] \in LiveBlocks /\ s[j].at \in s[j].took /\ s[j].took \cap FreeOf(p, c, h) = {}
      /\ \A i, j \in DOMAIN s : i # j => s[i].took \cap s[j].took = {}
  BY OwnedBlocks
<1>2. \A j \in DOMAIN s : s[j].at \in Nat /\ RoundedUp(s[j].asked.size, BumpAlign) \in Nat \ {0}
  <2>1. ASSUME NEW j \in DOMAIN s
        PROVE  s[j].at \in Nat /\ RoundedUp(s[j].asked.size, BumpAlign) \in Nat \ {0}
    <3>1. s[j].at \in Nat /\ s[j].asked.size \in Nat \ {0}
      BY <1>1, EndsOfBlock, RequestType
    <3>2. QED
      BY <3>1, StackCost
  <2>2. QED
    BY <2>1
<1>3. PICK at \in Nat, R \in Nat \ {0} : at = s[k].at /\ R = RoundedUp(s[k].asked.size, BumpAlign)
  BY <1>2
<1>4. PICK a \in Nat, sp \in Nat, e \in Nat :
        /\ a = BumpStart /\ sp = c.stackPtr /\ e = StackEnd(c) /\ e = c.stackPtr + c.stackLeft
        /\ a <= sp /\ sp <= e
  BY BumpType, BumpNumbers
<1>5. s[k].took = at .. at + R - 1 /\ a <= at /\ at + R <= e /\ c.useStack
  BY <1>3, <1>4 DEF OfStack
<1>6. sp .. e - 1 \subseteq FreeOf(p, c, h)
  BY <1>4, StackIsFree
<1>7. at + R <= sp
  <2>1. at + R - 1 \in at .. at + R - 1
    OBVIOUS
  <2>2. at + R - 1 \notin sp .. e - 1
    BY <2>1, <1>1, <1>5, <1>6
  <2>3. QED
    BY <2>2, <1>5
<1>8. ASSUME at + R < sp
      PROVE  FALSE
  <2>1. at + R \in a .. sp - 1
    BY <1>5, <1>8
  <2>2. PICK i \in DOMAIN s : OfStack(c, s[i]) /\ at + R \in s[i].took
    BY <2>1, <1>4, <1>5 DEF Owned, Stacked
  <2>3. at + R \notin s[k].took
    BY <1>5
  <2>4. i # k
    BY <2>2, <2>3
  <2>5. i \in Nat /\ k \in Nat
    BY <1>1
  <2>6. CASE i < k
    <3>1. s[i].at < s[k].at
      BY <2>2, <2>6 DEF Owned, Stacked
    <3>2. PICK bt \in Nat, Q \in Nat : bt = s[i].at /\ Q = RoundedUp(s[i].asked.size, BumpAlign)
      BY <1>2
    <3>3. s[i].took = bt .. bt + Q - 1
      BY <2>2, <3>2 DEF OfStack
    <3>4. bt < at /\ at + R \in bt .. bt + Q - 1
      BY <3>1, <3>2, <3>3, <2>2, <1>3
    <3>5. at \in bt .. bt + Q - 1
      BY <3>4
    <3>6. at \in s[i].took /\ at \in s[k].took
      BY <3>3, <3>5, <1>1, <1>3
    <3>7. QED
      BY <3>6, <2>4, <1>1
  <2>7. CASE k < i
    <3>1. ~ s[i].asked.alloca
      BY <2>7
    <3>2. s[i].asked.alloca
      BY <2>2 DEF OfStack
    <3>3. QED
      BY <3>1, <3>2
  <2>8. QED
    BY <2>4, <2>5, <2>6, <2>7
<1>9. QED
  BY <1>3, <1>4, <1>7, <1>8

-----------------------------------------------------------------------------
(* Every allocation adds a block that was free                               *)

\* From the allocators p, c and h with the blocks s to q, d and g with t: the
\* block b joins.
SameMemory(p, c, q, d) ==
  /\ PoolShape(q) /\ q.size = p.size /\ q.counts = p.counts
  /\ \E size \in BumpSizes : BumpShape(c, size) /\ BumpShape(d, size)
  /\ SameEnds(c, d)
Joins(p, c, h, s, q, d, g, t, b) ==
  /\ SameMemory(p, c, q, d) /\ g \subseteq HeapArea
  /\ b \in LiveBlocks /\ Belongs(q, d, b)
  /\ FreeOf(q, d, g) \subseteq FreeOf(p, c, h) /\ b.took = FreeOf(p, c, h) \ FreeOf(q, d, g)
  /\ \/ d.stackPtr = c.stackPtr /\ ~ OfStack(d, b)
     \/ /\ OfStack(d, b) /\ b.at = c.stackPtr
        /\ d.stackPtr = b.at + RoundedUp(b.asked.size, BumpAlign)
  /\ t = Append(s, b)
  /\ b.asked.size <= b.len /\ b.at % 2^b.asked.align = 0

\* What a client keeps of "block".
Kept(block, r, took) ==
  [at |-> block.at, len |-> IF r.exact THEN r.size ELSE block.len, asked |-> r, took |-> took]

KeepsOf(b, block, r, took) ==
  /\ b.at = block.at /\ b.len = (IF r.exact THEN r.size ELSE block.len)
  /\ b.asked = r /\ b.took = took
  /\ b = [at |-> b.at, len |-> b.len, asked |-> b.asked, took |-> b.took]
\* And what that is made of.
LEMMA KeptFields ==
    ASSUME NEW block, NEW r, NEW took, NEW b, b = Kept(block, r, took)
    PROVE  KeepsOf(b, block, r, took)
BY DEF Kept, KeepsOf

\* A cache has its own ends.
LEMMA SameEndsItself ==
    ASSUME NEW size \in BumpSizes, NEW c, BumpShape(c, size)
    PROVE  SameEnds(c, c)
BY BumpNumbers DEF SameEnds

\* Taking from one of three places leaves the others alone.
LEMMA CutFromUnion ==
    ASSUME NEW A, NEW B, NEW C, NEW X, A \cap B = {}, A \cap C = {}, X \subseteq A
    PROVE  /\ (A \ X) \cup B \cup C \subseteq A \cup B \cup C
           /\ (A \cup B \cup C) \ ((A \ X) \cup B \cup C) = X
OBVIOUS

\* What is free is free in one place only.
LEMMA FreePartsApart ==
    ASSUME NEW p, PoolShape(p), NEW size \in BumpSizes, NEW c, BumpShape(c, size), NEW h, h \subseteq HeapArea
    PROVE  /\ PoolFreeBytes(p) \cap BumpFreeBytes(c) = {} /\ PoolFreeBytes(p) \cap h = {}
           /\ BumpFreeBytes(c) \cap h = {}
<1>1. PoolFreeBytes(p) \subseteq PoolArea(p.size) /\ BumpFreeBytes(c) \subseteq BumpArea(size)
  BY PoolFreeInArea, BumpFreeInArea
<1>2. /\ PoolArea(p.size) \cap BumpArea(size) = {}
      /\ PoolArea(p.size) \cap HeapArea = {}
      /\ BumpArea(size) \cap HeapArea = {}
  BY AreasApart DEF PoolShape
<1>3. QED
  BY <1>1, <1>2

\* The pool serves with a block that was free (allocate of pool_alloc.hpp).
LEMMA PoolServes ==
    ASSUME NEW p, NEW c, NEW h, NEW s, Owned(p, c, h, s), NEW r \in Requests,
           r.via = "pool", ~ r.safe, ~ r.cacheOnly, PoolAllocates(p, r),
           NEW q, q = PoolAllocated(p, r).pool,
           NEW b, b = Kept(PoolAllocated(p, r).block, r, FreeOf(p, c, h) \ FreeOf(q, c, h)),
           NEW t, t = Append(s, b)
    PROVE  Joins(p, c, h, s, q, c, h, t, b)
<1>1. PoolShape(p) /\ Shape(p) /\ h \subseteq HeapArea
  BY OwnedBlocks
<1>2. PICK size \in BumpSizes : BumpShape(c, size)
  BY DEF Owned
<1>3. PICK block : block = PoolAllocated(p, r).block
  OBVIOUS
<1>4. PICK i \in Containers, range \in Ranges :
        HandsOut(p, q, r, i, range, block.at) /\ block.len = range.len * 2^i
  BY <1>1, <1>3, PoolTakes
<1>5. /\ PoolShape(q) /\ q.size = p.size /\ q.counts = p.counts
      /\ BytesOfRange(p, i, range) \subseteq PoolFreeBytes(p)
      /\ PoolFreeBytes(q) = PoolFreeBytes(p) \ BytesOfRange(p, i, range)
      /\ range.len = Need(i, r) /\ range.begin + range.len <= p.counts[i]
      /\ block.at = DataOf(p, i) + range.begin * 2^i /\ block.at % 2^r.align = 0
  BY <1>4 DEF HandsOut
<1>6. /\ FreeOf(q, c, h) \subseteq FreeOf(p, c, h)
      /\ FreeOf(p, c, h) \ FreeOf(q, c, h) = BytesOfRange(p, i, range)
  <2>1. PoolFreeBytes(p) \cap BumpFreeBytes(c) = {} /\ PoolFreeBytes(p) \cap h = {}
    BY <1>1, <1>2, FreePartsApart
  <2>2. /\ (PoolFreeBytes(p) \ BytesOfRange(p, i, range)) \cup BumpFreeBytes(c) \cup h
             \subseteq PoolFreeBytes(p) \cup BumpFreeBytes(c) \cup h
        /\ (PoolFreeBytes(p) \cup BumpFreeBytes(c) \cup h)
             \ ((PoolFreeBytes(p) \ BytesOfRange(p, i, range)) \cup BumpFreeBytes(c) \cup h)
             = BytesOfRange(p, i, range)
    BY <2>1, <1>5, CutFromUnion
  <2>3. QED
    BY <2>2, <1>5 DEF FreeOf
<1>7. /\ b.at = block.at /\ b.len = (IF r.exact THEN r.size ELSE block.len)
      /\ b.asked = r /\ b.took = BytesOfRange(p, i, range)
      /\ b = [at |-> b.at, len |-> b.len, asked |-> b.asked, took |-> b.took]
  <2>1. KeepsOf(b, block, r, FreeOf(p, c, h) \ FreeOf(q, c, h))
    BY <1>3, KeptFields
  <2>2. QED
    BY <2>1, <1>6 DEF KeepsOf
<1>8. /\ RangeBack(p, i, b, r) = range /\ range.len \in Nat \ {0}
      /\ Held(b) \subseteq BytesOfRange(p, i, range)
      /\ b.at \in Nat /\ b.len \in Nat \ {0} /\ r.size <= b.len
  <2>1. b.at = DataOf(p, i) + range.begin * 2^i
    BY <1>5, <1>7
  <2>2. b.len = IF r.exact THEN r.size ELSE range.len * 2^i
    BY <1>4, <1>7
  <2>3. QED
    BY <2>1, <2>2, <1>1, <1>5, RangeLeadsBack
<1>9. b \in LiveBlocks
  <2>1. PICK d \in Nat, e \in Nat : BytesOfRange(p, i, range) \subseteq d .. e
    <3>1. BytesOfRange(p, i, range) \subseteq PoolArea(p.size)
      BY <1>1, <1>5, PoolFreeInArea
    <3>2. PoolStart \in Nat /\ p.size \in Nat \ {0}
      BY <1>1, CountsOfPool, PoolAssumption
    <3>3. PICK a \in Nat, n \in Nat \ {0} : a = PoolStart /\ n = p.size /\ a + n - 1 \in Nat
      BY <3>2
    <3>4. QED
      BY <3>1, <3>3 DEF PoolArea
  <2>2. b.took \in SUBSET Int
    <3>1. d .. e \subseteq Int
      OBVIOUS
    <3>2. b.took \subseteq d .. e
      BY <2>1, <1>7
    <3>3. QED
      BY <3>1, <3>2
  <2>3. QED
    BY <2>2, <1>7, <1>8 DEF LiveBlocks
<1>10. OfPool(q, b)
  <2>1. OfPool(p, b)
    <3>1. range.begin \in Nat
      BY DEF Ranges
    <3>2. QED
      BY <3>1, <1>5, <1>7, <1>8 DEF OfPool
  <2>2. QED
    BY <2>1, <1>5, SameLayout
<1>11. Held(b) \subseteq b.took
  BY <1>7, <1>8
<1>12. ~ OfStack(c, b)
  <2>1. Whose(q, c, b)
    BY <1>2, <1>5, <1>9, <1>11, WhoseIsKnown
  <2>2. QED
    BY <2>1, <1>10 DEF Whose
<1>13. SameMemory(p, c, q, c)
  BY <1>2, <1>5, SameEndsItself DEF SameMemory
<1>14. QED
  BY <1>1, <1>5, <1>6, <1>7, <1>8, <1>9, <1>10, <1>11, <1>12, <1>13 DEF Joins, Belongs

\* The stack serves with its next bytes (alloca_bytes_cache_).
LEMMA StackServing ==
    ASSUME NEW p, NEW c, NEW h, NEW s, Owned(p, c, h, s), NEW r \in Requests,
           ~ r.safe, r.alloca, StackServes(c, r),
           NEW d, d = StackAllocated(c, r).cache,
           NEW b, b = Kept(StackAllocated(c, r).block, r, FreeOf(p, c, h) \ FreeOf(p, d, h)),
           NEW t, t = Append(s, b)
    PROVE  Joins(p, c, h, s, p, d, h, t, b)
<1>1. PoolShape(p) /\ Shape(p) /\ h \subseteq HeapArea
  BY OwnedBlocks
<1>2. PICK size \in BumpSizes : BumpShape(c, size)
  BY DEF Owned
<1>3. PICK tk : tk = StackAllocated(c, r)
  OBVIOUS
<1>4. PICK R : R = RoundedUp(r.size, BumpAlign)
  OBVIOUS
<1>5. /\ BumpShape(d, size) /\ SameEnds(c, d) /\ d.monotonicPtr = c.monotonicPtr
      /\ R \in Nat /\ r.size <= R /\ d.stackPtr = c.stackPtr + R
      /\ c.stackPtr .. c.stackPtr + R - 1 \subseteq BumpFreeBytes(c)
      /\ BumpFreeBytes(d) = BumpFreeBytes(c) \ (c.stackPtr .. c.stackPtr + R - 1)
      /\ tk.block.at = c.stackPtr /\ tk.block.len = (IF r.exact THEN r.size ELSE R)
      /\ c.stackPtr % 2^BumpAlign = 0 /\ c.stackPtr % 2^r.align = 0
  <2>1. d = tk.cache
    BY <1>3
  <2>2. /\ BumpShape(tk.cache, size) /\ SameEnds(c, tk.cache) /\ tk.cache.monotonicPtr = c.monotonicPtr
        /\ R \in Nat /\ r.size <= R /\ tk.cache.stackPtr = c.stackPtr + R
        /\ c.stackPtr .. c.stackPtr + R - 1 \subseteq BumpFreeBytes(c)
        /\ BumpFreeBytes(tk.cache) = BumpFreeBytes(c) \ (c.stackPtr .. c.stackPtr + R - 1)
        /\ tk.block.at = c.stackPtr /\ tk.block.len = (IF r.exact THEN r.size ELSE R)
        /\ c.stackPtr % 2^BumpAlign = 0 /\ c.stackPtr % 2^r.align = 0
    BY <1>2, <1>3, <1>4, StackTakes
  <2>3. QED
    BY <2>1, <2>2
<1>6. PICK X : X = c.stackPtr .. c.stackPtr + R - 1
  OBVIOUS
<1>7. FreeOf(p, d, h) \subseteq FreeOf(p, c, h) /\ FreeOf(p, c, h) \ FreeOf(p, d, h) = X
  <2>1. BumpFreeBytes(c) \cap PoolFreeBytes(p) = {} /\ BumpFreeBytes(c) \cap h = {}
    BY <1>1, <1>2, FreePartsApart
  <2>2. /\ (BumpFreeBytes(c) \ X) \cup PoolFreeBytes(p) \cup h
             \subseteq BumpFreeBytes(c) \cup PoolFreeBytes(p) \cup h
        /\ (BumpFreeBytes(c) \cup PoolFreeBytes(p) \cup h)
             \ ((BumpFreeBytes(c) \ X) \cup PoolFreeBytes(p) \cup h) = X
    BY <2>1, <1>5, <1>6, CutFromUnion
  <2>3. FreeOf(p, d, h) = (BumpFreeBytes(c) \ X) \cup PoolFreeBytes(p) \cup h
    BY <1>5, <1>6 DEF FreeOf
  <2>4. FreeOf(p, c, h) = BumpFreeBytes(c) \cup PoolFreeBytes(p) \cup h
    BY DEF FreeOf
  <2>5. QED
    BY <2>2, <2>3, <2>4
<1>8. /\ b.at = c.stackPtr /\ b.len = (IF r.exact THEN r.size ELSE R)
      /\ b.asked = r /\ b.took = X
      /\ b = [at |-> b.at, len |-> b.len, asked |-> b.asked, took |-> b.took]
  <2>1. KeepsOf(b, tk.block, r, FreeOf(p, c, h) \ FreeOf(p, d, h))
    BY <1>3, KeptFields
  <2>2. QED
    BY <2>1, <1>5, <1>7 DEF KeepsOf
<1>9. PICK sp \in Nat, n \in Nat \ {0} : sp = c.stackPtr /\ n = r.size
  BY <1>2, BumpNumbers, RequestType
<1>10. b.at = sp /\ X = sp .. sp + R - 1 /\ b.len \in Nat \ {0} /\ n <= b.len /\ b.len <= R
  BY <1>5, <1>6, <1>8, <1>9
<1>11. b \in LiveBlocks
  <2>1. X \in SUBSET Int
    BY <1>10
  <2>2. QED
    BY <2>1, <1>8, <1>9, <1>10 DEF LiveBlocks
<1>12. Held(b) \subseteq b.took
  <2>1. PICK l \in Nat : l = b.len /\ l <= R
    BY <1>10
  <2>2. sp .. sp + l - 1 \subseteq sp .. sp + R - 1
    BY <2>1, <1>5
  <2>3. QED
    BY <2>1, <2>2, <1>8, <1>10, ZenonT(30) DEF Held
<1>13. OfStack(d, b)
  <2>1. d.useStack
    BY <1>5 DEF SameEnds, StackServes
  <2>2. BumpStart <= b.at
    BY <1>2, <1>8, BumpNumbers
  <2>3. b.at + R <= StackEnd(d)
    BY <1>5, <1>8, BumpNumbers
  <2>4. QED
    BY <2>1, <2>2, <2>3, <1>4, <1>5, <1>6, <1>8 DEF OfStack
<1>14. SameMemory(p, c, p, d)
  BY <1>1, <1>2, <1>5 DEF SameMemory
<1>15. b.asked.size <= b.len /\ b.at % 2^b.asked.align = 0
  BY <1>5, <1>8, <1>9, <1>10
<1>16. d.stackPtr = b.at + RoundedUp(b.asked.size, BumpAlign)
  BY <1>4, <1>5, <1>8
<1>17. QED
  BY <1>1, <1>7, <1>8, <1>11, <1>12, <1>13, <1>14, <1>15, <1>16 DEF Joins, Belongs

\* The buffer serves, whether asked as the cache or as the allocator itself.
LEMMA BufferServing ==
    ASSUME NEW p, NEW c, NEW h, NEW s, Owned(p, c, h, s), NEW r \in Requests,
           ~ r.safe, MonotonicServes(c, r),
           NEW e, e = MonotonicAllocated(c, r).cache,
           NEW d, d = e \/ d = [e EXCEPT !.useMonotonic = FALSE],
           NEW b, b = Kept(MonotonicAllocated(c, r).block, r, FreeOf(p, c, h) \ FreeOf(p, d, h)),
           NEW t, t = Append(s, b)
    PROVE  Joins(p, c, h, s, p, d, h, t, b)
<1>1. PoolShape(p) /\ Shape(p) /\ h \subseteq HeapArea
  BY OwnedBlocks
<1>2. PICK size \in BumpSizes : BumpShape(c, size)
  BY DEF Owned
<1>3. PICK tk : tk = MonotonicAllocated(c, r)
  OBVIOUS
<1>4. PICK X : X = Used(c, r)
  OBVIOUS
<1>5. /\ BumpShape(e, size) /\ SameEnds(c, e) /\ e.stackPtr = c.stackPtr
      /\ X \subseteq BumpFreeBytes(c) /\ BumpFreeBytes(e) = BumpFreeBytes(c) \ X
      /\ X \subseteq StackEnd(e) .. e.monotonicPtr - 1
      /\ tk.block.at \in Nat /\ tk.block.len = r.size /\ tk.block.at % 2^r.align = 0
      /\ tk.block.at .. tk.block.at + r.size - 1 \subseteq X
  <2>1. e = tk.cache
    BY <1>3
  <2>2. /\ BumpShape(tk.cache, size) /\ SameEnds(c, tk.cache) /\ tk.cache.stackPtr = c.stackPtr
        /\ Used(c, r) \subseteq BumpFreeBytes(c)
        /\ BumpFreeBytes(tk.cache) = BumpFreeBytes(c) \ Used(c, r)
        /\ Used(c, r) \subseteq StackEnd(tk.cache) .. tk.cache.monotonicPtr - 1
        /\ tk.block.at \in Nat /\ tk.block.len = r.size /\ tk.block.at % 2^r.align = 0
        /\ tk.block.at .. tk.block.at + r.size - 1 \subseteq Used(c, r)
    BY <1>2, <1>3, BufferTakes
  <2>3. QED
    BY <2>1, <2>2, <1>4
<1>6. /\ BumpShape(d, size) /\ SameEnds(c, d) /\ d.stackPtr = c.stackPtr
      /\ BumpFreeBytes(d) = BumpFreeBytes(c) \ X
      /\ X \subseteq StackEnd(d) .. d.monotonicPtr - 1
  <2>1. CASE d = e
    BY <2>1, <1>5
  <2>2. CASE d = [e EXCEPT !.useMonotonic = FALSE]
    <3>1. /\ BumpShape(d, size) /\ SameEnds(e, d) /\ BumpFreeBytes(d) = BumpFreeBytes(e)
          /\ d.monotonicPtr = e.monotonicPtr /\ d.stackPtr = e.stackPtr
      BY <2>2, <1>5, SwitchingOff
    <3>2. StackEnd(d) = StackEnd(e)
      BY <3>1 DEF SameEnds
    <3>3. SameEnds(c, d)
      BY <3>1, <1>5 DEF SameEnds
    <3>4. QED
      BY <3>1, <3>2, <3>3, <1>5
  <2>3. QED
    BY <2>1, <2>2
<1>7. FreeOf(p, d, h) \subseteq FreeOf(p, c, h) /\ FreeOf(p, c, h) \ FreeOf(p, d, h) = X
  <2>1. BumpFreeBytes(c) \cap PoolFreeBytes(p) = {} /\ BumpFreeBytes(c) \cap h = {}
    BY <1>1, <1>2, FreePartsApart
  <2>2. /\ (BumpFreeBytes(c) \ X) \cup PoolFreeBytes(p) \cup h
             \subseteq BumpFreeBytes(c) \cup PoolFreeBytes(p) \cup h
        /\ (BumpFreeBytes(c) \cup PoolFreeBytes(p) \cup h)
             \ ((BumpFreeBytes(c) \ X) \cup PoolFreeBytes(p) \cup h) = X
    BY <2>1, <1>5, CutFromUnion
  <2>3. FreeOf(p, d, h) = (BumpFreeBytes(c) \ X) \cup PoolFreeBytes(p) \cup h
    BY <1>6 DEF FreeOf
  <2>4. FreeOf(p, c, h) = BumpFreeBytes(c) \cup PoolFreeBytes(p) \cup h
    BY DEF FreeOf
  <2>5. QED
    BY <2>2, <2>3, <2>4
<1>8. /\ b.at = tk.block.at /\ b.len = r.size /\ b.asked = r /\ b.took = X
      /\ b = [at |-> b.at, len |-> b.len, asked |-> b.asked, took |-> b.took]
  <2>1. KeepsOf(b, tk.block, r, FreeOf(p, c, h) \ FreeOf(p, d, h))
    BY <1>3, KeptFields
  <2>2. QED
    BY <2>1, <1>5, <1>7 DEF KeepsOf
<1>9. r.size \in Nat \ {0}
  BY RequestType
<1>10. b \in LiveBlocks
  <2>1. PICK m \in Nat, n \in Nat : m = StackEnd(d) /\ n = d.monotonicPtr
    BY <1>6, BumpNumbers
  <2>2. X \in SUBSET Int
    BY <2>1, <1>6
  <2>3. QED
    BY <2>2, <1>5, <1>8, <1>9 DEF LiveBlocks
<1>11. Held(b) \subseteq b.took
  BY <1>5, <1>8 DEF Held
<1>12. OfBuffer(d, b)
  BY <1>6, <1>8 DEF OfBuffer
<1>13. ~ OfStack(d, b)
  <2>1. Whose(p, d, b)
    BY <1>1, <1>6, <1>10, <1>11, WhoseIsKnown
  <2>2. QED
    BY <2>1, <1>12 DEF Whose
<1>14. SameMemory(p, c, p, d)
  BY <1>1, <1>2, <1>6 DEF SameMemory
<1>15. b.asked.size <= b.len /\ b.at % 2^b.asked.align = 0
  BY <1>5, <1>8, <1>9
<1>16. QED
  BY <1>1, <1>6, <1>7, <1>8, <1>10, <1>11, <1>12, <1>13, <1>14, <1>15 DEF Joins, Belongs

\* The heap serves with bytes that were free.
LEMMA HeapServing ==
    ASSUME NEW p, NEW c, NEW h, NEW s, Owned(p, c, h, s), NEW r \in Requests,
           r.safe \/ ~ r.cacheOnly,
           NEW at \in h, at % 2^r.align = 0, at .. at + r.size - 1 \subseteq h,
           NEW g, g = h \ (at .. at + r.size - 1),
           NEW d, d = c \/ d = [c EXCEPT !.useMonotonic = FALSE],
           NEW b, b = Kept([at |-> at, len |-> r.size], r, FreeOf(p, c, h) \ FreeOf(p, d, g)),
           NEW t, t = Append(s, b)
    PROVE  Joins(p, c, h, s, p, d, g, t, b)
<1>1. PoolShape(p) /\ Shape(p) /\ h \subseteq HeapArea
  BY OwnedBlocks
<1>2. PICK size \in BumpSizes : BumpShape(c, size)
  BY DEF Owned
<1>3. PICK X : X = at .. at + r.size - 1
  OBVIOUS
<1>4. /\ BumpShape(d, size) /\ SameEnds(c, d) /\ d.stackPtr = c.stackPtr
      /\ BumpFreeBytes(d) = BumpFreeBytes(c)
  BY <1>2, SwitchingOff, SameEndsItself
<1>5. FreeOf(p, d, g) \subseteq FreeOf(p, c, h) /\ FreeOf(p, c, h) \ FreeOf(p, d, g) = X
  <2>1. h \cap PoolFreeBytes(p) = {} /\ h \cap BumpFreeBytes(c) = {}
    BY <1>1, <1>2, FreePartsApart
  <2>2. X \subseteq h /\ g = h \ X
    BY <1>3
  <2>3. /\ (h \ X) \cup PoolFreeBytes(p) \cup BumpFreeBytes(c)
             \subseteq h \cup PoolFreeBytes(p) \cup BumpFreeBytes(c)
        /\ (h \cup PoolFreeBytes(p) \cup BumpFreeBytes(c))
             \ ((h \ X) \cup PoolFreeBytes(p) \cup BumpFreeBytes(c)) = X
    BY <2>1, <2>2, CutFromUnion
  <2>4. FreeOf(p, d, g) = (h \ X) \cup PoolFreeBytes(p) \cup BumpFreeBytes(c)
    BY <1>4, <2>2 DEF FreeOf
  <2>5. FreeOf(p, c, h) = h \cup PoolFreeBytes(p) \cup BumpFreeBytes(c)
    BY DEF FreeOf
  <2>6. QED
    BY <2>3, <2>4, <2>5
<1>6. /\ b.at = at /\ b.len = r.size /\ b.asked = r /\ b.took = X
      /\ b = [at |-> b.at, len |-> b.len, asked |-> b.asked, took |-> b.took]
  <2>1. PICK block : block = [at |-> at, len |-> r.size]
    OBVIOUS
  <2>2. block.at = at /\ block.len = r.size
    BY <2>1
  <2>3. b = Kept(block, r, FreeOf(p, c, h) \ FreeOf(p, d, g))
    BY <2>1
  <2>4. KeepsOf(b, block, r, FreeOf(p, c, h) \ FreeOf(p, d, g))
    BY <2>3, KeptFields
  <2>5. QED
    BY <2>2, <2>4, <1>5 DEF KeepsOf
<1>7. r.size \in Nat \ {0} /\ at \in Nat /\ h \subseteq Nat
  <2>1. PICK a \in Nat, n \in Nat : a = HeapStart /\ n = HeapSize
    BY AreasAssumption
  <2>2. h \subseteq a .. a + n - 1
    BY <2>1, <1>1 DEF HeapArea
  <2>3. a .. a + n - 1 \subseteq Nat
    BY <2>1
  <2>4. QED
    BY <2>2, <2>3, RequestType
<1>8. b \in LiveBlocks
  <2>1. X \in SUBSET Int
    BY <1>3, <1>7
  <2>2. QED
    BY <2>1, <1>6, <1>7 DEF LiveBlocks
<1>9. OfHeap(b) /\ Held(b) \subseteq b.took
  BY <1>1, <1>3, <1>6 DEF OfHeap, Held
<1>10. ~ OfStack(d, b)
  <2>1. Whose(p, d, b)
    BY <1>1, <1>4, <1>8, <1>9, WhoseIsKnown
  <2>2. QED
    BY <2>1, <1>9 DEF Whose
<1>11. SameMemory(p, c, p, d)
  BY <1>1, <1>2, <1>4 DEF SameMemory
<1>12. b.asked.size <= b.len /\ b.at % 2^b.asked.align = 0
  BY <1>6, <1>7
<1>13. g \subseteq HeapArea
  BY <1>1
<1>14. QED
  BY <1>4, <1>5, <1>6, <1>8, <1>9, <1>10, <1>11, <1>12, <1>13 DEF Joins, Belongs

-----------------------------------------------------------------------------
(* Every release gives back what was taken                                   *)

\* The block k leaves.
Leaves(p, c, h, s, q, d, g, t, k) ==
  /\ SameMemory(p, c, q, d) /\ g \subseteq HeapArea
  /\ FreeOf(q, d, g) = IF OfBuffer(c, s[k]) THEN FreeOf(p, c, h) ELSE FreeOf(p, c, h) \cup s[k].took
  /\ d.stackPtr = IF OfStack(c, s[k]) THEN s[k].at ELSE c.stackPtr
  /\ OfStack(c, s[k]) => d.stackPtr <= c.stackPtr
  /\ t = RemoveAt(s, k)

\* Who takes the block b back, and how.
GivenBack(p, c, h, b, q, d, g) ==
  \/ OfPool(p, b) /\ q = PoolDeallocated(p, b, b.asked) /\ d = c /\ g = h
  \/ OfStack(c, b) /\ d = StackDeallocated(c, b) /\ q = p /\ g = h
  \/ OfBuffer(c, b) /\ q = p /\ d = c /\ g = h
  \/ OfHeap(b) /\ g = h \cup Held(b) /\ q = p /\ d = c

\* Each allocator gets back what it handed out, the stack its topmost block.
LEMMA LeavesToItsOwner ==
    ASSUME NEW p, NEW c, NEW h, NEW s, Owned(p, c, h, s), NEW k \in DOMAIN s,
           s[k].asked.alloca => \A j \in DOMAIN s : k < j => ~ s[j].asked.alloca,
           NEW q, NEW d, NEW g, GivenBack(p, c, h, s[k], q, d, g),
           NEW t, t = RemoveAt(s, k)
    PROVE  Leaves(p, c, h, s, q, d, g, t, k)
<1>1. PoolShape(p) /\ Shape(p) /\ h \subseteq HeapArea
  BY OwnedBlocks
<1>2. PICK size \in BumpSizes : BumpShape(c, size)
  BY DEF Owned
<1>3. PICK b : b = s[k]
  OBVIOUS
<1>4. b \in LiveBlocks /\ Belongs(p, c, b) /\ Held(b) \subseteq b.took
  BY <1>3, OwnedBlocks
<1>5. Whose(p, c, b)
  BY <1>1, <1>2, <1>4, WhoseIsKnown
<1>6. SameEnds(c, c)
  BY <1>2, SameEndsItself
<1>7. CASE OfPool(p, b) /\ q = PoolDeallocated(p, b, b.asked) /\ d = c /\ g = h
  <2>1. /\ PoolShape(q) /\ q.size = p.size /\ q.counts = p.counts
        /\ PoolFreeBytes(q) = PoolFreeBytes(p) \cup b.took
    BY <1>1, <1>4, <1>7, PoolGives
  <2>2. ~ OfStack(c, b) /\ ~ OfBuffer(c, b)
    BY <1>5, <1>7 DEF Whose
  <2>3. FreeOf(q, d, g) = FreeOf(p, c, h) \cup b.took
    BY <2>1, <1>7 DEF FreeOf
  <2>4. SameMemory(p, c, q, d)
    BY <2>1, <1>2, <1>6, <1>7 DEF SameMemory
  <2>5. QED
    BY <2>2, <2>3, <2>4, <1>1, <1>3, <1>7 DEF Leaves
<1>8. CASE OfStack(c, b) /\ d = StackDeallocated(c, b) /\ q = p /\ g = h
  <2>1. b.at + RoundedUp(b.asked.size, BumpAlign) = c.stackPtr
    <3>1. OfStack(c, s[k]) /\ s[k].asked.alloca
      BY <1>3, <1>8 DEF OfStack
    <3>2. \A j \in DOMAIN s : k < j => ~ s[j].asked.alloca
      BY <3>1
    <3>3. s[k].at + RoundedUp(s[k].asked.size, BumpAlign) = c.stackPtr
      BY <3>1, <3>2, <1>2, Topmost
    <3>4. QED
      BY <3>3, <1>3
  <2>2. /\ BumpShape(d, size) /\ SameEnds(c, d) /\ d.monotonicPtr = c.monotonicPtr
        /\ d.stackPtr = b.at
        /\ BumpFreeBytes(d) = BumpFreeBytes(c) \cup b.took
    BY <2>1, <1>2, <1>4, <1>8, StackGives
  <2>3. ~ OfBuffer(c, b)
    BY <1>5, <1>8 DEF Whose
  <2>4. FreeOf(q, d, g) = FreeOf(p, c, h) \cup b.took
    BY <2>2, <1>8 DEF FreeOf
  <2>5. SameMemory(p, c, q, d)
    BY <2>2, <1>1, <1>2, <1>8 DEF SameMemory
  <2>6. d.stackPtr <= c.stackPtr
    <3>1. PICK at \in Nat, R \in Nat \ {0} : at = b.at /\ R = RoundedUp(b.asked.size, BumpAlign)
      BY <1>4, EndsOfBlock, RequestType, StackCost
    <3>2. c.stackPtr = at + R /\ d.stackPtr = at
      BY <3>1, <2>1, <2>2
    <3>3. QED
      BY <3>2, <3>1
  <2>7. QED
    BY <2>2, <2>3, <2>4, <2>5, <2>6, <1>1, <1>3, <1>8 DEF Leaves
<1>9. CASE OfBuffer(c, b) /\ q = p /\ d = c /\ g = h
  <2>1. ~ OfStack(c, b)
    BY <1>5, <1>9 DEF Whose
  <2>2. SameMemory(p, c, q, d)
    BY <1>1, <1>2, <1>6, <1>9 DEF SameMemory
  <2>3. QED
    BY <2>1, <2>2, <1>1, <1>3, <1>9 DEF Leaves
<1>10. CASE OfHeap(b) /\ g = h \cup Held(b) /\ q = p /\ d = c
  <2>1. ~ OfStack(c, b) /\ ~ OfBuffer(c, b)
    BY <1>5, <1>10 DEF Whose
  <2>2. b.took = Held(b) /\ Held(b) \subseteq HeapArea
    BY <1>10 DEF OfHeap
  <2>3. FreeOf(q, d, g) = FreeOf(p, c, h) \cup b.took
    BY <2>2, <1>10 DEF FreeOf
  <2>4. SameMemory(p, c, q, d)
    BY <1>1, <1>2, <1>6, <1>10 DEF SameMemory
  <2>5. QED
    BY <2>1, <2>2, <2>3, <2>4, <1>1, <1>3, <1>10 DEF Leaves
<1>11. QED
  BY <1>3, <1>7, <1>8, <1>9, <1>10 DEF GivenBack

\* Both keep the blocks the client's own.
LEMMA JoiningKeepsOwned ==
    ASSUME NEW p, NEW c, NEW h, NEW s, Owned(p, c, h, s), NEW q, NEW d, NEW g, NEW t, NEW b,
           Joins(p, c, h, s, q, d, g, t, b)
    PROVE  Owned(q, d, g, t)
<1>1. PICK size \in BumpSizes : BumpShape(c, size) /\ BumpShape(d, size)
  BY DEF Joins, SameMemory
<1>2. PoolShape(q) /\ q.size = p.size /\ q.counts = p.counts /\ SameEnds(c, d)
  BY DEF Joins, SameMemory
<1>3. /\ g \subseteq HeapArea /\ b \in LiveBlocks /\ Belongs(q, d, b)
      /\ FreeOf(q, d, g) \subseteq FreeOf(p, c, h) /\ b.took = FreeOf(p, c, h) \ FreeOf(q, d, g)
      /\ \/ d.stackPtr = c.stackPtr /\ ~ OfStack(d, b)
         \/ /\ OfStack(d, b) /\ b.at = c.stackPtr
            /\ d.stackPtr = b.at + RoundedUp(b.asked.size, BumpAlign)
      /\ t = Append(s, b)
  BY DEF Joins
<1>4. QED
  BY <1>1, <1>2, <1>3, Taking

\* A release leaves the other blocks their owners'.
LEMMA LeavingKeepsOwned ==
    ASSUME NEW p, NEW c, NEW h, NEW s, Owned(p, c, h, s), NEW q, NEW d, NEW g, NEW t, NEW k \in DOMAIN s,
           Leaves(p, c, h, s, q, d, g, t, k)
    PROVE  Owned(q, d, g, t)
<1>1. PICK size \in BumpSizes : BumpShape(c, size) /\ BumpShape(d, size)
  BY DEF Leaves, SameMemory
<1>2. PoolShape(q) /\ q.size = p.size /\ q.counts = p.counts /\ SameEnds(c, d)
  BY DEF Leaves, SameMemory
<1>3. /\ g \subseteq HeapArea
      /\ FreeOf(q, d, g) \subseteq FreeOf(p, c, h) \cup s[k].took
      /\ d.stackPtr = IF OfStack(c, s[k]) THEN s[k].at ELSE c.stackPtr
      /\ OfStack(c, s[k]) => d.stackPtr <= c.stackPtr
      /\ t = RemoveAt(s, k)
  BY DEF Leaves
<1>4. QED
  BY <1>1, <1>2, <1>3, Giving

\* And so does an allocation that nobody serves.
LEMMA SwitchingOffKeepsOwned ==
    ASSUME NEW p, NEW c, NEW h, NEW s, Owned(p, c, h, s), NEW d, d = [c EXCEPT !.useMonotonic = FALSE]
    PROVE  /\ Owned(p, d, h, s) /\ SameMemory(p, c, p, d)
           /\ FreeOf(p, d, h) = FreeOf(p, c, h)
<1>1. PICK size \in BumpSizes : BumpShape(c, size)
  BY DEF Owned
<1>2. /\ BumpShape(d, size) /\ SameEnds(c, d) /\ BumpFreeBytes(d) = BumpFreeBytes(c)
      /\ d.stackPtr = c.stackPtr
  BY <1>1, SwitchingOff
<1>3. PoolShape(p) /\ Shape(p)
  BY OwnedBlocks
<1>4. SameMemory(p, c, p, d)
  BY <1>1, <1>2, <1>3 DEF SameMemory
<1>5. FreeOf(p, d, h) = FreeOf(p, c, h)
  BY <1>2 DEF FreeOf
<1>6. /\ \A b : OfStack(d, b) <=> OfStack(c, b)
      /\ \A b : Belongs(p, c, b) => Belongs(p, d, b)
  BY <1>1, <1>2, <1>3, StillTheirs
<1>7. Stacked(d, s)
  <2>1. d.useStack = c.useStack
    BY <1>2 DEF SameEnds
  <2>2. QED
    BY <2>1, <1>2, <1>6 DEF Owned, Stacked
<1>8. Owned(p, d, h, s)
  BY <1>2, <1>5, <1>6, <1>7 DEF Owned
<1>9. QED
  BY <1>4, <1>5, <1>8

-----------------------------------------------------------------------------
(* The steps of the specification                                            *)

\* At first the client has no block.
LEMMA BlocksAtFirst ==
    AInit => AllocInv
<1>1. SUFFICES ASSUME AInit PROVE AllocInv
  OBVIOUS
<1>2. PICK size \in PoolSizes : pool = NewPool(size)
  BY <1>1 DEF AInit
<1>3. PICK bytes \in BumpSizes, locked \in Locked : bump = NewBump(bytes, locked)
  BY <1>1 DEF AInit
<1>4. heap = HeapArea /\ live = <<>>
  BY <1>1 DEF AInit
<1>5. PoolShape(pool)
  <2>1. pool = [size |-> size, counts |-> BlockCounts(N, size - 1),
                free |-> [i \in Containers |-> 0 .. BlockCounts(N, size - 1)[i] - 1]]
    BY <1>2 DEF NewPool
  <2>2. PICK counts : counts = BlockCounts(N, size - 1)
    OBVIOUS
  <2>3. /\ pool.size = size /\ pool.counts = counts
        /\ pool.free = [i \in Containers |-> 0 .. counts[i] - 1]
        /\ pool = [size |-> pool.size, counts |-> pool.counts, free |-> pool.free]
    BY <2>1, <2>2
  <2>4. Shape(pool)
    BY <2>2, <2>3 DEF Shape
  <2>5. \A i \in Containers : counts[i] \in Nat
    BY <2>3, <2>4, CountsOfPool
  <2>6. \A i \in Containers : pool.free[i] = 0 .. counts[i] - 1 /\ 0 .. counts[i] - 1 \subseteq Int
    BY <2>3, <2>5
  <2>7. pool.free \in [Containers -> SUBSET Int]
    BY <2>3, <2>6
  <2>8. \A i \in Containers : pool.free[i] \subseteq 0 .. pool.counts[i] - 1
    BY <2>3, <2>6
  <2>9. QED
    BY <2>4, <2>7, <2>8 DEF PoolShape
<1>6. BumpShape(bump, bytes) /\ bump.stackPtr = BumpStart
  <2>1. locked \in BOOLEAN
    BY RequestsAssumption
  <2>2. QED
    BY <2>1, <1>3, NewBumpHasShape
<1>7. live \in Seq(LiveBlocks) /\ DOMAIN live = {}
  BY <1>4
<1>8. \A x : x \notin BumpStart .. BumpStart - 1
  <2>1. BumpStart \in Nat
    BY BumpAssumption
  <2>2. QED
    BY <2>1
<1>9. Stacked(bump, live)
  BY <1>6, <1>7, <1>8 DEF Stacked
<1>10. Apart(FreeOf(pool, bump, heap), live)
  BY <1>7 DEF Apart
<1>11. QED
  BY <1>4, <1>5, <1>6, <1>7, <1>9, <1>10 DEF AllocInv, Owned

\* An allocation that is served.
Allocating(r) ==
  \/ AllocateFromPool(r) \/ AllocateFromStack(r) \/ AllocateFromCache(r)
  \/ AllocateFromBump(r) \/ AllocateFromHeap(r)

\* allocate_bytes_impl_ and obj_allocate, whichever alternative serves.
LEMMA AllocatingJoins ==
    ASSUME AllocInv, NEW r \in Requests, Allocating(r)
    PROVE  \E b : Joins(pool, bump, heap, live, pool', bump', heap', live', b)
<1>1. Owned(pool, bump, heap, live)
  BY DEF AllocInv
<1>2. FreeBytes = FreeOf(pool, bump, heap) /\ FreeBytes' = FreeOf(pool', bump', heap')
  BY DEF FreeBytes, FreeOf
<1>3. \A block : Keep(block, r) =>
        live' = Append(live, Kept(block, r, FreeOf(pool, bump, heap) \ FreeOf(pool', bump', heap')))
  BY <1>2 DEF Keep, Kept
<1>4. CASE AllocateFromPool(r)
  <2>1. r.via = "pool" /\ ~ r.safe /\ ~ r.cacheOnly /\ PoolAllocates(pool, r)
    BY <1>4 DEF AllocateFromPool, FromPool
  <2>2. pool' = PoolAllocated(pool, r).pool /\ bump' = bump /\ heap' = heap
    BY <1>4 DEF AllocateFromPool, TakeFromPool
  <2>3. Keep(PoolAllocated(pool, r).block, r)
    BY <1>4 DEF AllocateFromPool, TakeFromPool
  <2>4. PICK b : b = Kept(PoolAllocated(pool, r).block, r, FreeOf(pool, bump, heap) \ FreeOf(pool', bump, heap))
    OBVIOUS
  <2>5. live' = Append(live, b)
    BY <2>2, <2>3, <2>4, <1>3
  <2>6. Joins(pool, bump, heap, live, pool', bump, heap, live', b)
    BY <2>1, <2>2, <2>4, <2>5, <1>1, PoolServes
  <2>7. QED
    BY <2>2, <2>6
<1>5. CASE AllocateFromStack(r)
  <2>1. ~ r.safe /\ r.alloca /\ StackServes(bump, r)
    BY <1>5 DEF AllocateFromStack, ReachesBump, FromStack
  <2>2. bump' = StackAllocated(bump, r).cache /\ pool' = pool /\ heap' = heap
    BY <1>5 DEF AllocateFromStack, TakeFromBump
  <2>3. Keep(StackAllocated(bump, r).block, r)
    BY <1>5 DEF AllocateFromStack, TakeFromBump
  <2>4. PICK b : b = Kept(StackAllocated(bump, r).block, r, FreeOf(pool, bump, heap) \ FreeOf(pool, bump', heap))
    OBVIOUS
  <2>5. live' = Append(live, b)
    BY <2>2, <2>3, <2>4, <1>3
  <2>6. Joins(pool, bump, heap, live, pool, bump', heap, live', b)
    BY <2>1, <2>2, <2>4, <2>5, <1>1, StackServing
  <2>7. QED
    BY <2>2, <2>6
<1>6. CASE AllocateFromCache(r)
  <2>1. ~ r.safe /\ MonotonicServes(bump, r)
    BY <1>6 DEF AllocateFromCache, ReachesBump, FromCache
  <2>2. bump' = MonotonicAllocated(bump, r).cache /\ pool' = pool /\ heap' = heap
    BY <1>6 DEF AllocateFromCache, TakeFromBump
  <2>3. Keep(MonotonicAllocated(bump, r).block, r)
    BY <1>6 DEF AllocateFromCache, TakeFromBump
  <2>4. PICK b : b = Kept(MonotonicAllocated(bump, r).block, r, FreeOf(pool, bump, heap) \ FreeOf(pool, bump', heap))
    OBVIOUS
  <2>5. live' = Append(live, b)
    BY <2>2, <2>3, <2>4, <1>3
  <2>6. Joins(pool, bump, heap, live, pool, bump', heap, live', b)
    BY <2>1, <2>2, <2>4, <2>5, <1>1, BufferServing
  <2>7. QED
    BY <2>2, <2>6
<1>7. CASE AllocateFromBump(r)
  <2>1. ~ r.safe /\ MonotonicServes(bump, r)
    BY <1>7 DEF AllocateFromBump, ReachesBump
  <2>2. PICK tk : tk = MonotonicAllocated(bump, r)
    OBVIOUS
  <2>3. tk = [cache |-> tk.cache, block |-> tk.block]
    BY <2>2 DEF MonotonicAllocated
  <2>4. /\ BumpAllocated(bump, r).cache = [tk.cache EXCEPT !.useMonotonic = FALSE]
        /\ BumpAllocated(bump, r).block = tk.block
    <3>1. BumpAllocated(bump, r) = [tk EXCEPT !.cache = [tk.cache EXCEPT !.useMonotonic = FALSE]]
      BY <2>2 DEF BumpAllocated
    <3>2. QED
      BY <3>1, <2>3
  <2>5. bump' = [MonotonicAllocated(bump, r).cache EXCEPT !.useMonotonic = FALSE] /\ pool' = pool /\ heap' = heap
    BY <1>7, <2>2, <2>4 DEF AllocateFromBump, TakeFromBump
  <2>6. Keep(MonotonicAllocated(bump, r).block, r)
    BY <1>7, <2>2, <2>4 DEF AllocateFromBump, TakeFromBump
  <2>7. PICK b : b = Kept(MonotonicAllocated(bump, r).block, r, FreeOf(pool, bump, heap) \ FreeOf(pool, bump', heap))
    OBVIOUS
  <2>8. live' = Append(live, b)
    BY <2>5, <2>6, <2>7, <1>3
  <2>9. Joins(pool, bump, heap, live, pool, bump', heap, live', b)
    BY <2>1, <2>5, <2>7, <2>8, <1>1, BufferServing
  <2>10. QED
    BY <2>5, <2>9
<1>8. CASE AllocateFromHeap(r)
  <2>1. r.safe \/ ~ r.cacheOnly
    BY <1>8 DEF AllocateFromHeap, BumpRefuses, PastCaches
  <2>2. PICK at \in heap :
          /\ at % 2^r.align = 0 /\ at .. at + r.size - 1 \subseteq heap
          /\ heap' = heap \ (at .. at + r.size - 1)
          /\ bump' = IF r.safe THEN bump ELSE [bump EXCEPT !.useMonotonic = FALSE]
          /\ UNCHANGED pool
          /\ Keep([at |-> at, len |-> r.size], r)
    BY <1>8 DEF AllocateFromHeap
  <2>3. bump' = bump \/ bump' = [bump EXCEPT !.useMonotonic = FALSE]
    BY <2>2
  <2>4. PICK b : b = Kept([at |-> at, len |-> r.size], r, FreeOf(pool, bump, heap) \ FreeOf(pool, bump', heap'))
    OBVIOUS
  <2>5. live' = Append(live, b)
    BY <2>2, <2>4, <1>3
  <2>6. Joins(pool, bump, heap, live, pool, bump', heap', live', b)
    BY <2>1, <2>2, <2>3, <2>4, <2>5, <1>1, HeapServing
  <2>7. QED
    BY <2>2, <2>6
<1>9. QED
  BY <1>4, <1>5, <1>6, <1>7, <1>8 DEF Allocating

\* deallocate_bytes_impl_ and obj_deallocate find the owner of every block.
LEMMA DeallocateLeaves ==
    ASSUME AllocInv, NEW k \in DOMAIN live, Deallocate(k)
    PROVE  Leaves(pool, bump, heap, live, pool', bump', heap', live', k)
<1>1. Owned(pool, bump, heap, live)
  BY DEF AllocInv
<1>2. PICK b : b = live[k]
  OBVIOUS
<1>3. PICK r : r = b.asked
  OBVIOUS
<1>4. /\ Releasable(k) /\ live' = RemoveAt(live, k)
      /\ IF ToPool(b, r) THEN pool' = PoolDeallocated(pool, b, r) /\ bump' = bump /\ heap' = heap
         ELSE IF ToStack(b, r) THEN bump' = StackDeallocated(bump, b) /\ pool' = pool /\ heap' = heap
         ELSE IF ToNobody(b, r) THEN pool' = pool /\ bump' = bump /\ heap' = heap
         ELSE heap' = heap \cup Held(b) /\ pool' = pool /\ bump' = bump
  BY <1>2, <1>3 DEF Deallocate, Held
<1>5. /\ PoolShape(pool) /\ live \in Seq(LiveBlocks) /\ b \in LiveBlocks
      /\ Belongs(pool, bump, b) /\ Held(b) \subseteq b.took
  BY <1>1, <1>2, OwnedBlocks
<1>6. PICK size \in BumpSizes : BumpShape(bump, size)
  BY <1>1 DEF Owned
<1>7. Whose(pool, bump, b)
  BY <1>5, <1>6, WhoseIsKnown
<1>8. GivenBack(pool, bump, heap, b, pool', bump', heap')
  <2>1. CASE OfPool(pool, b)
    <3>1. PoolOwns(pool, b)
      BY <2>1, <1>7 DEF Whose
    <3>2. ToPool(b, r)
      BY <3>1, <2>1, <1>3 DEF OfPool, ToPool
    <3>3. QED
      BY <3>2, <2>1, <1>3, <1>4 DEF GivenBack
  <2>2. CASE OfStack(bump, b)
    <3>1. ~ PoolOwns(pool, b) /\ IsOnStack(bump, b)
      BY <2>2, <1>7 DEF Whose
    <3>2. ~ ToPool(b, r) /\ ToStack(b, r)
      BY <3>1, <2>2, <1>3 DEF OfStack, ToPool, ToStack
    <3>3. QED
      BY <3>2, <2>2, <1>4 DEF GivenBack
  <2>3. CASE OfBuffer(bump, b)
    <3>1. ~ PoolOwns(pool, b) /\ ~ IsOnStack(bump, b) /\ IsMonotonic(bump, b)
      BY <2>3, <1>7 DEF Whose
    <3>2. ~ ToPool(b, r) /\ ~ ToStack(b, r)
      BY <3>1 DEF ToPool, ToStack
    <3>3. ToNobody(b, r)
      BY <3>1, <3>2, <2>3, <1>3 DEF OfBuffer, ToNobody
    <3>4. QED
      BY <3>2, <3>3, <2>3, <1>4 DEF GivenBack
  <2>4. CASE OfHeap(b)
    <3>1. ~ PoolOwns(pool, b) /\ ~ IsOnStack(bump, b) /\ ~ IsMonotonic(bump, b)
      BY <2>4, <1>7 DEF Whose
    <3>2. ~ ToPool(b, r) /\ ~ ToStack(b, r)
      BY <3>1 DEF ToPool, ToStack
    <3>3. ~ ToNobody(b, r)
      BY <3>1, <2>4, <1>3 DEF OfHeap, ToNobody
    <3>4. QED
      BY <3>2, <3>3, <2>4, <1>4 DEF GivenBack
  <2>5. QED
    BY <2>1, <2>2, <2>3, <2>4, <1>5 DEF Belongs
<1>9. live[k].asked.alloca => \A j \in DOMAIN live : k < j => ~ live[j].asked.alloca
  <2>1. DOMAIN live = 1 .. Len(live) /\ Len(live) \in Nat
    BY <1>5
  <2>2. ASSUME NEW j \in DOMAIN live, k < j
        PROVE  j \in k + 1 .. Len(live)
    BY <2>1, <2>2
  <2>3. QED
    BY <2>2, <1>4 DEF Releasable
<1>10. QED
  BY <1>1, <1>2, <1>4, <1>8, <1>9, LeavesToItsOwner

\* A step serves a block, releases one, or at most switches the cache off.
LEMMA EveryStep ==
    ASSUME AllocInv, [ANext]_allocVars
    PROVE  \/ \E b : Joins(pool, bump, heap, live, pool', bump', heap', live', b)
           \/ \E k \in DOMAIN live : Leaves(pool, bump, heap, live, pool', bump', heap', live', k)
           \/ /\ bump' = bump \/ bump' = [bump EXCEPT !.useMonotonic = FALSE]
              /\ pool' = pool /\ heap' = heap /\ live' = live
<1>1. CASE UNCHANGED allocVars
  BY <1>1 DEF allocVars
<1>2. ASSUME NEW r \in Requests, Allocating(r)
      PROVE  \E b : Joins(pool, bump, heap, live, pool', bump', heap', live', b)
  BY <1>2, AllocatingJoins
<1>3. ASSUME NEW r \in Requests, AllocateFails(r)
      PROVE  bump' = [bump EXCEPT !.useMonotonic = FALSE] /\ pool' = pool /\ heap' = heap /\ live' = live
  BY <1>3 DEF AllocateFails
<1>4. ASSUME NEW k \in DOMAIN live, Deallocate(k)
      PROVE  Leaves(pool, bump, heap, live, pool', bump', heap', live', k)
  BY <1>4, DeallocateLeaves
<1>5. QED
  BY <1>1, <1>2, <1>3, <1>4 DEF ANext, Allocating

\* Whatever is asked and given back, in whatever order the allocators are
\* reached, every block is of bytes that are neither free nor another block's
\* and lies where its allocator will look for it, and the blocks of the stack
\* are there in the order they were taken, without a gap.
THEOREM BlocksAreOwned == ASpec => []AllocInv
<1>1. AllocInv /\ [ANext]_allocVars => AllocInv'
  <2>1. SUFFICES ASSUME AllocInv, [ANext]_allocVars PROVE AllocInv'
    OBVIOUS
  <2>2. Owned(pool, bump, heap, live)
    BY <2>1 DEF AllocInv
  <2>3. CASE \E b : Joins(pool, bump, heap, live, pool', bump', heap', live', b)
    <3>1. PICK b : Joins(pool, bump, heap, live, pool', bump', heap', live', b)
      BY <2>3
    <3>2. Owned(pool', bump', heap', live')
      BY <3>1, <2>2, JoiningKeepsOwned
    <3>3. QED
      BY <3>2 DEF AllocInv
  <2>4. CASE \E k \in DOMAIN live : Leaves(pool, bump, heap, live, pool', bump', heap', live', k)
    <3>1. PICK k \in DOMAIN live : Leaves(pool, bump, heap, live, pool', bump', heap', live', k)
      BY <2>4
    <3>2. Owned(pool', bump', heap', live')
      BY <3>1, <2>2, LeavingKeepsOwned
    <3>3. QED
      BY <3>2 DEF AllocInv
  <2>5. CASE /\ bump' = bump \/ bump' = [bump EXCEPT !.useMonotonic = FALSE]
             /\ pool' = pool /\ heap' = heap /\ live' = live
    <3>1. Owned(pool, bump', heap, live)
      BY <2>2, <2>5, SwitchingOffKeepsOwned
    <3>2. QED
      BY <3>1, <2>5 DEF AllocInv
  <2>6. QED
    BY <2>1, <2>3, <2>4, <2>5, EveryStep
<1>2. QED
  BY <1>1, BlocksAtFirst, PTL DEF ASpec

\* A container of the pool refuses a request only if no aligned place is long
\* enough, whatever became of its blocks; the first fit is the first such place
\* and the best fit leaves the least of the run it cuts.
THEOREM FitsFound == ASpec => []FitsAreFound
<1>1. AllocInv => FitsAreFound
  <2>1. SUFFICES ASSUME AllocInv PROVE FitsAreFound
    OBVIOUS
  <2>2. PoolShape(pool)
    BY <2>1 DEF AllocInv, Owned
  <2>3. \A r \in Requests, i \in Containers : FoundIn(pool, i, r)
    BY <2>2, RightIsFound
  <2>4. QED
    BY <2>3 DEF FitsAreFound, FoundIn
<1>2. QED
  BY <1>1, BlocksAreOwned, PTL

-----------------------------------------------------------------------------
(* The refinement                                                            *)

\* The client's block as Memory.tla sees it.
Seen(c, b) ==
  [at |-> b.at, len |-> b.len, size |-> b.asked.size, align |-> b.asked.align,
   took |-> b.took, lasting |-> IsMonotonic(c, b) /\ ~ IsOnStack(c, b)]
SeenOf(c, s) == {Seen(c, b) : b \in Range(s)}
Reserved(p, c) == PoolReserved(p) \cup LockByte(c)

\* What is seen of a block.
LEMMA SeenFields ==
    ASSUME NEW c, NEW b
    PROVE  /\ Seen(c, b).at = b.at /\ Seen(c, b).len = b.len /\ Seen(c, b).size = b.asked.size
           /\ Seen(c, b).align = b.asked.align /\ Seen(c, b).took = b.took
           /\ Seen(c, b).lasting = IsLasting(c, b)
BY DEF Seen, IsLasting

\* What is seen is what the client lists.
LEMMA SeenMembers ==
    ASSUME NEW c, NEW s, NEW x
    PROVE  x \in SeenOf(c, s) <=> \E k \in DOMAIN s : x = Seen(c, s[k])
BY DEF SeenOf, Range

\* The same memory: what is reserved and how the blocks are seen stay.
LEMMA SameSight ==
    ASSUME NEW p, NEW c, NEW h, NEW s, Owned(p, c, h, s), NEW q, NEW d, SameMemory(p, c, q, d)
    PROVE  /\ Reserved(q, d) = Reserved(p, c)
           /\ \A k \in DOMAIN s : Seen(d, s[k]) = Seen(c, s[k])
<1>1. PICK size \in BumpSizes : BumpShape(c, size) /\ BumpShape(d, size)
  BY DEF SameMemory
<1>2. PoolShape(q) /\ q.size = p.size /\ q.counts = p.counts /\ SameEnds(c, d)
  BY DEF SameMemory
<1>3. PoolReserved(q) = PoolReserved(p)
  BY <1>2, SameLayout
<1>4. LockByte(d) = LockByte(c)
  BY <1>2 DEF SameEnds, LockByte
<1>5. ASSUME NEW k \in DOMAIN s
      PROVE  Seen(d, s[k]) = Seen(c, s[k])
  <2>1. PoolShape(p) /\ s[k] \in LiveBlocks /\ Belongs(p, c, s[k])
    BY OwnedBlocks
  <2>2. IsLasting(d, s[k]) <=> IsLasting(c, s[k])
    BY <2>1, <1>1, <1>2, LastingStays
  <2>3. IsLasting(d, s[k]) = IsLasting(c, s[k])
    BY <2>2 DEF IsLasting
  <2>4. QED
    BY <2>3 DEF Seen, IsLasting
<1>6. QED
  BY <1>3, <1>4, <1>5 DEF Reserved

\* Whoever has the same bytes is the same block.
LEMMA SeenApart ==
    ASSUME NEW p, NEW c, NEW h, NEW s, Owned(p, c, h, s), NEW j \in DOMAIN s, NEW k \in DOMAIN s,
           Seen(c, s[j]) = Seen(c, s[k])
    PROVE  j = k
<1>1. s[j].took = s[k].took
  BY SeenFields
<1>2. s[j].at \in s[j].took /\ (j # k => s[j].took \cap s[k].took = {})
  BY OwnedBlocks
<1>3. QED
  BY <1>1, <1>2

\* A block that joins is seen as a new one.
LEMMA JoiningIsSeen ==
    ASSUME NEW p, NEW c, NEW h, NEW s, Owned(p, c, h, s), NEW q, NEW d, NEW g, NEW t, NEW b,
           Joins(p, c, h, s, q, d, g, t, b)
    PROVE  /\ Seen(d, b) \notin SeenOf(c, s)
           /\ SeenOf(d, t) = SeenOf(c, s) \cup {Seen(d, b)}
<1>1. Owned(q, d, g, t)
  BY JoiningKeepsOwned
<1>2. s \in Seq(LiveBlocks) /\ t \in Seq(LiveBlocks)
  BY <1>1, OwnedBlocks
<1>3. t = Append(s, b) /\ b \in LiveBlocks /\ SameMemory(p, c, q, d)
  BY DEF Joins
<1>4. PICK n \in Nat : n = Len(s)
  BY <1>2
<1>5. /\ DOMAIN s = 1 .. n /\ DOMAIN t = 1 .. n + 1 /\ t[n + 1] = b
      /\ \A k \in DOMAIN s : k \in DOMAIN t /\ t[k] = s[k] /\ k <= n
      /\ \A k \in DOMAIN t : k = n + 1 \/ k \in DOMAIN s
  BY <1>2, <1>3, <1>4, Appended
<1>6. \A k \in DOMAIN s : Seen(d, t[k]) = Seen(c, s[k])
  <2>1. \A k \in DOMAIN s : Seen(d, s[k]) = Seen(c, s[k])
    BY <1>3, SameSight
  <2>2. QED
    BY <2>1, <1>5
<1>7. n + 1 \in DOMAIN t /\ n + 1 \notin DOMAIN s
  BY <1>5
<1>8. ASSUME NEW k \in DOMAIN s, Seen(d, b) = Seen(c, s[k])
      PROVE  FALSE
  <2>1. Seen(d, t[n + 1]) = Seen(d, t[k]) /\ k \in DOMAIN t
    BY <1>5, <1>6, <1>8
  <2>2. n + 1 = k
    BY <2>1, <1>1, <1>7, SeenApart
  <2>3. QED
    BY <2>2, <1>7, <1>8
<1>9. ASSUME NEW x
      PROVE  x \in SeenOf(d, t) <=> x \in SeenOf(c, s) \/ x = Seen(d, b)
  <2>1. x \in SeenOf(d, t) <=> \E k \in DOMAIN t : x = Seen(d, t[k])
    BY SeenMembers
  <2>2. x \in SeenOf(c, s) <=> \E k \in DOMAIN s : x = Seen(c, s[k])
    BY SeenMembers
  <2>3. QED
    BY <2>1, <2>2, <1>5, <1>6, <1>7
<1>10. QED
  BY <1>8, <1>9, SeenMembers

\* A block that leaves is the only one that disappears.
LEMMA LeavingIsSeen ==
    ASSUME NEW p, NEW c, NEW h, NEW s, Owned(p, c, h, s), NEW q, NEW d, NEW g, NEW t, NEW k \in DOMAIN s,
           Leaves(p, c, h, s, q, d, g, t, k)
    PROVE  /\ Seen(c, s[k]) \in SeenOf(c, s)
           /\ SeenOf(d, t) = SeenOf(c, s) \ {Seen(c, s[k])}
<1>1. s \in Seq(LiveBlocks)
  BY OwnedBlocks
<1>2. t = RemoveAt(s, k) /\ SameMemory(p, c, q, d)
  BY DEF Leaves
<1>3. /\ \A j \in DOMAIN t : Skip(k, j) \in DOMAIN s /\ Skip(k, j) # k /\ t[j] = s[Skip(k, j)]
      /\ \A i \in DOMAIN s : i # k => \E j \in DOMAIN t : Skip(k, j) = i
  BY <1>1, <1>2, Removed
<1>4. \A j \in DOMAIN s : Seen(d, s[j]) = Seen(c, s[j])
  BY <1>2, SameSight
<1>5. \A j \in DOMAIN s : Seen(c, s[j]) = Seen(c, s[k]) => j = k
  BY SeenApart
<1>6. ASSUME NEW x
      PROVE  x \in SeenOf(d, t) <=> x \in SeenOf(c, s) /\ x # Seen(c, s[k])
  <2>1. x \in SeenOf(d, t) <=> \E j \in DOMAIN t : x = Seen(d, t[j])
    BY SeenMembers
  <2>2. x \in SeenOf(c, s) <=> \E j \in DOMAIN s : x = Seen(c, s[j])
    BY SeenMembers
  <2>3. ASSUME NEW j \in DOMAIN t, x = Seen(d, t[j])
        PROVE  x \in SeenOf(c, s) /\ x # Seen(c, s[k])
    <3>1. PICK i \in DOMAIN s : i = Skip(k, j) /\ i # k /\ t[j] = s[i]
      BY <1>3
    <3>2. x = Seen(c, s[i])
      BY <3>1, <2>3, <1>4
    <3>3. QED
      BY <3>1, <3>2, <2>2, <1>5
  <2>4. ASSUME NEW i \in DOMAIN s, x = Seen(c, s[i]), x # Seen(c, s[k])
        PROVE  \E j \in DOMAIN t : x = Seen(d, t[j])
    <3>1. i # k
      BY <2>4
    <3>2. PICK j \in DOMAIN t : Skip(k, j) = i
      BY <3>1, <1>3
    <3>3. t[j] = s[i]
      BY <3>2, <1>3
    <3>4. QED
      BY <3>2, <3>3, <2>4, <1>4
  <2>5. QED
    BY <2>1, <2>2, <2>3, <2>4
<1>7. QED
  BY <1>6, SeenMembers

\* What the variables of Memory.tla stand for.
LEMMA SeenState ==
    /\ FreeBytes = FreeOf(pool, bump, heap)
    /\ PoolReserved(pool) \cup BumpReserved = Reserved(pool, bump)
    /\ {[at |-> b.at, len |-> b.len, size |-> b.asked.size, align |-> b.asked.align,
         took |-> b.took, lasting |-> IsMonotonic(bump, b) /\ ~IsOnStack(bump, b)] : b \in Range(live)}
         = SeenOf(bump, live)
BY DEF FreeBytes, FreeOf, BumpReserved, Reserved, LockByte, SeenOf, Seen

\* The same of the next state.
LEMMA SeenNext ==
    /\ FreeBytes' = FreeOf(pool', bump', heap')
    /\ (PoolReserved(pool) \cup BumpReserved)' = Reserved(pool', bump')
    /\ {[at |-> b.at, len |-> b.len, size |-> b.asked.size, align |-> b.asked.align,
         took |-> b.took, lasting |-> IsMonotonic(bump, b) /\ ~IsOnStack(bump, b)] : b \in Range(live)}'
         = SeenOf(bump', live')
BY DEF FreeBytes, FreeOf, BumpReserved, Reserved, LockByte, SeenOf, Seen

\* The mapped steps.
LEMMA MappedInit ==
    ASSUME AInit, AllocInv
    PROVE  Mem!MInit
<1>1. Owned(pool, bump, heap, live)
  BY DEF AllocInv
<1>2. PoolShape(pool) /\ heap \subseteq HeapArea
  BY <1>1, OwnedBlocks
<1>3. PICK size \in BumpSizes : BumpShape(bump, size)
  BY <1>1 DEF Owned
<1>4. SeenOf(bump, live) = {}
  <2>1. DOMAIN live = {}
    BY DEF AInit
  <2>2. QED
    BY <2>1, SeenMembers
<1>5. FreeOf(pool, bump, heap) \cap Reserved(pool, bump) = {}
  <2>1. /\ PoolReserved(pool) \subseteq PoolArea(pool.size)
        /\ PoolReserved(pool) \cap PoolFreeBytes(pool) = {}
    BY <1>2, PoolKeepsToItself
  <2>2. LockByte(bump) \subseteq BumpArea(size) /\ LockByte(bump) \cap BumpFreeBytes(bump) = {}
    BY <1>3, BumpKeepsToItself
  <2>3. PoolFreeBytes(pool) \subseteq PoolArea(pool.size) /\ BumpFreeBytes(bump) \subseteq BumpArea(size)
    BY <1>2, <1>3, PoolFreeInArea, BumpFreeInArea
  <2>4. /\ PoolArea(pool.size) \cap BumpArea(size) = {}
        /\ PoolArea(pool.size) \cap HeapArea = {}
        /\ BumpArea(size) \cap HeapArea = {}
    BY <1>2, AreasApart DEF PoolShape
  <2>5. QED
    BY <2>1, <2>2, <2>3, <2>4, <1>2 DEF FreeOf, Reserved
<1>6. QED
  BY <1>4, <1>5, SeenState DEF Mem!MInit

\* An allocation is Allocate of Memory.tla.
LEMMA MappedAllocate ==
    ASSUME AllocInv, NEW b, Joins(pool, bump, heap, live, pool', bump', heap', live', b)
    PROVE  Mem!Allocate
<1>1. Owned(pool, bump, heap, live)
  BY DEF AllocInv
<1>2. PICK free, after, blocks, later, reserved, kept :
        /\ free = FreeOf(pool, bump, heap) /\ after = FreeOf(pool', bump', heap')
        /\ blocks = SeenOf(bump, live) /\ later = SeenOf(bump', live')
        /\ reserved = Reserved(pool, bump) /\ kept = Reserved(pool', bump')
  OBVIOUS
<1>3. PICK x : x = Seen(bump', b)
  OBVIOUS
<1>4. x \notin blocks /\ later = blocks \cup {x}
  BY <1>1, <1>2, <1>3, JoiningIsSeen
<1>5. kept = reserved
  <2>1. SameMemory(pool, bump, pool', bump')
    BY DEF Joins
  <2>2. QED
    BY <2>1, <1>1, <1>2, SameSight
<1>6. after \subseteq free /\ b.took = free \ after
  BY <1>2 DEF Joins
<1>7. /\ x.at = b.at /\ x.len = b.len /\ x.size = b.asked.size
      /\ x.align = b.asked.align /\ x.took = b.took
  BY <1>3, SeenFields
<1>8. b.asked.size <= b.len /\ b.at % 2^b.asked.align = 0 /\ Held(b) \subseteq b.took
  BY DEF Joins, Belongs
<1>9. b.len \in Nat /\ b.asked.size \in Nat
  <2>1. b \in LiveBlocks
    BY DEF Joins
  <2>2. QED
    BY <2>1, EndsOfBlock, RequestType
<1>10. /\ after \subseteq free /\ blocks \subseteq later
       /\ x \in later \ blocks /\ later = blocks \cup {x}
       /\ x.took = free \ after
       /\ x.at .. x.at + x.len - 1 \subseteq x.took
       /\ x.len >= x.size /\ x.at % 2^x.align = 0
       /\ kept = reserved
  BY <1>4, <1>5, <1>6, <1>7, <1>8, <1>9 DEF Held
<1>11. /\ free = FreeBytes /\ after = FreeBytes'
       /\ reserved = PoolReserved(pool) \cup BumpReserved
       /\ kept = (PoolReserved(pool) \cup BumpReserved)'
  BY <1>2, SeenState, SeenNext
<1>12. blocks = {[at |-> a.at, len |-> a.len, size |-> a.asked.size, align |-> a.asked.align,
                  took |-> a.took, lasting |-> IsMonotonic(bump, a) /\ ~IsOnStack(bump, a)] : a \in Range(live)}
  BY <1>2, SeenState
<1>13. later = {[at |-> a.at, len |-> a.len, size |-> a.asked.size, align |-> a.asked.align,
                  took |-> a.took, lasting |-> IsMonotonic(bump, a) /\ ~IsOnStack(bump, a)] : a \in Range(live)}'
  BY <1>2, SeenNext
<1>14. QED
  BY <1>10, <1>11, <1>12, <1>13 DEF Mem!Allocate, Mem!BytesOf

\* A release is Release of Memory.tla.
LEMMA MappedRelease ==
    ASSUME AllocInv, NEW k \in DOMAIN live, Leaves(pool, bump, heap, live, pool', bump', heap', live', k)
    PROVE  Mem!MNext
<1>1. Owned(pool, bump, heap, live)
  BY DEF AllocInv
<1>2. PICK free, after, blocks, later, reserved, kept :
        /\ free = FreeOf(pool, bump, heap) /\ after = FreeOf(pool', bump', heap')
        /\ blocks = SeenOf(bump, live) /\ later = SeenOf(bump', live')
        /\ reserved = Reserved(pool, bump) /\ kept = Reserved(pool', bump')
  OBVIOUS
<1>3. PICK x : x = Seen(bump, live[k])
  OBVIOUS
<1>4. x \in blocks /\ later = blocks \ {x}
  BY <1>1, <1>2, <1>3, LeavingIsSeen
<1>5. kept = reserved
  <2>1. SameMemory(pool, bump, pool', bump')
    BY DEF Leaves
  <2>2. QED
    BY <2>1, <1>1, <1>2, SameSight
<1>6. x.took = live[k].took /\ (x.lasting <=> OfBuffer(bump, live[k]))
  <2>1. PoolShape(pool) /\ live[k] \in LiveBlocks /\ Belongs(pool, bump, live[k])
    BY <1>1, OwnedBlocks
  <2>2. PICK size \in BumpSizes : BumpShape(bump, size)
    BY <1>1 DEF Owned
  <2>3. IsLasting(bump, live[k]) <=> OfBuffer(bump, live[k])
    BY <2>1, <2>2, LastingIsBuffer
  <2>4. QED
    BY <2>3, <1>3, SeenFields
<1>7. after = IF x.lasting THEN free ELSE free \cup x.took
  BY <1>2, <1>6 DEF Leaves
<1>8. /\ free = FreeBytes /\ after = FreeBytes'
      /\ reserved = PoolReserved(pool) \cup BumpReserved
      /\ kept = (PoolReserved(pool) \cup BumpReserved)'
  BY <1>2, SeenState, SeenNext
<1>9. blocks = {[at |-> a.at, len |-> a.len, size |-> a.asked.size, align |-> a.asked.align,
                 took |-> a.took, lasting |-> IsMonotonic(bump, a) /\ ~IsOnStack(bump, a)] : a \in Range(live)}
  BY <1>2, SeenState
<1>10. later = {[at |-> a.at, len |-> a.len, size |-> a.asked.size, align |-> a.asked.align,
                 took |-> a.took, lasting |-> IsMonotonic(bump, a) /\ ~IsOnStack(bump, a)] : a \in Range(live)}'
  BY <1>2, SeenNext
<1>11. Mem!Release(x)
  BY <1>4, <1>5, <1>7, <1>8, <1>9, <1>10 DEF Mem!Release
<1>12. QED
  BY <1>4, <1>9, <1>11 DEF Mem!MNext

\* Every block a client holds is its own for as long as it holds it, as large
\* and as aligned as it asked, and what it gives back is what it took: the
\* allocators together are a Memory.
THEOREM AllocatorsImplementMemory == ASpec => ImplementsMemory
<1>1. AInit /\ AllocInv => Mem!MInit
  BY MappedInit
<1>2. AllocInv /\ [ANext]_allocVars
        => [Mem!MNext]_<<FreeBytes, PoolReserved(pool) \cup BumpReserved,
                         {[at |-> b.at, len |-> b.len, size |-> b.asked.size, align |-> b.asked.align,
                           took |-> b.took, lasting |-> IsMonotonic(bump, b) /\ ~IsOnStack(bump, b)] :
                          b \in Range(live)}>>
  <2>1. SUFFICES ASSUME AllocInv, [ANext]_allocVars
                 PROVE  \/ Mem!MNext
                        \/ UNCHANGED <<FreeBytes, PoolReserved(pool) \cup BumpReserved,
                              {[at |-> b.at, len |-> b.len, size |-> b.asked.size, align |-> b.asked.align,
                                took |-> b.took, lasting |-> IsMonotonic(bump, b) /\ ~IsOnStack(bump, b)] :
                               b \in Range(live)}>>
    OBVIOUS
  <2>2. CASE \E b : Joins(pool, bump, heap, live, pool', bump', heap', live', b)
    <3>1. Mem!Allocate
      BY <2>1, <2>2, MappedAllocate
    <3>2. QED
      BY <3>1 DEF Mem!MNext
  <2>3. CASE \E k \in DOMAIN live : Leaves(pool, bump, heap, live, pool', bump', heap', live', k)
    BY <2>1, <2>3, MappedRelease
  <2>4. CASE /\ bump' = bump \/ bump' = [bump EXCEPT !.useMonotonic = FALSE]
             /\ pool' = pool /\ heap' = heap /\ live' = live
    <3>1. Owned(pool, bump, heap, live)
      BY <2>1 DEF AllocInv
    <3>2. CASE bump' = bump
      BY <3>2, <2>4, SeenState, SeenNext
    <3>3. CASE bump' = [bump EXCEPT !.useMonotonic = FALSE]
      <4>1. SameMemory(pool, bump, pool, bump') /\ FreeOf(pool, bump', heap) = FreeOf(pool, bump, heap)
        BY <3>1, <3>3, SwitchingOffKeepsOwned
      <4>2. /\ Reserved(pool, bump') = Reserved(pool, bump)
            /\ \A k \in DOMAIN live : Seen(bump', live[k]) = Seen(bump, live[k])
        BY <4>1, <3>1, SameSight
      <4>3. SeenOf(bump', live) = SeenOf(bump, live)
        BY <4>2, SeenMembers
      <4>4. QED
        BY <4>1, <4>2, <4>3, <2>4, SeenState, SeenNext
    <3>4. QED
      BY <3>2, <3>3, <2>4
  <2>5. QED
    BY <2>1, <2>2, <2>3, <2>4, EveryStep
<1>3. QED
  BY <1>1, <1>2, BlocksAtFirst, BlocksAreOwned, PTL DEF ASpec, ImplementsMemory, Mem!MSpec
=============================================================================
