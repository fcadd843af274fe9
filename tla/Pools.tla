------------------------------- MODULE Pools --------------------------------
(***************************************************************************)
(* pool_alloc_info_t with the buckets of bucket_alloc_info_t: one buffer of *)
(* a client, cut into N containers of blocks of 2^i bytes, the bits of each *)
(* container and the byte of a lock.  A pool is the counts of its blocks    *)
(* and which of them are free; addresses are bytes.                         *)
(***************************************************************************)
EXTENDS BlockRanges

CONSTANTS
  N,          \* containers
  PoolStart,  \* data_ptr, aligned for the largest blocks
  PoolSizes   \* byte_count

ASSUME PoolAssumption == N \in Nat \ {0} /\ PoolStart \in Nat /\ PoolStart % 2^(N - 1) = 0
ASSUME SizesAssumption == \A size \in PoolSizes : size \in Nat \ {0} /\ Remainder(N, size - 1) >= 0

Containers == 0 .. N - 1

\* obj_t
NewPool(size) ==
  LET counts == BlockCounts(N, size - 1)
  IN  [size |-> size, counts |-> counts, free |-> [i \in Containers |-> 0 .. counts[i] - 1]]

\* The larger blocks come first; the bits are taken from the end
DataOf(pool, i) ==
  PoolStart + SumsAbove(N, [j \in Containers |-> pool.counts[j] * 2^j])[i]
BitsOf(pool, i) ==
  LET end == PoolStart + pool.size - SumsAbove(N, [j \in Containers |-> BitBytes(pool.counts[j])])[i]
  IN  end - BitBytes(pool.counts[i]) .. end - 1
MutexByte(pool) == DataOf(pool, 0) + pool.counts[0]

BytesOfRange(pool, i, range) ==
  DataOf(pool, i) + range.begin * 2^i .. DataOf(pool, i) + (range.begin + range.len) * 2^i - 1

\* needs_realignment: the blocks are not aligned enough by themselves
Realigns(i, r) == i < r.align
\* blocks_ncx_info::is_aligned
AlignedBlocks(pool, i, r) ==
  {b \in 0 .. pool.counts[i] - 1 : (DataOf(pool, i) + b * 2^i) % 2^r.align = 0}

\* just_allocate, in the container i
RangeIn(pool, i, r) ==
  RangeFor(pool.counts[i], pool.free[i], AlignedBlocks(pool, i, r),
           CeilDiv(r.size + (IF Realigns(i, r) THEN 2^i ELSE 0), 2^i), r.best)

\* allocate of a bucket refuses what it must not realign
Serves(pool, i, r) ==
  /\ r.manual \/ ~Realigns(i, r)
  /\ RangeIn(pool, i, r).len > 0

\* run_loop: the containers in the order of their scores; allocate takes the
\* first that serves
ContainersFor(r) == BestContainers(N, Max({r.size, 2^r.align}))
ServingPlaces(pool, r) == {k \in 1 .. N : Serves(pool, ContainersFor(r)[k], r)}
PoolAllocates(pool, r) == ServingPlaces(pool, r) # {}
RangeTaken(pool, i, range) ==
  [pool  |-> [pool EXCEPT !.free[i] = @ \ Blocks(range)],
   block |-> [at |-> DataOf(pool, i) + range.begin * 2^i, len |-> range.len * 2^i]]
TakenIn(pool, i, r) == RangeTaken(pool, i, RangeIn(pool, i, r))
PoolAllocated(pool, r) == TakenIn(pool, ContainersFor(r)[Min(ServingPlaces(pool, r))], r)

\* is_owner
BucketOwns(pool, i, b) ==
  DataOf(pool, i) <= b.at /\ b.at + b.len <= DataOf(pool, i) + pool.counts[i] * 2^i
PoolOwns(pool, b) == \E i \in Containers : BucketOwns(pool, i, b)

\* mutant: the block that the alignment cost is forgotten
RangeBackShort(pool, i, b, r) ==
  [begin |-> (b.at - DataOf(pool, i)) \div 2^i, len |-> CeilDiv(b.len, 2^i)]

\* just_deallocate: who gives the exact length back does not know of the block
\* that the alignment cost
RangeBack(pool, i, b, r) ==
  [begin |-> (b.at - DataOf(pool, i)) \div 2^i,
   len   |-> CeilDiv(b.len, 2^i) + (IF r.exact /\ Realigns(i, r) THEN 1 ELSE 0)]
PoolDeallocated(pool, b, r) ==
  LET i == Min({j \in Containers : BucketOwns(pool, j, b)})
  IN  [pool EXCEPT !.free[i] = @ \cup Blocks(RangeBack(pool, i, b, r))]

PoolFreeBytes(pool) ==
  UNION {UNION {BytesOfRange(pool, i, [begin |-> b, len |-> 1]) : b \in pool.free[i]} :
           i \in Containers}
PoolReserved(pool) == {MutexByte(pool)} \cup UNION {BitsOf(pool, i) : i \in Containers}

---------------------------------------------------------------------------
(* fast_alloc_chache_t and the allocator that fills it (bump_alloc.hpp): a  *)
(* buffer used up from its begin on, and a stack, in one half of the buffer *)
(* if there is no lock.  A cache is the two pointers, what is left behind   *)
(* them and whether they may be used without asking the allocator.          *)

CONSTANTS
  BumpStart,   \* the buffer
  BumpAlign,   \* log2 of its alignment
  BumpSizes    \* its size

ASSUME BumpAssumption ==
  /\ BumpAlign \in Nat /\ BumpStart \in Nat /\ BumpStart % 2^BumpAlign = 0
  /\ BumpSizes \subseteq Nat \ {0}

RoundedUp(size, align) == 2^align * ((size + 2^align - 1) \div 2^align)

\* memory_is_inside
Inside(begin, end, b) == begin <= b.at /\ b.at + b.len <= end

\* monotonic_allocate, which also wants to know whether it may be used
MonotonicAt(c, align) == RoundedUp(c.monotonicPtr, align)
MonotonicServes(c, r) ==
  /\ c.monotonicPtr + c.monotonicLeft >= MonotonicAt(c, r.align) + r.size
  /\ r.align <= BumpAlign
MonotonicAllocated(c, r) ==
  LET end == MonotonicAt(c, r.align) + r.size
  IN  [cache |-> [c EXCEPT !.monotonicPtr = end, !.monotonicLeft = @ - (end - c.monotonicPtr)],
       block |-> [at |-> MonotonicAt(c, r.align), len |-> r.size]]
IsMonotonic(c, b) == Inside(BumpStart, c.monotonicPtr, b)

\* fn_alloca; alloca_bytes_cache_ keeps the rounding to itself if told so
StackServes(c, r) ==
  c.useStack /\ RoundedUp(r.size, BumpAlign) <= c.stackLeft /\ r.align <= BumpAlign
StackAllocated(c, r) ==
  LET size == RoundedUp(r.size, BumpAlign)
  IN  [cache |-> [c EXCEPT !.stackPtr = @ + size, !.stackLeft = @ - size],
       block |-> [at |-> c.stackPtr, len |-> IF r.exact THEN r.size ELSE size]]

\* fn_try_dealloca: whatever was taken after the block goes with it
IsOnStack(c, b) == c.useStack /\ Inside(BumpStart, c.stackPtr + c.stackLeft, b)
StackDeallocated(c, b) ==
  [c EXCEPT !.stackPtr = b.at, !.stackLeft = @ + (c.stackPtr - b.at)]

\* obj_t of bump_alloc.hpp: the last byte is the lock, or the first half the stack
NewBump(size, locked) ==
  LET whole == [monotonicPtr |-> BumpStart, monotonicLeft |-> size, useMonotonic |-> ~locked,
                stackPtr |-> BumpStart, stackLeft |-> 0, useStack |-> ~locked]
      half  == MonotonicAllocated(whole, [size |-> size \div 2, align |-> BumpAlign])
  IN  IF locked THEN [whole EXCEPT !.monotonicLeft = size - 1]
      ELSE [half.cache EXCEPT !.stackLeft = half.block.len]

\* allocate of bump_alloc.hpp, which leaves the cache switched off
BumpAllocated(c, r) ==
  LET taken == MonotonicAllocated(c, r)
  IN  [taken EXCEPT !.cache.useMonotonic = FALSE]

BumpFreeBytes(c) ==
     c.stackPtr .. c.stackPtr + c.stackLeft - 1
  \cup c.monotonicPtr .. c.monotonicPtr + c.monotonicLeft - 1
=============================================================================
