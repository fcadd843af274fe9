----------------------------- MODULE Allocators -----------------------------
(***************************************************************************)
(* The way of a request (alloc_ref.hpp, generic_alloc.hpp): the caches of   *)
(* an allocator, the allocator, its upstream, and in the end the heap of    *)
(* the program.  The client uses a pool whose upstream is a bump allocator, *)
(* or that one directly, and releases a block with the request it made.     *)
(***************************************************************************)
EXTENDS Pools

CONSTANTS
  Requests,   \* size, alloc_info and the allocator asked (via)
  Locked,     \* may the bump allocator have a lock?
  HeapStart, HeapSize,  \* of the program
  MaxBlocks   \* of the client at a time

\* A request of no bytes is answered without an allocator (alloc_ref.hpp)
ASSUME RequestsAssumption ==
  /\ Requests \subseteq
       [size : Nat \ {0}, align : Nat, via : {"pool", "bump"}, exact : BOOLEAN, best : BOOLEAN,
        manual : BOOLEAN, safe : BOOLEAN, alloca : BOOLEAN, monotonic : BOOLEAN,
        cacheOnly : BOOLEAN, forwards : BOOLEAN, defaultForwards : BOOLEAN]
  /\ Locked \subseteq BOOLEAN

PoolArea(size) == PoolStart .. PoolStart + size - 1
BumpArea(size) == BumpStart .. BumpStart + size - 1
HeapArea == HeapStart .. HeapStart + HeapSize - 1

\* The buffers and the heap are memory of their own
ASSUME AreasAssumption ==
  /\ HeapStart \in Nat /\ HeapSize \in Nat
  /\ \A p \in PoolSizes, b \in BumpSizes :
       /\ PoolArea(p) \cap BumpArea(b) = {}
       /\ PoolArea(p) \cap HeapArea = {}
       /\ BumpArea(b) \cap HeapArea = {}

VARIABLES
  pool, bump,
  heap,    \* free bytes of the program's heap
  live     \* the blocks of the client, latest last

allocVars == <<pool, bump, heap, live>>

AInit ==
  /\ \E size \in PoolSizes : pool = NewPool(size)
  /\ \E size \in BumpSizes, locked \in Locked : bump = NewBump(size, locked)
  /\ heap = HeapArea
  /\ live = <<>>

FreeBytes == PoolFreeBytes(pool) \cup BumpFreeBytes(bump) \cup heap

\* The client keeps the block with its request
Keep(b, r) ==
  LET len == IF r.exact THEN r.size ELSE b.len
  IN  live' = Append(live, [at |-> b.at, len |-> len, asked |-> r,
                            took |-> FreeBytes \ FreeBytes'])

-----------------------------------------------------------------------------
(* Allocating: the disjuncts are the alternatives of allocate_bytes_impl_ and *)
(* of obj_allocate, each where those before it have failed.                   *)

FromPool(r)  == r.via = "pool" /\ ~r.safe /\ ~r.cacheOnly /\ PoolAllocates(pool, r)
ReachesBump(r) ==
  /\ ~r.safe
  /\ r.via = "pool" => ~r.cacheOnly /\ ~PoolAllocates(pool, r) /\ r.forwards
FromStack(r) == r.alloca /\ StackServes(bump, r)
FromCache(r) == ~FromStack(r) /\ r.monotonic /\ bump.useMonotonic /\ MonotonicServes(bump, r)
PastCaches(r) == ~FromStack(r) /\ ~FromCache(r) /\ ~r.cacheOnly

TakeFromPool(taken, r) ==
  pool' = taken.pool /\ UNCHANGED <<bump, heap>> /\ Keep(taken.block, r)
TakeFromBump(taken, r) ==
  bump' = taken.cache /\ UNCHANGED <<pool, heap>> /\ Keep(taken.block, r)

AllocateFromPool(r) ==
  /\ FromPool(r)
  /\ TakeFromPool(PoolAllocated(pool, r), r)

AllocateFromStack(r) ==
  /\ ReachesBump(r) /\ FromStack(r)
  /\ TakeFromBump(StackAllocated(bump, r), r)

AllocateFromCache(r) ==
  /\ ReachesBump(r) /\ FromCache(r)
  /\ TakeFromBump(MonotonicAllocated(bump, r), r)

AllocateFromBump(r) ==
  /\ ReachesBump(r) /\ PastCaches(r) /\ MonotonicServes(bump, r)
  /\ TakeFromBump(BumpAllocated(bump, r), r)

\* obj_allocate leaves the cache switched off even if it has no room
BumpRefuses(r) == ReachesBump(r) /\ PastCaches(r) /\ ~MonotonicServes(bump, r)

\* The heap finds any place that is free
AllocateFromHeap(r) ==
  /\ r.safe \/ (BumpRefuses(r) /\ r.defaultForwards)
  /\ \E at \in heap :
       /\ at % 2^r.align = 0 /\ at .. at + r.size - 1 \subseteq heap
       /\ heap' = heap \ (at .. at + r.size - 1)
       /\ bump' = IF r.safe THEN bump ELSE [bump EXCEPT !.useMonotonic = FALSE]
       /\ UNCHANGED pool
       /\ Keep([at |-> at, len |-> r.size], r)

AllocateFails(r) ==
  /\ BumpRefuses(r) /\ ~r.defaultForwards
  /\ bump' = [bump EXCEPT !.useMonotonic = FALSE]
  /\ UNCHANGED <<pool, heap, live>>

-----------------------------------------------------------------------------
(* Releasing: deallocate_bytes_impl_ and obj_deallocate look for the owner.   *)

\* A block taken with alloca is released before those taken earlier
Releasable(k) ==
  live[k].asked.alloca => \A j \in k + 1 .. Len(live) : ~live[j].asked.alloca
ToPool(b, r)  == r.via = "pool" /\ ~r.safe /\ ~r.cacheOnly /\ PoolOwns(pool, b)
ToStack(b, r) == ~r.safe /\ ~ToPool(b, r) /\ r.alloca /\ IsOnStack(bump, b)
ToNobody(b, r) ==  \* monotonic memory is not given back
  /\ ~r.safe /\ ~ToPool(b, r) /\ ~ToStack(b, r)
  /\ \/ r.monotonic /\ bump.useMonotonic /\ IsMonotonic(bump, b)
     \/ r.cacheOnly
     \/ IsMonotonic(bump, b)  \* is_owner

Deallocate(k) ==
  LET b == live[k]
      r == b.asked
  IN  /\ Releasable(k)
      /\ live' = RemoveAt(live, k)
      /\ IF ToPool(b, r) THEN pool' = PoolDeallocated(pool, b, r) /\ UNCHANGED <<bump, heap>>
         ELSE IF ToStack(b, r) THEN bump' = StackDeallocated(bump, b) /\ UNCHANGED <<pool, heap>>
         ELSE IF ToNobody(b, r) THEN UNCHANGED <<pool, bump, heap>>
         ELSE heap' = heap \cup (b.at .. b.at + b.len - 1) /\ UNCHANGED <<pool, bump>>

ANext ==
  \/ \E r \in Requests :
       /\ Len(live) < MaxBlocks
       /\ \/ AllocateFromPool(r) \/ AllocateFromStack(r) \/ AllocateFromCache(r)
          \/ AllocateFromBump(r) \/ AllocateFromHeap(r) \/ AllocateFails(r)
  \/ \E k \in DOMAIN live : Deallocate(k)

-----------------------------------------------------------------------------
\* The last byte of a bump allocator with a lock
BumpReserved == IF bump.useStack THEN {} ELSE {bump.monotonicPtr + bump.monotonicLeft}

\* Every block a client holds is its own, for as long as it holds it, and is
\* as large and as aligned as it asked; what it gives back is what it took,
\* whichever allocator served it and whatever became of the caches since then;
\* the bits and the locks stay where they are and nobody gets them.
Mem == INSTANCE Memory WITH
  free     <- FreeBytes,
  reserved <- PoolReserved(pool) \cup BumpReserved,
  blocks   <- {[at |-> b.at, len |-> b.len, size |-> b.asked.size, align |-> b.asked.align,
                took |-> b.took, lasting |-> IsMonotonic(bump, b) /\ ~IsOnStack(bump, b)] :
               b \in Range(live)}
ImplementsMemory == Mem!MSpec

\* However the blocks of a container are scattered, it refuses a request only if
\* no aligned place is long enough; the first fit is the first such place, and
\* the best fit leaves the least of the run it cuts.
FitsAreFound ==
  \A r \in Requests, i \in Containers :
    LET free    == pool.free[i]
        aligned == AlignedBlocks(pool, i, r)
        need    == CeilDiv(r.size, 2^i) + (IF Realigns(i, r) THEN 1 ELSE 0)
        fits    == {b \in aligned : b .. b + need - 1 \subseteq free}
        range   == RangeIn(pool, i, r)
        before(b)  == {a \in aligned : a < b /\ a .. b \subseteq free}
        runFrom(b) == Max({k \in 1 .. pool.counts[i] : b .. b + k - 1 \subseteq free})
    IN  IF fits = {} THEN range.len = 0
        ELSE /\ range.len = need /\ range.begin \in fits
             /\ IF r.best THEN \A b \in fits : before(b) = {} => runFrom(range.begin) <= runFrom(b)
                ELSE range.begin = Min(fits)

ASpec == AInit /\ [][ANext]_allocVars
=============================================================================
