# Verification of the mjz string library

TLA+ models of this repository's core: its copy-on-write strings, mutexes and graph
schedulers, its hash tables and allocators, its numbers and their texts.  TLC checks them on
small instances; what matters for every size is proved with TLAPS.  `PROJECT.json` names
every run, the lines of `src/` each definition models, the hazards the properties are for,
and the theorems.

## 1. The system

The repository is a header-only C++ library (`src/mjz_lib`).  Its parts, and what each has
to get right:

| Component | State | Operations | Interacts with |
|---|---|---|---|
| string objects (`byte_str/string.hpp`, `string_abi.hpp`) | representation (inline, view, heap), flags `is_ownerized`, `is_sharable`, `no_destroy`, block, length | construct, copy, move, share, edit, reserve, `as_ownerized`, destroy | heap blocks, allocator |
| heap blocks (`byte_str/heaps.hpp`) | the hidden atomic count in front of the bytes | `malloc_p`, `add_shareholder`, `is_owner`, `free_p` | allocator; every string that shares the block, on any thread |
| spinning mutexes (`threads/bit_mutex.hpp`, `mutex_ref.hpp`) | one flag | `try_lock(need_to_wait, timeout_count)`, `lock`, `unlock` | atomic wait and notify |
| readers-writer mutex (`threads/mutex_ref.hpp`) | one word: readers and a writer's bit | `lock`, `try_lock`, `unlock`, for reading or writing | atomic wait and notify |
| phased scheduler (`graph/deps.hpp`, `scheduler.md`) | per node and direction: phases `current` and `trigger`, count of dependencies, connection list; the lists of fired nodes and of the running wave | `make_node(s)`, `make_edge(s)`, `query`, `seed_all_nodes`, `defuse`, `run_resolution_queries`, `clear` | the client, through the callback of a wave; the edge allocator |
| deferred and recycling schedulers (`graph/udeps.hpp`, `rdeps.hpp`) | in-degrees, lists, a free list of node ids | as above | the client; the edge allocator |
| edge block allocator (`graph/bdeps.hpp`) | one array, free lists of power-of-two blocks | grow, append, release a connection list | the schedulers |
| `unordered_vector.hpp` | a tree over the digits of a hash above dense arrays, with reverse indexes; five interning variants that pack the nodes differently | find, insert, erase | |
| block, pool and bump allocators (`allocs/`) | bitmaps of blocks, a bump pointer with a stack on the other end, caches of an allocator | allocate, release, reset | an upstream allocator; the strings |
| graph algorithms (`graph/scc.hpp`, `dom.hpp`, `search.hpp`, ...) | none between calls, but for the reachability checker, which caches what it found | | |
| wide integers (`uintN.hpp`, `uintdyn.hpp`) | values | arithmetic, shifts, conversions | |
| integer and floating conversion (`mjz_uintconv.hpp`, `maths.hpp`, `byte_str/traits.hpp`) | values | printing and reading in any radix | |
| views (`byte_str/views.hpp`) | values | comparing, searching, cutting | |

What is hard to test in it:

* *Strings.*  A string is a plain object, but the blocks it shares are not: the load, the
  `fetch_sub` and the deallocation of two holders on two threads interleave, an edit checks
  ownership and writes later, a move between strings of different flags releases its target
  before it copies, and an allocation may fail halfway.  Correct means: the count is the
  number of holders, a block is freed once, by its last holder, and is never written while
  somebody else reads it; the text of a string changes only by operations on that string.
* *Mutexes.*  `unlock` clears the word, looks again and may skip its notification; readers
  and writers sleep on one word with different expected values.  Correct means: exclusion,
  no thread asleep with nobody to wake it, and progress.
* *Schedulers.*  Counts are taken incrementally while phases of both ends of an edge move,
  edges are added to running graphs, half-made edges stay, what fires during a wave's
  callback belongs to the next wave, and ids and blocks are handed out again.  Correct
  means: a node fires exactly when all its dependencies are far enough, runs once per
  firing, phases only go forward, and the lists share no cell.
* *Hash tables.*  A long history of splits, erasures that move the last entry and the last
  node into the hole, and blocks cut up for reuse must leave every key where `find` looks.
* *Allocators.*  A block goes back the way it came, through whichever of pool, stack,
  buffer, upstream and heap handed it out, decided by address alone.  Correct means: blocks
  are disjoint, large and aligned enough, and free again exactly when given back.
* *Numbers.*  The printers multiply by rounded inverses, in words that nearly overflow, and
  handle several digits in the lanes of one word: one wrong number out of 2^64 is enough.
  Wide integers have carries, borrows and word boundaries; reals must read back as printed.

## 2. Modules

| Module | Models | Builds on |
|---|---|---|
| `CowString` | strings and their blocks, several threads | |
| `Mutex`, `ReadersWriters` | what the mutexes promise (abstract) | |
| `WaitMutex` | `bit_mutex_t` and `mutex_ref_t` | implements `Mutex` |
| `RwMutex` | `multiread_singlewrite_mutex_ref_t` | implements `ReadersWriters` |
| `Deps` | the phased scheduler | |
| `Tasks` | what a scheduler without phases promises (abstract) | |
| `EdgeBlocks`, `EdgeLists` | the edge allocator; connection lists on their own | |
| `UniDeps` | what `udeps.hpp` and `rdeps.hpp` have in common | `EdgeBlocks` |
| `Udeps`, `Rdeps` | the unordered deferred and the recycling scheduler | `UniDeps`; `Rdeps` implements `Tasks` |
| `DenseMap` | a map whose entries stand densely (abstract) | |
| `UnorderedVector` | `unordered_vector_t` | implements `DenseMap` |
| `HashDigits`, `InternTrie`, `LeveledIntern`, `PackedIntern`, `Interning` | the interning vectors | |
| `BlockRanges`, `Pools` | the bitmap search; pools of buckets | |
| `Memory` | what an allocator promises (abstract) | |
| `Allocators` | pool, bump allocator, caches and heap together | `Pools`; implements `Memory` |
| `WideInts` | arithmetic on words | |
| `Digits` | the decimal printers (operators, for the proofs only) | |
| `Decimals`, `Floats` | texts of integers and of reals, written and read | |
| `Views` | comparing, searching and cutting texts | |
| `Forests`, `Searches`, `Orders` | components and spanning forests; searches, shortest paths and dominators; orders, waves and colourings | |
| `Reach`, `GraphFacts` | the reachability checker; what all results should be | `Searches`, `Orders` |
| `WaitMutexProofs`, `RwMutexProofs`, `DepsProofs`, `BlockRangesProofs`, `AllocatorsProofs`, `UnorderedVectorProofs` | theorems | the module they are named after |
| `StringProofs` | theorems | `CowString`, `Digits` |
| `UniDepsProofs` | theorems | `MCUniDeps`: `Udeps`, `Rdeps`, `EdgeLists`, `Tasks` |
| `MCCowString`, `MCDeps`, `MCUniDeps`, `MCStores`, `MCGraphs` | instances for TLC | |

Operators introduced by a comment "mutant" are deliberate mistakes that the specification
does not use: replacing an operation by its mutant makes the property listed in
`PROJECT.json` fail, which shows that the property depends on that line of the code.

### CowString

`str[h]` is the string object `h` (representation, block, `is_ownerized`), `mem[b]` the heap
block with its count, `op[t]` what thread `t` is doing.  Every access to a count is a step:
`LoadCount` and `FetchSub` are the two atomic accesses of `deinit_heap_and_ask`,
`Deallocate` is `u_free_p`, `Share` the `fetch_add` of `add_shareholder` together with the
assignment to the thread's own string.  The
other steps are the public operations; each begins with the decision the code takes
(`HasRoom`, `IsOwner`, `IsSharable`) and continues through `Release` to what it does once
the old block is gone (`next`).  `IsOwner` and `HasRoom` keep the three-valued answer of
`is_owner_no_heap` as it is in the code.

Lengths are abstract.  A text is short or long against `sso_cap`, and whether a text fits a
block is a free choice; padding, alignment and null-termination have no part in who owns
what.  `Counting` says whether a new block has a count (`cow_threashold` decides it by
size; both outcomes are a free choice when it is `{TRUE, FALSE}`).  An allocation fails
when every block is in use.  A string object is used by one writer or several readers at a
time (`Untouched`, `Unwritten`), as `README.md` requires of the library's users.

Two things the program may do are behind a constant or a guard, because what the code does
with them is wrong and would hide everything else.  `MoveAcrossOwnerized` lets a string
move into a heap string whose `is_ownerized` flag differs (finding 2).  `Ownerize` is only
applied to a string that shares no block (`SoleHolder`): `as_always_ownerized(true)` sets
the flag on any heap string that `is_owner` calls an owner, a sharing one included, and
its destructor then frees the block without asking the count.  `README.md:139` states the
invariant (`!is_ownerized || !can_share() || reference_count < 2`) as the caller sees it.

### Mutex, WaitMutex

`pc[t]` is where a thread is in `try_lock` or `unlock`.  `TestAndSet` is the exchange of
`test_and_set_m`.  `TryLock(t, waits, n)` is a call with `need_to_wait` and
`timeout_count`; the two classes differ in what they do with the count, and `kind` chooses
one.  `bit_mutex_t` tries once before it looks at the count and gives up when it is 0, even
if it was told to wait.  `Unlock`, `Recheck` and `Notify` are the three accesses of
`unlock_m`.  The variants for constant evaluation are single-threaded and left out.

### ReadersWriters, RwMutex

`word` is the whole word with its width, `seen[t]` the local `expected`, `asleep` the
threads inside `std::atomic::wait`.  The actions are the single accesses of `lock_const`,
`lock_mut`, `try_lock` and `unlock`.  The code needs fewer simultaneous readers than the
mask can count, and says so nowhere; here it is `MutBitAssumption`.

### Deps

`node[n][d]` is `directed_state_space_t` with the connection list as a bag, `apply` and
`applied` are the lists of `run_resolution_queries`.  Every public operation is one action,
with all it changes: `Defuse` is the refresh, the recount, the node's own firing and the
walk over its dependants.  The client is arbitrary: between and during waves it may add
nodes and edges, to fired nodes too, query any node, give any canonical space to a new node
and answer with any, a triggered one included.  The operations on ranges are loops of the
single ones; text and `dot` output are left out.

Two of these put a fired node in error with its tag on: an edge from a fired node to one
that is behind it (`deps.hpp:174`) and a triggered answer (`:211-219`).  Assertions exclude
that (`:183-190`, finding 5).  The model is the release build, where they are nothing: the
tag is then counted on like a count (`dec_zero_in_dgree`), -2 becomes -1, and a firing in
the other direction takes the node for listed.  So a node that is in error in a direction
may be listed twice, or not although it fired; `ListIsFired` speaks of the nodes without
error, and `NoEarlyFiring` of firings that leave the node without one.

### Tasks, UniDeps, Udeps, Rdeps, EdgeBlocks, EdgeLists

A node has an in-degree and a connection list, which lies in cells of one array.
`EdgeBlocks` keeps the free blocks by size class, threaded through their own cells, and
moves a list that outgrows its block; how large a block is follows from the signs of the
two numbers the code keeps for a list.  `UniDeps` has what both schedulers share: nodes,
lists, and waves whose callback may call every other operation.  In `Rdeps` a node that
completes is given back at once, with its list, and its id is handed out again; in `Udeps`
ids only grow, and a sentinel stays one.  `Tasks` knows who waits for whom and who runs,
without lists, counts or blocks: a task is queued when its last dependency finishes and
never before.  `make_node` of `rdeps.hpp` (`:303`) hands out a recycled id as the freed node
left it, a sentinel; `make_nodes` resets it.  `EdgeLists` has the lists alone, so that they
can grow longer than where nodes run.

### UnorderedVector, DenseMap

A slot of a tree node is 0, the number of an entry, or the negated number of a node, as in
the code (whose `~index` is our negation, since both are counted from 1 here).  The hash of
a key is any function to sequences of digits, word by word, and the two hashers of
`place_find` and of a split read it as the code does: `NextDigit` and `SiblingHasher`.
`PrunedAll` is the loop of `erase` that takes empty nodes out, the last node moving into
each hole.

`EmptiesBelowLast` lets a program empty a node whose parent is the last node.  What the
code does then is wrong and would hide everything else (finding 4): with the constant FALSE
such programs are left out.  Two more things are kept out by the instances.
`SiblingHasher` loses the part of the depth above a word (`depth &= ~omask`), so that keys
whose first hash words are equal can collide, and the older of the two is lost: the keys of
a run differ in their first words (`HashesDiffer` in the proofs).  Two keys whose hashes
never differ make `insert` loop; `MaxLevels` bounds the chain.

### HashDigits, InternTrie, LeveledIntern, PackedIntern, Interning

The five interning vectors number hashes in the order they come and never erase.
`InternTrie` has fixed nodes; `LeveledIntern` gives a node a block as wide as its
population, moved to a larger one when it grows; `PackedIntern` has the two-leveled, the
inline and the recycling vector, which differ in the cells of a head and in what becomes of
a block that has been left.  `Interning` gives all five the same hashes.
`place_find` of the packed ones asks for another digit after it has reached a leaf, so that
an assertion fails for hashes that differ in their last digit only; such hashes are left out.

### BlockRanges, Pools, Allocators, Memory

`BlockRanges` is `alloc_block_range`: first fit, best fit and aligned fit over a bitmap.
`Pools` cuts a range of bytes into buckets of blocks of 1, 2, 4, ... bytes with their
bitmaps.  `Allocators` puts a pool above a bump allocator (a stack of freeable blocks from
one end, a monotonic buffer from the other) above a heap, with the flags of a request that
choose the way (`via`, `exact`, `alloca`, `monotonic`, `cacheOnly`, ...).  The heap hands
out what nobody uses, or fails.  `Memory` has blocks only: disjoint, large and aligned
enough.

The client is held to what the code requires: a block of the stack is given back in
last-in-first-out order (`Releasable`, `README.md:578`), with the length it was asked for
when that was exact, the returned one otherwise, and requests are of at least one byte
(`alloc_ref.hpp:768`).  `SizesAssumption` leaves out pools for which the remainder of the
block counts is negative (it is computed unsigned; for two containers 4, 7, 10, 13, 30, 33,
... usable bytes).

### WideInts, Digits, Decimals, Floats, Views

`WideInts` has the words of `uintN_t` and `uintdyn` with a scaled width (`WordBits`):
addition, subtraction, shifts, rotations, counting, schoolbook and Karatsuba
multiplication, and division.  `Digits` has the decimal printers at full width.  Its
constants exceed the integers of TLC, so it has proofs only; whatever it defines is the
code's arithmetic with its constants, widths and shifts.  `Decimals` reads and writes
integers, wide ones too, in any radix; `Floats` the reals, with an own small format
(mantissa and exponent of 5 bits in a word of 14) all of whose numbers are tried.  `Views`
has comparing, the searches in both directions, and cutting.

### Forests, Searches, Orders, Reach, GraphFacts

Each algorithm is an operator that follows the code's loops (its stacks, queues and visit
orders), and `GraphFacts` has what it should compute, by definition: strongly connected
components, orders, waves, dominators, distances, colourings, spanning forests and
reachability.  The reachability checker keeps what it has found between queries; it is a
state machine that is asked any two questions in a row.  Its sketches are abstracted to one
byte each way, and path compression is left out of its lookups.

## 3. Runs

| Run | Question | Bounds, and why they are enough |
|---|---|---|
| `cow_shared` | do counts and deallocations stay exact, and does a text in a block without a count change for its owner only? | 3 strings, 2 threads, 2 blocks (407649 states): two holders race on one block while the third string makes it three or takes the other block; with one block free or none, allocations succeed and fail |
| `cow_edit` | does an edit in place of a counted block reach anybody else? | violated: finding 1 |
| `move_ownerized` | do moves across `is_ownerized` keep blocks alive? | violated: finding 2 |
| `wait_mutex` | both spinning mutexes: exclusion, no lost wakeup, refinement, progress | 3 threads (56954 states): one unlocking, one sleeping, one that steals the mutex in between; counts 0, 1, 2 cover the loop not entered, last turn and another turn |
| `rw_mutex` | the readers-writer mutex, likewise | 3 threads, `MutBit` 4 (27558 states): two readers and a writer, or two writers and a reader, and the word one bit wider than the readers need |
| `deps` | do counts, phases and firing agree, does everything fired run? | `Omega` 2, three clients (134017 states).  `OneWay`: 3 nodes, 2 edges, one phase: chains, a node with two dependencies, a pair joined twice or both ways.  `Phased`: 2 nodes, 2 edges, an intermediate phase, every answer.  `BothWays`: 2 nodes ordered in both directions by one edge, with a triggered answer.  All of them may add edges to fired nodes |
| `deps_halfedge` | is the count right for half-made edges? | violated: finding 3; the client `Careful` gives no triggered answer |
| `deps_tags` | is a tagged node triggered? | violated: finding 5, by the same client |
| `uni_deps` | the deferred and the recycling scheduler and their lists: cells disjoint, in-degrees right, `Tasks` implemented, everything triggered runs | 3 nodes and 2 edges for each scheduler, 8 and 3 cells, and a list of up to 6 entries in 10 cells (94063 states): ids and blocks are used again, a list moves twice, the cells run out |
| `stores` | hash tables, allocators, numbers, texts (below) | 38313 states |
| `vector_prune` | does `erase` keep the indexes when a node is emptied below the last one? | violated: finding 4 |
| `graphs` | the graph algorithms against their definitions | all multigraphs of 4 nodes and 3 edges and all simple graphs of up to 5 (7465 states; 6 was tried once): every shape of cycle, diamond and chain on four nodes |

`stores` is one run of several parts, because they share nothing and are sequential:

* *map*: `FindsEntries`, `ImplementsDenseMap`.  Three families of four keys of three binary
  digits: a wide tree, a deep one (three levels, split at every depth), a forked one whose
  two branches are pruned in either order.
* *interning*: `NumbersHashes`.  Six hashes that part at the first, second and last but one
  digit, after four that fill the first nodes: blocks grow twice and are used again.
* *memory*: `FitsAreFound`, `ImplementsMemory`.  A pool of 13 bytes in two containers, a
  bump buffer of 12, three blocks, a request for each way through the allocators.
* *numbers*: `ArithmeticIsExact`.  Words of 2 bits, the schoolbook limit at 3 words (4 in the
  code), numbers of up to 5 words: every carry, and Karatsuba with halves of one length
  (4 words) and of two (5 words, where one product of halves is a Karatsuba product again).
* *numerals*, *reals*: `ConversionsAgree`.  Numerals of all radices with up to 18 digits and
  every text of up to four characters of a real; all 1024 numbers of the scaled format with
  accuracies 0 to 4, and some wider ones.
* *texts*: `TextsAreFound`.  Buffers of up to 5 letters, two of which compare differently
  as signed and unsigned bytes, needles of up to 3.

The string runs and the sequential ones switch TLC's deadlock check off: a program whose
blocks are all in use may have nothing left to do, and a computation ends.  In the mutex
and scheduler runs every reachable state has a successor.

### Fairness

The liveness properties hold under weak fairness of what is already running.  In `WaitMutex`
and `RwMutex` (`FairSpec`): a thread that is inside the class, or inside its critical
section, takes its next step; nobody has to call `lock`, and a sleeping thread takes a step
only after it was woken.  That is the scheduler of any operating system plus clients that
unlock.  It is not strong fairness, so no single waiter is promised the mutex: the code has
no queue, and `WaitersMakeProgress` says only that somebody gets it.  A *claimed* writer is
different, and `ClaimerEnters` promises it.  In `Deps` and the other two schedulers: the
client keeps calling `run_resolution_queries` and its callback returns.

## 4. What the runs found

1. **Copy-on-write edits write into shared blocks** (`string_abi.hpp:876`).
   `is_owner_no_heap` answers "certainly owner" when `is_sharable != no_destroy`, which
   holds for every counted heap string, so the count is never asked.
2. **A move across `is_ownerized` writes into a freed block** (`string.hpp:373`).  The
   copying path releases the target and then asks it whether it has room.
3. **Half-made edges starve their dependant** (`deps.hpp:511`).  The first half of an edge
   stays when the second fails, and the dependency never tells that dependant anything.
4. **Erasing can lose the links of a tree node** (`unordered_vector.hpp:221`).  When the
   parent of the emptied node is the last node, it has already moved into the hole when its
   link is cleared by its old number: the link is cleared in the copy that is popped, the
   copy that stays points at itself, its reverse index is overwritten, and the loop goes on
   at a number past the end.  A key inserted later can make another one unfindable.
5. **A node in error can keep its tag** (`deps.hpp:174`).  A fired node that is made to depend
   on one behind it is in error, but its tag stays; `is_actively_triggered` and
   `is_passively_triggered` assert that a tagged node is triggered.  `defuse` with a triggered
   space (`:211`) does the same.

Met while reading or modelling and not given a run:

* *Strings and locks.*  `make_stable_impl_` (`string.hpp:1126`) assumes a heap string and
  ignores the block; `replace_data` reports success when `replace_data_with_none` fails;
  `add_null`'s recentring copies overlapping ranges with `memcpy`; `format_back_insert_append`
  leaves its error state on an early return; the constructor `(T&, bool)` of the
  readers-writer lock guard (`mutex_ref.hpp:207`) does not lock.
* *Schedulers.*  `make_dependency` can put a complete node in error although `deps.hpp:63`
  calls completion a latch.
* *Graphs.*  `calculate_acyclic_graph_topological_sort_waves` starts its in-degrees at -1
  (not modelled); callbacks of `calculate_graph_sequenced_components_events` get the id
  after its increment; maximum cardinality search orders only graphs without parallel
  edges, and the greedy colouring is proper for symmetric graphs only, so the properties
  are stated for those; `dijkstra.hpp:115` makes the range of the edges' distances with
  `iota(nsz, esz)`, which is too short and, with fewer edges than nodes, ill-formed (the model
  has the range that is read, `nsz` to `nsz + esz`).
* *Allocators.*  `init` swaps the arguments of `memset` (harmless); an exact request that was
  realigned and is given back with the returned length frees one block too many, so clients
  here give back the requested one; a pool whose start is not aligned advances by the whole
  byte count; `generic_alloc` never destroys an allocator it created on the heap; the bump
  allocator asks `is_owner` without its lock; page creation and deletion count in two
  different statics.
* *Wide integers.*  `acumilate_halfs`, which the Karatsuba multiplication of `uintN_t` sums its
  halves with, is marked `// buggy rn` (`uintN.hpp:294`).  On the numbers of run `stores`
  nothing is wrong with it: the sum has a word more than the longer half, so its carry is
  kept; the comment seems to be out of date.  Rotations by negative counts are wrong unless the width is a power of
  two; division reports failure when the divisor cannot be shifted; `operator++(int)` and
  `--(int)` are swapped; `muleqadd` clears high words of its addend; several
  `uintdyn` operations (`to_rotr`, `to_bit_ceil`, `popcount(offset, count)`, leftmost bit
  patches) are wrong.  None of these is modelled.
* *Reading numbers.*  The minus sign of `to_integral_pv` is lost ("-5" is 5, "--5" is
  refused); overflow in radix 10 is not seen ("256" as a byte is 0), in other radices by one
  digit; the exponent of zero is refused although the printer writes it; `'p'` counts powers
  of ten in decimal texts.  The model does the same, and `ConversionsAgree` is about the
  texts on which code and definition should meet.
* *Writing numbers.*  `iota_2_u16digits` masks 7 bits of a fraction of 10 (theorem
  `Iota2Misprints`); `lookup_iota_10digits_ascii_noif` and `uint_to_dec_forward_less1e11`
  share a wrong constant; `uint_to_dec<uint16_t>` aligns five digits to the wrong end;
  the run-time `to_ascii` misplaces a small value in a part of four chunks or more (numbers
  of 64 digits); `from_integral_len` bounds the length of negatives only.
* *Reals.*  Zero is normalized to exponent -62, so sums with numbers below 2^-62 lose them;
  `get_exponent` halves denormals; the fixed format rounds wrongly when one digit is left in
  its pair buffer (3.1415926 to six places is 3.141592) and reads an empty buffer for some
  lengths; integers filled with zeros are rounded at the last zero; nines before the point
  become ':'; -0.0 in a room of one writes two characters.
* *Views.*  `pv_compare` compares signed characters at compile time, unsigned ones at run time.
* *Formatting* (read, not modelled).  The cached path of `_fmt` leaves doubled braces;
  `format_fill_pv` redirects output without flushing; `parse_arg_index` has a condition that
  is never true; an unterminated field at the end is accepted.

## 5. Proofs

The proofs hold for every value of the constants that satisfies the named assumptions.
`PROJECT.json` lists the theorems; this is what they rest on.

`StringProofs`, on `CowString`, for any finite sets of strings and threads, any blocks and texts, and
programs that do not move across `is_ownerized` (`~MoveAcrossOwnerized`; with it `NoDangling`
is false, finding 2):

* One inductive invariant, `IInv`, gives the first five theorems.  `Shape` says what each
  place of an operation implies (an operation that is about to load a count works on a
  counted, unowned heap string; one that is about to share has a source that stays counted)
  and that no two threads work on one string.  `BlockInv` says of every block, with its
  holders `H`, those being freed `F` and those that must be alone `S` (a string being freed,
  an ownerized string, a thread that has built a new block): the block is allocated exactly
  when `H` is not empty, each member of `S` is the whole of `H`, and while `F` is empty the
  count is `Cardinality(H)`.  `CountIsHolders` alone is not inductive: it does not say that
  an ownerized string, which frees without asking, has no companion, nor that a holder that
  read 1 stays the only one.
* The arithmetic is done once, on bare sets (`Single`, `Dropped`, `Gained`, `Swapped`), and
  `HoldersNext` reduces a step to the strings it writes.  Steps that move no holder are
  `Quiet`; the others (`FetchSubStep`, `DeallocateStep`, `ShareStep`, `AdoptStep`,
  `StoreBuiltStep`, `AllocateCopyStep`, `RegrowStep`, `OwnStep`) change one block or
  two, and `UnconcernedBlock` disposes of the rest.  Every public operation either gives a
  block up first (`GivingUpBegins`) or writes in place (`InPlaceBegins`).
* `CountIsTheHolders`, `NothingDangles`, `LastHolderFrees`, `NothingLeaks` and `TypeCorrect`
  follow from `IInv`.
* `WritersAreAlone` (no two threads in one uncounted block, one of them writing) and
  `UncountedTextsKept` (an edit of one string leaves the text every other uncounted string
  shows) need that a block without a count is never shared: such a block has exactly one
  holder, and a thread that writes it in place is working on that holder.

`WaitMutexProofs`, for any set of threads and any set of timeouts:

* `TypeCorrect`: the types, with the strengthening `SpinsLeft` (a thread in the loop has an
  attempt left), without which the countdown could pass 0.
* `Exclusion`: `MutualExclusion` is inductive as stated because it ties the word to the
  holder: the exchange that finds 0 is the only way in.
* `NoSleeperForgotten`: also inductive together with the types.  A thread falls asleep only
  while the word is 1; the step that clears it leaves the unlocking thread at its recheck;
  the recheck goes on to the notification unless the word is 1 again; the notification
  wakes a sleeper.
* `Refinement`: every step is a `Lock`, an `Unlock` or leaves the holders alone.

`RwMutexProofs`, for any finite set of threads smaller than the writer's bit
(`ThreadsAssumption`, `MutBitAssumption`):

* The inductive invariant `Inv` adds to the checked ones `SeenInv`: what each thread's
  `expected` says at the places where it is compared.  A compare-exchange can succeed only
  from a value without the writer's bit; a drainer sleeps only on a word with readers.
* `StepIsChange` reduces every step to one of six changes of readers, claimer and word;
  `HoldersStep` does the arithmetic on those six alone.  The cardinality of the readers is
  where the bound on the threads is needed: the count cannot carry into the bit.
* From it `TypeCorrect`, `WordCorrect`, `Exclusion`, `Refinement`, and with two lemmas about
  who is awake, `NoSleeperForgotten`.

`DepsProofs`, for any bounds on nodes, edges and phases (`BoundsAssumption`) and any client:

* The proofs never look at an action twice.  `MakeEdgeNodes`, `DefuseNodes`, `QueryNodes`,
  `WaveNodes` and `MakeNodeNodes` say what each operation does to one node in one direction
  (`EdgeStep`, `CountedUp`, `Fired`, `Answered`, `Ran`, `Made`); the invariants are then
  shown for those changes.
* `TypeCorrect`, from `Shape`: the types, and `ListsNodes`, that the lists name nodes of the
  graph only, so that a new node has no dependants and an absent one never fires.
* `PhasesCorrect`: of every change but `Clear`.
* `RuleCorrect`: `TheRule` is inductive with `Shape`.  A node's phase grows only in `defuse`,
  whose recount looks at every dependency and turns to error if one is behind; an edge is
  only made to a dependency that is not behind, or with an error; and a dependency's phase
  never goes back.
* `ListCorrect`, of the nodes without error.  The strengthening `Latched` says that `active`
  is a count or a tag of a triggered node unless the node is in error (`TagInv`), so counting
  reaches a tag only there, and that only nodes of the graph fire or are in error
  (`OthersAreFresh`).  An error stays one (`ForwardStep`), so a node without error had none
  before.
* `KahnCorrect`, the invariant of Kahn's algorithm.  `KahnCount` says only that the count
  of a waiting node lies between two numbers; what is inductive is `KahnInv`: the count is
  the size of a set `C` of entries of the node's connection list, every entry in `C` is far
  enough, and an entry outside `C` is missed for a reason (the dependency is in error, is
  not far enough, or does not list the node as often as the node lists it).  The lists of
  the two ends are balanced but for errors, nodes have no edge to themselves, and the bags
  stay within the bound on edges, which makes the sums over lists cardinalities of finite
  sets.
* `FiringCorrect`: a node fires when its count reaches the length of its list, so `C` is
  then all of it.  A node in error that is counted up to a tag is the exception the property
  names.

`BlockRangesProofs`:

* `RangeForIsRight`: for any bitmap, any length and alignment, the range `alloc_block_range`
  returns is in bounds, free, as long as asked for and aligned; one is found whenever one
  exists; the first fit is the first and the best fit leaves least of the run it cuts.
  The runs of free bits grow by recursion up the bitmap, so this is an induction over an
  index (`Induction`, `BoundedRecursion`, `DownwardRecursion`): these three lemmas are
  proved from the library's facts about least elements and speak about sets, not operators,
  which is why the provers can use them for recursive *functions*.
* `BlockCountsFit`: blocks and bitmaps of all containers fit the bytes they were computed
  from when the remainder is not negative.

`AllocatorsProofs`, for any containers, sizes, alignments, sets of requests and numbers of
blocks (`PoolAssumption`, `SizesAssumption`, `BumpAssumption`, `RequestsAssumption`,
`AreasAssumption`: the three areas do not overlap):

* The inductive invariant is `AllocInv`, an operator `Owned` of the four variables so that
  it can be stated before and after a step alike.  `PoolShape`: the bits of each container
  are within its count.  `BumpShape`: both ends of the stack and of the buffer stay where
  they were fixed, the fill between them.  `Belongs`: every live block is exactly one of
  pool, stack, buffer and heap, as its address and the request say (`Whose`).  `Apart`: what
  blocks took is disjoint from each other and from all that is free.  `Stacked`: the blocks
  of the stack lie in order without a gap, so that the block `Releasable` lets the client
  give back is the topmost.  It was first checked with TLC (567709 states).
* `BlocksAreOwned` is this invariant; `FitsFound` is `FitsAreFound`, with `RangeForIsRight`;
  `AllocatorsImplementMemory` maps every step to `Allocate`, `Release` or a stutter (a
  failed request changes at most whether the cache is used) of `Memory`.

`StringProofs`, on `Digits`, full width, with the constants of the code:

* A printer holds the rest of a number as a fraction of a word.  For every printer: with `x`
  the part not yet printed, `f` the fraction, `D` the digits left as a power of ten and
  `S` the scale, `S * x <= D * f < S * (x + 1)` is kept by every multiplication by 100 (or
  10), and no product reaches the word.  Printers of more digits are composites
  (`Exact15Prints`, `Exact19Prints`, `Exact20Prints`) and `IntToDecCallsFit` says that each
  part is passed to a printer that it fits.
* Words of packed digits are tuples of lanes: `LanesBecomeDigits`, `Conv8Packs` and the two
  `Base10...` theorems say that no lane carries into or borrows from its neighbour.
* `InverseDivides` is about every divisor (`Reciprocal`): the rounded inverse gives the exact quotient.

`UnorderedVectorProofs`, for any keys whose first hash words differ (`HashesDiffer`, which
the keys of the run satisfy too), words of any length, digits of any width and programs that
do not meet the bug of `erase` (`~EmptiesBelowLast`, finding 4):

* `FindsEntries` is not inductive: nothing in it keeps the tree acyclic, or an entry under
  its own digits.  The program stores neither how deep a node is nor what leads to it, so
  `IInv` says that *some* levels and words exist for the nodes (`Trie`): the root has level 0,
  a node hangs in its parent one level lower in the slot its word says (`Below`), and an entry
  where its hash says (`Hangs`).  With it go the agreement of links and reverse indexes
  (`Linked`), no empty node but the root (`Full`), keys once each (`Distinct`), and values and
  cached hashes beside their keys (`Columns`).
* Reading: the levels are fewer than the nodes, since each level above a node has a node of
  its own (`LevelsAreFew`), so the walk of `place_find` ends (`WalkEnds`); it ends at the key's
  entry if there is one, since two nodes on one level with one word are one (`SamePath`,
  `EntryIsFound`).
* Inserting keeps `IInv` with the same levels and words (`SlotKeepsInv`), or with those of the
  new nodes added (`SplitKeepsInv`).  Here `HashesDiffer` is needed: only within the first word
  does `SiblingHasher` read what the walk read (`SiblingIs`, `ChainLength`).
* Erasing: `ErasedEntry` takes the entry out, which may leave one empty node `at`; each turn of
  the loop either drops the last node (`DroppedNode`) or moves it into the hole
  (`ReplacedNode`, where the words move along and the moved node's children are relinked).
  A turn leads from a `Good` state to a `Good` or a `Strayed` one (`PrunedIs`), and a strayed
  one never recovers (`PrunedAllIs`): it is what finding 4 does and what `~EmptiesBelowLast`
  leaves out.  At most as many turns as nodes are needed, so the loop is over.
* `KeysAreFound` and `VectorImplementsDenseMap` follow: the second from `InsertIsDense` and
  `EraseIsDense`, steps that keep the tree aside and look at keys and values only.
* *The plain interning vector* (`interning_vector_t`, module `InternTrie`) keeps the tree
  without the indexes back.  `InternSound` says that some indexes would make it `Sound`, so the
  lemmas about `Trie` serve again: its walk, a fold, ends where the levels and words say
  (`InternWalkEnds`), find returns the number of a hash (`InternFinds`), and both ways of
  insert keep the invariant (`InternSlot`, `InternSplit`; `PartingIs` is where two hashes
  part).  `InterningNumbersHashes` is the part of `NumbersHashes` about this vector, for any
  hashes of one length (`InternHashes`).

`UniDepsProofs`, about the schedulers without phases and the lists below them, for any
number of nodes, lists and batches of any length, any edges that join no node to itself
(`Arcs`), any estimates, and size classes that can hold all edges
(`BoundsAssumption`, `PartsAssumption`: `MaxEdges < 2^MaxClass`; in the code the classes go
to 63 and an edge takes a word of memory):

* *Cells.*  The signs and lengths that say whose a cell is are spread over lists, heads and
  the cells themselves, and free blocks are chained through their own cells.  `Filed` says
  that *some* map gives each cell an owner and a rank in its block such that every chain of
  free blocks is finite and names its blocks exactly (`Threaded`, `Divided`).  Each operation
  hands one run of cells from one owner to another (`HandedOver`: `UnfileKeepsFiled`,
  `FileKeepsFiled`), so that `DeallocateIs`, `AllocateAllocates`, `MovePlaces`,
  `TakingFieldPlaces` and `PushedBackPushes` need no look at the rest of the store.
  `Sound` adds that each node's list owns the cells it names; `SoundPartitions` then gives
  `CellsPartitioned`: the walk down each free chain ends (`DepthBounded`) and meets exactly
  the free blocks.
* *Lists.*  Because no operation writes a cell of another owner, pushing to one list leaves
  every other list as it was (`OneEdge`) and dropping it likewise (`NoEdges`): this is what
  makes edges countable (`Occurrences`).
* *Degrees.*  In `rdeps.hpp` the in-degree is a sum over all lists (`Counted`), in `udeps.hpp`
  over what live nodes are owed (`Debts`: the history `owed` agrees with the lists between
  live nodes).  `EdgesAreCounted` alone is not inductive: it needs `Sound`, that a freed node
  has degree 0 and an empty list and is not queued (`Resting`, `Spare`), and that the
  queue holds exactly the nodes in the state `active` (`Lined`).  `RInv` and `UInv` collect this.
* *Loops.*  `make_edges` and `defuse` are folds over sequences of any length.  Lemmas like
  `RoundsAreLooped`, `MadeEdgesLoop` and `DischargedLoop` turn a fold into a trace of rounds, and an induction over its index carries the invariant (`REdgesMade`,
  `UEdgesMade`) or what a discharge has paid so far (`Settling`, `AllSettled`).  A list may
  name a node several times; `Tally` counts how often it did so far, and a node fires in the
  round that brings it to 0 and in no other.
* *Refinement.*  `RNextIsTasks`: with `RInv`, making nodes is `Create`, an edge is `Order`, a
  query or a seed `Queue`, a wave `Start`, yielding `Yield`, freeing `Finish` (which queues
  exactly the tasks whose last dependency it was), clearing `Reset`.
* `MCInv` is the three invariants side by side, one for each part of `MCUniDeps`;
  `CellsArePartitioned`, `EdgesAreCountedRight` and `RdepsImplementsTasks` follow.
  `UdepsCountsWhatIsOwed` and `RdepsCountsItsEdges` say the same of each scheduler alone.

Only model-checked: `ValueSemantics` of `CowString` (false with counts, finding 1), the
interning vectors but the plain one, wide integers, texts, views and graphs, and the liveness properties
(`TriggeredNodesRun`, `FiredNodesRun`, the progress of waiting threads).
What the provers cannot do: liveness and `ENABLED`; `RECURSIVE` operators, which
`Decimals`, `Floats`, `Forests`, `Searches`, `Orders`, `Reach`, `GraphFacts`, `Views` and
`WideInts` declare; and the library's induction theorems, whose parameters are operators.

## 6. Not modelled, and the plan

Left out for good: atomic references and guards, the logging and `std::pmr` adaptors,
iterators and traits other than those of texts, in-place and lazy strings, formatters'
output, compile-time support, coroutines, benchmarks; the rope, which exists only as a paper.
Of modelled parts: page and stack allocators, hexadecimal reals, encodings other than ASCII,
the cap of 32 digits of accuracy, vector units.  `PROJECT.json` lists each with its reason.

Planned, in this order:

1. The interning vectors that pack their nodes as refinements of the plain one.
2. The replacement-field parser of `formatting/base.hpp`: automatic against manual indexing.
3. The stated graph wrapper.
