---------------------------- MODULE CowString ----------------------------
(***************************************************************************)
(* Copy-on-write string objects (basic_str_t, byte_str/string.hpp and      *)
(* string_abi.hpp) over reference-counted heap blocks (str_heap_manager_t, *)
(* byte_str/heaps.hpp), used by several threads.                           *)
(*                                                                         *)
(* A string object may be used by one thread for writing or by several for *)
(* reading, as the objects of the C++ standard library may.  Blocks are    *)
(* shared between strings, so every access to a reference count is a step  *)
(* of its own.                                                             *)
(*                                                                         *)
(* Lengths are abstract: a text is Short when it fits the string's inline  *)
(* buffer, Long otherwise, and whether it fits a heap block is a free      *)
(* choice.  A malloc fails exactly when every block is in use.             *)
(***************************************************************************)
EXTENDS Naturals, FiniteSets

CONSTANTS
    Strings,              \* the string objects of the program
    Threads,              \* its threads
    Blocks,               \* the heap blocks the allocator can hand out
    Short, Long,          \* texts that do, and do not, fit sso_cap
    Empty, ErrText,       \* the texts "" and "[Err]"
    NoString, NoBlock,    \* absent values
    Counting,             \* can a new block have a count? (cow threshold)
    MoveAcrossOwnerized   \* it moves between strings of different ownerized flags

Texts == Short \cup Long

ASSUME TextsAssumption ==
    /\ Short \cap Long = {}
    /\ Empty \in Short
    /\ ErrText \in Texts
ASSUME NamesAssumption ==
    /\ NoString \notin Strings
    /\ NoBlock \notin Blocks
    /\ Strings \cap Threads = {}
    /\ IsFiniteSet(Strings)
    /\ IsFiniteSet(Threads)
ASSUME ProgramAssumption ==
    /\ Counting \in SUBSET BOOLEAN /\ Counting # {}
    /\ MoveAcrossOwnerized \in BOOLEAN

VARIABLES
    str,    \* str[h]: the fields of string object h
    mem,    \* mem[b]: heap block b and its hidden count
    op      \* op[t]: the string operation thread t is in the middle of

vars == <<str, mem, op>>

--------------------------------------------------------------------------
(* Representations: the inline buffer, a view of a literal, a heap block.  *)
(* The text of a heap string is in its block.                              *)

StringRep == [rep : {"sso", "view", "heap"}, blk : Blocks \cup {NoBlock},
              own : BOOLEAN, val : Texts]
BlockRep  == [live : BOOLEAN, counted : BOOLEAN, rc : Nat, val : Texts]

Sso(v, o)  == [rep |-> "sso",  blk |-> NoBlock, own |-> o, val |-> v]
View(v, o) == [rep |-> "view", blk |-> NoBlock, own |-> o, val |-> v]
Heap(b, o) == [rep |-> "heap", blk |-> b,       own |-> o, val |-> Empty]

EmptyString == Sso(Empty, FALSE)
FreeBlock   == [live |-> FALSE, counted |-> FALSE, rc |-> 0, val |-> Empty]

\* init_heap: a fresh block belongs to one string
NewBlock(c, v) == [live |-> TRUE, counted |-> c, rc |-> 1, val |-> v]

Text(s) == IF s.rep = "heap" THEN mem[s.blk].val ELSE s.val

\* mutant: every heap string can be shared
IsSharableAlways(s) == s.rep # "sso"

IsSharable(s) == s.rep = "view" \/ (s.rep = "heap" /\ mem[s.blk].counted)
NoDestroy(s)  == s.rep # "heap"

\* is_owner_no_heap: the three-valued answer read off the control bits
CertainlyOwner(s) == s.rep = "sso" \/ s.own \/ (IsSharable(s) # NoDestroy(s))

\* str_heap_manager_t::is_owner
HeapSaysOwner(s) == ~mem[s.blk].counted \/ s.own \/ mem[s.blk].rc = 1

\* data_t::is_owner
IsOwner(s) == CertainlyOwner(s) \/ (~NoDestroy(s) /\ HeapSaysOwner(s))

\* data_t::has_room_for, "fits" standing for len <= get_capacity()
HasRoom(s, v, fits) ==
    \/ s.rep = "sso" /\ v \in Short
    \/ s.rep = "heap" /\ fits /\ IsOwner(s)

--------------------------------------------------------------------------
(* Operations in progress.  "dst" is being changed, "moved" will be reset, *)
(* "src" is being read.  Every change of dst first gives its block up      *)
(* (pc = load, sub, free) and then does "next", building "new" in dst.     *)

Pcs == {"idle", "load", "sub", "free", "store", "share", "alloc", "adopt",
        "write", "read"}
OpRep == [pc : Pcs, next : Pcs, dst : Strings \cup {NoString},
          src : Strings \cup {NoString}, moved : Strings \cup {NoString},
          new : StringRep]

IdleOp == [pc |-> "idle", next |-> "idle", dst |-> NoString,
           src |-> NoString, moved |-> NoString, new |-> EmptyString]

Operation(next, h, new) ==
    [IdleOp EXCEPT !.next = next, !.dst = h, !.new = new]

\* destruct_to_invalid, up to its first access to the block: an ownerized
\* string, or one without a count, frees its block without asking anybody
Release(s, o) ==
    [o EXCEPT !.pc = CASE s.rep # "heap" -> o.next
                       [] s.rep = "heap" /\ mem[s.blk].counted /\ ~s.own -> "load"
                       [] OTHER -> "free"]

\* The object contract: one writer, or any number of readers.
Untouched(h)  == \A t \in Threads : h \notin {op[t].dst, op[t].moved, op[t].src}
Unwritten(h)  == \A t \in Threads : h \notin {op[t].dst, op[t].moved}
Idle(t)       == op[t].pc = "idle"

Begin(t, o) ==
    /\ op' = [op EXCEPT ![t] = o]
    /\ UNCHANGED <<str, mem>>

\* Done with dst: a string that was copied out of is reset, then it is over.
Finished(t) ==
    IF op[t].moved = NoString THEN IdleOp
    ELSE Release(str[op[t].moved], Operation("store", op[t].moved, EmptyString))

Init ==
    /\ str = [h \in Strings |-> EmptyString]
    /\ mem = [b \in Blocks |-> FreeBlock]
    /\ op = [t \in Threads |-> IdleOp]

--------------------------------------------------------------------------
(* Giving a block up: deinit_heap_and_ask and free_p, one atomic access    *)
(* per step.                                                               *)

\* mutant: an off-by-one in the test for the last holder
LoadCountEarly(t) ==
    /\ op[t].pc = "load"
    /\ op' = [op EXCEPT ![t].pc =
                  IF mem[str[op[t].dst].blk].rc <= 2 THEN "free" ELSE "sub"]
    /\ UNCHANGED <<str, mem>>

LoadCount(t) ==
    /\ op[t].pc = "load"
    /\ op' = [op EXCEPT ![t].pc =
                  IF mem[str[op[t].dst].blk].rc = 1 THEN "free" ELSE "sub"]
    /\ UNCHANGED <<str, mem>>

\* mutants: the same off-by-one on the value of fetch_sub; its value unused
FetchSubEarly(t) ==
    LET b == str[op[t].dst].blk IN
    /\ op[t].pc = "sub"
    /\ mem' = [mem EXCEPT ![b].rc = @ - 1]
    /\ op' = [op EXCEPT ![t].pc = IF mem[b].rc <= 2 THEN "free" ELSE op[t].next]
    /\ UNCHANGED str

FetchSubOnly(t) ==
    /\ op[t].pc = "sub"
    /\ mem' = [mem EXCEPT ![str[op[t].dst].blk].rc = @ - 1]
    /\ op' = [op EXCEPT ![t].pc = op[t].next]
    /\ UNCHANGED str

FetchSub(t) ==
    LET b == str[op[t].dst].blk IN
    /\ op[t].pc = "sub"
    /\ mem' = [mem EXCEPT ![b].rc = @ - 1]
    /\ op' = [op EXCEPT ![t].pc = IF mem[b].rc = 1 THEN "free" ELSE op[t].next]
    /\ UNCHANGED str

Deallocate(t) ==
    /\ op[t].pc = "free"
    /\ mem' = [mem EXCEPT ![str[op[t].dst].blk] = FreeBlock]
    /\ op' = [op EXCEPT ![t].pc = op[t].next]
    /\ UNCHANGED str

(* What comes after it. *)

\* set_invalid_to_sso / set_invalid_to_non_sso_begin with the built value
Store(t) ==
    /\ op[t].pc = "store"
    /\ str' = [str EXCEPT ![op[t].dst] = op[t].new]
    /\ op' = [op EXCEPT ![t] = Finished(t)]
    /\ UNCHANGED mem

\* mutant: the new holder is not counted
ShareUncounted(t) ==
    /\ op[t].pc = "share"
    /\ str' = [str EXCEPT ![op[t].dst] = Heap(str[op[t].src].blk, FALSE)]
    /\ op' = [op EXCEPT ![t] = IdleOp]
    /\ UNCHANGED mem

\* the tail of share_init_impl_: count one more holder, then point at the block
Share(t) ==
    LET b == str[op[t].src].blk IN
    /\ op[t].pc = "share"
    /\ mem' = [mem EXCEPT ![b].rc = @ + 1]
    /\ str' = [str EXCEPT ![op[t].dst] = Heap(b, FALSE)]
    /\ op' = [op EXCEPT ![t] = IdleOp]

\* mutant: the moved-from string is not reset
AdoptKeeps(t) ==
    /\ op[t].pc = "adopt"
    /\ str' = [str EXCEPT ![op[t].dst] = str[op[t].moved]]
    /\ op' = [op EXCEPT ![t] = IdleOp]
    /\ UNCHANGED mem

\* the tail of move_init_impl_: m = std::exchange(str.m, {})
Adopt(t) ==
    /\ op[t].pc = "adopt"
    /\ str' = [str EXCEPT ![op[t].dst] = str[op[t].moved],
                          ![op[t].moved] = EmptyString]
    /\ op' = [op EXCEPT ![t] = IdleOp]
    /\ UNCHANGED mem

\* memcpy_to_me_nonsso_alloc: the old block is gone before the new one is asked for
AllocateCopy(t) ==
    /\ op[t].pc = "alloc"
    /\ \/ \E b \in Blocks, c \in Counting :
              /\ ~mem[b].live
              /\ mem' = [mem EXCEPT ![b] = NewBlock(c, op[t].new.val)]
              /\ str' = [str EXCEPT ![op[t].dst] = Heap(b, op[t].new.own)]
       \/ /\ \A b \in Blocks : mem[b].live
          /\ str' = [str EXCEPT ![op[t].dst] = View(ErrText, op[t].new.own)]
          /\ UNCHANGED mem
    /\ op' = [op EXCEPT ![t] = IdleOp]

\* memcpy_to_non_sso<own_relax, true>, or an edit of the buffer in place
WriteInPlace(t) ==
    /\ op[t].pc = "write"
    /\ mem' = [mem EXCEPT ![str[op[t].dst].blk].val = op[t].new.val]
    /\ str' = [str EXCEPT ![op[t].dst].own = op[t].new.own]
    /\ op' = [op EXCEPT ![t] = Finished(t)]

EndRead(t) ==
    /\ op[t].pc = "read"
    /\ op' = [op EXCEPT ![t] = IdleOp]
    /\ UNCHANGED <<str, mem>>

--------------------------------------------------------------------------
(* The operations of basic_str_t. *)

\* ~basic_str_t, and a default-constructed string in its place
Destroy(t, h) ==
    /\ Idle(t) /\ Untouched(h)
    /\ Begin(t, Release(str[h], Operation("store", h, EmptyString)))

\* writing over dst's own buffer, no block given up
InPlace(h, v, o) == [Operation("idle", h, Sso(v, o)) EXCEPT !.pc = "write"]

\* move_init_impl_ from a string s: into the room there is, or by taking s over
MoveFrom(t, h, s, g) ==
    LET v    == Text(s)
        same == s.own = str[h].own
    IN \E fits \in BOOLEAN :
        \/ /\ HasRoom(str[h], v, fits)
           /\ same \/ MoveAcrossOwnerized
           /\ Begin(t, [CASE v \in Short ->
                               Release(str[h], Operation("store", h, Sso(v, s.own)))
                          [] v \in Long /\ same -> InPlace(h, v, s.own)
                          [] OTHER -> \* move_init_cpy_impl_0_, flags differ
                               Release(str[h], Operation("write", h, Sso(v, s.own)))
                        EXCEPT !.moved = g])
        \/ /\ ~HasRoom(str[h], v, fits)
           /\ Begin(t, Release(str[h],
                               IF g = NoString THEN Operation("store", h, s)
                               ELSE [Operation("adopt", h, EmptyString)
                                     EXCEPT !.moved = g]))

\* h = std::move(g)
Move(t, h, g) ==
    /\ Idle(t) /\ h # g /\ Untouched(h) /\ Untouched(g)
    /\ MoveFrom(t, h, str[g], g)

\* h = "literal": a temporary, inline or a static view, is moved into h
AssignLiteral(t, h, v) ==
    /\ Idle(t) /\ Untouched(h)
    /\ MoveFrom(t, h, IF v \in Short THEN Sso(v, FALSE) ELSE View(v, FALSE), NoString)

\* memcopy_assign_ and memcpy_to_me_ of a text that may be read from g
CopyBytes(t, h, g, v, fits) ==
    Begin(t, [CASE v \in Short ->
                     Release(str[h], Operation("store", h, Sso(v, str[h].own)))
                [] v \in Long /\ HasRoom(str[h], v, fits) -> InPlace(h, v, str[h].own)
                [] OTHER ->
                     Release(str[h], Operation("alloc", h, Sso(v, str[h].own)))
              EXCEPT !.src = g])

\* share_init_impl_
ShareFrom(t, h, g, fits) ==
    LET s    == str[g]
        cant == ~IsSharable(s) \/ str[h].own \/ s.own
    IN  \/ cant /\ CopyBytes(t, h, g, Text(s), fits)
        \/ /\ ~cant /\ s.rep = "view"
           /\ Begin(t, [Release(str[h], Operation("store", h, View(s.val, FALSE)))
                        EXCEPT !.src = g])
        \/ /\ ~cant /\ s.rep = "heap"
           /\ Begin(t, [Release(str[h], Operation("share", h, EmptyString))
                        EXCEPT !.src = g])

\* h = const rvalue of g
AssignShared(t, h, g) ==
    /\ Idle(t) /\ h # g /\ Untouched(h) /\ Unwritten(g)
    /\ \E fits \in BOOLEAN : ShareFrom(t, h, g, fits)

\* h = g (copy_assign_impl_): bytes into the room there is, else a share
AssignCopy(t, h, g) ==
    /\ Idle(t) /\ h # g /\ Untouched(h) /\ Unwritten(g)
    /\ \E fits \in BOOLEAN :
        LET v == Text(str[g])
            room == v \in Short \/ (str[h].rep = "heap" /\ HasRoom(str[h], v, fits))
        IN  \/ room  /\ CopyBytes(t, h, g, v, fits)
            \/ ~room /\ ShareFrom(t, h, g, fits)

\* a block is asked for, filled with v, and replaces h's representation
Regrow(t, h, v, o) ==
    \E b \in Blocks, c \in Counting :
        /\ ~mem[b].live
        /\ mem' = [mem EXCEPT ![b] = NewBlock(c, v)]
        /\ op' = [op EXCEPT ![t] =
                      Release(str[h], Operation("store", h, Heap(b, o)))]
        /\ UNCHANGED str

\* replace_data_with_none and the edits built on it
Edit(t, h, v) ==
    /\ Idle(t) /\ Untouched(h)
    /\ \E fits \in BOOLEAN :
        \/ /\ HasRoom(str[h], v, fits) /\ str[h].rep = "heap"
           /\ Begin(t, InPlace(h, v, str[h].own))
        \/ /\ v \in Short /\ (str[h].rep = "sso" \/ ~HasRoom(str[h], v, fits))
           /\ Begin(t, Release(str[h], Operation("store", h, Sso(v, str[h].own))))
        \/ /\ v \in Long /\ ~HasRoom(str[h], v, fits)
           /\ Regrow(t, h, v, str[h].own)

\* reserve(more) and shrink_to_fit: the same text in a block of another size
Reserve(t, h) ==
    /\ Idle(t) /\ Untouched(h)
    /\ Regrow(t, h, Text(str[h]), str[h].own)

SoleHolder(h) == \A g \in Strings \ {h} : str[g].rep = "heap" => str[g].blk # str[h].blk

\* as_always_ownerized(true); the program calls it on strings that share no
\* block, see the README
Ownerize(t, h) ==
    /\ Idle(t) /\ Untouched(h)
    /\ SoleHolder(h)
    /\ IF str[h].rep # "view" /\ IsOwner(str[h])
       THEN /\ str' = [str EXCEPT ![h].own = TRUE]
            /\ UNCHANGED <<mem, op>>
       ELSE Regrow(t, h, Text(str[h]), TRUE)

\* as_always_ownerized(false)
Disown(t, h) ==
    /\ Idle(t) /\ Untouched(h)
    /\ str' = [str EXCEPT ![h].own = FALSE]
    /\ UNCHANGED <<mem, op>>

\* a const member function reads the text
Read(t, g) ==
    /\ Idle(t) /\ Unwritten(g)
    /\ Begin(t, [IdleOp EXCEPT !.pc = "read", !.src = g])

--------------------------------------------------------------------------
Step(t) ==
    \/ LoadCount(t) \/ FetchSub(t) \/ Deallocate(t) \/ Store(t) \/ Share(t)
    \/ Adopt(t) \/ AllocateCopy(t) \/ WriteInPlace(t) \/ EndRead(t)

Call(t) ==
    \E h \in Strings :
        \/ Destroy(t, h)
        \/ Reserve(t, h)
        \/ Ownerize(t, h)
        \/ Disown(t, h)
        \/ Read(t, h)
        \/ \E v \in Texts : AssignLiteral(t, h, v) \/ Edit(t, h, v)
        \/ \E g \in Strings : Move(t, h, g) \/ AssignShared(t, h, g)
                                \/ AssignCopy(t, h, g)

Next == \E t \in Threads : Step(t) \/ Call(t)

Spec == Init /\ [][Next]_vars

--------------------------------------------------------------------------
(* Who holds a block: the strings that point at it and have not given it   *)
(* up, and the threads that are building a string in it.                   *)

GivenUp(h) == \E t \in Threads :
    op[t].dst = h /\ op[t].pc \in {"store", "share", "alloc", "adopt"}
Freeing(t, b) == op[t].pc = "free" /\ str[op[t].dst].blk = b

HoldingStrings(b) ==
    {h \in Strings : str[h].rep = "heap" /\ str[h].blk = b /\ ~GivenUp(h)}
BuildingThreads(b) ==
    {t \in Threads : op[t].new.rep = "heap" /\ op[t].new.blk = b}
Holders(b) == HoldingStrings(b) \cup BuildingThreads(b)

\* Every variable stays within its type.
TypeOK ==
    /\ str \in [Strings -> StringRep]
    /\ mem \in [Blocks -> BlockRep]
    /\ op \in [Threads -> OpRep]

\* The hidden count of a block always equals the number of its holders,
\* through every interleaving of is_owner loads, fetch_sub and fetch_add
\* (heaps.hpp deinit_heap_and_ask, add_shareholder); a block without a
\* count has exactly one.
CountIsHolders ==
    \A b \in Blocks : mem[b].live /\ (\A t \in Threads : ~Freeing(t, b)) =>
        Cardinality(Holders(b)) = (IF mem[b].counted THEN mem[b].rc ELSE 1)

\* README "[data_block, data_block + capacity) ... not null and alive": the
\* block of every string that has not given it up is allocated.
NoDangling ==
    \A b \in Blocks : Holders(b) # {} => mem[b].live

\* A block is deallocated once, by its last holder: nobody else points at
\* it, and no second thread reached the deallocation too.
FreedByLastHolder ==
    \A t \in Threads, b \in Blocks : Freeing(t, b) =>
        /\ mem[b].live
        /\ Holders(b) \subseteq {op[t].dst}
        /\ \A u \in Threads \ {t} : ~Freeing(u, b)

\* No block is lost: an allocated block has a holder or is being freed,
\* also after failed operations and assignments between aliases.
NoLeak ==
    \A b \in Blocks : mem[b].live =>
        Holders(b) # {} \/ \E t \in Threads : Freeing(t, b)

\* The in-place writer of a block that has no count is alone with it: no
\* other string of the block is read, or written, at the same time (README
\* "thread-safety ... similar to a std::string").
NoRace ==
    \A t, u \in Threads :
        (t # u /\ op[t].pc = "write" /\ op[u].pc \in {"read", "write"}) =>
            LET h == IF op[u].pc = "read" THEN op[u].src ELSE op[u].dst
                b == str[op[t].dst].blk
            IN  str[h].rep = "heap" /\ ~mem[b].counted => str[h].blk # b

\* A step changes the text of no string but the ones its own operation was
\* called on (README "because the string data (text) is never modified").
TextOfOthersKept ==
    \A h \in Strings :
        Text(str[h])' # Text(str[h]) =>
            \E t \in Threads : h \in {op[t].dst, op[t].moved}
ValueSemantics == [][TextOfOthersKept]_vars

\* The part of it the code keeps: only the text of a string in a counted
\* block changes under it (is_owner_no_heap, string_abi.hpp 873-887).
UncountedTextKept ==
    \A h \in Strings :
        Text(str[h])' # Text(str[h]) =>
            \/ \E t \in Threads : h \in {op[t].dst, op[t].moved}
            \/ str[h].rep = "heap" /\ mem[str[h].blk].counted
UncountedKept == [][UncountedTextKept]_vars
============================================================================
