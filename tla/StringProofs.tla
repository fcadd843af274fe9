---------------------------- MODULE StringProofs ----------------------------
(***************************************************************************)
(* What is proved about the strings and the numbers printed into them.     *)
(*                                                                         *)
(* First the string objects and their heap blocks (CowString), for any     *)
(* strings, threads, blocks and texts, and for programs that do not move   *)
(* across ownerized flags.                                                 *)
(*                                                                         *)
(* Then the printers of Digits, for every number they are given.  Along    *)
(* the digits, x is the part of n that is not printed yet and f the        *)
(* fraction that stands for it: x = D * f / M rounded down, where D counts *)
(* the values x can have and M is one in the fixed point representation.   *)
(* A printed group is the integer part of f * 10^k, so it is right as long *)
(* as that invariant holds, and no product may reach the end of its word.  *)
(***************************************************************************)
EXTENDS CowString, Digits, FiniteSetTheorems, TLAPS


Releasing == {"load", "sub", "free"}
After     == {"store", "share", "alloc", "adopt"}

\* What an operation in progress says about the strings it works on.
OpFine(o) ==
    /\ o.pc = "idle" => o.dst = NoString /\ o.moved = NoString /\ o.new.rep # "heap"
    /\ o.pc = "read" =>
           /\ o.dst = NoString /\ o.moved = NoString /\ o.new.rep # "heap"
           /\ o.src \in Strings
    /\ o.pc \notin {"idle", "read"} =>
           o.dst \in Strings /\ o.moved # o.dst /\ o.src # o.dst
    /\ o.pc \in Releasing => o.next \in After /\ str[o.dst].rep = "heap"
    /\ o.pc \in {"load", "sub"} => mem[str[o.dst].blk].counted /\ ~str[o.dst].own
    /\ o.pc \in After => o.next = o.pc
    /\ o.pc \in {"write", "read", "idle"} => o.next = "idle"
    /\ o.pc = "write" => str[o.dst].rep = "heap" /\ o.new.own = str[o.dst].own
    /\ o.new.rep = "heap" =>
           o.next = "store" /\ o.moved = NoString /\ o.new.blk \in Blocks
    /\ o.next = "share" =>
           /\ o.src \in Strings /\ str[o.src].rep = "heap"
           /\ mem[str[o.src].blk].counted /\ ~str[o.src].own
    /\ o.next = "adopt" => o.moved \in Strings

\* The object contract, of operation o and those of the other threads.
Apart(t, o) ==
    \A u \in Threads \ {t} :
        /\ o.dst # NoString => o.dst \notin {op[u].dst, op[u].moved, op[u].src}
        /\ o.moved # NoString => o.moved \notin {op[u].dst, op[u].moved, op[u].src}
        /\ o.src # NoString => o.src \notin {op[u].dst, op[u].moved}

Shape ==
    /\ str \in [Strings -> StringRep]
    /\ op \in [Threads -> OpRep]
    /\ \A h \in Strings : str[h].rep = "heap" => str[h].blk \in Blocks
    /\ \A t \in Threads : OpFine(op[t]) /\ Apart(t, op[t])

\* Of each block: its holders, those that are freeing it, and those that must
\* be alone with it (a string being freed, an ownerized one, a builder).
Freed(h) == \E t \in Threads : op[t].dst = h /\ op[t].pc = "free"

HoldersOf == [b \in Blocks |-> Holders(b)]
FreedOf   == [b \in Blocks |-> {h \in HoldingStrings(b) : Freed(h)}]
SoleOf    == [b \in Blocks |->
    {h \in HoldingStrings(b) : Freed(h) \/ str[h].own} \cup BuildingThreads(b)]

\* What block m says of its holders H, with F being freed and S alone.
BlockOK(m, H, F, S) ==
    /\ m \in BlockRep
    /\ m.live <=> H # {}
    /\ F \subseteq S
    /\ \A x \in S : H = {x}
    /\ m.live /\ F = {} => Cardinality(H) = (IF m.counted THEN m.rc ELSE 1)

BlockInv == \A b \in Blocks :
    BlockOK(mem[b], HoldersOf[b], FreedOf[b], SoleOf[b])

IInv == Shape /\ mem \in [Blocks -> BlockRep] /\ BlockInv

\* A step of thread t about the strings W, which no other thread writes.
About(t, W) ==
    /\ W \subseteq Strings
    /\ {op[t].dst, op'[t].dst} \subseteq W \cup {NoString}
    /\ \A u \in Threads \ {t} : op[u].dst \notin W /\ op'[u] = op[u]
    /\ \A h \in Strings \ W : str'[h] = str[h]

\* An operation a thread may begin, or go on with, where it is idle or done.
Startable(t, o) ==
    /\ o \in OpRep /\ OpFine(o) /\ Apart(t, o)
    /\ o.pc # "sub" /\ o.new.rep # "heap"
    /\ o.pc \in After => str[o.dst].rep # "heap"
    /\ o.pc = "free" => str[o.dst].own \/ ~mem[str[o.dst].blk].counted

\* The empty string is a string.
LEMMA EmptyStringRep ==
    EmptyString \in StringRep /\ EmptyString.rep = "sso" /\ EmptyString.own = FALSE
BY TextsAssumption DEF EmptyString, Sso, StringRep, Texts

\* The fields of an operation that starts by giving up dst's block.
LEMMA OperationFields ==
    ASSUME NEW next \in Pcs, NEW h \in Strings \cup {NoString}, NEW new \in StringRep
    PROVE  LET o == Operation(next, h, new)
           IN  /\ o \in OpRep
               /\ o.pc = "idle" /\ o.next = next /\ o.dst = h /\ o.new = new
               /\ o.src = NoString /\ o.moved = NoString
<1>1. /\ IdleOp \in OpRep /\ IdleOp.pc = "idle"
      /\ IdleOp.src = NoString /\ IdleOp.moved = NoString
  BY EmptyStringRep DEF OpRep, Pcs, IdleOp
<1>2. Operation(next, h, new) = [IdleOp EXCEPT !.next = next, !.dst = h, !.new = new]
  BY DEF Operation
<1> HIDE DEF IdleOp
<1>3. QED
  BY <1>1, <1>2 DEF OpRep

\* destruct_to_invalid: on to the count, to the deallocation, or past both.
LEMMA ReleaseFields ==
    ASSUME NEW s, NEW o \in OpRep
    PROVE  LET r == Release(s, o)
           IN  /\ r \in OpRep
               /\ r.next = o.next /\ r.dst = o.dst /\ r.src = o.src
               /\ r.moved = o.moved /\ r.new = o.new
               /\ s.rep # "heap" => r.pc = o.next
               /\ s.rep = "heap" /\ mem[s.blk].counted /\ ~s.own => r.pc = "load"
               /\ s.rep = "heap" /\ ~(mem[s.blk].counted /\ ~s.own) => r.pc = "free"
<1> DEFINE pc == CASE s.rep # "heap" -> o.next
                   [] s.rep = "heap" /\ mem[s.blk].counted /\ ~s.own -> "load"
                   [] OTHER -> "free"
<1>1. Release(s, o) = [o EXCEPT !.pc = pc]
  BY DEF Release
<1>2. /\ pc \in Pcs
      /\ s.rep # "heap" => pc = o.next
      /\ s.rep = "heap" /\ mem[s.blk].counted /\ ~s.own => pc = "load"
      /\ s.rep = "heap" /\ ~(mem[s.blk].counted /\ ~s.own) => pc = "free"
  BY DEF OpRep, Pcs
<1> HIDE DEF pc
<1>3. QED
  BY <1>1, <1>2 DEF OpRep

\* An operation that releases the block of an untouched string may start.
LEMMA ReleaseStartable ==
    ASSUME Shape, NEW t \in Threads, NEW o \in OpRep,
           o.dst \in Strings, o.moved # o.dst, o.src # o.dst, o.next \in After,
           o.new.rep # "heap", Apart(t, o),
           o.next = "share" => /\ o.src \in Strings /\ str[o.src].rep = "heap"
                               /\ mem[str[o.src].blk].counted /\ ~str[o.src].own,
           o.next = "adopt" => o.moved \in Strings
    PROVE  Startable(t, Release(str[o.dst], o))
<1> DEFINE r == Release(str[o.dst], o)  s == str[o.dst]
<1>1. /\ r \in OpRep
      /\ r.next = o.next /\ r.dst = o.dst /\ r.src = o.src
      /\ r.moved = o.moved /\ r.new = o.new
      /\ s.rep # "heap" => r.pc = o.next
      /\ s.rep = "heap" /\ mem[s.blk].counted /\ ~s.own => r.pc = "load"
      /\ s.rep = "heap" /\ ~(mem[s.blk].counted /\ ~s.own) => r.pc = "free"
  BY ReleaseFields
<1> HIDE DEF r
<1>2. Apart(t, r)
  BY <1>1 DEF Apart
<1>3. r.pc \in {"load", "free"} \cup After
  BY <1>1
<1>4. OpFine(r)
  BY <1>1, <1>3 DEF OpFine, Releasing, After
<1>5. QED
  BY <1>1, <1>2, <1>3, <1>4 DEF Startable, After, r

(***************************************************************************)
(* One block, before and after a step.                                     *)
(***************************************************************************)

\* The sole holder of a block: not freed yet, and ownerized, without a
\* count, or with a count of one (the three ways is_owner answers yes).
LEMMA Alone ==
    ASSUME NEW m, NEW H, NEW S, BlockOK(m, H, {}, S), IsFiniteSet(H), NEW h \in H,
           h \in S \/ ~m.counted \/ m.rc = 1
    PROVE  H = {h}
<1>1. CASE h \in S
  BY <1>1 DEF BlockOK
<1>2. CASE h \notin S
  <2>1. Cardinality(H) = 1
    BY <1>2 DEF BlockOK
  <2>2. PICK x : H = {x}
    BY <2>1, FS_Singleton
  <2>3. QED
    BY <2>2
<1>3. QED
  BY <1>1, <1>2

\* A block with one holder, which may be ownerized or be freeing it.
LEMMA Single ==
    ASSUME NEW m \in BlockRep, m.live, NEW x, NEW F, NEW S,
           F \subseteq S, S \subseteq {x}, F = {} /\ m.counted => m.rc = 1
    PROVE  BlockOK(m, {x}, F, S)
<1>1. Cardinality({x}) = 1
  BY FS_Singleton
<1>2. QED
  BY <1>1 DEF BlockOK

\* A block nobody holds.
LEMMA Unheld ==
    ASSUME NEW m \in BlockRep, ~m.live
    PROVE  BlockOK(m, {}, {}, {})
BY DEF BlockOK

\* fetch_sub by a holder that was not the last one.
LEMMA Dropped ==
    ASSUME NEW m, NEW H, NEW S, BlockOK(m, H, {}, S), IsFiniteSet(H), NEW h \in H,
           m.counted, m.rc # 1,
           NEW m2 \in BlockRep, m2.live, m2.counted, m2.rc = m.rc - 1
    PROVE  BlockOK(m2, H \ {h}, {}, {}) /\ H \ {h} # {}
<1>1. Cardinality(H) = m.rc /\ m.rc \in Nat
  BY DEF BlockOK, BlockRep
<1>2. Cardinality(H \ {h}) = m.rc - 1
  BY <1>1, FS_RemoveElement
<1>3. H # {h}
  BY <1>1, FS_Singleton
<1>4. QED
  BY <1>2, <1>3 DEF BlockOK

\* fetch_add for one more holder.
LEMMA Gained ==
    ASSUME NEW m, NEW H, BlockOK(m, H, {}, {}), IsFiniteSet(H), H # {}, NEW h, h \notin H,
           m.counted, NEW m2 \in BlockRep, m2.live, m2.counted, m2.rc = m.rc + 1
    PROVE  BlockOK(m2, H \cup {h}, {}, {})
<1>1. Cardinality(H) = m.rc /\ m.rc \in Nat
  BY DEF BlockOK, BlockRep
<1>2. Cardinality(H \cup {h}) = m.rc + 1
  BY <1>1, FS_AddElement
<1>3. QED
  BY <1>2 DEF BlockOK

\* One holder takes over from another.
LEMMA Swapped ==
    ASSUME NEW m, NEW H, NEW S, BlockOK(m, H, {}, S), IsFiniteSet(H), NEW g \in H,
           NEW h, h \notin H, NEW S2, S2 \subseteq (S \ {g}) \cup {h}, h \in S2 => g \in S
    PROVE  BlockOK(m, (H \ {g}) \cup {h}, {}, S2)
<1>1. Cardinality((H \ {g}) \cup {h}) = Cardinality(H)
  <2>1. Cardinality(H \ {g}) = Cardinality(H) - 1 /\ IsFiniteSet(H \ {g})
    BY FS_RemoveElement
  <2>2. Cardinality((H \ {g}) \cup {h}) = Cardinality(H \ {g}) + 1
    BY <2>1, FS_AddElement
  <2>3. Cardinality(H) \in Nat
    BY FS_CardinalityType
  <2>4. QED
    BY <2>1, <2>2, <2>3
<1>2. \A x \in S2 : (H \ {g}) \cup {h} = {x}
  BY DEF BlockOK
<1>3. QED
  BY <1>1, <1>2 DEF BlockOK

(***************************************************************************)
(* The holders of a block, before and after a step of thread t.  W is the  *)
(* set of the strings the step is about.                                   *)
(***************************************************************************)

\* No string is a thread, and a block has finitely many holders.
LEMMA HoldersFinite ==
    ASSUME NEW b \in Blocks
    PROVE  /\ IsFiniteSet(HoldersOf[b]) /\ HoldersOf[b] \subseteq Strings \cup Threads
           /\ FreedOf[b] \subseteq SoleOf[b]
           /\ SoleOf[b] \subseteq HoldersOf[b]
<1>1. HoldersOf[b] \subseteq Strings \cup Threads
  BY DEF HoldersOf, Holders, HoldingStrings, BuildingThreads
<1>2. IsFiniteSet(Strings \cup Threads)
  BY NamesAssumption, FS_Union
<1>3. QED
  BY <1>1, <1>2, FS_Subset DEF HoldersOf, Holders, FreedOf, SoleOf

\* A string only t works on holds the block it points at, until t gives it up.
LEMMA HoldersNow ==
    ASSUME NEW t \in Threads, NEW h \in Strings, NEW b \in Blocks,
           \A u \in Threads \ {t} : op[u].dst # h
    PROVE
    /\ h \in HoldersOf[b] <=> /\ str[h].rep = "heap" /\ str[h].blk = b
                              /\ ~(op[t].dst = h /\ op[t].pc \in After)
    /\ h \in FreedOf[b] <=> h \in HoldersOf[b] /\ op[t].dst = h /\ op[t].pc = "free"
    /\ h \in SoleOf[b] <=>
           h \in HoldersOf[b] /\ (str[h].own \/ (op[t].dst = h /\ op[t].pc = "free"))
<1>1. GivenUp(h) <=> op[t].dst = h /\ op[t].pc \in After
  BY DEF GivenUp, After
<1>2. Freed(h) <=> op[t].dst = h /\ op[t].pc = "free"
  BY DEF Freed
<1>3. h \notin Threads
  BY NamesAssumption
<1>4. QED
  BY <1>1, <1>2, <1>3 DEF HoldersOf, Holders, HoldingStrings, BuildingThreads, FreedOf, SoleOf

\* The same after the step, which leaves the other strings as they are.
LEMMA HoldersNext ==
    ASSUME NEW t \in Threads, NEW W, NEW b \in Blocks, About(t, W)
    PROVE
    /\ \A h \in W :
        /\ h \in HoldersOf'[b] <=> /\ str'[h].rep = "heap" /\ str'[h].blk = b
                                 /\ ~(op'[t].dst = h /\ op'[t].pc \in After)
        /\ h \in FreedOf'[b] <=> h \in HoldersOf'[b] /\ op'[t].dst = h /\ op'[t].pc = "free"
        /\ h \in SoleOf'[b] <=>
               h \in HoldersOf'[b] /\ (str'[h].own \/ (op'[t].dst = h /\ op'[t].pc = "free"))
    /\ t \in HoldersOf'[b] <=> op'[t].new.rep = "heap" /\ op'[t].new.blk = b
    /\ t \in SoleOf'[b] <=> t \in HoldersOf'[b]
    /\ \A x : x \notin W \cup {t} =>
        /\ x \in HoldersOf'[b] <=> x \in HoldersOf[b]
        /\ x \in FreedOf'[b] <=> x \in FreedOf[b]
        /\ x \in SoleOf'[b] <=> x \in SoleOf[b]
<1>1. ASSUME NEW h \in W
      PROVE  /\ GivenUp(h)' <=> op'[t].dst = h /\ op'[t].pc \in After
             /\ Freed(h)' <=> op'[t].dst = h /\ op'[t].pc = "free"
  BY DEF GivenUp, Freed, After, About
<1>2. ASSUME NEW h \in Strings \ W
      PROVE  (GivenUp(h)' <=> GivenUp(h)) /\ (Freed(h)' <=> Freed(h))
  <2>1. op[t].dst # h /\ op'[t].dst # h
    BY NamesAssumption DEF About
  <2>2. QED
    BY <2>1 DEF GivenUp, Freed, About
<1>3. Strings \cap Threads = {}
  BY NamesAssumption
<1>4. \A h \in W :
        /\ h \in HoldersOf'[b] <=> /\ str'[h].rep = "heap" /\ str'[h].blk = b
                                 /\ ~(op'[t].dst = h /\ op'[t].pc \in After)
        /\ h \in FreedOf'[b] <=> h \in HoldersOf'[b] /\ op'[t].dst = h /\ op'[t].pc = "free"
        /\ h \in SoleOf'[b] <=>
               h \in HoldersOf'[b] /\ (str'[h].own \/ (op'[t].dst = h /\ op'[t].pc = "free"))
  BY <1>1, <1>3 DEF About, HoldersOf, Holders, HoldingStrings, BuildingThreads, FreedOf, SoleOf
<1>5. /\ t \in HoldersOf'[b] <=> op'[t].new.rep = "heap" /\ op'[t].new.blk = b
      /\ t \in SoleOf'[b] <=> t \in HoldersOf'[b]
  BY <1>3 DEF HoldersOf, Holders, HoldingStrings, BuildingThreads, SoleOf
<1>6. ASSUME NEW x, x \notin W \cup {t}
      PROVE  /\ x \in HoldersOf'[b] <=> x \in HoldersOf[b]
             /\ x \in FreedOf'[b] <=> x \in FreedOf[b]
             /\ x \in SoleOf'[b] <=> x \in SoleOf[b]
  <2>1. CASE x \in Strings
    BY <1>2, <1>3, <1>6, <2>1 DEF About, HoldersOf, Holders, HoldingStrings, BuildingThreads, FreedOf, SoleOf
  <2>2. CASE x \notin Strings
    BY <1>6, <2>2 DEF About, HoldersOf, Holders, HoldingStrings, BuildingThreads, FreedOf, SoleOf
  <2>3. QED
    BY <2>1, <2>2
<1>7. QED
  BY <1>4, <1>5, <1>6

\* A string nobody is giving up holds the block it points at.
LEMMA Pointing ==
    ASSUME Shape, NEW h \in Strings, str[h].rep = "heap",
           \A u \in Threads : op[u].dst = h => op[u].pc \notin After
    PROVE  str[h].blk \in Blocks /\ h \in HoldersOf[str[h].blk]
BY DEF Shape, HoldersOf, Holders, HoldingStrings, GivenUp, After

\* The three answers of is_owner, on a string no thread is freeing.
LEMMA AloneNow ==
    ASSUME IInv, NEW h \in Strings, str[h].rep = "heap",
           \A u \in Threads : op[u].dst = h => op[u].pc \notin After \cup {"free"},
           str[h].own \/ ~mem[str[h].blk].counted \/ mem[str[h].blk].rc = 1
    PROVE  HoldersOf[str[h].blk] = {h} /\ FreedOf[str[h].blk] = {}
<1> DEFINE b == str[h].blk
<1>1. b \in Blocks /\ h \in HoldersOf[b]
  BY Pointing DEF IInv
<1>2. BlockOK(mem[b], HoldersOf[b], FreedOf[b], SoleOf[b])
  BY <1>1 DEF IInv, BlockInv
<1>3. h \notin FreedOf[b]
  BY <1>1 DEF FreedOf, Freed
<1>4. FreedOf[b] = {}
  BY <1>1, <1>2, <1>3 DEF BlockOK
<1>5. str[h].own => h \in SoleOf[b]
  BY <1>1, NamesAssumption DEF HoldersOf, Holders, BuildingThreads, SoleOf
<1>6. HoldersOf[b] = {h}
  <2> HIDE DEF b
  <2>1. BlockOK(mem[b], HoldersOf[b], {}, SoleOf[b])
    BY <1>2, <1>4
  <2>2. h \in SoleOf[b] \/ ~mem[b].counted \/ mem[b].rc = 1
    BY <1>5 DEF b
  <2>3. QED
    BY <1>1, <2>1, <2>2, HoldersFinite, Alone
<1>7. QED
  BY <1>4, <1>6

\* A step of t about the strings W disturbs no other operation, if no
\* other thread works on W or holds a block that changed.
LEMMA ShapeStep ==
    ASSUME Shape, NEW t \in Threads, NEW n \in OpRep, op' = [op EXCEPT ![t] = n],
           NEW W \in SUBSET Strings,
           \A u \in Threads \ {t} : op[u].dst \notin W /\ op[u].src \notin W,
           \A h \in Strings \ W : str'[h] = str[h],
           str' \in [Strings -> StringRep],
           \A h \in W : str'[h].rep = "heap" => str'[h].blk \in Blocks,
           \A b \in Blocks : mem'[b].counted = mem[b].counted \/ HoldersOf[b] \subseteq W,
           OpFine(n)', Apart(t, n)
    PROVE  Shape'
<1>1. op' \in [Threads -> OpRep] /\ op'[t] = n /\ \A u \in Threads \ {t} : op'[u] = op[u]
  BY DEF Shape
<1>2. \A h \in Strings : str'[h].rep = "heap" => str'[h].blk \in Blocks
  BY DEF Shape
<1>3. ASSUME NEW u \in Threads
      PROVE  Apart(u, op[u])'
  <2>1. CASE u = t
    BY <1>1, <2>1 DEF Apart
  <2>2. CASE u # t
    <3>1. Apart(u, op[u]) /\ op'[u] = op[u]
      BY <1>1, <2>2 DEF Shape
    <3>2. QED
      BY <1>1, <2>2, <3>1 DEF Apart
  <2>3. QED
    BY <2>1, <2>2
<1>4. ASSUME NEW u \in Threads
      PROVE  OpFine(op[u])'
  <2>1. CASE u = t
    <3>1. OpFine(op[u])' <=> OpFine(n)'
      BY <1>1, <2>1 DEF OpFine
    <3>2. QED
      BY <3>1
  <2>2. CASE u # t
    <3> DEFINE d == op[u].dst  s == op[u].src
    <3>1. OpFine(op[u]) /\ op'[u] = op[u] /\ op[u] \in OpRep
      BY <1>1, <2>2 DEF Shape
    <3>2. /\ d \in Strings => str'[d] = str[d]
          /\ s \in Strings => str'[s] = str[s]
      BY <2>2
    <3>3. ASSUME d \in Strings, str[d].rep = "heap", op[u].pc \in {"load", "sub"}
          PROVE  mem'[str[d].blk].counted = mem[str[d].blk].counted
      <4>1. \A v \in Threads : op[v].dst = d => op[v].pc \notin After
        BY <3>3, NamesAssumption DEF Shape, Apart, After
      <4>2. str[d].blk \in Blocks /\ d \in HoldersOf[str[d].blk]
        BY <3>3, <4>1, Pointing
      <4>3. QED
        BY <2>2, <4>2
    <3>4. ASSUME s \in Strings, str[s].rep = "heap", op[u].next = "share"
          PROVE  mem'[str[s].blk].counted = mem[str[s].blk].counted
      <4>1. op[u].dst # s
        BY <3>1, <3>4 DEF OpFine
      <4>2. \A v \in Threads : op[v].dst = s => op[v].pc \notin After
        BY <3>4, <4>1, NamesAssumption DEF Shape, Apart
      <4>3. str[s].blk \in Blocks /\ s \in HoldersOf[str[s].blk]
        BY <3>4, <4>2, Pointing
      <4>4. QED
        BY <2>2, <4>3
    <3>5. QED
      BY <3>1, <3>2, <3>3, <3>4, ZenonT(30) DEF OpFine, Releasing, After
  <2>3. QED
    BY <2>1, <2>2
<1>5. QED
  BY <1>1, <1>2, <1>3, <1>4 DEF Shape

\* A block that keeps its holders, in a step that frees or ownerizes only
\* strings that are alone with it.
LEMMA SameHolders ==
    ASSUME IInv, NEW t \in Threads, NEW W, About(t, W), NEW b \in Blocks,
           \A h \in W : h \notin FreedOf[b], mem'[b] \in BlockRep, mem'[b].live = mem[b].live,
           mem'[b].counted = mem[b].counted, mem'[b].rc = mem[b].rc,
           t \in HoldersOf'[b] <=> t \in HoldersOf[b],
           \A h \in W : h \in HoldersOf'[b] <=> h \in HoldersOf[b],
           \A h \in W : h \in SoleOf'[b] => HoldersOf[b] = {h}
    PROVE  BlockOK(mem'[b], HoldersOf'[b], FreedOf'[b], SoleOf'[b])
<1>1. BlockOK(mem[b], HoldersOf[b], FreedOf[b], SoleOf[b])
  BY DEF IInv, BlockInv
<1>2. /\ t \in SoleOf'[b] <=> t \in HoldersOf'[b]
      /\ \A x : x \notin W \cup {t} =>
            /\ x \in HoldersOf'[b] <=> x \in HoldersOf[b]
            /\ x \in FreedOf'[b] <=> x \in FreedOf[b]
            /\ x \in SoleOf'[b] <=> x \in SoleOf[b]
  BY HoldersNext
<1>3. t \in SoleOf[b] <=> t \in HoldersOf[b]
  BY NamesAssumption DEF HoldersOf, Holders, HoldingStrings, SoleOf, BuildingThreads
<1>4. HoldersOf'[b] = HoldersOf[b]
  <2>1. \A x : x \in HoldersOf'[b] <=> x \in HoldersOf[b]
    BY <1>2
  <2>2. QED
    BY <2>1, HoldersFinite
<1>5. \A x \in SoleOf'[b] : HoldersOf[b] = {x}
  BY <1>1, <1>2, <1>3 DEF BlockOK
<1>6. FreedOf'[b] \subseteq SoleOf'[b]
  BY DEF FreedOf, SoleOf
<1>7. FreedOf[b] \subseteq FreedOf'[b]
  <2>1. ASSUME NEW x \in FreedOf[b]
        PROVE  x \notin W /\ x # t
    BY NamesAssumption DEF FreedOf, HoldingStrings
  <2>2. QED
    BY <1>2, <2>1
<1>8. QED
  BY <1>1, <1>4, <1>5, <1>6, <1>7 DEF BlockOK

\* A step in which no block changes hands: t does n next, and frees or
\* ownerizes only strings that are alone with their block.
Quiet(t, n, W) ==
    /\ W \subseteq Strings /\ {op[t].dst, n.dst} \subseteq W \cup {NoString}
    /\ \A u \in Threads \ {t} : op[u].dst \notin W /\ op[u].src \notin W
    /\ n \in OpRep /\ op' = [op EXCEPT ![t] = n] /\ OpFine(n)' /\ Apart(t, n)
    /\ op[t].pc # "free"
    /\ n.new = op[t].new \/ (n.new.rep # "heap" /\ op[t].new.rep # "heap")
    /\ \A h \in Strings \ W : str'[h] = str[h]
    /\ str' \in [Strings -> StringRep] /\ mem' \in [Blocks -> BlockRep]
    /\ \A b \in Blocks : /\ mem'[b].live = mem[b].live
                         /\ mem'[b].counted = mem[b].counted
                         /\ mem'[b].rc = mem[b].rc
    /\ \A h \in W :
        /\ str'[h].rep = "heap" => str[h].rep = "heap" /\ str'[h].blk = str[h].blk
        /\ str'[h].rep = "heap" /\ ~(n.dst = h /\ n.pc \in After) <=>
               str[h].rep = "heap" /\ ~(op[t].dst = h /\ op[t].pc \in After)
        /\ str'[h].rep = "heap" /\ ~(n.dst = h /\ n.pc \in After)
           /\ (str'[h].own \/ (n.dst = h /\ n.pc = "free")) =>
               HoldersOf[str[h].blk] = {h}

\* A quiet step, which changes no block's holders, preserves the invariant.
LEMMA QuietStep ==
    ASSUME IInv, NEW t \in Threads, NEW n, NEW W, Quiet(t, n, W)
    PROVE  IInv'
<1>1. op'[t] = n /\ \A u \in Threads \ {t} : op'[u] = op[u]
  BY DEF IInv, Shape, Quiet
<1>2. Shape'
  <2>1. \A h \in W : str'[h].rep = "heap" => str'[h].blk \in Blocks
    BY DEF IInv, Shape, Quiet
  <2>2. QED
    BY <2>1, ShapeStep DEF IInv, Quiet
<1>3. About(t, W)
  BY <1>1 DEF About, Quiet
<1>4. ASSUME NEW b \in Blocks
      PROVE  BlockOK(mem'[b], HoldersOf'[b], FreedOf'[b], SoleOf'[b])
  <2>1. ASSUME NEW h \in W
        PROVE  /\ h \notin FreedOf[b]
               /\ h \in HoldersOf[b] <=> /\ str[h].rep = "heap" /\ str[h].blk = b
                                         /\ ~(op[t].dst = h /\ op[t].pc \in After)
    BY HoldersNow DEF Quiet
  <2>2. /\ t \in HoldersOf'[b] <=> n.new.rep = "heap" /\ n.new.blk = b
        /\ \A h \in W :
            /\ h \in HoldersOf'[b] <=> /\ str'[h].rep = "heap" /\ str'[h].blk = b
                                       /\ ~(n.dst = h /\ n.pc \in After)
            /\ h \in SoleOf'[b] <=>
                   h \in HoldersOf'[b] /\ (str'[h].own \/ (n.dst = h /\ n.pc = "free"))
    BY <1>1, <1>3, HoldersNext
  <2>3. t \in HoldersOf'[b] <=> t \in HoldersOf[b]
    BY <2>2, NamesAssumption DEF Quiet, HoldersOf, Holders, HoldingStrings, BuildingThreads
  <2>4. ASSUME NEW h \in W
        PROVE  /\ h \in HoldersOf'[b] <=> h \in HoldersOf[b]
               /\ h \in SoleOf'[b] => HoldersOf[b] = {h}
    <3>1. str'[h].rep = "heap" /\ ~(n.dst = h /\ n.pc \in After) <=>
              str[h].rep = "heap" /\ ~(op[t].dst = h /\ op[t].pc \in After)
      BY DEF Quiet
    <3>2. str'[h].rep = "heap" => str'[h].blk = str[h].blk
      BY DEF Quiet
    <3>3. h \in SoleOf'[b] => HoldersOf[b] = {h}
      <4> HAVE h \in SoleOf'[b]
      <4>1. /\ str'[h].rep = "heap" /\ str'[h].blk = b
            /\ ~(n.dst = h /\ n.pc \in After)
            /\ str'[h].own \/ (n.dst = h /\ n.pc = "free")
        BY <2>2
      <4>2. QED
        BY <3>2, <4>1 DEF Quiet
    <3>4. QED
      BY <2>1, <2>2, <3>1, <3>2, <3>3
  <2>5. QED
    BY <1>3, <2>1, <2>3, <2>4, SameHolders DEF Quiet
<1>5. QED
  BY <1>2, <1>4 DEF IInv, BlockInv, Quiet


(***************************************************************************)
(* Beginning an operation, and going on to the moved-from string.          *)
(***************************************************************************)

\* The operation of a thread that is doing nothing.
LEMMA IdleOpFields ==
    /\ IdleOp \in OpRep /\ IdleOp.pc = "idle" /\ IdleOp.next = "idle"
    /\ IdleOp.dst = NoString /\ IdleOp.src = NoString /\ IdleOp.moved = NoString
    /\ IdleOp.new = EmptyString
BY EmptyStringRep DEF IdleOp, OpRep, Pcs

\* A thread may always stay idle.
LEMMA IdleStartable ==
    ASSUME NEW t \in Threads
    PROVE  Startable(t, IdleOp)
<1> HIDE DEF IdleOp
<1>1. OpFine(IdleOp)
  BY IdleOpFields, EmptyStringRep DEF OpFine, Releasing, After
<1>2. Apart(t, IdleOp)
  BY IdleOpFields DEF Apart
<1>3. QED
  BY <1>1, <1>2, IdleOpFields, EmptyStringRep DEF Startable, After

\* Resetting the moved-from string may follow any operation.
LEMMA FinishedStartable ==
    ASSUME Shape, NEW t \in Threads
    PROVE  /\ Startable(t, Finished(t))
           /\ Finished(t).dst = op[t].moved /\ Finished(t).src = NoString
<1>1. op[t] \in OpRep /\ Apart(t, op[t])
  BY DEF Shape
<1>2. CASE op[t].moved = NoString
  <2>1. Finished(t) = IdleOp
    BY <1>2 DEF Finished
  <2>2. QED
    BY <1>2, <2>1, IdleStartable, IdleOpFields
<1>3. CASE op[t].moved # NoString
  <2> DEFINE g == op[t].moved  o == Operation("store", g, EmptyString)
  <2>1. g \in Strings
    BY <1>1, <1>3 DEF OpRep
  <2>2. /\ o \in OpRep
        /\ o.pc = "idle" /\ o.next = "store" /\ o.dst = g /\ o.new = EmptyString
        /\ o.src = NoString /\ o.moved = NoString
    BY <2>1, OperationFields, EmptyStringRep DEF Pcs
  <2>3. Finished(t) = Release(str[g], o)
    BY <1>3 DEF Finished
  <2> HIDE DEF o
  <2>4. Apart(t, o)
    BY <1>1, <1>3, <2>2 DEF Apart
  <2>5. Startable(t, Release(str[o.dst], o))
    BY <2>1, <2>2, <2>4, ReleaseStartable, EmptyStringRep, NamesAssumption DEF After
  <2>6. Release(str[g], o).dst = o.dst /\ Release(str[g], o).src = o.src
    BY <2>2, ReleaseFields
  <2>7. QED
    BY <2>2, <2>3, <2>5, <2>6
<1>4. QED
  BY <1>2, <1>3

\* An operation stays as it is while its strings and the counts stay.
LEMMA FineKept ==
    ASSUME Shape, NEW n, OpFine(n),
           \A h \in Strings \cap {n.dst, n.src} : str'[h] = str[h],
           \A b \in Blocks : mem'[b].counted = mem[b].counted
    PROVE  OpFine(n)'
<1>1. n.dst \in Strings /\ str[n.dst].rep = "heap" =>
          mem'[str[n.dst].blk].counted = mem[str[n.dst].blk].counted
  BY DEF Shape
<1>2. n.src \in Strings /\ str[n.src].rep = "heap" =>
          mem'[str[n.src].blk].counted = mem[str[n.src].blk].counted
  BY DEF Shape
<1>3. QED
  BY <1>1, <1>2 DEF OpFine, Releasing, After

\* A thread begins an operation, or has read a text.
LEMMA BeginStep ==
    ASSUME IInv, NEW t \in Threads, op[t].pc \in {"idle", "read"},
           NEW n, Startable(t, n), Begin(t, n)
    PROVE  IInv'
<1> DEFINE W == {n.dst} \cap Strings
<1>1. /\ op' = [op EXCEPT ![t] = n] /\ str' = str /\ mem' = mem
  BY DEF Begin
<1>2. /\ op[t].pc \in {"idle", "read"} /\ op[t].dst = NoString /\ op[t].new.rep # "heap"
  BY DEF IInv, Shape, OpFine
<1>3. /\ n \in OpRep /\ OpFine(n) /\ Apart(t, n) /\ n.new.rep # "heap"
      /\ n.pc \in After => str[n.dst].rep # "heap"
      /\ n.pc = "free" => str[n.dst].own \/ ~mem[str[n.dst].blk].counted
  BY DEF Startable
<1>4. n.dst \in Strings \cup {NoString}
  BY <1>3 DEF OpRep
<1>5. \A u \in Threads \ {t} : op[u].dst \notin W /\ op[u].src \notin W
  BY <1>3, NamesAssumption DEF Apart
<1>6. /\ str' \in [Strings -> StringRep] /\ mem' \in [Blocks -> BlockRep]
  BY <1>1 DEF IInv, Shape
<1>7. OpFine(n)'
  BY <1>1, <1>3, FineKept DEF IInv
<1>8. ASSUME NEW h \in W, str[h].rep = "heap", str[h].own \/ n.pc = "free"
      PROVE  HoldersOf[str[h].blk] = {h}
  <2>1. \A u \in Threads : op[u].dst # h
    BY <1>2, <1>5, NamesAssumption
  <2>2. QED
    BY <1>3, <1>8, <2>1, AloneNow
<1>9. QED
  <2> HIDE DEF W
  <2>1. W \in SUBSET Strings /\ n.dst \in W \cup {NoString} /\ \A h \in W : h = n.dst
    BY <1>4 DEF W
  <2>2. \A h \in W :
             /\ str'[h].rep = "heap" => str[h].rep = "heap" /\ str'[h].blk = str[h].blk
             /\ str'[h].rep = "heap" /\ ~(n.dst = h /\ n.pc \in After) <=>
                    str[h].rep = "heap" /\ ~(op[t].dst = h /\ op[t].pc \in After)
             /\ str'[h].rep = "heap" /\ ~(n.dst = h /\ n.pc \in After)
                /\ (str'[h].own \/ (n.dst = h /\ n.pc = "free")) =>
                    HoldersOf[str[h].blk] = {h}
    BY <1>1, <1>2, <1>3, <1>8, <2>1 DEF After
  <2>3. Quiet(t, n, W)
    BY <1>1, <1>2, <1>3, <1>5, <1>6, <1>7, <2>1, <2>2 DEF Quiet
  <2>4. QED
    BY <2>3, QuietStep

\* A thread is done with its string, which holds what it held before.
LEMMA FinishStep ==
    ASSUME IInv, NEW t \in Threads, op[t].pc \in {"store", "write"},
           op[t].new.rep # "heap",
           op' = [op EXCEPT ![t] = Finished(t)],
           NEW x \in StringRep, str' = [str EXCEPT ![op[t].dst] = x],
           op[t].pc = "store" => x.rep # "heap",
           op[t].pc = "write" => x = str[op[t].dst],
           mem' \in [Blocks -> BlockRep],
           \A b \in Blocks : /\ mem'[b].live = mem[b].live
                             /\ mem'[b].counted = mem[b].counted
                             /\ mem'[b].rc = mem[b].rc
    PROVE  IInv'
<1> SUFFICES ASSUME NEW n, n = Finished(t)
             PROVE  IInv'
  OBVIOUS
<1> DEFINE h == op[t].dst  W == {h} \cup ({op[t].moved} \cap Strings)
<1>1. /\ op[t] \in OpRep /\ OpFine(op[t]) /\ Apart(t, op[t])
      /\ str \in [Strings -> StringRep]
  BY DEF IInv, Shape
<1>2. h \in Strings /\ op[t].moved # h /\ op[t].moved \in Strings \cup {NoString}
  BY <1>1 DEF OpFine, OpRep
<1>3. Startable(t, n) /\ n.dst = op[t].moved /\ n.src = NoString
  BY FinishedStartable DEF IInv
<1> HIDE DEF h
<1>4. /\ n \in OpRep /\ OpFine(n) /\ Apart(t, n) /\ n.new.rep # "heap"
      /\ n.pc \in After => str[n.dst].rep # "heap"
      /\ n.pc = "free" => str[n.dst].own \/ ~mem[str[n.dst].blk].counted
  BY <1>3 DEF Startable
<1>5. \A u \in Threads \ {t} : op[u].dst \notin W /\ op[u].src \notin W
  BY <1>1, <1>2, NamesAssumption DEF Apart, h
<1>6. /\ str' \in [Strings -> StringRep] /\ str'[h] = x
      /\ \A g \in Strings \ {h} : str'[g] = str[g]
  BY <1>1, <1>2 DEF h
<1>7. OpFine(n)'
  <2>1. h \notin {n.dst, n.src}
    BY <1>2, <1>3, NamesAssumption
  <2>2. \A g \in Strings \cap {n.dst, n.src} : str'[g] = str[g]
    BY <1>6, <2>1
  <2>3. Shape /\ \A b \in Blocks : mem'[b].counted = mem[b].counted
    BY DEF IInv
  <2>4. QED
    BY <1>4, <2>2, <2>3, FineKept
<1>8. \A g \in W : \A u \in Threads : op[u].dst = g => u = t /\ g = h
  BY <1>2, <1>5 DEF h
<1>9. \A g \in W \ {h} : /\ g = n.dst /\ str'[g] = str[g] /\ op[t].dst # g
  BY <1>2, <1>3, <1>6 DEF h
<1>10. n.dst # h /\ h \in Strings
  BY <1>2, <1>3
<1>11. ASSUME NEW g \in W, str'[g].rep = "heap", str'[g].own \/ (n.dst = g /\ n.pc = "free")
       PROVE  HoldersOf[str[g].blk] = {g}
  <2>1. op[t].pc = "write" \/ g # h
    BY <1>6, <1>11
  <2>2. str'[g] = str[g] /\ g \in Strings
    BY <1>6, <1>9, <1>10, <2>1 DEF h
  <2>3. \A u \in Threads : op[u].dst = g => op[u].pc \notin After \cup {"free"}
    BY <1>8, <2>1 DEF After
  <2>4. QED
    BY <1>4, <1>11, <2>2, <2>3, AloneNow
<1>12. QED
  <2> HIDE DEF W
  <2>1. /\ W \in SUBSET Strings /\ n.dst \in W \cup {NoString} /\ h \in W
        /\ op[t].dst \in W \cup {NoString}
    BY <1>2, <1>3 DEF W, h
  <2>2. ASSUME NEW g \in W
        PROVE
             /\ str'[g].rep = "heap" => str[g].rep = "heap" /\ str'[g].blk = str[g].blk
             /\ str'[g].rep = "heap" /\ ~(n.dst = g /\ n.pc \in After) <=>
                    str[g].rep = "heap" /\ ~(op[t].dst = g /\ op[t].pc \in After)
             /\ str'[g].rep = "heap" /\ ~(n.dst = g /\ n.pc \in After)
                /\ (str'[g].own \/ (n.dst = g /\ n.pc = "free")) =>
                    HoldersOf[str[g].blk] = {g}
    <3>1. CASE g = h
      BY <1>6, <1>10, <1>11, <3>1 DEF After, h
    <3>2. CASE g # h
      BY <1>4, <1>9, <1>11, <3>2
    <3>3. QED
      BY <3>1, <3>2
  <2>3. op' = [op EXCEPT ![t] = n] /\ op[t].pc # "free"
    OBVIOUS
  <2>4. \A g \in Strings \ W : str'[g] = str[g]
    BY <1>6, <2>1
  <2>5. Quiet(t, n, W)
    BY <1>4, <1>5, <1>6, <1>7, <2>1, <2>2, <2>3, <2>4 DEF Quiet
  <2>6. QED
    BY <2>5, QuietStep

\* deinit_heap_and_ask loads the count.
LEMMA LoadCountStep ==
    ASSUME IInv, NEW t \in Threads, LoadCount(t)
    PROVE  IInv'
<1> DEFINE h == op[t].dst  b == str[h].blk  W == {h}
<1> SUFFICES ASSUME NEW n,
                    n = [op[t] EXCEPT !.pc = IF mem[b].rc = 1 THEN "free" ELSE "sub"]
             PROVE  IInv'
  OBVIOUS
<1>1. /\ op[t] \in OpRep /\ OpFine(op[t]) /\ Apart(t, op[t]) /\ op[t].pc = "load"
      /\ str \in [Strings -> StringRep]
  BY DEF IInv, Shape, LoadCount
<1>2. /\ h \in Strings /\ str[h].rep = "heap" /\ ~str[h].own /\ mem[b].counted
  BY <1>1 DEF OpFine, Releasing
<1>3. /\ n \in OpRep /\ n.pc = IF mem[b].rc = 1 THEN "free" ELSE "sub"
      /\ n.dst = op[t].dst /\ n.src = op[t].src /\ n.moved = op[t].moved
      /\ n.next = op[t].next /\ n.new = op[t].new
  BY <1>1 DEF OpRep, Pcs
<1>4. op' = [op EXCEPT ![t] = n] /\ str' = str /\ mem' = mem
  BY <1>1 DEF IInv, Shape, LoadCount
<1>5. OpFine(n)
  BY <1>1, <1>2, <1>3, SMTT(20) DEF OpFine, Releasing, After
<1>6. OpFine(n)'
  BY <1>4, <1>5, FineKept DEF IInv
<1>7. Apart(t, n)
  BY <1>1, <1>3 DEF Apart
<1>8. \A u \in Threads \ {t} : op[u].dst \notin W /\ op[u].src \notin W
  BY <1>1, <1>2, NamesAssumption DEF Apart
<1>9. n.pc = "free" => HoldersOf[b] = {h}
  <2>1. \A u \in Threads : op[u].dst = h => op[u].pc \notin After \cup {"free"}
    BY <1>1, <1>8 DEF After
  <2>2. n.pc = "free" => mem[b].rc = 1
    BY <1>3
  <2>3. QED
    BY <1>2, <2>1, <2>2, AloneNow
<1>10. QED
  <2>1. n.pc \notin After /\ op[t].pc \notin After /\ op[t].pc # "free"
    BY <1>1, <1>3 DEF After
  <2>2. str' \in [Strings -> StringRep] /\ mem' \in [Blocks -> BlockRep]
    BY <1>1, <1>4 DEF IInv
  <2>3. Quiet(t, n, W)
    BY <1>1, <1>2, <1>3, <1>4, <1>6, <1>7, <1>8, <1>9, <2>1, <2>2 DEF Quiet
  <2>4. QED
    BY <2>3, QuietStep

(***************************************************************************)
(* Steps that change the holders of a block.                               *)
(***************************************************************************)

\* A step of t about the strings W, after which t does n.
Frame(t, n, W) ==
    /\ W \subseteq Strings /\ {op[t].dst, n.dst} \subseteq W \cup {NoString}
    /\ \A u \in Threads \ {t} : op[u].dst \notin W /\ op[u].src \notin W
    /\ n \in OpRep /\ op' = [op EXCEPT ![t] = n] /\ OpFine(n)' /\ Apart(t, n)
    /\ \A h \in Strings \ W : str'[h] = str[h]
    /\ str' \in [Strings -> StringRep] /\ mem' \in [Blocks -> BlockRep]
    /\ \A h \in W : str'[h].rep = "heap" => str'[h].blk \in Blocks
    /\ \A b \in Blocks : mem'[b].counted = mem[b].counted \/ HoldersOf[b] \subseteq W

\* Block b is none of the step's business.
Unconcerned(t, n, W, b) ==
    /\ mem'[b] = mem[b]
    /\ n.new.rep = "heap" /\ n.new.blk = b <=>
           op[t].new.rep = "heap" /\ op[t].new.blk = b
    /\ \A h \in W :
        /\ op[t].dst = h /\ op[t].pc = "free" => str[h].blk # b
        /\ str'[h].rep = "heap" /\ str'[h].blk = b /\ ~(n.dst = h /\ n.pc \in After) <=>
               str[h].rep = "heap" /\ str[h].blk = b /\ ~(op[t].dst = h /\ op[t].pc \in After)
        /\ str'[h].rep = "heap" /\ str'[h].blk = b /\ ~(n.dst = h /\ n.pc \in After)
           /\ (str'[h].own \/ (n.dst = h /\ n.pc = "free")) =>
               HoldersOf[b] = {h}

\* The invariant holds after a step if it does for every block.
LEMMA FrameStep ==
    ASSUME IInv, NEW t \in Threads, NEW n, NEW W, Frame(t, n, W),
           \A b \in Blocks : BlockOK(mem'[b], HoldersOf'[b], FreedOf'[b], SoleOf'[b])
    PROVE  IInv'
<1>1. Shape'
  BY ShapeStep DEF IInv, Frame
<1>2. QED
  BY <1>1 DEF IInv, BlockInv, Frame

\* A framed step is one about the strings it writes.
LEMMA FrameAbout ==
    ASSUME IInv, NEW t \in Threads, NEW n, NEW W, Frame(t, n, W)
    PROVE  op'[t] = n /\ About(t, W) /\ \A h \in W : \A u \in Threads \ {t} : op[u].dst # h
BY DEF IInv, Shape, Frame, About

\* A block that a framed step does not concern keeps its invariant.
LEMMA UnconcernedBlock ==
    ASSUME IInv, NEW t \in Threads, NEW n, NEW W, Frame(t, n, W),
           NEW b \in Blocks, Unconcerned(t, n, W, b)
    PROVE  BlockOK(mem'[b], HoldersOf'[b], FreedOf'[b], SoleOf'[b])
<1>1. op'[t] = n /\ About(t, W)
  BY FrameAbout
<1>2. ASSUME NEW h \in W
      PROVE  /\ h \in HoldersOf[b] <=> /\ str[h].rep = "heap" /\ str[h].blk = b
                                       /\ ~(op[t].dst = h /\ op[t].pc \in After)
             /\ h \in FreedOf[b] <=> h \in HoldersOf[b] /\ op[t].dst = h /\ op[t].pc = "free"
  BY HoldersNow DEF Frame
<1>3. /\ t \in HoldersOf'[b] <=> n.new.rep = "heap" /\ n.new.blk = b
      /\ \A h \in W :
          /\ h \in HoldersOf'[b] <=> /\ str'[h].rep = "heap" /\ str'[h].blk = b
                                     /\ ~(n.dst = h /\ n.pc \in After)
          /\ h \in SoleOf'[b] <=>
                 h \in HoldersOf'[b] /\ (str'[h].own \/ (n.dst = h /\ n.pc = "free"))
  BY <1>1, HoldersNext
<1>4. t \in HoldersOf'[b] <=> t \in HoldersOf[b]
  BY <1>3, NamesAssumption DEF Unconcerned, HoldersOf, Holders, HoldingStrings, BuildingThreads
<1>5. ASSUME NEW h \in W
      PROVE  /\ h \notin FreedOf[b]
             /\ h \in HoldersOf'[b] <=> h \in HoldersOf[b]
             /\ h \in SoleOf'[b] => HoldersOf[b] = {h}
  <2>1. h \notin FreedOf[b]
    BY <1>2 DEF Unconcerned
  <2>2. h \in HoldersOf'[b] <=> h \in HoldersOf[b]
    BY <1>2, <1>3 DEF Unconcerned
  <2>3. h \in SoleOf'[b] => HoldersOf[b] = {h}
    BY <1>3 DEF Unconcerned
  <2>4. QED
    BY <2>1, <2>2, <2>3
<1>6. mem'[b] = mem[b] /\ mem'[b] \in BlockRep
  BY DEF Frame, Unconcerned
<1>7. QED
  BY <1>1, <1>4, <1>5, <1>6, SameHolders

\* The holders of a block after a step about one string, or none, of a
\* thread that goes on building what it was building.
LEMMA OneString ==
    ASSUME IInv, NEW t \in Threads, NEW n, NEW W, Frame(t, n, W),
           NEW h \in W, \A x \in W : x = h,
           NEW b \in Blocks,
           n.new = op[t].new \/ (n.new.rep # "heap" /\ op[t].new.rep # "heap")
    PROVE
    /\ h \in HoldersOf'[b] <=> /\ str'[h].rep = "heap" /\ str'[h].blk = b
                               /\ ~(n.dst = h /\ n.pc \in After)
    /\ h \in FreedOf'[b] <=> h \in HoldersOf'[b] /\ n.dst = h /\ n.pc = "free"
    /\ h \in SoleOf'[b] <=>
           h \in HoldersOf'[b] /\ (str'[h].own \/ (n.dst = h /\ n.pc = "free"))
    /\ \A x : x # h => /\ x \in HoldersOf'[b] <=> x \in HoldersOf[b]
                       /\ x \in FreedOf'[b] <=> x \in FreedOf[b]
                       /\ x \in SoleOf'[b] <=> x \in SoleOf[b]
<1>1. op'[t] = n /\ About(t, W)
  BY FrameAbout
<1>2. t # h /\ t \notin FreedOf[b] /\ t \notin FreedOf'[b]
  BY <1>1, NamesAssumption DEF About, FreedOf, HoldingStrings
<1>3. /\ h \in HoldersOf'[b] <=> /\ str'[h].rep = "heap" /\ str'[h].blk = b
                                 /\ ~(n.dst = h /\ n.pc \in After)
      /\ h \in FreedOf'[b] <=> h \in HoldersOf'[b] /\ n.dst = h /\ n.pc = "free"
      /\ h \in SoleOf'[b] <=>
             h \in HoldersOf'[b] /\ (str'[h].own \/ (n.dst = h /\ n.pc = "free"))
  BY <1>1, HoldersNext
<1>4. /\ t \in HoldersOf'[b] <=> n.new.rep = "heap" /\ n.new.blk = b
      /\ t \in SoleOf'[b] <=> t \in HoldersOf'[b]
  BY <1>1, HoldersNext
<1>5. /\ t \in HoldersOf[b] <=> op[t].new.rep = "heap" /\ op[t].new.blk = b
      /\ t \in SoleOf[b] <=> t \in HoldersOf[b]
  BY NamesAssumption DEF HoldersOf, Holders, HoldingStrings, BuildingThreads, SoleOf
<1>6. \A x : x \notin {h} \cup {t} =>
        /\ x \in HoldersOf'[b] <=> x \in HoldersOf[b]
        /\ x \in FreedOf'[b] <=> x \in FreedOf[b]
        /\ x \in SoleOf'[b] <=> x \in SoleOf[b]
  BY <1>1, HoldersNext
<1>7. QED
  BY <1>2, <1>3, <1>4, <1>5, <1>6

\* A block whose count is changed.
LEMMA CountChanged ==
    ASSUME NEW b \in Blocks, mem \in [Blocks -> BlockRep], NEW k \in Nat,
           mem' = [mem EXCEPT ![b] = [mem[b] EXCEPT !.rc = k]]
    PROVE  /\ mem' \in [Blocks -> BlockRep] /\ \A c \in Blocks \ {b} : mem'[c] = mem[c]
           /\ mem'[b].live = mem[b].live /\ mem'[b].counted = mem[b].counted
           /\ mem'[b].rc = k /\ mem'[b] \in BlockRep
<1>1. /\ [mem[b] EXCEPT !.rc = k] \in BlockRep
      /\ [mem[b] EXCEPT !.rc = k].live = mem[b].live
      /\ [mem[b] EXCEPT !.rc = k].counted = mem[b].counted
      /\ [mem[b] EXCEPT !.rc = k].rc = k
  <2>1. mem[b] \in BlockRep
    OBVIOUS
  <2>2. QED
    BY <2>1 DEF BlockRep
<1>2. mem'[b] = [mem[b] EXCEPT !.rc = k] /\ \A c \in Blocks \ {b} : mem'[c] = mem[c]
  OBVIOUS
<1>3. mem' \in [Blocks -> BlockRep]
  BY <1>1
<1>4. QED
  BY <1>1, <1>2, <1>3

\* A block with a holder that is not being freed is not being freed.
LEMMA NotFreed ==
    ASSUME IInv, NEW b \in Blocks, NEW h \in HoldersOf[b], h \notin FreedOf[b]
    PROVE  /\ FreedOf[b] = {} /\ mem[b].live /\ mem[b] \in BlockRep
           /\ BlockOK(mem[b], HoldersOf[b], {}, SoleOf[b])
           /\ IsFiniteSet(HoldersOf[b])
           /\ mem[b].counted => mem[b].rc \in Nat \ {0}
           /\ mem[b].counted /\ mem[b].rc # 1 => SoleOf[b] = {}
<1>1. BlockOK(mem[b], HoldersOf[b], FreedOf[b], SoleOf[b])
  BY DEF IInv, BlockInv
<1>2. FreedOf[b] = {}
  BY <1>1 DEF BlockOK
<1>3. IsFiniteSet(HoldersOf[b])
  BY HoldersFinite
<1>4. mem[b].live /\ mem[b] \in BlockRep
  BY <1>1 DEF BlockOK
<1>5. mem[b].counted => Cardinality(HoldersOf[b]) = mem[b].rc
  BY <1>1, <1>2, <1>4 DEF BlockOK
<1>6. mem[b].counted => mem[b].rc \in Nat \ {0}
  BY <1>3, <1>5, FS_CardinalityType, FS_EmptySet
<1>7. ASSUME NEW x \in SoleOf[b]
      PROVE  Cardinality(HoldersOf[b]) = 1
  <2>1. HoldersOf[b] = {x}
    BY <1>1 DEF BlockOK
  <2>2. QED
    BY <2>1, FS_Singleton
<1>8. QED
  BY <1>1, <1>2, <1>3, <1>4, <1>5, <1>6, <1>7

\* fetch_sub: the thread that took the last count goes on to free the block.
LEMMA FetchSubStep ==
    ASSUME IInv, NEW t \in Threads, FetchSub(t)
    PROVE  IInv'
<1>0. SUFFICES ASSUME NEW h, h = op[t].dst, NEW W, W = {h}, NEW b, b = str[h].blk
               PROVE  IInv'
  OBVIOUS
<1>n. SUFFICES ASSUME NEW n,
                      n = [op[t] EXCEPT !.pc = IF mem[b].rc = 1 THEN "free" ELSE op[t].next]
               PROVE  IInv'
  OBVIOUS
<1>1. /\ op[t] \in OpRep /\ OpFine(op[t]) /\ Apart(t, op[t]) /\ op[t].pc = "sub"
      /\ str \in [Strings -> StringRep] /\ mem \in [Blocks -> BlockRep]
  BY <1>0 DEF IInv, Shape, FetchSub
<1>2. /\ h \in Strings /\ str[h].rep = "heap" /\ ~str[h].own /\ mem[b].counted
      /\ op[t].next \in After /\ op[t].src # h /\ op[t].moved # h
  BY <1>0, <1>1 DEF OpFine, Releasing
<1>3. /\ n \in OpRep
      /\ n.pc = IF mem[b].rc = 1 THEN "free" ELSE op[t].next
      /\ n.dst = h /\ n.src = op[t].src /\ n.moved = op[t].moved
      /\ n.next = op[t].next /\ n.new = op[t].new
  BY <1>0, <1>n, <1>1 DEF OpRep, Pcs
<1>4. /\ op' = [op EXCEPT ![t] = n] /\ str' = str
      /\ mem' = [mem EXCEPT ![b].rc = @ - 1]
  BY <1>0, <1>n DEF FetchSub
<1>5. \A u \in Threads \ {t} : op[u].dst \notin {h} /\ op[u].src \notin {h}
  BY <1>0, <1>1, <1>2, NamesAssumption DEF Apart
<1>6. b \in Blocks /\ h \in HoldersOf[b] /\ h \notin FreedOf[b]
  <2>1. b \in Blocks /\ h \in HoldersOf[b]
    BY <1>0, <1>1, <1>2, <1>5, Pointing DEF IInv, After
  <2>2. QED
    BY <1>0, <1>1, <1>2, <1>5, <2>1, HoldersNow
<1>7. /\ FreedOf[b] = {} /\ mem[b].live /\ mem[b] \in BlockRep
      /\ BlockOK(mem[b], HoldersOf[b], {}, SoleOf[b])
      /\ IsFiniteSet(HoldersOf[b]) /\ mem[b].rc \in Nat \ {0}
      /\ mem[b].rc # 1 => SoleOf[b] = {}
  BY <1>2, <1>6, NotFreed
<1>8. /\ mem' \in [Blocks -> BlockRep] /\ \A c \in Blocks \ {b} : mem'[c] = mem[c]
      /\ mem'[b].live = mem[b].live /\ mem'[b].counted = mem[b].counted
      /\ mem'[b].rc = mem[b].rc - 1
      /\ mem'[b] \in BlockRep
  <2>1. mem[b].rc - 1 \in Nat
    BY <1>2, <1>7
  <2>2. mem' = [mem EXCEPT ![b] = [mem[b] EXCEPT !.rc = mem[b].rc - 1]]
    BY <1>4
  <2>3. QED
    BY <1>1, <1>2, <1>6, <1>7, <2>1, <2>2, CountChanged
<1>9. Frame(t, n, W)
  <2>1. OpFine(n)
    BY <1>1, <1>2, <1>3 DEF OpFine, Releasing, After
  <2>2. OpFine(n)'
    BY <1>2, <1>4, <1>8, <2>1, FineKept DEF IInv
  <2>3. Apart(t, n)
    BY <1>0, <1>1, <1>3 DEF Apart
  <2>4. /\ {op[t].dst, n.dst} \subseteq {h} /\ \A g \in Strings : str'[g] = str[g]
        /\ str' \in [Strings -> StringRep] /\ str'[h].blk \in Blocks
    BY <1>0, <1>1, <1>3, <1>4, <1>6
  <2>5. \A c \in Blocks : mem'[c].counted = mem[c].counted
    BY <1>8
  <2>6. QED
    BY <1>0, <1>2, <1>3, <1>4, <1>5, <1>8, <2>2, <2>3, <2>4, <2>5 DEF Frame
<1>10. ASSUME NEW c \in Blocks \ {b}
       PROVE  BlockOK(mem'[c], HoldersOf'[c], FreedOf'[c], SoleOf'[c])
  <2>1. Unconcerned(t, n, W, c)
    BY <1>0, <1>3, <1>4, <1>8 DEF Unconcerned
  <2>2. QED
    BY <1>9, <2>1, UnconcernedBlock
<1>11. BlockOK(mem'[b], HoldersOf'[b], FreedOf'[b], SoleOf'[b])
  <2>0. /\ h \in W /\ \A x \in W : x = h
        /\ n.new = op[t].new \/ (n.new.rep # "heap" /\ op[t].new.rep # "heap")
    BY <1>0, <1>3
  <2>1. /\ h \in HoldersOf'[b] <=> mem[b].rc = 1
        /\ h \in FreedOf'[b] <=> mem[b].rc = 1
        /\ h \in SoleOf'[b] <=> mem[b].rc = 1
    <3>1. /\ h \in HoldersOf'[b] <=> /\ str'[h].rep = "heap" /\ str'[h].blk = b
                                     /\ ~(n.dst = h /\ n.pc \in After)
          /\ h \in FreedOf'[b] <=> h \in HoldersOf'[b] /\ n.dst = h /\ n.pc = "free"
          /\ h \in SoleOf'[b] <=>
                 h \in HoldersOf'[b] /\ (str'[h].own \/ (n.dst = h /\ n.pc = "free"))
      BY <1>6, <1>9, <2>0, OneString
    <3>2. n.dst = h /\ str'[h].rep = "heap" /\ str'[h].blk = b /\ ~str'[h].own
      <4>1. str[h].rep = "heap" /\ str[h].blk = b /\ ~str[h].own
        BY <1>0, <1>2
      <4>2. str' = str
        BY <1>4
      <4>3. n.dst = h
        BY <1>3
      <4>4. QED
        BY <4>1, <4>2, <4>3
    <3>3. (n.pc = "free" <=> mem[b].rc = 1) /\ (n.pc \in After <=> mem[b].rc # 1)
      BY <1>2, <1>3 DEF After
    <3>4. QED
      BY <3>1, <3>2, <3>3
  <2>2. \A x : x # h => /\ x \in HoldersOf'[b] <=> x \in HoldersOf[b]
                        /\ x \in FreedOf'[b] <=> x \in FreedOf[b]
                        /\ x \in SoleOf'[b] <=> x \in SoleOf[b]
    BY <2>0, <1>6, <1>9, OneString
  <2>6. CASE mem[b].rc = 1
    <3>1. HoldersOf[b] = {h}
      BY <1>6, <1>7, <2>6, Alone
    <3>2. SoleOf[b] \subseteq {h}
      BY <1>6, <3>1, HoldersFinite
    <3>3. HoldersOf'[b] = {h} /\ FreedOf'[b] = {h} /\ SoleOf'[b] = {h}
      BY <1>7, <2>1, <2>2, <2>6, <3>1, <3>2
    <3>4. BlockOK(mem'[b], {h}, {h}, {h})
      BY <1>7, <1>8, Single
    <3>5. QED
      BY <3>3, <3>4
  <2>7. CASE mem[b].rc # 1
    <3>1. HoldersOf'[b] = HoldersOf[b] \ {h} /\ FreedOf'[b] = {} /\ SoleOf'[b] = {}
      BY <1>7, <2>1, <2>2, <2>7
    <3>2. mem'[b].live /\ mem'[b].counted
      BY <1>2, <1>7, <1>8
    <3>3. BlockOK(mem'[b], HoldersOf[b] \ {h}, {}, {})
      BY <1>2, <1>6, <1>7, <1>8, <2>7, <3>2, Dropped
    <3>4. QED
      BY <3>1, <3>3
  <2>8. QED
    BY <2>6, <2>7
<1>12. QED
  BY <1>9, <1>10, <1>11, FrameStep

\* free_p: the block goes back, with nobody left at it.
LEMMA DeallocateStep ==
    ASSUME IInv, NEW t \in Threads, Deallocate(t)
    PROVE  IInv'
<1>0. SUFFICES ASSUME NEW h, h = op[t].dst, NEW W, W = {h}, NEW b, b = str[h].blk
               PROVE  IInv'
  OBVIOUS
<1>n. SUFFICES ASSUME NEW n, n = [op[t] EXCEPT !.pc = op[t].next]
               PROVE  IInv'
  OBVIOUS
<1>1. /\ op[t] \in OpRep /\ OpFine(op[t]) /\ Apart(t, op[t]) /\ op[t].pc = "free"
      /\ str \in [Strings -> StringRep] /\ mem \in [Blocks -> BlockRep]
  BY <1>0 DEF IInv, Shape, Deallocate
<1>2. /\ h \in Strings /\ str[h].rep = "heap"
      /\ op[t].next \in After /\ op[t].src # h /\ op[t].moved # h
  BY <1>0, <1>1 DEF OpFine, Releasing
<1>3. /\ n \in OpRep /\ n.pc = op[t].next
      /\ n.dst = h /\ n.src = op[t].src /\ n.moved = op[t].moved
      /\ n.next = op[t].next /\ n.new = op[t].new
  BY <1>0, <1>n, <1>1 DEF OpRep, Pcs
<1>4. /\ op' = [op EXCEPT ![t] = n] /\ str' = str
      /\ mem' = [mem EXCEPT ![b] = FreeBlock]
  BY <1>0, <1>n DEF Deallocate
<1>5. \A u \in Threads \ {t} : op[u].dst \notin {h} /\ op[u].src \notin {h}
  BY <1>0, <1>1, <1>2, NamesAssumption DEF Apart
<1>6. b \in Blocks /\ HoldersOf[b] = {h} /\ FreedOf[b] = {h} /\ SoleOf[b] = {h}
  <2>1. b \in Blocks /\ h \in HoldersOf[b]
    BY <1>0, <1>1, <1>2, <1>5, Pointing DEF IInv, After
  <2>2. h \in FreedOf[b]
    BY <1>0, <1>1, <1>2, <1>5, <2>1, HoldersNow
  <2>3. BlockOK(mem[b], HoldersOf[b], FreedOf[b], SoleOf[b])
    BY <2>1 DEF IInv, BlockInv
  <2>4. HoldersOf[b] = {h}
    BY <2>2, <2>3 DEF BlockOK
  <2>5. SoleOf[b] \subseteq HoldersOf[b] /\ FreedOf[b] \subseteq SoleOf[b]
    BY <2>1, HoldersFinite
  <2>6. QED
    BY <2>1, <2>2, <2>4, <2>5
<1>7. /\ mem' \in [Blocks -> BlockRep] /\ \A c \in Blocks \ {b} : mem'[c] = mem[c]
      /\ mem'[b] \in BlockRep /\ ~mem'[b].live
  <2>1. FreeBlock \in BlockRep /\ ~FreeBlock.live
    BY TextsAssumption DEF FreeBlock, BlockRep, Texts
  <2> HIDE DEF FreeBlock
  <2>2. QED
    BY <1>1, <1>4, <1>6, <2>1
<1>8. Frame(t, n, W)
  <2>1. ASSUME n.next = "share"
        PROVE  /\ op[t].src \in Strings /\ str[op[t].src].rep = "heap"
               /\ mem[str[op[t].src].blk].counted /\ ~str[op[t].src].own
               /\ mem'[str[op[t].src].blk] = mem[str[op[t].src].blk]
    <3>1. /\ op[t].src \in Strings /\ str[op[t].src].rep = "heap"
          /\ mem[str[op[t].src].blk].counted /\ ~str[op[t].src].own
      BY <1>1, <1>3, <2>1 DEF OpFine
    <3>2. \A u \in Threads : op[u].dst # op[t].src
      BY <1>0, <1>1, <1>2, <3>1, NamesAssumption DEF Apart
    <3>3. op[t].src \in HoldersOf[str[op[t].src].blk] /\ str[op[t].src].blk \in Blocks
      BY <3>1, <3>2, Pointing DEF IInv
    <3>4. str[op[t].src].blk # b
      BY <1>2, <1>6, <3>3
    <3>5. QED
      BY <1>7, <3>1, <3>3, <3>4
  <2>2. OpFine(n)'
    BY <1>1, <1>2, <1>3, <1>4, <2>1 DEF OpFine, Releasing, After
  <2>3. Apart(t, n)
    BY <1>0, <1>1, <1>3 DEF Apart
  <2>4. /\ {op[t].dst, n.dst} \subseteq {h} /\ \A g \in Strings : str'[g] = str[g]
        /\ str' \in [Strings -> StringRep] /\ str'[h].blk \in Blocks
    BY <1>0, <1>1, <1>3, <1>4, <1>6
  <2>5. \A c \in Blocks : mem'[c].counted = mem[c].counted \/ HoldersOf[c] \subseteq W
    BY <1>0, <1>6, <1>7
  <2>6. QED
    BY <1>0, <1>2, <1>3, <1>4, <1>5, <1>7, <2>2, <2>3, <2>4, <2>5 DEF Frame
<1>9. ASSUME NEW c \in Blocks \ {b}
      PROVE  BlockOK(mem'[c], HoldersOf'[c], FreedOf'[c], SoleOf'[c])
  <2>1. Unconcerned(t, n, W, c)
    BY <1>0, <1>3, <1>4, <1>7 DEF Unconcerned
  <2>2. QED
    BY <1>8, <2>1, UnconcernedBlock
<1>10. BlockOK(mem'[b], HoldersOf'[b], FreedOf'[b], SoleOf'[b])
  <2>0. /\ h \in W /\ \A x \in W : x = h
        /\ n.new = op[t].new \/ (n.new.rep # "heap" /\ op[t].new.rep # "heap")
    BY <1>0, <1>3
  <2>1. h \notin HoldersOf'[b] /\ h \notin FreedOf'[b] /\ h \notin SoleOf'[b]
    BY <1>2, <1>3, <1>6, <1>8, <2>0, OneString
  <2>2. \A x : x # h => /\ x \in HoldersOf'[b] <=> x \in HoldersOf[b]
                        /\ x \in FreedOf'[b] <=> x \in FreedOf[b]
                        /\ x \in SoleOf'[b] <=> x \in SoleOf[b]
    BY <1>6, <1>8, <2>0, OneString
  <2>3. HoldersOf'[b] = {} /\ FreedOf'[b] = {} /\ SoleOf'[b] = {}
    BY <1>6, <2>1, <2>2
  <2>4. QED
    BY <1>7, <2>3, Unheld
<1>11. QED
  BY <1>8, <1>9, <1>10, FrameStep

\* share_init_impl_: one more holder of a counted block.
LEMMA ShareStep ==
    ASSUME IInv, NEW t \in Threads, Share(t)
    PROVE  IInv'
<1>0. SUFFICES ASSUME NEW h, h = op[t].dst, NEW g, g = op[t].src, NEW W, W = {h},
                      NEW b, b = str[g].blk, NEW n, n = IdleOp
               PROVE  IInv'
  OBVIOUS
<1>1. /\ op[t] \in OpRep /\ OpFine(op[t]) /\ Apart(t, op[t]) /\ op[t].pc = "share"
      /\ str \in [Strings -> StringRep] /\ mem \in [Blocks -> BlockRep]
  BY <1>0 DEF IInv, Shape, Share
<1>2. /\ h \in Strings /\ g \in Strings /\ g # h /\ op[t].new.rep # "heap"
      /\ str[g].rep = "heap" /\ mem[b].counted /\ ~str[g].own
  BY <1>0, <1>1 DEF OpFine, After
<1>3. /\ n \in OpRep /\ n.pc = "idle" /\ n.dst = NoString /\ n.new.rep # "heap"
      /\ OpFine(n) /\ Apart(t, n)
  BY <1>0, IdleOpFields, EmptyStringRep, IdleStartable DEF Startable
<1>4. /\ op' = [op EXCEPT ![t] = n] /\ str' = [str EXCEPT ![h] = Heap(b, FALSE)]
      /\ mem' = [mem EXCEPT ![b].rc = @ + 1]
  BY <1>0 DEF Share
<1>5. \A u \in Threads \ {t} : /\ op[u].dst \notin {h} /\ op[u].src \notin {h}
                               /\ op[u].dst # g
  BY <1>0, <1>1, <1>2, NamesAssumption DEF Apart
<1>6. /\ b \in Blocks /\ g \in HoldersOf[b] /\ g \notin FreedOf[b]
      /\ h \notin HoldersOf[b]
  <2>1. b \in Blocks /\ g \in HoldersOf[b]
    BY <1>0, <1>2, <1>5, Pointing DEF IInv
  <2>2. g \notin FreedOf[b]
    BY <1>0, <1>2, <1>5, <2>1, HoldersNow
  <2>3. h \notin HoldersOf[b]
    BY <1>0, <1>1, <1>2, <1>5, <2>1, HoldersNow DEF After
  <2>4. QED
    BY <2>1, <2>2, <2>3
<1>7. /\ FreedOf[b] = {} /\ mem[b].live /\ mem[b] \in BlockRep
      /\ BlockOK(mem[b], HoldersOf[b], {}, {})
      /\ IsFiniteSet(HoldersOf[b]) /\ mem[b].rc \in Nat \ {0}
      /\ SoleOf[b] = {}
  <2>1. /\ FreedOf[b] = {} /\ mem[b].live /\ mem[b] \in BlockRep
        /\ BlockOK(mem[b], HoldersOf[b], {}, SoleOf[b])
        /\ IsFiniteSet(HoldersOf[b]) /\ mem[b].rc \in Nat \ {0}
    BY <1>2, <1>6, NotFreed
  <2>2. g \notin SoleOf[b]
    BY <1>0, <1>2, <1>5, <1>6, HoldersNow
  <2>3. SoleOf[b] = {}
    BY <1>6, <2>1, <2>2 DEF BlockOK
  <2>4. QED
    BY <2>1, <2>3
<1>8. /\ mem' \in [Blocks -> BlockRep] /\ \A c \in Blocks \ {b} : mem'[c] = mem[c]
      /\ mem'[b].live = mem[b].live /\ mem'[b].counted = mem[b].counted
      /\ mem'[b].rc = mem[b].rc + 1
      /\ mem'[b] \in BlockRep
  <2>1. mem[b].rc + 1 \in Nat
    BY <1>7
  <2>2. mem' = [mem EXCEPT ![b] = [mem[b] EXCEPT !.rc = mem[b].rc + 1]]
    BY <1>4
  <2>3. QED
    BY <1>1, <1>6, <2>1, <2>2, CountChanged
<1>9. /\ str' \in [Strings -> StringRep] /\ \A x \in Strings \ {h} : str'[x] = str[x]
      /\ str'[h].rep = "heap" /\ str'[h].blk = b /\ ~str'[h].own
  <2>1. /\ Heap(b, FALSE) \in StringRep /\ Heap(b, FALSE).rep = "heap"
        /\ Heap(b, FALSE).blk = b /\ ~Heap(b, FALSE).own
    BY <1>6, TextsAssumption DEF Heap, StringRep, Texts
  <2>2. QED
    BY <1>1, <1>2, <1>4, <2>1
<1>10. Frame(t, n, W)
  <2>1. OpFine(n)'
    BY <1>3, IdleOpFields, EmptyStringRep DEF OpFine, Releasing, After
  <2>2. {op[t].dst, n.dst} \subseteq W \cup {NoString}
    BY <1>0, <1>3
  <2>3. \A c \in Blocks : mem'[c].counted = mem[c].counted
    BY <1>8
  <2>4. W \subseteq Strings /\ \A u \in Threads \ {t} : op[u].dst \notin W /\ op[u].src \notin W
    BY <1>0, <1>2, <1>5
  <2>5. n \in OpRep /\ op' = [op EXCEPT ![t] = n] /\ Apart(t, n)
    BY <1>3, <1>4
  <2>6. /\ \A x \in Strings \ W : str'[x] = str[x]
        /\ str' \in [Strings -> StringRep]
        /\ \A x \in W : str'[x].rep = "heap" => str'[x].blk \in Blocks
    BY <1>0, <1>6, <1>9
  <2>7. mem' \in [Blocks -> BlockRep]
    BY <1>8
  <2>8. QED
    BY <2>1, <2>2, <2>3, <2>4, <2>5, <2>6, <2>7 DEF Frame
<1>11. ASSUME NEW c \in Blocks \ {b}
       PROVE  BlockOK(mem'[c], HoldersOf'[c], FreedOf'[c], SoleOf'[c])
  <2>1. Unconcerned(t, n, W, c)
    BY <1>0, <1>1, <1>2, <1>3, <1>8, <1>9 DEF Unconcerned, After
  <2>2. QED
    BY <1>10, <2>1, UnconcernedBlock
<1>12. BlockOK(mem'[b], HoldersOf'[b], FreedOf'[b], SoleOf'[b])
  <2>0. /\ h \in W /\ \A x \in W : x = h
        /\ n.new = op[t].new \/ (n.new.rep # "heap" /\ op[t].new.rep # "heap")
    BY <1>0, <1>2, <1>3
  <2>1. h \in HoldersOf'[b] /\ h \notin FreedOf'[b] /\ h \notin SoleOf'[b]
    BY <1>2, <1>3, <1>6, <1>9, <1>10, <2>0, NamesAssumption, OneString
  <2>2. \A x : x # h => /\ x \in HoldersOf'[b] <=> x \in HoldersOf[b]
                        /\ x \in FreedOf'[b] <=> x \in FreedOf[b]
                        /\ x \in SoleOf'[b] <=> x \in SoleOf[b]
    BY <1>6, <1>10, <2>0, OneString
  <2>3. HoldersOf'[b] = HoldersOf[b] \cup {h} /\ FreedOf'[b] = {} /\ SoleOf'[b] = {}
    BY <1>7, <2>1, <2>2
  <2>4. mem'[b].live /\ mem'[b].counted
    BY <1>2, <1>7, <1>8
  <2>5. BlockOK(mem'[b], HoldersOf[b] \cup {h}, {}, {})
    BY <1>2, <1>6, <1>7, <1>8, <2>4, Gained
  <2>6. QED
    BY <2>3, <2>5
<1>13. QED
  BY <1>10, <1>11, <1>12, FrameStep

\* A block nobody has: its sets are empty.
LEMMA FreeHolders ==
    ASSUME IInv, NEW b \in Blocks, ~mem[b].live
    PROVE  HoldersOf[b] = {} /\ FreedOf[b] = {} /\ SoleOf[b] = {}
<1>1. HoldersOf[b] = {}
  BY DEF IInv, BlockInv, BlockOK
<1>2. QED
  BY <1>1, HoldersFinite

\* A fresh block takes the place of a dead one.
LEMMA BlockAdded ==
    ASSUME NEW b \in Blocks, NEW c \in Counting, NEW v \in Texts,
           mem \in [Blocks -> BlockRep], mem' = [mem EXCEPT ![b] = NewBlock(c, v)]
    PROVE  /\ mem' \in [Blocks -> BlockRep] /\ \A x \in Blocks \ {b} : mem'[x] = mem[x]
           /\ mem'[b] \in BlockRep /\ mem'[b].live /\ mem'[b].rc = 1
<1>1. NewBlock(c, v) \in BlockRep /\ NewBlock(c, v).live /\ NewBlock(c, v).rc = 1
  BY ProgramAssumption DEF NewBlock, BlockRep
<1> HIDE DEF NewBlock
<1>2. QED
  BY <1>1

\* memcpy_to_me_nonsso_alloc: the copy is in a block of its own, or it failed.
LEMMA AllocateCopyStep ==
    ASSUME IInv, NEW t \in Threads, AllocateCopy(t)
    PROVE  IInv'
<1>0. SUFFICES ASSUME NEW h, h = op[t].dst, NEW W, W = {h}, NEW n, n = IdleOp
               PROVE  IInv'
  OBVIOUS
<1>1. /\ op[t] \in OpRep /\ OpFine(op[t]) /\ Apart(t, op[t]) /\ op[t].pc = "alloc"
      /\ str \in [Strings -> StringRep] /\ mem \in [Blocks -> BlockRep]
      /\ op' = [op EXCEPT ![t] = n]
  BY <1>0 DEF IInv, Shape, AllocateCopy
<1>2. h \in Strings /\ op[t].new.rep # "heap" /\ op[t].new \in StringRep
  BY <1>0, <1>1 DEF OpFine, After, OpRep
<1>3. /\ n \in OpRep /\ n.pc = "idle" /\ n.dst = NoString /\ n.new.rep # "heap"
      /\ Apart(t, n)
  BY <1>0, IdleOpFields, EmptyStringRep, IdleStartable DEF Startable
<1>4. OpFine(n)'
  BY <1>0, IdleOpFields, EmptyStringRep DEF OpFine, Releasing, After
<1>5. \A u \in Threads \ {t} : op[u].dst \notin {h} /\ op[u].src \notin {h}
  BY <1>0, <1>1, <1>2, NamesAssumption DEF Apart
<1>6. /\ {op[t].dst, n.dst} \subseteq W \cup {NoString}
      /\ h \in W /\ \A x \in W : x = h
      /\ n.new = op[t].new \/ (n.new.rep # "heap" /\ op[t].new.rep # "heap")
  BY <1>0, <1>2, <1>3
<1>7. ASSUME NEW b \in Blocks, NEW c \in Counting, ~mem[b].live,
             mem' = [mem EXCEPT ![b] = NewBlock(c, op[t].new.val)],
             str' = [str EXCEPT ![op[t].dst] = Heap(b, op[t].new.own)]
      PROVE  IInv'
  <2>1. HoldersOf[b] = {} /\ FreedOf[b] = {} /\ SoleOf[b] = {}
    BY <1>7, FreeHolders
  <2>2. /\ mem' \in [Blocks -> BlockRep] /\ \A x \in Blocks \ {b} : mem'[x] = mem[x]
        /\ mem'[b] \in BlockRep /\ mem'[b].live /\ mem'[b].rc = 1
    <3>1. op[t].new.val \in Texts
      BY <1>2 DEF StringRep
    <3>2. QED
      BY <1>1, <1>7, <3>1, BlockAdded
  <2>3. /\ str' \in [Strings -> StringRep] /\ \A x \in Strings \ {h} : str'[x] = str[x]
        /\ str'[h].rep = "heap" /\ str'[h].blk = b
    <3>1. /\ Heap(b, op[t].new.own) \in StringRep /\ Heap(b, op[t].new.own).rep = "heap"
          /\ Heap(b, op[t].new.own).blk = b
      BY <1>2, <1>7, TextsAssumption DEF Heap, StringRep, Texts
    <3>2. QED
      BY <1>0, <1>1, <1>2, <1>7, <3>1
  <2>4. Frame(t, n, W)
    <3>1. \A c2 \in Blocks : mem'[c2].counted = mem[c2].counted \/ HoldersOf[c2] \subseteq W
      BY <2>1, <2>2
    <3>2. QED
      BY <1>0, <1>1, <1>2, <1>3, <1>4, <1>5, <1>6, <2>2, <2>3, <3>1 DEF Frame
  <2>5. ASSUME NEW c2 \in Blocks \ {b}
        PROVE  BlockOK(mem'[c2], HoldersOf'[c2], FreedOf'[c2], SoleOf'[c2])
    <3>1. Unconcerned(t, n, W, c2)
      BY <1>0, <1>1, <1>2, <1>3, <2>2, <2>3 DEF Unconcerned, After
    <3>2. QED
      BY <2>4, <3>1, UnconcernedBlock
  <2>6. BlockOK(mem'[b], HoldersOf'[b], FreedOf'[b], SoleOf'[b])
    <3>1. h \in HoldersOf'[b] /\ h \notin FreedOf'[b]
      BY <1>2, <1>3, <1>6, <2>3, <2>4, NamesAssumption, OneString
    <3>2. \A x : x # h => /\ x \in HoldersOf'[b] <=> x \in HoldersOf[b]
                          /\ x \in FreedOf'[b] <=> x \in FreedOf[b]
                          /\ x \in SoleOf'[b] <=> x \in SoleOf[b]
      BY <1>6, <2>4, OneString
    <3>3. HoldersOf'[b] = {h} /\ FreedOf'[b] = {} /\ SoleOf'[b] \subseteq {h}
      BY <2>1, <3>1, <3>2
    <3>4. BlockOK(mem'[b], {h}, {}, SoleOf'[b])
      BY <2>2, <3>3, Single
    <3>5. QED
      BY <3>3, <3>4
  <2>7. QED
    BY <2>4, <2>5, <2>6, FrameStep
<1>8. ASSUME mem' = mem, str' = [str EXCEPT ![op[t].dst] = View(ErrText, op[t].new.own)]
      PROVE  IInv'
  <2>1. /\ str' \in [Strings -> StringRep] /\ \A x \in Strings \ {h} : str'[x] = str[x]
        /\ str'[h].rep # "heap"
    <3>1. /\ View(ErrText, op[t].new.own) \in StringRep
          /\ View(ErrText, op[t].new.own).rep # "heap"
      BY <1>2, TextsAssumption DEF View, StringRep
    <3>2. QED
      BY <1>0, <1>1, <1>2, <1>8, <3>1
  <2>2. Frame(t, n, W)
    <3>1. /\ mem' \in [Blocks -> BlockRep]
          /\ \A c \in Blocks : mem'[c].counted = mem[c].counted
      BY <1>1, <1>8
    <3>2. QED
      BY <1>0, <1>1, <1>2, <1>3, <1>4, <1>5, <1>6, <2>1, <3>1 DEF Frame
  <2>3. ASSUME NEW c \in Blocks
        PROVE  BlockOK(mem'[c], HoldersOf'[c], FreedOf'[c], SoleOf'[c])
    <3>1. Unconcerned(t, n, W, c)
      BY <1>0, <1>1, <1>2, <1>3, <1>8, <2>1 DEF Unconcerned, After
    <3>2. QED
      BY <2>2, <3>1, UnconcernedBlock
  <2>4. QED
    BY <2>2, <2>3, FrameStep
<1>9. QED
  BY <1>7, <1>8 DEF AllocateCopy

\* as_always_ownerized, in place: the string is alone with its block, or is
\* ownerized no longer.
LEMMA OwnStep ==
    ASSUME IInv, NEW t \in Threads, NEW h \in Strings, Idle(t), Untouched(h),
           NEW o \in BOOLEAN, str' = [str EXCEPT ![h].own = o], UNCHANGED <<mem, op>>,
           o /\ str[h].rep = "heap" => HoldersOf[str[h].blk] = {h}
    PROVE  IInv'
<1>0. SUFFICES ASSUME NEW W, W = {h}, NEW n, n = op[t]
               PROVE  IInv'
  OBVIOUS
<1>1. /\ n \in OpRep /\ OpFine(n) /\ Apart(t, n) /\ n.pc = "idle" /\ n.dst = NoString
      /\ n.new.rep # "heap"
      /\ str \in [Strings -> StringRep] /\ mem \in [Blocks -> BlockRep]
      /\ mem' = mem
  BY <1>0 DEF IInv, Shape, Idle, OpFine
<1>2. op' = [op EXCEPT ![t] = n]
  BY <1>0 DEF IInv, Shape
<1>3. /\ str' \in [Strings -> StringRep] /\ \A x \in Strings \ {h} : str'[x] = str[x]
      /\ str'[h].rep = str[h].rep /\ str'[h].blk = str[h].blk /\ str'[h].own = o
  <2>1. /\ [str[h] EXCEPT !.own = o] \in StringRep
        /\ [str[h] EXCEPT !.own = o].rep = str[h].rep
        /\ [str[h] EXCEPT !.own = o].blk = str[h].blk
        /\ [str[h] EXCEPT !.own = o].own = o
    <3>1. str[h] \in StringRep
      BY <1>1
    <3>2. QED
      BY <3>1 DEF StringRep
  <2>2. str' = [str EXCEPT ![h] = [str[h] EXCEPT !.own = o]]
    OBVIOUS
  <2>3. QED
    BY <1>1, <2>1, <2>2
<1>4. OpFine(n)'
  BY <1>1 DEF OpFine, Releasing, After
<1>5. \A u \in Threads \ {t} : op[u].dst \notin {h} /\ op[u].src \notin {h}
  BY DEF Untouched
<1>6. Frame(t, n, W)
  <2>1. /\ {op[t].dst, n.dst} \subseteq W \cup {NoString}
        /\ mem' \in [Blocks -> BlockRep]
        /\ \A c \in Blocks : mem'[c].counted = mem[c].counted
        /\ str'[h].rep = "heap" => str'[h].blk \in Blocks
    BY <1>0, <1>1, <1>3 DEF IInv, Shape
  <2>2. QED
    BY <1>0, <1>1, <1>2, <1>3, <1>4, <1>5, <2>1 DEF Frame
<1>7. ASSUME NEW c \in Blocks
      PROVE  BlockOK(mem'[c], HoldersOf'[c], FreedOf'[c], SoleOf'[c])
  <2>1. Unconcerned(t, n, W, c)
    BY <1>0, <1>1, <1>3, NamesAssumption DEF Unconcerned
  <2>2. QED
    BY <1>6, <2>1, UnconcernedBlock
<1>8. QED
  BY <1>6, <1>7, FrameStep

\* A string put together in a block of its own takes its place.
LEMMA StoreBuiltStep ==
    ASSUME IInv, NEW t \in Threads, Store(t), op[t].new.rep = "heap"
    PROVE  IInv'
<1>0. SUFFICES ASSUME NEW h, h = op[t].dst, NEW W, W = {h}, NEW s, s = op[t].new,
                      NEW b, b = s.blk, NEW n, n = IdleOp
               PROVE  IInv'
  OBVIOUS
<1>1. /\ op[t] \in OpRep /\ OpFine(op[t]) /\ Apart(t, op[t]) /\ op[t].pc = "store"
      /\ str \in [Strings -> StringRep] /\ mem \in [Blocks -> BlockRep]
      /\ mem' = mem
  BY <1>0 DEF IInv, Shape, Store
<1>2. /\ h \in Strings /\ op[t].moved = NoString /\ b \in Blocks
      /\ s \in StringRep /\ s.rep = "heap" /\ s.blk = b
  BY <1>0, <1>1 DEF OpFine, After, OpRep
<1>3. /\ n \in OpRep /\ n.pc = "idle" /\ n.dst = NoString /\ n.new.rep # "heap"
      /\ Apart(t, n)
  BY <1>0, IdleOpFields, EmptyStringRep, IdleStartable DEF Startable
<1>4. OpFine(n)'
  BY <1>0, IdleOpFields, EmptyStringRep DEF OpFine, Releasing, After
<1>5. \A u \in Threads \ {t} : op[u].dst \notin {h} /\ op[u].src \notin {h}
  BY <1>0, <1>1, <1>2, NamesAssumption DEF Apart
<1>6. op' = [op EXCEPT ![t] = n] /\ str' = [str EXCEPT ![h] = s]
  BY <1>0, <1>2 DEF Store, Finished
<1>7. /\ str' \in [Strings -> StringRep] /\ \A x \in Strings \ {h} : str'[x] = str[x]
      /\ str'[h] = s
  BY <1>1, <1>2, <1>6
<1>8. Frame(t, n, W)
  <2>1. /\ {op[t].dst, n.dst} \subseteq W \cup {NoString}
        /\ mem' \in [Blocks -> BlockRep]
        /\ \A c \in Blocks : mem'[c].counted = mem[c].counted
    BY <1>0, <1>1, <1>3
  <2>2. QED
    BY <1>0, <1>1, <1>2, <1>3, <1>4, <1>5, <1>6, <1>7, <2>1 DEF Frame
<1>9. ASSUME NEW c \in Blocks \ {b}
      PROVE  BlockOK(mem'[c], HoldersOf'[c], FreedOf'[c], SoleOf'[c])
  <2>1. Unconcerned(t, n, W, c)
    BY <1>0, <1>1, <1>2, <1>3, <1>7 DEF Unconcerned, After
  <2>2. QED
    BY <1>8, <2>1, UnconcernedBlock
<1>10. t # h /\ h \notin Threads
  BY <1>2, NamesAssumption
<1>11. HoldersOf[b] = {t} /\ FreedOf[b] = {} /\ SoleOf[b] = {t}
  <2>1. t \in HoldersOf[b] /\ t \in SoleOf[b]
    BY <1>0, <1>2 DEF HoldersOf, Holders, BuildingThreads, SoleOf
  <2>2. t \notin FreedOf[b]
    BY <1>2, NamesAssumption DEF FreedOf, HoldingStrings
  <2>3. BlockOK(mem[b], HoldersOf[b], FreedOf[b], SoleOf[b])
    BY <1>2 DEF IInv, BlockInv
  <2>4. HoldersOf[b] = {t}
    BY <2>1, <2>3 DEF BlockOK
  <2>5. SoleOf[b] \subseteq HoldersOf[b] /\ FreedOf[b] \subseteq SoleOf[b]
    BY <1>2, HoldersFinite
  <2>6. QED
    BY <2>1, <2>2, <2>4, <2>5
<1>12. /\ mem[b].live /\ mem[b] \in BlockRep
       /\ mem[b].counted => mem[b].rc = 1
  <2>1. /\ mem[b].live /\ mem[b] \in BlockRep
        /\ BlockOK(mem[b], HoldersOf[b], {}, SoleOf[b])
    BY <1>2, <1>11, NotFreed
  <2>2. Cardinality({t}) = 1
    BY FS_Singleton
  <2>3. QED
    BY <1>11, <2>1, <2>2 DEF BlockOK
<1>13. BlockOK(mem'[b], HoldersOf'[b], FreedOf'[b], SoleOf'[b])
  <2>1. op'[t] = n /\ About(t, W) /\ h \in W /\ \A x \in W : x = h
    BY <1>0, <1>8, FrameAbout
  <2>2. /\ h \in HoldersOf'[b] /\ h \notin FreedOf'[b]
        /\ t \notin HoldersOf'[b] /\ t \notin SoleOf'[b]
        /\ \A x : x \notin W \cup {t} =>
            /\ x \in HoldersOf'[b] <=> x \in HoldersOf[b]
            /\ x \in FreedOf'[b] <=> x \in FreedOf[b]
            /\ x \in SoleOf'[b] <=> x \in SoleOf[b]
    BY <1>2, <1>3, <1>7, <2>1, NamesAssumption, HoldersNext
  <2>3. t \notin FreedOf'[b]
    BY <1>2, NamesAssumption DEF FreedOf, HoldingStrings
  <2>4. HoldersOf'[b] = {h} /\ FreedOf'[b] = {} /\ SoleOf'[b] \subseteq {h}
    BY <1>10, <1>11, <2>1, <2>2, <2>3
  <2>5. BlockOK(mem[b], {h}, {}, SoleOf'[b])
    BY <1>12, <2>4, Single
  <2>6. QED
    BY <1>1, <2>4, <2>5
<1>14. QED
  BY <1>8, <1>9, <1>13, FrameStep

\* move_init_impl_: the block of the moved-from string changes hands.
LEMMA AdoptStep ==
    ASSUME IInv, NEW t \in Threads, Adopt(t)
    PROVE  IInv'
<1>0. SUFFICES ASSUME NEW h, h = op[t].dst, NEW g, g = op[t].moved, NEW W, W = {h, g},
                      NEW b, b = str[g].blk, NEW n, n = IdleOp
               PROVE  IInv'
  OBVIOUS
<1>1. /\ op[t] \in OpRep /\ OpFine(op[t]) /\ Apart(t, op[t]) /\ op[t].pc = "adopt"
      /\ str \in [Strings -> StringRep] /\ mem \in [Blocks -> BlockRep]
      /\ mem' = mem
  BY <1>0 DEF IInv, Shape, Adopt
<1>2. /\ h \in Strings /\ g \in Strings /\ g # h /\ op[t].new.rep # "heap"
      /\ str[g].rep = "heap" => b \in Blocks
  BY <1>0, <1>1 DEF OpFine, After, IInv, Shape
<1>3. /\ n \in OpRep /\ n.pc = "idle" /\ n.dst = NoString /\ n.new.rep # "heap"
      /\ Apart(t, n)
  BY <1>0, IdleOpFields, EmptyStringRep, IdleStartable DEF Startable
<1>4. OpFine(n)'
  BY <1>0, IdleOpFields, EmptyStringRep DEF OpFine, Releasing, After
<1>5. \A u \in Threads \ {t} : op[u].dst \notin {h, g} /\ op[u].src \notin {h, g}
  BY <1>0, <1>1, <1>2, NamesAssumption DEF Apart
<1>6. /\ op' = [op EXCEPT ![t] = n]
      /\ str' = [str EXCEPT ![h] = str[g], ![g] = EmptyString]
  BY <1>0 DEF Adopt
<1>7. /\ str' \in [Strings -> StringRep] /\ \A x \in Strings \ {h, g} : str'[x] = str[x]
      /\ str'[h] = str[g] /\ str'[g] = EmptyString /\ str'[g].rep # "heap"
  BY <1>1, <1>2, <1>6, EmptyStringRep
<1>8. Frame(t, n, W)
  <2>1. /\ {op[t].dst, n.dst} \subseteq W \cup {NoString}
        /\ mem' \in [Blocks -> BlockRep]
        /\ \A c \in Blocks : mem'[c].counted = mem[c].counted
        /\ str'[h].rep = "heap" => str'[h].blk \in Blocks
    BY <1>0, <1>1, <1>2, <1>3, <1>7
  <2>2. QED
    BY <1>0, <1>1, <1>2, <1>3, <1>4, <1>5, <1>6, <1>7, <2>1 DEF Frame
<1>9. ASSUME NEW c \in Blocks, str[g].rep # "heap" \/ c # b
      PROVE  BlockOK(mem'[c], HoldersOf'[c], FreedOf'[c], SoleOf'[c])
  <2>1. Unconcerned(t, n, W, c)
    <3>1. op[t].pc # "free" /\ op[t].pc \in After /\ mem'[c] = mem[c]
      BY <1>1 DEF After
    <3>2. /\ ~(str[g].rep = "heap" /\ str[g].blk = c)
          /\ ~(str'[h].rep = "heap" /\ str'[h].blk = c)
      BY <1>0, <1>7, <1>9
    <3>3. \A x \in W : x = h \/ x = g
      BY <1>0
    <3>4. QED
      BY <1>0, <1>2, <1>3, <1>7, <3>1, <3>2, <3>3 DEF Unconcerned
  <2>2. QED
    BY <1>8, <2>1, UnconcernedBlock
<1>10. CASE str[g].rep # "heap"
  BY <1>8, <1>9, <1>10, FrameStep
<1>11. CASE str[g].rep = "heap"
  <2>1. b \in Blocks /\ t \notin {h, g}
    BY <1>2, <1>11, NamesAssumption
  <2>2. /\ g \in HoldersOf[b] /\ g \notin FreedOf[b]
        /\ g \in SoleOf[b] <=> str[g].own
        /\ h \notin HoldersOf[b]
    <3>1. /\ g \in HoldersOf[b] /\ g \notin FreedOf[b]
          /\ g \in SoleOf[b] <=> str[g].own
      BY <1>0, <1>2, <1>5, <1>11, <2>1, HoldersNow
    <3>2. h \notin HoldersOf[b]
      BY <1>0, <1>1, <1>2, <1>5, <2>1, HoldersNow DEF After
    <3>3. QED
      BY <3>1, <3>2
  <2>3. /\ FreedOf[b] = {} /\ BlockOK(mem[b], HoldersOf[b], {}, SoleOf[b])
        /\ IsFiniteSet(HoldersOf[b])
    BY <2>1, <2>2, NotFreed
  <2>4. t \notin HoldersOf[b] /\ t \notin SoleOf[b]
    <3>1. t \notin HoldersOf[b]
      BY <1>0, <1>2, <2>1, NamesAssumption DEF HoldersOf, Holders, HoldingStrings, BuildingThreads
    <3>2. QED
      BY <2>1, <3>1, HoldersFinite
  <2>5. op'[t] = n /\ About(t, W)
    BY <1>8, FrameAbout
  <2>6. /\ h \in HoldersOf'[b] /\ h \notin FreedOf'[b]
        /\ h \in SoleOf'[b] <=> str[g].own
        /\ g \notin HoldersOf'[b] /\ g \notin FreedOf'[b] /\ g \notin SoleOf'[b]
    BY <1>0, <1>2, <1>3, <1>7, <1>11, <2>1, <2>5, NamesAssumption, HoldersNext
  <2>7. /\ t \notin HoldersOf'[b] /\ t \notin SoleOf'[b]
    BY <1>3, <2>1, <2>5, HoldersNext
  <2>8. \A x : x \notin W \cup {t} =>
            /\ x \in HoldersOf'[b] <=> x \in HoldersOf[b]
            /\ x \in FreedOf'[b] <=> x \in FreedOf[b]
            /\ x \in SoleOf'[b] <=> x \in SoleOf[b]
    BY <2>1, <2>5, HoldersNext
  <2>9. t \notin FreedOf'[b]
    BY <2>1, NamesAssumption DEF FreedOf, HoldingStrings
  <2>10. HoldersOf'[b] = (HoldersOf[b] \ {g}) \cup {h}
    BY <1>0, <1>2, <2>2, <2>4, <2>6, <2>7, <2>8
  <2>11. FreedOf'[b] = {}
    BY <1>0, <2>3, <2>6, <2>8, <2>9
  <2>12. SoleOf'[b] \subseteq (SoleOf[b] \ {g}) \cup {h} /\ (h \in SoleOf'[b] => g \in SoleOf[b])
    BY <1>0, <2>2, <2>6, <2>7, <2>8
  <2>13. BlockOK(mem[b], (HoldersOf[b] \ {g}) \cup {h}, {}, SoleOf'[b])
    BY <2>2, <2>3, <2>12, Swapped
  <2>14. BlockOK(mem'[b], HoldersOf'[b], FreedOf'[b], SoleOf'[b])
    BY <1>1, <2>10, <2>11, <2>13
  <2>15. QED
    BY <1>8, <1>9, <2>14, FrameStep
<1>12. QED
  BY <1>10, <1>11

\* reserve and its kin: a block is filled for a string whose own block, if it
\* has one, is still to be given up.
LEMMA RegrowStep ==
    ASSUME IInv, NEW t \in Threads, NEW h \in Strings, Idle(t), Untouched(h),
           NEW v \in Texts, NEW o \in BOOLEAN, Regrow(t, h, v, o)
    PROVE  IInv'
<1>0. SUFFICES ASSUME NEW b \in Blocks, NEW c \in Counting, ~mem[b].live,
                      mem' = [mem EXCEPT ![b] = NewBlock(c, v)],
                      op' = [op EXCEPT ![t] =
                                 Release(str[h], Operation("store", h, Heap(b, o)))],
                      str' = str
               PROVE  IInv'
  BY DEF Regrow
<1>n. SUFFICES ASSUME NEW n, n = Release(str[h], Operation("store", h, Heap(b, o))),
                      NEW W, W = {h}
               PROVE  IInv'
  OBVIOUS
<1>1. /\ str \in [Strings -> StringRep] /\ mem \in [Blocks -> BlockRep]
      /\ op[t].pc = "idle" /\ op[t].dst = NoString /\ op[t].new.rep # "heap"
  BY DEF IInv, Shape, Idle, OpFine
<1>2. /\ Heap(b, o) \in StringRep /\ Heap(b, o).rep = "heap" /\ Heap(b, o).blk = b
  BY TextsAssumption DEF Heap, StringRep, Texts
<1>3. /\ n \in OpRep /\ n.next = "store" /\ n.dst = h /\ n.src = NoString
      /\ n.moved = NoString /\ n.new.rep = "heap" /\ n.new.blk = b
      /\ str[h].rep # "heap" => n.pc = "store"
      /\ str[h].rep = "heap" /\ mem[str[h].blk].counted /\ ~str[h].own => n.pc = "load"
      /\ str[h].rep = "heap" /\ ~(mem[str[h].blk].counted /\ ~str[h].own) => n.pc = "free"
  <2>1. LET o2 == Operation("store", h, Heap(b, o))
        IN  o2 \in OpRep /\ o2.next = "store" /\ o2.dst = h /\ o2.new = Heap(b, o)
            /\ o2.src = NoString /\ o2.moved = NoString
    BY <1>2, OperationFields DEF Pcs
  <2>2. QED
    BY <1>n, <1>2, <2>1, ReleaseFields
<1>4. \A u \in Threads \ {t} : op[u].dst \notin {h} /\ op[u].src \notin {h}
  BY DEF Untouched
<1>5. HoldersOf[b] = {} /\ FreedOf[b] = {} /\ SoleOf[b] = {}
  BY <1>0, FreeHolders
<1>6. /\ mem' \in [Blocks -> BlockRep] /\ \A x \in Blocks \ {b} : mem'[x] = mem[x]
      /\ mem'[b] \in BlockRep /\ mem'[b].live /\ mem'[b].rc = 1
  BY <1>0, <1>1, BlockAdded
<1>7. ASSUME str[h].rep = "heap"
      PROVE  /\ str[h].blk \in Blocks \ {b} /\ mem'[str[h].blk] = mem[str[h].blk]
             /\ str[h].own \/ n.pc = "free" => HoldersOf[str[h].blk] = {h}
  <2>1. \A u \in Threads : op[u].dst # h
    BY <1>1, <1>4, NamesAssumption
  <2>2. str[h].blk \in Blocks /\ h \in HoldersOf[str[h].blk]
    BY <1>7, <2>1, Pointing DEF IInv
  <2>3. str[h].own \/ n.pc = "free" => HoldersOf[str[h].blk] = {h}
    BY <1>3, <1>7, <2>1, AloneNow
  <2>4. QED
    BY <1>5, <1>6, <2>2, <2>3
<1>8. Frame(t, n, W)
  <2>1. OpFine(n)'
    BY <1>0, <1>3, <1>7, NamesAssumption DEF OpFine, Releasing, After
  <2>2. Apart(t, n)
    BY <1>3, NamesAssumption DEF Apart, Untouched
  <2>3. /\ {op[t].dst, n.dst} \subseteq W \cup {NoString}
        /\ str' \in [Strings -> StringRep] /\ op' = [op EXCEPT ![t] = n]
        /\ \A x \in W : x = h
    BY <1>0, <1>n, <1>1, <1>3
  <2>4. \A x \in Blocks : mem'[x].counted = mem[x].counted \/ HoldersOf[x] \subseteq W
    BY <1>5, <1>6
  <2>5. QED
    BY <1>0, <1>n, <1>3, <1>4, <1>6, <1>7, <2>1, <2>2, <2>3, <2>4 DEF Frame
<1>9. ASSUME NEW x \in Blocks \ {b}
      PROVE  BlockOK(mem'[x], HoldersOf'[x], FreedOf'[x], SoleOf'[x])
  <2>1. Unconcerned(t, n, W, x)
    <3>1. str[h].rep = "heap" => n.pc \notin After
      BY <1>3 DEF After
    <3>2. \A g \in W : g = h
      BY <1>n
    <3>3. /\ op[t].dst # h /\ n.new.blk # x /\ n.dst = h
      BY <1>1, <1>3, NamesAssumption
    <3>4. QED
      BY <1>0, <1>1, <1>6, <1>7, <3>1, <3>2, <3>3 DEF Unconcerned
  <2>2. QED
    BY <1>8, <2>1, UnconcernedBlock
<1>10. BlockOK(mem'[b], HoldersOf'[b], FreedOf'[b], SoleOf'[b])
  <2>1. op'[t] = n /\ About(t, W) /\ h \in W /\ \A x \in W : x = h
    BY <1>n, <1>8, FrameAbout
  <2>2. h \notin HoldersOf'[b] /\ h \notin FreedOf'[b] /\ h \notin SoleOf'[b]
    BY <1>0, <1>7, <2>1, HoldersNext
  <2>3. t \in HoldersOf'[b] /\ t \in SoleOf'[b]
    BY <1>3, <2>1, HoldersNext
  <2>4. \A x : x \notin W \cup {t} =>
            /\ x \in HoldersOf'[b] <=> x \in HoldersOf[b]
            /\ x \in FreedOf'[b] <=> x \in FreedOf[b]
            /\ x \in SoleOf'[b] <=> x \in SoleOf[b]
    BY <2>1, HoldersNext
  <2>5. t \notin FreedOf'[b] /\ t # h
    BY NamesAssumption DEF FreedOf, HoldingStrings
  <2>6. HoldersOf'[b] = {t} /\ FreedOf'[b] = {} /\ SoleOf'[b] = {t}
    BY <1>5, <2>1, <2>2, <2>3, <2>4, <2>5
  <2>7. BlockOK(mem'[b], {t}, {}, {t})
    BY <1>6, Single
  <2>8. QED
    BY <2>6, <2>7
<1>11. QED
  BY <1>8, <1>9, <1>10, FrameStep

(***************************************************************************)
(* The operations, as far as their first step.                             *)
(***************************************************************************)

\* The text of a string is a text.
LEMMA TextIsText ==
    ASSUME IInv, NEW h \in Strings
    PROVE  Text(str[h]) \in Texts /\ str[h].own \in BOOLEAN /\ str[h] \in StringRep
<1>1. str[h] \in StringRep
  BY DEF IInv, Shape
<1>2. str[h].rep = "heap" => mem[str[h].blk] \in BlockRep
  BY DEF IInv, Shape
<1>3. QED
  BY <1>1, <1>2 DEF Text, StringRep, BlockRep

\* The first pc of an operation that gives up the block of s.
GivesUp(n, s) ==
    /\ s.rep # "heap" => n.pc = n.next
    /\ s.rep = "heap" /\ mem[s.blk].counted /\ ~s.own => n.pc = "load"
    /\ s.rep = "heap" /\ ~(mem[s.blk].counted /\ ~s.own) => n.pc = "free"

\* The forms in which the operations are written, with a string g that is
\* moved or read.
WithMoved(o, g) == [o EXCEPT !.moved = g]
WithSrc(o, g)   == [o EXCEPT !.src = g]

\* The operation that gives up a block and then does "next", as Release builds it.
LEMMA ReleaseForm ==
    ASSUME NEW s, NEW next \in After, NEW h \in Strings, NEW new \in StringRep,
           NEW n, n = Release(s, Operation(next, h, new))
    PROVE  /\ n \in OpRep /\ GivesUp(n, s) /\ n.next = next /\ n.dst = h /\ n.new = new
           /\ n.moved = NoString /\ n.src = NoString
<1> DEFINE o == Operation(next, h, new)
<1>1. o \in OpRep /\ o.next = next /\ o.dst = h /\ o.new = new
      /\ o.src = NoString /\ o.moved = NoString
  BY OperationFields DEF Pcs, After
<1> HIDE DEF o
<1>2. n = Release(s, o)
  BY DEF o
<1>3. QED
  BY <1>1, <1>2, ReleaseFields DEF GivesUp

\* The same with a string that will be reset, ...
LEMMA ReleaseMoved ==
    ASSUME NEW s, NEW next \in After, NEW h \in Strings, NEW new \in StringRep,
           NEW g \in Strings \cup {NoString}, NEW n,
           \/ n = WithMoved(Release(s, Operation(next, h, new)), g)
           \/ n = Release(s, WithMoved(Operation(next, h, new), g))
    PROVE  /\ n \in OpRep /\ GivesUp(n, s) /\ n.next = next /\ n.dst = h /\ n.new = new
           /\ n.moved = g /\ n.src = NoString
<1> DEFINE o == Operation(next, h, new)  om == WithMoved(o, g)
           r == Release(s, o)
<1>1. o \in OpRep /\ o.next = next /\ o.dst = h /\ o.new = new
      /\ o.src = NoString /\ o.moved = NoString
  BY OperationFields DEF Pcs, After
<1>2. /\ r \in OpRep /\ GivesUp(r, s) /\ r.next = next /\ r.dst = h /\ r.new = new
      /\ r.src = NoString /\ r.moved = NoString
  BY ReleaseForm
<1> HIDE DEF o
<1>3. om \in OpRep /\ om.next = next /\ om.dst = h /\ om.new = new
      /\ om.src = NoString /\ om.moved = g
  BY <1>1 DEF OpRep, WithMoved
<1> HIDE DEF om, r
<1>4. CASE n = WithMoved(r, g)
  BY <1>2, <1>4 DEF OpRep, GivesUp, WithMoved
<1>5. CASE n = Release(s, om)
  BY <1>3, <1>5, ReleaseFields DEF GivesUp
<1>6. QED
  BY <1>4, <1>5 DEF r, om, o

\* ... or one that is read.
LEMMA ReleaseRead ==
    ASSUME NEW s, NEW next \in After, NEW h \in Strings, NEW new \in StringRep,
           NEW g \in Strings, NEW n,
           n = WithSrc(Release(s, Operation(next, h, new)), g)
    PROVE  /\ n \in OpRep /\ GivesUp(n, s) /\ n.next = next /\ n.dst = h /\ n.new = new
           /\ n.moved = NoString /\ n.src = g
<1> DEFINE r == Release(s, Operation(next, h, new))
<1>1. /\ r \in OpRep /\ GivesUp(r, s) /\ r.next = next /\ r.dst = h /\ r.new = new
      /\ r.src = NoString /\ r.moved = NoString
  BY ReleaseForm
<1> HIDE DEF r
<1>2. n = [r EXCEPT !.src = g]
  BY DEF r, WithSrc
<1>3. QED
  BY <1>1, <1>2 DEF OpRep, GivesUp

\* An operation on strings of the caller's may begin by giving up a block.
LEMMA GivingUpBegins ==
    ASSUME IInv, NEW t \in Threads, Idle(t), NEW h \in Strings, Untouched(h),
           NEW n \in OpRep, GivesUp(n, str[h]), n.dst = h, n.moved # h, n.src # h,
           n.moved # NoString => Untouched(n.moved),
           n.src # NoString => Unwritten(n.src),
           n.next \in After, n.new.rep # "heap",
           n.next = "share" => /\ n.src \in Strings /\ str[n.src].rep = "heap"
                               /\ mem[str[n.src].blk].counted /\ ~str[n.src].own,
           n.next = "adopt" => n.moved \in Strings,
           Begin(t, n)
    PROVE  IInv'
<1>1. Apart(t, n)
  BY DEF Apart, Untouched, Unwritten
<1>2. n.pc \in {"load", "free"} \cup After
  BY DEF GivesUp
<1>3. OpFine(n)
  BY <1>2, NamesAssumption DEF OpFine, GivesUp, Releasing, After
<1>4. Startable(t, n)
  BY <1>1, <1>2, <1>3 DEF Startable, GivesUp, After
<1>5. QED
  BY <1>4, BeginStep DEF Idle

\* The fields of an operation that writes over dst's own buffer.
LEMMA InPlaceFields ==
    ASSUME NEW h \in Strings, NEW v \in Texts, NEW o \in BOOLEAN,
           NEW p, p = InPlace(h, v, o)
    PROVE  /\ p \in OpRep /\ p.pc = "write" /\ p.next = "idle" /\ p.dst = h
           /\ p.new.rep # "heap" /\ p.new.own = o
           /\ p.moved = NoString /\ p.src = NoString
<1> DEFINE q == Operation("idle", h, Sso(v, o))
<1>1. Sso(v, o) \in StringRep /\ Sso(v, o).rep # "heap" /\ Sso(v, o).own = o
  BY DEF Sso, StringRep
<1>2. q \in OpRep /\ q.next = "idle" /\ q.dst = h /\ q.new = Sso(v, o)
      /\ q.src = NoString /\ q.moved = NoString
  BY <1>1, OperationFields DEF Pcs
<1>3. p = [q EXCEPT !.pc = "write"]
  BY DEF InPlace
<1> HIDE DEF q
<1>4. QED
  BY <1>1, <1>2, <1>3 DEF OpRep, Pcs

\* The same with a string that will be reset, or one that is read.
LEMMA InPlaceWith ==
    ASSUME NEW h \in Strings, NEW v \in Texts, NEW o \in BOOLEAN,
           NEW g \in Strings \cup {NoString}, NEW n
    PROVE  /\ n = WithMoved(InPlace(h, v, o), g) =>
                  /\ n \in OpRep /\ n.pc = "write" /\ n.next = "idle" /\ n.dst = h
                  /\ n.new.rep # "heap" /\ n.new.own = o
                  /\ n.moved = g /\ n.src = NoString
           /\ n = WithSrc(InPlace(h, v, o), g) =>
                  /\ n \in OpRep /\ n.pc = "write" /\ n.next = "idle" /\ n.dst = h
                  /\ n.new.rep # "heap" /\ n.new.own = o
                  /\ n.moved = NoString /\ n.src = g
<1> DEFINE p == InPlace(h, v, o)
<1>1. /\ p \in OpRep /\ p.pc = "write" /\ p.next = "idle" /\ p.dst = h
      /\ p.new.rep # "heap" /\ p.new.own = o
      /\ p.moved = NoString /\ p.src = NoString
  BY InPlaceFields
<1> HIDE DEF p
<1>2. n = WithMoved(p, g) =>
          /\ n \in OpRep /\ n.pc = "write" /\ n.next = "idle" /\ n.dst = h
          /\ n.new.rep # "heap" /\ n.new.own = o /\ n.moved = g /\ n.src = NoString
  BY <1>1 DEF OpRep, WithMoved
<1>3. n = WithSrc(p, g) =>
          /\ n \in OpRep /\ n.pc = "write" /\ n.next = "idle" /\ n.dst = h
          /\ n.new.rep # "heap" /\ n.new.own = o /\ n.moved = NoString /\ n.src = g
  BY <1>1 DEF OpRep, WithSrc
<1>4. QED
  BY <1>2, <1>3 DEF p

\* An operation on strings of the caller's may begin by writing in place.
LEMMA InPlaceBegins ==
    ASSUME IInv, NEW t \in Threads, Idle(t), NEW h \in Strings, Untouched(h),
           str[h].rep = "heap",
           NEW n \in OpRep, n.pc = "write", n.next = "idle", n.dst = h,
           n.new.rep # "heap", n.new.own = str[h].own, n.moved # h, n.src # h,
           n.moved # NoString => Untouched(n.moved),
           n.src # NoString => Unwritten(n.src),
           Begin(t, n)
    PROVE  IInv'
<1>1. Apart(t, n)
  BY DEF Apart, Untouched, Unwritten
<1>2. OpFine(n)
  BY DEF OpFine, Releasing, After
<1>3. Startable(t, n)
  BY <1>1, <1>2 DEF Startable, After
<1>4. QED
  BY <1>3, BeginStep DEF Idle

\* The representations a step builds.
LEMMA Forms ==
    ASSUME NEW v \in Texts, NEW o \in BOOLEAN
    PROVE  /\ Sso(v, o) \in StringRep /\ Sso(v, o).rep = "sso"
           /\ View(v, o) \in StringRep /\ View(v, o).rep = "view"
BY DEF Sso, View, StringRep

\* Destroying a string may begin.
LEMMA DestroyStep ==
    ASSUME IInv, NEW t \in Threads, NEW h \in Strings, Destroy(t, h)
    PROVE  IInv'
<1>1. SUFFICES ASSUME NEW n, n = Release(str[h], Operation("store", h, EmptyString))
               PROVE  IInv'
  OBVIOUS
<1>2. Idle(t) /\ Untouched(h) /\ Begin(t, n)
  BY <1>1 DEF Destroy
<1>3. /\ n \in OpRep /\ GivesUp(n, str[h]) /\ n.next = "store" /\ n.dst = h
      /\ n.new = EmptyString /\ n.moved = NoString /\ n.src = NoString
  BY <1>1, EmptyStringRep, ReleaseForm DEF After
<1>4. QED
  BY <1>2, <1>3, EmptyStringRep, NamesAssumption, GivingUpBegins DEF After

\* A move from string g, or from a temporary that has no block.
LEMMA MoveFromStep ==
    ASSUME IInv, ~MoveAcrossOwnerized, NEW t \in Threads, NEW h \in Strings,
           NEW g \in Strings \cup {NoString}, NEW s \in StringRep, Text(s) \in Texts,
           Idle(t), Untouched(h), h # g, g # NoString => Untouched(g),
           g = NoString => s.rep # "heap", MoveFrom(t, h, s, g)
    PROVE  IInv'
<1>0. SUFFICES ASSUME NEW v \in Texts, v = Text(s), NEW o \in BOOLEAN, o = s.own
               PROVE  IInv'
  BY DEF StringRep
<1>1. ASSUME v \in Short, NEW n, n = WithMoved(Release(str[h], Operation("store", h, Sso(v, o))), g),
             Begin(t, n)
      PROVE  IInv'
  <2>1. /\ n \in OpRep /\ GivesUp(n, str[h]) /\ n.next = "store" /\ n.dst = h
        /\ n.new = Sso(v, o) /\ n.moved = g /\ n.src = NoString
    BY <1>1, Forms, ReleaseMoved DEF After
  <2>2. QED
    BY <1>1, <2>1, Forms, NamesAssumption, GivingUpBegins DEF After
<1>2. ASSUME NEW fits, HasRoom(str[h], v, fits), v \notin Short, o = str[h].own,
             NEW n, n = WithMoved(InPlace(h, v, o), g), Begin(t, n)
      PROVE  IInv'
  <2>1. str[h].rep = "heap"
    BY <1>2 DEF HasRoom
  <2>2. /\ n \in OpRep /\ n.pc = "write" /\ n.next = "idle" /\ n.dst = h
        /\ n.new.rep # "heap" /\ n.new.own = o /\ n.moved = g /\ n.src = NoString
    BY <1>2, InPlaceWith
  <2>3. QED
    BY <1>2, <2>1, <2>2, NamesAssumption, InPlaceBegins
<1>3. ASSUME g = NoString, NEW n, n = Release(str[h], Operation("store", h, s)), Begin(t, n)
      PROVE  IInv'
  <2>1. /\ n \in OpRep /\ GivesUp(n, str[h]) /\ n.next = "store" /\ n.dst = h
        /\ n.new = s /\ n.moved = NoString /\ n.src = NoString
    BY <1>3, ReleaseForm DEF After
  <2>2. QED
    BY <1>3, <2>1, NamesAssumption, GivingUpBegins DEF After
<1>4. ASSUME g # NoString,
             NEW n, n = Release(str[h], WithMoved(Operation("adopt", h, EmptyString), g)),
             Begin(t, n)
      PROVE  IInv'
  <2>0. SUFFICES ASSUME NEW e, e = EmptyString, NEW o1, o1 = Operation("adopt", h, e),
                        NEW o2, o2 = WithMoved(o1, g)
                 PROVE  IInv'
    OBVIOUS
  <2>1. /\ o1 \in OpRep /\ o1.next = "adopt" /\ o1.dst = h /\ o1.new = e
        /\ o1.src = NoString
    BY <2>0, EmptyStringRep, OperationFields DEF Pcs
  <2>2. /\ o2 \in OpRep /\ o2.next = "adopt" /\ o2.dst = h /\ o2.new = e
        /\ o2.src = NoString /\ o2.moved = g
    BY <2>0, <2>1 DEF OpRep, WithMoved
  <2>3. n = Release(str[h], o2)
    BY <1>4, <2>0
  <2>4. /\ n \in OpRep /\ GivesUp(n, str[h]) /\ n.next = "adopt" /\ n.dst = h
        /\ n.new = e /\ n.moved = g /\ n.src = NoString
    BY <2>2, <2>3, ReleaseFields DEF GivesUp
  <2>5. e.rep = "sso"
    BY <2>0, EmptyStringRep
  <2>6. QED
    BY <1>4, <2>4, <2>5, NamesAssumption, GivingUpBegins DEF After
<1>5. PICK fits \in BOOLEAN :
        \/ /\ HasRoom(str[h], v, fits) /\ o = str[h].own
           /\ Begin(t, WithMoved(CASE v \in Short ->
                               Release(str[h], Operation("store", h, Sso(v, o)))
                          [] v \in Long /\ o = str[h].own -> InPlace(h, v, o)
                          [] OTHER ->
                               Release(str[h], Operation("write", h, Sso(v, o))), g))
        \/ Begin(t, Release(str[h],
                            IF g = NoString THEN Operation("store", h, s)
                            ELSE WithMoved(Operation("adopt", h, EmptyString), g)))
  BY <1>0 DEF MoveFrom, WithMoved
<1>6. CASE /\ HasRoom(str[h], v, fits) /\ o = str[h].own
           /\ Begin(t, WithMoved(CASE v \in Short ->
                               Release(str[h], Operation("store", h, Sso(v, o)))
                          [] v \in Long /\ o = str[h].own -> InPlace(h, v, o)
                          [] OTHER ->
                               Release(str[h], Operation("write", h, Sso(v, o))), g))
  <2>1. CASE v \in Short
    <3>1. Begin(t, WithMoved(Release(str[h], Operation("store", h, Sso(v, o))), g))
      BY <1>6, <2>1, TextsAssumption
    <3>2. QED
      BY <1>1, <2>1, <3>1
  <2>2. CASE v \notin Short
    <3>1. Begin(t, WithMoved(InPlace(h, v, o), g))
      BY <1>6, <2>2 DEF Texts
    <3>2. QED
      BY <1>2, <1>6, <2>2, <3>1
  <2>3. QED
    BY <2>1, <2>2
<1>7. CASE Begin(t, Release(str[h],
                            IF g = NoString THEN Operation("store", h, s)
                            ELSE WithMoved(Operation("adopt", h, EmptyString), g)))
  BY <1>3, <1>4, <1>7
<1>8. QED
  BY <1>5, <1>6, <1>7

\* h = std::move(g) may begin.
LEMMA MoveStep ==
    ASSUME IInv, ~MoveAcrossOwnerized, NEW t \in Threads,
           NEW h \in Strings, NEW g \in Strings, Move(t, h, g)
    PROVE  IInv'
BY TextIsText, MoveFromStep, NamesAssumption DEF Move

\* h = "literal" may begin.
LEMMA AssignLiteralStep ==
    ASSUME IInv, ~MoveAcrossOwnerized, NEW t \in Threads,
           NEW h \in Strings, NEW v \in Texts, AssignLiteral(t, h, v)
    PROVE  IInv'
<1>1. SUFFICES ASSUME NEW s, s = IF v \in Short THEN Sso(v, FALSE) ELSE View(v, FALSE)
               PROVE  IInv'
  OBVIOUS
<1>2. s \in StringRep /\ s.rep # "heap"
  BY <1>1, Forms
<1>3. Text(s) \in Texts
  BY <1>2 DEF Text, StringRep
<1>4. Idle(t) /\ Untouched(h) /\ MoveFrom(t, h, s, NoString)
  BY <1>1 DEF AssignLiteral
<1>5. QED
  BY <1>2, <1>3, <1>4, MoveFromStep, NamesAssumption

\* Copying bytes over h may begin.
LEMMA CopyBytesStep ==
    ASSUME IInv, NEW t \in Threads, NEW h \in Strings, NEW g \in Strings,
           NEW v \in Texts, NEW fits \in BOOLEAN,
           Idle(t), Untouched(h), h # g, Unwritten(g), CopyBytes(t, h, g, v, fits)
    PROVE  IInv'
<1>0. SUFFICES ASSUME NEW o \in BOOLEAN, o = str[h].own
               PROVE  IInv'
  BY TextIsText
<1>1. ASSUME NEW next \in {"store", "alloc"},
             NEW n, n = WithSrc(Release(str[h], Operation(next, h, Sso(v, o))), g),
             Begin(t, n)
      PROVE  IInv'
  <2>1. /\ n \in OpRep /\ GivesUp(n, str[h]) /\ n.next = next /\ n.dst = h
        /\ n.new = Sso(v, o) /\ n.moved = NoString /\ n.src = g
    BY <1>1, Forms, ReleaseRead DEF After
  <2>2. QED
    BY <1>1, <2>1, Forms, NamesAssumption, GivingUpBegins DEF After
<1>2. ASSUME HasRoom(str[h], v, fits), v \notin Short,
             NEW n, n = WithSrc(InPlace(h, v, o), g), Begin(t, n)
      PROVE  IInv'
  <2>1. str[h].rep = "heap"
    BY <1>2 DEF HasRoom
  <2>2. /\ n \in OpRep /\ n.pc = "write" /\ n.next = "idle" /\ n.dst = h
        /\ n.new.rep # "heap" /\ n.new.own = o /\ n.moved = NoString /\ n.src = g
    BY <1>2, InPlaceWith
  <2>3. QED
    BY <1>0, <1>2, <2>1, <2>2, NamesAssumption, InPlaceBegins
<1>3. CASE v \in Short
  <2>1. Begin(t, WithSrc(Release(str[h], Operation("store", h, Sso(v, o))), g))
    BY <1>0, <1>3, TextsAssumption DEF CopyBytes, WithSrc
  <2>2. QED
    BY <1>1, <2>1
<1>4. CASE v \notin Short /\ HasRoom(str[h], v, fits)
  <2>1. Begin(t, WithSrc(InPlace(h, v, o), g))
    BY <1>0, <1>4 DEF CopyBytes, Texts, WithSrc
  <2>2. QED
    BY <1>2, <1>4, <2>1
<1>5. CASE v \notin Short /\ ~HasRoom(str[h], v, fits)
  <2>1. Begin(t, WithSrc(Release(str[h], Operation("alloc", h, Sso(v, o))), g))
    BY <1>0, <1>5 DEF CopyBytes, WithSrc
  <2>2. QED
    BY <1>1, <2>1
<1>6. QED
  BY <1>3, <1>4, <1>5

\* A view shared: the literal is pointed at by one more string.
LEMMA ShareViewStep ==
    ASSUME IInv, NEW t \in Threads, NEW h \in Strings, NEW g \in Strings,
           Idle(t), Untouched(h), h # g, Unwritten(g), NEW v \in Texts,
           NEW n, n = WithSrc(Release(str[h], Operation("store", h, View(v, FALSE))), g),
           Begin(t, n)
    PROVE  IInv'
<1>0. SUFFICES ASSUME NEW e, e = View(v, FALSE) PROVE IInv'
  OBVIOUS
<1>1. e \in StringRep /\ e.rep = "view" /\ n = WithSrc(Release(str[h], Operation("store", h, e)), g)
  BY <1>0, Forms
<1>2. SUFFICES ASSUME NEW o1, o1 = Operation("store", h, e), NEW o2, o2 = Release(str[h], o1)
               PROVE  IInv'
  OBVIOUS
<1>3. /\ o1 \in OpRep /\ o1.next = "store" /\ o1.dst = h /\ o1.new = e
      /\ o1.src = NoString /\ o1.moved = NoString
  BY <1>2, <1>1, OperationFields DEF Pcs
<1>4. /\ o2 \in OpRep /\ GivesUp(o2, str[h]) /\ o2.next = "store" /\ o2.dst = h
      /\ o2.new = e /\ o2.moved = NoString /\ o2.src = NoString
  BY <1>2, <1>3, ReleaseFields DEF GivesUp
<1>5. n = [o2 EXCEPT !.src = g]
  BY <1>1, <1>2 DEF WithSrc
<1>6. /\ n \in OpRep /\ GivesUp(n, str[h]) /\ n.next = "store" /\ n.dst = h
      /\ n.new = e /\ n.moved = NoString /\ n.src = g
  BY <1>4, <1>5 DEF OpRep, GivesUp
<1>7. QED
  BY <1>1, <1>6, NamesAssumption, GivingUpBegins DEF After

\* share_init_impl_ may begin, in each of its three branches.
LEMMA ShareFromStep ==
    ASSUME IInv, NEW t \in Threads, NEW h \in Strings, NEW g \in Strings,
           NEW fits \in BOOLEAN, Idle(t), Untouched(h), h # g, Unwritten(g),
           ShareFrom(t, h, g, fits)
    PROVE  IInv'
<1>0. SUFFICES ASSUME NEW s \in StringRep, s = str[g], NEW v \in Texts, v = s.val
               PROVE  IInv'
  BY TextIsText DEF StringRep
<1>1. CASE CopyBytes(t, h, g, Text(s), fits)
  BY <1>0, <1>1, TextIsText, CopyBytesStep
<1>2. ASSUME NEW n, n = WithSrc(Release(str[h], Operation("store", h, View(v, FALSE))), g), Begin(t, n)
      PROVE  IInv'
  BY <1>2, NamesAssumption, ShareViewStep
<1>3. ASSUME s.rep = "heap", IsSharable(s), ~s.own,
             NEW n, n = WithSrc(Release(str[h], Operation("share", h, EmptyString)), g), Begin(t, n)
      PROVE  IInv'
  <2>1. /\ n \in OpRep /\ GivesUp(n, str[h]) /\ n.next = "share" /\ n.dst = h
        /\ n.new = EmptyString /\ n.moved = NoString /\ n.src = g
    BY <1>3, EmptyStringRep, ReleaseRead DEF After
  <2>2. str[g].rep = "heap" /\ mem[str[g].blk].counted /\ ~str[g].own
    BY <1>0, <1>3 DEF IsSharable
  <2>3. QED
    BY <1>3, <2>1, <2>2, EmptyStringRep, NamesAssumption, GivingUpBegins DEF After
<1>4. QED
  BY <1>0, <1>1, <1>2, <1>3 DEF ShareFrom, WithSrc

\* An assignment from a const rvalue may begin.
LEMMA AssignSharedStep ==
    ASSUME IInv, NEW t \in Threads, NEW h \in Strings, NEW g \in Strings,
           AssignShared(t, h, g)
    PROVE  IInv'
BY ShareFromStep DEF AssignShared

\* h = g may begin.
LEMMA AssignCopyStep ==
    ASSUME IInv, NEW t \in Threads, NEW h \in Strings, NEW g \in Strings,
           AssignCopy(t, h, g)
    PROVE  IInv'
BY TextIsText, CopyBytesStep, ShareFromStep DEF AssignCopy

\* An edit may begin, in place, inline or in a new block.
LEMMA EditStep ==
    ASSUME IInv, NEW t \in Threads, NEW h \in Strings, NEW v \in Texts, Edit(t, h, v)
    PROVE  IInv'
<1>0. SUFFICES ASSUME NEW o \in BOOLEAN, o = str[h].own
               PROVE  IInv'
  BY TextIsText
<1>1. Idle(t) /\ Untouched(h)
  BY DEF Edit
<1>2. ASSUME str[h].rep = "heap", NEW n, n = InPlace(h, v, o), Begin(t, n)
      PROVE  IInv'
  <2>1. /\ n \in OpRep /\ n.pc = "write" /\ n.next = "idle" /\ n.dst = h
        /\ n.new.rep # "heap" /\ n.new.own = o /\ n.moved = NoString /\ n.src = NoString
    BY <1>2, InPlaceFields
  <2>2. QED
    BY <1>0, <1>1, <1>2, <2>1, NamesAssumption, InPlaceBegins
<1>3. ASSUME NEW n, n = Release(str[h], Operation("store", h, Sso(v, o))), Begin(t, n)
      PROVE  IInv'
  <2>1. /\ n \in OpRep /\ GivesUp(n, str[h]) /\ n.next = "store" /\ n.dst = h
        /\ n.new = Sso(v, o) /\ n.moved = NoString /\ n.src = NoString
    BY <1>3, Forms, ReleaseForm DEF After
  <2>2. QED
    BY <1>1, <1>3, <2>1, Forms, NamesAssumption, GivingUpBegins DEF After
<1>4. CASE Regrow(t, h, v, o)
  BY <1>1, <1>4, RegrowStep
<1>5. QED
  BY <1>0, <1>2, <1>3, <1>4 DEF Edit

\* reserve and shrink_to_fit may begin.
LEMMA ReserveStep ==
    ASSUME IInv, NEW t \in Threads, NEW h \in Strings, Reserve(t, h)
    PROVE  IInv'
BY TextIsText, RegrowStep DEF Reserve

\* as_always_ownerized(true) keeps an ownerized string alone with its block.
LEMMA OwnerizeStep ==
    ASSUME IInv, NEW t \in Threads, NEW h \in Strings, Ownerize(t, h)
    PROVE  IInv'
<1>1. Idle(t) /\ Untouched(h) /\ SoleHolder(h)
  BY DEF Ownerize
<1>2. CASE Regrow(t, h, Text(str[h]), TRUE)
  BY <1>1, <1>2, TextIsText, RegrowStep
<1>3. ASSUME str' = [str EXCEPT ![h].own = TRUE], UNCHANGED <<mem, op>>
      PROVE  IInv'
  <2>1. ASSUME str[h].rep = "heap"
        PROVE  HoldersOf[str[h].blk] = {h}
    <3>1. SUFFICES ASSUME NEW b, b = str[h].blk PROVE HoldersOf[b] = {h}
      OBVIOUS
    <3>2. b \in Blocks /\ h \in HoldersOf[b]
      BY <1>1, <2>1, <3>1, Pointing DEF Untouched, IInv
    <3>3. BlockOK(mem[b], HoldersOf[b], FreedOf[b], SoleOf[b])
      BY <3>2 DEF IInv, BlockInv
    <3>4. \A u \in Threads : u \in HoldersOf[b] => u = h
      <4> TAKE u \in Threads
      <4> HAVE u \in HoldersOf[b]
      <4>1. u \in SoleOf[b]
        BY <3>2, NamesAssumption DEF HoldersOf, Holders, HoldingStrings, SoleOf
      <4>2. QED
        BY <3>2, <3>3, <4>1 DEF BlockOK
    <3>5. \A g \in Strings : g \in HoldersOf[b] => g = h
      BY <1>1, <3>1, <3>2, NamesAssumption
      DEF SoleHolder, HoldersOf, Holders, HoldingStrings, BuildingThreads
    <3>6. HoldersOf[b] \subseteq Strings \cup Threads
      BY <3>2, HoldersFinite
    <3>7. QED
      BY <3>2, <3>4, <3>5, <3>6
  <2>2. QED
    BY <1>1, <1>3, <2>1, OwnStep
<1>4. QED
  BY <1>2, <1>3 DEF Ownerize

\* as_always_ownerized(false) gives a flag up and no block.
LEMMA DisownStep ==
    ASSUME IInv, NEW t \in Threads, NEW h \in Strings, Disown(t, h)
    PROVE  IInv'
BY OwnStep DEF Disown

\* A const member function may begin.
LEMMA ReadStep ==
    ASSUME IInv, NEW t \in Threads, NEW g \in Strings, Read(t, g)
    PROVE  IInv'
<1>1. SUFFICES ASSUME NEW n, n = [IdleOp EXCEPT !.pc = "read", !.src = g]
               PROVE  IInv'
  OBVIOUS
<1>2. Idle(t) /\ Unwritten(g) /\ Begin(t, n)
  BY <1>1 DEF Read
<1>3. /\ n \in OpRep /\ n.pc = "read" /\ n.next = "idle" /\ n.dst = NoString
      /\ n.src = g /\ n.moved = NoString /\ n.new = EmptyString
  <2> HIDE DEF IdleOp
  <2>1. QED
    BY <1>1, IdleOpFields DEF OpRep, Pcs
<1>4. OpFine(n)
  BY <1>3, EmptyStringRep DEF OpFine, Releasing, After
<1>5. Apart(t, n)
  BY <1>2, <1>3 DEF Apart, Unwritten
<1>6. Startable(t, n)
  BY <1>3, <1>4, <1>5, EmptyStringRep DEF Startable, After
<1>7. QED
  BY <1>2, <1>6, BeginStep DEF Idle

\* Storing the built value, or the inline text, ends the change of dst.
LEMMA StoreStep ==
    ASSUME IInv, NEW t \in Threads, Store(t)
    PROVE  IInv'
<1>1. CASE op[t].new.rep = "heap"
  BY <1>1, StoreBuiltStep
<1>2. CASE op[t].new.rep # "heap"
  <2>1. op[t].new \in StringRep /\ mem \in [Blocks -> BlockRep]
    BY DEF IInv, Shape, OpRep
  <2>2. op[t].pc = "store" /\ op' = [op EXCEPT ![t] = Finished(t)] /\ mem' = mem
    BY DEF Store
  <2>3. str' = [str EXCEPT ![op[t].dst] = op[t].new]
    BY DEF Store
  <2>4. QED
    BY <1>2, <2>1, <2>2, <2>3, FinishStep
<1>3. QED
  BY <1>1, <1>2

\* Writing in place changes a text, and nothing a count depends on.
LEMMA WriteInPlaceStep ==
    ASSUME IInv, NEW t \in Threads, WriteInPlace(t)
    PROVE  IInv'
<1>0. SUFFICES ASSUME NEW h, h = op[t].dst, NEW b, b = str[h].blk, NEW v, v = op[t].new.val
               PROVE  IInv'
  OBVIOUS
<1>1. op[t] \in OpRep /\ op[t].pc = "write" /\ OpFine(op[t])
  BY DEF IInv, Shape, WriteInPlace
<1>2. /\ h \in Strings /\ str[h].rep = "heap" /\ op[t].next = "idle"
      /\ op[t].new.own = str[h].own /\ op[t].new.rep # "heap" /\ v \in Texts
  BY <1>0, <1>1 DEF OpFine, Releasing, After, OpRep, StringRep
<1>3. b \in Blocks /\ str \in [Strings -> StringRep] /\ mem \in [Blocks -> BlockRep]
  BY <1>0, <1>2 DEF IInv, Shape
<1>4. mem' = [mem EXCEPT ![b].val = v] /\ mem[b] \in BlockRep
  BY <1>0, <1>3 DEF WriteInPlace
<1>5. /\ mem' \in [Blocks -> BlockRep]
      /\ \A c \in Blocks : /\ mem'[c].live = mem[c].live
                           /\ mem'[c].counted = mem[c].counted
                           /\ mem'[c].rc = mem[c].rc
  <2>1. \A c \in Blocks : mem'[c] = IF c = b THEN [mem[b] EXCEPT !.val = v] ELSE mem[c]
    BY <1>3, <1>4
  <2>2. [mem[b] EXCEPT !.val = v] \in BlockRep
    BY <1>2, <1>4 DEF BlockRep
  <2>3. QED
    BY <1>2, <1>3, <1>4, <2>1, <2>2 DEF BlockRep
<1>6. str' = [str EXCEPT ![h] = str[h]] /\ str[h] \in StringRep
  <2>1. str[h] \in StringRep /\ [str[h] EXCEPT !.own = str[h].own] = str[h]
    BY <1>2, <1>3 DEF StringRep
  <2>2. QED
    BY <1>0, <1>2, <2>1 DEF WriteInPlace
<1>7. op' = [op EXCEPT ![t] = Finished(t)]
  BY DEF WriteInPlace
<1>8. QED
  BY <1>0, <1>1, <1>2, <1>5, <1>6, <1>7, FinishStep

\* The end of a read leaves an idle thread.
LEMMA EndReadStep ==
    ASSUME IInv, NEW t \in Threads, EndRead(t)
    PROVE  IInv'
<1>1. op[t].pc = "read" /\ Begin(t, IdleOp)
  BY DEF EndRead, Begin
<1>2. QED
  BY <1>1, IdleStartable, BeginStep

\* The program starts with empty strings, free blocks and idle threads.
LEMMA InitIInv == Init => IInv
<1>0. SUFFICES ASSUME Init PROVE IInv
  OBVIOUS
<1>1. str \in [Strings -> StringRep] /\ \A h \in Strings : str[h].rep = "sso"
  BY <1>0, EmptyStringRep DEF Init
<1>2. FreeBlock \in BlockRep /\ ~FreeBlock.live
  BY TextsAssumption DEF FreeBlock, BlockRep, Texts
<1>3. mem \in [Blocks -> BlockRep] /\ \A b \in Blocks : ~mem[b].live /\ mem[b] \in BlockRep
  BY <1>0, <1>2 DEF Init
<1>4. op \in [Threads -> OpRep] /\ \A t \in Threads : op[t] = IdleOp
  BY <1>0, IdleOpFields DEF Init
<1> HIDE DEF IdleOp
<1>5. OpFine(IdleOp)
  BY IdleOpFields, EmptyStringRep DEF OpFine, Releasing, After
<1>6. \A t \in Threads : Apart(t, IdleOp)
  BY IdleOpFields DEF Apart
<1>7. Shape
  BY <1>1, <1>4, <1>5, <1>6 DEF Shape
<1>8. ASSUME NEW b \in Blocks
      PROVE  HoldersOf[b] = {} /\ FreedOf[b] = {} /\ SoleOf[b] = {}
  <2>1. HoldingStrings(b) = {}
    BY <1>1 DEF HoldingStrings
  <2>2. BuildingThreads(b) = {}
    BY <1>4, IdleOpFields, EmptyStringRep DEF BuildingThreads
  <2>3. QED
    BY <2>1, <2>2 DEF HoldersOf, Holders, FreedOf, SoleOf
<1>9. BlockInv
  BY <1>3, <1>8, Unheld DEF BlockInv
<1>10. QED
  BY <1>3, <1>7, <1>9 DEF IInv

\* A step of an operation in progress preserves the invariant.
LEMMA StepPreserves ==
    ASSUME IInv, NEW t \in Threads, Step(t)
    PROVE  IInv'
BY LoadCountStep, FetchSubStep, DeallocateStep, StoreStep, ShareStep, AdoptStep,
   AllocateCopyStep, WriteInPlaceStep, EndReadStep
DEF Step

\* So does the beginning of any operation.
LEMMA CallPreserves ==
    ASSUME IInv, ~MoveAcrossOwnerized, NEW t \in Threads, Call(t)
    PROVE  IInv'
<1>1. PICK h \in Strings :
        \/ Destroy(t, h)
        \/ Reserve(t, h)
        \/ Ownerize(t, h)
        \/ Disown(t, h)
        \/ Read(t, h)
        \/ \E v \in Texts : AssignLiteral(t, h, v) \/ Edit(t, h, v)
        \/ \E g \in Strings : Move(t, h, g) \/ AssignShared(t, h, g)
                                \/ AssignCopy(t, h, g)
  BY DEF Call
<1>2. CASE Destroy(t, h) \/ Reserve(t, h) \/ Ownerize(t, h) \/ Disown(t, h) \/ Read(t, h)
  BY <1>2, DestroyStep, ReserveStep, OwnerizeStep, DisownStep, ReadStep
<1>3. CASE \E v \in Texts : AssignLiteral(t, h, v) \/ Edit(t, h, v)
  BY <1>3, AssignLiteralStep, EditStep
<1>4. CASE \E g \in Strings : Move(t, h, g) \/ AssignShared(t, h, g) \/ AssignCopy(t, h, g)
  BY <1>4, MoveStep, AssignSharedStep, AssignCopyStep
<1>5. QED
  BY <1>1, <1>2, <1>3, <1>4

\* A stuttering step changes nothing the invariant speaks of.
LEMMA StutterPreserves ==
    ASSUME IInv, UNCHANGED vars
    PROVE  IInv'
<1>1. str' = str /\ mem' = mem /\ op' = op
  BY DEF vars
<1>2. Shape'
  BY <1>1 DEF IInv, Shape, OpFine, Apart
<1>3. HoldersOf' = HoldersOf /\ FreedOf' = FreedOf /\ SoleOf' = SoleOf
  BY <1>1 DEF HoldersOf, Holders, HoldingStrings, BuildingThreads, GivenUp,
              FreedOf, SoleOf, Freed
<1>4. QED
  BY <1>1, <1>2, <1>3 DEF IInv, BlockInv, BlockOK

\* The invariant holds in every reachable state.
LEMMA Invariance ==
    ASSUME ~MoveAcrossOwnerized
    PROVE  Spec => []IInv
<1>1. IInv /\ [Next]_vars => IInv'
  BY StepPreserves, CallPreserves, StutterPreserves DEF Next
<1>2. QED
  BY InitIInv, <1>1, PTL DEF Spec

\* Where a thread is freeing a block, its string is the block's only holder.
LEMMA FreeingAlone ==
    ASSUME IInv, NEW t \in Threads, NEW b \in Blocks, Freeing(t, b)
    PROVE  /\ op[t].dst \in FreedOf[b] /\ Holders(b) = {op[t].dst} /\ mem[b].live
           /\ \A u \in Threads \ {t} : ~Freeing(u, b)
<1> DEFINE h == op[t].dst
<1>1. op[t].pc = "free" /\ str[h].blk = b /\ OpFine(op[t])
  BY DEF Freeing, IInv, Shape
<1>2. h \in Strings /\ str[h].rep = "heap"
  BY <1>1 DEF OpFine, Releasing
<1>3. \A u \in Threads \ {t} : op[u].dst # h
  BY <1>2, NamesAssumption DEF IInv, Shape, Apart
<1>4. h \in FreedOf[b]
  BY <1>1, <1>2, <1>3, HoldersNow DEF After
<1>5. BlockOK(mem[b], HoldersOf[b], FreedOf[b], SoleOf[b])
  BY DEF IInv, BlockInv
<1>6. HoldersOf[b] = {h} /\ mem[b].live
  BY <1>4, <1>5 DEF BlockOK
<1>7. ASSUME NEW u \in Threads \ {t}, Freeing(u, b)
      PROVE  FALSE
  <2> DEFINE g == op[u].dst
  <2>1. op[u].pc = "free" /\ str[g].blk = b /\ OpFine(op[u])
    BY <1>7 DEF Freeing, IInv, Shape
  <2>2. g \in Strings /\ str[g].rep = "heap"
    BY <2>1 DEF OpFine, Releasing
  <2>3. \A w \in Threads \ {u} : op[w].dst # g
    BY <2>2, NamesAssumption DEF IInv, Shape, Apart
  <2>4. g \in HoldersOf[b]
    BY <2>1, <2>2, <2>3, HoldersNow DEF After
  <2>5. QED
    BY <1>3, <1>6, <2>4
<1>8. QED
  BY <1>4, <1>6, <1>7 DEF HoldersOf

(***************************************************************************)
(* Texts: who may write into a block that has no count.                    *)
(***************************************************************************)

\* Two strings that point at one block and have not given it up share it by
\* its count.
LEMMA SharedIsCounted ==
    ASSUME IInv, NEW g \in Strings, NEW h \in Strings, g # h,
           str[g].rep = "heap", str[h].rep = "heap", str[g].blk = str[h].blk,
           \A u \in Threads : op[u].dst \in {g, h} => op[u].pc \notin After
    PROVE  mem[str[g].blk].counted
<1>0. SUFFICES ASSUME NEW b, b = str[g].blk PROVE mem[b].counted
  OBVIOUS
<1>1. b \in Blocks /\ g \in HoldersOf[b] /\ h \in HoldersOf[b]
  BY <1>0, Pointing DEF IInv
<1>2. BlockOK(mem[b], HoldersOf[b], FreedOf[b], SoleOf[b])
  BY <1>1 DEF IInv, BlockInv
<1>3. FreedOf[b] = {} /\ mem[b].live
  BY <1>1, <1>2 DEF BlockOK
<1>4. Cardinality(HoldersOf[b]) # 1
  BY <1>1, HoldersFinite, FS_Singleton
<1>5. QED
  BY <1>2, <1>3, <1>4 DEF BlockOK

\* A string no operation changes.
Left(h) == \A t \in Threads : h \notin {op[t].dst, op[t].moved}

\* A string that is left alone, and its block if it has one.
LEMMA LeftHolds ==
    ASSUME IInv, NEW h \in Strings, Left(h), str[h].rep = "heap"
    PROVE  /\ str[h].blk \in Blocks /\ mem[str[h].blk].live
           /\ \A t \in Threads : op[t].pc = "free" => str[op[t].dst].blk # str[h].blk
           /\ \A t \in Threads : op[t].pc = "write" /\ ~mem[str[h].blk].counted =>
                  str[op[t].dst].blk # str[h].blk
<1>0. SUFFICES ASSUME NEW b, b = str[h].blk
               PROVE  /\ b \in Blocks /\ mem[b].live
                      /\ \A t \in Threads : op[t].pc = "free" => str[op[t].dst].blk # b
                      /\ \A t \in Threads : op[t].pc = "write" /\ ~mem[b].counted =>
                             str[op[t].dst].blk # b
  OBVIOUS
<1>1. b \in Blocks /\ h \in HoldersOf[b]
  BY <1>0, Pointing DEF IInv, Left
<1>2. mem[b].live
  BY <1>1 DEF IInv, BlockInv, BlockOK
<1>3. ASSUME NEW t \in Threads, op[t].pc = "free", str[op[t].dst].blk = b
      PROVE  FALSE
  <2>1. Holders(b) = {op[t].dst}
    BY <1>1, <1>3, FreeingAlone DEF Freeing
  <2>2. QED
    BY <1>1, <2>1 DEF HoldersOf, Left
<1>4. ASSUME NEW t \in Threads, op[t].pc = "write", ~mem[b].counted, str[op[t].dst].blk = b
      PROVE  FALSE
  <2>1. op[t].dst \in Strings /\ str[op[t].dst].rep = "heap"
    BY <1>4 DEF IInv, Shape, OpFine
  <2>2. \A u \in Threads \ {t} : op[u].dst # op[t].dst
    BY <2>1, NamesAssumption DEF IInv, Shape, Apart
  <2>3. \A u \in Threads : op[u].dst \in {op[t].dst, h} => op[u].pc \notin After
    BY <1>4, <2>2 DEF Left, After
  <2>4. QED
    BY <1>0, <1>4, <2>1, <2>3, SharedIsCounted DEF Left
<1>5. QED
  BY <1>1, <1>2, <1>3, <1>4

\* What a step does to the text of h.
TextKept(h) == Text(str[h])' = Text(str[h])

\* A step that keeps the fields of h and the text in its block.
LEMMA FieldsKept ==
    ASSUME NEW h, str'[h].rep = str[h].rep, str'[h].blk = str[h].blk, str'[h].val = str[h].val,
           str[h].rep = "heap" => mem'[str[h].blk].val = mem[str[h].blk].val
    PROVE  TextKept(h)
BY DEF TextKept, Text

\* The steps of an operation in progress write its own strings, and blocks
\* nobody else holds or that are counted.
LEMMA StepKeepsText ==
    ASSUME IInv, NEW t \in Threads, Step(t), NEW h \in Strings, Left(h),
           str[h].rep = "heap" => ~mem[str[h].blk].counted
    PROVE  TextKept(h)
<1>0. str \in [Strings -> StringRep] /\ mem \in [Blocks -> BlockRep]
  BY DEF IInv, Shape
<1>1. h # op[t].dst /\ h # op[t].moved
  BY DEF Left
<1>2. CASE str' = str /\ mem' = mem
  BY <1>2, FieldsKept
<1>3. CASE FetchSub(t)
  <2>1. str' = str /\ mem' = [mem EXCEPT ![str[op[t].dst].blk].rc = @ - 1]
    BY <1>3 DEF FetchSub
  <2>2. str[h].rep = "heap" => mem'[str[h].blk].val = mem[str[h].blk].val
    BY <1>0, <2>1, LeftHolds DEF BlockRep
  <2>3. QED
    BY <2>1, <2>2, FieldsKept
<1>4. CASE Deallocate(t)
  <2>1. /\ str' = str /\ mem' = [mem EXCEPT ![str[op[t].dst].blk] = FreeBlock]
        /\ op[t].pc = "free"
    BY <1>4 DEF Deallocate
  <2>2. str[h].rep = "heap" => mem'[str[h].blk].val = mem[str[h].blk].val
    BY <1>0, <2>1, LeftHolds
  <2>3. QED
    BY <2>1, <2>2, FieldsKept
<1>5. CASE Store(t)
  <2>1. str'[h] = str[h] /\ mem' = mem
    BY <1>0, <1>1, <1>5 DEF Store
  <2>2. QED
    BY <2>1, FieldsKept
<1>6. CASE Share(t)
  <2>1. /\ str'[h] = str[h]
        /\ mem' = [mem EXCEPT ![str[op[t].src].blk].rc = @ + 1]
    BY <1>0, <1>1, <1>6 DEF Share
  <2>2. str[h].rep = "heap" => mem'[str[h].blk].val = mem[str[h].blk].val
    BY <1>0, <2>1, LeftHolds DEF BlockRep
  <2>3. QED
    BY <2>1, <2>2, FieldsKept
<1>7. CASE Adopt(t)
  <2>1. str'[h] = str[h] /\ mem' = mem
    BY <1>0, <1>1, <1>7 DEF Adopt
  <2>2. QED
    BY <2>1, FieldsKept
<1>8. CASE AllocateCopy(t)
  <2>1. str'[h] = str[h]
    BY <1>0, <1>1, <1>8 DEF AllocateCopy
  <2>2. \/ \E b \in Blocks, c \in Counting :
              ~mem[b].live /\ mem' = [mem EXCEPT ![b] = NewBlock(c, op[t].new.val)]
        \/ mem' = mem
    BY <1>8 DEF AllocateCopy
  <2>3. str[h].rep = "heap" => mem'[str[h].blk].val = mem[str[h].blk].val
    BY <1>0, <2>2, LeftHolds
  <2>4. QED
    BY <2>1, <2>3, FieldsKept
<1>9. CASE WriteInPlace(t)
  <2>1. /\ str'[h] = str[h] /\ op[t].pc = "write"
        /\ mem' = [mem EXCEPT ![str[op[t].dst].blk].val = op[t].new.val]
    BY <1>0, <1>1, <1>9 DEF WriteInPlace
  <2>2. str[h].rep = "heap" => mem'[str[h].blk].val = mem[str[h].blk].val
    BY <1>0, <2>1, LeftHolds
  <2>3. QED
    BY <2>1, <2>2, FieldsKept
<1>10. QED
  BY <1>2, <1>3, <1>4, <1>5, <1>6, <1>7, <1>8, <1>9 DEF Step, LoadCount, EndRead

\* The beginning of an operation writes no text but that of a new block.
LEMMA RegrowKeepsText ==
    ASSUME IInv, NEW t, NEW h \in Strings, Left(h), NEW g, NEW v, NEW o, Regrow(t, g, v, o)
    PROVE  TextKept(h)
<1>1. mem \in [Blocks -> BlockRep]
  BY DEF IInv, Shape
<1>2. str' = str /\ \E b \in Blocks, c \in Counting :
        ~mem[b].live /\ mem' = [mem EXCEPT ![b] = NewBlock(c, v)]
  BY DEF Regrow
<1>3. str[h].rep = "heap" => mem'[str[h].blk].val = mem[str[h].blk].val
  BY <1>1, <1>2, LeftHolds
<1>4. QED
  BY <1>2, <1>3, FieldsKept

LEMMA CallKeepsText ==
    ASSUME IInv, NEW t \in Threads, Call(t), NEW h \in Strings, Left(h)
    PROVE  TextKept(h)
<1>1. PICK g \in Strings :
        \/ Destroy(t, g)
        \/ Reserve(t, g)
        \/ Ownerize(t, g)
        \/ Disown(t, g)
        \/ Read(t, g)
        \/ \E v \in Texts : AssignLiteral(t, g, v) \/ Edit(t, g, v)
        \/ \E f \in Strings : Move(t, g, f) \/ AssignShared(t, g, f)
                                \/ AssignCopy(t, g, f)
  BY DEF Call
<1>2. ASSUME NEW o, Begin(t, o) PROVE TextKept(h)
  BY <1>2, FieldsKept DEF Begin
<1>3. ASSUME NEW own, str' = [str EXCEPT ![g].own = own], mem' = mem
      PROVE  TextKept(h)
  <2>1. str \in [Strings -> StringRep]
    BY DEF IInv, Shape
  <2>2. /\ str'[h].rep = str[h].rep /\ str'[h].blk = str[h].blk
        /\ str'[h].val = str[h].val
    BY <1>3, <2>1 DEF StringRep
  <2>3. QED
    BY <1>3, <2>2, FieldsKept
<1>4. CASE Destroy(t, g) \/ Read(t, g)
  BY <1>2, <1>4 DEF Destroy, Read
<1>5. CASE Reserve(t, g) \/ Ownerize(t, g) \/ Disown(t, g)
  BY <1>3, <1>5, RegrowKeepsText DEF Reserve, Ownerize, Disown
<1>6. ASSUME NEW s, NEW f, MoveFrom(t, g, s, f) PROVE TextKept(h)
  BY <1>2, <1>6 DEF MoveFrom
<1>7. ASSUME NEW v \in Texts, AssignLiteral(t, g, v) \/ Edit(t, g, v) PROVE TextKept(h)
  <2>1. CASE AssignLiteral(t, g, v)
    BY <1>6, <2>1 DEF AssignLiteral
  <2>2. CASE Edit(t, g, v)
    BY <1>2, <2>2, RegrowKeepsText DEF Edit
  <2>3. QED
    BY <1>7, <2>1, <2>2
<1>8. ASSUME NEW f, NEW fits, ShareFrom(t, g, f, fits) PROVE TextKept(h)
  BY <1>2, <1>8 DEF ShareFrom, CopyBytes
<1>9. ASSUME NEW f \in Strings, Move(t, g, f) \/ AssignShared(t, g, f) \/ AssignCopy(t, g, f)
      PROVE  TextKept(h)
  BY <1>2, <1>6, <1>8, <1>9 DEF Move, AssignShared, AssignCopy, CopyBytes
<1>10. QED
  BY <1>1, <1>4, <1>5, <1>7, <1>9

\* The fields of every string, block and operation stay within their types.
THEOREM TypeCorrect ==
    ASSUME ~MoveAcrossOwnerized
    PROVE  Spec => []TypeOK
<1>1. IInv => TypeOK
  BY DEF IInv, Shape, TypeOK
<1>2. QED
  BY <1>1, Invariance, PTL

\* The hidden count of a block equals the number of its holders, whatever the
\* interleaving of the loads, fetch_subs and fetch_adds (deinit_heap_and_ask,
\* add_shareholder of heaps.hpp), for any number of strings and threads.
THEOREM CountIsTheHolders ==
    ASSUME ~MoveAcrossOwnerized
    PROVE  Spec => []CountIsHolders
<1>1. IInv => CountIsHolders
  <2>1. SUFFICES ASSUME IInv, NEW b \in Blocks, mem[b].live,
                        \A t \in Threads : ~Freeing(t, b)
                 PROVE  Cardinality(Holders(b)) = (IF mem[b].counted THEN mem[b].rc ELSE 1)
    BY DEF CountIsHolders
  <2>2. FreedOf[b] = {}
    BY <2>1 DEF FreedOf, HoldingStrings, Freed, Freeing
  <2>3. BlockOK(mem[b], HoldersOf[b], FreedOf[b], SoleOf[b])
    BY <2>1 DEF IInv, BlockInv
  <2>4. QED
    BY <2>1, <2>2, <2>3 DEF BlockOK, HoldersOf
<1>2. QED
  BY <1>1, Invariance, PTL

\* A string that has not given its block up points at an allocated one.
THEOREM NothingDangles ==
    ASSUME ~MoveAcrossOwnerized
    PROVE  Spec => []NoDangling
<1>1. IInv => NoDangling
  BY DEF IInv, BlockInv, BlockOK, HoldersOf, NoDangling
<1>2. QED
  BY <1>1, Invariance, PTL

\* A block is deallocated by its last holder, and by one thread only (free_p).
THEOREM LastHolderFrees ==
    ASSUME ~MoveAcrossOwnerized
    PROVE  Spec => []FreedByLastHolder
<1>1. IInv => FreedByLastHolder
  BY FreeingAlone DEF FreedByLastHolder
<1>2. QED
  BY <1>1, Invariance, PTL

\* No block is lost: while it is allocated somebody holds it.
THEOREM NothingLeaks ==
    ASSUME ~MoveAcrossOwnerized
    PROVE  Spec => []NoLeak
<1>1. IInv => NoLeak
  BY DEF IInv, BlockInv, BlockOK, HoldersOf, NoLeak
<1>2. QED
  BY <1>1, Invariance, PTL

\* The in-place writer of a block that has no count is alone with it, for any
\* number of threads: no other thread reads or writes a string of that block
\* (has_room_for and is_owner before memcpy_to_non_sso).
THEOREM WritersAreAlone ==
    ASSUME ~MoveAcrossOwnerized
    PROVE  Spec => []NoRace
<1>1. ASSUME IInv, NEW t \in Threads, NEW u \in Threads, t # u,
             op[t].pc = "write", op[u].pc \in {"read", "write"},
             NEW h, h = (IF op[u].pc = "read" THEN op[u].src ELSE op[u].dst),
             str[h].rep = "heap", str[h].blk = str[op[t].dst].blk
      PROVE  mem[str[op[t].dst].blk].counted
  <2>1. op[t].dst \in Strings /\ str[op[t].dst].rep = "heap"
    BY <1>1 DEF IInv, Shape, OpFine
  <2>2. h \in Strings
    BY <1>1 DEF IInv, Shape, OpFine
  <2>3. \A w \in Threads \ {u} : h # op[w].dst
    BY <1>1, <2>2, NamesAssumption DEF IInv, Shape, Apart
  <2>4. \A w \in Threads \ {t} : op[t].dst # op[w].dst
    BY <1>1, <2>1, NamesAssumption DEF IInv, Shape, Apart
  <2>5. \A w \in Threads : op[w].dst \in {op[t].dst, h} => op[w].pc \notin After
    BY <1>1, <2>3, <2>4 DEF After
  <2>6. QED
    BY <1>1, <2>1, <2>2, <2>3, <2>5, SharedIsCounted
<1>2. IInv => NoRace
  BY <1>1 DEF NoRace
<1>3. QED
  BY <1>2, Invariance, PTL

\* A step changes the text of no string but those its own operation is called
\* on and those in a counted block (is_owner_no_heap lets the latter happen).
THEOREM UncountedTextsKept ==
    ASSUME ~MoveAcrossOwnerized
    PROVE  Spec => UncountedKept
<1>1. ASSUME IInv, [Next]_vars, NEW h \in Strings, Left(h),
             str[h].rep = "heap" => ~mem[str[h].blk].counted
      PROVE  TextKept(h)
  <2>1. CASE UNCHANGED vars
    BY <2>1, FieldsKept DEF vars
  <2>2. CASE Next
    BY <1>1, <2>2, StepKeepsText, CallKeepsText DEF Next
  <2>3. QED
    BY <1>1, <2>1, <2>2
<1>2. IInv /\ [Next]_vars => [UncountedTextKept]_vars
  BY <1>1 DEF UncountedTextKept, Left, TextKept
<1>3. QED
  BY <1>2, Invariance, PTL DEF Spec, UncountedKept


-----------------------------------------------------------------------------
(* uint_to_dec_par_impl_exact_, up to ten digits. *)

\* uint_to_dec_par_impl_exact_<3> prints every byte: the two tables and the
\* multiplication agree with the decimal digits.
THEOREM Exact3BytePrints ==
  \A n \in Nat : n < 256 =>
    Exact3Byte(n) = <<Slice(n, 1000, 10),
               Slice(n, 10, 1)>>
<1> SUFFICES ASSUME NEW n \in Nat, n < 256
             PROVE  Exact3Byte(n) =
             <<Slice(n, 1000, 10),
               Slice(n, 10, 1)>>
  OBVIOUS
<1> DEFINE r1 == Word32(205 * n)
           x1 == n % 10
           f1 == r1 % S11
<1>1. /\ r1 \div S11 = n \div 10
      /\ x1 \in Nat /\ x1 < 10 /\ f1 \in Nat /\ f1 < S11
      /\ S11 * x1 <= 10 * f1 /\ 10 * f1 < S11 * (x1 + 1)
  BY SMTT(60) DEF Word, Word32, S64, S32, S11
<1> HIDE DEF r1, x1, f1
<1> DEFINE r2 == Word32(f1 * 5)
           x2 == 0
           f2 == r2 % (S11 \div 2)
<1>2. r2 \div (S11 \div 2) = x1
  BY <1>1, SMTT(60) DEF Word, Word32, S64, S32, S11
<1> HIDE DEF r2, x2, f2
<1>3. x1 = n % 10
  BY DEF x1
<1>4. Exact3Byte(n) = <<r1 \div S11, r2 \div (S11 \div 2)>>
  BY DEF Exact3Byte, Next32, r1, f1, r2, f2
<1>5. /\ Slice(n, 1000, 10) = n \div 10
      /\ Slice(n, 10, 1) = x1
  BY <1>3, SMTT(30) DEF Slice
<1> QED
  BY <1>1, <1>2, <1>4, <1>5

\* uint_to_dec_par_impl_exact_<3> prints the three digits of wider types.
THEOREM Exact3Prints ==
  \A n \in Nat : n < 1000 =>
    Exact3(n) = <<Slice(n, 1000, 10),
               Slice(n, 10, 1)>>
<1> SUFFICES ASSUME NEW n \in Nat, n < 1000
             PROVE  Exact3(n) =
             <<Slice(n, 1000, 10),
               Slice(n, 10, 1)>>
  OBVIOUS
<1> DEFINE r1 == Word32(1639 * n)
           x1 == n % 10
           f1 == r1 % S14
<1>1. /\ r1 \div S14 = n \div 10
      /\ x1 \in Nat /\ x1 < 10 /\ f1 \in Nat /\ f1 < S14
      /\ S14 * x1 <= 10 * f1 /\ 10 * f1 < S14 * (x1 + 1)
  BY SMTT(60) DEF Word, Word32, S64, S32, S14
<1> HIDE DEF r1, x1, f1
<1> DEFINE r2 == Word32(f1 * 5)
           x2 == 0
           f2 == r2 % (S14 \div 2)
<1>2. r2 \div (S14 \div 2) = x1
  BY <1>1, SMTT(60) DEF Word, Word32, S64, S32, S14
<1> HIDE DEF r2, x2, f2
<1>3. x1 = n % 10
  BY DEF x1
<1>4. Exact3(n) = <<r1 \div S14, r2 \div (S14 \div 2)>>
  BY DEF Exact3, Next32, r1, f1, r2, f2
<1>5. /\ Slice(n, 1000, 10) = n \div 10
      /\ Slice(n, 10, 1) = x1
  BY <1>3, SMTT(30) DEF Slice
<1> QED
  BY <1>1, <1>2, <1>4, <1>5

\* uint_to_dec_par_impl_exact_<4> prints four digits in 32-bit arithmetic.
THEOREM Exact4Prints ==
  \A n \in Nat : n < 10000 =>
    Exact4(n) = <<Slice(n, 10000, 100),
               Slice(n, 100, 1)>>
<1> SUFFICES ASSUME NEW n \in Nat, n < 10000
             PROVE  Exact4(n) =
             <<Slice(n, 10000, 100),
               Slice(n, 100, 1)>>
  OBVIOUS
<1> DEFINE r1 == Word32(5243 * n)
           x1 == n % 100
           f1 == r1 % S19
<1>1. /\ r1 \div S19 = n \div 100
      /\ x1 \in Nat /\ x1 < 100 /\ f1 \in Nat /\ f1 < S19
      /\ S19 * x1 <= 100 * f1 /\ 100 * f1 < S19 * (x1 + 1)
  BY SMTT(60) DEF Word, Word32, S64, S32, S19
<1> HIDE DEF r1, x1, f1
<1> DEFINE r2 == Word32(f1 * 25)
           x2 == 0
           f2 == r2 % (S19 \div 4)
<1>2. r2 \div (S19 \div 4) = x1
  BY <1>1, SMTT(60) DEF Word, Word32, S64, S32, S19
<1> HIDE DEF r2, x2, f2
<1>3. x1 = n % 100
  BY DEF x1
<1>4. Exact4(n) = <<r1 \div S19, r2 \div (S19 \div 4)>>
  BY DEF Exact4, Next32, r1, f1, r2, f2
<1>5. /\ Slice(n, 10000, 100) = n \div 100
      /\ Slice(n, 100, 1) = x1
  BY <1>3, SMTT(30) DEF Slice
<1> QED
  BY <1>1, <1>2, <1>4, <1>5

\* uint_to_dec_par_impl_exact_<5> prints five digits; the product is of 64 bits,
\* the fractions of 32.
THEOREM Exact5Prints ==
  \A n \in Nat : n < 100000 =>
    Exact5(n) = <<Slice(n, 100000, 1000),
               Slice(n, 1000, 10),
               Slice(n, 10, 1)>>
<1> SUFFICES ASSUME NEW n \in Nat, n < 100000
             PROVE  Exact5(n) =
             <<Slice(n, 100000, 1000),
               Slice(n, 1000, 10),
               Slice(n, 10, 1)>>
  OBVIOUS
<1> DEFINE r1 == Word(67109 * n)
           x1 == n % 1000
           f1 == r1 % S26
<1>1. /\ r1 \div S26 = n \div 1000
      /\ x1 \in Nat /\ x1 < 1000 /\ f1 \in Nat /\ f1 < S26
      /\ S26 * x1 <= 1000 * f1 /\ 1000 * f1 < S26 * (x1 + 1)
  BY SMTT(60) DEF Word, Word32, S64, S32, S26
<1> HIDE DEF r1, x1, f1
<1> DEFINE r2 == Word32(f1 * 25)
           x2 == x1 % 10
           f2 == r2 % (S26 \div 4)
<1>2. /\ r2 \div (S26 \div 4) = x1 \div 10
      /\ x2 \in Nat /\ x2 < 10 /\ f2 \in Nat /\ f2 < (S26 \div 4)
      /\ (S26 \div 4) * x2 <= 10 * f2 /\ 10 * f2 < (S26 \div 4) * (x2 + 1)
  BY <1>1, SMTT(60) DEF Word, Word32, S64, S32, S26
<1> HIDE DEF r2, x2, f2
<1> DEFINE r3 == Word32(f2 * 5)
           x3 == 0
           f3 == r3 % (S26 \div 8)
<1>3. r3 \div (S26 \div 8) = x2
  BY <1>2, SMTT(60) DEF Word, Word32, S64, S32, S26
<1> HIDE DEF r3, x3, f3
<1>4. x1 = n % 1000
  BY DEF x1
<1>5. x2 = n % 10
  BY <1>4, SMTT(30) DEF x2
<1>6. Exact5(n) = <<r1 \div S26, r2 \div (S26 \div 4), r3 \div (S26 \div 8)>>
  BY DEF Exact5, Next32, r1, f1, r2, f2, r3, f3
<1>7. /\ Slice(n, 100000, 1000) = n \div 1000
      /\ Slice(n, 1000, 10) = x1 \div 10
      /\ Slice(n, 10, 1) = x2
  BY <1>4, <1>5, SMTT(30) DEF Slice
<1> QED
  BY <1>1, <1>2, <1>3, <1>6, <1>7

\* uint_to_dec_par_impl_exact_<6> prints six digits.
THEOREM Exact6Prints ==
  \A n \in Nat : n < 1000000 =>
    Exact6(n) = <<Slice(n, 1000000, 10000),
               Slice(n, 10000, 100),
               Slice(n, 100, 1)>>
<1> SUFFICES ASSUME NEW n \in Nat, n < 1000000
             PROVE  Exact6(n) =
             <<Slice(n, 1000000, 10000),
               Slice(n, 10000, 100),
               Slice(n, 100, 1)>>
  OBVIOUS
<1> DEFINE r1 == Word(1717987 * n)
           x1 == n % 10000
           f1 == r1 % S34
<1>1. /\ r1 \div S34 = n \div 10000
      /\ x1 \in Nat /\ x1 < 10000 /\ f1 \in Nat /\ f1 < S34
      /\ S34 * x1 <= 10000 * f1 /\ 10000 * f1 < S34 * (x1 + 1)
  BY SMTT(60) DEF Word, Word32, S64, S32, S34
<1> HIDE DEF r1, x1, f1
<1> DEFINE r2 == Word(f1 * 25)
           x2 == x1 % 100
           f2 == r2 % (S34 \div 4)
<1>2. /\ r2 \div (S34 \div 4) = x1 \div 100
      /\ x2 \in Nat /\ x2 < 100 /\ f2 \in Nat /\ f2 < (S34 \div 4)
      /\ (S34 \div 4) * x2 <= 100 * f2 /\ 100 * f2 < (S34 \div 4) * (x2 + 1)
  BY <1>1, SMTT(60) DEF Word, Word32, S64, S32, S34
<1> HIDE DEF r2, x2, f2
<1> DEFINE r3 == Word(f2 * 25)
           x3 == 0
           f3 == r3 % (S34 \div 16)
<1>3. r3 \div (S34 \div 16) = x2
  BY <1>2, SMTT(60) DEF Word, Word32, S64, S32, S34
<1> HIDE DEF r3, x3, f3
<1>4. x1 = n % 10000
  BY DEF x1
<1>5. x2 = n % 100
  BY <1>4, SMTT(30) DEF x2
<1>6. Exact6(n) = <<r1 \div S34, r2 \div (S34 \div 4), r3 \div (S34 \div 16)>>
  BY DEF Exact6, Next64, r1, f1, r2, f2, r3, f3
<1>7. /\ Slice(n, 1000000, 10000) = n \div 10000
      /\ Slice(n, 10000, 100) = x1 \div 100
      /\ Slice(n, 100, 1) = x2
  BY <1>4, <1>5, SMTT(30) DEF Slice
<1> QED
  BY <1>1, <1>2, <1>3, <1>6, <1>7

\* uint_to_dec_par_impl_exact_<7> prints seven digits.
THEOREM Exact7Prints ==
  \A n \in Nat : n < 10000000 =>
    Exact7(n) = <<Slice(n, 10000000, 100000),
               Slice(n, 100000, 1000),
               Slice(n, 1000, 10),
               Slice(n, 10, 1)>>
<1> SUFFICES ASSUME NEW n \in Nat, n < 10000000
             PROVE  Exact7(n) =
             <<Slice(n, 10000000, 100000),
               Slice(n, 100000, 1000),
               Slice(n, 1000, 10),
               Slice(n, 10, 1)>>
  OBVIOUS
<1> DEFINE r1 == Word(21990233 * n)
           x1 == n % 100000
           f1 == r1 % S41
<1>1. /\ r1 \div S41 = n \div 100000
      /\ x1 \in Nat /\ x1 < 100000 /\ f1 \in Nat /\ f1 < S41
      /\ S41 * x1 <= 100000 * f1 /\ 100000 * f1 < S41 * (x1 + 1)
  BY SMTT(60) DEF Word, Word32, S64, S32, S41
<1> HIDE DEF r1, x1, f1
<1> DEFINE r2 == Word(f1 * 25)
           x2 == x1 % 1000
           f2 == r2 % (S41 \div 4)
<1>2. /\ r2 \div (S41 \div 4) = x1 \div 1000
      /\ x2 \in Nat /\ x2 < 1000 /\ f2 \in Nat /\ f2 < (S41 \div 4)
      /\ (S41 \div 4) * x2 <= 1000 * f2 /\ 1000 * f2 < (S41 \div 4) * (x2 + 1)
  BY <1>1, SMTT(60) DEF Word, Word32, S64, S32, S41
<1> HIDE DEF r2, x2, f2
<1> DEFINE r3 == Word(f2 * 25)
           x3 == x2 % 10
           f3 == r3 % (S41 \div 16)
<1>3. /\ r3 \div (S41 \div 16) = x2 \div 10
      /\ x3 \in Nat /\ x3 < 10 /\ f3 \in Nat /\ f3 < (S41 \div 16)
      /\ (S41 \div 16) * x3 <= 10 * f3 /\ 10 * f3 < (S41 \div 16) * (x3 + 1)
  BY <1>2, SMTT(60) DEF Word, Word32, S64, S32, S41
<1> HIDE DEF r3, x3, f3
<1> DEFINE r4 == Word(f3 * 5)
           x4 == 0
           f4 == r4 % (S41 \div 32)
<1>4. r4 \div (S41 \div 32) = x3
  BY <1>3, SMTT(60) DEF Word, Word32, S64, S32, S41
<1> HIDE DEF r4, x4, f4
<1>5. x1 = n % 100000
  BY DEF x1
<1>6. x2 = n % 1000
  BY <1>5, SMTT(30) DEF x2
<1>7. x3 = n % 10
  BY <1>6, SMTT(30) DEF x3
<1>8. Exact7(n) = <<r1 \div S41, r2 \div (S41 \div 4), r3 \div (S41 \div 16), r4 \div (S41 \div 32)>>
  BY DEF Exact7, Next64, r1, f1, r2, f2, r3, f3, r4, f4
<1>9. /\ Slice(n, 10000000, 100000) = n \div 100000
      /\ Slice(n, 100000, 1000) = x1 \div 1000
      /\ Slice(n, 1000, 10) = x2 \div 10
      /\ Slice(n, 10, 1) = x3
  BY <1>5, <1>6, <1>7, SMTT(30) DEF Slice
<1> QED
  BY <1>1, <1>2, <1>3, <1>4, <1>8, <1>9

\* uint_to_dec_par_impl_exact_<8> prints eight digits.
THEOREM Exact8Prints ==
  \A n \in Nat : n < 100000000 =>
    Exact8(n) = <<Slice(n, 100000000, 1000000),
               Slice(n, 1000000, 10000),
               Slice(n, 10000, 100),
               Slice(n, 100, 1)>>
<1> SUFFICES ASSUME NEW n \in Nat, n < 100000000
             PROVE  Exact8(n) =
             <<Slice(n, 100000000, 1000000),
               Slice(n, 1000000, 10000),
               Slice(n, 10000, 100),
               Slice(n, 100, 1)>>
  OBVIOUS
<1> DEFINE r1 == Word(140737489 * n)
           x1 == n % 1000000
           f1 == r1 % S47
<1>1. /\ r1 \div S47 = n \div 1000000
      /\ x1 \in Nat /\ x1 < 1000000 /\ f1 \in Nat /\ f1 < S47
      /\ S47 * x1 <= 1000000 * f1 /\ 1000000 * f1 < S47 * (x1 + 1)
  BY SMTT(60) DEF Word, Word32, S64, S32, S47
<1> HIDE DEF r1, x1, f1
<1> DEFINE r2 == Word(f1 * 25)
           x2 == x1 % 10000
           f2 == r2 % (S47 \div 4)
<1>2. /\ r2 \div (S47 \div 4) = x1 \div 10000
      /\ x2 \in Nat /\ x2 < 10000 /\ f2 \in Nat /\ f2 < (S47 \div 4)
      /\ (S47 \div 4) * x2 <= 10000 * f2 /\ 10000 * f2 < (S47 \div 4) * (x2 + 1)
  BY <1>1, SMTT(60) DEF Word, Word32, S64, S32, S47
<1> HIDE DEF r2, x2, f2
<1> DEFINE r3 == Word(f2 * 25)
           x3 == x2 % 100
           f3 == r3 % (S47 \div 16)
<1>3. /\ r3 \div (S47 \div 16) = x2 \div 100
      /\ x3 \in Nat /\ x3 < 100 /\ f3 \in Nat /\ f3 < (S47 \div 16)
      /\ (S47 \div 16) * x3 <= 100 * f3 /\ 100 * f3 < (S47 \div 16) * (x3 + 1)
  BY <1>2, SMTT(60) DEF Word, Word32, S64, S32, S47
<1> HIDE DEF r3, x3, f3
<1> DEFINE r4 == Word(f3 * 25)
           x4 == 0
           f4 == r4 % (S47 \div 64)
<1>4. r4 \div (S47 \div 64) = x3
  BY <1>3, SMTT(60) DEF Word, Word32, S64, S32, S47
<1> HIDE DEF r4, x4, f4
<1>5. x1 = n % 1000000
  BY DEF x1
<1>6. x2 = n % 10000
  BY <1>5, SMTT(30) DEF x2
<1>7. x3 = n % 100
  BY <1>6, SMTT(30) DEF x3
<1>8. Exact8(n) = <<r1 \div S47, r2 \div (S47 \div 4), r3 \div (S47 \div 16), r4 \div (S47 \div 64)>>
  BY DEF Exact8, Next64, r1, f1, r2, f2, r3, f3, r4, f4
<1>9. /\ Slice(n, 100000000, 1000000) = n \div 1000000
      /\ Slice(n, 1000000, 10000) = x1 \div 10000
      /\ Slice(n, 10000, 100) = x2 \div 100
      /\ Slice(n, 100, 1) = x3
  BY <1>5, <1>6, <1>7, SMTT(30) DEF Slice
<1> QED
  BY <1>1, <1>2, <1>3, <1>4, <1>8, <1>9

\* uint_to_dec_par_impl_exact_<9> prints nine digits.
THEOREM Exact9Prints ==
  \A n \in Nat : n < 1000000000 =>
    Exact9(n) = <<Slice(n, 1000000000, 10000000),
               Slice(n, 10000000, 100000),
               Slice(n, 100000, 1000),
               Slice(n, 1000, 10),
               Slice(n, 10, 1)>>
<1> SUFFICES ASSUME NEW n \in Nat, n < 1000000000
             PROVE  Exact9(n) =
             <<Slice(n, 1000000000, 10000000),
               Slice(n, 10000000, 100000),
               Slice(n, 100000, 1000),
               Slice(n, 1000, 10),
               Slice(n, 10, 1)>>
  OBVIOUS
<1> DEFINE r1 == Word(1801439851 * n)
           x1 == n % 10000000
           f1 == r1 % S54
<1>1. /\ r1 \div S54 = n \div 10000000
      /\ x1 \in Nat /\ x1 < 10000000 /\ f1 \in Nat /\ f1 < S54
      /\ S54 * x1 <= 10000000 * f1 /\ 10000000 * f1 < S54 * (x1 + 1)
  BY SMTT(60) DEF Word, Word32, S64, S32, S54
<1> HIDE DEF r1, x1, f1
<1> DEFINE r2 == Word(f1 * 25)
           x2 == x1 % 100000
           f2 == r2 % (S54 \div 4)
<1>2. /\ r2 \div (S54 \div 4) = x1 \div 100000
      /\ x2 \in Nat /\ x2 < 100000 /\ f2 \in Nat /\ f2 < (S54 \div 4)
      /\ (S54 \div 4) * x2 <= 100000 * f2 /\ 100000 * f2 < (S54 \div 4) * (x2 + 1)
  BY <1>1, SMTT(60) DEF Word, Word32, S64, S32, S54
<1> HIDE DEF r2, x2, f2
<1> DEFINE r3 == Word(f2 * 25)
           x3 == x2 % 1000
           f3 == r3 % (S54 \div 16)
<1>3. /\ r3 \div (S54 \div 16) = x2 \div 1000
      /\ x3 \in Nat /\ x3 < 1000 /\ f3 \in Nat /\ f3 < (S54 \div 16)
      /\ (S54 \div 16) * x3 <= 1000 * f3 /\ 1000 * f3 < (S54 \div 16) * (x3 + 1)
  BY <1>2, SMTT(60) DEF Word, Word32, S64, S32, S54
<1> HIDE DEF r3, x3, f3
<1> DEFINE r4 == Word(f3 * 25)
           x4 == x3 % 10
           f4 == r4 % (S54 \div 64)
<1>4. /\ r4 \div (S54 \div 64) = x3 \div 10
      /\ x4 \in Nat /\ x4 < 10 /\ f4 \in Nat /\ f4 < (S54 \div 64)
      /\ (S54 \div 64) * x4 <= 10 * f4 /\ 10 * f4 < (S54 \div 64) * (x4 + 1)
  BY <1>3, SMTT(60) DEF Word, Word32, S64, S32, S54
<1> HIDE DEF r4, x4, f4
<1> DEFINE r5 == Word(f4 * 5)
           x5 == 0
           f5 == r5 % (S54 \div 128)
<1>5. r5 \div (S54 \div 128) = x4
  BY <1>4, SMTT(60) DEF Word, Word32, S64, S32, S54
<1> HIDE DEF r5, x5, f5
<1>6. x1 = n % 10000000
  BY DEF x1
<1>7. x2 = n % 100000
  BY <1>6, SMTT(30) DEF x2
<1>8. x3 = n % 1000
  BY <1>7, SMTT(30) DEF x3
<1>9. x4 = n % 10
  BY <1>8, SMTT(30) DEF x4
<1>10. Exact9(n) = <<r1 \div S54, r2 \div (S54 \div 4), r3 \div (S54 \div 16), r4 \div (S54 \div 64), r5 \div (S54 \div 128)>>
  BY DEF Exact9, Next64, r1, f1, r2, f2, r3, f3, r4, f4, r5, f5
<1>11. /\ Slice(n, 1000000000, 10000000) = n \div 10000000
      /\ Slice(n, 10000000, 100000) = x1 \div 100000
      /\ Slice(n, 100000, 1000) = x2 \div 1000
      /\ Slice(n, 1000, 10) = x3 \div 10
      /\ Slice(n, 10, 1) = x4
  BY <1>6, <1>7, <1>8, <1>9, SMTT(30) DEF Slice
<1> QED
  BY <1>1, <1>2, <1>3, <1>4, <1>5, <1>10, <1>11

\* uint_to_dec_par_impl_exact_<10> prints every 32-bit number: more than that
\* would overflow.
THEOREM Exact10Prints ==
  \A n \in Nat : n < 4294967296 =>
    Exact10(n) = <<Slice(n, 10000000000, 100000000),
               Slice(n, 100000000, 1000000),
               Slice(n, 1000000, 10000),
               Slice(n, 10000, 100),
               Slice(n, 100, 1)>>
<1> SUFFICES ASSUME NEW n \in Nat, n < 4294967296
             PROVE  Exact10(n) =
             <<Slice(n, 10000000000, 100000000),
               Slice(n, 100000000, 1000000),
               Slice(n, 1000000, 10000),
               Slice(n, 10000, 100),
               Slice(n, 100, 1)>>
  OBVIOUS
<1> DEFINE r1 == Word(1441151881 * n)
           x1 == n % 100000000
           f1 == r1 % S57
<1>1. /\ r1 \div S57 = n \div 100000000
      /\ x1 \in Nat /\ x1 < 100000000 /\ f1 \in Nat /\ f1 < S57
      /\ S57 * x1 <= 100000000 * f1 /\ 100000000 * f1 < S57 * (x1 + 1)
  BY SMTT(60) DEF Word, Word32, S64, S32, S57
<1> HIDE DEF r1, x1, f1
<1> DEFINE r2 == Word(f1 * 25)
           x2 == x1 % 1000000
           f2 == r2 % (S57 \div 4)
<1>2. /\ r2 \div (S57 \div 4) = x1 \div 1000000
      /\ x2 \in Nat /\ x2 < 1000000 /\ f2 \in Nat /\ f2 < (S57 \div 4)
      /\ (S57 \div 4) * x2 <= 1000000 * f2 /\ 1000000 * f2 < (S57 \div 4) * (x2 + 1)
  BY <1>1, SMTT(60) DEF Word, Word32, S64, S32, S57
<1> HIDE DEF r2, x2, f2
<1> DEFINE r3 == Word(f2 * 25)
           x3 == x2 % 10000
           f3 == r3 % (S57 \div 16)
<1>3. /\ r3 \div (S57 \div 16) = x2 \div 10000
      /\ x3 \in Nat /\ x3 < 10000 /\ f3 \in Nat /\ f3 < (S57 \div 16)
      /\ (S57 \div 16) * x3 <= 10000 * f3 /\ 10000 * f3 < (S57 \div 16) * (x3 + 1)
  BY <1>2, SMTT(60) DEF Word, Word32, S64, S32, S57
<1> HIDE DEF r3, x3, f3
<1> DEFINE r4 == Word(f3 * 25)
           x4 == x3 % 100
           f4 == r4 % (S57 \div 64)
<1>4. /\ r4 \div (S57 \div 64) = x3 \div 100
      /\ x4 \in Nat /\ x4 < 100 /\ f4 \in Nat /\ f4 < (S57 \div 64)
      /\ (S57 \div 64) * x4 <= 100 * f4 /\ 100 * f4 < (S57 \div 64) * (x4 + 1)
  BY <1>3, SMTT(60) DEF Word, Word32, S64, S32, S57
<1> HIDE DEF r4, x4, f4
<1> DEFINE r5 == Word(f4 * 25)
           x5 == 0
           f5 == r5 % (S57 \div 256)
<1>5. r5 \div (S57 \div 256) = x4
  BY <1>4, SMTT(60) DEF Word, Word32, S64, S32, S57
<1> HIDE DEF r5, x5, f5
<1>6. x1 = n % 100000000
  BY DEF x1
<1>7. x2 = n % 1000000
  BY <1>6, SMTT(30) DEF x2
<1>8. x3 = n % 10000
  BY <1>7, SMTT(30) DEF x3
<1>9. x4 = n % 100
  BY <1>8, SMTT(30) DEF x4
<1>10. Exact10(n) = <<r1 \div S57, r2 \div (S57 \div 4), r3 \div (S57 \div 16), r4 \div (S57 \div 64), r5 \div (S57 \div 256)>>
  BY DEF Exact10, Next64, r1, f1, r2, f2, r3, f3, r4, f4, r5, f5
<1>11. /\ Slice(n, 10000000000, 100000000) = n \div 100000000
      /\ Slice(n, 100000000, 1000000) = x1 \div 1000000
      /\ Slice(n, 1000000, 10000) = x2 \div 10000
      /\ Slice(n, 10000, 100) = x3 \div 100
      /\ Slice(n, 100, 1) = x4
  BY <1>6, <1>7, <1>8, <1>9, SMTT(30) DEF Slice
<1> QED
  BY <1>1, <1>2, <1>3, <1>4, <1>5, <1>10, <1>11

-----------------------------------------------------------------------------
(* Printers with leading zeros. *)

\* iota_3digits makes the three digits of a byte (of any number below 1000).
THEOREM Iota3Prints ==
  \A n \in Nat : n < 1000 =>
    Iota3(n) = <<Slice(n, 1000, 100),
               Slice(n, 100, 10),
               Slice(n, 10, 1)>>
<1> SUFFICES ASSUME NEW n \in Nat, n < 1000
             PROVE  Iota3(n) =
             <<Slice(n, 1000, 100),
               Slice(n, 100, 10),
               Slice(n, 10, 1)>>
  OBVIOUS
<1> DEFINE r1 == Word32(2684355 * n)
           x1 == n % 100
           f1 == r1 % S28
<1>1. /\ r1 \div S28 = n \div 100
      /\ x1 \in Nat /\ x1 < 100 /\ f1 \in Nat /\ f1 < S28
      /\ S28 * x1 <= 100 * f1 /\ 100 * f1 < S28 * (x1 + 1)
  BY SMTT(60) DEF Word, Word32, S64, S32, S28
<1> HIDE DEF r1, x1, f1
<1> DEFINE r2 == Word32(f1 * 10)
           x2 == x1 % 10
           f2 == r2 % S28
<1>2. /\ r2 \div S28 = x1 \div 10
      /\ x2 \in Nat /\ x2 < 10 /\ f2 \in Nat /\ f2 < S28
      /\ S28 * x2 <= 10 * f2 /\ 10 * f2 < S28 * (x2 + 1)
  BY <1>1, SMTT(60) DEF Word, Word32, S64, S32, S28
<1> HIDE DEF r2, x2, f2
<1> DEFINE r3 == Word32(f2 * 10)
           x3 == 0
           f3 == r3 % S28
<1>3. r3 \div S28 = x2
  BY <1>2, SMTT(60) DEF Word, Word32, S64, S32, S28
<1> HIDE DEF r3, x3, f3
<1>4. x1 = n % 100
  BY DEF x1
<1>5. x2 = n % 10
  BY <1>4, SMTT(30) DEF x2
<1>6. Iota3(n) = <<r1 \div S28, r2 \div S28, r3 \div S28>>
  BY DEF Iota3, Next32, r1, f1, r2, f2, r3, f3
<1>7. /\ Slice(n, 1000, 100) = n \div 100
      /\ Slice(n, 100, 10) = x1 \div 10
      /\ Slice(n, 10, 1) = x2
  BY <1>4, <1>5, SMTT(30) DEF Slice
<1> QED
  BY <1>1, <1>2, <1>3, <1>6, <1>7

\* iota_4_u32digits makes four digits in 32-bit arithmetic.
THEOREM Iota4Prints ==
  \A n \in Nat : n < 10000 =>
    Iota4(n) = <<Slice(n, 10000, 1000),
               Slice(n, 1000, 100),
               Slice(n, 100, 10),
               Slice(n, 10, 1)>>
<1> SUFFICES ASSUME NEW n \in Nat, n < 10000
             PROVE  Iota4(n) =
             <<Slice(n, 10000, 1000),
               Slice(n, 1000, 100),
               Slice(n, 100, 10),
               Slice(n, 10, 1)>>
  OBVIOUS
<1> DEFINE r1 == Word32(268436 * n)
           x1 == n % 1000
           f1 == r1 % S28
<1>1. /\ r1 \div S28 = n \div 1000
      /\ x1 \in Nat /\ x1 < 1000 /\ f1 \in Nat /\ f1 < S28
      /\ S28 * x1 <= 1000 * f1 /\ 1000 * f1 < S28 * (x1 + 1)
  BY SMTT(60) DEF Word, Word32, S64, S32, S28
<1> HIDE DEF r1, x1, f1
<1> DEFINE r2 == Word32(f1 * 10)
           x2 == x1 % 100
           f2 == r2 % S28
<1>2. /\ r2 \div S28 = x1 \div 100
      /\ x2 \in Nat /\ x2 < 100 /\ f2 \in Nat /\ f2 < S28
      /\ S28 * x2 <= 100 * f2 /\ 100 * f2 < S28 * (x2 + 1)
  BY <1>1, SMTT(60) DEF Word, Word32, S64, S32, S28
<1> HIDE DEF r2, x2, f2
<1> DEFINE r3 == Word32(f2 * 10)
           x3 == x2 % 10
           f3 == r3 % S28
<1>3. /\ r3 \div S28 = x2 \div 10
      /\ x3 \in Nat /\ x3 < 10 /\ f3 \in Nat /\ f3 < S28
      /\ S28 * x3 <= 10 * f3 /\ 10 * f3 < S28 * (x3 + 1)
  BY <1>2, SMTT(60) DEF Word, Word32, S64, S32, S28
<1> HIDE DEF r3, x3, f3
<1> DEFINE r4 == Word32(f3 * 10)
           x4 == 0
           f4 == r4 % S28
<1>4. r4 \div S28 = x3
  BY <1>3, SMTT(60) DEF Word, Word32, S64, S32, S28
<1> HIDE DEF r4, x4, f4
<1>5. x1 = n % 1000
  BY DEF x1
<1>6. x2 = n % 100
  BY <1>5, SMTT(30) DEF x2
<1>7. x3 = n % 10
  BY <1>6, SMTT(30) DEF x3
<1>8. Iota4(n) = <<r1 \div S28, r2 \div S28, r3 \div S28, r4 \div S28>>
  BY DEF Iota4, Next32, r1, f1, r2, f2, r3, f3, r4, f4
<1>9. /\ Slice(n, 10000, 1000) = n \div 1000
      /\ Slice(n, 1000, 100) = x1 \div 100
      /\ Slice(n, 100, 10) = x2 \div 10
      /\ Slice(n, 10, 1) = x3
  BY <1>5, <1>6, <1>7, SMTT(30) DEF Slice
<1> QED
  BY <1>1, <1>2, <1>3, <1>4, <1>8, <1>9

\* iota_5_u32_tou64digits makes five digits.
THEOREM Iota5Prints ==
  \A n \in Nat : n < 100000 =>
    Iota5(n) = <<Slice(n, 100000, 10000),
               Slice(n, 10000, 1000),
               Slice(n, 1000, 100),
               Slice(n, 100, 10),
               Slice(n, 10, 1)>>
<1> SUFFICES ASSUME NEW n \in Nat, n < 100000
             PROVE  Iota5(n) =
             <<Slice(n, 100000, 10000),
               Slice(n, 10000, 1000),
               Slice(n, 1000, 100),
               Slice(n, 100, 10),
               Slice(n, 10, 1)>>
  OBVIOUS
<1> DEFINE r1 == Word(429497 * n)
           x1 == n % 10000
           f1 == r1 % S32
<1>1. /\ r1 \div S32 = n \div 10000
      /\ x1 \in Nat /\ x1 < 10000 /\ f1 \in Nat /\ f1 < S32
      /\ S32 * x1 <= 10000 * f1 /\ 10000 * f1 < S32 * (x1 + 1)
  BY SMTT(60) DEF Word, Word32, S64, S32
<1> HIDE DEF r1, x1, f1
<1> DEFINE r2 == Word(f1 * 10)
           x2 == x1 % 1000
           f2 == r2 % S32
<1>2. /\ r2 \div S32 = x1 \div 1000
      /\ x2 \in Nat /\ x2 < 1000 /\ f2 \in Nat /\ f2 < S32
      /\ S32 * x2 <= 1000 * f2 /\ 1000 * f2 < S32 * (x2 + 1)
  BY <1>1, SMTT(60) DEF Word, Word32, S64, S32
<1> HIDE DEF r2, x2, f2
<1> DEFINE r3 == Word(f2 * 10)
           x3 == x2 % 100
           f3 == r3 % S32
<1>3. /\ r3 \div S32 = x2 \div 100
      /\ x3 \in Nat /\ x3 < 100 /\ f3 \in Nat /\ f3 < S32
      /\ S32 * x3 <= 100 * f3 /\ 100 * f3 < S32 * (x3 + 1)
  BY <1>2, SMTT(60) DEF Word, Word32, S64, S32
<1> HIDE DEF r3, x3, f3
<1> DEFINE r4 == Word(f3 * 10)
           x4 == x3 % 10
           f4 == r4 % S32
<1>4. /\ r4 \div S32 = x3 \div 10
      /\ x4 \in Nat /\ x4 < 10 /\ f4 \in Nat /\ f4 < S32
      /\ S32 * x4 <= 10 * f4 /\ 10 * f4 < S32 * (x4 + 1)
  BY <1>3, SMTT(60) DEF Word, Word32, S64, S32
<1> HIDE DEF r4, x4, f4
<1> DEFINE r5 == Word(f4 * 10)
           x5 == 0
           f5 == r5 % S32
<1>5. r5 \div S32 = x4
  BY <1>4, SMTT(60) DEF Word, Word32, S64, S32
<1> HIDE DEF r5, x5, f5
<1>6. x1 = n % 10000
  BY DEF x1
<1>7. x2 = n % 1000
  BY <1>6, SMTT(30) DEF x2
<1>8. x3 = n % 100
  BY <1>7, SMTT(30) DEF x3
<1>9. x4 = n % 10
  BY <1>8, SMTT(30) DEF x4
<1>10. Iota5(n) = <<r1 \div S32, r2 \div S32, r3 \div S32, r4 \div S32, r5 \div S32>>
  BY DEF Iota5, Next64, r1, f1, r2, f2, r3, f3, r4, f4, r5, f5
<1>11. /\ Slice(n, 100000, 10000) = n \div 10000
      /\ Slice(n, 10000, 1000) = x1 \div 1000
      /\ Slice(n, 1000, 100) = x2 \div 100
      /\ Slice(n, 100, 10) = x3 \div 10
      /\ Slice(n, 10, 1) = x4
  BY <1>6, <1>7, <1>8, <1>9, SMTT(30) DEF Slice
<1> QED
  BY <1>1, <1>2, <1>3, <1>4, <1>5, <1>10, <1>11

\* hybrid_iota_8digits_noif_noload_u64 makes eight digits, one at a time.
THEOREM Iota8Prints ==
  \A n \in Nat : n < 100000000 =>
    Iota8(n) = <<Slice(n, 100000000, 10000000),
               Slice(n, 10000000, 1000000),
               Slice(n, 1000000, 100000),
               Slice(n, 100000, 10000),
               Slice(n, 10000, 1000),
               Slice(n, 1000, 100),
               Slice(n, 100, 10),
               Slice(n, 10, 1)>>
<1> SUFFICES ASSUME NEW n \in Nat, n < 100000000
             PROVE  Iota8(n) =
             <<Slice(n, 100000000, 10000000),
               Slice(n, 10000000, 1000000),
               Slice(n, 1000000, 100000),
               Slice(n, 100000, 10000),
               Slice(n, 10000, 1000),
               Slice(n, 1000, 100),
               Slice(n, 100, 10),
               Slice(n, 10, 1)>>
  OBVIOUS
<1> DEFINE r1 == Word(115292150461 * n)
           x1 == n % 10000000
           f1 == r1 % S60
<1>1. /\ r1 \div S60 = n \div 10000000
      /\ x1 \in Nat /\ x1 < 10000000 /\ f1 \in Nat /\ f1 < S60
      /\ S60 * x1 <= 10000000 * f1 /\ 10000000 * f1 < S60 * (x1 + 1)
  BY SMTT(60) DEF Word, Word32, S64, S32, S60
<1> HIDE DEF r1, x1, f1
<1> DEFINE r2 == Word(f1 * 10)
           x2 == x1 % 1000000
           f2 == r2 % S60
<1>2. /\ r2 \div S60 = x1 \div 1000000
      /\ x2 \in Nat /\ x2 < 1000000 /\ f2 \in Nat /\ f2 < S60
      /\ S60 * x2 <= 1000000 * f2 /\ 1000000 * f2 < S60 * (x2 + 1)
  BY <1>1, SMTT(60) DEF Word, Word32, S64, S32, S60
<1> HIDE DEF r2, x2, f2
<1> DEFINE r3 == Word(f2 * 10)
           x3 == x2 % 100000
           f3 == r3 % S60
<1>3. /\ r3 \div S60 = x2 \div 100000
      /\ x3 \in Nat /\ x3 < 100000 /\ f3 \in Nat /\ f3 < S60
      /\ S60 * x3 <= 100000 * f3 /\ 100000 * f3 < S60 * (x3 + 1)
  BY <1>2, SMTT(60) DEF Word, Word32, S64, S32, S60
<1> HIDE DEF r3, x3, f3
<1> DEFINE r4 == Word(f3 * 10)
           x4 == x3 % 10000
           f4 == r4 % S60
<1>4. /\ r4 \div S60 = x3 \div 10000
      /\ x4 \in Nat /\ x4 < 10000 /\ f4 \in Nat /\ f4 < S60
      /\ S60 * x4 <= 10000 * f4 /\ 10000 * f4 < S60 * (x4 + 1)
  BY <1>3, SMTT(60) DEF Word, Word32, S64, S32, S60
<1> HIDE DEF r4, x4, f4
<1> DEFINE r5 == Word(f4 * 10)
           x5 == x4 % 1000
           f5 == r5 % S60
<1>5. /\ r5 \div S60 = x4 \div 1000
      /\ x5 \in Nat /\ x5 < 1000 /\ f5 \in Nat /\ f5 < S60
      /\ S60 * x5 <= 1000 * f5 /\ 1000 * f5 < S60 * (x5 + 1)
  BY <1>4, SMTT(60) DEF Word, Word32, S64, S32, S60
<1> HIDE DEF r5, x5, f5
<1> DEFINE r6 == Word(f5 * 10)
           x6 == x5 % 100
           f6 == r6 % S60
<1>6. /\ r6 \div S60 = x5 \div 100
      /\ x6 \in Nat /\ x6 < 100 /\ f6 \in Nat /\ f6 < S60
      /\ S60 * x6 <= 100 * f6 /\ 100 * f6 < S60 * (x6 + 1)
  BY <1>5, SMTT(60) DEF Word, Word32, S64, S32, S60
<1> HIDE DEF r6, x6, f6
<1> DEFINE r7 == Word(f6 * 10)
           x7 == x6 % 10
           f7 == r7 % S60
<1>7. /\ r7 \div S60 = x6 \div 10
      /\ x7 \in Nat /\ x7 < 10 /\ f7 \in Nat /\ f7 < S60
      /\ S60 * x7 <= 10 * f7 /\ 10 * f7 < S60 * (x7 + 1)
  BY <1>6, SMTT(60) DEF Word, Word32, S64, S32, S60
<1> HIDE DEF r7, x7, f7
<1> DEFINE r8 == Word(f7 * 10)
           x8 == 0
           f8 == r8 % S60
<1>8. r8 \div S60 = x7
  BY <1>7, SMTT(60) DEF Word, Word32, S64, S32, S60
<1> HIDE DEF r8, x8, f8
<1>9. x1 = n % 10000000
  BY DEF x1
<1>10. x2 = n % 1000000
  BY <1>9, SMTT(30) DEF x2
<1>11. x3 = n % 100000
  BY <1>10, SMTT(30) DEF x3
<1>12. x4 = n % 10000
  BY <1>11, SMTT(30) DEF x4
<1>13. x5 = n % 1000
  BY <1>12, SMTT(30) DEF x5
<1>14. x6 = n % 100
  BY <1>13, SMTT(30) DEF x6
<1>15. x7 = n % 10
  BY <1>14, SMTT(30) DEF x7
<1>16. Iota8(n) = <<r1 \div S60, r2 \div S60, r3 \div S60, r4 \div S60, r5 \div S60, r6 \div S60, r7 \div S60, r8 \div S60>>
  BY DEF Iota8, Next64, r1, f1, r2, f2, r3, f3, r4, f4, r5, f5, r6, f6, r7, f7, r8, f8
<1>17. /\ Slice(n, 100000000, 10000000) = n \div 10000000
      /\ Slice(n, 10000000, 1000000) = x1 \div 1000000
      /\ Slice(n, 1000000, 100000) = x2 \div 100000
      /\ Slice(n, 100000, 10000) = x3 \div 10000
      /\ Slice(n, 10000, 1000) = x4 \div 1000
      /\ Slice(n, 1000, 100) = x5 \div 100
      /\ Slice(n, 100, 10) = x6 \div 10
      /\ Slice(n, 10, 1) = x7
  BY <1>9, <1>10, <1>11, <1>12, <1>13, <1>14, <1>15, SMTT(30) DEF Slice
<1> QED
  BY <1>1, <1>2, <1>3, <1>4, <1>5, <1>6, <1>7, <1>8, <1>16, <1>17

\* lookup_iota_8digits_ascii_noif prints eight digits.
THEOREM Lookup8Prints ==
  \A n \in Nat : n < 100000000 =>
    Lookup8(n) = <<Slice(n, 100000000, 1000000),
               Slice(n, 1000000, 10000),
               Slice(n, 10000, 100),
               Slice(n, 100, 1)>>
<1> SUFFICES ASSUME NEW n \in Nat, n < 100000000
             PROVE  Lookup8(n) =
             <<Slice(n, 100000000, 1000000),
               Slice(n, 1000000, 10000),
               Slice(n, 10000, 100),
               Slice(n, 100, 1)>>
  OBVIOUS
<1> DEFINE r1 == Word(144115188076 * n)
           x1 == n % 1000000
           f1 == r1 % S57
<1>1. /\ r1 \div S57 = n \div 1000000
      /\ x1 \in Nat /\ x1 < 1000000 /\ f1 \in Nat /\ f1 < S57
      /\ S57 * x1 <= 1000000 * f1 /\ 1000000 * f1 < S57 * (x1 + 1)
  BY SMTT(60) DEF Word, Word32, S64, S32, S57
<1> HIDE DEF r1, x1, f1
<1> DEFINE r2 == Word(f1 * 100)
           x2 == x1 % 10000
           f2 == r2 % S57
<1>2. /\ r2 \div S57 = x1 \div 10000
      /\ x2 \in Nat /\ x2 < 10000 /\ f2 \in Nat /\ f2 < S57
      /\ S57 * x2 <= 10000 * f2 /\ 10000 * f2 < S57 * (x2 + 1)
  BY <1>1, SMTT(60) DEF Word, Word32, S64, S32, S57
<1> HIDE DEF r2, x2, f2
<1> DEFINE r3 == Word(f2 * 100)
           x3 == x2 % 100
           f3 == r3 % S57
<1>3. /\ r3 \div S57 = x2 \div 100
      /\ x3 \in Nat /\ x3 < 100 /\ f3 \in Nat /\ f3 < S57
      /\ S57 * x3 <= 100 * f3 /\ 100 * f3 < S57 * (x3 + 1)
  BY <1>2, SMTT(60) DEF Word, Word32, S64, S32, S57
<1> HIDE DEF r3, x3, f3
<1> DEFINE r4 == Word(f3 * 100)
           x4 == 0
           f4 == r4 % S57
<1>4. r4 \div S57 = x3
  BY <1>3, SMTT(60) DEF Word, Word32, S64, S32, S57
<1> HIDE DEF r4, x4, f4
<1>5. x1 = n % 1000000
  BY DEF x1
<1>6. x2 = n % 10000
  BY <1>5, SMTT(30) DEF x2
<1>7. x3 = n % 100
  BY <1>6, SMTT(30) DEF x3
<1>8. Lookup8(n) = <<r1 \div S57, r2 \div S57, r3 \div S57, r4 \div S57>>
  BY DEF Lookup8, Next64, r1, f1, r2, f2, r3, f3, r4, f4
<1>9. /\ Slice(n, 100000000, 1000000) = n \div 1000000
      /\ Slice(n, 1000000, 10000) = x1 \div 10000
      /\ Slice(n, 10000, 100) = x2 \div 100
      /\ Slice(n, 100, 1) = x3
  BY <1>5, <1>6, <1>7, SMTT(30) DEF Slice
<1> QED
  BY <1>1, <1>2, <1>3, <1>4, <1>8, <1>9

\* lookup_iota_8digits_ascii prints the last six, below 1000000.
THEOREM Lookup6Prints ==
  \A n \in Nat : n < 1000000 =>
    Lookup6(n) = <<Slice(n, 1000000, 10000),
               Slice(n, 10000, 100),
               Slice(n, 100, 1)>>
<1> SUFFICES ASSUME NEW n \in Nat, n < 1000000
             PROVE  Lookup6(n) =
             <<Slice(n, 1000000, 10000),
               Slice(n, 10000, 100),
               Slice(n, 100, 1)>>
  OBVIOUS
<1> DEFINE r1 == Word(14411518807586 * n)
           x1 == n % 10000
           f1 == r1 % S57
<1>1. /\ r1 \div S57 = n \div 10000
      /\ x1 \in Nat /\ x1 < 10000 /\ f1 \in Nat /\ f1 < S57
      /\ S57 * x1 <= 10000 * f1 /\ 10000 * f1 < S57 * (x1 + 1)
  BY SMTT(60) DEF Word, Word32, S64, S32, S57
<1> HIDE DEF r1, x1, f1
<1> DEFINE r2 == Word(f1 * 100)
           x2 == x1 % 100
           f2 == r2 % S57
<1>2. /\ r2 \div S57 = x1 \div 100
      /\ x2 \in Nat /\ x2 < 100 /\ f2 \in Nat /\ f2 < S57
      /\ S57 * x2 <= 100 * f2 /\ 100 * f2 < S57 * (x2 + 1)
  BY <1>1, SMTT(60) DEF Word, Word32, S64, S32, S57
<1> HIDE DEF r2, x2, f2
<1> DEFINE r3 == Word(f2 * 100)
           x3 == 0
           f3 == r3 % S57
<1>3. r3 \div S57 = x2
  BY <1>2, SMTT(60) DEF Word, Word32, S64, S32, S57
<1> HIDE DEF r3, x3, f3
<1>4. x1 = n % 10000
  BY DEF x1
<1>5. x2 = n % 100
  BY <1>4, SMTT(30) DEF x2
<1>6. Lookup6(n) = <<r1 \div S57, r2 \div S57, r3 \div S57>>
  BY DEF Lookup6, Next64, r1, f1, r2, f2, r3, f3
<1>7. /\ Slice(n, 1000000, 10000) = n \div 10000
      /\ Slice(n, 10000, 100) = x1 \div 100
      /\ Slice(n, 100, 1) = x2
  BY <1>4, <1>5, SMTT(30) DEF Slice
<1> QED
  BY <1>1, <1>2, <1>3, <1>6, <1>7

\* lookup_iota_8digits_ascii prints the last four, below 10000.
THEOREM Lookup4Prints ==
  \A n \in Nat : n < 10000 =>
    Lookup4(n) = <<Slice(n, 10000, 100),
               Slice(n, 100, 1)>>
<1> SUFFICES ASSUME NEW n \in Nat, n < 10000
             PROVE  Lookup4(n) =
             <<Slice(n, 10000, 100),
               Slice(n, 100, 1)>>
  OBVIOUS
<1> DEFINE r1 == Word(1441151880758559 * n)
           x1 == n % 100
           f1 == r1 % S57
<1>1. /\ r1 \div S57 = n \div 100
      /\ x1 \in Nat /\ x1 < 100 /\ f1 \in Nat /\ f1 < S57
      /\ S57 * x1 <= 100 * f1 /\ 100 * f1 < S57 * (x1 + 1)
  BY SMTT(60) DEF Word, Word32, S64, S32, S57
<1> HIDE DEF r1, x1, f1
<1> DEFINE r2 == Word(f1 * 100)
           x2 == 0
           f2 == r2 % S57
<1>2. r2 \div S57 = x1
  BY <1>1, SMTT(60) DEF Word, Word32, S64, S32, S57
<1> HIDE DEF r2, x2, f2
<1>3. x1 = n % 100
  BY DEF x1
<1>4. Lookup4(n) = <<r1 \div S57, r2 \div S57>>
  BY DEF Lookup4, Next64, r1, f1, r2, f2
<1>5. /\ Slice(n, 10000, 100) = n \div 100
      /\ Slice(n, 100, 1) = x1
  BY <1>3, SMTT(30) DEF Slice
<1> QED
  BY <1>1, <1>2, <1>4, <1>5

\* uint_to_dec_pre_calc_impl_semi_par_ takes the last four digits off a number
\* of up to eight.
THEOREM Last4Prints ==
  \A n \in Nat : n < 100000000 =>
    Last4(n) = <<Slice(n, 100000000, 10000),
               Slice(n, 10000, 1000),
               Slice(n, 1000, 100),
               Slice(n, 100, 10),
               Slice(n, 10, 1)>>
<1> SUFFICES ASSUME NEW n \in Nat, n < 100000000
             PROVE  Last4(n) =
             <<Slice(n, 100000000, 10000),
               Slice(n, 10000, 1000),
               Slice(n, 1000, 100),
               Slice(n, 100, 10),
               Slice(n, 10, 1)>>
  OBVIOUS
<1> DEFINE r1 == Word(109951163 * n)
           x1 == n % 10000
           f1 == r1 % S40
<1>1. /\ r1 \div S40 = n \div 10000
      /\ x1 \in Nat /\ x1 < 10000 /\ f1 \in Nat /\ f1 < S40
      /\ S40 * x1 <= 10000 * f1 /\ 10000 * f1 < S40 * (x1 + 1)
  BY SMTT(60) DEF Word, Word32, S64, S32, S40
<1> HIDE DEF r1, x1, f1
<1> DEFINE r2 == Word(f1 * 10)
           x2 == x1 % 1000
           f2 == r2 % S40
<1>2. /\ r2 \div S40 = x1 \div 1000
      /\ x2 \in Nat /\ x2 < 1000 /\ f2 \in Nat /\ f2 < S40
      /\ S40 * x2 <= 1000 * f2 /\ 1000 * f2 < S40 * (x2 + 1)
  BY <1>1, SMTT(60) DEF Word, Word32, S64, S32, S40
<1> HIDE DEF r2, x2, f2
<1> DEFINE r3 == Word(f2 * 10)
           x3 == x2 % 100
           f3 == r3 % S40
<1>3. /\ r3 \div S40 = x2 \div 100
      /\ x3 \in Nat /\ x3 < 100 /\ f3 \in Nat /\ f3 < S40
      /\ S40 * x3 <= 100 * f3 /\ 100 * f3 < S40 * (x3 + 1)
  BY <1>2, SMTT(60) DEF Word, Word32, S64, S32, S40
<1> HIDE DEF r3, x3, f3
<1> DEFINE r4 == Word(f3 * 10)
           x4 == x3 % 10
           f4 == r4 % S40
<1>4. /\ r4 \div S40 = x3 \div 10
      /\ x4 \in Nat /\ x4 < 10 /\ f4 \in Nat /\ f4 < S40
      /\ S40 * x4 <= 10 * f4 /\ 10 * f4 < S40 * (x4 + 1)
  BY <1>3, SMTT(60) DEF Word, Word32, S64, S32, S40
<1> HIDE DEF r4, x4, f4
<1> DEFINE r5 == Word(f4 * 10)
           x5 == 0
           f5 == r5 % S40
<1>5. r5 \div S40 = x4
  BY <1>4, SMTT(60) DEF Word, Word32, S64, S32, S40
<1> HIDE DEF r5, x5, f5
<1>6. x1 = n % 10000
  BY DEF x1
<1>7. x2 = n % 1000
  BY <1>6, SMTT(30) DEF x2
<1>8. x3 = n % 100
  BY <1>7, SMTT(30) DEF x3
<1>9. x4 = n % 10
  BY <1>8, SMTT(30) DEF x4
<1>10. Last4(n) = <<r1 \div S40, r2 \div S40, r3 \div S40, r4 \div S40, r5 \div S40>>
  BY DEF Last4, Next64, r1, f1, r2, f2, r3, f3, r4, f4, r5, f5
<1>11. /\ Slice(n, 100000000, 10000) = n \div 10000
      /\ Slice(n, 10000, 1000) = x1 \div 1000
      /\ Slice(n, 1000, 100) = x2 \div 100
      /\ Slice(n, 100, 10) = x3 \div 10
      /\ Slice(n, 10, 1) = x4
  BY <1>6, <1>7, <1>8, <1>9, SMTT(30) DEF Slice
<1> QED
  BY <1>1, <1>2, <1>3, <1>4, <1>5, <1>10, <1>11

\* ... the last two off a number of up to four.
THEOREM Last2Prints ==
  \A n \in Nat : n < 10000 =>
    Last2(n) = <<Slice(n, 10000, 100),
               Slice(n, 100, 10),
               Slice(n, 10, 1)>>
<1> SUFFICES ASSUME NEW n \in Nat, n < 10000
             PROVE  Last2(n) =
             <<Slice(n, 10000, 100),
               Slice(n, 100, 10),
               Slice(n, 10, 1)>>
  OBVIOUS
<1> DEFINE r1 == Word(5243 * n)
           x1 == n % 100
           f1 == r1 % S19
<1>1. /\ r1 \div S19 = n \div 100
      /\ x1 \in Nat /\ x1 < 100 /\ f1 \in Nat /\ f1 < S19
      /\ S19 * x1 <= 100 * f1 /\ 100 * f1 < S19 * (x1 + 1)
  BY SMTT(60) DEF Word, Word32, S64, S32, S19
<1> HIDE DEF r1, x1, f1
<1> DEFINE r2 == Word(f1 * 10)
           x2 == x1 % 10
           f2 == r2 % S19
<1>2. /\ r2 \div S19 = x1 \div 10
      /\ x2 \in Nat /\ x2 < 10 /\ f2 \in Nat /\ f2 < S19
      /\ S19 * x2 <= 10 * f2 /\ 10 * f2 < S19 * (x2 + 1)
  BY <1>1, SMTT(60) DEF Word, Word32, S64, S32, S19
<1> HIDE DEF r2, x2, f2
<1> DEFINE r3 == Word(f2 * 10)
           x3 == 0
           f3 == r3 % S19
<1>3. r3 \div S19 = x2
  BY <1>2, SMTT(60) DEF Word, Word32, S64, S32, S19
<1> HIDE DEF r3, x3, f3
<1>4. x1 = n % 100
  BY DEF x1
<1>5. x2 = n % 10
  BY <1>4, SMTT(30) DEF x2
<1>6. Last2(n) = <<r1 \div S19, r2 \div S19, r3 \div S19>>
  BY DEF Last2, Next64, r1, f1, r2, f2, r3, f3
<1>7. /\ Slice(n, 10000, 100) = n \div 100
      /\ Slice(n, 100, 10) = x1 \div 10
      /\ Slice(n, 10, 1) = x2
  BY <1>4, <1>5, SMTT(30) DEF Slice
<1> QED
  BY <1>1, <1>2, <1>3, <1>6, <1>7

\* ... the last one off a number of two.
THEOREM Last1Prints ==
  \A n \in Nat : n < 100 =>
    Last1(n) = <<Slice(n, 100, 10),
               Slice(n, 10, 1)>>
<1> SUFFICES ASSUME NEW n \in Nat, n < 100
             PROVE  Last1(n) =
             <<Slice(n, 100, 10),
               Slice(n, 10, 1)>>
  OBVIOUS
<1> DEFINE r1 == Word(103 * n)
           x1 == n % 10
           f1 == r1 % S10
<1>1. /\ r1 \div S10 = n \div 10
      /\ x1 \in Nat /\ x1 < 10 /\ f1 \in Nat /\ f1 < S10
      /\ S10 * x1 <= 10 * f1 /\ 10 * f1 < S10 * (x1 + 1)
  BY SMTT(60) DEF Word, Word32, S64, S32, S10
<1> HIDE DEF r1, x1, f1
<1> DEFINE r2 == Word(f1 * 10)
           x2 == 0
           f2 == r2 % S10
<1>2. r2 \div S10 = x1
  BY <1>1, SMTT(60) DEF Word, Word32, S64, S32, S10
<1> HIDE DEF r2, x2, f2
<1>3. x1 = n % 10
  BY DEF x1
<1>4. Last1(n) = <<r1 \div S10, r2 \div S10>>
  BY DEF Last1, Next64, r1, f1, r2, f2
<1>5. /\ Slice(n, 100, 10) = n \div 10
      /\ Slice(n, 10, 1) = x1
  BY <1>3, SMTT(30) DEF Slice
<1> QED
  BY <1>1, <1>2, <1>4, <1>5

\* uint_to_dec_pre_calc_impl_seq_lessmul_ prints the last 3 or 4 digits.
THEOREM LessMul4Prints ==
  \A n \in Nat : n < 10000 =>
    LessMul4(n) = <<Slice(n, 10000, 100),
               Slice(n, 100, 1)>>
<1> SUFFICES ASSUME NEW n \in Nat, n < 10000
             PROVE  LessMul4(n) =
             <<Slice(n, 10000, 100),
               Slice(n, 100, 1)>>
  OBVIOUS
<1> DEFINE r1 == Word(n * inv_p10_b57(2))
           x1 == n % 100
           f1 == r1 % S57
<1>1. /\ r1 \div S57 = n \div 100
      /\ x1 \in Nat /\ x1 < 100 /\ f1 \in Nat /\ f1 < S57
      /\ S57 * x1 <= 100 * f1 /\ 100 * f1 < S57 * (x1 + 1)
  BY SMTT(60) DEF Word, Word32, S64, S32, S57, inv_p10_b57
<1> HIDE DEF r1, x1, f1
<1> DEFINE r2 == Word(f1 * 100)
           x2 == 0
           f2 == r2 % S57
<1>2. r2 \div S57 = x1
  BY <1>1, SMTT(60) DEF Word, Word32, S64, S32, S57
<1> HIDE DEF r2, x2, f2
<1>3. x1 = n % 100
  BY DEF x1
<1>4. LessMul4(n) = <<r1 \div S57, r2 \div S57>>
  BY DEF LessMul4, Next64, r1, f1, r2, f2
<1>5. /\ Slice(n, 10000, 100) = n \div 100
      /\ Slice(n, 100, 1) = x1
  BY <1>3, SMTT(30) DEF Slice
<1> QED
  BY <1>1, <1>2, <1>4, <1>5

\* uint_to_dec_pre_calc_impl_seq_lessmul_ prints the last 5 or 6 digits.
THEOREM LessMul6Prints ==
  \A n \in Nat : n < 1000000 =>
    LessMul6(n) = <<Slice(n, 1000000, 10000),
               Slice(n, 10000, 100),
               Slice(n, 100, 1)>>
<1> SUFFICES ASSUME NEW n \in Nat, n < 1000000
             PROVE  LessMul6(n) =
             <<Slice(n, 1000000, 10000),
               Slice(n, 10000, 100),
               Slice(n, 100, 1)>>
  OBVIOUS
<1> DEFINE r1 == Word(n * inv_p10_b57(4))
           x1 == n % 10000
           f1 == r1 % S57
<1>1. /\ r1 \div S57 = n \div 10000
      /\ x1 \in Nat /\ x1 < 10000 /\ f1 \in Nat /\ f1 < S57
      /\ S57 * x1 <= 10000 * f1 /\ 10000 * f1 < S57 * (x1 + 1)
  BY SMTT(60) DEF Word, Word32, S64, S32, S57, inv_p10_b57
<1> HIDE DEF r1, x1, f1
<1> DEFINE r2 == Word(f1 * 100)
           x2 == x1 % 100
           f2 == r2 % S57
<1>2. /\ r2 \div S57 = x1 \div 100
      /\ x2 \in Nat /\ x2 < 100 /\ f2 \in Nat /\ f2 < S57
      /\ S57 * x2 <= 100 * f2 /\ 100 * f2 < S57 * (x2 + 1)
  BY <1>1, SMTT(60) DEF Word, Word32, S64, S32, S57
<1> HIDE DEF r2, x2, f2
<1> DEFINE r3 == Word(f2 * 100)
           x3 == 0
           f3 == r3 % S57
<1>3. r3 \div S57 = x2
  BY <1>2, SMTT(60) DEF Word, Word32, S64, S32, S57
<1> HIDE DEF r3, x3, f3
<1>4. x1 = n % 10000
  BY DEF x1
<1>5. x2 = n % 100
  BY <1>4, SMTT(30) DEF x2
<1>6. LessMul6(n) = <<r1 \div S57, r2 \div S57, r3 \div S57>>
  BY DEF LessMul6, Next64, r1, f1, r2, f2, r3, f3
<1>7. /\ Slice(n, 1000000, 10000) = n \div 10000
      /\ Slice(n, 10000, 100) = x1 \div 100
      /\ Slice(n, 100, 1) = x2
  BY <1>4, <1>5, SMTT(30) DEF Slice
<1> QED
  BY <1>1, <1>2, <1>3, <1>6, <1>7

\* uint_to_dec_pre_calc_impl_seq_lessmul_ prints the last 7 or 8 digits.
THEOREM LessMul8Prints ==
  \A n \in Nat : n < 100000000 =>
    LessMul8(n) = <<Slice(n, 100000000, 1000000),
               Slice(n, 1000000, 10000),
               Slice(n, 10000, 100),
               Slice(n, 100, 1)>>
<1> SUFFICES ASSUME NEW n \in Nat, n < 100000000
             PROVE  LessMul8(n) =
             <<Slice(n, 100000000, 1000000),
               Slice(n, 1000000, 10000),
               Slice(n, 10000, 100),
               Slice(n, 100, 1)>>
  OBVIOUS
<1> DEFINE r1 == Word(n * inv_p10_b57(6))
           x1 == n % 1000000
           f1 == r1 % S57
<1>1. /\ r1 \div S57 = n \div 1000000
      /\ x1 \in Nat /\ x1 < 1000000 /\ f1 \in Nat /\ f1 < S57
      /\ S57 * x1 <= 1000000 * f1 /\ 1000000 * f1 < S57 * (x1 + 1)
  BY SMTT(60) DEF Word, Word32, S64, S32, S57, inv_p10_b57
<1> HIDE DEF r1, x1, f1
<1> DEFINE r2 == Word(f1 * 100)
           x2 == x1 % 10000
           f2 == r2 % S57
<1>2. /\ r2 \div S57 = x1 \div 10000
      /\ x2 \in Nat /\ x2 < 10000 /\ f2 \in Nat /\ f2 < S57
      /\ S57 * x2 <= 10000 * f2 /\ 10000 * f2 < S57 * (x2 + 1)
  BY <1>1, SMTT(60) DEF Word, Word32, S64, S32, S57
<1> HIDE DEF r2, x2, f2
<1> DEFINE r3 == Word(f2 * 100)
           x3 == x2 % 100
           f3 == r3 % S57
<1>3. /\ r3 \div S57 = x2 \div 100
      /\ x3 \in Nat /\ x3 < 100 /\ f3 \in Nat /\ f3 < S57
      /\ S57 * x3 <= 100 * f3 /\ 100 * f3 < S57 * (x3 + 1)
  BY <1>2, SMTT(60) DEF Word, Word32, S64, S32, S57
<1> HIDE DEF r3, x3, f3
<1> DEFINE r4 == Word(f3 * 100)
           x4 == 0
           f4 == r4 % S57
<1>4. r4 \div S57 = x3
  BY <1>3, SMTT(60) DEF Word, Word32, S64, S32, S57
<1> HIDE DEF r4, x4, f4
<1>5. x1 = n % 1000000
  BY DEF x1
<1>6. x2 = n % 10000
  BY <1>5, SMTT(30) DEF x2
<1>7. x3 = n % 100
  BY <1>6, SMTT(30) DEF x3
<1>8. LessMul8(n) = <<r1 \div S57, r2 \div S57, r3 \div S57, r4 \div S57>>
  BY DEF LessMul8, Next64, r1, f1, r2, f2, r3, f3, r4, f4
<1>9. /\ Slice(n, 100000000, 1000000) = n \div 1000000
      /\ Slice(n, 1000000, 10000) = x1 \div 10000
      /\ Slice(n, 10000, 100) = x2 \div 100
      /\ Slice(n, 100, 1) = x3
  BY <1>5, <1>6, <1>7, SMTT(30) DEF Slice
<1> QED
  BY <1>1, <1>2, <1>3, <1>4, <1>8, <1>9

\* uint_to_dec_pre_calc_impl_more_mul_ makes the ten digits of a 32-bit number.
THEOREM MoreMulPrints ==
  \A n \in Nat : n < 4294967296 =>
    MoreMul(n) = <<Slice(n, 10000000000, 100000000),
               Slice(n, 100000000, 1000000),
               Slice(n, 1000000, 10000),
               Slice(n, 10000, 100),
               Slice(n, 100, 1)>>
<1> SUFFICES ASSUME NEW n \in Nat, n < 4294967296
             PROVE  MoreMul(n) =
             <<Slice(n, 10000000000, 100000000),
               Slice(n, 100000000, 1000000),
               Slice(n, 1000000, 10000),
               Slice(n, 10000, 100),
               Slice(n, 100, 1)>>
  OBVIOUS
<1> DEFINE r1 == Word(n * inv_p10_b57(8))
           x1 == n % 100000000
           f1 == r1 % S57
<1>1. /\ r1 \div S57 = n \div 100000000
      /\ x1 \in Nat /\ x1 < 100000000 /\ f1 \in Nat /\ f1 < S57
      /\ S57 * x1 <= 100000000 * f1 /\ 100000000 * f1 < S57 * (x1 + 1)
  BY SMTT(60) DEF Word, Word32, S64, S32, S57, inv_p10_b57
<1> HIDE DEF r1, x1, f1
<1> DEFINE r2 == Word(f1 * 100)
           x2 == x1 % 1000000
           f2 == r2 % S57
<1>2. /\ r2 \div S57 = x1 \div 1000000
      /\ x2 \in Nat /\ x2 < 1000000 /\ f2 \in Nat /\ f2 < S57
      /\ S57 * x2 <= 1000000 * f2 /\ 1000000 * f2 < S57 * (x2 + 1)
  BY <1>1, SMTT(60) DEF Word, Word32, S64, S32, S57
<1> HIDE DEF r2, x2, f2
<1> DEFINE r3 == Word(f2 * 100)
           x3 == x2 % 10000
           f3 == r3 % S57
<1>3. /\ r3 \div S57 = x2 \div 10000
      /\ x3 \in Nat /\ x3 < 10000 /\ f3 \in Nat /\ f3 < S57
      /\ S57 * x3 <= 10000 * f3 /\ 10000 * f3 < S57 * (x3 + 1)
  BY <1>2, SMTT(60) DEF Word, Word32, S64, S32, S57
<1> HIDE DEF r3, x3, f3
<1> DEFINE r4 == Word(f3 * 100)
           x4 == x3 % 100
           f4 == r4 % S57
<1>4. /\ r4 \div S57 = x3 \div 100
      /\ x4 \in Nat /\ x4 < 100 /\ f4 \in Nat /\ f4 < S57
      /\ S57 * x4 <= 100 * f4 /\ 100 * f4 < S57 * (x4 + 1)
  BY <1>3, SMTT(60) DEF Word, Word32, S64, S32, S57
<1> HIDE DEF r4, x4, f4
<1> DEFINE r5 == Word(f4 * 100)
           x5 == 0
           f5 == r5 % S57
<1>5. r5 \div S57 = x4
  BY <1>4, SMTT(60) DEF Word, Word32, S64, S32, S57
<1> HIDE DEF r5, x5, f5
<1>6. x1 = n % 100000000
  BY DEF x1
<1>7. x2 = n % 1000000
  BY <1>6, SMTT(30) DEF x2
<1>8. x3 = n % 10000
  BY <1>7, SMTT(30) DEF x3
<1>9. x4 = n % 100
  BY <1>8, SMTT(30) DEF x4
<1>10. MoreMul(n) = <<r1 \div S57, r2 \div S57, r3 \div S57, r4 \div S57, r5 \div S57>>
  BY DEF MoreMul, Next64, r1, f1, r2, f2, r3, f3, r4, f4, r5, f5
<1>11. /\ Slice(n, 10000000000, 100000000) = n \div 100000000
      /\ Slice(n, 100000000, 1000000) = x1 \div 1000000
      /\ Slice(n, 1000000, 10000) = x2 \div 10000
      /\ Slice(n, 10000, 100) = x3 \div 100
      /\ Slice(n, 100, 1) = x4
  BY <1>6, <1>7, <1>8, <1>9, SMTT(30) DEF Slice
<1> QED
  BY <1>1, <1>2, <1>3, <1>4, <1>5, <1>10, <1>11

\* uint_to_dec_pre_calc_impl_seq_lessmul_ makes the three digits of a byte.
THEOREM LessMulBytePrints ==
  \A n \in Nat : n < 256 =>
    LessMulByte(n) = <<Slice(n, 1000, 10),
               Slice(n, 10, 1)>>
<1> SUFFICES ASSUME NEW n \in Nat, n < 256
             PROVE  LessMulByte(n) =
             <<Slice(n, 1000, 10),
               Slice(n, 10, 1)>>
  OBVIOUS
<1> DEFINE r1 == Word32(205 * n)
           x1 == n % 10
           f1 == r1 % S11
<1>1. /\ r1 \div S11 = n \div 10
      /\ x1 \in Nat /\ x1 < 10 /\ f1 \in Nat /\ f1 < S11
      /\ S11 * x1 <= 10 * f1 /\ 10 * f1 < S11 * (x1 + 1)
  BY SMTT(60) DEF Word, Word32, S64, S32, S11
<1> HIDE DEF r1, x1, f1
<1> DEFINE r2 == Word32(f1 * 10)
           x2 == 0
           f2 == r2 % S11
<1>2. r2 \div S11 = x1
  BY <1>1, SMTT(60) DEF Word, Word32, S64, S32, S11
<1> HIDE DEF r2, x2, f2
<1>3. x1 = n % 10
  BY DEF x1
<1>4. LessMulByte(n) = <<r1 \div S11, r2 \div S11>>
  BY DEF LessMulByte, Next32, r1, f1, r2, f2
<1>5. /\ Slice(n, 1000, 10) = n \div 10
      /\ Slice(n, 10, 1) = x1
  BY <1>3, SMTT(30) DEF Slice
<1> QED
  BY <1>1, <1>2, <1>4, <1>5

-----------------------------------------------------------------------------
(* uint_to_dec_par_impl_exact_, two printers one after the other. *)

\* uint_to_dec_par_impl_exact_<10> of a 64-bit number prints ten digits.
THEOREM Exact10WidePrints ==
  \A n \in Nat : n < 10000000000 =>
    Exact10Wide(n) =
      <<Slice(n, 10000000000, 100000000),
        Slice(n, 100000000, 1000000),
        Slice(n, 1000000, 100000),
        Slice(n, 100000, 1000),
        Slice(n, 1000, 10),
        Slice(n, 10, 1)>>
<1> SUFFICES ASSUME NEW n \in Nat, n < 10000000000
             PROVE  Exact10Wide(n) =
      <<Slice(n, 10000000000, 100000000),
        Slice(n, 100000000, 1000000),
        Slice(n, 1000000, 100000),
        Slice(n, 100000, 1000),
        Slice(n, 1000, 10),
        Slice(n, 10, 1)>>
  OBVIOUS
<1> DEFINE a == n \div 100000
           b == n % 100000
<1>1. /\ a \in Nat /\ a < 100000 /\ b \in Nat /\ b < 100000
      /\ n = 100000 * a + b
  BY SMTT(30)
<1>2. Word32(a) = a /\ Word32(b) = b
  BY <1>1, SMTT(30) DEF Word32, S32
<1>3. Exact5(a) = <<Slice(a, 100000, 1000), Slice(a, 1000, 10), Slice(a, 10, 1)>>
  BY <1>1, Exact5Prints
<1>4. Exact5(b) = <<Slice(b, 100000, 1000), Slice(b, 1000, 10), Slice(b, 10, 1)>>
  BY <1>1, Exact5Prints
<1>5. /\ Slice(a, 100000, 1000) = Slice(n, 10000000000, 100000000)
      /\ Slice(a, 1000, 10) = Slice(n, 100000000, 1000000)
      /\ Slice(a, 10, 1) = Slice(n, 1000000, 100000)
  BY <1>1, SMTT(60) DEF Slice
<1>6. /\ Slice(b, 100000, 1000) = Slice(n, 100000, 1000)
      /\ Slice(b, 1000, 10) = Slice(n, 1000, 10)
      /\ Slice(b, 10, 1) = Slice(n, 10, 1)
  BY <1>1, SMTT(60) DEF Slice
<1>7. Exact10Wide(n) = <<Exact5(a)[1], Exact5(a)[2], Exact5(a)[3], Exact5(b)[1], Exact5(b)[2], Exact5(b)[3]>>
  BY <1>2 DEF Exact10Wide
<1> HIDE DEF a, b
<1> QED
  BY <1>3, <1>4, <1>5, <1>6, <1>7

\* uint_to_dec_par_impl_exact_<11> prints eleven digits.
THEOREM Exact11Prints ==
  \A n \in Nat : n < 100000000000 =>
    Exact11(n) =
      <<Slice(n, 100000000000, 1000000000),
        Slice(n, 1000000000, 10000000),
        Slice(n, 10000000, 100000),
        Slice(n, 100000, 1000),
        Slice(n, 1000, 10),
        Slice(n, 10, 1)>>
<1> SUFFICES ASSUME NEW n \in Nat, n < 100000000000
             PROVE  Exact11(n) =
      <<Slice(n, 100000000000, 1000000000),
        Slice(n, 1000000000, 10000000),
        Slice(n, 10000000, 100000),
        Slice(n, 100000, 1000),
        Slice(n, 1000, 10),
        Slice(n, 10, 1)>>
  OBVIOUS
<1> DEFINE a == n \div 100000
           b == n % 100000
<1>1. /\ a \in Nat /\ a < 1000000 /\ b \in Nat /\ b < 100000
      /\ n = 100000 * a + b
  BY SMTT(30)
<1>2. Word32(a) = a /\ Word32(b) = b
  BY <1>1, SMTT(30) DEF Word32, S32
<1>3. Exact6(a) = <<Slice(a, 1000000, 10000), Slice(a, 10000, 100), Slice(a, 100, 1)>>
  BY <1>1, Exact6Prints
<1>4. Exact5(b) = <<Slice(b, 100000, 1000), Slice(b, 1000, 10), Slice(b, 10, 1)>>
  BY <1>1, Exact5Prints
<1>5. /\ Slice(a, 1000000, 10000) = Slice(n, 100000000000, 1000000000)
      /\ Slice(a, 10000, 100) = Slice(n, 1000000000, 10000000)
      /\ Slice(a, 100, 1) = Slice(n, 10000000, 100000)
  BY <1>1, SMTT(60) DEF Slice
<1>6. /\ Slice(b, 100000, 1000) = Slice(n, 100000, 1000)
      /\ Slice(b, 1000, 10) = Slice(n, 1000, 10)
      /\ Slice(b, 10, 1) = Slice(n, 10, 1)
  BY <1>1, SMTT(60) DEF Slice
<1>7. Exact11(n) = <<Exact6(a)[1], Exact6(a)[2], Exact6(a)[3], Exact5(b)[1], Exact5(b)[2], Exact5(b)[3]>>
  BY <1>2 DEF Exact11
<1> HIDE DEF a, b
<1> QED
  BY <1>3, <1>4, <1>5, <1>6, <1>7

\* uint_to_dec_par_impl_exact_<12> prints twelve digits.
THEOREM Exact12Prints ==
  \A n \in Nat : n < 1000000000000 =>
    Exact12(n) =
      <<Slice(n, 1000000000000, 10000000000),
        Slice(n, 10000000000, 100000000),
        Slice(n, 100000000, 1000000),
        Slice(n, 1000000, 10000),
        Slice(n, 10000, 100),
        Slice(n, 100, 1)>>
<1> SUFFICES ASSUME NEW n \in Nat, n < 1000000000000
             PROVE  Exact12(n) =
      <<Slice(n, 1000000000000, 10000000000),
        Slice(n, 10000000000, 100000000),
        Slice(n, 100000000, 1000000),
        Slice(n, 1000000, 10000),
        Slice(n, 10000, 100),
        Slice(n, 100, 1)>>
  OBVIOUS
<1> DEFINE a == n \div 1000000
           b == n % 1000000
<1>1. /\ a \in Nat /\ a < 1000000 /\ b \in Nat /\ b < 1000000
      /\ n = 1000000 * a + b
  BY SMTT(30)
<1>2. Word32(a) = a /\ Word32(b) = b
  BY <1>1, SMTT(30) DEF Word32, S32
<1>3. Exact6(a) = <<Slice(a, 1000000, 10000), Slice(a, 10000, 100), Slice(a, 100, 1)>>
  BY <1>1, Exact6Prints
<1>4. Exact6(b) = <<Slice(b, 1000000, 10000), Slice(b, 10000, 100), Slice(b, 100, 1)>>
  BY <1>1, Exact6Prints
<1>5. /\ Slice(a, 1000000, 10000) = Slice(n, 1000000000000, 10000000000)
      /\ Slice(a, 10000, 100) = Slice(n, 10000000000, 100000000)
      /\ Slice(a, 100, 1) = Slice(n, 100000000, 1000000)
  BY <1>1, SMTT(60) DEF Slice
<1>6. /\ Slice(b, 1000000, 10000) = Slice(n, 1000000, 10000)
      /\ Slice(b, 10000, 100) = Slice(n, 10000, 100)
      /\ Slice(b, 100, 1) = Slice(n, 100, 1)
  BY <1>1, SMTT(60) DEF Slice
<1>7. Exact12(n) = <<Exact6(a)[1], Exact6(a)[2], Exact6(a)[3], Exact6(b)[1], Exact6(b)[2], Exact6(b)[3]>>
  BY <1>2 DEF Exact12
<1> HIDE DEF a, b
<1> QED
  BY <1>3, <1>4, <1>5, <1>6, <1>7

\* uint_to_dec_par_impl_exact_<13> prints thirteen digits.
THEOREM Exact13Prints ==
  \A n \in Nat : n < 10000000000000 =>
    Exact13(n) =
      <<Slice(n, 10000000000000, 100000000000),
        Slice(n, 100000000000, 1000000000),
        Slice(n, 1000000000, 10000000),
        Slice(n, 10000000, 1000000),
        Slice(n, 1000000, 10000),
        Slice(n, 10000, 100),
        Slice(n, 100, 1)>>
<1> SUFFICES ASSUME NEW n \in Nat, n < 10000000000000
             PROVE  Exact13(n) =
      <<Slice(n, 10000000000000, 100000000000),
        Slice(n, 100000000000, 1000000000),
        Slice(n, 1000000000, 10000000),
        Slice(n, 10000000, 1000000),
        Slice(n, 1000000, 10000),
        Slice(n, 10000, 100),
        Slice(n, 100, 1)>>
  OBVIOUS
<1> DEFINE a == n \div 1000000
           b == n % 1000000
<1>1. /\ a \in Nat /\ a < 10000000 /\ b \in Nat /\ b < 1000000
      /\ n = 1000000 * a + b
  BY SMTT(30)
<1>2. Word32(a) = a /\ Word32(b) = b
  BY <1>1, SMTT(30) DEF Word32, S32
<1>3. Exact7(a) = <<Slice(a, 10000000, 100000), Slice(a, 100000, 1000), Slice(a, 1000, 10), Slice(a, 10, 1)>>
  BY <1>1, Exact7Prints
<1>4. Exact6(b) = <<Slice(b, 1000000, 10000), Slice(b, 10000, 100), Slice(b, 100, 1)>>
  BY <1>1, Exact6Prints
<1>5. /\ Slice(a, 10000000, 100000) = Slice(n, 10000000000000, 100000000000)
      /\ Slice(a, 100000, 1000) = Slice(n, 100000000000, 1000000000)
      /\ Slice(a, 1000, 10) = Slice(n, 1000000000, 10000000)
      /\ Slice(a, 10, 1) = Slice(n, 10000000, 1000000)
  BY <1>1, SMTT(60) DEF Slice
<1>6. /\ Slice(b, 1000000, 10000) = Slice(n, 1000000, 10000)
      /\ Slice(b, 10000, 100) = Slice(n, 10000, 100)
      /\ Slice(b, 100, 1) = Slice(n, 100, 1)
  BY <1>1, SMTT(60) DEF Slice
<1>7. Exact13(n) = <<Exact7(a)[1], Exact7(a)[2], Exact7(a)[3], Exact7(a)[4], Exact6(b)[1], Exact6(b)[2], Exact6(b)[3]>>
  BY <1>2 DEF Exact13
<1> HIDE DEF a, b
<1> QED
  BY <1>3, <1>4, <1>5, <1>6, <1>7

\* uint_to_dec_par_impl_exact_<14> prints fourteen digits.
THEOREM Exact14Prints ==
  \A n \in Nat : n < 100000000000000 =>
    Exact14(n) =
      <<Slice(n, 100000000000000, 1000000000000),
        Slice(n, 1000000000000, 10000000000),
        Slice(n, 10000000000, 100000000),
        Slice(n, 100000000, 10000000),
        Slice(n, 10000000, 100000),
        Slice(n, 100000, 1000),
        Slice(n, 1000, 10),
        Slice(n, 10, 1)>>
<1> SUFFICES ASSUME NEW n \in Nat, n < 100000000000000
             PROVE  Exact14(n) =
      <<Slice(n, 100000000000000, 1000000000000),
        Slice(n, 1000000000000, 10000000000),
        Slice(n, 10000000000, 100000000),
        Slice(n, 100000000, 10000000),
        Slice(n, 10000000, 100000),
        Slice(n, 100000, 1000),
        Slice(n, 1000, 10),
        Slice(n, 10, 1)>>
  OBVIOUS
<1> DEFINE a == n \div 10000000
           b == n % 10000000
<1>1. /\ a \in Nat /\ a < 10000000 /\ b \in Nat /\ b < 10000000
      /\ n = 10000000 * a + b
  BY SMTT(30)
<1>2. Word32(a) = a /\ Word32(b) = b
  BY <1>1, SMTT(30) DEF Word32, S32
<1>3. Exact7(a) = <<Slice(a, 10000000, 100000), Slice(a, 100000, 1000), Slice(a, 1000, 10), Slice(a, 10, 1)>>
  BY <1>1, Exact7Prints
<1>4. Exact7(b) = <<Slice(b, 10000000, 100000), Slice(b, 100000, 1000), Slice(b, 1000, 10), Slice(b, 10, 1)>>
  BY <1>1, Exact7Prints
<1>5. /\ Slice(a, 10000000, 100000) = Slice(n, 100000000000000, 1000000000000)
      /\ Slice(a, 100000, 1000) = Slice(n, 1000000000000, 10000000000)
      /\ Slice(a, 1000, 10) = Slice(n, 10000000000, 100000000)
      /\ Slice(a, 10, 1) = Slice(n, 100000000, 10000000)
  BY <1>1, SMTT(60) DEF Slice
<1>6. /\ Slice(b, 10000000, 100000) = Slice(n, 10000000, 100000)
      /\ Slice(b, 100000, 1000) = Slice(n, 100000, 1000)
      /\ Slice(b, 1000, 10) = Slice(n, 1000, 10)
      /\ Slice(b, 10, 1) = Slice(n, 10, 1)
  BY <1>1, SMTT(60) DEF Slice
<1>7. Exact14(n) = <<Exact7(a)[1], Exact7(a)[2], Exact7(a)[3], Exact7(a)[4], Exact7(b)[1], Exact7(b)[2], Exact7(b)[3], Exact7(b)[4]>>
  BY <1>2 DEF Exact14
<1> HIDE DEF a, b
<1> QED
  BY <1>3, <1>4, <1>5, <1>6, <1>7

\* uint_to_dec_par_impl_exact_<15> prints fifteen digits.
THEOREM Exact15Prints ==
  \A n \in Nat : n < 1000000000000000 =>
    Exact15(n) =
      <<Slice(n, 1000000000000000, 10000000000000),
        Slice(n, 10000000000000, 100000000000),
        Slice(n, 100000000000, 1000000000),
        Slice(n, 1000000000, 10000000),
        Slice(n, 10000000, 100000),
        Slice(n, 100000, 1000),
        Slice(n, 1000, 10),
        Slice(n, 10, 1)>>
<1> SUFFICES ASSUME NEW n \in Nat, n < 1000000000000000
             PROVE  Exact15(n) =
      <<Slice(n, 1000000000000000, 10000000000000),
        Slice(n, 10000000000000, 100000000000),
        Slice(n, 100000000000, 1000000000),
        Slice(n, 1000000000, 10000000),
        Slice(n, 10000000, 100000),
        Slice(n, 100000, 1000),
        Slice(n, 1000, 10),
        Slice(n, 10, 1)>>
  OBVIOUS
<1> DEFINE a == n \div 10000000
           b == n % 10000000
<1>1. /\ a \in Nat /\ a < 100000000 /\ b \in Nat /\ b < 10000000
      /\ n = 10000000 * a + b
  BY SMTT(30)
<1>2. Word32(a) = a /\ Word32(b) = b
  BY <1>1, SMTT(30) DEF Word32, S32
<1>3. Exact8(a) = <<Slice(a, 100000000, 1000000), Slice(a, 1000000, 10000), Slice(a, 10000, 100), Slice(a, 100, 1)>>
  BY <1>1, Exact8Prints
<1>4. Exact7(b) = <<Slice(b, 10000000, 100000), Slice(b, 100000, 1000), Slice(b, 1000, 10), Slice(b, 10, 1)>>
  BY <1>1, Exact7Prints
<1>5. /\ Slice(a, 100000000, 1000000) = Slice(n, 1000000000000000, 10000000000000)
      /\ Slice(a, 1000000, 10000) = Slice(n, 10000000000000, 100000000000)
      /\ Slice(a, 10000, 100) = Slice(n, 100000000000, 1000000000)
      /\ Slice(a, 100, 1) = Slice(n, 1000000000, 10000000)
  BY <1>1, SMTT(60) DEF Slice
<1>6. /\ Slice(b, 10000000, 100000) = Slice(n, 10000000, 100000)
      /\ Slice(b, 100000, 1000) = Slice(n, 100000, 1000)
      /\ Slice(b, 1000, 10) = Slice(n, 1000, 10)
      /\ Slice(b, 10, 1) = Slice(n, 10, 1)
  BY <1>1, SMTT(60) DEF Slice
<1>7. Exact15(n) = <<Exact8(a)[1], Exact8(a)[2], Exact8(a)[3], Exact8(a)[4], Exact7(b)[1], Exact7(b)[2], Exact7(b)[3], Exact7(b)[4]>>
  BY <1>2 DEF Exact15
<1> HIDE DEF a, b
<1> QED
  BY <1>3, <1>4, <1>5, <1>6, <1>7

\* uint_to_dec_par_impl_exact_<16> prints sixteen digits.
THEOREM Exact16Prints ==
  \A n \in Nat : n < 10000000000000000 =>
    Exact16(n) =
      <<Slice(n, 10000000000000000, 100000000000000),
        Slice(n, 100000000000000, 1000000000000),
        Slice(n, 1000000000000, 10000000000),
        Slice(n, 10000000000, 100000000),
        Slice(n, 100000000, 1000000),
        Slice(n, 1000000, 10000),
        Slice(n, 10000, 100),
        Slice(n, 100, 1)>>
<1> SUFFICES ASSUME NEW n \in Nat, n < 10000000000000000
             PROVE  Exact16(n) =
      <<Slice(n, 10000000000000000, 100000000000000),
        Slice(n, 100000000000000, 1000000000000),
        Slice(n, 1000000000000, 10000000000),
        Slice(n, 10000000000, 100000000),
        Slice(n, 100000000, 1000000),
        Slice(n, 1000000, 10000),
        Slice(n, 10000, 100),
        Slice(n, 100, 1)>>
  OBVIOUS
<1> DEFINE a == n \div 100000000
           b == n % 100000000
<1>1. /\ a \in Nat /\ a < 100000000 /\ b \in Nat /\ b < 100000000
      /\ n = 100000000 * a + b
  BY SMTT(30)
<1>2. Word32(a) = a /\ Word32(b) = b
  BY <1>1, SMTT(30) DEF Word32, S32
<1>3. Exact8(a) = <<Slice(a, 100000000, 1000000), Slice(a, 1000000, 10000), Slice(a, 10000, 100), Slice(a, 100, 1)>>
  BY <1>1, Exact8Prints
<1>4. Exact8(b) = <<Slice(b, 100000000, 1000000), Slice(b, 1000000, 10000), Slice(b, 10000, 100), Slice(b, 100, 1)>>
  BY <1>1, Exact8Prints
<1>5. /\ Slice(a, 100000000, 1000000) = Slice(n, 10000000000000000, 100000000000000)
      /\ Slice(a, 1000000, 10000) = Slice(n, 100000000000000, 1000000000000)
      /\ Slice(a, 10000, 100) = Slice(n, 1000000000000, 10000000000)
      /\ Slice(a, 100, 1) = Slice(n, 10000000000, 100000000)
  BY <1>1, SMTT(60) DEF Slice
<1>6. /\ Slice(b, 100000000, 1000000) = Slice(n, 100000000, 1000000)
      /\ Slice(b, 1000000, 10000) = Slice(n, 1000000, 10000)
      /\ Slice(b, 10000, 100) = Slice(n, 10000, 100)
      /\ Slice(b, 100, 1) = Slice(n, 100, 1)
  BY <1>1, SMTT(60) DEF Slice
<1>7. Exact16(n) = <<Exact8(a)[1], Exact8(a)[2], Exact8(a)[3], Exact8(a)[4], Exact8(b)[1], Exact8(b)[2], Exact8(b)[3], Exact8(b)[4]>>
  BY <1>2 DEF Exact16
<1> HIDE DEF a, b
<1> QED
  BY <1>3, <1>4, <1>5, <1>6, <1>7

\* uint_to_dec_par_impl_exact_<17> prints seventeen digits.
THEOREM Exact17Prints ==
  \A n \in Nat : n < 100000000000000000 =>
    Exact17(n) =
      <<Slice(n, 100000000000000000, 1000000000000000),
        Slice(n, 1000000000000000, 10000000000000),
        Slice(n, 10000000000000, 100000000000),
        Slice(n, 100000000000, 1000000000),
        Slice(n, 1000000000, 100000000),
        Slice(n, 100000000, 1000000),
        Slice(n, 1000000, 10000),
        Slice(n, 10000, 100),
        Slice(n, 100, 1)>>
<1> SUFFICES ASSUME NEW n \in Nat, n < 100000000000000000
             PROVE  Exact17(n) =
      <<Slice(n, 100000000000000000, 1000000000000000),
        Slice(n, 1000000000000000, 10000000000000),
        Slice(n, 10000000000000, 100000000000),
        Slice(n, 100000000000, 1000000000),
        Slice(n, 1000000000, 100000000),
        Slice(n, 100000000, 1000000),
        Slice(n, 1000000, 10000),
        Slice(n, 10000, 100),
        Slice(n, 100, 1)>>
  OBVIOUS
<1> DEFINE a == n \div 100000000
           b == n % 100000000
<1>1. /\ a \in Nat /\ a < 1000000000 /\ b \in Nat /\ b < 100000000
      /\ n = 100000000 * a + b
  BY SMTT(30)
<1>2. Word32(a) = a /\ Word32(b) = b
  BY <1>1, SMTT(30) DEF Word32, S32
<1>3. Exact9(a) = <<Slice(a, 1000000000, 10000000), Slice(a, 10000000, 100000), Slice(a, 100000, 1000), Slice(a, 1000, 10), Slice(a, 10, 1)>>
  BY <1>1, Exact9Prints
<1>4. Exact8(b) = <<Slice(b, 100000000, 1000000), Slice(b, 1000000, 10000), Slice(b, 10000, 100), Slice(b, 100, 1)>>
  BY <1>1, Exact8Prints
<1>5. /\ Slice(a, 1000000000, 10000000) = Slice(n, 100000000000000000, 1000000000000000)
      /\ Slice(a, 10000000, 100000) = Slice(n, 1000000000000000, 10000000000000)
      /\ Slice(a, 100000, 1000) = Slice(n, 10000000000000, 100000000000)
      /\ Slice(a, 1000, 10) = Slice(n, 100000000000, 1000000000)
      /\ Slice(a, 10, 1) = Slice(n, 1000000000, 100000000)
  BY <1>1, SMTT(60) DEF Slice
<1>6. /\ Slice(b, 100000000, 1000000) = Slice(n, 100000000, 1000000)
      /\ Slice(b, 1000000, 10000) = Slice(n, 1000000, 10000)
      /\ Slice(b, 10000, 100) = Slice(n, 10000, 100)
      /\ Slice(b, 100, 1) = Slice(n, 100, 1)
  BY <1>1, SMTT(60) DEF Slice
<1>7. Exact17(n) = <<Exact9(a)[1], Exact9(a)[2], Exact9(a)[3], Exact9(a)[4], Exact9(a)[5], Exact8(b)[1], Exact8(b)[2], Exact8(b)[3], Exact8(b)[4]>>
  BY <1>2 DEF Exact17
<1> HIDE DEF a, b
<1> QED
  BY <1>3, <1>4, <1>5, <1>6, <1>7

\* uint_to_dec_par_impl_exact_<18> prints eighteen digits.
THEOREM Exact18Prints ==
  \A n \in Nat : n < 1000000000000000000 =>
    Exact18(n) =
      <<Slice(n, 1000000000000000000, 10000000000000000),
        Slice(n, 10000000000000000, 100000000000000),
        Slice(n, 100000000000000, 1000000000000),
        Slice(n, 1000000000000, 10000000000),
        Slice(n, 10000000000, 1000000000),
        Slice(n, 1000000000, 10000000),
        Slice(n, 10000000, 100000),
        Slice(n, 100000, 1000),
        Slice(n, 1000, 10),
        Slice(n, 10, 1)>>
<1> SUFFICES ASSUME NEW n \in Nat, n < 1000000000000000000
             PROVE  Exact18(n) =
      <<Slice(n, 1000000000000000000, 10000000000000000),
        Slice(n, 10000000000000000, 100000000000000),
        Slice(n, 100000000000000, 1000000000000),
        Slice(n, 1000000000000, 10000000000),
        Slice(n, 10000000000, 1000000000),
        Slice(n, 1000000000, 10000000),
        Slice(n, 10000000, 100000),
        Slice(n, 100000, 1000),
        Slice(n, 1000, 10),
        Slice(n, 10, 1)>>
  OBVIOUS
<1> DEFINE a == n \div 1000000000
           b == n % 1000000000
<1>1. /\ a \in Nat /\ a < 1000000000 /\ b \in Nat /\ b < 1000000000
      /\ n = 1000000000 * a + b
  BY SMTT(30)
<1>2. Word32(a) = a /\ Word32(b) = b
  BY <1>1, SMTT(30) DEF Word32, S32
<1>3. Exact9(a) = <<Slice(a, 1000000000, 10000000), Slice(a, 10000000, 100000), Slice(a, 100000, 1000), Slice(a, 1000, 10), Slice(a, 10, 1)>>
  BY <1>1, Exact9Prints
<1>4. Exact9(b) = <<Slice(b, 1000000000, 10000000), Slice(b, 10000000, 100000), Slice(b, 100000, 1000), Slice(b, 1000, 10), Slice(b, 10, 1)>>
  BY <1>1, Exact9Prints
<1>5. /\ Slice(a, 1000000000, 10000000) = Slice(n, 1000000000000000000, 10000000000000000)
      /\ Slice(a, 10000000, 100000) = Slice(n, 10000000000000000, 100000000000000)
      /\ Slice(a, 100000, 1000) = Slice(n, 100000000000000, 1000000000000)
      /\ Slice(a, 1000, 10) = Slice(n, 1000000000000, 10000000000)
      /\ Slice(a, 10, 1) = Slice(n, 10000000000, 1000000000)
  BY <1>1, SMTT(60) DEF Slice
<1>6. /\ Slice(b, 1000000000, 10000000) = Slice(n, 1000000000, 10000000)
      /\ Slice(b, 10000000, 100000) = Slice(n, 10000000, 100000)
      /\ Slice(b, 100000, 1000) = Slice(n, 100000, 1000)
      /\ Slice(b, 1000, 10) = Slice(n, 1000, 10)
      /\ Slice(b, 10, 1) = Slice(n, 10, 1)
  BY <1>1, SMTT(60) DEF Slice
<1>7. Exact18(n) = <<Exact9(a)[1], Exact9(a)[2], Exact9(a)[3], Exact9(a)[4], Exact9(a)[5], Exact9(b)[1], Exact9(b)[2], Exact9(b)[3], Exact9(b)[4], Exact9(b)[5]>>
  BY <1>2 DEF Exact18
<1> HIDE DEF a, b
<1> QED
  BY <1>3, <1>4, <1>5, <1>6, <1>7

\* uint_to_dec_par_impl_exact_<19> prints nineteen digits.
THEOREM Exact19Prints ==
  \A n \in Nat : n < 10000000000000000000 =>
    Exact19(n) =
      <<Slice(n, 10000000000000000000, 100000000000000000),
        Slice(n, 100000000000000000, 1000000000000000),
        Slice(n, 1000000000000000, 100000000000000),
        Slice(n, 100000000000000, 1000000000000),
        Slice(n, 1000000000000, 10000000000),
        Slice(n, 10000000000, 1000000000),
        Slice(n, 1000000000, 10000000),
        Slice(n, 10000000, 100000),
        Slice(n, 100000, 1000),
        Slice(n, 1000, 10),
        Slice(n, 10, 1)>>
<1> SUFFICES ASSUME NEW n \in Nat, n < 10000000000000000000
             PROVE  Exact19(n) =
      <<Slice(n, 10000000000000000000, 100000000000000000),
        Slice(n, 100000000000000000, 1000000000000000),
        Slice(n, 1000000000000000, 100000000000000),
        Slice(n, 100000000000000, 1000000000000),
        Slice(n, 1000000000000, 10000000000),
        Slice(n, 10000000000, 1000000000),
        Slice(n, 1000000000, 10000000),
        Slice(n, 10000000, 100000),
        Slice(n, 100000, 1000),
        Slice(n, 1000, 10),
        Slice(n, 10, 1)>>
  OBVIOUS
<1> DEFINE a == n \div 1000000000
           b == n % 1000000000
<1>1. /\ a \in Nat /\ a < 10000000000 /\ b \in Nat /\ b < 1000000000
      /\ n = 1000000000 * a + b
  BY SMTT(30)
<1>2. Word32(b) = b
  BY <1>1, SMTT(30) DEF Word32, S32
<1>3. Exact10Wide(a) = <<Slice(a, 10000000000, 100000000), Slice(a, 100000000, 1000000), Slice(a, 1000000, 100000), Slice(a, 100000, 1000), Slice(a, 1000, 10), Slice(a, 10, 1)>>
  BY <1>1, Exact10WidePrints
<1>4. Exact9(b) = <<Slice(b, 1000000000, 10000000), Slice(b, 10000000, 100000), Slice(b, 100000, 1000), Slice(b, 1000, 10), Slice(b, 10, 1)>>
  BY <1>1, Exact9Prints
<1>5. /\ Slice(a, 10000000000, 100000000) = Slice(n, 10000000000000000000, 100000000000000000)
      /\ Slice(a, 100000000, 1000000) = Slice(n, 100000000000000000, 1000000000000000)
      /\ Slice(a, 1000000, 100000) = Slice(n, 1000000000000000, 100000000000000)
      /\ Slice(a, 100000, 1000) = Slice(n, 100000000000000, 1000000000000)
      /\ Slice(a, 1000, 10) = Slice(n, 1000000000000, 10000000000)
      /\ Slice(a, 10, 1) = Slice(n, 10000000000, 1000000000)
  BY <1>1, SMTT(60) DEF Slice
<1>6. /\ Slice(b, 1000000000, 10000000) = Slice(n, 1000000000, 10000000)
      /\ Slice(b, 10000000, 100000) = Slice(n, 10000000, 100000)
      /\ Slice(b, 100000, 1000) = Slice(n, 100000, 1000)
      /\ Slice(b, 1000, 10) = Slice(n, 1000, 10)
      /\ Slice(b, 10, 1) = Slice(n, 10, 1)
  BY <1>1, SMTT(60) DEF Slice
<1>7. Exact19(n) = <<Exact10Wide(a)[1], Exact10Wide(a)[2], Exact10Wide(a)[3], Exact10Wide(a)[4], Exact10Wide(a)[5], Exact10Wide(a)[6], Exact9(b)[1], Exact9(b)[2], Exact9(b)[3], Exact9(b)[4], Exact9(b)[5]>>
  BY <1>2 DEF Exact19
<1> HIDE DEF a, b
<1> QED
  BY <1>3, <1>4, <1>5, <1>6, <1>7

\* uint_to_dec_par_impl_exact_<20> prints twenty digits of any 64-bit number: the
\* first ten fit the 32-bit printer.
THEOREM Exact20Prints ==
  \A n \in Nat : n < 18446744073709551616 =>
    Exact20(n) =
      <<Slice(n, 100000000000000000000, 1000000000000000000),
        Slice(n, 1000000000000000000, 10000000000000000),
        Slice(n, 10000000000000000, 100000000000000),
        Slice(n, 100000000000000, 1000000000000),
        Slice(n, 1000000000000, 10000000000),
        Slice(n, 10000000000, 100000000),
        Slice(n, 100000000, 1000000),
        Slice(n, 1000000, 100000),
        Slice(n, 100000, 1000),
        Slice(n, 1000, 10),
        Slice(n, 10, 1)>>
<1> SUFFICES ASSUME NEW n \in Nat, n < 18446744073709551616
             PROVE  Exact20(n) =
      <<Slice(n, 100000000000000000000, 1000000000000000000),
        Slice(n, 1000000000000000000, 10000000000000000),
        Slice(n, 10000000000000000, 100000000000000),
        Slice(n, 100000000000000, 1000000000000),
        Slice(n, 1000000000000, 10000000000),
        Slice(n, 10000000000, 100000000),
        Slice(n, 100000000, 1000000),
        Slice(n, 1000000, 100000),
        Slice(n, 100000, 1000),
        Slice(n, 1000, 10),
        Slice(n, 10, 1)>>
  OBVIOUS
<1> DEFINE a == n \div 10000000000
           b == n % 10000000000
<1>1. /\ a \in Nat /\ a < 4294967296 /\ b \in Nat /\ b < 10000000000
      /\ n = 10000000000 * a + b
  BY SMTT(30)
<1>2. Word32(a) = a
  BY <1>1, SMTT(30) DEF Word32, S32
<1>3. Exact10(a) = <<Slice(a, 10000000000, 100000000), Slice(a, 100000000, 1000000), Slice(a, 1000000, 10000), Slice(a, 10000, 100), Slice(a, 100, 1)>>
  BY <1>1, Exact10Prints
<1>4. Exact10Wide(b) = <<Slice(b, 10000000000, 100000000), Slice(b, 100000000, 1000000), Slice(b, 1000000, 100000), Slice(b, 100000, 1000), Slice(b, 1000, 10), Slice(b, 10, 1)>>
  BY <1>1, Exact10WidePrints
<1>5. /\ Slice(a, 10000000000, 100000000) = Slice(n, 100000000000000000000, 1000000000000000000)
      /\ Slice(a, 100000000, 1000000) = Slice(n, 1000000000000000000, 10000000000000000)
      /\ Slice(a, 1000000, 10000) = Slice(n, 10000000000000000, 100000000000000)
      /\ Slice(a, 10000, 100) = Slice(n, 100000000000000, 1000000000000)
      /\ Slice(a, 100, 1) = Slice(n, 1000000000000, 10000000000)
  BY <1>1, SMTT(60) DEF Slice
<1>6. /\ Slice(b, 10000000000, 100000000) = Slice(n, 10000000000, 100000000)
      /\ Slice(b, 100000000, 1000000) = Slice(n, 100000000, 1000000)
      /\ Slice(b, 1000000, 100000) = Slice(n, 1000000, 100000)
      /\ Slice(b, 100000, 1000) = Slice(n, 100000, 1000)
      /\ Slice(b, 1000, 10) = Slice(n, 1000, 10)
      /\ Slice(b, 10, 1) = Slice(n, 10, 1)
  BY <1>1, SMTT(60) DEF Slice
<1>7. Exact20(n) = <<Exact10(a)[1], Exact10(a)[2], Exact10(a)[3], Exact10(a)[4], Exact10(a)[5], Exact10Wide(b)[1], Exact10Wide(b)[2], Exact10Wide(b)[3], Exact10Wide(b)[4], Exact10Wide(b)[5], Exact10Wide(b)[6]>>
  BY <1>2 DEF Exact20
<1> HIDE DEF a, b
<1> QED
  BY <1>3, <1>4, <1>5, <1>6, <1>7

-----------------------------------------------------------------------------
(* dec_width and int_to_dec_par. *)

\* w digits are what n needs, none for 0
IsDecWidth(w, n) ==
  /\ w \in 0 .. 20
  /\ w = 0 <=> n = 0
  /\ w > 0 => floor10_table[w] <= n
  /\ w < 20 => n < floor10_table[w + 1]

\* dec_width of any 64-bit number is its number of digits: 39/128 of the bits is
\* never off by more than the one comparison with floor10_table sets right.
THEOREM DecWidthIsRight ==
  ASSUME NEW n \in Nat, n < 18446744073709551616, NEW bits \in 1 .. 64,
         HasBits((n + 1) - (n % 2), bits)
  PROVE  IsDecWidth(DecWidth(n, bits, 8), n)
<1> DEFINE x == (n + 1) - (n % 2)
           w == DecWidth(n, bits, 8)
<1>1. x \in Nat /\ n <= x /\ x <= n + 1 /\ x % 2 = 1
  BY SMTT(30)
<1>2. CASE bits \in 1 .. 3
  <2>1. 1 <= x /\ x < 8
    BY <1>1, <1>2, SMTT(60) DEF HasBits, two_powers
  <2>2. (bits * 39) \div 128 = 0
    BY <1>2, SMTT(30)
  <2>3. w = 0 + (IF 1 <= x THEN 1 ELSE 0) - (IF n = 0 THEN 1 ELSE 0)
    BY <2>2, SMTT(30) DEF DecWidth, floor10_table, S64
  <2> QED
    BY <1>1, <2>1, <2>3, SMTT(60) DEF IsDecWidth, floor10_table, S64
<1>3. CASE bits \in 4 .. 6
  <2>1. 8 <= x /\ x < 64
    BY <1>1, <1>3, SMTT(60) DEF HasBits, two_powers
  <2>2. (bits * 39) \div 128 = 1
    BY <1>3, SMTT(30)
  <2>3. w = 1 + (IF 10 <= x THEN 1 ELSE 0) - (IF n = 0 THEN 1 ELSE 0)
    BY <2>2, SMTT(30) DEF DecWidth, floor10_table, S64
  <2> QED
    BY <1>1, <2>1, <2>3, SMTT(60) DEF IsDecWidth, floor10_table, S64
<1>4. CASE bits \in 7 .. 9
  <2>1. 64 <= x /\ x < 512
    BY <1>1, <1>4, SMTT(60) DEF HasBits, two_powers
  <2>2. (bits * 39) \div 128 = 2
    BY <1>4, SMTT(30)
  <2>3. w = 2 + (IF 100 <= x THEN 1 ELSE 0) - (IF n = 0 THEN 1 ELSE 0)
    BY <2>2, SMTT(30) DEF DecWidth, floor10_table, S64
  <2> QED
    BY <1>1, <2>1, <2>3, SMTT(60) DEF IsDecWidth, floor10_table, S64
<1>5. CASE bits \in 10 .. 13
  <2>1. 512 <= x /\ x < 8192
    BY <1>1, <1>5, SMTT(60) DEF HasBits, two_powers
  <2>2. (bits * 39) \div 128 = 3
    BY <1>5, SMTT(30)
  <2>3. w = 3 + (IF 1000 <= x THEN 1 ELSE 0) - (IF n = 0 THEN 1 ELSE 0)
    BY <2>2, SMTT(30) DEF DecWidth, floor10_table, S64
  <2> QED
    BY <1>1, <2>1, <2>3, SMTT(60) DEF IsDecWidth, floor10_table, S64
<1>6. CASE bits \in 14 .. 16
  <2>1. 8192 <= x /\ x < 65536
    BY <1>1, <1>6, SMTT(60) DEF HasBits, two_powers
  <2>2. (bits * 39) \div 128 = 4
    BY <1>6, SMTT(30)
  <2>3. w = 4 + (IF 10000 <= x THEN 1 ELSE 0) - (IF n = 0 THEN 1 ELSE 0)
    BY <2>2, SMTT(30) DEF DecWidth, floor10_table, S64
  <2> QED
    BY <1>1, <2>1, <2>3, SMTT(60) DEF IsDecWidth, floor10_table, S64
<1>7. CASE bits \in 17 .. 19
  <2>1. 65536 <= x /\ x < 524288
    BY <1>1, <1>7, SMTT(60) DEF HasBits, two_powers
  <2>2. (bits * 39) \div 128 = 5
    BY <1>7, SMTT(30)
  <2>3. w = 5 + (IF 100000 <= x THEN 1 ELSE 0) - (IF n = 0 THEN 1 ELSE 0)
    BY <2>2, SMTT(30) DEF DecWidth, floor10_table, S64
  <2> QED
    BY <1>1, <2>1, <2>3, SMTT(60) DEF IsDecWidth, floor10_table, S64
<1>8. CASE bits \in 20 .. 22
  <2>1. 524288 <= x /\ x < 4194304
    BY <1>1, <1>8, SMTT(60) DEF HasBits, two_powers
  <2>2. (bits * 39) \div 128 = 6
    BY <1>8, SMTT(30)
  <2>3. w = 6 + (IF 1000000 <= x THEN 1 ELSE 0) - (IF n = 0 THEN 1 ELSE 0)
    BY <2>2, SMTT(30) DEF DecWidth, floor10_table, S64
  <2> QED
    BY <1>1, <2>1, <2>3, SMTT(60) DEF IsDecWidth, floor10_table, S64
<1>9. CASE bits \in 23 .. 26
  <2>1. 4194304 <= x /\ x < 67108864
    BY <1>1, <1>9, SMTT(60) DEF HasBits, two_powers
  <2>2. (bits * 39) \div 128 = 7
    BY <1>9, SMTT(30)
  <2>3. w = 7 + (IF 10000000 <= x THEN 1 ELSE 0) - (IF n = 0 THEN 1 ELSE 0)
    BY <2>2, SMTT(30) DEF DecWidth, floor10_table, S64
  <2> QED
    BY <1>1, <2>1, <2>3, SMTT(60) DEF IsDecWidth, floor10_table, S64
<1>10. CASE bits \in 27 .. 29
  <2>1. 67108864 <= x /\ x < 536870912
    BY <1>1, <1>10, SMTT(60) DEF HasBits, two_powers
  <2>2. (bits * 39) \div 128 = 8
    BY <1>10, SMTT(30)
  <2>3. w = 8 + (IF 100000000 <= x THEN 1 ELSE 0) - (IF n = 0 THEN 1 ELSE 0)
    BY <2>2, SMTT(30) DEF DecWidth, floor10_table, S64
  <2> QED
    BY <1>1, <2>1, <2>3, SMTT(60) DEF IsDecWidth, floor10_table, S64
<1>11. CASE bits \in 30 .. 32
  <2>1. 536870912 <= x /\ x < 4294967296
    BY <1>1, <1>11, SMTT(60) DEF HasBits, two_powers
  <2>2. (bits * 39) \div 128 = 9
    BY <1>11, SMTT(30)
  <2>3. w = 9 + (IF 1000000000 <= x THEN 1 ELSE 0) - (IF n = 0 THEN 1 ELSE 0)
    BY <2>2, SMTT(30) DEF DecWidth, floor10_table, S64
  <2> QED
    BY <1>1, <2>1, <2>3, SMTT(60) DEF IsDecWidth, floor10_table, S64
<1>12. CASE bits \in 33 .. 36
  <2>1. 4294967296 <= x /\ x < 68719476736
    BY <1>1, <1>12, SMTT(60) DEF HasBits, two_powers
  <2>2. (bits * 39) \div 128 = 10
    BY <1>12, SMTT(30)
  <2>3. w = 10 + (IF 10000000000 <= x THEN 1 ELSE 0) - (IF n = 0 THEN 1 ELSE 0)
    BY <2>2, SMTT(30) DEF DecWidth, floor10_table, S64
  <2> QED
    BY <1>1, <2>1, <2>3, SMTT(60) DEF IsDecWidth, floor10_table, S64
<1>13. CASE bits \in 37 .. 39
  <2>1. 68719476736 <= x /\ x < 549755813888
    BY <1>1, <1>13, SMTT(60) DEF HasBits, two_powers
  <2>2. (bits * 39) \div 128 = 11
    BY <1>13, SMTT(30)
  <2>3. w = 11 + (IF 100000000000 <= x THEN 1 ELSE 0) - (IF n = 0 THEN 1 ELSE 0)
    BY <2>2, SMTT(30) DEF DecWidth, floor10_table, S64
  <2> QED
    BY <1>1, <2>1, <2>3, SMTT(60) DEF IsDecWidth, floor10_table, S64
<1>14. CASE bits \in 40 .. 42
  <2>1. 549755813888 <= x /\ x < 4398046511104
    BY <1>1, <1>14, SMTT(60) DEF HasBits, two_powers
  <2>2. (bits * 39) \div 128 = 12
    BY <1>14, SMTT(30)
  <2>3. w = 12 + (IF 1000000000000 <= x THEN 1 ELSE 0) - (IF n = 0 THEN 1 ELSE 0)
    BY <2>2, SMTT(30) DEF DecWidth, floor10_table, S64
  <2> QED
    BY <1>1, <2>1, <2>3, SMTT(60) DEF IsDecWidth, floor10_table, S64
<1>15. CASE bits \in 43 .. 45
  <2>1. 4398046511104 <= x /\ x < 35184372088832
    BY <1>1, <1>15, SMTT(60) DEF HasBits, two_powers
  <2>2. (bits * 39) \div 128 = 13
    BY <1>15, SMTT(30)
  <2>3. w = 13 + (IF 10000000000000 <= x THEN 1 ELSE 0) - (IF n = 0 THEN 1 ELSE 0)
    BY <2>2, SMTT(30) DEF DecWidth, floor10_table, S64
  <2> QED
    BY <1>1, <2>1, <2>3, SMTT(60) DEF IsDecWidth, floor10_table, S64
<1>16. CASE bits \in 46 .. 49
  <2>1. 35184372088832 <= x /\ x < 562949953421312
    BY <1>1, <1>16, SMTT(60) DEF HasBits, two_powers
  <2>2. (bits * 39) \div 128 = 14
    BY <1>16, SMTT(30)
  <2>3. w = 14 + (IF 100000000000000 <= x THEN 1 ELSE 0) - (IF n = 0 THEN 1 ELSE 0)
    BY <2>2, SMTT(30) DEF DecWidth, floor10_table, S64
  <2> QED
    BY <1>1, <2>1, <2>3, SMTT(60) DEF IsDecWidth, floor10_table, S64
<1>17. CASE bits \in 50 .. 52
  <2>1. 562949953421312 <= x /\ x < 4503599627370496
    BY <1>1, <1>17, SMTT(60) DEF HasBits, two_powers
  <2>2. (bits * 39) \div 128 = 15
    BY <1>17, SMTT(30)
  <2>3. w = 15 + (IF 1000000000000000 <= x THEN 1 ELSE 0) - (IF n = 0 THEN 1 ELSE 0)
    BY <2>2, SMTT(30) DEF DecWidth, floor10_table, S64
  <2> QED
    BY <1>1, <2>1, <2>3, SMTT(60) DEF IsDecWidth, floor10_table, S64
<1>18. CASE bits \in 53 .. 55
  <2>1. 4503599627370496 <= x /\ x < 36028797018963968
    BY <1>1, <1>18, SMTT(60) DEF HasBits, two_powers
  <2>2. (bits * 39) \div 128 = 16
    BY <1>18, SMTT(30)
  <2>3. w = 16 + (IF 10000000000000000 <= x THEN 1 ELSE 0) - (IF n = 0 THEN 1 ELSE 0)
    BY <2>2, SMTT(30) DEF DecWidth, floor10_table, S64
  <2> QED
    BY <1>1, <2>1, <2>3, SMTT(60) DEF IsDecWidth, floor10_table, S64
<1>19. CASE bits \in 56 .. 59
  <2>1. 36028797018963968 <= x /\ x < 576460752303423488
    BY <1>1, <1>19, SMTT(60) DEF HasBits, two_powers
  <2>2. (bits * 39) \div 128 = 17
    BY <1>19, SMTT(30)
  <2>3. w = 17 + (IF 100000000000000000 <= x THEN 1 ELSE 0) - (IF n = 0 THEN 1 ELSE 0)
    BY <2>2, SMTT(30) DEF DecWidth, floor10_table, S64
  <2> QED
    BY <1>1, <2>1, <2>3, SMTT(60) DEF IsDecWidth, floor10_table, S64
<1>20. CASE bits \in 60 .. 62
  <2>1. 576460752303423488 <= x /\ x < 4611686018427387904
    BY <1>1, <1>20, SMTT(60) DEF HasBits, two_powers
  <2>2. (bits * 39) \div 128 = 18
    BY <1>20, SMTT(30)
  <2>3. w = 18 + (IF 1000000000000000000 <= x THEN 1 ELSE 0) - (IF n = 0 THEN 1 ELSE 0)
    BY <2>2, SMTT(30) DEF DecWidth, floor10_table, S64
  <2> QED
    BY <1>1, <2>1, <2>3, SMTT(60) DEF IsDecWidth, floor10_table, S64
<1>21. CASE bits \in 63 .. 64
  <2>1. 4611686018427387904 <= x /\ x < 18446744073709551616
    BY <1>1, <1>21, SMTT(60) DEF HasBits, two_powers
  <2>2. (bits * 39) \div 128 = 19
    BY <1>21, SMTT(30)
  <2>3. w = 19 + (IF 10000000000000000000 <= x THEN 1 ELSE 0) - (IF n = 0 THEN 1 ELSE 0)
    BY <2>2, SMTT(30) DEF DecWidth, floor10_table, S64
  <2> QED
    BY <1>1, <2>1, <2>3, SMTT(60) DEF IsDecWidth, floor10_table, S64
<1> QED
  BY <1>2, <1>3, <1>4, <1>5, <1>6, <1>7, <1>8, <1>9, <1>10, <1>11, <1>12, <1>13, <1>14, <1>15, <1>16, <1>17, <1>18, <1>19, <1>20, <1>21, SMTT(30)

\* ... and of any 32-bit number, with 5/16 of the bits.
THEOREM DecWidthOfNarrow ==
  ASSUME NEW n \in Nat, n < 4294967296, NEW bits \in 1 .. 32,
         HasBits((n + 1) - (n % 2), bits)
  PROVE  IsDecWidth(DecWidth(n, bits, 4), n)
<1> DEFINE x == (n + 1) - (n % 2)
           w == DecWidth(n, bits, 4)
<1>1. x \in Nat /\ n <= x /\ x <= n + 1 /\ x % 2 = 1
  BY SMTT(30)
<1>2. CASE bits \in 1 .. 3
  <2>1. 1 <= x /\ x < 8
    BY <1>1, <1>2, SMTT(60) DEF HasBits, two_powers
  <2>2. (bits * 5) \div 16 = 0
    BY <1>2, SMTT(30)
  <2>3. w = 0 + (IF 1 <= x THEN 1 ELSE 0) - (IF n = 0 THEN 1 ELSE 0)
    BY <2>2, SMTT(30) DEF DecWidth, floor10_table, S64
  <2> QED
    BY <1>1, <2>1, <2>3, SMTT(60) DEF IsDecWidth, floor10_table, S64
<1>3. CASE bits \in 4 .. 6
  <2>1. 8 <= x /\ x < 64
    BY <1>1, <1>3, SMTT(60) DEF HasBits, two_powers
  <2>2. (bits * 5) \div 16 = 1
    BY <1>3, SMTT(30)
  <2>3. w = 1 + (IF 10 <= x THEN 1 ELSE 0) - (IF n = 0 THEN 1 ELSE 0)
    BY <2>2, SMTT(30) DEF DecWidth, floor10_table, S64
  <2> QED
    BY <1>1, <2>1, <2>3, SMTT(60) DEF IsDecWidth, floor10_table, S64
<1>4. CASE bits \in 7 .. 9
  <2>1. 64 <= x /\ x < 512
    BY <1>1, <1>4, SMTT(60) DEF HasBits, two_powers
  <2>2. (bits * 5) \div 16 = 2
    BY <1>4, SMTT(30)
  <2>3. w = 2 + (IF 100 <= x THEN 1 ELSE 0) - (IF n = 0 THEN 1 ELSE 0)
    BY <2>2, SMTT(30) DEF DecWidth, floor10_table, S64
  <2> QED
    BY <1>1, <2>1, <2>3, SMTT(60) DEF IsDecWidth, floor10_table, S64
<1>5. CASE bits \in 10 .. 12
  <2>1. 512 <= x /\ x < 4096
    BY <1>1, <1>5, SMTT(60) DEF HasBits, two_powers
  <2>2. (bits * 5) \div 16 = 3
    BY <1>5, SMTT(30)
  <2>3. w = 3 + (IF 1000 <= x THEN 1 ELSE 0) - (IF n = 0 THEN 1 ELSE 0)
    BY <2>2, SMTT(30) DEF DecWidth, floor10_table, S64
  <2> QED
    BY <1>1, <2>1, <2>3, SMTT(60) DEF IsDecWidth, floor10_table, S64
<1>6. CASE bits \in 13 .. 15
  <2>1. 4096 <= x /\ x < 32768
    BY <1>1, <1>6, SMTT(60) DEF HasBits, two_powers
  <2>2. (bits * 5) \div 16 = 4
    BY <1>6, SMTT(30)
  <2>3. w = 4 + (IF 10000 <= x THEN 1 ELSE 0) - (IF n = 0 THEN 1 ELSE 0)
    BY <2>2, SMTT(30) DEF DecWidth, floor10_table, S64
  <2> QED
    BY <1>1, <2>1, <2>3, SMTT(60) DEF IsDecWidth, floor10_table, S64
<1>7. CASE bits \in 16 .. 19
  <2>1. 32768 <= x /\ x < 524288
    BY <1>1, <1>7, SMTT(60) DEF HasBits, two_powers
  <2>2. (bits * 5) \div 16 = 5
    BY <1>7, SMTT(30)
  <2>3. w = 5 + (IF 100000 <= x THEN 1 ELSE 0) - (IF n = 0 THEN 1 ELSE 0)
    BY <2>2, SMTT(30) DEF DecWidth, floor10_table, S64
  <2> QED
    BY <1>1, <2>1, <2>3, SMTT(60) DEF IsDecWidth, floor10_table, S64
<1>8. CASE bits \in 20 .. 22
  <2>1. 524288 <= x /\ x < 4194304
    BY <1>1, <1>8, SMTT(60) DEF HasBits, two_powers
  <2>2. (bits * 5) \div 16 = 6
    BY <1>8, SMTT(30)
  <2>3. w = 6 + (IF 1000000 <= x THEN 1 ELSE 0) - (IF n = 0 THEN 1 ELSE 0)
    BY <2>2, SMTT(30) DEF DecWidth, floor10_table, S64
  <2> QED
    BY <1>1, <2>1, <2>3, SMTT(60) DEF IsDecWidth, floor10_table, S64
<1>9. CASE bits \in 23 .. 25
  <2>1. 4194304 <= x /\ x < 33554432
    BY <1>1, <1>9, SMTT(60) DEF HasBits, two_powers
  <2>2. (bits * 5) \div 16 = 7
    BY <1>9, SMTT(30)
  <2>3. w = 7 + (IF 10000000 <= x THEN 1 ELSE 0) - (IF n = 0 THEN 1 ELSE 0)
    BY <2>2, SMTT(30) DEF DecWidth, floor10_table, S64
  <2> QED
    BY <1>1, <2>1, <2>3, SMTT(60) DEF IsDecWidth, floor10_table, S64
<1>10. CASE bits \in 26 .. 28
  <2>1. 33554432 <= x /\ x < 268435456
    BY <1>1, <1>10, SMTT(60) DEF HasBits, two_powers
  <2>2. (bits * 5) \div 16 = 8
    BY <1>10, SMTT(30)
  <2>3. w = 8 + (IF 100000000 <= x THEN 1 ELSE 0) - (IF n = 0 THEN 1 ELSE 0)
    BY <2>2, SMTT(30) DEF DecWidth, floor10_table, S64
  <2> QED
    BY <1>1, <2>1, <2>3, SMTT(60) DEF IsDecWidth, floor10_table, S64
<1>11. CASE bits \in 29 .. 31
  <2>1. 268435456 <= x /\ x < 2147483648
    BY <1>1, <1>11, SMTT(60) DEF HasBits, two_powers
  <2>2. (bits * 5) \div 16 = 9
    BY <1>11, SMTT(30)
  <2>3. w = 9 + (IF 1000000000 <= x THEN 1 ELSE 0) - (IF n = 0 THEN 1 ELSE 0)
    BY <2>2, SMTT(30) DEF DecWidth, floor10_table, S64
  <2> QED
    BY <1>1, <2>1, <2>3, SMTT(60) DEF IsDecWidth, floor10_table, S64
<1>12. CASE bits \in 32 .. 32
  <2>1. 2147483648 <= x /\ x < 4294967296
    BY <1>1, <1>12, SMTT(60) DEF HasBits, two_powers
  <2>2. (bits * 5) \div 16 = 10
    BY <1>12, SMTT(30)
  <2>3. w = 10 + (IF 10000000000 <= x THEN 1 ELSE 0) - (IF n = 0 THEN 1 ELSE 0)
    BY <2>2, SMTT(30) DEF DecWidth, floor10_table, S64
  <2> QED
    BY <1>1, <2>1, <2>3, SMTT(60) DEF IsDecWidth, floor10_table, S64
<1> QED
  BY <1>2, <1>3, <1>4, <1>5, <1>6, <1>7, <1>8, <1>9, <1>10, <1>11, <1>12, SMTT(30)

\* Two quotients and remainders of one number are the same.
LEMMA QuotientIsUnique ==
  ASSUME NEW p \in Nat, 0 < p, NEW a \in Int, NEW b \in Int, NEW r \in Nat, NEW s \in Nat,
         r < p, s < p, p * a + r = p * b + s
  PROVE  a = b /\ r = s
<1>1. ~(a < b)
  <2> SUFFICES ASSUME a < b PROVE FALSE
    OBVIOUS
  <2>1. a + 1 <= b
    OBVIOUS
  <2>2. p * (a + 1) <= p * b
    BY <2>1, SMTT(30)
  <2>3. p * (a + 1) = p * a + p
    BY SMTT(30)
  <2> QED
    BY <2>2, <2>3, SMTT(30)
<1>2. ~(b < a)
  <2> SUFFICES ASSUME b < a PROVE FALSE
    OBVIOUS
  <2>1. b + 1 <= a
    OBVIOUS
  <2>2. p * (b + 1) <= p * a
    BY <2>1, SMTT(30)
  <2>3. p * (b + 1) = p * b + p
    BY SMTT(30)
  <2> QED
    BY <2>2, <2>3, SMTT(30)
<1> QED
  BY <1>1, <1>2, SMTT(30)

LEMMA Division ==
  ASSUME NEW y \in Nat, NEW p \in Nat, 0 < p
  PROVE  /\ y \div p \in Nat /\ y % p \in Nat /\ y % p < p
         /\ y = p * (y \div p) + (y % p)
<1>1. y % p \in Nat /\ y % p < p
  BY SMTT(30)
<1>2. y = p * (y \div p) + (y % p)
  BY SMTT(30)
<1>3. y \div p \in Int
  BY SMTT(30)
<1>4. ~(y \div p < 0)
  <2> SUFFICES ASSUME y \div p < 0 PROVE FALSE
    OBVIOUS
  <2>1. y \div p + 1 <= 0
    BY <1>3, SMTT(30)
  <2>2. p * (y \div p + 1) <= 0
    BY <1>3, <2>1, SMTT(30)
  <2>3. p * (y \div p + 1) = p * (y \div p) + p
    BY <1>3, SMTT(30)
  <2> QED
    BY <1>1, <1>2, <1>3, <2>2, <2>3, SMTT(30)
<1> QED
  BY <1>1, <1>2, <1>3, <1>4, SMTT(30)

LEMMA DivisionIs ==
  ASSUME NEW y \in Nat, NEW p \in Nat, 0 < p, NEW q \in Int, NEW f \in Nat,
         f < p, y = p * q + f
  PROVE  y \div p = q /\ y % p = f
<1>1. /\ y \div p \in Int /\ y % p \in Nat /\ y % p < p
      /\ p * (y \div p) + (y % p) = p * q + f
  BY Division, SMTT(30)
<1> QED
  BY <1>1, QuotientIsUnique

\* int_to_dec_par: the printers it calls have exactly the width of their number,
\* so no digit is lost and there is no leading zero, and the first of two fits
\* the 32 bits it is cast to.  (With mjz_assume_impl_ the compiler relies on it.)
THEOREM IntToDecCallsFit ==
  ASSUME NEW n \in Nat, n < 18446744073709551616, NEW w \in 0 .. 20, IsDecWidth(w, n)
  PROVE  LET high == n \div 10000000000
             low  == n % 10000000000
             width == IF n = 0 THEN 1 ELSE w
         IN  IF n < 10000000000
             THEN IntToDec(n, 8, width) = <<<<width, n>>>>
             ELSE /\ IntToDec(n, 8, width) = <<<<w - 10, high>>, <<10, low>>>>
                  /\ w - 10 \in 1 .. 10
                  /\ IsDecWidth(w - 10, high)
                  /\ high < S32 /\ n = high * 10000000000 + low
<1> DEFINE high == n \div 10000000000
           low  == n % 10000000000
           width == IF n = 0 THEN 1 ELSE w
<1>1. n = high * 10000000000 + low /\ high \in Nat /\ low \in Nat
      /\ low < 10000000000 /\ high < 1844674408
  BY SMTT(30)
<1>2. CASE n < 100
  <2>1. width = IF n < 10 THEN 1 ELSE 2
    BY <1>2, SMTT(60) DEF IsDecWidth, floor10_table, S64
  <2> QED
    BY <1>2, <2>1 DEF IntToDec
<1>3. CASE 100 <= n /\ n < 10000000000
  <2>1. width = w /\ w \in 3 .. 10
    BY <1>3, SMTT(60) DEF IsDecWidth, floor10_table, S64
  <2>2. Word16(n) # n /\ n < 100000 => w = 5
    BY <1>3, SMTT(60) DEF IsDecWidth, floor10_table, S64, Word16, S16
  <2>3. Word32(n) # n => w = 10
    BY <1>3, SMTT(60) DEF IsDecWidth, floor10_table, S64, Word32, S32
  <2> QED
    BY <1>3, <2>1, <2>2, <2>3, SMTT(60) DEF IntToDec
<1>4. CASE 10000000000 <= n
  <2>1. w \in 11 .. 20 /\ width = w
    BY <1>4, SMTT(60) DEF IsDecWidth, floor10_table, S64
  <2>2. /\ floor10_table[w - 10] * 10000000000 <= n
        /\ n < floor10_table[w - 10 + 1] * 10000000000
    BY <2>1, SMTT(60) DEF IsDecWidth, floor10_table, S64
  <2>3. floor10_table[w - 10] <= high /\ high < floor10_table[w - 10 + 1]
    BY <1>1, <2>1, <2>2, SMTT(60) DEF floor10_table, S64
  <2>4. IsDecWidth(w - 10, high) /\ high < S32
    BY <1>1, <1>4, <2>1, <2>3, SMTT(60) DEF IsDecWidth, S32
  <2>5. Word32(high) = high /\ Word16(n) # n /\ Word32(n) # n
    BY <1>1, <1>4, SMTT(30) DEF Word32, Word16, S32, S16
  <2>6. IntToDec(n, 8, width) = <<<<w - 10, high>>, <<10, low>>>>
    BY <1>4, <2>1, <2>5 DEF IntToDec
  <2> QED
    BY <1>1, <1>4, <2>1, <2>4, <2>6
<1> QED
  BY <1>2, <1>3, <1>4

\* The number printed after a '-' is the absolute value, also of the least
\* 64-bit integer, which has no negation of its own type.
THEOREM MagnitudeIsAbsolute ==
  \A i \in Int : -9223372036854775808 <= i /\ i < 9223372036854775808
    => Magnitude(i, S64) = IF i < 0 THEN -i ELSE i
  BY SMTT(60) DEF Magnitude, S64

\* get_devide_inverse_and_shift: the reciprocal it computes gives the quotient and
\* the remainder of every value up to the greatest, for any divisor.
THEOREM InverseDivides ==
  ASSUME NEW d \in Nat, 0 < d, NEW aboveD \in Nat, d < aboveD,
         NEW aboveV \in Nat, NEW x \in Nat, x <= aboveV, 0 < aboveV
  PROVE  LET p == Point(aboveD, aboveV)
             r == x * Reciprocal(p, d)
         IN  r \div p = x \div d /\ ((r % p) * d) \div p = x % d
<1> DEFINE p == Point(aboveD, aboveV)
           v == Reciprocal(p, d)
           e == v * d - p
           q == x \div d
           s == x % d
<1>1. p \in Nat /\ p > 0
  BY SMTT(30) DEF Point
<1>2. v \in Nat /\ e \in Nat /\ e < d
  <2>1. /\ p \div d \in Nat /\ p % d \in Nat /\ p % d < d
        /\ p = d * (p \div d) + (p % d)
    BY <1>1, Division
  <2>2. v = (p \div d) + (IF p % d = 0 THEN 0 ELSE 1)
    BY DEF Reciprocal
  <2> DEFINE k == p \div d
             m == p % d
  <2> HIDE DEF k, m, p, v
  <2>3. v * d = k * d + (IF m = 0 THEN 0 ELSE d)
    BY <2>1, <2>2, SMTT(30) DEF k, m
  <2>4. k * d = d * k /\ k \in Nat /\ m \in Nat /\ m < d /\ p = d * k + m
    BY <2>1, SMTT(30) DEF k, m
  <2>5. v = k + (IF m = 0 THEN 0 ELSE 1)
    BY <2>2 DEF k, m
  <2> HIDE DEF q, s
  <2>6. v \in Nat
    BY <2>4, <2>5, SMTT(30)
  <2>7. e = IF m = 0 THEN 0 ELSE d - m
    BY <1>1, <2>3, <2>4, <2>6, SMTT(30)
  <2> HIDE DEF e
  <2> QED
    BY <2>4, <2>6, <2>7, SMTT(30)
<1>3. q \in Nat /\ s \in Nat /\ s < d /\ x = d * q + s
  BY Division
<1>4. x * e < p
  <2>1. x * e <= aboveV * e
    BY <1>2, SMTT(30)
  <2>2. aboveV * e < aboveV * aboveD
    BY <1>2, SMTT(30)
  <2> QED
    BY <1>2, <2>1, <2>2, SMTT(30) DEF Point
<1>5. v * d = p + e
  BY <1>2, <1>1, SMTT(30)
<1> HIDE DEF p, v, e, q, s
<1> DEFINE f == x * v - p * q
<1>6. f * d = p * s + x * e
  <2>1. f * d = x * (v * d) - p * q * d
    BY <1>1, <1>2, <1>3, SMTT(30)
  <2>2. x * (v * d) = x * p + x * e
    BY <1>1, <1>2, <1>5, SMTT(30)
  <2>3. x * p = p * q * d + p * s
    BY <1>1, <1>3, SMTT(30)
  <2> QED
    BY <1>1, <1>2, <1>3, <2>1, <2>2, <2>3, SMTT(30)
<1>7. f \in Int
  BY <1>1, <1>2, <1>3, SMTT(30)
<1> HIDE DEF f
<1>8. p * s <= f * d /\ f * d < p * (s + 1)
  BY <1>1, <1>2, <1>3, <1>4, <1>6, SMTT(30)
<1>9. 0 <= f /\ f < p
  <2>1. 0 <= f * d /\ f * d < p * d
    <3>1. p * (s + 1) <= p * d
      BY <1>1, <1>3, SMTT(30)
    <3>2. 0 <= p * s
      BY <1>1, <1>3, SMTT(30)
    <3> QED
      BY <1>1, <1>2, <1>3, <1>7, <1>8, <3>1, <3>2, SMTT(30)
  <2>2. f >= 0
    BY <1>7, <2>1, SMTT(30)
  <2>3. f < p
    BY <1>1, <1>7, <2>1, SMTT(30)
  <2> QED
    BY <2>2, <2>3
<1>10. x * v = p * q + f
  BY <1>1, <1>2, <1>3, SMTT(30) DEF f
<1>11. (x * v) \div p = q /\ (x * v) % p = f
  <2>1. x * v \in Nat /\ q \in Int /\ f \in Nat /\ x * v = p * q + f
    BY <1>2, <1>3, <1>7, <1>9, <1>10, SMTT(30)
  <2> QED
    BY <1>1, <1>9, <2>1, DivisionIs
<1>12. (f * d) \div p = s
  <2> DEFINE t == f * d - p * s
  <2>1. /\ f * d \in Nat /\ s \in Int /\ t \in Nat /\ t < p
        /\ f * d = p * s + t
    BY <1>1, <1>2, <1>3, <1>4, <1>6, <1>7, <1>9, SMTT(30)
  <2> HIDE DEF t
  <2> QED
    BY <1>1, <2>1, DivisionIs
<1> QED
  BY <1>11, <1>12 DEF p, v, q, s

-----------------------------------------------------------------------------
(* Digits in lanes of one word. *)

\* Eight numbers below 256 as the bytes of a word, the first in the lowest.
Bytes(d1, d2, d3, d4, d5, d6, d7, d8) ==
  d1 + 256 * d2 + 65536 * d3 + 16777216 * d4 + 4294967296 * d5
  + 1099511627776 * d6 + 281474976710656 * d7 + 72057594037927936 * d8

\* Four numbers below 65536 as the quarters of a word.
Lanes(l1, l2, l3, l4) == l1 + 65536 * l2 + 4294967296 * l3 + 281474976710656 * l4

\* Both halves of a word are multiplied at once without meeting.
LEMMA HalvesSplit ==
  ASSUME NEW n \in Nat, n < 100000000
  PROVE  SplitInHalves(n) = (n \div 10000) + S32 * (n % 10000)
<1> DEFINE h == Word(n * 109951163)
           f == h % S40
           b == n % 10000
<1>1. /\ h \div S40 = n \div 10000 /\ b \in Nat /\ b < 10000 /\ f \in Nat /\ f < S40
      /\ S40 * b <= 10000 * f /\ 10000 * f < S40 * (b + 1)
  BY SMTT(60) DEF Word, S64, S40
<1> HIDE DEF h, f, b
<1>2. Word(f * 625) \div (S40 \div 16) = b
  BY <1>1, SMTT(60) DEF Word, S64, S40
<1>3. Word(b * S32) = S32 * b
  BY <1>1, SMTT(30) DEF Word, S64, S32
<1> QED
  BY <1>1, <1>2, <1>3 DEF SplitInHalves, h, f, b

\* One half: 5243 is 1/100 with 19 bits, good for numbers below 10000.
LEMMA HundredsSplit ==
  ASSUME NEW a \in Nat, a < 10000
  PROVE  /\ 5243 * a = S19 * (a \div 100) + ((5243 * a) % S19)
         /\ (5243 * a) % S19 \in Nat /\ (5243 * a) % S19 < S19
         /\ 100 * ((5243 * a) % S19)
              = S19 * (a % 100) + ((100 * ((5243 * a) % S19)) % S19)
         /\ (100 * ((5243 * a) % S19)) % S19 \in Nat
         /\ (100 * ((5243 * a) % S19)) % S19 < S19
         /\ a \div 100 \in Nat /\ a \div 100 < 100
<1>1. /\ 5243 * a = S19 * (a \div 100) + ((5243 * a) % S19)
      /\ (5243 * a) % S19 \in Nat /\ (5243 * a) % S19 < S19
      /\ a \div 100 \in Nat /\ a \div 100 < 100
  BY SMTT(60) DEF S19
<1>2. (100 * ((5243 * a) % S19)) \div S19 = a % 100
  BY SMTT(60) DEF S19
<1> DEFINE f == (5243 * a) % S19
<1> HIDE DEF f
<1>3. f \in Nat
  BY <1>1 DEF f
<1>4. /\ 100 * f = S19 * ((100 * f) \div S19) + ((100 * f) % S19)
      /\ (100 * f) % S19 \in Nat /\ (100 * f) % S19 < S19
  BY <1>3, SMTT(60) DEF S19
<1> QED
  BY <1>1, <1>2, <1>4 DEF f

\* The high bits of a half of a word.
LEMMA KeptOfHalf ==
  ASSUME NEW i \in Nat, NEW f \in Nat, f < S19, i < 8192
  PROVE  /\ (S19 * i + f) - ((S19 * i + f) % S19) = S19 * i
         /\ S19 * i + f \in Nat /\ S19 * i + f < S32
  BY SMTT(60) DEF S19, S32

LEMMA HalvesKept ==
  ASSUME NEW i1 \in Nat, NEW i2 \in Nat, i1 < 8192, i2 < 8192,
         NEW f1 \in Nat, NEW f2 \in Nat, f1 < S19, f2 < S19,
         NEW h, h = (S19 * i1 + f1) + S32 * (S19 * i2 + f2)
  PROVE  Keep13Of32(h) = S19 * (i1 + S32 * i2)
<1> DEFINE l1 == S19 * i1 + f1
           l2 == S19 * i2 + f2
<1>1. l1 \in Nat /\ l1 < S32 /\ l1 - (l1 % S19) = S19 * i1
  BY KeptOfHalf
<1>2. l2 \in Nat /\ l2 < S32 /\ l2 - (l2 % S19) = S19 * i2
  BY KeptOfHalf
<1>3. h = l1 + S32 * l2
  OBVIOUS
<1> HIDE DEF l1, l2
<1>4. h \div S32 = l2 /\ h % S32 = l1
  BY <1>1, <1>2, <1>3, SMTT(60) DEF S32
<1>5. Keep13Of32(h) = (S32 * (l2 - (l2 % S19))) + (l1 - (l1 % S19))
  BY <1>4 DEF Keep13Of32
<1>6. Keep13Of32(h) = (S32 * (S19 * i2)) + (S19 * i1)
  BY <1>1, <1>2, <1>5
<1> QED
  BY <1>6, SMTT(30) DEF S32, S19

LEMMA QuartersSplit ==
  ASSUME NEW a \in Nat, a < 10000, NEW b \in Nat, b < 10000
  PROVE  SplitInQuarters(a + S32 * b) = Lanes(a \div 100, a % 100, b \div 100, b % 100)
<1> DEFINE h == Word((a + S32 * b) * 5243)
           ai == a \div 100
           bi == b \div 100
           ar == a % 100
           br == b % 100
           af == (5243 * a) % S19
           bf == (5243 * b) % S19
<1>1. h = 5243 * a + S32 * (5243 * b)
  BY SMTT(60) DEF Word, S64, S32
<1>2. 5243 * a = S19 * ai + af /\ af \in Nat /\ af < S19 /\ ai \in Nat /\ ai < 100
  BY HundredsSplit
<1>3. 5243 * b = S19 * bi + bf /\ bf \in Nat /\ bf < S19 /\ bi \in Nat /\ bi < 100
  BY HundredsSplit
<1>4. ar \in Nat /\ ar < 100 /\ br \in Nat /\ br < 100
  BY SMTT(30)
<1> DEFINE ag == (100 * af) % S19
           bg == (100 * bf) % S19
<1>5. 100 * af = S19 * ar + ag /\ ag \in Nat /\ ag < S19
  BY HundredsSplit
<1>6. 100 * bf = S19 * br + bg /\ bg \in Nat /\ bg < S19
  BY HundredsSplit
<1>7. SplitInQuarters(a + S32 * b)
        = (Keep13Of32(h) \div S19) + (Keep13Of32(Word((h - Keep13Of32(h)) * 100)) \div 8)
  BY DEF SplitInQuarters
<1> HIDE DEF h, ai, bi, ar, br, af, bf, ag, bg
<1>8. h = (S19 * ai + af) + S32 * (S19 * bi + bf)
  BY <1>1, <1>2, <1>3
<1>9. Keep13Of32(h) = S19 * (ai + S32 * bi)
  <2>1. ai < 8192 /\ bi < 8192
    BY <1>2, <1>3, SMTT(30)
  <2> QED
    BY <1>2, <1>3, <1>8, <2>1, HalvesKept
<1>10. h - Keep13Of32(h) = af + S32 * bf
  BY <1>2, <1>3, <1>8, <1>9, SMTT(30) DEF S19, S32
<1> DEFINE g == Word((h - Keep13Of32(h)) * 100)
<1>11. g = 100 * af + S32 * (100 * bf)
  BY <1>2, <1>3, <1>10, SMTT(60) DEF Word, S64, S32, S19
<1> HIDE DEF g
<1>12. g = (S19 * ar + ag) + S32 * (S19 * br + bg)
  BY <1>5, <1>6, <1>11
<1>13. Keep13Of32(g) = S19 * (ar + S32 * br)
  <2>1. ar < 8192 /\ br < 8192
    BY <1>4, SMTT(30)
  <2> QED
    BY <1>4, <1>5, <1>6, <1>12, <2>1, HalvesKept
<1>14. Keep13Of32(h) \div S19 = ai + S32 * bi
  BY <1>2, <1>3, <1>9, SMTT(60) DEF S32, S19
<1>15. Keep13Of32(g) \div 8 = 65536 * (ar + S32 * br)
  BY <1>4, <1>13, SMTT(60) DEF S32, S19
<1>16. SplitInQuarters(a + S32 * b) = (ai + S32 * bi) + 65536 * (ar + S32 * br)
  BY <1>7, <1>14, <1>15 DEF g
<1>17. SplitInQuarters(a + S32 * b) = Lanes(ai, ar, bi, br)
  BY <1>2, <1>3, <1>4, <1>16, SMTT(60) DEF S32, Lanes
<1> QED
  BY <1>17 DEF ai, ar, bi, br

\* One lane: 103 is 1/10 with 10 bits, good for numbers below 100.
LEMMA OneLane ==
  ASSUME NEW a \in Nat, a < 100
  PROVE  /\ 103 * a = S10 * (a \div 10) + ((103 * a) % S10)
         /\ (103 * a) % S10 \in Nat /\ (103 * a) % S10 < S10
         /\ ((103 * a) % S10) * 10
              = S10 * (a % 10) + ((((103 * a) % S10) * 10) % S10)
         /\ (((103 * a) % S10) * 10) % S10 \in Nat
         /\ (((103 * a) % S10) * 10) % S10 < S10
         /\ a \div 10 \in Nat /\ a \div 10 < 10 /\ a % 10 \in Nat /\ a % 10 < 10
<1>1. /\ 103 * a = S10 * (a \div 10) + ((103 * a) % S10)
      /\ (103 * a) % S10 \in Nat /\ (103 * a) % S10 < S10
      /\ a \div 10 \in Nat /\ a \div 10 < 10 /\ a % 10 \in Nat /\ a % 10 < 10
  BY SMTT(60) DEF S10
<1>2. (((103 * a) % S10) * 10) \div S10 = a % 10
  BY SMTT(60) DEF S10
<1> DEFINE f == (103 * a) % S10
<1> HIDE DEF f
<1>3. f \in Nat
  BY <1>1 DEF f
<1>4. /\ f * 10 = S10 * ((f * 10) \div S10) + ((f * 10) % S10)
      /\ (f * 10) % S10 \in Nat /\ (f * 10) % S10 < S10
  BY <1>3, SMTT(60) DEF S10
<1> QED
  BY <1>1, <1>2, <1>4 DEF f

LEMMA KeptOfLane ==
  ASSUME NEW i \in Nat, NEW f \in Nat, f < S10, i < 64
  PROVE  /\ (S10 * i + f) - ((S10 * i + f) % S10) = S10 * i
         /\ S10 * i + f \in Nat /\ S10 * i + f < 65536
  BY SMTT(60) DEF S10

LEMMA FourLanes ==
  ASSUME NEW l1 \in Nat, NEW l2 \in Nat, NEW l3 \in Nat, NEW l4 \in Nat,
         l1 < 65536, l2 < 65536, l3 < 65536, l4 < 65536
  PROVE  Keep6Of16(Lanes(l1, l2, l3, l4))
           = 1 * (l1 - (l1 % S10)) + S16 * (l2 - (l2 % S10))
             + S32 * (l3 - (l3 % S10)) + (S32 * S16) * (l4 - (l4 % S10))
<1> DEFINE h == Lanes(l1, l2, l3, l4)
           r2 == l3 + 65536 * l4
           r1 == l2 + 65536 * r2
           b2 == l1 + 65536 * l2
           b3 == b2 + 4294967296 * l3
<1>1. r2 \in Nat /\ r1 \in Nat
  OBVIOUS
<1>2. h = l1 + 65536 * r1
  BY SMTT(30) DEF Lanes
<1>3. b2 \in Nat /\ b2 < 4294967296
  BY SMTT(30)
<1>4. h = b2 + 4294967296 * r2
  BY SMTT(30) DEF Lanes
<1>5. b3 \in Nat /\ b3 < 281474976710656
  BY <1>3, SMTT(30)
<1>6. h = b3 + 281474976710656 * l4
  BY SMTT(30) DEF Lanes
<1>7. r1 % 65536 = l2
  BY <1>1, SMTT(30)
<1>8. r2 % 65536 = l3
  BY SMTT(30)
<1> HIDE DEF h, r1, r2, b2, b3
<1>9. Lane16(h, 1) = l1
  BY <1>1, <1>2, SMTT(30) DEF Lane16, S16
<1>10. Lane16(h, S16) = l2
  <2>1. h \div 65536 = r1
    BY <1>1, <1>2, SMTT(30)
  <2> QED
    BY <2>1, <1>7 DEF Lane16, S16
<1>11. Lane16(h, S32) = l3
  <2>1. h \div 4294967296 = r2
    BY <1>1, <1>3, <1>4, SMTT(30)
  <2> QED
    BY <2>1, <1>8 DEF Lane16, S16, S32
<1>12. Lane16(h, S32 * S16) = l4
  <2>1. h \div 281474976710656 = l4
    BY <1>5, <1>6, SMTT(30)
  <2>2. S32 * S16 = 281474976710656
    BY SMTT(30) DEF S32, S16
  <2>3. l4 % 65536 = l4
    BY SMTT(30)
  <2> QED
    BY <2>1, <2>2, <2>3 DEF Lane16, S16
<1>13. Keep6Of16(h) = 1 * (l1 - (l1 % S10)) + S16 * (l2 - (l2 % S10))
                      + S32 * (l3 - (l3 % S10)) + (S32 * S16) * (l4 - (l4 % S10))
  BY <1>9, <1>10, <1>11, <1>12 DEF Keep6Of16
<1> QED
  BY <1>13 DEF h

\* u16x4_num_to_iota_impl_: four pairs become eight digits, no lane disturbs its
\* neighbour.
THEOREM LanesBecomeDigits ==
  ASSUME NEW a \in Nat, NEW b \in Nat, NEW c \in Nat, NEW d \in Nat,
         a < 100, b < 100, c < 100, d < 100
  PROVE  LanesToDigits(Lanes(a, b, c, d))
           = Bytes(a \div 10, a % 10, b \div 10, b % 10, c \div 10, c % 10, d \div 10, d % 10)
<1> DEFINE ai == a \div 10
           bi == b \div 10
           ci == c \div 10
           di == d \div 10
           ar == a % 10
           br == b % 10
           cr == c % 10
           dr == d % 10
           af == (103 * a) % S10
           bf == (103 * b) % S10
           cf == (103 * c) % S10
           df == (103 * d) % S10
           ag == (af * 10) % S10
           bg == (bf * 10) % S10
           cg == (cf * 10) % S10
           dg == (df * 10) % S10
<1>1. /\ 103 * a = S10 * ai + af /\ af \in Nat /\ af < S10 /\ ai \in Nat /\ ai < 10
      /\ af * 10 = S10 * ar + ag /\ ag \in Nat /\ ag < S10 /\ ar \in Nat /\ ar < 10
  BY OneLane
<1>2. /\ 103 * b = S10 * bi + bf /\ bf \in Nat /\ bf < S10 /\ bi \in Nat /\ bi < 10
      /\ bf * 10 = S10 * br + bg /\ bg \in Nat /\ bg < S10 /\ br \in Nat /\ br < 10
  BY OneLane
<1>3. /\ 103 * c = S10 * ci + cf /\ cf \in Nat /\ cf < S10 /\ ci \in Nat /\ ci < 10
      /\ cf * 10 = S10 * cr + cg /\ cg \in Nat /\ cg < S10 /\ cr \in Nat /\ cr < 10
  BY OneLane
<1>4. /\ 103 * d = S10 * di + df /\ df \in Nat /\ df < S10 /\ di \in Nat /\ di < 10
      /\ df * 10 = S10 * dr + dg /\ dg \in Nat /\ dg < S10 /\ dr \in Nat /\ dr < 10
  BY OneLane
<1> DEFINE w == Lanes(a, b, c, d)
           h == Word(w * 103)
           ha == 103 * a
           hb == 103 * b
           hc == 103 * c
           hd == 103 * d
           ga == af * 10
           gb == bf * 10
           gc == cf * 10
           gd == df * 10
<1>5. h = Lanes(ha, hb, hc, hd)
  BY SMTT(60) DEF Word, S64, Lanes
<1>6. LanesToDigits(w) = (Keep6Of16(h) \div S10) + (Keep6Of16(Word((h - Keep6Of16(h)) * 10)) \div 4)
  BY DEF LanesToDigits
<1> HIDE DEF w, h, ha, hb, hc, hd, ga, gb, gc, gd
<1> HIDE DEF ai, bi, ci, di, ar, br, cr, dr, af, bf, cf, df, ag, bg, cg, dg
<1>7. ha \in Nat /\ ha < 65536 /\ ha - (ha % S10) = S10 * ai
  <2>1. ha = S10 * ai + af /\ ai < 64
    BY <1>1, SMTT(30) DEF ha
  <2> QED
    BY <1>1, <2>1, KeptOfLane
<1>8. hb \in Nat /\ hb < 65536 /\ hb - (hb % S10) = S10 * bi
  <2>1. hb = S10 * bi + bf /\ bi < 64
    BY <1>2, SMTT(30) DEF hb
  <2> QED
    BY <1>2, <2>1, KeptOfLane
<1>9. hc \in Nat /\ hc < 65536 /\ hc - (hc % S10) = S10 * ci
  <2>1. hc = S10 * ci + cf /\ ci < 64
    BY <1>3, SMTT(30) DEF hc
  <2> QED
    BY <1>3, <2>1, KeptOfLane
<1>10. hd \in Nat /\ hd < 65536 /\ hd - (hd % S10) = S10 * di
  <2>1. hd = S10 * di + df /\ di < 64
    BY <1>4, SMTT(30) DEF hd
  <2> QED
    BY <1>4, <2>1, KeptOfLane
<1>11. ga \in Nat /\ ga < 65536 /\ ga - (ga % S10) = S10 * ar
  <2>1. ga = S10 * ar + ag /\ ar < 64
    BY <1>1, SMTT(30) DEF ga
  <2> QED
    BY <1>1, <2>1, KeptOfLane
<1>12. gb \in Nat /\ gb < 65536 /\ gb - (gb % S10) = S10 * br
  <2>1. gb = S10 * br + bg /\ br < 64
    BY <1>2, SMTT(30) DEF gb
  <2> QED
    BY <1>2, <2>1, KeptOfLane
<1>13. gc \in Nat /\ gc < 65536 /\ gc - (gc % S10) = S10 * cr
  <2>1. gc = S10 * cr + cg /\ cr < 64
    BY <1>3, SMTT(30) DEF gc
  <2> QED
    BY <1>3, <2>1, KeptOfLane
<1>14. gd \in Nat /\ gd < 65536 /\ gd - (gd % S10) = S10 * dr
  <2>1. gd = S10 * dr + dg /\ dr < 64
    BY <1>4, SMTT(30) DEF gd
  <2> QED
    BY <1>4, <2>1, KeptOfLane
<1>15. ai \in Nat /\ bi \in Nat /\ ci \in Nat /\ di \in Nat
  BY <1>1, <1>2, <1>3, <1>4
<1>16. ar \in Nat /\ br \in Nat /\ cr \in Nat /\ dr \in Nat
  BY <1>1, <1>2, <1>3, <1>4
<1>17. Keep6Of16(h) = S10 * Lanes(ai, bi, ci, di)
  <2>1. Keep6Of16(h) = 1 * (ha - (ha % S10)) + S16 * (hb - (hb % S10))
                       + S32 * (hc - (hc % S10)) + (S32 * S16) * (hd - (hd % S10))
    BY <1>5, <1>7, <1>8, <1>9, <1>10, FourLanes
  <2>2. Keep6Of16(h) = 1 * (S10 * ai) + S16 * (S10 * bi) + S32 * (S10 * ci)
                       + (S32 * S16) * (S10 * di)
    BY <1>5, <1>7, <1>8, <1>9, <1>10, <2>1
  <2> QED
    BY <1>15, <2>2, SMTT(60) DEF S16, S32, S10, Lanes
<1>18. ha = S10 * ai + af /\ hb = S10 * bi + bf /\ hc = S10 * ci + cf /\ hd = S10 * di + df
  BY <1>1, <1>2, <1>3, <1>4 DEF ha, hb, hc, hd
<1>19. /\ af \in Nat /\ bf \in Nat /\ cf \in Nat /\ df \in Nat
       /\ af < 1024 /\ bf < 1024 /\ cf < 1024 /\ df < 1024
  BY <1>1, <1>2, <1>3, <1>4, SMTT(30) DEF S10
<1>20. h - Keep6Of16(h) = Lanes(af, bf, cf, df)
  <2>1. h - Keep6Of16(h)
          = Lanes(S10 * ai + af, S10 * bi + bf, S10 * ci + cf, S10 * di + df)
            - S10 * Lanes(ai, bi, ci, di)
    BY <1>5, <1>17, <1>18
  <2> QED
    BY <1>15, <1>19, <2>1, SMTT(60) DEF Lanes, S10
<1> DEFINE g == Word((h - Keep6Of16(h)) * 10)
<1>21. g = Lanes(ga, gb, gc, gd)
  <2>1. Lanes(af, bf, cf, df) \in Nat /\ Lanes(af, bf, cf, df) * 10 < S64
    BY <1>19, SMTT(60) DEF Lanes, S64
  <2>2. g = Lanes(af, bf, cf, df) * 10
    BY <1>20, <2>1, SMTT(60) DEF Word, S64
  <2> QED
    BY <1>19, <2>2, SMTT(60) DEF Lanes, ga, gb, gc, gd
<1> HIDE DEF g
<1>22. Keep6Of16(g) = S10 * Lanes(ar, br, cr, dr)
  <2>1. Keep6Of16(g) = 1 * (ga - (ga % S10)) + S16 * (gb - (gb % S10))
                       + S32 * (gc - (gc % S10)) + (S32 * S16) * (gd - (gd % S10))
    BY <1>11, <1>12, <1>13, <1>14, <1>21, FourLanes
  <2>2. Keep6Of16(g) = 1 * (S10 * ar) + S16 * (S10 * br) + S32 * (S10 * cr)
                       + (S32 * S16) * (S10 * dr)
    BY <1>11, <1>12, <1>13, <1>14, <1>21, <2>1
  <2> QED
    BY <1>16, <2>2, SMTT(60) DEF S16, S32, S10, Lanes
<1>23. Keep6Of16(h) \div S10 = Lanes(ai, bi, ci, di)
  <2>1. Lanes(ai, bi, ci, di) \in Nat
    BY <1>15, SMTT(30) DEF Lanes
  <2> QED
    BY <1>17, <2>1, SMTT(30) DEF S10
<1>24. Keep6Of16(g) \div 4 = 256 * Lanes(ar, br, cr, dr)
  <2>1. Lanes(ar, br, cr, dr) \in Nat
    BY <1>16, SMTT(30) DEF Lanes
  <2> QED
    BY <1>22, <2>1, SMTT(30) DEF S10
<1>25. LanesToDigits(w) = Lanes(ai, bi, ci, di) + 256 * Lanes(ar, br, cr, dr)
  BY <1>6, <1>23, <1>24 DEF g
<1>26. LanesToDigits(w) = Bytes(ai, ar, bi, br, ci, cr, di, dr)
  BY <1>15, <1>16, <1>25, SMTT(60) DEF Bytes, Lanes
<1> QED
  BY <1>26 DEF w, ai, bi, ci, di, ar, br, cr, dr

\* simd_8digit_conv_u64 packs the eight digits of a number, the first in the
\* lowest byte, whatever the number.
THEOREM Conv8Packs ==
  \A n \in Nat : n < 100000000 =>
    Conv8(n) = Bytes(n \div 10000000, Slice(n, 10000000, 1000000), Slice(n, 1000000, 100000),
                     Slice(n, 100000, 10000), Slice(n, 10000, 1000), Slice(n, 1000, 100),
                     Slice(n, 100, 10), n % 10)
<1> SUFFICES ASSUME NEW n \in Nat, n < 100000000
             PROVE  Conv8(n) =
               Bytes(n \div 10000000, Slice(n, 10000000, 1000000), Slice(n, 1000000, 100000),
                     Slice(n, 100000, 10000), Slice(n, 10000, 1000), Slice(n, 1000, 100),
                     Slice(n, 100, 10), n % 10)
  OBVIOUS
<1> DEFINE a == n \div 10000
           b == n % 10000
           p1 == a \div 100
           p2 == a % 100
           p3 == b \div 100
           p4 == b % 100
<1>1. a \in Nat /\ a < 10000 /\ b \in Nat /\ b < 10000
  BY SMTT(30)
<1>2. /\ p1 \div 10 = n \div 10000000 /\ p1 % 10 = Slice(n, 10000000, 1000000)
      /\ p2 \div 10 = Slice(n, 1000000, 100000) /\ p2 % 10 = Slice(n, 100000, 10000)
  BY SMTT(60) DEF Slice
<1>3. /\ p3 \div 10 = Slice(n, 10000, 1000) /\ p3 % 10 = Slice(n, 1000, 100)
      /\ p4 \div 10 = Slice(n, 100, 10) /\ p4 % 10 = n % 10
  BY SMTT(60) DEF Slice
<1>4. SplitInHalves(n) = a + S32 * b
  BY HalvesSplit, SMTT(30)
<1> HIDE DEF a, b
<1>5. /\ p1 \in Nat /\ p1 < 100 /\ p2 \in Nat /\ p2 < 100
      /\ p3 \in Nat /\ p3 < 100 /\ p4 \in Nat /\ p4 < 100
  BY <1>1, SMTT(30)
<1>6. SplitInQuarters(a + S32 * b) = Lanes(p1, p2, p3, p4)
  BY <1>1, QuartersSplit, SMTT(30)
<1> HIDE DEF p1, p2, p3, p4
<1>7. Conv8(n) = LanesToDigits(Lanes(p1, p2, p3, p4))
  BY <1>4, <1>6, SMTT(30) DEF Conv8
<1>8. Conv8(n) = Bytes(p1 \div 10, p1 % 10, p2 \div 10, p2 % 10, p3 \div 10, p3 % 10,
                       p4 \div 10, p4 % 10)
  BY <1>5, <1>7, LanesBecomeDigits, SMTT(60)
<1> QED
  BY <1>2, <1>3, <1>8, SMTT(30)


\* convert_base10p8_to_base10_u64_t and hybrid_iota_8digits_ascii_noif_noload
\* pack the same eight digits as simd_8digit_conv_u64, by other multiplications.
PackedDigits(n) ==
  Bytes(n \div 10000000, Slice(n, 10000000, 1000000), Slice(n, 1000000, 100000),
        Slice(n, 100000, 10000), Slice(n, 10000, 1000), Slice(n, 1000, 100),
        Slice(n, 100, 10), n % 10)

LEMMA PairsPacked ==
  ASSUME NEW n \in Nat, n < 100000000
  PROVE  LanesToDigits(Lanes(Slice(n, 100000000, 1000000), Slice(n, 1000000, 10000),
                             Slice(n, 10000, 100), Slice(n, 100, 1)))
           = PackedDigits(n)
<1> DEFINE p1 == Slice(n, 100000000, 1000000)
           p2 == Slice(n, 1000000, 10000)
           p3 == Slice(n, 10000, 100)
           p4 == Slice(n, 100, 1)
<1>1. /\ p1 \in Nat /\ p1 < 100 /\ p2 \in Nat /\ p2 < 100
      /\ p3 \in Nat /\ p3 < 100 /\ p4 \in Nat /\ p4 < 100
  BY SMTT(30) DEF Slice
<1>2. /\ p1 \div 10 = n \div 10000000 /\ p1 % 10 = Slice(n, 10000000, 1000000)
      /\ p2 \div 10 = Slice(n, 1000000, 100000) /\ p2 % 10 = Slice(n, 100000, 10000)
  BY SMTT(60) DEF Slice
<1>3. /\ p3 \div 10 = Slice(n, 10000, 1000) /\ p3 % 10 = Slice(n, 1000, 100)
      /\ p4 \div 10 = Slice(n, 100, 10) /\ p4 % 10 = n % 10
  BY SMTT(60) DEF Slice
<1> HIDE DEF p1, p2, p3, p4
<1>4. LanesToDigits(Lanes(p1, p2, p3, p4))
        = Bytes(p1 \div 10, p1 % 10, p2 \div 10, p2 % 10, p3 \div 10, p3 % 10,
                p4 \div 10, p4 % 10)
  BY <1>1, LanesBecomeDigits, SMTT(30)
<1>5. LanesToDigits(Lanes(p1, p2, p3, p4)) = PackedDigits(n)
  BY <1>2, <1>3, <1>4, SMTT(30) DEF PackedDigits
<1> QED
  BY <1>5 DEF p1, p2, p3, p4

THEOREM Base10p8ToBase10Packs ==
  \A n \in Nat : n < 100000000 => Base10p8ToBase10(n) = PackedDigits(n)
<1> SUFFICES ASSUME NEW n \in Nat, n < 100000000
             PROVE  Base10p8ToBase10(n) = PackedDigits(n)
  OBVIOUS
<1>1. Exact8(n) = <<Slice(n, 100000000, 1000000), Slice(n, 1000000, 10000),
                    Slice(n, 10000, 100), Slice(n, 100, 1)>>
  BY Exact8Prints, SMTT(30)
<1>2. Base10p8ToBase10(n)
        = LanesToDigits(Exact8(n)[1] + S16 * Exact8(n)[2] + S32 * Exact8(n)[3]
                        + (S32 * S16) * Exact8(n)[4])
  BY DEF Base10p8ToBase10
<1>3. S16 = 65536 /\ S32 = 4294967296 /\ S32 * S16 = 281474976710656
  BY SMTT(30) DEF S16, S32
<1>4. Base10p8ToBase10(n)
        = LanesToDigits(Lanes(Slice(n, 100000000, 1000000), Slice(n, 1000000, 10000),
                              Slice(n, 10000, 100), Slice(n, 100, 1)))
  BY <1>1, <1>2, <1>3, SMTT(30) DEF Lanes
<1> QED
  BY <1>4, PairsPacked, SMTT(30)

THEOREM Hybrid8Packs ==
  \A n \in Nat : n < 100000000 => Hybrid8(n) = PackedDigits(n)
<1> SUFFICES ASSUME NEW n \in Nat, n < 100000000
             PROVE  Hybrid8(n) = PackedDigits(n)
  OBVIOUS
<1>1. Lookup8(n) = <<Slice(n, 100000000, 1000000), Slice(n, 1000000, 10000),
                     Slice(n, 10000, 100), Slice(n, 100, 1)>>
  BY Lookup8Prints, SMTT(30)
<1>2. Hybrid8(n)
        = LanesToDigits(Lookup8(n)[1] + S16 * Lookup8(n)[2] + S32 * Lookup8(n)[3]
                        + (S32 * S16) * Lookup8(n)[4])
  BY DEF Hybrid8
<1>3. S16 = 65536 /\ S32 = 4294967296 /\ S32 * S16 = 281474976710656
  BY SMTT(30) DEF S16, S32
<1>4. Hybrid8(n)
        = LanesToDigits(Lanes(Slice(n, 100000000, 1000000), Slice(n, 1000000, 10000),
                              Slice(n, 10000, 100), Slice(n, 100, 1)))
  BY <1>1, <1>2, <1>3, SMTT(30) DEF Lanes
<1> QED
  BY <1>4, PairsPacked, SMTT(30)

\* lookup_iota_8digits_ascii prints eight digits of any number below 10^8,
\* whichever of its four branches it takes.
THEOREM LookupBySizePrints ==
  \A n \in Nat : n < 100000000 =>
    LookupBySize(n) = <<Slice(n, 100000000, 1000000), Slice(n, 1000000, 10000),
                        Slice(n, 10000, 100), Slice(n, 100, 1)>>
<1> SUFFICES ASSUME NEW n \in Nat, n < 100000000
             PROVE  LookupBySize(n) =
                      <<Slice(n, 100000000, 1000000), Slice(n, 1000000, 10000),
                        Slice(n, 10000, 100), Slice(n, 100, 1)>>
  OBVIOUS
<1>1. CASE n < 100
  <2>1. /\ Slice(n, 100000000, 1000000) = 0 /\ Slice(n, 1000000, 10000) = 0
        /\ Slice(n, 10000, 100) = 0 /\ Slice(n, 100, 1) = n
    BY <1>1, SMTT(30) DEF Slice
  <2> QED
    BY <1>1, <2>1, SMTT(30) DEF LookupBySize
<1>2. CASE ~(n < 100) /\ n < 10000
  <2>1. Slice(n, 100000000, 1000000) = 0 /\ Slice(n, 1000000, 10000) = 0
    BY <1>2, SMTT(30) DEF Slice
  <2>2. Lookup4(n) = <<Slice(n, 10000, 100), Slice(n, 100, 1)>>
    BY <1>2, Lookup4Prints, SMTT(30)
  <2> QED
    BY <1>2, <2>1, <2>2, SMTT(30) DEF LookupBySize
<1>3. CASE ~(n < 100) /\ ~(n < 10000) /\ n < 1000000
  <2>1. Slice(n, 100000000, 1000000) = 0
    BY <1>3, SMTT(30) DEF Slice
  <2>2. Lookup6(n) = <<Slice(n, 1000000, 10000), Slice(n, 10000, 100), Slice(n, 100, 1)>>
    BY <1>3, Lookup6Prints, SMTT(30)
  <2> QED
    BY <1>3, <2>1, <2>2, SMTT(30) DEF LookupBySize
<1>4. CASE ~(n < 1000000)
  <2>1. LookupBySize(n) = Lookup8(n)
    BY <1>4, SMTT(30) DEF LookupBySize
  <2> QED
    BY <2>1, Lookup8Prints, SMTT(30)
<1> QED
  BY <1>1, <1>2, <1>3, <1>4, SMTT(30)

\* iota_2_u16digits does not print two digits: its mask is 65535 >> 9 where the
\* point is at 10, so 42 becomes 4 and 0.
THEOREM Iota2Misprints == Iota2(42) = <<4, 0>>
  BY SMTT(30) DEF Iota2, Word16, S16, S10

\* uint_to_dec_pre_calc_impl_seq_lessmul_ takes eight digits off the end of any
\* 64-bit number: rounding the fraction of the 128-bit product up to 57 bits
\* costs no digit.
THEOREM LessMulEightPrints ==
  \A n \in Nat : n < 18446744073709551616 =>
    LessMulEight(n) =
      <<n \div 100000000, Slice(n, 100000000, 1000000), Slice(n, 1000000, 10000),
        Slice(n, 10000, 100), Slice(n, 100, 1)>>
<1> SUFFICES ASSUME NEW n \in Nat, n < 18446744073709551616
             PROVE  LessMulEight(n) =
                      <<n \div 100000000, Slice(n, 100000000, 1000000),
                        Slice(n, 1000000, 10000), Slice(n, 10000, 100), Slice(n, 100, 1)>>
  OBVIOUS
<1> DEFINE q == n \div 100000000
           x1 == n % 100000000
           product == n * 12379400392853802749
           y == product - S90 * q
           f1 == (y + S33 - 1) \div S33
<1>1. q \in Nat /\ q < 184467440738 /\ x1 \in Nat /\ x1 < 100000000 /\ n = 100000000 * q + x1
  BY SMTT(30)
<1>2. 100000000 * y = S90 * x1 + 875776 * n
  BY <1>1, SMTT(30) DEF S90
<1>3. y \in Int /\ product \in Nat /\ product = S90 * q + y
  BY <1>1, SMTT(30) DEF S90
<1> HIDE DEF y, product
<1>4. y \in Nat /\ y < S90 - S60
  BY <1>1, <1>2, <1>3, SMTT(30) DEF S90, S60
<1>5. product \div S90 = q
  <2>1. S90 \in Nat /\ 0 < S90 /\ q \in Int
    BY <1>1, SMTT(30) DEF S90
  <2>2. y \in Nat /\ y < S90
    BY <1>4, SMTT(30) DEF S90, S60
  <2> QED
    BY <1>3, <2>1, <2>2, DivisionIs
<1>6. f1 \in Nat /\ f1 < S57 /\ S33 * f1 >= y /\ S33 * f1 < y + S33
  BY <1>4, SMTT(30) DEF S90, S60, S33, S57
<1>7. (product + S33 - 1) \div S33 = S57 * q + f1
  BY <1>3, <1>4, <1>1, SMTT(30) DEF S90, S33, S57
<1> HIDE DEF f1
<1>8. Word((product + S33 - 1) \div S33) % S57 = f1
  <2> DEFINE t == S57 * q + f1
  <2>1. t \in Nat /\ t % S57 = f1
    BY <1>1, <1>6, SMTT(30) DEF S57
  <2>2. Word(t) % S57 = t % S57
    BY <2>1, SMTT(30) DEF Word, S64, S57
  <2> QED
    BY <1>7, <2>1, <2>2
<1>9. S57 * x1 <= 100000000 * f1 /\ 100000000 * f1 < S57 * (x1 + 1)
  BY <1>1, <1>2, <1>4, <1>6, SMTT(30) DEF S90, S33, S57
<1>10. Word(product \div S90) = q
  BY <1>1, <1>5, SMTT(30) DEF Word, S64
<1> HIDE DEF x1, q
<1> DEFINE r2 == Word(f1 * 100)
           x2 == x1 % 1000000
           f2 == r2 % S57
<1>12. /\ r2 \div S57 = x1 \div 1000000
       /\ x2 \in Nat /\ x2 < 1000000 /\ f2 \in Nat /\ f2 < S57
       /\ S57 * x2 <= 1000000 * f2 /\ 1000000 * f2 < S57 * (x2 + 1)
  BY <1>1, <1>6, <1>9, SMTT(60) DEF Word, S64, S57
<1> HIDE DEF r2, x2, f2
<1> DEFINE r3 == Word(f2 * 100)
           x3 == x2 % 10000
           f3 == r3 % S57
<1>13. /\ r3 \div S57 = x2 \div 10000
       /\ x3 \in Nat /\ x3 < 10000 /\ f3 \in Nat /\ f3 < S57
       /\ S57 * x3 <= 10000 * f3 /\ 10000 * f3 < S57 * (x3 + 1)
  BY <1>12, SMTT(60) DEF Word, S64, S57
<1> HIDE DEF r3, x3, f3
<1> DEFINE r4 == Word(f3 * 100)
           x4 == x3 % 100
           f4 == r4 % S57
<1>14. /\ r4 \div S57 = x3 \div 100
       /\ x4 \in Nat /\ x4 < 100 /\ f4 \in Nat /\ f4 < S57
       /\ S57 * x4 <= 100 * f4 /\ 100 * f4 < S57 * (x4 + 1)
  BY <1>13, SMTT(60) DEF Word, S64, S57
<1> HIDE DEF r4, x4, f4
<1> DEFINE r5 == Word(f4 * 100)
           x5 == 0
           f5 == r5 % S57
<1>15. r5 \div S57 = x4
  BY <1>14, SMTT(60) DEF Word, S64, S57
<1> HIDE DEF r5, x5, f5
<1>20. LessMulEight(n) = <<Word(product \div S90), r2 \div S57, r3 \div S57, r4 \div S57, r5 \div S57>>
  BY <1>8, SMTT(30) DEF LessMulEight, Next64, product, r2, f2, r3, f3, r4, f4, r5, f5
<1>21. /\ Slice(n, 100000000, 1000000) = x1 \div 1000000
       /\ Slice(n, 1000000, 10000) = x2 \div 10000
       /\ Slice(n, 10000, 100) = x3 \div 100
       /\ Slice(n, 100, 1) = x4
  <2>1. x1 = n % 100000000
    BY DEF x1
  <2>2. x2 = n % 1000000
    BY <2>1, SMTT(30) DEF x2
  <2>3. x3 = n % 10000
    BY <2>2, SMTT(30) DEF x3
  <2>4. x4 = n % 100
    BY <2>3, SMTT(30) DEF x4
  <2> QED
    BY <2>1, <2>2, <2>3, <2>4, SMTT(30) DEF Slice
<1>22. n \div 100000000 = q
  BY DEF q
<1> QED
  BY <1>10, <1>12, <1>13, <1>14, <1>15, <1>20, <1>21, <1>22, SMTT(30)

\* ... and the words dec_from_uint_impl_semi_parallel_impl_ncx_ fills hold the
\* digits of any 64-bit number, eight each.
THEOREM SemiParallelWordsPack ==
  \A n \in Nat : n < 18446744073709551616 =>
    SemiParallelWords(n) =
      IF n < 100000000 THEN <<PackedDigits(n)>>
      ELSE IF n < 10000000000000000
        THEN <<PackedDigits(n \div 100000000), PackedDigits(n % 100000000)>>
        ELSE <<PackedDigits(n \div 10000000000000000),
               PackedDigits((n \div 100000000) % 100000000), PackedDigits(n % 100000000)>>
<1> SUFFICES ASSUME NEW n \in Nat, n < 18446744073709551616
             PROVE  SemiParallelWords(n) =
      IF n < 100000000 THEN <<PackedDigits(n)>>
      ELSE IF n < 10000000000000000
        THEN <<PackedDigits(n \div 100000000), PackedDigits(n % 100000000)>>
        ELSE <<PackedDigits(n \div 10000000000000000),
               PackedDigits((n \div 100000000) % 100000000), PackedDigits(n % 100000000)>>
  OBVIOUS
<1> DEFINE q == n \div 100000000
<1>1. \A k \in Nat : k < 100000000 => Conv8(k) = PackedDigits(k)
  BY Conv8Packs, SMTT(30) DEF PackedDigits
<1>2. /\ q \in Nat /\ (q < 100000000 <=> n < 10000000000000000)
      /\ q \div 100000000 = n \div 10000000000000000
      /\ q \div 100000000 \in Nat /\ q \div 100000000 < 100000000
      /\ q % 100000000 \in Nat /\ q % 100000000 < 100000000
      /\ n % 100000000 \in Nat /\ n % 100000000 < 100000000
  BY SMTT(60)
<1>3. CASE n < 100000000
  BY <1>1, <1>3, SMTT(30) DEF SemiParallelWords
<1>4. CASE ~(n < 100000000) /\ q < 100000000
  BY <1>1, <1>2, <1>4, SMTT(30) DEF SemiParallelWords
<1>5. CASE ~(n < 100000000) /\ ~(q < 100000000)
  BY <1>1, <1>2, <1>5, SMTT(30) DEF SemiParallelWords
<1> QED
  BY <1>3, <1>4, <1>5, SMTT(30)

\* uint_to_dec_less1e9 finds the number of digits by the zero bytes before the
\* first: it prints the digits n needs, one for 0.
\* the digits of n without its leading zeros
IsCount(w, n) == /\ w \in 1 .. 24
                 /\ w = 1 \/ (w > 1 /\ w <= 20 /\ floor10_table[w] <= n)
                 /\ w < 20 => n < floor10_table[w + 1]

LEMMA DigitsOf ==
  ASSUME NEW n \in Nat, n < 100000000
  PROVE  ZeroBytes(Conv8(n)) =
           IF n >= 10000000 THEN 0 ELSE IF n >= 1000000 THEN 1 ELSE IF n >= 100000 THEN 2
           ELSE IF n >= 10000 THEN 3 ELSE IF n >= 1000 THEN 4 ELSE IF n >= 100 THEN 5
           ELSE IF n >= 10 THEN 6 ELSE IF n >= 1 THEN 7 ELSE 8
<1> DEFINE d1 == n \div 10000000
           d2 == Slice(n, 10000000, 1000000)
           d3 == Slice(n, 1000000, 100000)
           d4 == Slice(n, 100000, 10000)
           d5 == Slice(n, 10000, 1000)
           d6 == Slice(n, 1000, 100)
           d7 == Slice(n, 100, 10)
           d8 == n % 10
<1>1. Conv8(n) = Bytes(d1, d2, d3, d4, d5, d6, d7, d8)
  BY Conv8Packs, SMTT(30)
<1>2. d1 \in Nat /\ d1 < 10 /\ (n < 100000000 => (d1 = 0 <=> n < 10000000))
  BY SMTT(30) DEF Slice
<1>3. d2 \in Nat /\ d2 < 10 /\ (n < 10000000 => (d2 = 0 <=> n < 1000000))
  BY SMTT(30) DEF Slice
<1>4. d3 \in Nat /\ d3 < 10 /\ (n < 1000000 => (d3 = 0 <=> n < 100000))
  BY SMTT(30) DEF Slice
<1>5. d4 \in Nat /\ d4 < 10 /\ (n < 100000 => (d4 = 0 <=> n < 10000))
  BY SMTT(30) DEF Slice
<1>6. d5 \in Nat /\ d5 < 10 /\ (n < 10000 => (d5 = 0 <=> n < 1000))
  BY SMTT(30) DEF Slice
<1>7. d6 \in Nat /\ d6 < 10 /\ (n < 1000 => (d6 = 0 <=> n < 100))
  BY SMTT(30) DEF Slice
<1>8. d7 \in Nat /\ d7 < 10 /\ (n < 100 => (d7 = 0 <=> n < 10))
  BY SMTT(30) DEF Slice
<1>9. d8 \in Nat /\ d8 < 10 /\ (n < 10 => (d8 = 0 <=> n < 1))
  BY SMTT(30) DEF Slice
<1> HIDE DEF d1, d2, d3, d4, d5, d6, d7, d8
<1>10. /\ d1 \in Nat /\ d2 \in Nat /\ d3 \in Nat /\ d4 \in Nat
       /\ d5 \in Nat /\ d6 \in Nat /\ d7 \in Nat /\ d8 \in Nat
       /\ d1 < 10 /\ d2 < 10 /\ d3 < 10 /\ d4 < 10
       /\ d5 < 10 /\ d6 < 10 /\ d7 < 10 /\ d8 < 10
  BY <1>2, <1>3, <1>4, <1>5, <1>6, <1>7, <1>8, <1>9, SMTT(30)
<1>11. ZeroBytes(Bytes(d1, d2, d3, d4, d5, d6, d7, d8)) =
         IF d1 # 0 THEN 0 ELSE IF d2 # 0 THEN 1 ELSE IF d3 # 0 THEN 2 ELSE IF d4 # 0 THEN 3
         ELSE IF d5 # 0 THEN 4 ELSE IF d6 # 0 THEN 5 ELSE IF d7 # 0 THEN 6
         ELSE IF d8 # 0 THEN 7 ELSE 8
  <2> DEFINE h == Bytes(d1, d2, d3, d4, d5, d6, d7, d8)
             b1 == d1
             b2 == b1 + 256 * d2
             b3 == b2 + 65536 * d3
             b4 == b3 + 16777216 * d4
             b5 == b4 + 4294967296 * d5
             b6 == b5 + 1099511627776 * d6
             b7 == b6 + 281474976710656 * d7
             b8 == b7 + 72057594037927936 * d8
             t7 == d8
             t6 == d7 + 256 * t7
             t5 == d6 + 256 * t6
             t4 == d5 + 256 * t5
             t3 == d4 + 256 * t4
             t2 == d3 + 256 * t3
             t1 == d2 + 256 * t2
  <2>1. t7 \in Nat /\ t6 \in Nat /\ t5 \in Nat /\ t4 \in Nat /\ t3 \in Nat /\ t2 \in Nat /\ t1 \in Nat
    BY <1>10, SMTT(30)
  <2>2. b1 \in Nat /\ b1 < 256 /\ (b1 = 0 <=> d1 = 0)
    BY <1>10, SMTT(30)
  <2>3. b2 \in Nat /\ b2 < 65536 /\ (b2 = 0 <=> (b1 = 0 /\ d2 = 0))
    BY <1>10, <2>2, SMTT(30)
  <2>4. b3 \in Nat /\ b3 < 16777216 /\ (b3 = 0 <=> (b2 = 0 /\ d3 = 0))
    BY <1>10, <2>3, SMTT(30)
  <2>5. b4 \in Nat /\ b4 < 4294967296 /\ (b4 = 0 <=> (b3 = 0 /\ d4 = 0))
    BY <1>10, <2>4, SMTT(30)
  <2>6. b5 \in Nat /\ b5 < 1099511627776 /\ (b5 = 0 <=> (b4 = 0 /\ d5 = 0))
    BY <1>10, <2>5, SMTT(30)
  <2>7. b6 \in Nat /\ b6 < 281474976710656 /\ (b6 = 0 <=> (b5 = 0 /\ d6 = 0))
    BY <1>10, <2>6, SMTT(30)
  <2>8. b7 \in Nat /\ b7 < 72057594037927936 /\ (b7 = 0 <=> (b6 = 0 /\ d7 = 0))
    BY <1>10, <2>7, SMTT(30)
  <2>9. b8 \in Nat /\ b8 < 18446744073709551616 /\ (b8 = 0 <=> (b7 = 0 /\ d8 = 0))
    BY <1>10, <2>8, SMTT(30)
  <2>10. h = b1 + 256 * t1
    BY <1>10, SMTT(30) DEF Bytes
  <2>11. h = b2 + 65536 * t2
    BY <1>10, SMTT(30) DEF Bytes
  <2>12. h = b3 + 16777216 * t3
    BY <1>10, SMTT(30) DEF Bytes
  <2>13. h = b4 + 4294967296 * t4
    BY <1>10, SMTT(30) DEF Bytes
  <2>14. h = b5 + 1099511627776 * t5
    BY <1>10, SMTT(30) DEF Bytes
  <2>15. h = b6 + 281474976710656 * t6
    BY <1>10, SMTT(30) DEF Bytes
  <2>16. h = b7 + 72057594037927936 * t7
    BY <1>10, SMTT(30) DEF Bytes
  <2>17. h = b8
    BY <1>10, SMTT(30) DEF Bytes
  <2> HIDE DEF h, b1, b2, b3, b4, b5, b6, b7, b8, t1, t2, t3, t4, t5, t6, t7
  <2>18. h % S8 = b1
    <3>1. S8 = 256
      BY <1>10, SMTT(30) DEF S8, S16, S24, S32
    <3>2. h % 256 = b1
      BY <1>10, <2>1, <2>2, <2>10, SMTT(30)
    <3> QED
      BY <3>1, <3>2, SMTT(30)
  <2>19. h % S16 = b2
    <3>1. S16 = 65536
      BY <1>10, SMTT(30) DEF S8, S16, S24, S32
    <3>2. h % 65536 = b2
      BY <1>10, <2>1, <2>3, <2>11, SMTT(30)
    <3> QED
      BY <3>1, <3>2, SMTT(30)
  <2>20. h % S24 = b3
    <3>1. S24 = 16777216
      BY <1>10, SMTT(30) DEF S8, S16, S24, S32
    <3>2. h % 16777216 = b3
      BY <1>10, <2>1, <2>4, <2>12, SMTT(30)
    <3> QED
      BY <3>1, <3>2, SMTT(30)
  <2>21. h % S32 = b4
    <3>1. S32 = 4294967296
      BY <1>10, SMTT(30) DEF S8, S16, S24, S32
    <3>2. h % 4294967296 = b4
      BY <1>10, <2>1, <2>5, <2>13, SMTT(30)
    <3> QED
      BY <3>1, <3>2, SMTT(30)
  <2>22. h % (S32 * S8) = b5
    <3>1. (S32 * S8) = 1099511627776
      BY <1>10, SMTT(30) DEF S8, S16, S24, S32
    <3>2. h % 1099511627776 = b5
      BY <1>10, <2>1, <2>6, <2>14, SMTT(30)
    <3> QED
      BY <3>1, <3>2, SMTT(30)
  <2>23. h % (S32 * S16) = b6
    <3>1. (S32 * S16) = 281474976710656
      BY <1>10, SMTT(30) DEF S8, S16, S24, S32
    <3>2. h % 281474976710656 = b6
      BY <1>10, <2>1, <2>7, <2>15, SMTT(30)
    <3> QED
      BY <3>1, <3>2, SMTT(30)
  <2>24. h % (S32 * S24) = b7
    <3>1. (S32 * S24) = 72057594037927936
      BY <1>10, SMTT(30) DEF S8, S16, S24, S32
    <3>2. h % 72057594037927936 = b7
      BY <1>10, <2>1, <2>8, <2>16, SMTT(30)
    <3> QED
      BY <3>1, <3>2, SMTT(30)
  <2>25. ZeroBytes(h) =
           IF b1 # 0 THEN 0 ELSE IF b2 # 0 THEN 1 ELSE IF b3 # 0 THEN 2 ELSE IF b4 # 0 THEN 3
           ELSE IF b5 # 0 THEN 4 ELSE IF b6 # 0 THEN 5 ELSE IF b7 # 0 THEN 6
           ELSE IF b8 # 0 THEN 7 ELSE 8
    BY <1>10, <2>17, <2>18, <2>19, <2>20, <2>21, <2>22, <2>23, <2>24, SMTT(30) DEF ZeroBytes
  <2>26. /\ (b1 = 0 <=> d1 = 0) /\ (b2 = 0 <=> (b1 = 0 /\ d2 = 0)) /\ (b3 = 0 <=> (b2 = 0 /\ d3 = 0))
         /\ (b4 = 0 <=> (b3 = 0 /\ d4 = 0)) /\ (b5 = 0 <=> (b4 = 0 /\ d5 = 0))
         /\ (b6 = 0 <=> (b5 = 0 /\ d6 = 0)) /\ (b7 = 0 <=> (b6 = 0 /\ d7 = 0))
         /\ (b8 = 0 <=> (b7 = 0 /\ d8 = 0))
    BY <1>10, <2>2, <2>3, <2>4, <2>5, <2>6, <2>7, <2>8, <2>9, SMTT(30)
  <2> QED
    BY <1>10, <2>25, <2>26, SMTT(30) DEF h
<1> QED
  BY <1>1, <1>2, <1>3, <1>4, <1>5, <1>6, <1>7, <1>8, <1>9, <1>11, SMTT(60)

THEOREM CountLess1e9IsRight ==
  \A n \in Nat : n < 100000000 => IsCount(CountLess1e9(n), n)
<1> SUFFICES ASSUME NEW n \in Nat, n < 100000000
             PROVE  IsCount(CountLess1e9(n), n)
  OBVIOUS
<1> DEFINE z == ZeroBytes(Conv8(n))
<1>1. z = IF n >= 10000000 THEN 0 ELSE IF n >= 1000000 THEN 1 ELSE IF n >= 100000 THEN 2
          ELSE IF n >= 10000 THEN 3 ELSE IF n >= 1000 THEN 4 ELSE IF n >= 100 THEN 5
          ELSE IF n >= 10 THEN 6 ELSE IF n >= 1 THEN 7 ELSE 8
  BY DigitsOf, SMTT(30)
<1>2. CountLess1e9(n) = IF z = 8 THEN 1 ELSE 8 - z
  BY SMTT(30) DEF CountLess1e9
<1> HIDE DEF z
<1>3. CASE n < 10
  <2>1. CountLess1e9(n) = 1
    BY <1>1, <1>2, <1>3, SMTT(30)
  <2> QED
    BY <1>3, <2>1, SMTT(30) DEF IsCount, floor10_table
<1>4. CASE n >= 10 /\ n < 100
  <2>1. CountLess1e9(n) = 2
    BY <1>1, <1>2, <1>4, SMTT(30)
  <2> QED
    BY <1>4, <2>1, SMTT(30) DEF IsCount, floor10_table
<1>5. CASE n >= 100 /\ n < 1000
  <2>1. CountLess1e9(n) = 3
    BY <1>1, <1>2, <1>5, SMTT(30)
  <2> QED
    BY <1>5, <2>1, SMTT(30) DEF IsCount, floor10_table
<1>6. CASE n >= 1000 /\ n < 10000
  <2>1. CountLess1e9(n) = 4
    BY <1>1, <1>2, <1>6, SMTT(30)
  <2> QED
    BY <1>6, <2>1, SMTT(30) DEF IsCount, floor10_table
<1>7. CASE n >= 10000 /\ n < 100000
  <2>1. CountLess1e9(n) = 5
    BY <1>1, <1>2, <1>7, SMTT(30)
  <2> QED
    BY <1>7, <2>1, SMTT(30) DEF IsCount, floor10_table
<1>8. CASE n >= 100000 /\ n < 1000000
  <2>1. CountLess1e9(n) = 6
    BY <1>1, <1>2, <1>8, SMTT(30)
  <2> QED
    BY <1>8, <2>1, SMTT(30) DEF IsCount, floor10_table
<1>9. CASE n >= 1000000 /\ n < 10000000
  <2>1. CountLess1e9(n) = 7
    BY <1>1, <1>2, <1>9, SMTT(30)
  <2> QED
    BY <1>9, <2>1, SMTT(30) DEF IsCount, floor10_table
<1>10. CASE n >= 10000000 /\ n < 100000000
  <2>1. CountLess1e9(n) = 8
    BY <1>1, <1>2, <1>10, SMTT(30)
  <2> QED
    BY <1>10, <2>1, SMTT(30) DEF IsCount, floor10_table
<1> QED
  BY <1>3, <1>4, <1>5, <1>6, <1>7, <1>8, <1>9, <1>10, SMTT(30)

\* dec_from_uint_impl_semi_parallel_impl_ncx_ prints as many digits of its 24
\* as any 64-bit number has.
THEOREM SemiParallelCountIsRight ==
  \A n \in Nat : n < 18446744073709551616 => IsCount(SemiParallelCount(n), n)
<1> SUFFICES ASSUME NEW n \in Nat, n < 18446744073709551616
             PROVE  IsCount(SemiParallelCount(n), n)
  OBVIOUS
<1> DEFINE q == n \div 100000000
           z == ZeroBytes(Conv8(q))
           y == ZeroBytes(Conv8(q \div 100000000))
<1>1. CASE n < 100000000
  BY <1>1, CountLess1e9IsRight, SMTT(30) DEF SemiParallelCount
<1>2. CASE ~(n < 100000000) /\ q < 100000000
  <2>1. SemiParallelCount(n) = 16 - z
    BY <1>2, SMTT(30) DEF SemiParallelCount
  <2>2. q \in Nat /\ 1 <= q /\ 100000000 * q <= n /\ n < 100000000 * q + 100000000
    BY <1>2, SMTT(30)
  <2>3. z = IF q >= 10000000 THEN 0 ELSE IF q >= 1000000 THEN 1 ELSE IF q >= 100000 THEN 2
            ELSE IF q >= 10000 THEN 3 ELSE IF q >= 1000 THEN 4 ELSE IF q >= 100 THEN 5
            ELSE IF q >= 10 THEN 6 ELSE IF q >= 1 THEN 7 ELSE 8
    BY <1>2, <2>2, DigitsOf, SMTT(30)
  <2>4. q < 100000000
    BY <1>2, SMTT(30)
  <2> HIDE DEF z, q
  <2>5. CASE q < 10
    <3>1. SemiParallelCount(n) = 9
      BY <2>1, <2>2, <2>3, <2>5, SMTT(30)
    <3> QED
      BY <2>2, <2>5, <3>1, SMTT(30) DEF IsCount, floor10_table, S64
  <2>6. CASE q >= 10 /\ q < 100
    <3>1. SemiParallelCount(n) = 10
      BY <2>1, <2>2, <2>3, <2>6, SMTT(30)
    <3> QED
      BY <2>2, <2>6, <3>1, SMTT(30) DEF IsCount, floor10_table, S64
  <2>7. CASE q >= 100 /\ q < 1000
    <3>1. SemiParallelCount(n) = 11
      BY <2>1, <2>2, <2>3, <2>7, SMTT(30)
    <3> QED
      BY <2>2, <2>7, <3>1, SMTT(30) DEF IsCount, floor10_table, S64
  <2>8. CASE q >= 1000 /\ q < 10000
    <3>1. SemiParallelCount(n) = 12
      BY <2>1, <2>2, <2>3, <2>8, SMTT(30)
    <3> QED
      BY <2>2, <2>8, <3>1, SMTT(30) DEF IsCount, floor10_table, S64
  <2>9. CASE q >= 10000 /\ q < 100000
    <3>1. SemiParallelCount(n) = 13
      BY <2>1, <2>2, <2>3, <2>9, SMTT(30)
    <3> QED
      BY <2>2, <2>9, <3>1, SMTT(30) DEF IsCount, floor10_table, S64
  <2>10. CASE q >= 100000 /\ q < 1000000
    <3>1. SemiParallelCount(n) = 14
      BY <2>1, <2>2, <2>3, <2>10, SMTT(30)
    <3> QED
      BY <2>2, <2>10, <3>1, SMTT(30) DEF IsCount, floor10_table, S64
  <2>11. CASE q >= 1000000 /\ q < 10000000
    <3>1. SemiParallelCount(n) = 15
      BY <2>1, <2>2, <2>3, <2>11, SMTT(30)
    <3> QED
      BY <2>2, <2>11, <3>1, SMTT(30) DEF IsCount, floor10_table, S64
  <2>12. CASE q >= 10000000 /\ q < 100000000
    <3>1. SemiParallelCount(n) = 16
      BY <2>1, <2>2, <2>3, <2>12, SMTT(30)
    <3> QED
      BY <2>2, <2>12, <3>1, SMTT(30) DEF IsCount, floor10_table, S64
  <2> QED
    BY <2>2, <2>4, <2>5, <2>6, <2>7, <2>8, <2>9, <2>10, <2>11, <2>12, SMTT(30)
<1>3. CASE ~(n < 100000000) /\ ~(q < 100000000)
  <2> DEFINE t == q \div 100000000
  <2>1. SemiParallelCount(n) = 24 - y
    BY <1>3, SMTT(30) DEF SemiParallelCount
  <2>2. /\ t \in Nat /\ 1 <= t /\ t < 10000
        /\ 10000000000000000 * t <= n /\ n < 10000000000000000 * t + 10000000000000000
    BY <1>3, SMTT(30)
  <2>3. y = IF t >= 10000000 THEN 0 ELSE IF t >= 1000000 THEN 1 ELSE IF t >= 100000 THEN 2
            ELSE IF t >= 10000 THEN 3 ELSE IF t >= 1000 THEN 4 ELSE IF t >= 100 THEN 5
            ELSE IF t >= 10 THEN 6 ELSE IF t >= 1 THEN 7 ELSE 8
    <3>1. t < 100000000
      BY <2>2, SMTT(30)
    <3> QED
      BY <2>2, <3>1, DigitsOf, SMTT(30)
  <2> HIDE DEF y, t, q
  <2>5. CASE t < 10
    <3>1. SemiParallelCount(n) = 17
      BY <2>1, <2>2, <2>3, <2>5, SMTT(30)
    <3> QED
      BY <2>2, <2>5, <3>1, SMTT(30) DEF IsCount, floor10_table, S64
  <2>6. CASE t >= 10 /\ t < 100
    <3>1. SemiParallelCount(n) = 18
      BY <2>1, <2>2, <2>3, <2>6, SMTT(30)
    <3> QED
      BY <2>2, <2>6, <3>1, SMTT(30) DEF IsCount, floor10_table, S64
  <2>7. CASE t >= 100 /\ t < 1000
    <3>1. SemiParallelCount(n) = 19
      BY <2>1, <2>2, <2>3, <2>7, SMTT(30)
    <3> QED
      BY <2>2, <2>7, <3>1, SMTT(30) DEF IsCount, floor10_table, S64
  <2>8. CASE t >= 1000 /\ t < 10000
    <3>1. SemiParallelCount(n) = 20
      BY <2>1, <2>2, <2>3, <2>8, SMTT(30)
    <3> QED
      BY <2>2, <2>8, <3>1, SMTT(30) DEF IsCount, floor10_table, S64
  <2> QED
    BY <2>2, <2>5, <2>6, <2>7, <2>8, SMTT(30)
<1> QED
  BY <1>1, <1>2, <1>3, SMTT(30)

\* convert_base10_to_base10p8_u64_t reads eight digits back: in each of its
\* three steps every lane takes the digits above it times ten, a hundred, ten
\* thousand, and none borrows from its neighbour.
Bytes4(l1, l2, l3, l4) == l1 + 256 * l2 + 65536 * l3 + 16777216 * l4

THEOREM Base10ToBase10p8Reads ==
  ASSUME NEW d1 \in Nat, NEW d2 \in Nat, NEW d3 \in Nat, NEW d4 \in Nat,
         NEW d5 \in Nat, NEW d6 \in Nat, NEW d7 \in Nat, NEW d8 \in Nat,
         d1 < 10, d2 < 10, d3 < 10, d4 < 10, d5 < 10, d6 < 10, d7 < 10, d8 < 10
  PROVE  Base10ToBase10p8(<<d1, d2, d3, d4, d5, d6, d7, d8>>)
           = 10000000 * d1 + 1000000 * d2 + 100000 * d3 + 10000 * d4
             + 1000 * d5 + 100 * d6 + 10 * d7 + d8
<1> DEFINE l1 == d8 + 16 * d7
           l2 == d6 + 16 * d5
           l3 == d4 + 16 * d3
           l4 == d2 + 16 * d1
           p1 == d8 + 10 * d7
           p2 == d6 + 10 * d5
           p3 == d4 + 10 * d3
           p4 == d2 + 10 * d1
           q1 == p1 + 100 * p2
           q2 == p3 + 100 * p4
           v0 == Bytes4(l1, l2, l3, l4)
           v1 == Word32(v0 - (HighNibbles(v0) \div 8) * 3)
           v2 == Word32(v1 - (HighBytes(v1) \div 64) * 39)
<1>1. /\ l1 \in Nat /\ l1 < 256 /\ l2 \in Nat /\ l2 < 256
      /\ l3 \in Nat /\ l3 < 256 /\ l4 \in Nat /\ l4 < 256
  BY SMTT(30)
<1>2. /\ p1 \in Nat /\ p1 < 100 /\ p2 \in Nat /\ p2 < 100
      /\ p3 \in Nat /\ p3 < 100 /\ p4 \in Nat /\ p4 < 100
  BY SMTT(30)
<1>3. /\ l1 - (l1 % 16) = 16 * d7 /\ l2 - (l2 % 16) = 16 * d5
      /\ l3 - (l3 % 16) = 16 * d3 /\ l4 - (l4 % 16) = 16 * d1
  BY SMTT(30)
<1> HIDE DEF l1, l2, l3, l4
<1>4. HighNibbles(v0) = 1 * (l1 - (l1 % 16)) + S8 * (l2 - (l2 % 16))
                        + S16 * (l3 - (l3 % 16)) + S24 * (l4 - (l4 % 16))
  <2> DEFINE h == Bytes4(l1, l2, l3, l4)
             b2 == l1 + 256 * l2
             b3 == b2 + 65536 * l3
             r2 == l3 + 256 * l4
             r1 == l2 + 256 * r2
  <2>1. r2 \in Nat /\ r1 \in Nat /\ r1 % 256 = l2 /\ r2 % 256 = l3 /\ l4 % 256 = l4
    BY <1>1, SMTT(30)
  <2>2. b2 \in Nat /\ b2 < 65536 /\ b3 \in Nat /\ b3 < 16777216
    BY <1>1, SMTT(30)
  <2>3. h = l1 + 256 * r1 /\ h = b2 + 65536 * r2 /\ h = b3 + 16777216 * l4
    BY <1>1, SMTT(30) DEF Bytes4
  <2> HIDE DEF v0, h, b2, b3, r1, r2
  <2>4. (h \div 1) % 256 = l1
    BY <1>1, <2>1, <2>3, SMTT(30)
  <2>5. (h \div 256) % 256 = l2
    <3>1. h \div 256 = r1
      BY <1>1, <2>1, <2>3, SMTT(30)
    <3> QED
      BY <2>1, <3>1, SMTT(30)
  <2>6. (h \div 65536) % 256 = l3
    <3>1. h \div 65536 = r2
      BY <1>1, <2>1, <2>2, <2>3, SMTT(30)
    <3> QED
      BY <2>1, <3>1, SMTT(30)
  <2>7. (h \div 16777216) % 256 = l4
    <3>1. h \div 16777216 = l4
      BY <1>1, <2>2, <2>3, SMTT(30)
    <3> QED
      BY <2>1, <3>1, SMTT(30)
  <2>8. Lane8(h, 1) = l1 /\ Lane8(h, S8) = l2 /\ Lane8(h, S16) = l3 /\ Lane8(h, S24) = l4
    BY <2>4, <2>5, <2>6, <2>7, SMTT(30) DEF Lane8, S8, S16, S24
  <2>9. HighNibbles(h) = 1 * (l1 - (l1 % 16)) + S8 * (l2 - (l2 % 16))
                         + S16 * (l3 - (l3 % 16)) + S24 * (l4 - (l4 % 16))
    BY <2>8 DEF HighNibbles
  <2> QED
    BY <2>9, SMTT(30) DEF h, v0
<1>5. HighNibbles(v0) = 16 * (d7 + 256 * d5 + 65536 * d3 + 16777216 * d1)
  BY <1>3, <1>4, SMTT(30) DEF S8, S16, S24
<1>6. (HighNibbles(v0) \div 8) * 3 = 6 * (d7 + 256 * d5 + 65536 * d3 + 16777216 * d1)
  BY <1>5, SMTT(30)
<1>7. v0 - (HighNibbles(v0) \div 8) * 3 = Bytes4(p1, p2, p3, p4)
  BY <1>6, SMTT(30) DEF Bytes4, l1, l2, l3, l4
<1>8. v1 = Bytes4(p1, p2, p3, p4)
  <2>1. Bytes4(p1, p2, p3, p4) \in Nat /\ Bytes4(p1, p2, p3, p4) < 4294967296
    BY <1>2, SMTT(30) DEF Bytes4
  <2> HIDE DEF p1, p2, p3, p4
  <2> QED
    BY <1>7, <2>1, SMTT(30) DEF Word32, S32
<1>9. Base10ToBase10p8(<<d1, d2, d3, d4, d5, d6, d7, d8>>)
        = Word32(v2 - (HighHalf(v2) \div 4096) * 3471)
  <2>1. v0 = d8 + 16 * d7 + S8 * d6 + (S8 * 16) * d5
             + S16 * d4 + (S16 * 16) * d3 + S24 * d2 + (S24 * 16) * d1
    BY SMTT(30) DEF Bytes4, l1, l2, l3, l4, S8, S16, S24
  <2> HIDE DEF v0
  <2> QED
    BY <2>1, SMTT(30) DEF Base10ToBase10p8, v1, v2
<1> HIDE DEF v0, v1
<1>10. /\ (v1 % S16) - (v1 % S8) = 256 * p2
       /\ ((v1 \div S16) % S16) - ((v1 \div S16) % S8) = 256 * p4
  <2> DEFINE a == p1 + 256 * p2
             b == p3 + 256 * p4
  <2> HIDE DEF p1, p2, p3, p4
  <2>1. /\ a \in Nat /\ a < 65536 /\ a % 256 = p1 /\ a - (a % 256) = 256 * p2
        /\ b \in Nat /\ b < 65536 /\ b % 256 = p3 /\ b - (b % 256) = 256 * p4
    BY <1>2, SMTT(30)
  <2>2. v1 = a + 65536 * b
    BY <1>2, <1>8, SMTT(30) DEF Bytes4
  <2> HIDE DEF a, b
  <2>3. v1 % 65536 = a /\ v1 % 256 = a % 256 /\ v1 \div 65536 = b /\ b % 65536 = b
    BY <2>1, <2>2, SMTT(30)
  <2> QED
    BY <2>1, <2>3, SMTT(30) DEF S8, S16
<1>11. HighBytes(v1) = 256 * p2 + S16 * (256 * p4)
  BY <1>10, SMTT(30) DEF HighBytes
<1> HIDE DEF p1, p2, p3, p4
<1>12. (HighBytes(v1) \div 64) * 39 = 156 * (p2 + 65536 * p4)
  BY <1>2, <1>11, SMTT(30) DEF S16
<1>13. v1 - (HighBytes(v1) \div 64) * 39 = q1 + 65536 * q2
  BY <1>2, <1>8, <1>12, SMTT(30) DEF Bytes4
<1>14. q1 \in Nat /\ q1 < 10000 /\ q2 \in Nat /\ q2 < 10000
  BY <1>2, SMTT(30)
<1> HIDE DEF q1, q2
<1>15. v2 = q1 + 65536 * q2
  BY <1>13, <1>14, SMTT(30) DEF Word32, S32
<1> HIDE DEF v2
<1>16. HighHalf(v2) = 65536 * q2
  BY <1>14, <1>15, SMTT(30) DEF HighHalf, S16
<1>17. (HighHalf(v2) \div 4096) * 3471 = 55536 * q2
  BY <1>14, <1>16, SMTT(30)
<1>18. Word32(v2 - (HighHalf(v2) \div 4096) * 3471) = q1 + 10000 * q2
  BY <1>14, <1>15, <1>17, SMTT(30) DEF Word32, S32
<1> QED
  BY <1>9, <1>18, SMTT(30) DEF q1, q2, p1, p2, p3, p4

=============================================================================
