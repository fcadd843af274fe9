--------------------------- MODULE RwMutexProofs ---------------------------
(* Theorems about RwMutex, for any finite set of threads and any word wide *)
(* enough to count them.                                                   *)
EXTENDS RwMutex, FiniteSetTheorems, TLAPS

\* What the local variable "expected" of lock_const and lock_mut says at the
\* places where it is compared with the word.
SeenInv ==
    \A t \in Threads :
        /\ pc[t] \in {"read cas", "read try"} => ~Claimed(seen[t])
        /\ pc[t] \in {"read wait", "claim wait"} => Claimed(seen[t])
        /\ pc[t] = "drain wait" => Readers(seen[t]) # 0

Inv == TypeOK /\ SeenInv /\ WordIsHolders /\ MutualExclusion

\* The writer's bit is a number above the count of any set of threads.
LEMMA MutBitPositive == MutBit \in Nat /\ MutBit > 0
BY ThreadsAssumption, MutBitAssumption, FS_CardinalityType

\* Masking the writer's bit out of the word, and testing it, are inverse to
\* adding it (mut_bit_mask, const_rc_mask).
LEMMA WordArithmetic ==
    /\ ~Claimed(0) /\ Readers(0) = 0 /\ 0 + MutBit = MutBit /\ 0 \in Words
    /\ \A w \in Words : ~Claimed(Readers(w)) /\ Readers(w) \in Words
BY MutBitPositive DEF Claimed, Readers, Words

\* The readers are finitely many, and fewer than the writer's bit.
LEMMA HoldersFinite ==
    /\ IsFiniteSet(ReadHolders)
    /\ Cardinality(ReadHolders) \in Nat
    /\ \A t \in Threads : t \notin ReadHolders => Cardinality(ReadHolders) + 1 < MutBit
<1>1. IsFiniteSet(ReadHolders) /\ Cardinality(ReadHolders) \in Nat
  BY ThreadsAssumption, FS_Subset, FS_CardinalityType DEF ReadHolders
<1>2. ASSUME NEW t \in Threads, t \notin ReadHolders
      PROVE  Cardinality(ReadHolders) + 1 < MutBit
  <2>1. ReadHolders \cup {t} \in SUBSET Threads
    BY DEF ReadHolders
  <2>2. Cardinality(ReadHolders \cup {t}) <= Cardinality(Threads)
    BY <2>1, ThreadsAssumption, FS_Subset
  <2>3. Cardinality(ReadHolders \cup {t}) = Cardinality(ReadHolders) + 1
    BY <1>1, <1>2, FS_AddElement
  <2>4. Cardinality(Threads) \in Nat
    BY ThreadsAssumption, FS_CardinalityType
  <2>5. QED
    BY <1>1, <2>2, <2>3, <2>4, MutBitAssumption
<1>3. QED
  BY <1>1, <1>2

--------------------------------------------------------------------------
(* The ways a step can change who holds the mutex, and the word with it.   *)

SameWriters == Claimers' = Claimers /\ WriteHolders' = WriteHolders

Quiet == word' = word /\ ReadHolders' = ReadHolders /\ SameWriters

StartRead(t) ==
    /\ t \notin ReadHolders /\ ~Claimed(word)
    /\ word' = word + 1
    /\ ReadHolders' = ReadHolders \cup {t}
    /\ SameWriters

EndRead(t) ==
    /\ t \in ReadHolders
    /\ word' = word - 1
    /\ ReadHolders' = ReadHolders \ {t}
    /\ SameWriters

MakeClaim(t) ==
    /\ t \notin Claimers /\ ~Claimed(word)
    /\ word' = word + MutBit
    /\ ReadHolders' = ReadHolders
    /\ Claimers' = Claimers \cup {t}
    /\ WriteHolders' = WriteHolders \cup (IF Readers(word) = 0 THEN {t} ELSE {})

StartWrite(t) ==
    /\ t \in Claimers /\ t \notin WriteHolders /\ Readers(word) = 0
    /\ word' = word
    /\ ReadHolders' = ReadHolders
    /\ Claimers' = Claimers
    /\ WriteHolders' = WriteHolders \cup {t}

EndWrite(t) ==
    /\ t \in WriteHolders
    /\ word' = 0
    /\ ReadHolders' = ReadHolders
    /\ Claimers' = Claimers \ {t}
    /\ WriteHolders' = WriteHolders \ {t}

Change ==
    \/ Quiet
    \/ \E t \in Threads : StartRead(t) \/ EndRead(t) \/ MakeClaim(t)
                             \/ StartWrite(t) \/ EndWrite(t)

\* Every step of the code is, for readers and claimer, one of the six changes.
LEMMA StepIsChange == TypeOK /\ SeenInv /\ [Next]_vars => Change
<1> SUFFICES ASSUME TypeOK, SeenInv, [Next]_vars PROVE Change
  OBVIOUS
<1> USE MutBitPositive
    DEF TypeOK, Pcs, Waits, Words, ReadHolders, WriteHolders, Claimers, Go, Expect
<1>1. ASSUME NEW t \in Threads,
             LockConst(t) \/ TryLockConst(t) \/ ReadLoad(t) \/ NotifyAll(t)
      PROVE  Quiet
  BY <1>1 DEF LockConst, TryLockConst, ReadLoad, NotifyAll, ReadNext, Quiet, SameWriters
<1>2. ASSUME NEW t \in Threads, Wait(t)
      PROVE  Quiet
  BY <1>2 DEF Wait, AfterWait, Quiet, SameWriters
<1>3. ASSUME NEW t \in Threads, ReadCas(t)
      PROVE  Quiet \/ StartRead(t)
  <2>1. CASE word = seen[t]
    BY <1>3, <2>1 DEF ReadCas, StartRead, SameWriters, SeenInv
  <2>2. CASE word # seen[t]
    BY <1>3, <2>2 DEF ReadCas, ReadNext, Quiet, SameWriters
  <2>3. QED
    BY <2>1, <2>2
<1>4. ASSUME NEW t \in Threads, ReadTry(t)
      PROVE  Quiet \/ StartRead(t)
  <2>1. CASE word = seen[t] /\ word' = word + 1 /\ Go(t, "reading")
    BY <1>4, <2>1 DEF ReadTry, StartRead, SameWriters, SeenInv
  <2>2. CASE word' = word /\ Go(t, "idle")
    BY <1>4, <2>2 DEF ReadTry, Quiet, SameWriters
  <2>3. QED
    BY <1>4, <2>1, <2>2 DEF ReadTry
<1>5. ASSUME NEW t \in Threads, pc[t] \in {"idle", "claim"}, FetchOrMut(t)
      PROVE  Quiet \/ MakeClaim(t)
  <2>1. CASE Claimed(word)
    BY <1>5, <2>1 DEF FetchOrMut, FetchOr, Quiet, SameWriters
  <2>2. CASE ~Claimed(word) /\ Readers(word) # 0
    BY <1>5, <2>2 DEF FetchOrMut, FetchOr, MakeClaim
  <2>3. CASE ~Claimed(word) /\ Readers(word) = 0
    BY <1>5, <2>3 DEF FetchOrMut, FetchOr, MakeClaim
  <2>4. QED
    BY <2>1, <2>2, <2>3
<1>6. ASSUME NEW t \in Threads, LockMut(t) \/ Claim(t)
      PROVE  Quiet \/ MakeClaim(t)
  BY <1>5, <1>6 DEF LockMut, Claim
<1>7. ASSUME NEW t \in Threads, TryLockMut(t)
      PROVE  MakeClaim(t)
  <2>1. ~Claimed(word) /\ Readers(word) = 0 /\ word' = word + MutBit
    BY <1>7, WordArithmetic DEF TryLockMut
  <2>2. QED
    BY <1>7, <2>1 DEF TryLockMut, MakeClaim
<1>8. ASSUME NEW t \in Threads, DrainLoad(t)
      PROVE  Quiet \/ StartWrite(t)
  <2>1. CASE Readers(word) # 0
    BY <1>8, <2>1 DEF DrainLoad, Quiet, SameWriters
  <2>2. CASE Readers(word) = 0
    BY <1>8, <2>2 DEF DrainLoad, StartWrite
  <2>3. QED
    BY <2>1, <2>2
<1>9. ASSUME NEW t \in Threads, UnlockMut(t)
      PROVE  EndWrite(t)
  BY <1>9 DEF UnlockMut, EndWrite
<1>10. ASSUME NEW t \in Threads, UnlockConst(t)
       PROVE  EndRead(t)
  <2>1. CASE Readers(word) # 1
    BY <1>10, <2>1 DEF UnlockConst, EndRead, SameWriters
  <2>2. CASE Readers(word) = 1
    BY <1>10, <2>2 DEF UnlockConst, EndRead, SameWriters
  <2>3. QED
    BY <2>1, <2>2
<1>11. CASE UNCHANGED vars
  BY <1>11 DEF vars, Change, Quiet, SameWriters
<1>12. QED
  BY <1>1, <1>2, <1>3, <1>4, <1>6, <1>7, <1>8, <1>9, <1>10, <1>11
     DEF Next, Call, Continue, Change

\* The word keeps counting the readers and its top bit the claim.
LEMMA HoldersStep == Inv /\ [Next]_vars =>
                        word' \in Words /\ WordIsHolders' /\ MutualExclusion'
<1> SUFFICES ASSUME Inv, [Next]_vars
             PROVE  word' \in Words /\ WordIsHolders' /\ MutualExclusion'
  OBVIOUS
<1> USE MutBitPositive, HoldersFinite
    DEF Words, Inv, WordIsHolders, MutualExclusion, Claimed, Readers
<1>0. word \in Words /\ WriteHolders \subseteq Claimers
  BY DEF TypeOK, WriteHolders, Claimers
<1>1. CASE Quiet
  BY <1>0, <1>1 DEF Quiet, SameWriters
<1>2. ASSUME NEW t \in Threads, StartRead(t)
      PROVE  word' \in Words /\ WordIsHolders' /\ MutualExclusion'
  <2>1. Cardinality(ReadHolders') = Cardinality(ReadHolders) + 1
    BY <1>2, FS_AddElement DEF StartRead
  <2>2. Claimers = {} /\ WriteHolders = {} /\ word + 1 < MutBit
    BY <1>0, <1>2 DEF StartRead
  <2>3. QED
    BY <1>0, <1>2, <2>1, <2>2 DEF StartRead, SameWriters
<1>3. ASSUME NEW t \in Threads, EndRead(t)
      PROVE  word' \in Words /\ WordIsHolders' /\ MutualExclusion'
  <2>1. Cardinality(ReadHolders') = Cardinality(ReadHolders) - 1
    BY <1>3, FS_RemoveElement DEF EndRead
  <2>2. Cardinality(ReadHolders) # 0
    BY <1>3, FS_EmptySet DEF EndRead
  <2>3. QED
    BY <1>0, <1>3, <2>1, <2>2 DEF EndRead, SameWriters
<1>4. ASSUME NEW t \in Threads, MakeClaim(t)
      PROVE  word' \in Words /\ WordIsHolders' /\ MutualExclusion'
  <2>1. Claimers = {} /\ WriteHolders = {}
    BY <1>0, <1>4 DEF MakeClaim
  <2>2. Readers(word) = 0 => ReadHolders = {}
    BY FS_EmptySet
  <2>3. QED
    BY <1>0, <1>4, <2>1, <2>2 DEF MakeClaim
<1>5. ASSUME NEW t \in Threads, StartWrite(t)
      PROVE  word' \in Words /\ WordIsHolders' /\ MutualExclusion'
  <2>1. ReadHolders = {} /\ Claimers = {t} /\ WriteHolders = {}
    BY <1>0, <1>5, FS_EmptySet DEF StartWrite
  <2>2. QED
    BY <1>0, <1>5, <2>1 DEF StartWrite
<1>6. ASSUME NEW t \in Threads, EndWrite(t)
      PROVE  word' \in Words /\ WordIsHolders' /\ MutualExclusion'
  <2>1. ReadHolders = {} /\ Claimers = {t} /\ WriteHolders = {t}
    BY <1>0, <1>6 DEF EndWrite
  <2>2. QED
    BY <1>0, <1>6, <2>1, FS_EmptySet DEF EndWrite
<1>7. QED
  BY <1>1, <1>2, <1>3, <1>4, <1>5, <1>6, StepIsChange DEF Change

\* Every step keeps the types and what each thread remembers of the word.
LEMMA TypeStep == Inv /\ [Next]_vars => TypeOK' /\ SeenInv'
<1> SUFFICES ASSUME Inv, [Next]_vars PROVE TypeOK' /\ SeenInv'
  OBVIOUS
<1>0. word \in Words /\ word' \in Words /\ Readers(word) \in Words
  BY HoldersStep, WordArithmetic DEF Inv, TypeOK
<1> USE <1>0 DEF Inv, TypeOK, Pcs, Waits, SeenInv, Go, Expect
<1>1. ASSUME NEW t \in Threads, LockConst(t) \/ ReadCas(t)
      PROVE  TypeOK' /\ SeenInv'
  BY <1>1, ZenonT(30) DEF LockConst, ReadCas, ReadNext
<1>2. ASSUME NEW t \in Threads, TryLockConst(t) \/ ReadLoad(t)
      PROVE  TypeOK' /\ SeenInv'
  <2>1. ~Claimed(Readers(word))
    BY WordArithmetic
  <2>2. QED
    BY <1>2, <2>1 DEF TryLockConst, ReadLoad
<1>3. ASSUME NEW t \in Threads, ReadTry(t) \/ TryLockMut(t) \/ NotifyAll(t)
      PROVE  TypeOK' /\ SeenInv'
  BY <1>3 DEF ReadTry, TryLockMut, NotifyAll
<1>4. ASSUME NEW t \in Threads, LockMut(t) \/ Claim(t)
      PROVE  TypeOK' /\ SeenInv'
  BY <1>4 DEF LockMut, Claim, FetchOrMut
<1>5. ASSUME NEW t \in Threads, DrainLoad(t)
      PROVE  TypeOK' /\ SeenInv'
  BY <1>5 DEF DrainLoad
<1>6. ASSUME NEW t \in Threads, Wait(t)
      PROVE  TypeOK' /\ SeenInv'
  <2>1. /\ AfterWait["read wait"] = "read load"
        /\ AfterWait["claim wait"] = "claim"
        /\ AfterWait["drain wait"] = "drain load"
    BY DEF AfterWait
  <2>2. CASE word = seen[t]
    BY <1>6, <2>2 DEF Wait
  <2>3. CASE word # seen[t]
    <3>1. AfterWait[pc[t]] \in {"read load", "claim", "drain load"}
      BY <1>6, <2>1 DEF Wait
    <3>2. PICK label \in {"read load", "claim", "drain load"} :
             pc' = [pc EXCEPT ![t] = label]
      BY <1>6, <2>3, <3>1 DEF Wait
    <3>3. t \notin asleep /\ UNCHANGED <<word, seen, asleep>>
      BY <1>6, <2>3 DEF Wait
    <3>4. QED
      BY <3>2, <3>3
  <2>4. QED
    BY <2>2, <2>3
<1>7. ASSUME NEW t \in Threads, UnlockMut(t) \/ UnlockConst(t)
      PROVE  TypeOK' /\ SeenInv'
  BY <1>7 DEF UnlockMut, UnlockConst
<1>8. CASE UNCHANGED vars
  BY <1>8 DEF vars
<1>9. QED
  BY <1>1, <1>2, <1>3, <1>4, <1>5, <1>6, <1>7, <1>8 DEF Next, Call, Continue

\* The invariant holds of the fresh mutex.
LEMMA InvInit == Init => Inv
<1> SUFFICES ASSUME Init PROVE Inv
  OBVIOUS
<1>1. ReadHolders = {} /\ WriteHolders = {} /\ Claimers = {}
  BY DEF Init, ReadHolders, WriteHolders, Claimers
<1>2. TypeOK /\ SeenInv
  BY WordArithmetic DEF Init, TypeOK, Pcs, SeenInv
<1>3. WordIsHolders /\ MutualExclusion
  BY <1>1, WordArithmetic, FS_EmptySet DEF Init, WordIsHolders, MutualExclusion
<1>4. QED
  BY <1>2, <1>3 DEF Inv

\* The invariant is inductive.
LEMMA InvStep == Inv /\ [Next]_vars => Inv'
BY TypeStep, HoldersStep DEF Inv

\* Every variable keeps its type: in particular the word keeps its width.
THEOREM TypeCorrect == Spec => []TypeOK
BY InvInit, InvStep, PTL DEF Spec, Inv

\* The word counts the readers, and its top bit is one thread's claim.
THEOREM WordCorrect == Spec => []WordIsHolders
BY InvInit, InvStep, PTL DEF Spec, Inv

\* A writer is alone (multiread_singlewrite_mutex_ref_t).
THEOREM Exclusion == Spec => []MutualExclusion
BY InvInit, InvStep, PTL DEF Spec, Inv

\* The mutex implements ReadersWriters: no reader comes in past a claim.
THEOREM Refinement == Spec => ImplementsReadersWriters
<1>1. Init => RW!Init
  BY DEF Init, RW!Init, ReadHolders, Claimers, WriteHolders
<1>2. Inv /\ [Next]_vars => [RW!Next]_(RW!vars)
  <2> SUFFICES ASSUME Inv, [Next]_vars PROVE [RW!Next]_(RW!vars)
    OBVIOUS
  <2> USE DEF Inv, WordIsHolders, MutualExclusion
  <2>0. WriteHolders \subseteq Claimers /\ (Readers(word) = 0 => ReadHolders = {})
    BY HoldersFinite, FS_EmptySet DEF WriteHolders, Claimers
  <2>1. CASE Quiet
    BY <2>1 DEF Quiet, SameWriters, RW!vars
  <2>2. ASSUME NEW t \in Threads, StartRead(t)
        PROVE  RW!StartRead(t)
    BY <2>2 DEF StartRead, SameWriters, RW!StartRead
  <2>3. ASSUME NEW t \in Threads, EndRead(t)
        PROVE  RW!EndRead(t)
    BY <2>3 DEF EndRead, SameWriters, RW!EndRead
  <2>4. ASSUME NEW t \in Threads, MakeClaim(t)
        PROVE  RW!Claim(t)
    <3>1. Claimers = {} /\ WriteHolders = {}
      BY <2>0, <2>4 DEF MakeClaim
    <3>2. QED
      BY <2>0, <2>4, <3>1 DEF MakeClaim, RW!Claim
  <2>5. ASSUME NEW t \in Threads, StartWrite(t)
        PROVE  RW!StartWrite
    BY <2>0, <2>5 DEF StartWrite, RW!StartWrite
  <2>6. ASSUME NEW t \in Threads, EndWrite(t)
        PROVE  RW!EndWrite
    BY <2>0, <2>6 DEF EndWrite, RW!EndWrite
  <2>7. QED
    BY <2>1, <2>2, <2>3, <2>4, <2>5, <2>6, StepIsChange DEF Change, RW!Next
<1>3. QED
  BY <1>1, <1>2, InvInit, InvStep, PTL DEF Spec, ImplementsReadersWriters, RW!Spec

--------------------------------------------------------------------------
\* Somebody is about to change the word, or to wake the sleepers.
Stirring ==
    \/ ReadHolders \cup WriteHolders # {}
    \/ \E u \in Threads : pc[u] = "notify"
    \/ \E u \in Claimers : u \notin asleep

\* A thread falls asleep only while there are readers, or a claimer who is
\* awake or asleep himself, and then somebody was stirring before.
LEMMA FallsAsleep ==
    ASSUME Inv, asleep # {} => Stirring, NEW t \in Threads, Wait(t), word = seen[t]
    PROVE  Stirring'
<1> USE DEF Inv, Wait, Stirring
<1>0. UNCHANGED <<word, pc>> /\ asleep' = asleep \cup {t} /\ t \notin asleep
  OBVIOUS
<1>1. UNCHANGED <<ReadHolders, WriteHolders, Claimers>>
  BY <1>0 DEF ReadHolders, WriteHolders, Claimers
<1>2. CASE pc[t] = "drain wait"
  <2>1. Readers(word) # 0
    BY <1>2 DEF SeenInv
  <2>2. ReadHolders # {}
    BY <2>1, FS_EmptySet DEF WordIsHolders
  <2>3. QED
    BY <1>1, <2>2
<1>3. CASE pc[t] \in {"read wait", "claim wait"}
  <2>1. Claimed(word)
    BY <1>3 DEF SeenInv
  <2>2. PICK c \in Claimers : TRUE
    BY <2>1 DEF WordIsHolders
  <2>3. Stirring
    BY <2>2
  <2>4. t \notin Claimers
    BY <1>3 DEF Claimers
  <2>5. QED
    BY <1>0, <1>1, <2>3, <2>4
<1>4. QED
  BY <1>2, <1>3 DEF Waits

\* A reader that is not the last leaves another behind.
LEMMA OtherReader ==
    ASSUME Inv, NEW t \in ReadHolders, Readers(word) # 1
    PROVE  \E u \in ReadHolders : u # t
<1>1. Cardinality(ReadHolders) # 1
  BY DEF Inv, WordIsHolders
<1>2. Cardinality(ReadHolders \ {t}) # 0
  BY <1>1, HoldersFinite, FS_RemoveElement
<1>3. ReadHolders \ {t} # {}
  BY <1>2, FS_EmptySet
<1>4. QED
  BY <1>3

\* notify_all by the last reader and the writer is enough.
THEOREM NoSleeperForgotten == Spec => []NoLostWakeup
<1> DEFINE Awaited == asleep # {} => Stirring
<1>1. Init => Awaited
  BY DEF Init
<1>2. Inv /\ Awaited /\ [Next]_vars => Awaited'
  <2> SUFFICES ASSUME Inv, Awaited, [Next]_vars PROVE Awaited'
    OBVIOUS
  <2> USE DEF Inv, TypeOK, Pcs, Waits, Stirring, ReadHolders, WriteHolders, Claimers,
              Go, Expect
  <2>1. ASSUME NEW t \in Threads,
               \/ LockConst(t) \/ TryLockConst(t) \/ ReadLoad(t)
               \/ ReadCas(t) \/ ReadTry(t)
        PROVE  Awaited'
    BY <2>1 DEF LockConst, TryLockConst, ReadLoad, ReadCas, ReadTry, ReadNext
  <2>2. ASSUME NEW t \in Threads, LockMut(t) \/ Claim(t) \/ TryLockMut(t)
        PROVE  Awaited'
    BY <2>2 DEF LockMut, Claim, TryLockMut, FetchOrMut
  <2>3. ASSUME NEW t \in Threads, DrainLoad(t)
        PROVE  Awaited'
    BY <2>3 DEF DrainLoad
  <2>4. ASSUME NEW t \in Threads, Wait(t)
        PROVE  Awaited'
    <3>1. CASE word = seen[t]
      BY <2>4, <3>1, FallsAsleep
    <3>2. CASE word # seen[t] /\ pc[t] = "drain wait"
      BY <2>4, <3>2 DEF Wait, AfterWait
    <3>3. CASE word # seen[t] /\ pc[t] # "drain wait"
      BY <2>4, <3>3 DEF Wait
    <3>4. QED
      BY <3>1, <3>2, <3>3
  <2>5. ASSUME NEW t \in Threads, UnlockMut(t) \/ NotifyAll(t)
        PROVE  Awaited'
    BY <2>5 DEF UnlockMut, NotifyAll
  <2>6. ASSUME NEW t \in Threads, UnlockConst(t)
        PROVE  Awaited'
    <3>1. CASE Readers(word) = 1
      BY <2>6, <3>1 DEF UnlockConst
    <3>2. CASE Readers(word) # 1
      <4>1. t \in ReadHolders
        BY <2>6 DEF UnlockConst
      <4>2. PICK u \in ReadHolders : u # t
        BY <3>2, <4>1, OtherReader
      <4>3. pc'[u] = "reading"
        BY <2>6, <3>2, <4>2 DEF UnlockConst
      <4>4. QED
        BY <4>2, <4>3
    <3>3. QED
      BY <3>1, <3>2
  <2>7. CASE UNCHANGED vars
    BY <2>7 DEF vars
  <2>8. QED
    BY <2>1, <2>2, <2>3, <2>4, <2>5, <2>6, <2>7 DEF Next, Call, Continue
<1>3. Awaited => NoLostWakeup
  BY DEF NoLostWakeup, Stirring
<1>4. QED
  BY <1>1, <1>2, <1>3, InvInit, InvStep, PTL DEF Spec
============================================================================
