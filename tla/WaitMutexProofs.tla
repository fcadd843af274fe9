-------------------------- MODULE WaitMutexProofs --------------------------
(* Theorems about WaitMutex, for any set of threads and any timeouts. *)
EXTENDS WaitMutex, TLAPS

\* A thread in the spin loop has a test-and-set left: what keeps the counter
\* of the loops of try_lock from going below 0.
SpinsLeft == \A t \in Threads : pc[t] = "spin" => spins[t] > 0
TypeInv == TypeOK /\ SpinsLeft

\* Every step keeps the types.
LEMMA TypeStep == TypeInv /\ [Next]_vars => TypeInv'
<1> SUFFICES ASSUME TypeInv, [Next]_vars PROVE TypeInv'
  OBVIOUS
<1> USE TimeoutsAssumption DEF TypeInv, TypeOK, Pcs, SpinsLeft
<1>1. ASSUME NEW t \in Threads, NEW waits \in BOOLEAN, NEW n \in Timeouts,
             TryLock(t, waits, n)
      PROVE  TypeInv'
  BY <1>1 DEF TryLock, Go, Exhausted
<1>2. ASSUME NEW t \in Threads, FirstAttempt(t)
      PROVE  TypeInv'
  BY <1>2 DEF FirstAttempt, TestAndSet, Go
<1>3. ASSUME NEW t \in Threads, Spin(t)
      PROVE  TypeInv'
  BY <1>3 DEF Spin, TestAndSet, Go, Exhausted
<1>4. ASSUME NEW t \in Threads, Wait(t) \/ Retry(t) \/ Unlock(t) \/ Recheck(t)
      PROVE  TypeInv'
  BY <1>4 DEF Wait, Retry, Unlock, Recheck, TestAndSet, Go
<1>5. ASSUME NEW t \in Threads, Notify(t)
      PROVE  TypeInv'
  BY <1>5 DEF Notify, Go, Sleepers
<1>6. CASE UNCHANGED vars
  BY <1>6 DEF vars
<1>7. QED
  BY <1>1, <1>2, <1>3, <1>4, <1>5, <1>6 DEF Next, Continue

\* Every variable keeps its type (bit_mutex_t, mutex_ref_t).
THEOREM TypeCorrect == Spec => []TypeOK
<1>1. Init => TypeInv
  BY DEF Init, TypeInv, TypeOK, Pcs, SpinsLeft
<1>2. TypeInv => TypeOK
  BY DEF TypeInv
<1>3. QED
  BY <1>1, <1>2, TypeStep, PTL DEF Spec

\* test_and_set_m lets a thread in only while the word is 0, and unlock_m is
\* the only one to clear it.
LEMMA ExclusionStep ==
    TypeInv /\ MutualExclusion /\ [Next]_vars => MutualExclusion'
<1> SUFFICES ASSUME TypeInv, MutualExclusion, [Next]_vars
             PROVE  MutualExclusion'
  OBVIOUS
<1> USE DEF TypeInv, TypeOK, Pcs, MutualExclusion, Holders
<1>1. ASSUME NEW t \in Threads, NEW waits \in BOOLEAN, NEW n \in Timeouts,
             TryLock(t, waits, n)
      PROVE  MutualExclusion'
  BY <1>1 DEF TryLock, Go, Exhausted
<1>2. ASSUME NEW t \in Threads, NEW failed \in Pcs \ {"held"},
             pc[t] # "held", TestAndSet(t, failed)
      PROVE  MutualExclusion'
  BY <1>2 DEF TestAndSet, Go
<1>3. ASSUME NEW t \in Threads, FirstAttempt(t) \/ Spin(t) \/ Retry(t)
      PROVE  MutualExclusion'
  BY <1>2, <1>3 DEF FirstAttempt, Spin, Retry, Exhausted
<1>4. ASSUME NEW t \in Threads, Wait(t) \/ Recheck(t)
      PROVE  MutualExclusion'
  BY <1>4 DEF Wait, Recheck, Go
<1>5. ASSUME NEW t \in Threads, Unlock(t)
      PROVE  MutualExclusion'
  BY <1>5 DEF Unlock, Go
<1>6. ASSUME NEW t \in Threads, Notify(t)
      PROVE  MutualExclusion'
  BY <1>6 DEF Notify, Go, Sleepers
<1>7. CASE UNCHANGED vars
  BY <1>7 DEF vars
<1>8. QED
  BY <1>1, <1>3, <1>4, <1>5, <1>6, <1>7 DEF Next, Continue

\* At most one thread is past try_lock, and the word is 1 exactly then.
THEOREM Exclusion == Spec => []MutualExclusion
<1>1. Init => TypeInv /\ MutualExclusion
  BY DEF Init, TypeInv, TypeOK, Pcs, SpinsLeft, MutualExclusion, Holders
<1>2. QED
  BY <1>1, TypeStep, ExclusionStep, PTL DEF Spec

\* unlock_m frees the word before it looks again and notifies: in between
\* the unlocking thread is the one that is awake, and if it skips the
\* notification the word is taken.
THEOREM NoSleeperForgotten == Spec => []NoLostWakeup
<1>1. Init => TypeInv /\ NoLostWakeup
  BY DEF Init, TypeInv, TypeOK, Pcs, SpinsLeft, NoLostWakeup, Sleepers
<1>2. TypeInv /\ NoLostWakeup /\ [Next]_vars => NoLostWakeup'
  <2> SUFFICES ASSUME TypeInv, NoLostWakeup, [Next]_vars
               PROVE  NoLostWakeup'
    OBVIOUS
  <2> USE DEF TypeInv, TypeOK, Pcs, NoLostWakeup, Sleepers, Awake
  <2>1. ASSUME NEW t \in Threads, NEW waits \in BOOLEAN, NEW n \in Timeouts,
               TryLock(t, waits, n)
        PROVE  NoLostWakeup'
    BY <2>1 DEF TryLock, Go, Exhausted
  <2>2. ASSUME NEW t \in Threads, FirstAttempt(t) \/ Spin(t) \/ Retry(t)
        PROVE  NoLostWakeup'
    BY <2>2 DEF FirstAttempt, Spin, Retry, TestAndSet
  <2>3. ASSUME NEW t \in Threads, Wait(t)
        PROVE  NoLostWakeup'
    BY <2>3 DEF Wait, Go
  <2>4. ASSUME NEW t \in Threads, Unlock(t) \/ Recheck(t)
        PROVE  NoLostWakeup'
    BY <2>4 DEF Unlock, Recheck, Go
  <2>5. ASSUME NEW t \in Threads, Notify(t)
        PROVE  NoLostWakeup'
    BY <2>5 DEF Notify, Go
  <2>6. CASE UNCHANGED vars
    BY <2>6 DEF vars
  <2>7. QED
    BY <2>1, <2>2, <2>3, <2>4, <2>5, <2>6 DEF Next, Continue
<1>3. QED
  BY <1>1, <1>2, TypeStep, PTL DEF Spec

\* Both classes implement the abstract mutex: a step of theirs is a Lock, an
\* Unlock or no step of it.
THEOREM Refinement == Spec => ImplementsMutex
<1>1. Init => M!Init
  BY DEF Init, M!Init, Holders
<1>2. TypeInv /\ MutualExclusion /\ [Next]_vars => [M!Next]_Holders
  <2> SUFFICES ASSUME TypeInv, MutualExclusion, [Next]_vars
               PROVE  [M!Next]_Holders
    OBVIOUS
  <2> USE DEF TypeInv, TypeOK, Pcs, MutualExclusion, Holders
  <2>1. ASSUME NEW t \in Threads, NEW waits \in BOOLEAN, NEW n \in Timeouts,
               TryLock(t, waits, n)
        PROVE  UNCHANGED Holders
    BY <2>1 DEF TryLock, Go, Exhausted
  <2>2. ASSUME NEW t \in Threads, NEW failed \in Pcs \ {"held"},
               pc[t] # "held", TestAndSet(t, failed)
        PROVE  M!Lock(t) \/ UNCHANGED Holders
    <3>1. CASE word = 0
      BY <2>2, <3>1 DEF TestAndSet, Go, M!Lock
    <3>2. CASE word # 0
      BY <2>2, <3>2 DEF TestAndSet, Go
    <3>3. QED
      BY <3>1, <3>2
  <2>3. ASSUME NEW t \in Threads, FirstAttempt(t) \/ Spin(t) \/ Retry(t)
        PROVE  M!Lock(t) \/ UNCHANGED Holders
    BY <2>2, <2>3 DEF FirstAttempt, Spin, Retry, Exhausted
  <2>4. ASSUME NEW t \in Threads, Wait(t) \/ Recheck(t)
        PROVE  UNCHANGED Holders
    BY <2>4 DEF Wait, Recheck, Go
  <2>5. ASSUME NEW t \in Threads, Unlock(t)
        PROVE  M!Unlock(t)
    BY <2>5 DEF Unlock, Go, M!Unlock
  <2>6. ASSUME NEW t \in Threads, Notify(t)
        PROVE  UNCHANGED Holders
    BY <2>6 DEF Notify, Go, Sleepers
  <2>7. CASE UNCHANGED vars
    BY <2>7 DEF vars
  <2>8. QED
    BY <2>1, <2>3, <2>4, <2>5, <2>6, <2>7 DEF Next, Continue, M!Next
<1>3. Init => TypeInv /\ MutualExclusion
  BY DEF Init, TypeInv, TypeOK, Pcs, SpinsLeft, MutualExclusion, Holders
<1>4. QED
  BY <1>1, <1>2, <1>3, TypeStep, ExclusionStep, PTL
     DEF Spec, ImplementsMutex, M!Spec
============================================================================
