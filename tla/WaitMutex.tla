---------------------------- MODULE WaitMutex ----------------------------
(***************************************************************************)
(* The two spinning, then waiting, mutexes: bit_mutex_t                    *)
(* (threads/bit_mutex.hpp, kind = "bit") and mutex_ref_t                   *)
(* (threads/mutex_ref.hpp, kind = "ref").  Both keep one word that is 1    *)
(* while the mutex is held.  A call tests-and-sets the word a bounded      *)
(* number of times and then, if it may, sleeps on the word with            *)
(* std::atomic::wait.  unlock() clears the word, looks at it again, and    *)
(* only notifies a sleeper if nobody has taken the mutex in between.       *)
(***************************************************************************)
EXTENDS Naturals

CONSTANTS
    Threads,
    Timeouts     \* the values of timeout_count the program passes

ASSUME TimeoutsAssumption == Timeouts \subseteq Nat

VARIABLES
    kind,       \* which of the two classes the mutex is of
    word,       \* the atomic flag: 1 while the mutex is held
    pc,         \* where each thread is in try_lock or unlock
    spins,      \* test-and-sets a thread has left before it waits or fails
    mayWait     \* its need_to_wait argument

vars == <<kind, word, pc, spins, mayWait>>

Pcs == {"idle", "first", "spin", "retry", "wait", "asleep", "held",
        "recheck", "notify"}

\* Every variable stays within its type; in particular the attempts left in
\* the loop of try_lock_ncx never go below zero.
TypeOK ==
    /\ kind \in {"bit", "ref"}
    /\ word \in {0, 1}
    /\ pc \in [Threads -> Pcs]
    /\ spins \in [Threads -> Nat]
    /\ mayWait \in [Threads -> BOOLEAN]

Init ==
    /\ kind \in {"bit", "ref"}
    /\ word = 0
    /\ pc = [t \in Threads |-> "idle"]
    /\ spins = [t \in Threads |-> 0]
    /\ mayWait = [t \in Threads |-> FALSE]

Go(t, label) == pc' = [pc EXCEPT ![t] = label]

\* mutant: a load in place of the exchange
TestOnly(t, failed) ==
    /\ word' = word
    /\ Go(t, IF word = 0 THEN "held" ELSE failed)

\* test_and_set_m: taken if it was free, otherwise on to "failed"
TestAndSet(t, failed) ==
    /\ word' = 1
    /\ Go(t, IF word = 0 THEN "held" ELSE failed)

\* mutant: out of attempts is taken for success
ExhaustedHolds(waits) == IF ~waits THEN "idle" ELSE "held"

\* Where a thread goes that has no test-and-set left.
Exhausted(waits) ==
    IF ~waits THEN "idle" ELSE IF kind = "bit" THEN "wait" ELSE "retry"

--------------------------------------------------------------------------
(* try_lock(need_to_wait, timeout_count); lock() is the call with waiting. *)
(* The two classes count the attempts differently: bit_mutex_t makes one   *)
(* before it looks at timeout_count, and fails when that is 0, even if it  *)
(* was told to wait.                                                       *)

TryLock(t, waits, n) ==
    /\ pc[t] = "idle"
    /\ spins' = [spins EXCEPT ![t] = n]
    /\ mayWait' = [mayWait EXCEPT ![t] = waits]
    /\ Go(t, IF kind = "bit" THEN "first"
             ELSE IF n = 0 THEN Exhausted(waits) ELSE "spin")
    /\ UNCHANGED <<kind, word>>

FirstAttempt(t) ==
    /\ pc[t] = "first"
    /\ TestAndSet(t, IF spins[t] = 0 THEN "idle" ELSE "spin")
    /\ UNCHANGED <<kind, spins, mayWait>>

Spin(t) ==
    /\ pc[t] = "spin"
    /\ spins' = [spins EXCEPT ![t] = @ - 1]
    /\ TestAndSet(t, IF spins[t] > 1 THEN "spin" ELSE Exhausted(mayWait[t]))
    /\ UNCHANGED <<kind, mayWait>>

\* std::atomic::wait(1): sleep only if the word still is 1
Wait(t) ==
    /\ pc[t] = "wait"
    /\ Go(t, IF word = 1 THEN "asleep" ELSE "retry")
    /\ UNCHANGED <<kind, word, spins, mayWait>>

Retry(t) ==
    /\ pc[t] = "retry"
    /\ TestAndSet(t, "wait")
    /\ UNCHANGED <<kind, spins, mayWait>>

--------------------------------------------------------------------------
(* unlock_m: three separate accesses. *)

Unlock(t) ==
    /\ pc[t] = "held"
    /\ word' = 0
    /\ Go(t, "recheck")
    /\ UNCHANGED <<kind, spins, mayWait>>

\* mutant: the second look taken the wrong way round
RecheckInverted(t) ==
    /\ pc[t] = "recheck"
    /\ Go(t, IF word = 1 THEN "notify" ELSE "idle")
    /\ UNCHANGED <<kind, word, spins, mayWait>>

Recheck(t) ==
    /\ pc[t] = "recheck"
    /\ Go(t, IF word = 0 THEN "notify" ELSE "idle")
    /\ UNCHANGED <<kind, word, spins, mayWait>>

\* notify_one: the woken thread looks at the word again inside wait
Sleepers == {u \in Threads : pc[u] = "asleep"}

\* mutant: no notify_one
NotifyNobody(t) ==
    /\ pc[t] = "notify"
    /\ Go(t, "idle")
    /\ UNCHANGED <<kind, word, spins, mayWait>>

Notify(t) ==
    /\ pc[t] = "notify"
    /\ \/ /\ Sleepers = {}
          /\ Go(t, "idle")
       \/ \E u \in Sleepers :
              pc' = [pc EXCEPT ![t] = "idle", ![u] = "wait"]
    /\ UNCHANGED <<kind, word, spins, mayWait>>

--------------------------------------------------------------------------
Continue(t) ==
    \/ FirstAttempt(t) \/ Spin(t) \/ Wait(t) \/ Retry(t)
    \/ Unlock(t) \/ Recheck(t) \/ Notify(t)

Next ==
    \E t \in Threads :
        \/ Continue(t)
        \/ \E waits \in BOOLEAN, n \in Timeouts : TryLock(t, waits, n)

Spec == Init /\ [][Next]_vars

\* A thread that is running inside the class, or inside the critical section,
\* keeps running; nobody has to call lock.
FairSpec == Spec /\ \A t \in Threads : WF_vars(Continue(t))

--------------------------------------------------------------------------
Holders == {t \in Threads : pc[t] = "held"}

\* Two threads are never past try_lock at once, and the word says whether
\* one is (test_and_set_m, unlock_m).
MutualExclusion ==
    /\ \A t, u \in Holders : t = u
    /\ (word = 1) <=> (Holders # {})

\* Threads that will look at the word again without being woken.
Awake == {t \in Threads : pc[t] \in {"retry", "wait", "recheck", "notify"}}

\* unlock_m may skip the notification when it finds the mutex taken again,
\* and it wakes only one thread; even so a thread is never left asleep on a
\* free mutex with nobody awake to take the mutex or to wake it.
NoLostWakeup == Sleepers # {} /\ word = 0 => Awake # {}

\* The class implements the abstract mutex.
M == INSTANCE Mutex WITH holders <- Holders
ImplementsMutex == M!Spec

\* While some thread sleeps, the mutex keeps being given to somebody: the
\* thread, or one that came before it.
Waiting(t) == pc[t] \in {"wait", "asleep", "retry"}
WaitersMakeProgress ==
    (\E t \in Threads : Waiting(t)) ~> (Holders # {})
==========================================================================
