------------------------------ MODULE RwMutex ------------------------------
(***************************************************************************)
(* multiread_singlewrite_mutex_ref_t (threads/mutex_ref.hpp): one unsigned *)
(* word holds the number of readers and, in its top bit, whether a writer  *)
(* has claimed the mutex.  Threads that cannot go on sleep on the word and *)
(* are woken by notify_all.                                                *)
(*                                                                         *)
(* A spurious failure of the weak compare-exchange in lock_const changes   *)
(* nothing: it is a stuttering step here.                                  *)
(***************************************************************************)
EXTENDS Naturals, FiniteSets

CONSTANTS
    Threads,
    MutBit      \* mut_bit_mask, the value of the top bit

ASSUME ThreadsAssumption == IsFiniteSet(Threads)
\* fewer threads than the word counts readers up to
ASSUME MutBitAssumption == MutBit \in Nat /\ Cardinality(Threads) < MutBit

VARIABLES
    word,       \* the word
    pc,         \* where each thread is in lock, try_lock or unlock
    seen,       \* the local variable "expected" of each thread
    asleep      \* the threads that sleep in wait

vars == <<word, pc, seen, asleep>>

Words   == 0 .. 2 * MutBit - 1
Waits   == {"read wait", "claim wait", "drain wait"}
Pcs     == {"idle", "read cas", "read load", "read try", "claim", "drain load",
            "reading", "writing", "notify"} \cup Waits

Claimed(w) == w >= MutBit          \* w & mut_bit_mask
Readers(w) == IF Claimed(w) THEN w - MutBit ELSE w     \* w & const_rc_mask
FetchOr(w) == IF Claimed(w) THEN w ELSE w + MutBit

\* Every variable stays within its type: the word never overflows, and only
\* threads inside atomic wait sleep.
TypeOK ==
    /\ word \in Words
    /\ pc \in [Threads -> Pcs]
    /\ seen \in [Threads -> Words]
    /\ asleep \subseteq {t \in Threads : pc[t] \in Waits}

Init ==
    /\ word = 0
    /\ pc = [t \in Threads |-> "idle"]
    /\ seen = [t \in Threads |-> 0]
    /\ asleep = {}

Go(t, label)   == pc' = [pc EXCEPT ![t] = label]
Expect(t, w)   == seen' = [seen EXCEPT ![t] = w]

--------------------------------------------------------------------------
(* lock_const *)

\* mutant: the writer's bit is not looked at
ReadNextBlind(w) == "read cas"

\* what it does after reading w
ReadNext(w) == IF Claimed(w) THEN "read wait" ELSE "read cas"

LockConst(t) ==
    /\ pc[t] = "idle"
    /\ Expect(t, word)
    /\ Go(t, ReadNext(word))
    /\ UNCHANGED <<word, asleep>>

\* mutant: the load without the mask
ReadLoadUnmasked(t) ==
    /\ pc[t] = "read load"
    /\ Expect(t, word)
    /\ Go(t, "read cas")
    /\ UNCHANGED <<word, asleep>>

\* the load after the wait, with the writer's bit masked out
ReadLoad(t) ==
    /\ pc[t] = "read load"
    /\ Expect(t, Readers(word))
    /\ Go(t, "read cas")
    /\ UNCHANGED <<word, asleep>>

ReadCas(t) ==
    /\ pc[t] = "read cas"
    /\ \/ /\ word = seen[t]
          /\ word' = word + 1
          /\ Go(t, "reading")
          /\ UNCHANGED seen
       \/ /\ word # seen[t]
          /\ Expect(t, word)
          /\ Go(t, ReadNext(word))
          /\ UNCHANGED word
    /\ UNCHANGED asleep

--------------------------------------------------------------------------
(* lock_mut *)

FetchOrMut(t) ==
    /\ word' = FetchOr(word)
    /\ Expect(t, word)
    /\ Go(t, CASE Claimed(word)                      -> "claim wait"
               [] ~Claimed(word) /\ Readers(word) # 0 -> "drain wait"
               [] OTHER                               -> "writing")
    /\ UNCHANGED asleep

LockMut(t) == pc[t] = "idle"  /\ FetchOrMut(t)
Claim(t)   == pc[t] = "claim" /\ FetchOrMut(t)

\* mutant: waits for its own bit to go as well
DrainLoadForever(t) ==
    /\ pc[t] = "drain load"
    /\ Expect(t, word)
    /\ Go(t, IF word # 0 THEN "drain wait" ELSE "writing")
    /\ UNCHANGED <<word, asleep>>

DrainLoad(t) ==
    /\ pc[t] = "drain load"
    /\ Expect(t, word)
    /\ Go(t, IF Readers(word) # 0 THEN "drain wait" ELSE "writing")
    /\ UNCHANGED <<word, asleep>>

--------------------------------------------------------------------------
(* try_lock *)

TryLockMut(t) ==
    /\ pc[t] = "idle"
    /\ word = 0
    /\ word' = MutBit
    /\ Go(t, "writing")
    /\ UNCHANGED <<seen, asleep>>

TryLockConst(t) ==
    /\ pc[t] = "idle"
    /\ Expect(t, Readers(word))
    /\ Go(t, "read try")
    /\ UNCHANGED <<word, asleep>>

\* the compare-exchange may fail for no reason
ReadTry(t) ==
    /\ pc[t] = "read try"
    /\ \/ /\ word = seen[t]
          /\ word' = word + 1
          /\ Go(t, "reading")
       \/ /\ Go(t, "idle")
          /\ UNCHANGED word
    /\ UNCHANGED <<seen, asleep>>

--------------------------------------------------------------------------
(* atomic wait(expected): sleep while the word is the expected one.        *)

AfterWait == [w \in Waits |-> CASE w = "read wait"  -> "read load"
                                [] w = "claim wait" -> "claim"
                                [] w = "drain wait" -> "drain load"]

Wait(t) ==
    /\ pc[t] \in Waits /\ t \notin asleep
    /\ IF word = seen[t]
       THEN /\ asleep' = asleep \cup {t}
            /\ UNCHANGED pc
       ELSE /\ Go(t, AfterWait[pc[t]])
            /\ UNCHANGED asleep
    /\ UNCHANGED <<word, seen>>

--------------------------------------------------------------------------
(* unlock(is_mut): the access to the word, then notify_all *)

UnlockMut(t) ==
    /\ pc[t] = "writing"
    /\ word' = 0
    /\ Go(t, "notify")
    /\ UNCHANGED <<seen, asleep>>

\* mutants: the last reader clears the word; it wakes nobody
UnlockConstClears(t) ==
    /\ pc[t] = "reading"
    /\ word' = IF Readers(word) = 1 THEN 0 ELSE word - 1
    /\ Go(t, IF Readers(word) # 1 THEN "idle" ELSE "notify")
    /\ UNCHANGED <<seen, asleep>>

UnlockConstSilent(t) ==
    /\ pc[t] = "reading"
    /\ word' = word - 1
    /\ Go(t, "idle")
    /\ UNCHANGED <<seen, asleep>>

\* only the last reader notifies
UnlockConst(t) ==
    /\ pc[t] = "reading"
    /\ word' = word - 1
    /\ Go(t, IF Readers(word) # 1 THEN "idle" ELSE "notify")
    /\ UNCHANGED <<seen, asleep>>

\* mutant: notify_one in place of notify_all
NotifyOne(t) ==
    /\ pc[t] = "notify"
    /\ \/ asleep' = {} /\ asleep = {}
       \/ \E u \in asleep : asleep' = asleep \ {u}
    /\ Go(t, "idle")
    /\ UNCHANGED <<word, seen>>

NotifyAll(t) ==
    /\ pc[t] = "notify"
    /\ asleep' = {}
    /\ Go(t, "idle")
    /\ UNCHANGED <<word, seen>>

--------------------------------------------------------------------------
Call(t) == LockConst(t) \/ LockMut(t) \/ TryLockMut(t) \/ TryLockConst(t)

Continue(t) ==
    \/ ReadLoad(t) \/ ReadCas(t) \/ ReadTry(t) \/ Claim(t) \/ DrainLoad(t)
    \/ Wait(t) \/ UnlockMut(t) \/ UnlockConst(t) \/ NotifyAll(t)

Next == \E t \in Threads : Call(t) \/ Continue(t)

Spec == Init /\ [][Next]_vars

\* A thread inside the class or inside its critical section keeps running;
\* nobody has to ask for the mutex.
FairSpec == Spec /\ \A t \in Threads : WF_vars(Continue(t))

--------------------------------------------------------------------------
ReadHolders == {t \in Threads : pc[t] = "reading"}
WriteHolders == {t \in Threads : pc[t] = "writing"}
Claimers == {t \in Threads : pc[t] \in {"drain wait", "drain load", "writing"}}

\* The word counts the readers and its top bit says that one thread has
\* claimed the mutex, whatever fetch_or, fetch_sub and compare_exchange
\* interleave (lock_mut, lock_const, unlock).
WordIsHolders ==
    /\ Claimed(word) <=> Claimers # {}
    /\ \A t, u \in Claimers : t = u
    /\ Readers(word) = Cardinality(ReadHolders)

\* A writer is alone with the data.
MutualExclusion ==
    \A t \in WriteHolders : ReadHolders = {} /\ WriteHolders = {t}

\* The class implements the abstract mutex: in particular no reader enters
\* between a writer's claim and its unlock.
RW == INSTANCE ReadersWriters WITH
          readers <- ReadHolders,
          claimer <- Claimers,
          writing <- WriteHolders # {}
ImplementsReadersWriters == RW!Spec

\* notify_all comes after the word changed and only from the last reader and
\* from a writer; still nobody sleeps on without a thread to wake him.
NoLostWakeup ==
    \A t \in asleep :
        \/ ReadHolders \cup WriteHolders # {}
        \/ \E u \in Threads : pc[u] = "notify"
        \/ \E u \in Claimers : u \notin asleep

\* A writer that claimed the mutex gets in: the readers that were there
\* leave and no new ones come.
ClaimerEnters ==
    \A t \in Threads : (t \in Claimers) ~> (pc[t] = "writing")

\* While threads wait in lock_const or lock_mut, somebody gets the mutex.
WaitersMakeProgress ==
    (\E t \in Threads : pc[t] \in Waits) ~> (ReadHolders \cup WriteHolders # {})
==========================================================================
