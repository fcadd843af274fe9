------------------------------ MODULE Mutex ------------------------------
(***************************************************************************)
(* What a mutex of threads/ promises: at most one thread holds it.         *)
(***************************************************************************)
CONSTANT Threads

VARIABLE holders    \* the threads between a successful lock and the unlock

Init == holders = {}

Lock(t)   == holders = {} /\ holders' = {t}
Unlock(t) == t \in holders /\ holders' = holders \ {t}

Next == \E t \in Threads : Lock(t) \/ Unlock(t)

Spec == Init /\ [][Next]_holders
==========================================================================
