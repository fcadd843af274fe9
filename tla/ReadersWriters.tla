-------------------------- MODULE ReadersWriters --------------------------
(***************************************************************************)
(* What the multi-reader, single-writer mutex of threads/mutex_ref.hpp     *)
(* promises.  A writer first claims the mutex, which keeps new readers     *)
(* out, and writes once the old readers have left.                         *)
(***************************************************************************)
CONSTANT Threads

VARIABLES
    readers,    \* the threads that hold it for reading
    claimer,    \* the thread that claimed it for writing, if any
    writing     \* has the claimer entered?

vars == <<readers, claimer, writing>>

Init == readers = {} /\ claimer = {} /\ writing = FALSE

StartRead(t) ==
    /\ claimer = {}
    /\ readers' = readers \cup {t}
    /\ UNCHANGED <<claimer, writing>>

EndRead(t) ==
    /\ t \in readers
    /\ readers' = readers \ {t}
    /\ UNCHANGED <<claimer, writing>>

\* with nobody reading, the claimer may enter at once
Claim(t) ==
    /\ claimer = {}
    /\ claimer' = {t}
    /\ writing' \in {FALSE, readers = {}}
    /\ UNCHANGED readers

StartWrite ==
    /\ claimer # {} /\ readers = {}
    /\ writing' = TRUE
    /\ UNCHANGED <<readers, claimer>>

EndWrite ==
    /\ writing
    /\ writing' = FALSE
    /\ claimer' = {}
    /\ UNCHANGED readers

Next ==
    \/ \E t \in Threads : StartRead(t) \/ EndRead(t) \/ Claim(t)
    \/ StartWrite
    \/ EndWrite

Spec == Init /\ [][Next]_vars
==========================================================================
