------------------------------- MODULE Tasks --------------------------------
(***************************************************************************)
(* What a scheduler of dependent tasks promises, without lists, counts or  *)
(* blocks: a task is queued when its last dependency finishes and never    *)
(* before, everything queued starts together, and a task whose             *)
(* dependencies are unfinished goes back to waiting when it yields.        *)
(***************************************************************************)
EXTENDS Naturals

CONSTANT Task

VARIABLES
  status,  \* "none", "idle", "queued" or "running"
  waits    \* waits[<<d, n>>]: how many times n was made to wait for d

Free(n, w) == \A d \in Task : w[<<d, n>>] = 0
Some(S, n, new, old) == IF n \in S THEN new ELSE old

Init ==
  /\ status = [n \in Task |-> "none"]
  /\ waits = [a \in Task \X Task |-> 0]

Create(S) ==
  /\ \A n \in S : status[n] = "none"
  /\ status' = [n \in Task |-> Some(S, n, "idle", status[n])]
  /\ UNCHANGED waits

Order ==
  /\ \A d, n \in Task :
       /\ waits'[<<d, n>>] >= waits[<<d, n>>]
       /\ waits'[<<d, n>>] # waits[<<d, n>>] => d # n /\ status[d] # "none" /\ status[n] # "none"
  /\ UNCHANGED status

Queue(S) ==
  /\ \A n \in S : status[n] = "idle" /\ Free(n, waits)
  /\ status' = [n \in Task |-> Some(S, n, "queued", status[n])]
  /\ UNCHANGED waits

Start ==
  /\ status' = [n \in Task |-> IF status[n] = "queued" THEN "running" ELSE status[n]]
  /\ UNCHANGED waits

Yield(n) ==
  /\ status[n] = "running"
  /\ status' = [status EXCEPT ![n] = IF Free(n, waits) THEN "queued" ELSE "idle"]
  /\ UNCHANGED waits

\* Exactly the idle tasks that waited for n, and now for nobody, are queued
Finish(n) ==
  LET left   == [a \in Task \X Task |-> IF a[1] = n THEN 0 ELSE waits[a]]
      freed  == {m \in Task : waits[<<n, m>>] > 0 /\ Free(m, left) /\ status[m] = "idle"}
  IN  /\ status[n] = "running" /\ Free(n, waits)
      /\ waits' = left
      /\ status' = [m \in Task |-> IF m = n THEN "none" ELSE Some(freed, m, "queued", status[m])]

Reset ==
  /\ status' = [n \in Task |-> "none"]
  /\ waits' = [a \in Task \X Task |-> 0]

Next ==
  \/ \E S \in SUBSET Task : Create(S) \/ Queue(S)
  \/ Order \/ Start \/ Reset
  \/ \E n \in Task : Yield(n) \/ Finish(n)

Spec == Init /\ [][Next]_<<status, waits>>
=============================================================================
