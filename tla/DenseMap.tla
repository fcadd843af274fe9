------------------------------ MODULE DenseMap ------------------------------
(***************************************************************************)
(* What unordered_vector.hpp promises: a map whose entries stand densely   *)
(* in one sequence.  A new key goes to the end; an erased entry is         *)
(* replaced by the last one.                                               *)
(***************************************************************************)
EXTENDS Integers, Sequences, SequencesExt

CONSTANTS Key, Value

VARIABLE entries  \* a sequence of <<key, value>>

Holds(k) == \E i \in DOMAIN entries : entries[i][1] = k

Init == entries = <<>>

Insert(k, v) ==
  /\ ~Holds(k)
  /\ entries' = Append(entries, <<k, v>>)

Erase(k) ==
  \E i \in DOMAIN entries :
    /\ entries[i][1] = k
    /\ entries' = Front([entries EXCEPT ![i] = Last(entries)])

Next == \E k \in Key : Erase(k) \/ \E v \in Value : Insert(k, v)

Spec == Init /\ [][Next]_entries
=============================================================================
