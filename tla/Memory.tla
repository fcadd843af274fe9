------------------------------- MODULE Memory -------------------------------
(***************************************************************************)
(* What the allocators promise together: a block is made of bytes that were *)
(* free, large and aligned enough, and gives them back when it is released, *)
(* unless it lies in memory that is only released as a whole.               *)
(***************************************************************************)
EXTENDS Integers

VARIABLES
  free,      \* bytes nobody uses
  reserved,  \* bytes the allocators keep for themselves
  blocks     \* the blocks of the client

BytesOf(b) == b.at .. b.at + b.len - 1

MInit == blocks = {} /\ free \cap reserved = {}

Allocate ==
  /\ free' \subseteq free
  /\ blocks \subseteq blocks'
  /\ \E b \in blocks' \ blocks :
       /\ blocks' = blocks \cup {b}
       /\ b.took = free \ free'
       /\ BytesOf(b) \subseteq b.took
       /\ b.len >= b.size
       /\ b.at % 2^b.align = 0
  /\ UNCHANGED reserved

Release(b) ==
  /\ blocks' = blocks \ {b}
  /\ free' = IF b.lasting THEN free ELSE free \cup b.took
  /\ UNCHANGED reserved

MNext == Allocate \/ \E b \in blocks : Release(b)
MSpec == MInit /\ [][MNext]_<<free, reserved, blocks>>
=============================================================================
