---------------------------- MODULE MCCowString ----------------------------
(* Instances of CowString for TLC. *)
EXTENDS CowString, TLC

\* Strings, threads and blocks are interchangeable.
Symmetry == Permutations(Strings) \cup Permutations(Threads) \cup Permutations(Blocks)
============================================================================
