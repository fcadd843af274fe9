----------------------------- MODULE HashDigits -----------------------------
(***************************************************************************)
(* The hashes of the interning vectors (unordered_vector.hpp): a hash is a *)
(* sequence of digits of LevelBits bits, the lowest first.                 *)
(***************************************************************************)
EXTENDS Integers, Sequences, SequencesExt, FiniteSetsExt

CONSTANT LevelBits  \* level_bit_count_v

ASSUME LevelAssumption == LevelBits \in Nat \ {0}

Digits == 0 .. 2^LevelBits - 1

\* hasher_t::current; past the last digit the shift leaves nothing
Digit(k, depth) == IF depth < Len(k) THEN k[depth + 1] ELSE 0

\* The first depth from "from" on, or after it, in which two hashes differ:
\* where the loop over both hashers ends
Parting(j, k, from) ==
  Min({d \in from .. Len(k) : Digit(j, d) # Digit(k, d)})

SizeWidth(n) == Min({c \in 0 .. LevelBits + 1 : n < 2^c})
SizeCeil(n) == Min({2^c : c \in {b \in 0 .. LevelBits : n <= 2^b}})

\* countr of the population below a digit: the rank of a child
Rank(population, d) == Cardinality({e \in population : e < d})
=============================================================================
