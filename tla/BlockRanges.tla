---------------------------- MODULE BlockRanges -----------------------------
(***************************************************************************)
(* The bitmap of an allocator (block_states.hpp): n blocks, of which "free" *)
(* are free.  A range of blocks is where it begins and how long it is.      *)
(***************************************************************************)
EXTENDS Integers, Sequences, SequencesExt, FiniteSetsExt

NoRange == [begin |-> 0, len |-> 0]
Blocks(range) == range.begin .. range.begin + range.len - 1
CeilDiv(a, b) == (a + b - 1) \div b

\* The free blocks in a row from each one on
Runs(n, free) ==
  LET run[i \in 0 .. n] == IF i \in free /\ i < n THEN 1 + run[i + 1] ELSE 0
  IN  run

\* mutant: after a run that is too short the search goes on unaligned
RunsFoundUnaligned(n, free, aligned, min) ==
  LET run == Runs(n, free)
      found[i \in 0 .. n] ==
        IF i = n THEN NoRange
        ELSE IF run[i] >= min THEN [begin |-> i, len |-> run[i]]
        ELSE found[Min({i + run[i] + 1, n})]
  IN  found

\* get_first_avalible_block_range: from each block on, the first run of enough
\* free blocks that begins at an aligned one.  A run that is too short is left
\* behind with the block that ended it.
RunsFound(n, free, aligned, min) ==
  LET run == Runs(n, free)
      found[i \in 0 .. n] ==
        LET begin == Min({j \in aligned : j >= i} \cup {n})
        IN  IF begin = n THEN NoRange
            ELSE IF run[begin] >= min THEN [begin |-> begin, len |-> run[begin]]
            ELSE found[Min({begin + run[begin] + 1, n})]
  IN  found

\* get_best_avalible_block_range: the shortest run, the first one of its length
ShortestRun(n, found) ==
  LET least[r \in Range(found)] ==
        LET next == found[r.begin + r.len]
        IN  IF next.len = 0 THEN r
            ELSE LET later == least[next] IN IF later.len < r.len THEN later ELSE r
  IN  IF found[0].len = 0 THEN NoRange ELSE least[found[0]]

\* alloc_block_range, of exactly min blocks
RangeFor(n, free, aligned, min, best) ==
  LET found == RunsFound(n, free, aligned, min)
      range == IF best THEN ShortestRun(n, found) ELSE found[0]
  IN  [range EXCEPT !.len = Min({range.len, min})]

-----------------------------------------------------------------------------
(* calculate_block_count_for_each_container: how many blocks of 2^i bytes,   *)
(* each with its bit, for every i below N, go into so many bytes.            *)

BitBytes(count) == CeilDiv(count, 8)
BaseCount(N, bytes) == (8 * bytes) \div (N + 8 * (2^N - 1))

\* What is left when every container has the base count.  The code takes it for
\* unsigned, and when it is negative the program goes astray.
Remainder(N, bytes) ==
  LET base == BaseCount(N, bytes)
  IN  bytes - (2^N - 1) * base - BitBytes(base) * N

\* do_with_bad_base_vals: the largest blocks first, as many as fit
GrownCounts(N, base, left) ==
  LET cost(i, more) == more * 2^i + BitBytes(base + more) - BitBytes(base)
      fit(i, room)  == Max({more \in 0 .. room : cost(i, more) <= room})
      room[i \in 0 .. N - 1] ==
        IF i = N - 1 THEN left ELSE room[i + 1] - cost(i + 1, fit(i + 1, room[i + 1]))
  IN  [i \in 0 .. N - 1 |-> base + fit(i, room[i])]

BlockCounts(N, bytes) ==
  LET base == BaseCount(N, bytes)
      left == Remainder(N, bytes)
      odd(i) == (left \div 2^i) % 2
  IN  IF base % 8 = 0 \/ left >= 2^N THEN GrownCounts(N, base, IF base % 8 = 0 THEN left ELSE left - (left % 2^N))
      ELSE [i \in 0 .. N - 1 |-> base + odd(i)]

\* get_best_index_es: the containers by score_of_allocation, sorted as the code does
Score(size, block) ==
  2 * Max({0, size - 4 * block}) + size \div block + 8 * ((0 - size) % block)
BestContainers(N, size) ==
  LET score(c)  == Score(size, 2^c)
      swapped(s, i, j) == IF j < i /\ score(s[i]) < score(s[j])
                          THEN [s EXCEPT ![i] = s[j], ![j] = s[i]] ELSE s
      sorted[k \in 0 .. N * N] ==
        IF k = 0 THEN [i \in 1 .. N |-> i - 1]
        ELSE swapped(sorted[k - 1], (k - 1) \div N + 1, ((k - 1) % N) + 1)
  IN  sorted[N * N]

\* The sum of f over the containers above each one
SumsAbove(N, f) ==
  LET sum[i \in 0 .. N - 1] == IF i = N - 1 THEN 0 ELSE sum[i + 1] + f[i + 1]
  IN  sum
=============================================================================
