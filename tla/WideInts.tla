------------------------------- MODULE WideInts -------------------------------
(***************************************************************************)
(* uintN_t and uint_dyn_t: numbers of many words and the arithmetic word   *)
(* by word.  A number is a sequence of words, the lowest first; a word has *)
(* WordBits bits instead of 64.  Operations of the program that write to   *)
(* their left operand return it here.                                      *)
(***************************************************************************)
EXTENDS Integers, Sequences, SequencesExt, FiniteSetsExt

CONSTANTS
  WordBits,     \* of one word, an even number
  Schoolbook,   \* words up to which products are summed column by column
  Frame         \* words of a stack frame of operator_muladd

ASSUME WidthsAssumption ==
  /\ WordBits \in {2, 4} /\ Schoolbook \in Nat \ {0} /\ Frame \in Nat \ {0}

Range64 == 2 ^ WordBits      \* one more than the largest word
Full == Range64 - 1          \* uint64_t(-1)

Zeros(n) == [i \in 1 .. n |-> 0]
NthWord(x, i) == IF i \in 0 .. Len(x) - 1 THEN x[i + 1] ELSE 0
NthBit(x, i) == (NthWord(x, i \div WordBits) \div 2 ^ (i % WordBits)) % 2
SetNthBit(x, i) ==
  IF NthBit(x, i) = 1 THEN x
  ELSE [x EXCEPT ![1 + i \div WordBits] = @ + 2 ^ (i % WordBits)]
CopyFrom(x, n) == [i \in 1 .. n |-> NthWord(x, i - 1)]
Flip(x) == [i \in DOMAIN x |-> Full - x[i]]
NBit(x) == WordBits * Len(x)

LowWords(x, n) == SubSeq(x, 1, n)
WordSr(x, n) == SubSeq(x, n + 1, Len(x))
WordSl(x, n) == SubSeq(x, 1, Len(x) - n)
\* writing through the span that word_sr gives
WithWordSr(x, n, y) == LowWords(x, n) \o y

---------------------------------------------------------------------------
(* add, negate, minus: the carry is an overflow noticed after the fact     *)

AddWord(s, rhs, lhs) ==
  LET r1 == (rhs + s.carry) % Range64
      r2 == (r1 + lhs) % Range64
  IN  [words |-> Append(s.words, r2), carry |-> IF r1 < rhs \/ r2 < r1 THEN 1 ELSE 0]


\* a shorter amount goes on as zeros, a longer one is cut
Add(x, amount, carry) ==
  FoldLeftDomain(LAMBDA s, i : AddWord(s, x[i], NthWord(amount, i - 1)),
                 [words |-> <<>>, carry |-> carry], x)
Plus(x, amount) == Add(x, amount, 0).words

Negate(x) ==
  FoldLeft(LAMBDA s, w : [words |-> Append(s.words, (Full - w + s.carry) % Range64),
                          carry |-> IF s.carry = 1 /\ Full - w = Full THEN 1 ELSE 0],
           [words |-> <<>>, carry |-> 1], x).words
Minus(x, amount) == Plus(x, Negate(CopyFrom(amount, Len(x))))

---------------------------------------------------------------------------
(* Bits from either end, and comparisons                                   *)

\* std::countr_one and std::countr_zero of one word from a bit on
WordCountr(w, bit, from) ==
  Max({n \in 0 .. WordBits - from :
         \A k \in 0 .. n - 1 : (w \div 2 ^ (from + k)) % 2 = bit})
WordCountl(w, bit, from) ==
  Max({n \in 0 .. WordBits - from :
         \A k \in 0 .. n - 1 : (w \div 2 ^ (WordBits - 1 - from - k)) % 2 = bit})

CountGoing(s, n) ==
  IF s.going THEN [count |-> s.count + n, going |-> n = WordBits] ELSE s
Countr(x, bit) ==
  FoldLeft(LAMBDA s, w : CountGoing(s, WordCountr(w, bit, 0)),
           [count |-> 0, going |-> TRUE], x).count
Countl(x, bit) ==
  FoldRight(LAMBDA w, s : CountGoing(s, WordCountl(w, bit, 0)), x,
            [count |-> 0, going |-> TRUE]).count

BitWidth(x) == NBit(x) - Countl(x, 0)
Popcount(x) ==
  FoldLeft(LAMBDA n, w : n + Cardinality({k \in 0 .. WordBits - 1 : (w \div 2 ^ k) % 2 = 1}), 0, x)

\* uint_dyn_t's counts from a bit on, within the first word and then word by word
CountrFrom(x, bit, offset) ==
  LET rest == WordSr(x, Min({Len(x), offset \div WordBits}))
      from == offset % WordBits
      n    == WordCountr(rest[1], bit, from)
  IN  IF rest = <<>> THEN 0
      ELSE IF n + from # WordBits THEN n ELSE n + Countr(Tail(rest), bit)
CountlFrom(x, bit, offset) ==
  LET rest == WordSl(x, Min({Len(x), offset \div WordBits}))
      from == offset % WordBits
      n    == WordCountl(Last(rest), bit, from)
  IN  IF rest = <<>> THEN 0
      ELSE IF n + from # WordBits THEN n ELSE n + Countl(Front(rest), bit)

ShrinkToWidth(x, bw) ==
  LowWords(x, (Min({NBit(x), bw}) + WordBits - 1) \div WordBits)
Shrunk(x) == ShrinkToWidth(x, BitWidth(x))

\* uintN_t: -1, 0 or 1 by the highest word that differs
Compare(x, y) ==
  LET differ == {i \in DOMAIN x : x[i] # y[i]}
  IN  IF differ = {} THEN 0 ELSE IF x[Max(differ)] < y[Max(differ)] THEN -1 ELSE 1
CompareDyn(x, y) ==
  IF BitWidth(x) # BitWidth(y) THEN IF BitWidth(x) < BitWidth(y) THEN -1 ELSE 1
  ELSE Compare(Shrunk(x), Shrunk(y))

NoLog == -1
TopWord(x) == Max({0} \cup {i \in DOMAIN x : x[i] # 0})
LogOfWord(w) == CHOOSE k \in 0 .. WordBits - 1 : 2 ^ k <= w /\ w < 2 ^ (k + 1)
FloorLog2(x) ==
  IF TopWord(x) = 0 THEN NoLog ELSE LogOfWord(x[TopWord(x)]) + WordBits * (TopWord(x) - 1)
CeilLog2(x) ==
  LET i == TopWord(x)
      above == 2 ^ LogOfWord(x[i]) # x[i] \/ \E k \in 1 .. i - 1 : x[k] # 0
  IN  IF i = 0 THEN NoLog ELSE FloorLog2(x) + (IF above THEN 1 ELSE 0)

---------------------------------------------------------------------------
(* Shifts and rotations                                                    *)

\* uintN_t: one copy shifted within the words, one with what leaves them
OperatorSl(x, amount) ==
  LET kept     == IF amount < NBit(x) THEN x ELSE Zeros(Len(x))
      internal == (IF amount < NBit(x) THEN amount ELSE 0) % WordBits
      external == (IF amount < NBit(x) THEN amount ELSE 0) \div WordBits
      lower(i) == (NthWord(kept, i) * 2 ^ internal) % Range64
      upper(i) == IF internal = 0 THEN 0 ELSE NthWord(kept, i) \div 2 ^ (WordBits - internal)
  IN  [k \in 1 .. Len(x) |->
         LET i == k - 1 - external IN IF i < 0 THEN 0 ELSE lower(i) + upper(i - 1)]
OperatorSr(x, amount) ==
  LET kept     == IF amount < NBit(x) THEN x ELSE Zeros(Len(x))
      internal == (IF amount < NBit(x) THEN amount ELSE 0) % WordBits
      external == (IF amount < NBit(x) THEN amount ELSE 0) \div WordBits
      upper(i) == NthWord(kept, i) \div 2 ^ internal
      lower(i) == IF internal = 0 THEN 0
                  ELSE (NthWord(kept, i) * 2 ^ (WordBits - internal)) % Range64
  IN  [k \in 1 .. Len(x) |-> LET i == k - 1 + external IN upper(i) + lower(i + 1)]

\* uint_dyn_t: whole words are moved first, then the bits that leave a word are
\* handed to the next
DynSl(x, amount) ==
  LET moved == Zeros(amount \div WordBits) \o WordSl(x, amount \div WordBits)
      bits  == amount % WordBits
      Step(s, w) == [words |-> Append(s.words, ((w * 2 ^ bits) % Range64) + s.temp),
                     temp |-> w \div 2 ^ (WordBits - bits)]
  IN  IF NBit(x) <= amount THEN Zeros(Len(x))
      ELSE IF bits = 0 THEN moved
      ELSE FoldLeft(Step, [words |-> <<>>, temp |-> 0], moved).words
DynSr(x, amount) ==
  LET moved == WordSr(x, amount \div WordBits) \o Zeros(amount \div WordBits)
      bits  == amount % WordBits
      Step(w, s) == [words |-> <<w \div 2 ^ bits + s.temp>> \o s.words,
                     temp |-> (w * 2 ^ (WordBits - bits)) % Range64]
  IN  IF NBit(x) <= amount THEN Zeros(Len(x))
      ELSE IF bits = 0 THEN moved
      ELSE FoldRight(Step, moved, [words |-> <<>>, temp |-> 0]).words

\* the bits of the two numbers never meet
Or(x, y) == [i \in DOMAIN x |-> x[i] + y[i]]
\* r %= n_bits converts r to uintlen_t first (16 bits of it here), so a negative r
\* comes out right only if the range of uintlen_t is a multiple of n_bits
LengthRange == 2 ^ 16
Rotr(x, r) ==
  LET by == (r % LengthRange) % NBit(x)
  IN  IF by = 0 THEN x ELSE Or(OperatorSr(x, by), OperatorSl(x, NBit(x) - by))

\* uintN_t's counts from a bit on: the bits before it are shifted out
ShiftedCountl(x, bit, offset) == Countl(OperatorSl(IF bit = 1 THEN x ELSE Flip(x), offset), 1)
ShiftedCountr(x, bit, offset) == Countr(OperatorSr(IF bit = 1 THEN x ELSE Flip(x), offset), 1)

One(n) == [Zeros(n) EXCEPT ![1] = 1]
BitCeil(x) ==
  IF Compare(x, One(Len(x))) <= 0 THEN One(Len(x))
  ELSE OperatorSl(One(Len(x)), NBit(x) - Countl(Minus(x, One(Len(x))), 0))
BitFloor(x) ==
  IF TopWord(x) = 0 THEN x ELSE OperatorSl(One(Len(x)), NBit(x) - 1 - Countl(x, 0))
HasSingleBit(x) == Popcount(x) = 1
\* uint_dyn_t::to_bit_floor: the highest word is cut, those below are cleared
ToBitFloor(x) ==
  [i \in DOMAIN x |-> IF i = TopWord(x) THEN 2 ^ LogOfWord(x[i]) ELSE 0]

---------------------------------------------------------------------------
(* Products                                                                *)

Half == 2 ^ (WordBits \div 2)
\* a number of two words by another, by the halves of the lower words
MulTwoWords(t, a) ==
  LET xl == t[1] % Half  xh == t[1] \div Half
      yl == a[1] % Half  yh == a[1] \div Half
      ll == xl * yl      lh == xl * yh
      hl == xh * yl      hh == xh * yh
      m  == ll \div Half + lh + (hl % Half)
      l  == (ll % Half) + ((m * Half) % Range64)
      h  == m \div Half + hl \div Half + hh
  IN  <<l, (h + t[1] * a[2] + t[2] * a[1]) % Range64>>
WordProduct(w1, w2) == MulTwoWords(<<w1, 0>>, <<w2, 0>>)

\* mutant: the overflows of carry_lvl0 are forgotten
ShiftedShort(c) == <<c.lvl0[2], 0>>

\* carry_lvl0 (two words) and carry_lvl2, which counts its overflows
Accumulate(c, product) ==
  LET sum == Add(c.lvl0, product, 0) IN [lvl0 |-> sum.words, lvl2 |-> c.lvl2 + sum.carry]
Column(x, y, k, lvl0) ==
  FoldLeft(LAMBDA c, p : Accumulate(c, WordProduct(NthWord(y, k - p), NthWord(x, p))),
           [lvl0 |-> lvl0, lvl2 |-> 0],
           [i \in 1 .. k + 1 |-> i - 1])
\* the exchange of the carries hands the lowest word out
Shifted(c) == <<c.lvl0[2], c.lvl2 % Range64>>

\* the first n words of x * y + added
Columns(x, y, added, n) ==
  LET Step(s, k) ==
        LET c   == Column(x, y, k - 1, s.lvl0)
            out == Add(<<c.lvl0[1]>>, <<added[k]>>, 0)
        IN  [words |-> s.words \o out.words,
             lvl0  |-> Add(Shifted(c), <<out.carry>>, 0).words]
  IN  FoldLeft(Step, [words |-> <<>>, lvl0 |-> <<0, 0>>], [k \in 1 .. n |-> k]).words

TimesWord(x, amount) ==
  LET Step(s, w) ==
        LET c == Accumulate([lvl0 |-> s.lvl0, lvl2 |-> 0], WordProduct(w, amount))
        IN  [words |-> Append(s.words, c.lvl0[1]), lvl0 |-> Shifted(c)]
  IN  FoldLeft(Step, [words |-> <<>>, lvl0 |-> <<0, 0>>], x).words

\* split: the lower half has the odd word
LowHalf(x) == LowWords(x, (Len(x) + 1) \div 2)
HighHalf(x) == WordSr(x, (Len(x) + 1) \div 2)
AcumilateHalfs(x) ==
  LET n == (Len(x) + 1) \div 2 + 1 IN Plus(CopyFrom(LowHalf(x), n), CopyFrom(HighHalf(x), n))

\* operator_mul_ret: columns, or Karatsuba multiplication of longer numbers
RECURSIVE MulRet(_, _)
MulRet(x, y) ==
  LET n  == 2 * Len(x)
      n1 == WordBits * ((Len(x) + 1) \div 2)
      z1 == CopyFrom(MulRet(AcumilateHalfs(x), AcumilateHalfs(y)), n)
      z0 == CopyFrom(MulRet(LowHalf(x), LowHalf(y)), n)
      z2 == CopyFrom(MulRet(HighHalf(x), HighHalf(y)), n)
      z3 == Minus(OperatorSl(z2, n1), z0)
  IN  IF Len(x) = 1 THEN WordProduct(x[1], y[1])
      ELSE IF Len(x) <= Schoolbook THEN Columns(x, y, Zeros(n), n)
      ELSE Minus(OperatorSl(Plus(z1, z3), n1), z3)

\* operator*=
Mul(x, y) ==
  CASE Len(x) = 1 -> <<(x[1] * y[1]) % Range64>>
    [] Len(x) = 2 -> MulTwoWords(x, y)
    [] Len(x) > 2 /\ Len(x) <= Schoolbook -> Columns(x, y, Zeros(Len(x)), Len(x))
    [] OTHER -> LowHalf(MulRet(x, y))

---------------------------------------------------------------------------
(* operator_muladd: Karatsuba with frames and numbers on a stack that has  *)
(* "room" words, columns when the room is short                            *)

Split(x, n) == <<LowWords(x, Min({n, Len(x)})), WordSr(x, Min({n, Len(x)}))>>

RECURSIVE MulAdd(_, _, _, _)
MulAdd(dyn, lhs, rhs, room) ==
  LET middle == Max({Len(lhs), Len(rhs)}) \div 2
      n      == Max({Len(lhs) + Len(rhs) + 2, Len(dyn)})
      l      == Split(rhs, middle)
      r      == Split(lhs, middle)
      sums   == <<Max({Len(l[1]), Len(l[2])}) + 1, Max({Len(r[1]), Len(r[2])}) + 1>>
      \* z3 is all ones, then the low product less one, then its negative, then
      \* the high product above that
      lowly  == Flip(MulAdd([i \in 1 .. n |-> Full], l[1], r[1], room - n - Frame))
      z3     == WithWordSr(lowly, middle,
                           MulAdd(WordSr(lowly, middle), l[2], r[2], room - n - Frame))
      less   == Minus(dyn, z3)
      more   == WithWordSr(less, middle, Plus(WordSr(less, middle), z3))
  IN  IF Min({Len(lhs) + Len(rhs), Len(dyn)}) <= Schoolbook \/ room < n + Frame
      THEN Columns(lhs, rhs, dyn, Len(dyn))
      ELSE WithWordSr(more, middle,
             MulAdd(WordSr(more, middle),
                    Plus(CopyFrom(l[2], sums[1]), l[1]), Plus(CopyFrom(r[2], sums[2]), r[1]),
                    room - sums[1] - sums[2] - Frame))

\* the operands and the result are cut to the words their bits need; what the
\* result had above is cleared
OperatorMuleqadd(dyn, lhs, rhs, room) ==
  LET n == Len(ShrinkToWidth(dyn, BitWidth(lhs) + BitWidth(rhs)))
  IN  CopyFrom(MulAdd(LowWords(dyn, n), Shrunk(lhs), Shrunk(rhs), room), Len(dyn))
OperatorMuleq(dyn, lhs, rhs) ==
  LET n == Len(ShrinkToWidth(dyn, BitWidth(lhs) + BitWidth(rhs)))
  IN  CopyFrom(Columns(Shrunk(lhs), Shrunk(rhs), Zeros(n), n), Len(dyn))

---------------------------------------------------------------------------
(* Division: shift and subtract                                            *)

Reduce(s, shifted, i) ==
  IF Compare(shifted, s.rest) <= 0
  THEN [quotient |-> SetNthBit(s.quotient, i), rest |-> Minus(s.rest, shifted)] ELSE s
ToModuloRetDevide(x, rhs) ==
  LET top == Countl(rhs, 0) - Countl(x, 0)
  IN  FoldLeft(LAMBDA s, i : Reduce(s, OperatorSl(rhs, i), i),
               [quotient |-> Zeros(Len(x)), rest |-> x],
               [k \in 1 .. top + 1 |-> top + 1 - k])
DevideUp(x, rhs) ==
  LET d == ToModuloRetDevide(x, rhs)
  IN  Add(d.quotient, Zeros(Len(x)), IF d.rest = Zeros(Len(x)) THEN 0 ELSE 1).words

\* uint_dyn_t: rhs is shifted up in place and comes back down; a quotient too
\* short for a bit only has the bit subtracted.  rhs may be too short to shift.
ReduceDyn(s, i) ==
  LET fits == CompareDyn(s.rhs, s.rest) <= 0
  IN  [quotient |-> IF fits /\ i < NBit(s.quotient) THEN SetNthBit(s.quotient, i) ELSE s.quotient,
       rest     |-> IF fits THEN Minus(s.rest, s.rhs) ELSE s.rest,
       rhs      |-> s.rhs]
Lowered(s) == [s EXCEPT !.rhs = DynSr(@, 1)]
OperatorModuloAndDevide(quotient, rest, rhs) ==
  LET lz     == Countl(rhs, 0)
      top    == BitWidth(rest) - BitWidth(rhs)
      cutOff == NBit(quotient) <= top
      done   == FoldLeft(LAMBDA s, i : ReduceDyn(IF i = top THEN s ELSE Lowered(s), i),
                         [quotient |-> quotient, rest |-> rest, rhs |-> DynSl(rhs, top)],
                         [k \in 1 .. top + 1 |-> top + 1 - k])
      kept   == [quotient |-> quotient, rest |-> rest, rhs |-> rhs]
  IN  IF top < 0 THEN kept @@ [success |-> TRUE, cutOff |-> FALSE]
      ELSE IF lz < top \/ BitWidth(rhs) = 0 THEN kept @@ [success |-> FALSE, cutOff |-> cutOff]
      ELSE done @@ [success |-> TRUE, cutOff |-> cutOff]

---------------------------------------------------------------------------
(* Runs of bits                                                            *)

\* set_bit_patch: the bits up to the next word, the last bits, the words between
SetBitPatch(x, index, count, set) ==
  LET bit == IF set THEN 1 ELSE 0
      With(w, S) == FoldSet(LAMBDA k, v : v + (bit - ((v \div 2 ^ k) % 2)) * 2 ^ k, w, S)
      end   == index + count
      first == ((index + WordBits - 1) \div WordBits) * WordBits   \* next word boundary
      last  == end - ((end - first) % WordBits)
      \* the bits of the word of "at"
      In(at, S) == {b \in S : b \div WordBits = at}
      part == (IF index % WordBits # 0 THEN index .. Min({end, first}) - 1 ELSE {})
              \cup (IF end > first THEN last .. end - 1 ELSE {})
  IN  [i \in DOMAIN x |->
         IF (i - 1) * WordBits >= first /\ i * WordBits <= last
         THEN IF set THEN Full ELSE 0
         ELSE With(x[i], {b % WordBits : b \in In(i - 1, part)})]

\* find_bit_patch, right to left: the smallest run of the needle's bits that is
\* long enough (the first of them), or the largest
RECURSIVE PatchFrom(_, _, _, _, _, _)
PatchFrom(x, needle, wanted, smallest, i, best) ==
  LET len  == Min({NBit(x), CountrFrom(x, needle, i) + i}) - i
      next == IF wanted <= len /\ (IF smallest THEN best.count = -1 \/ len < best.count
                                   ELSE best.count < len)
              THEN [count |-> len, index |-> i] ELSE best
  IN  IF i >= NBit(x) THEN best
      ELSE IF smallest /\ next # best /\ len = wanted THEN next
      ELSE PatchFrom(x, needle, wanted, smallest, i + len + CountrFrom(x, 1 - needle, i + len), next)
FindBitPatch(x, needle, wanted, smallest) ==
  LET found == PatchFrom(x, needle, wanted, smallest, 0,
                         [count |-> IF smallest THEN -1 ELSE 0, index |-> 0])
  IN  IF found.count = (IF smallest THEN -1 ELSE 0) THEN -1 ELSE found.index

-----------------------------------------------------------------------------
(* What the words stand for, and the arithmetic they must do: two operands *)
(* grow word by word, and in every state every operation on them is held   *)
(* against the integers.                                                   *)

CONSTANT Operands     \* the numbers tried, with every beginning of theirs

VARIABLES left, right
operandVars == <<left, right>>

OInit == left = <<>> /\ right = <<>>
PushLeft(w)  == right = <<>> /\ Append(left, w) \in Operands /\ left' = Append(left, w) /\ UNCHANGED right
PushRight(w) == Append(right, w) \in Operands /\ right' = Append(right, w) /\ UNCHANGED left
ONext == \E w \in 0 .. Full : PushLeft(w) \/ PushRight(w)

ValueOf(x) == FoldRight(LAMBDA w, v : w + Range64 * v, x, 0)
Over(n) == Range64 ^ n             \* one more than n words hold
Sign(n) == IF n < 0 THEN -1 ELSE IF n = 0 THEN 0 ELSE 1
BitAt(v, k) == (v \div 2 ^ k) % 2

---------------------------------------------------------------------------
\* Sums, differences and comparisons of numbers of any two lengths
SumsHold(n, a, b) ==
  /\ \A c \in {0, 1} :
       LET s == Add(left, right, c)
       IN  IF Len(right) <= n THEN ValueOf(s.words) + s.carry * Over(n) = a + b + c
           ELSE ValueOf(s.words) = (a + b + c) % Over(n)
  /\ ValueOf(Minus(left, right)) = (a - b) % Over(n)
  /\ CompareDyn(left, right) = Sign(a - b)
  /\ Len(right) = n => Compare(left, right) = Sign(a - b)

\* Products in full, cut to the operands, and added to a result of k words; the
\* stack of the last is absent, too short for every product, or long enough
ProductsHold(n, a, b) ==
  /\ Len(right) = n /\ n > 0 =>
       /\ ValueOf(MulRet(left, right)) = a * b
       /\ ValueOf(Mul(left, right)) = (a * b) % Over(n)
  /\ \A k \in {n, n + Len(right)} :
       LET dyn  == [i \in 1 .. k |-> Full]
           kept == Over(Min({k, (BitWidth(left) + BitWidth(right) + WordBits - 1) \div WordBits}))
       IN  /\ ValueOf(OperatorMuleq(dyn, left, right)) = (a * b) % kept
           /\ \A room \in {0, 16, 60} :
                ValueOf(OperatorMuleqadd(dyn, left, right, room)) = (kept - 1 + a * b) % kept

\* Quotients and remainders
DivisionHolds(d, a, b) == ValueOf(d.quotient) = a \div b /\ ValueOf(d.rest) = a % b
DynDivisionHolds(d, k, a, b) ==
  /\ d.rhs = right
  /\ IF d.success
     THEN /\ b # 0 /\ ValueOf(d.rest) = a % b /\ ValueOf(d.quotient) = (a \div b) % Over(k)
          /\ a \div b >= Over(k) => d.cutOff
     ELSE /\ d.rest = left /\ d.quotient = Zeros(k)
          /\ b = 0 \/ b * 2 ^ (BitWidth(left) - BitWidth(right)) >= Over(Len(right))
QuotientsHold(n, a, b) ==
  /\ Len(right) = n /\ b # 0 =>
       /\ DivisionHolds(ToModuloRetDevide(left, right), a, b)
       /\ ValueOf(DevideUp(left, right)) = (a + b - 1) \div b
  /\ \A k \in {0, 1, n} :
       DynDivisionHolds(OperatorModuloAndDevide(Zeros(k), left, right), k, a, b)

---------------------------------------------------------------------------
\* Shifts, rotations and powers of two
ShiftsHold(x, n, a) ==
  /\ ValueOf(Negate(x)) = (-a) % Over(n)
  /\ \A k \in 0 .. NBit(x) + 1 :
       /\ ValueOf(OperatorSl(x, k)) = (a * 2 ^ k) % Over(n) /\ DynSl(x, k) = OperatorSl(x, k)
       /\ ValueOf(OperatorSr(x, k)) = a \div 2 ^ k /\ DynSr(x, k) = OperatorSr(x, k)
  /\ \A r \in -NBit(x) .. NBit(x) : \A k \in 0 .. NBit(x) - 1 :
       r >= 0 \/ LengthRange % NBit(x) = 0 =>
         NthBit(Rotr(x, r), k) = BitAt(a, (k + r) % NBit(x))
  /\ \A w \in 0 .. Full : ValueOf(TimesWord(x, w)) = (a * w) % Over(n)
  /\ BitWidth(x) = (IF a = 0 THEN 0 ELSE 1 + FloorLog2(x))
  /\ a # 0 => /\ 2 ^ FloorLog2(x) <= a /\ a < 2 ^ (FloorLog2(x) + 1)
              /\ a <= 2 ^ CeilLog2(x) /\ 2 ^ CeilLog2(x) < 2 * a
              /\ ValueOf(BitFloor(x)) = 2 ^ FloorLog2(x) /\ ToBitFloor(x) = BitFloor(x)
              /\ ValueOf(BitCeil(x)) = (2 ^ CeilLog2(x)) % Over(n)
              /\ HasSingleBit(x) = (FloorLog2(x) = CeilLog2(x))

\* Counts of bits, and the runs set and found
RunAt(a, n, bit, k) == Max({0} \cup {l \in 1 .. n - k : \A i \in k .. k + l - 1 : BitAt(a, i) = bit})
BitsHold(x, n, a) ==
  /\ Popcount(x) = Cardinality({k \in 0 .. n - 1 : BitAt(a, k) = 1})
  /\ \A bit \in {0, 1} :
       /\ Countr(x, bit) = RunAt(a, n, bit, 0)
       /\ Countl(x, bit) = Max({l \in 0 .. n : \A i \in n - l .. n - 1 : BitAt(a, i) = bit})
       /\ \A k \in 0 .. n : CountrFrom(x, bit, k) = RunAt(a, n, bit, k)
       /\ \A k \in 0 .. n : CountlFrom(x, bit, k)
                              = Max({l \in 0 .. n - k : \A i \in n - k - l .. n - k - 1 : BitAt(a, i) = bit})
  /\ \A bit \in {0, 1}, k \in 0 .. n :
       /\ ShiftedCountl(x, bit, k) = CountlFrom(x, bit, k)
       /\ ShiftedCountr(x, bit, k) = CountrFrom(x, bit, k)
  /\ \A index \in 0 .. n - 1, set \in BOOLEAN : \A count \in 0 .. n - index :
       \A k \in 0 .. n - 1 :
         NthBit(SetBitPatch(x, index, count, set), k) =
           IF k \in index .. index + count - 1 THEN (IF set THEN 1 ELSE 0) ELSE BitAt(a, k)
  /\ \A bit \in {0, 1}, smallest \in BOOLEAN, wanted \in 1 .. n :
       LET starts == {k \in 0 .. n - 1 : RunAt(a, n, bit, k) >= wanted
                                         /\ (k = 0 \/ BitAt(a, k - 1) # bit)}
           sizes  == {RunAt(a, n, bit, k) : k \in starts}
           best   == {k \in starts : RunAt(a, n, bit, k) = IF smallest THEN Min(sizes) ELSE Max(sizes)}
       IN  FindBitPatch(x, bit, wanted, smallest) = IF starts = {} THEN -1 ELSE Min(best)

---------------------------------------------------------------------------
NumbersHold(n, a, b) ==
  /\ SumsHold(n, a, b) /\ ProductsHold(n, a, b) /\ QuotientsHold(n, a, b)
  /\ right = <<>> => ShiftsHold(left, n, a) /\ BitsHold(left, NBit(left), a)

\* Every operation of the wide integers gives what the integers give, modulo the
\* words of its result: carries that overflow, the negated addends and the two
\* Karatsuba multiplications never lose a word, the remainder is below the divisor,
\* and a division that cannot be done leaves its operands.  acumilate_halfs, which
\* the first Karatsuba multiplication sums its halves with, is marked "buggy rn"
\* in uintN.hpp: this is where that would show, with halves of one length and of two.
ArithmeticIsExact == left # <<>> => NumbersHold(Len(left), ValueOf(left), ValueOf(right))
===============================================================================
