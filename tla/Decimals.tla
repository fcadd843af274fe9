------------------------------- MODULE Decimals -------------------------------
(***************************************************************************)
(* Numbers and their texts: integers of one word in any radix, reals, and  *)
(* wide integers cut into chunks of digits and put together again.  A      *)
(* character is the value of its digit, 0 .. 35, or one of the signs below. *)
(***************************************************************************)
EXTENDS Integers, Sequences, SequencesExt, FiniteSetsExt

CONSTANTS
  Bits,         \* of an integer of one word
  Ten,          \* the radix of the wide conversions, instead of 10
  Chunk,        \* digits that are converted together, instead of 8
  CellBits,     \* of a word of a wide integer, instead of 64
  Numerals,     \* the texts that are read, with every beginning of theirs
  Radixes       \* they are read in

VARIABLE numeral

Dash == 36
PlusSign == 37
Point == 38
Caret == 39
Char_E == 14
Char_P == 25
Refused == -(2 ^ 20)          \* nullopt, outside of every type
NoText == <<>>                \* and for a text

Width(n) == Min({b \in 0 .. 31 : b = 31 \/ n < 2 ^ b})
Signed(t) == t # <<>> /\ Head(t) \in {Dash, PlusSign}
\* the sign is looked for after it was skipped
IsNeg(t) == Signed(t) /\ Len(t) > 1 /\ t[2] = Dash
Unsigned(t) == IF Signed(t) THEN Tail(t) ELSE t
WithoutZeros(t) ==
  LET rest == {i \in DOMAIN t : t[i] # 0} IN IF rest = {} THEN <<>> ELSE SubSeq(t, Min(rest), Len(t))

RECURSIVE DigitsOf(_, _)
DigitsOf(val, radix) ==
  IF val = 0 THEN <<>> ELSE Append(DigitsOf(val \div radix, radix), val % radix)
DigitsIn(n, radix) == Len(DigitsOf(n, radix))
NumberOf(digits, radix) == FoldLeft(LAMBDA v, ch : v * radix + ch, 0, digits)

---------------------------------------------------------------------------
(* to_integral: the value modulo 2^Bits, or refused                        *)

MaxValue(signed) == IF signed THEN 2 ^ (Bits - 1) - 1 ELSE 2 ^ Bits - 1
MaxLenOfIntegral(radix) == DigitsIn(MaxValue(FALSE), radix)
MaxPreMax(radix) == MaxValue(FALSE) \div radix

\* what is left of a character without '0', as a byte
MinusZero(ch) == IF ch < 10 THEN ch ELSE IF ch <= 35 THEN ch + 39 ELSE 256 - 3

\* radix 10: digits times powers of 5 are shifted, and no bit may be shifted out
DecimalValue(t) ==
  LET n == Len(t)
      times5(i)  == (MinusZero(t[n - i]) * 5 ^ i) % 2 ^ Bits
      shifted(i) == times5(i) * 2 ^ i
  IN  IF n > MaxLenOfIntegral(10) THEN Refused
      ELSE IF \E i \in 0 .. n - 1 : shifted(i) >= 2 ^ Bits \/ MinusZero(t[n - i]) > 9 THEN Refused
      ELSE FoldLeft(LAMBDA var, k : (var + shifted(n - k)) % 2 ^ Bits, 0, [k \in DOMAIN t |-> k])

PowerOfTwo(radix) == \E k \in 0 .. 5 : radix = 2 ^ k
PowerValue(t, radix) ==
  LET shift == Width(radix) - 1
  IN  IF Bits < Len(t) * shift \/ \E i \in DOMAIN t : t[i] > 35 \/ t[i] >= radix THEN Refused
      ELSE FoldLeft(LAMBDA var, ch : ((var * 2 ^ shift) % 2 ^ Bits) + ch, 0, t)
GeneralValue(t, radix) ==
  LET step(var, ch) ==
        IF var = Refused \/ ch > 35 \/ ch >= radix THEN Refused
        ELSE IF MaxPreMax(radix) < var THEN Refused
        ELSE (var * radix + ch) % 2 ^ Bits
  IN  IF MaxLenOfIntegral(radix) < Len(t) THEN Refused ELSE FoldLeft(step, 0, t)

Magnitude(t, radix) ==
  CASE radix = 10 -> DecimalValue(t)
    [] radix # 10 /\ PowerOfTwo(radix) -> PowerValue(t, radix)
    [] OTHER -> GeneralValue(t, radix)
WithSign(var, neg, signed) ==
  IF ~neg \/ var = 0 THEN IF signed /\ var > MaxValue(TRUE) THEN Refused ELSE var
  ELSE IF signed /\ var - 1 > MaxValue(TRUE) THEN Refused ELSE -var
ToIntegral(t, radix, signed) ==
  IF Unsigned(t) = <<>> \/ radix = 0 \/ radix > 36 THEN Refused
  ELSE LET digits == WithoutZeros(Unsigned(t))
           var    == Magnitude(digits, radix)
       IN  IF digits = <<>> THEN 0
           ELSE IF (IsNeg(t) /\ ~signed) \/ var = Refused THEN Refused
           ELSE WithSign(var, IsNeg(t), signed)

---------------------------------------------------------------------------
(* from_integral: the text from its last digit backwards                   *)

\* the room from_integral_len asks for: the digits of the two's complement
FromIntegralLen(val, radix) ==
  Max({1, (IF val < 0 THEN 1 ELSE 0) + DigitsIn(val % 2 ^ Bits, radix)})
FromIntegralFill(val, radix, len) ==
  LET neg    == val < 0
      room   == IF neg THEN len - 1 ELSE len
      digits == DigitsOf(IF neg THEN -val ELSE val, radix)
  IN  IF len = 0 \/ radix = 0 \/ radix > 36 \/ room = 0 THEN NoText
      ELSE IF val = 0 THEN <<0>>
      ELSE IF radix = 1 \/ Len(digits) > room THEN NoText
      ELSE (IF neg THEN <<Dash>> ELSE <<>>) \o digits
\* the buffer after from_integral_fill_backwards, whose text ends the buffer but
\* for 0, which begins it
FilledBackwards(buf, val, radix) ==
  LET text == FromIntegralFill(val, radix, Len(buf))
  IN  IF text = NoText THEN NoText
      ELSE IF val = 0 THEN <<0>> \o Tail(buf)
      ELSE SubSeq(buf, 1, Len(buf) - Len(text)) \o text

---------------------------------------------------------------------------
(* to_real_floating: the sections of a text, then their digits             *)

\* the radix of the digits that follow the mark of an exponent; they count powers
\* of ten in a decimal text, whatever the mark
PowerFn(ch, radix) ==
  CASE ch \in {Char_E, Char_P} /\ radix < ch -> 10
    [] ch = Caret -> radix
    [] OTHER -> Refused
IsPower(ch, radix) == PowerFn(ch, radix) # Refused

NoSections ==
  [ok |-> TRUE, at |-> "whole", whole |-> <<>>, part |-> <<>>, exponent |-> <<>>, neg |-> FALSE]
Section(s, t, i, radix) ==
  LET ch == t[i]
      refused == [s EXCEPT !.ok = FALSE]
  IN  IF ~s.ok THEN s
      ELSE IF ch < radix
      THEN CASE s.at = "whole" -> [s EXCEPT !.whole = Append(@, ch)]
             [] s.at = "part" -> [s EXCEPT !.part = Append(@, ch)]
             [] s.at = "exponent" -> [s EXCEPT !.exponent = Append(@, ch)]
      ELSE IF ch = Point
      THEN IF s.at # "whole" THEN refused
           ELSE [s EXCEPT !.at = IF i = Len(t) THEN "dummy" ELSE "part"]
      ELSE IF IsPower(ch, radix)
      THEN IF s.at = "exponent" \/ i = Len(t) THEN refused ELSE [s EXCEPT !.at = "exponent"]
      ELSE IF ch \in {Dash, PlusSign} /\ i < Len(t) /\ s.at = "exponent" /\ IsPower(t[i - 1], radix)
      THEN [s EXCEPT !.neg = ch = Dash]
      ELSE refused
Sections(t, radix) ==
  FoldLeft(LAMBDA s, i : Section(s, t, i, radix), NoSections, [i \in DOMAIN t |-> i])

\* get_sec1_val: at most three digits, and not zero
ExponentValue(digits) ==
  LET d == WithoutZeros(digits) IN IF d = <<>> \/ Len(d) > 3 THEN Refused ELSE NumberOf(d, 10)

\* a decimal text: digits * 10^power; the rounding of big_float_t is left out
Real(digits, power) == [digits |-> digits, power |-> power]
RefusedReal == Real(Refused, 0)
RealOf(s, neg, zeros) ==
  LET e == IF s.at = "exponent" THEN ExponentValue(s.exponent) ELSE 0
      n == NumberOf(s.whole \o s.part, 10)
  IN  IF ~s.ok \/ e = Refused \/ (s.whole = <<>> /\ s.part = <<>> /\ ~zeros) THEN RefusedReal
      ELSE Real(IF neg THEN -n ELSE n, (IF s.neg THEN -e ELSE e) - Len(s.part))
ToRealFloating(t) ==
  IF Unsigned(t) = <<>> THEN RefusedReal
  ELSE LET rest == WithoutZeros(Unsigned(t))
       IN  IF rest = <<>> THEN Real(0, 0) ELSE RealOf(Sections(rest, 10), IsNeg(t), rest # Unsigned(t))

---------------------------------------------------------------------------
(* to_ascii of wide integers: halves of the digits until a chunk is left.  *)
(* The asserted bit widths are part of the result.                         *)

TenToThe(k) == Ten ^ k
OneChunk == TenToThe(Chunk)
TwoChunks == TenToThe(2 * Chunk)
WordsFor(bits) == (bits + CellBits - 1) \div CellBits
Chunks(w) == (w + Chunk - 1) \div Chunk

Small(res, w, bw) ==
  IF w <= Chunk THEN <<res>>
  ELSE IF w <= 2 * Chunk
  THEN IF Width(OneChunk) <= bw THEN <<res \div OneChunk, res % OneChunk>> ELSE <<0, res>>
  ELSE LET high == IF Width(TwoChunks) <= bw THEN res \div TwoChunks ELSE 0
           low  == IF Width(TwoChunks) <= bw THEN res % TwoChunks ELSE res
       IN  <<high>> \o IF Width(OneChunk) <= bw THEN <<low \div OneChunk, low % OneChunk>>
                       ELSE <<0, low>>
SmallSound(res, w, bw) ==
  /\ w <= Chunk => bw <= Width(OneChunk)
  /\ w > Chunk /\ w <= 2 * Chunk => bw <= Width(TwoChunks) /\ res < TwoChunks

PowerOfTenIndex(w) == w - (w \div (2 * Chunk)) * Chunk
\* mutant: the quotient is taken for narrow
LeftWidthFlat(bw, bw2, left) == bw - bw2

\* the bit width of the quotient from that of the number, and its top bit
LeftWidth(bw, bw2, left) ==
  LET guess == bw - bw2 IN guess + ((left \div 2 ^ guess) % 2)

RECURSIVE ConvertExtended(_, _, _, _)
ConvertExtended(var, w, words, bw) ==
  IF w <= 2 * Chunk \/ words = 1
  THEN LET res == var % 2 ^ CellBits
       IN  [vals |-> Small(res, w, bw), sound |-> SmallSound(res, w, bw)]
  ELSE LET index  == PowerOfTenIndex(w)
           split  == TenToThe(w - index)
           bw2    == Width(split)
           far    == bw >= bw2
           left   == var \div split
           rest   == IF far THEN var % split ELSE var
           bwLeft == LeftWidth(bw, bw2, left)
           upper  == ConvertExtended(left, index, WordsFor(Width(TenToThe(index))), bwLeft)
           lower  == ConvertExtended(rest, w - index, WordsFor(bw2), IF far THEN Width(rest) ELSE bw)
       IN  [vals  |-> (IF far THEN upper.vals ELSE [i \in 1 .. Chunks(index) |-> 0]) \o lower.vals,
            sound |-> /\ bw <= Width(TenToThe(w))
                      /\ far => bwLeft = Width(left) /\ upper.sound
                      /\ lower.sound]

\* the same with frames on a stack; a small value is written to the first words
\* of its output, however many there are
Placed(vals, size) == vals \o [i \in 1 .. size - Len(vals) |-> 0]
RECURSIVE RunConversion(_, _, _)
RunConversion(var, w, size) ==
  IF w = 0 THEN [vals |-> Placed(<<>>, size), right |-> TRUE]
  ELSE IF w <= 2 * Chunk \/ Width(var) <= CellBits
  THEN LET vals == Small(var, w, Width(var))
       IN  [vals |-> Placed(vals, size), right |-> Len(vals) = size \/ var = 0]
  ELSE LET wide  == w \div (2 * Chunk)
           split == TenToThe(wide * Chunk)
           upper == RunConversion(var \div split, w - wide * Chunk, size - wide)
           lower == RunConversion(var % split, wide * Chunk, wide)
       IN  [vals |-> upper.vals \o lower.vals, right |-> upper.right /\ lower.right]

\* the chunks as text: leading chunks of zero are dropped, then leading zeros
ChunkText(vals) ==
  LET first == Min({i \in DOMAIN vals : vals[i] # 0} \cup {Len(vals)})
  IN  WithoutZeros(FlattenSeq([k \in 1 .. Len(vals) - first + 1 |->
                     [d \in 1 .. Chunk |-> (vals[first + k - 1] \div TenToThe(Chunk - d)) % Ten]]))
ToAscii(var, words, len) ==
  IF var = 0 THEN IF len = 0 THEN <<>> ELSE <<0>>
  ELSE LET w    == DigitsIn(2 ^ (CellBits * words) - 1, Ten)
           text == ChunkText(ConvertExtended(var, w, words, Width(var)).vals)
       IN  IF len < Len(text) THEN <<>> ELSE text
\* the digits a number of that width may need, or one more
ToAsciiDyn(var, more) ==
  IF var = 0 THEN <<0>>
  ELSE LET w == DigitsIn(2 ^ Width(var) - 1, Ten) + more
       IN  ChunkText(RunConversion(var, w, Chunks(w)).vals)

---------------------------------------------------------------------------
(* unchecked_from_ascii                                                    *)

\* bits of the last digits first; those beyond a word are lost
FromAsciiBits(t, radix) ==
  LET pow    == Width(radix) - 1
      digits == Reverse(WithoutZeros(t))
      bit(k) == pow * (k - 1)
      step(v, k) == v + ((digits[k] * 2 ^ (bit(k) % CellBits)) % 2 ^ CellBits)
                          * 2 ^ (CellBits * (bit(k) \div CellBits))
  IN  FoldLeft(step, 0, [k \in DOMAIN digits |-> k])

\* two chunks at a time, the odd digits first
UncheckedFromAscii(t) ==
  LET digits == WithoutZeros(t)
      odd    == Len(digits) % (2 * Chunk)
      group(k) == NumberOf(SubSeq(digits, odd + 2 * Chunk * (k - 1) + 1, odd + 2 * Chunk * k), Ten)
  IN  FoldLeft(LAMBDA v, k : v * TwoChunks + group(k), NumberOf(SubSeq(digits, 1, odd), Ten),
               [k \in 1 .. Len(digits) \div (2 * Chunk) |-> k])

---------------------------------------------------------------------------
(* What is promised                                                        *)

DInit == numeral = <<>>
DNext == \E ch \in 0 .. Caret : Append(numeral, ch) \in Numerals /\ numeral' = Append(numeral, ch)

IsNumeral(t, radix) == t # <<>> /\ \A k \in DOMAIN t : t[k] < radix

\* digits are read exactly as long as their value fits, and modulo 2^Bits or not at
\* all if not; a minus sign is read as a plus sign, and a radix that is a power of
\* two takes no text with more bits in its digits than Bits (three octal digits of
\* a byte are too many)
InRoom(t, radix) == PowerOfTwo(radix) => Len(WithoutZeros(t)) * (Width(radix) - 1) <= Bits
ReadRightly(got, t, radix, signed) ==
  LET value == NumberOf(t, radix)
  IN  IF ~IsNumeral(t, radix) \/ ~InRoom(t, radix) THEN got = Refused
      ELSE IF value <= MaxValue(signed) THEN got = value
      ELSE /\ got \in {Refused, value % 2 ^ Bits}
           /\ PowerOfTwo(radix) \/ Len(WithoutZeros(t)) > MaxLenOfIntegral(radix) => got = Refused
IntegralsHold(t) ==
  \A radix \in Radixes, signed \in BOOLEAN :
    ReadRightly(ToIntegral(t, radix, signed), IF Signed(t) THEN Tail(t) ELSE t, radix, signed)

\* what was written is read again, but for the sign, in the room asked for
WrittenRightly(val, radix) ==
  LET written == FromIntegralFill(val, radix, FromIntegralLen(val, radix))
      size    == Len(written)
      buf     == [k \in 1 .. size + 1 |-> Point]
      back(t) == ToIntegral(IF val < 0 THEN Tail(t) ELSE t, radix, FALSE)
  IN  /\ InRoom(Unsigned(written), radix) =>
           back(written) = IF val < 0 THEN -val ELSE val
      /\ val < 0 <=> Head(written) = Dash
      /\ val >= 0 => size = FromIntegralLen(val, radix)
      /\ FromIntegralFill(val, radix, size - 1) = NoText
      /\ val # 0 => FilledBackwards(buf, val, radix) = <<Point>> \o written

---------------------------------------------------------------------------
\* A real text has digits, one point at most among them, and perhaps a mark with
\* one to three digits that are not all zero, after leading zeros and a sign.
MarkAt(t) == Min({k \in DOMAIN t : t[k] \in {Char_E, Char_P, Caret}} \cup {Len(t) + 1})
PlainReal(t) ==
  LET points == {k \in DOMAIN t : t[k] = Point}
      digits == SelectSeq(t, LAMBDA ch : ch # Point)
  IN  IF Cardinality(points) > 1 \/ ~IsNumeral(digits, 10) THEN RefusedReal
      ELSE Real(NumberOf(digits, 10), IF points = {} THEN 0 ELSE Min(points) - Len(t))
Scaled(real, t) ==
  LET exponent == ExponentValue(Unsigned(t))
  IN  IF real = RefusedReal \/ ~IsNumeral(Unsigned(t), 10) \/ exponent = Refused THEN RefusedReal
      ELSE Real(real.digits, real.power + IF Head(t) = Dash THEN -exponent ELSE exponent)
ExpectedReal(t) ==
  LET plain == PlainReal(SubSeq(t, 1, MarkAt(t) - 1))
  IN  IF MarkAt(t) > Len(t) THEN plain
      ELSE IF MarkAt(t) = Len(t) THEN RefusedReal
      ELSE Scaled(plain, SubSeq(t, MarkAt(t) + 1, Len(t)))
RealsHold(t) ==
  LET got == ToRealFloating(t)
  IN  t # <<>> => got = ExpectedReal(IF Signed(t) THEN Tail(t) ELSE t)

---------------------------------------------------------------------------
\* Wide integers: reading the digits and writing them again gives the digits, at
\* compile time always and at run time unless a small value lies in a part of four
\* chunks or more; and the widths the code asserts are those of the numbers.
WideHold(t) ==
  LET value  == NumberOf(t, Ten)
      digits == IF value = 0 THEN <<0>> ELSE WithoutZeros(t)
      width(words) == DigitsIn(2 ^ (CellBits * words) - 1, Ten)
  IN  /\ UncheckedFromAscii(t) = value
      /\ \A words \in {w \in 1 .. 3 : Width(value) <= CellBits * w} :
           /\ ToAscii(value, words, Len(digits)) = digits
           /\ ToAscii(value, words, Len(digits) - 1) = <<>>
           /\ ConvertExtended(value, width(words), words, Width(value)).sound
      /\ value # 0 => \A more \in {0, 1} :
           LET w == DigitsIn(2 ^ Width(value) - 1, Ten) + more
           IN  RunConversion(value, w, Chunks(w)).right => ToAsciiDyn(value, more) = digits
BitsAreRead(t, radix) == FromAsciiBits(t, radix) = NumberOf(t, radix)

\* Numbers and their texts belong together: integers of a word in every radix, in
\* range or not, decimal reals by their sections, and wide integers chunk by chunk.
\* (The longer texts are those of wide integers only.)
ConversionsAgree ==
  /\ Len(numeral) < 6 => IntegralsHold(numeral) /\ RealsHold(numeral)
  /\ IsNumeral(numeral, Ten) => WideHold(numeral)
  /\ \A radix \in {2, 4, 16} :
       IsNumeral(numeral, radix) /\ Len(numeral) < 6 => BitsAreRead(numeral, radix)
  /\ numeral = <<>> => \A radix \in Radixes \ {1}, val \in -(2 ^ (Bits - 1)) .. 2 ^ Bits - 1 :
                         WrittenRightly(val, radix)
=============================================================================
