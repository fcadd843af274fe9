------------------------------- MODULE Floats -------------------------------
(***************************************************************************)
(* Reals: big_float_t, a coefficient of one word times a power of two; the *)
(* bits of a double read into one and written from one; a double printed   *)
(* with as many digits as asked for, and a text read into a double.        *)
(* Characters are those of Decimals; the negative ones are handled apart.  *)
(***************************************************************************)
EXTENDS Decimals

CONSTANTS
  FloatWord,      \* bits of a coefficient with its sign, instead of 64
  MantissaBits,   \* of a double, instead of 52
  ExponentBits,   \* of a double, instead of 11
  PowRange,       \* the longest power of five in the table, instead of 324
  Accuracies,     \* digits after the first one asked for
  Others          \* second operands of the arithmetic

VARIABLE double   \* the bits of a double without its sign

Bias == 2 ^ (ExponentBits - 1) - 1
MaxField == 2 ^ ExponentBits - 1
Double(field, mantissa) == [field |-> field, mantissa |-> mantissa]
NoDouble == Double(-1, 0)

Big(m, e) == [m |-> m, e |-> e]
NoBig == Big(2 ^ FloatWord, 0)
Neg(f) == Big(-f.m, f.e)
Lesser(x, y) == IF x < y THEN x ELSE y
Magn(n) == IF n < 0 THEN -n ELSE n
SameSign(n, of) == IF of < 0 THEN -n ELSE n
\* a shift to the right rounds down
Shift(n, k) ==
  IF k >= 0 THEN n * 2 ^ k ELSE IF k > -31 THEN n \div 2 ^ (-k) ELSE IF n < 0 THEN -1 ELSE 0
SingleBit(n) == n > 0 /\ n = 2 ^ (Width(n) - 1)
LogCeil(n) == Width(n) - (IF SingleBit(n) THEN 1 ELSE 0)
LogFloor(n) == Width(n) - (IF n # 0 THEN 1 ELSE 0)

---------------------------------------------------------------------------
(* The arithmetic of big_float_t                                           *)

Normalize(f, dest) ==
  LET delta == dest - LogCeil(Magn(f.m))
  IN  Big(SameSign(Shift(Magn(f.m), delta), f.m), (IF f.m = 0 THEN 0 ELSE f.e) - delta)
\* the top two bits are left to the sign and to the carry; zero is normalized too
NormalizeAdd(f) ==
  LET shift == FloatWord - 2 - Width(Magn(f.m)) IN Big(Shift(f.m, shift), f.e - shift)
Onto(a, b) == Big(a.m + IF a.e - b.e < FloatWord - 1 THEN Shift(b.m, b.e - a.e) ELSE 0, a.e)
Ordered(l, r) == IF l.e < r.e THEN Onto(r, l) ELSE Onto(l, r)
Add(lhs, rhs) == Ordered(NormalizeAdd(lhs), NormalizeAdd(rhs))
Sign(n) == IF n < 0 THEN -1 ELSE IF n = 0 THEN 0 ELSE 1
CompareBig(lhs, rhs) == Sign(Add(lhs, Neg(rhs)).m)

\* the product of two words is shifted under its top two bits and rounded up
OfSigns(f, lhs, rhs) == IF (lhs.m < 0) # (rhs.m < 0) THEN Neg(f) ELSE f
Carried(under) == under \div 2 ^ FloatWord + IF under % 2 ^ FloatWord = 0 THEN 0 ELSE 1
Product(product, e, shift) ==
  Big(Carried(Shift(product, shift - 2)), e + FloatWord + 2 - shift)
Multiply(lhs, rhs) ==
  LET product == Magn(lhs.m) * Magn(rhs.m)
  IN  OfSigns(Product(product, lhs.e + rhs.e, 2 * FloatWord - Width(product)), lhs, rhs)
Quotient(l, r) == Big(l.m \div r.m + (IF r.m \div 2 <= l.m % r.m THEN 1 ELSE 0), l.e - r.e)
Divide(lhs, rhs) ==
  IF rhs.m = 0 THEN NoBig
  ELSE OfSigns(Quotient(Normalize(Big(Magn(lhs.m), lhs.e), FloatWord - 2),
                       Normalize(Big(Magn(rhs.m), rhs.e), FloatWord \div 2)), lhs, rhs)

\* nothing if the integral takes the bit of the sign
Whole(f, n) ==
  LET steps == IF n = 0 THEN 0 ELSE IF f.e > 0 THEN -f.e ELSE Lesser(Width(n), -f.e)
  IN  Big(SameSign(Shift(n, -steps), f.m), f.e + steps)
Rest(f, whole) == [whole |-> whole.m, rest |-> Add(f, Neg(whole))]
IntegralAndFraction(f) ==
  IF f.m # 0 /\ f.e > 0 /\ Width(Magn(f.m)) + f.e >= FloatWord THEN [whole |-> Refused, rest |-> f]
  ELSE Rest(f, Whole(f, Magn(f.m)))

---------------------------------------------------------------------------
(* The bits of a double                                                    *)

\* a denormal has the exponent of the field 0, half of what it should be
GetBigFloat(d) ==
  Big(d.mantissa + (IF d.field = 0 THEN 0 ELSE 2 ^ MantissaBits), d.field - Bias - MantissaBits)
\* pos_real_dbl_to_bf_impl_ has the right one
DoubleToBig(d) == LET f == GetBigFloat(d) IN Big(f.m, f.e + IF d.field = 0 THEN 1 ELSE 0)
MaxDouble == Double(MaxField - 1, 2 ^ MantissaBits - 1)
FloatFrom(d, allowNan) ==
  IF ~allowNan /\ CompareBig(GetBigFloat(MaxDouble), GetBigFloat(d)) < 0 THEN NoBig ELSE GetBigFloat(d)

\* of a positive number; bits that do not fit are cut off, and the mantissa of a
\* power of two is 0, be it denormal or not
MantissaOf(n, m, below) == m % 2 ^ (IF SingleBit(n) THEN 0 ELSE IF below = 0 THEN Width(m) - 1 ELSE Width(m))
Packed(n, exp) ==
  LET below == IF exp < -Bias THEN -Bias - exp ELSE 0
      field == exp + below + Bias
  IN  IF exp + MantissaBits < -Bias \/ ExponentBits < LogCeil(field) THEN NoDouble
      ELSE Double(field % 2 ^ ExponentBits, MantissaOf(n, Shift(n, -below), below))
ToFloat(f, allowNan) ==
  LET n == Normalize(f, MantissaBits + 1)
  IN  IF ~allowNan /\ CompareBig(GetBigFloat(MaxDouble), f) < 0 THEN NoDouble
      ELSE IF f.m = 0 THEN Double(0, 0)
      ELSE Packed(n.m, n.e + LogFloor(n.m))

---------------------------------------------------------------------------
(* The table of powers of five, each one the double nearest to a product   *)

NearestTo(m, parts) ==
  LET q == m \div parts  twice == 2 * (m % parts)
  IN  IF twice + (q % 2) > parts THEN q + 1 ELSE q
Rounded(m, e) ==
  LET cut == Width(m) - (MantissaBits + 1)
  IN  IF cut <= 0 THEN Big(m, e) ELSE Big(NearestTo(m, 2 ^ cut), e + cut)
Inverse5 == Big((2 ^ (MantissaBits + 3) + 2) \div 5, -(MantissaBits + 3))
Inverse10 == Big(Inverse5.m, Inverse5.e - 1)
Pow5[k \in -PowRange .. PowRange] ==
  IF k = 0 THEN Big(1, 0)
  ELSE IF k > 0 THEN Rounded(5 * Pow5[k - 1].m, Pow5[k - 1].e)
  ELSE IF k = -1 THEN Inverse5
  ELSE Rounded(Inverse5.m * Pow5[k + 1].m, Inverse5.e + Pow5[k + 1].e)
TimesTenTo(f, k) == [Multiply(f, Pow5[k]) EXCEPT !.e = @ + k]

---------------------------------------------------------------------------
(* A positive double as a component of 1 to 10 and a power of ten          *)

AtMost(x, y) ==
  LET order(f) == f.e + Width(f.m)
      lined(f) == Shift(f.m, FloatWord - Width(f.m))
  IN  order(x) < order(y) \/ (order(x) = order(y) /\ lined(x) <= lined(y))
\* digits before the point, from the logarithm to base 2 and one look at the table
LeastWidth(x, ceil) ==
  IF ceil < 0 THEN -((((IF SingleBit(x.m) THEN 0 ELSE 1) - ceil) * 19729) \div 2 ^ 16)
  ELSE (ceil * 19729) \div 2 ^ 16
WidthFrom(least, x) == least + IF AtMost([Pow5[least] EXCEPT !.e = @ + least], x) THEN 1 ELSE 0
DecWidth(x) == WidthFrom(LeastWidth(x, LogCeil(x.m) + x.e), x)

UnderSign(f) == LET shift == FloatWord - 1 - Width(f.m) IN Big(Shift(f.m, shift), f.e - shift)
Settled(f, log) ==
  LET near  == -f.e \in 0 .. FloatWord - 1
      whole == Shift(f.m, f.e)
  IN  IF near /\ whole >= 10 THEN [val |-> Multiply(f, Inverse10), log |-> log + 1]
      ELSE IF ~near \/ whole < 1 THEN [val |-> Multiply(f, Big(10, 0)), log |-> log - 1]
      ELSE [val |-> f, log |-> log]
Component(val) == LET ret == DecWidth(val) - 1 IN Settled(UnderSign(TimesTenTo(val, -ret)), ret)

\* the digit before the point in the upper word, the fraction in the lower
OneWord == 2 ^ FloatWord
NumberWords(f) == Shift(f.m, FloatWord + f.e)
LastOther(text, ch) == Max({k \in DOMAIN text : text[k] # ch})
WithoutTail(text) ==
  LET k == LastOther(text, 0) IN SubSeq(text, 1, IF text[k] = Point THEN k - 1 ELSE k)
Raised(text, k) == [SubSeq(text, 1, k) EXCEPT ![k] = @ + 1]

---------------------------------------------------------------------------
(* from_dec_positive_float_fill_sientific: ties to the even digit          *)

Mark(log) ==
  <<Char_E>> \o (IF log < 0 THEN <<Dash>> ELSE <<>>)
             \o (IF log = 0 THEN <<0>> ELSE DigitsOf(Magn(log), 10))
RaisedScientific(body, log) ==
  LET k == LastOther(body, 9)
  IN  IF body[k] # Point THEN Raised(body, k) \o Mark(log)
      ELSE IF body[1] = 9 THEN <<1>> \o Mark(log + 1) ELSE <<body[1] + 1>> \o Mark(log)
Scientific(f, log, accuracy) ==
  LET number == NumberWords(f)
      low    == number % OneWord
      body   == <<number \div OneWord, Point>>
                \o [i \in 1 .. accuracy |-> ((low * 10 ^ i) \div OneWord) % 10]
      rest   == 2 * ((low * 10 ^ accuracy) % OneWord)
      last   == body[IF accuracy = 0 THEN 1 ELSE Len(body)]
  IN  IF rest > OneWord \/ (rest = OneWord /\ last % 2 = 1) THEN RaisedScientific(body, log)
      ELSE WithoutTail(body) \o Mark(log)

---------------------------------------------------------------------------
(* from_dec_positive_float_fill_general_parallel: digits come in pairs and *)
(* wait in a small buffer; the text is undefined when too many are taken.  *)

Positive(n) == IF n < 0 THEN 0 ELSE n
FillSize(log, accuracy) ==
  LET nint  == log + 1
      n     == accuracy + 1 - nint
      whole == Positive(nint)
  IN  [before |-> IF whole = 0 THEN 1 ELSE whole,
       zerosBefore |-> IF whole = 0 THEN 1 ELSE Positive(-n),
       after |-> Positive(n),
       zerosAfter |-> Positive(-nint),
       chars |-> (IF n > 0 THEN 1 ELSE 0) + (IF whole = 0 THEN 1 ELSE whole) + Positive(n)]
NumZeros(n) == [i \in 1 .. n |-> 0]

TwoDigits(n) == <<n \div 10, n % 10>>
Taken(s, n) ==
  IF Len(s.buf) < n THEN [s EXCEPT !.torn = TRUE]
  ELSE [s EXCEPT !.text = @ \o SubSeq(s.buf, 1, n), !.buf = SubSeq(@, n + 1, Len(@))]
PairTaken(s) ==
  LET number == (s.number % OneWord) * 100
  IN  Taken([s EXCEPT !.number = number, !.buf = @ \o TwoDigits(number \div OneWord)], 2)
DigitsTaken(s, n) ==
  FoldLeft(LAMBDA t, i : PairTaken(t), IF n % 2 = 1 THEN Taken(s, 1) ELSE s,
           [i \in 1 .. n \div 2 |-> i])
FixedDigits(f, size) ==
  LET number == NumberWords(f) * IF size.chars % 2 = 1 THEN 1 ELSE 10
      first  == number \div OneWord
      begun  == [number |-> number, text |-> <<>>, torn |-> FALSE,
                 buf |-> IF size.chars % 2 = 1 THEN <<first>> ELSE TwoDigits(first)]
      before == DigitsTaken(begun, size.before - size.zerosBefore)
      zeros  == NumZeros(size.zerosBefore)
                \o IF size.after = 0 THEN <<>> ELSE <<Point>> \o NumZeros(size.zerosAfter)
  IN  DigitsTaken([before EXCEPT !.text = @ \o zeros], size.after - size.zerosAfter)

\* the upper word is the last digit, or that after it, or both
RoundsUp(s) ==
  LET high == s.number \div OneWord  low == s.number % OneWord
  IN  IF s.buf = <<>> THEN 2 * low > OneWord ELSE high > 50 \/ (high = 50 /\ low # 0)
RaisedWhole(text) ==
  LET k == Max({0} \cup {i \in DOMAIN text : text[i] # 9})
  IN  (IF k = 0 THEN <<1>> ELSE Raised(text, k)) \o NumZeros(Len(text) - k)
\* nines up to the first digit: they move, and the first becomes the character after 9
RaisedFixed(text) ==
  LET k   == LastOther(text, 9)
      int == SubSeq(text, 1, k - 1)
  IN  IF text[k] # Point THEN Raised(text, k)
      ELSE IF \A i \in DOMAIN int : int[i] = 9 THEN <<10, 9>> \o NumZeros(Len(int) - 1)
      ELSE RaisedWhole(int)
FixedText(s, size) ==
  IF size.after = 0 THEN IF RoundsUp(s) THEN RaisedWhole(s.text) ELSE s.text
  ELSE IF RoundsUp(s) THEN RaisedFixed(s.text) ELSE WithoutTail(s.text)
Fixed(f, log, accuracy, room) ==
  LET size == FillSize(log, accuracy)
  IN  IF room < size.chars + 2 THEN NoText ELSE FixedText(FixedDigits(f, size), size)

---------------------------------------------------------------------------
(* from_dec_float_fill of a double that is not negative                    *)

Infinity == <<18, 23, 15>>
Nan(d) == LET word == <<23, 10, 23>>
          IN  IF d.mantissa >= 2 ^ (MantissaBits - 1) THEN word ELSE word \o <<40, 28>> \o word \o <<41>>
InRoomOf(text, room) == IF room < Len(text) THEN NoText ELSE text
PrintedNumber(c, accuracy, room, format) ==
  IF format = "fixed" \/ (format = "general" /\ room >= FillSize(c.log, accuracy).chars)
  THEN Fixed(c.val, c.log, accuracy, room)
  ELSE InRoomOf(Scientific(c.val, c.log, accuracy), room)
Printed(d, accuracy, room, format) ==
  IF room = 0 THEN NoText
  ELSE IF d.field = MaxField THEN InRoomOf(IF d.mantissa = 0 THEN Infinity ELSE Nan(d), room)
  ELSE IF DoubleToBig(d).m = 0 THEN <<0>>
  ELSE PrintedNumber(Component(DoubleToBig(d)), accuracy, room, format)

---------------------------------------------------------------------------
(* to_real_floating: the digits one by one, each with its power of ten     *)

SumOfDigits(digits, top) ==
  FoldLeft(LAMBDA var, i : IF digits[i] = 0 THEN var
                           ELSE Add(var, TimesTenTo(Big(digits[i], 0), top - i)),
           Big(0, 0), [i \in DOMAIN digits |-> i])
ReadReal(t) ==
  LET rest  == WithoutZeros(t)
      s     == Sections(rest, 10)
      whole == WithoutZeros(s.whole)
      e     == IF s.at = "exponent" THEN ExponentValue(s.exponent) ELSE 0
      first == SumOfDigits(whole, Len(whole))
      sum   == IF s.part = <<>> THEN first ELSE Add(first, SumOfDigits(s.part, 0))
  IN  IF t = <<>> THEN NoDouble
      ELSE IF rest = <<>> THEN Double(0, 0)
      ELSE IF ~s.ok \/ e = Refused \/ e > PowRange THEN NoDouble
      ELSE ToFloat(TimesTenTo(sum, IF s.neg THEN -e ELSE e), FALSE)

---------------------------------------------------------------------------
(* Other ways to the power, and texts in any radix                         *)

RECURSIVE PowerOf(_, _)
PowerOf(f, pow) ==
  IF pow = 0 THEN Big(1, 0)
  ELSE IF pow % 2 = 1 THEN Multiply(PowerOf(f, pow - 1), f)
  ELSE PowerOf(Multiply(f, f), pow \div 2)
DividedOut(n, by) == IF n < 0 THEN -(-n \div by) ELSE n \div by

RECURSIVE DownToOne(_, _, _)
DownToOne(f, base, log) ==
  IF CompareBig(Big(base, 0), f) < 0 THEN DownToOne(Divide(f, Big(base, 0)), base, log + 1)
  ELSE IF CompareBig(f, Big(1, 0)) < 0 THEN DownToOne(Multiply(f, Big(base, 0)), base, log - 1)
  ELSE [val |-> f, log |-> log]
ToLogAndCoeffient(f, base) ==
  LET log   == DividedOut(LogCeil(Magn(f.m)) + f.e, LogFloor(base))
      power == PowerOf(Big(base, 0), Magn(log))
      me    == Big(Magn(f.m), f.e)
      got   == DownToOne(IF log < 0 THEN Multiply(power, me) ELSE Divide(me, power), base, log)
  IN  IF f.m = 0 THEN [val |-> f, log |-> 0]
      ELSE [got EXCEPT !.val.m = SameSign(@, f.m)]

\* exponent_log10_and_component_: powers of ten to the powers of two
PowerOfTen[i \in 0 .. 8] == IF i = 0 THEN Big(10, 0) ELSE Multiply(PowerOfTen[i - 1], PowerOfTen[i - 1])
OneOverPower[i \in 0 .. 8] == IF i = 0 THEN Inverse10 ELSE Multiply(OneOverPower[i - 1], OneOverPower[i - 1])
Lowered(c, i) ==
  IF CompareBig(PowerOfTen[i], c.val) > 0 THEN c
  ELSE [val |-> Multiply(c.val, OneOverPower[i]), log |-> c.log + 2 ^ i]
Lifted(c, i) ==
  IF CompareBig(c.val, OneOverPower[i]) > 0 THEN c
  ELSE [val |-> Multiply(c.val, PowerOfTen[i]), log |-> c.log - 2 ^ i]
ComponentByTable(val) ==
  LET c    == [val |-> val, log |-> 0]
      down == FoldLeft(Lowered, c, [i \in 1 .. 9 |-> 9 - i])
      up   == FoldLeft(Lifted, c, [i \in 1 .. 9 |-> 9 - i])
  IN  IF CompareBig(Big(10, 0), val) <= 0 THEN down
      ELSE IF CompareBig(val, Big(1, 0)) >= 0 THEN c
      ELSE IF CompareBig(up.val, Big(1, 0)) < 0
      THEN [val |-> Multiply(up.val, PowerOfTen[0]), log |-> up.log - 1] ELSE up

\* from_float_fill_fixed: half a unit of the last place is added first
RoundedBy(f, power, split) ==
  IF CompareBig(Big(1, -1), IF split.whole = Refused THEN Big(0, 0) ELSE split.rest) <= 0
  THEN Add(f, Divide(Big(1, 0), power)) ELSE f
RoundedTo(f, power) == RoundedBy(f, power, IntegralAndFraction(Multiply(f, power)))
RoundedAt(f, base, accuracy) == RoundedTo(f, PowerOf(Big(base, 0), accuracy))
\* what is left is dropped when it is below the last place
Limited(f, radix, left) ==
  LET log == DividedOut(LogCeil(f.m) + f.e, LogCeil(radix))
  IN  IF log > 0 \/ left < -log THEN Big(0, f.e) ELSE f
RECURSIVE FractionDigits(_, _, _)
FractionDigits(f, radix, left) ==
  LET split == IntegralAndFraction(f)
  IN  IF f.m = 0 \/ left = 0 THEN <<>>
      ELSE <<split.whole>>
           \o FractionDigits(Multiply(Limited(split.rest, radix, left - 1), Big(radix, 0)), radix, left - 1)
WholeDigits(n, radix) == IF n = 0 THEN <<0>> ELSE DigitsOf(n, radix)
RECURSIVE LargeDigits(_, _, _)
LargeDigits(f, base, log) ==
  LET split == IntegralAndFraction(f)
  IN  IF log = 0 THEN [digits |-> WholeDigits(split.whole, base), rest |-> split.rest]
      ELSE LET next == LargeDigits(Multiply(split.rest, Big(base, 0)), base, log - 1)
           IN  [next EXCEPT !.digits = <<split.whole>> \o @]
Written(whole, rest, radix, accuracy) ==
  IF accuracy = 0 /\ rest.m # 0 THEN whole
  ELSE whole \o <<Point>> \o FractionDigits(Multiply(rest, Big(radix, 0)), radix, accuracy)
WrittenLarge(large, radix, accuracy) ==
  Written(large.digits, Limited(large.rest, radix, accuracy), radix, accuracy)
WrittenSplit(split, val, radix, accuracy) ==
  LET c == ToLogAndCoeffient(val, radix)
  IN  IF split.whole = Refused THEN WrittenLarge(LargeDigits(c.val, radix, c.log), radix, accuracy)
      ELSE Written(WholeDigits(split.whole, radix), Limited(split.rest, radix, accuracy), radix, accuracy)
RadixText(val, radix, accuracy) == WrittenSplit(IntegralAndFraction(val), val, radix, accuracy)
RadixFixed(f, radix, accuracy) == RadixText(RoundedAt(f, radix, accuracy), radix, accuracy)

---------------------------------------------------------------------------
(* What is promised                                                        *)

MaxRoom == 30
MostDigits == Max(Accuracies)
FlInit == double \in {Double(field, 0) : field \in 0 .. MaxField}
FlNext == double.mantissa < 2 ^ MantissaBits - 1 /\ double' = [double EXCEPT !.mantissa = @ + 1]

Greater(x, y) == IF x < y THEN y ELSE x
Off(x, y) == Magn(x - y)
\* a * 2^i against b * 2^j, to the given fraction of b
Near(a, i, b, j, fraction) ==
  LET least == Lesser(i, j)
      right == b * 2 ^ (j - least)
  IN  Off(a * 2 ^ (i - least), right) <= right \div fraction

\* The component is one digit and a fraction, and the power of ten that of the number.
ComponentHolds(c, val) ==
  /\ 2 ^ (-c.val.e) <= c.val.m /\ c.val.m < 10 * 2 ^ (-c.val.e)
  /\ Near(c.val.m * 10 ^ Positive(c.log), c.val.e, val.m * 10 ^ Positive(-c.log), val.e, 8)

\* The scientific text is the component rounded to the nearest, ties to even.
ScientificHolds(c, accuracy) ==
  LET digits == DigitsOf(NearestTo(c.val.m * 10 ^ accuracy, 2 ^ (-c.val.e)), 10)
      over   == Len(digits) - accuracy - 1
  IN  Scientific(c.val, c.log, accuracy)
        = WithoutTail(<<digits[1], Point>> \o SubSeq(digits, 2, accuracy + 1)) \o Mark(c.log + over)

\* The fixed text is the component to the nearest unit of the last digit asked for
\* if the digits were used up two by two; otherwise it is one of the two nearest, or
\* the next digit of all nines came out wrong.
PlacesAfter(text) == LET points == {k \in DOMAIN text : text[k] = Point}
                     IN  IF points = {} THEN 0 ELSE Len(text) - Min(points)
FixedTextHolds(s, size, text, c, accuracy) ==
  LET most  == Greater(accuracy, c.log)
      value == NumberOf(SelectSeq(text, LAMBDA ch : ch # Point), 10)
               * 10 ^ (most - c.log - PlacesAfter(text))
      unit  == 10 ^ (most - accuracy) * 2 ^ (-c.val.e)
      off   == Off(value * 2 ^ (-c.val.e), c.val.m * 10 ^ most)
  IN  s.torn \/ 10 \in {text[k] : k \in DOMAIN text}
      \/ IF Len(s.buf) # 1 /\ accuracy >= c.log THEN 2 * off <= unit ELSE off <= unit
DigitsHold(s, size, c, accuracy) == FixedTextHolds(s, size, FixedText(s, size), c, accuracy)
SizeHolds(size, c, accuracy) == DigitsHold(FixedDigits(c.val, size), size, c, accuracy)
FixedHolds(c, accuracy) == SizeHolds(FillSize(c.log, accuracy), c, accuracy)

\* A printed text is read as the number it came from, within the digits of a double:
\* but for the wrong digit, an exponent of zero, fractions near the last bit of a word,
\* and the largest double, whose text may be refused.
Exempt(text, val) ==
  \/ text = NoText \/ 10 \in {text[k] : k \in DOMAIN text} \/ Sections(text, 10).exponent = <<0>>
  \/ Point \in {text[k] : k \in DOMAIN text} /\ val.e + Width(val.m) < 7 - FloatWord
ReadHolds(text, read, d, val) ==
  Exempt(text, val) \/ (d = MaxDouble /\ read = NoDouble)
  \/ LET got == DoubleToBig(read) IN Near(got.m, got.e, val.m, val.e, 8)

\* The other ways to a power end between one and the base, near the number: the table's
\* may end a little below one.
NearPower(c, base, val) ==
  /\ CompareBig(c.val, Big(base, 0)) <= 0
  /\ Near(c.val.m * base ^ Positive(c.log), c.val.e, val.m * base ^ Positive(-c.log), val.e, 8)
TableHolds(c, val) == NearPower(c, 10, val) /\ CompareBig(Big(63, -6), c.val) <= 0
LogHolds(c, base, val) == NearPower(c, base, val) /\ CompareBig(Big(1, 0), c.val) <= 0
PowersHold(val) ==
  /\ TableHolds(ComponentByTable(val), val)
  /\ \A base \in {2, 10} : LogHolds(ToLogAndCoeffient(val, base), base, val)

\* A text in any radix is off by at most one unit of its last place, and by what a word
\* can lose in a few products; a digit may be the radix itself.
RadixHolds(text, val, radix, accuracy) ==
  LET places == PlacesAfter(text)
      value  == NumberOf(SelectSeq(text, LAMBDA ch : ch # Point), radix)
      at     == Lesser(0, val.e)
      exact  == val.m * radix ^ places * 2 ^ (val.e - at)
      off    == Off(value * 2 ^ (-at), exact)
  IN  IF val.e + Width(val.m) < FloatWord
      THEN off * radix ^ (accuracy - places) <= 2 ^ (-at) + exact \div 64
      ELSE off <= exact \div 16

\* The bits of a double are read and written again, but for denormal powers of two.
BitsHold(d) ==
  LET f == GetBigFloat(d)
  IN  IF d.field = MaxField THEN ToFloat(f, FALSE) = NoDouble
      ELSE ToFloat(f, FALSE) = IF d.field = 0 /\ SingleBit(f.m) THEN Double(0, 0) ELSE d

\* Sums are wrong by less than two units of the result, products by less than one,
\* quotients by what half a word holds; an integral and its fraction add up to the number.
Units(f, least) == f.m * 2 ^ (f.e - least)
SumHolds(a, b) ==
  LET sum == Add(a, b)
      at  == Lesser(sum.e, Lesser(a.e, b.e))
  IN  Off(Units(a, at) + Units(b, at), Units(sum, at)) < 2 ^ (sum.e - at + 1)
ProductHolds(a, b) ==
  LET product == Multiply(a, b)
      at      == Lesser(product.e, a.e + b.e)
      exact   == Magn(a.m * b.m) * 2 ^ (a.e + b.e - at)
      got     == Magn(Units(product, at))
  IN  /\ exact <= got /\ got < exact + 2 ^ (product.e - at)
      /\ product.m # 0 => (product.m < 0 <=> (a.m < 0 /\ b.m > 0) \/ (a.m > 0 /\ b.m < 0))
QuotientHolds(a, b) ==
  LET q == Divide(a, b)
  IN  IF b.m = 0 THEN q = NoBig
      ELSE Near(Magn(q.m * b.m), q.e + b.e, Magn(a.m), a.e, 2 ^ (FloatWord \div 2 - 3))
DoubleBits(f) == LET r == Rounded(Magn(f.m), f.e) IN Big(SameSign(r.m, f.m), r.e)
\* of two numbers with the bits of a double; zero is as wide as a word
CompareHolds(a, b) ==
  LET at == Lesser(a.e, b.e)
      zero(x, y) == x.m = 0 /\ y.e + Width(Magn(y.m)) < 3 - FloatWord
  IN  zero(a, b) \/ zero(b, a) \/ CompareBig(a, b) = Sign(Units(a, at) - Units(b, at))
SplitHolds(f) ==
  LET split == IntegralAndFraction(f)
      at    == Lesser(0, Lesser(f.e, split.rest.e))
  IN  IF f.m = 0 THEN split.whole = 0 /\ split.rest.m = 0
      ELSE IF split.whole = Refused THEN f.e > 0 /\ Width(Magn(f.m)) + f.e >= FloatWord
      ELSE /\ split.whole = SameSign(Shift(Magn(f.m), f.e), f.m)
           /\ Units(split.rest, at) = Units(f, at) - split.whole * 2 ^ (-at)
ArithmeticHolds(a) ==
  /\ SplitHolds(a) /\ SplitHolds(Neg(a))
  /\ \A b \in {f \in Others : Off(a.e, f.e) <= FloatWord + 1} :
       /\ SumHolds(a, b) /\ ProductHolds(a, b) /\ QuotientHolds(a, b)
       /\ CompareHolds(a, DoubleBits(b))

\* A room too small is refused, a room for the text is not.
RoomsHold(c, accuracy, text, need) ==
  /\ PrintedNumber(c, accuracy, Len(text) - 1, "scientific") = NoText
  /\ PrintedNumber(c, accuracy, Len(text), "scientific") = text
  /\ PrintedNumber(c, accuracy, need - 1, "fixed") = NoText
  /\ PrintedNumber(c, accuracy, need, "general") = PrintedNumber(c, accuracy, need, "fixed")
  /\ PrintedNumber(c, accuracy, need - 3, "general") \in {NoText, text}

TextsHold(c, accuracy) ==
  /\ ScientificHolds(c, accuracy) /\ FixedHolds(c, accuracy)
  /\ RoomsHold(c, accuracy, PrintedNumber(c, accuracy, MaxRoom, "scientific"),
               FillSize(c.log, accuracy).chars + 2)
ReadBack(text, d, val) == ReadHolds(text, ReadReal(text), d, val)
ComponentsHold(c, val) ==
  ComponentHolds(c, val) /\ \A accuracy \in Accuracies : TextsHold(c, accuracy)
NumberHolds(d, val) ==
  /\ ArithmeticHolds(val) /\ PowersHold(val) /\ ComponentsHold(Component(val), val)
  /\ \A radix \in {2, 8, 10}, accuracy \in Accuracies :
       RadixHolds(RadixFixed(val, radix, accuracy), val, radix, accuracy)
  /\ \A format \in {"fixed", "scientific"} : ReadBack(Printed(d, MostDigits, MaxRoom, format), d, val)
FloatsAgree ==
  /\ BitsHold(double)
  /\ IF double.field = MaxField THEN Printed(double, 0, MaxRoom, "general")[1] \in {18, 23}
     ELSE DoubleToBig(double).m # 0 => NumberHolds(double, DoubleToBig(double))
=============================================================================
