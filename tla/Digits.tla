------------------------------- MODULE Digits -------------------------------
(***************************************************************************)
(* Printing integers in base ten (mjz_uintconv.hpp).  No division: a       *)
(* number is multiplied by a power of ten rounded up to some bits, which   *)
(* leaves its first digits above the binary point and the others below it. *)
(* The fraction times 100 has the next two above the point, and since      *)
(* 100 = 25 * 4, times 25 with the point two bits lower.                   *)
(*                                                                         *)
(* A printer returns what it looks up or stores, in order: a number below  *)
(* 100 for an entry of modolo_raidex_table (two characters), a number      *)
(* below 10 for one character.  Words wrap around: that no digit is lost   *)
(* that way is part of what is to be shown.  A word of packed digits is    *)
(* the tuple of its bytes, lowest first (a little-endian machine).         *)
(***************************************************************************)
EXTENDS Integers

S8  == 256
S10 == 1024
S11 == 2048
S14 == 16384
S16 == 65536
S19 == 524288
S24 == 16777216
S26 == 67108864
S28 == 268435456
S32 == 4294967296
S33 == 8589934592
S34 == 17179869184
S40 == 1099511627776
S41 == 2199023255552
S47 == 140737488355328
S54 == 18014398509481984
S57 == 144115188075855872
S60 == 1152921504606846976
S64 == 18446744073709551616
S90 == 1237940039285380274899124224

Word16(x) == x % S16
Word32(x) == x % S32
Word(x)   == x % S64

\* what the digits of n are: the ones between two powers of ten
Slice(n, high, low) == (n % high) \div low

\* the fraction of r, a number with the point at m, times f
Next64(r, m, f) == Word((r % m) * f)
Next32(r, m, f) == Word32((r % m) * f)

-----------------------------------------------------------------------------
(* uint_to_dec_par_impl_exact_<width>: as many digits as the number has. *)

Exact1(n) == <<n>>
Exact2(n) == <<n>>

Exact3Byte(n) ==
  LET r1 == Word32(205 * n)
      r2 == Next32(r1, S11, 5)
  IN  <<r1 \div S11, r2 \div (S11 \div 2)>>

Exact3(n) ==
  LET r1 == Word32(1639 * n)
      r2 == Next32(r1, S14, 5)
  IN  <<r1 \div S14, r2 \div (S14 \div 2)>>

Exact4(n) ==
  LET r1 == Word32(5243 * n)
      r2 == Next32(r1, S19, 25)
  IN  <<r1 \div S19, r2 \div (S19 \div 4)>>

Exact5(n) ==
  LET r1 == Word(67109 * n)
      r2 == Next32(r1, S26, 25)
      r3 == Next32(r2, S26 \div 4, 5)
  IN  <<r1 \div S26, r2 \div (S26 \div 4), r3 \div (S26 \div 8)>>

Exact6(n) ==
  LET r1 == Word(1717987 * n)
      r2 == Next64(r1, S34, 25)
      r3 == Next64(r2, S34 \div 4, 25)
  IN  <<r1 \div S34, r2 \div (S34 \div 4), r3 \div (S34 \div 16)>>

Exact7(n) ==
  LET r1 == Word(21990233 * n)
      r2 == Next64(r1, S41, 25)
      r3 == Next64(r2, S41 \div 4, 25)
      r4 == Next64(r3, S41 \div 16, 5)
  IN  <<r1 \div S41, r2 \div (S41 \div 4), r3 \div (S41 \div 16), r4 \div (S41 \div 32)>>

Exact8(n) ==
  LET r1 == Word(140737489 * n)
      r2 == Next64(r1, S47, 25)
      r3 == Next64(r2, S47 \div 4, 25)
      r4 == Next64(r3, S47 \div 16, 25)
  IN  <<r1 \div S47, r2 \div (S47 \div 4), r3 \div (S47 \div 16), r4 \div (S47 \div 64)>>

Exact9(n) ==
  LET r1 == Word(1801439851 * n)
      r2 == Next64(r1, S54, 25)
      r3 == Next64(r2, S54 \div 4, 25)
      r4 == Next64(r3, S54 \div 16, 25)
      r5 == Next64(r4, S54 \div 64, 5)
  IN  <<r1 \div S54, r2 \div (S54 \div 4), r3 \div (S54 \div 16), r4 \div (S54 \div 64),
        r5 \div (S54 \div 128)>>

\* a 32-bit number
Exact10(n) ==
  LET r1 == Word(1441151881 * n)
      r2 == Next64(r1, S57, 25)
      r3 == Next64(r2, S57 \div 4, 25)
      r4 == Next64(r3, S57 \div 16, 25)
      r5 == Next64(r4, S57 \div 64, 25)
  IN  <<r1 \div S57, r2 \div (S57 \div 4), r3 \div (S57 \div 16), r4 \div (S57 \div 64),
        r5 \div (S57 \div 256)>>

\* a wider one: the halves are passed on as 32-bit numbers
Exact10Wide(n) ==
  LET h == Exact5(Word32(n \div 100000))
      l == Exact5(Word32(n % 100000))
  IN  <<h[1], h[2], h[3], l[1], l[2], l[3]>>

\* 11 to 20 digits: the first digits of "high" printed before the "low" ones
Exact11(n) ==
  LET h == Exact6(Word32(n \div 100000))
      l == Exact5(Word32(n % 100000))
  IN  <<h[1], h[2], h[3], l[1], l[2], l[3]>>

Exact12(n) ==
  LET h == Exact6(Word32(n \div 1000000))
      l == Exact6(Word32(n % 1000000))
  IN  <<h[1], h[2], h[3], l[1], l[2], l[3]>>

Exact13(n) ==
  LET h == Exact7(Word32(n \div 1000000))
      l == Exact6(Word32(n % 1000000))
  IN  <<h[1], h[2], h[3], h[4], l[1], l[2], l[3]>>

Exact14(n) ==
  LET h == Exact7(Word32(n \div 10000000))
      l == Exact7(Word32(n % 10000000))
  IN  <<h[1], h[2], h[3], h[4], l[1], l[2], l[3], l[4]>>

Exact15(n) ==
  LET h == Exact8(Word32(n \div 10000000))
      l == Exact7(Word32(n % 10000000))
  IN  <<h[1], h[2], h[3], h[4], l[1], l[2], l[3], l[4]>>

Exact16(n) ==
  LET h == Exact8(Word32(n \div 100000000))
      l == Exact8(Word32(n % 100000000))
  IN  <<h[1], h[2], h[3], h[4], l[1], l[2], l[3], l[4]>>

Exact17(n) ==
  LET h == Exact9(Word32(n \div 100000000))
      l == Exact8(Word32(n % 100000000))
  IN  <<h[1], h[2], h[3], h[4], h[5], l[1], l[2], l[3], l[4]>>

Exact18(n) ==
  LET h == Exact9(Word32(n \div 1000000000))
      l == Exact9(Word32(n % 1000000000))
  IN  <<h[1], h[2], h[3], h[4], h[5], l[1], l[2], l[3], l[4], l[5]>>

Exact19(n) ==
  LET h == Exact10Wide(n \div 1000000000)
      l == Exact9(Word32(n % 1000000000))
  IN  <<h[1], h[2], h[3], h[4], h[5], h[6], l[1], l[2], l[3], l[4], l[5]>>

Exact20(n) ==
  LET h == Exact10(Word32(n \div 10000000000))
      l == Exact10Wide(n % 10000000000)
  IN  <<h[1], h[2], h[3], h[4], h[5], l[1], l[2], l[3], l[4], l[5], l[6]>>

-----------------------------------------------------------------------------
(* dec_width: the digits of a number, from its bits. *)

floor10_table ==
  <<1, 10, 100, 1000, 10000, 100000, 1000000, 10000000, 100000000, 1000000000,
    10000000000, 100000000000, 1000000000000, 10000000000000, 100000000000000,
    1000000000000000, 10000000000000000, 100000000000000000,
    1000000000000000000, 10000000000000000000, S64 - 1>>

\* std::bit_width(x) = bits
two_powers ==
  <<1, 2, 4, 8, 16, 32, 64, 128, 256, 512, 1024, 2048, 4096, 8192, 16384,
    32768, 65536, 131072, 262144, 524288, 1048576, 2097152, 4194304, 8388608,
    16777216, 33554432, 67108864, 134217728, 268435456, 536870912,
    1073741824, 2147483648, 4294967296, 8589934592, 17179869184, 34359738368,
    68719476736, 137438953472, 274877906944, 549755813888, 1099511627776,
    2199023255552, 4398046511104, 8796093022208, 17592186044416,
    35184372088832, 70368744177664, 140737488355328, 281474976710656,
    562949953421312, 1125899906842624, 2251799813685248, 4503599627370496,
    9007199254740992, 18014398509481984, 36028797018963968,
    72057594037927936, 144115188075855872, 288230376151711744,
    576460752303423488, 1152921504606846976, 2305843009213693952,
    4611686018427387904, 9223372036854775808, 18446744073709551616>>
HasBits(x, bits) == two_powers[bits] <= x /\ x < two_powers[bits + 1]

\* of n or 1, which has "bits" bits; log10 of 2 is 39/128, or 5/16 up to 32 bits
DecWidth(n, bits, bytes) ==
  LET x == (n + 1) - (n % 2)
      guess == IF bytes = 8 THEN (bits * 39) \div 128 ELSE (bits * 5) \div 16
  IN  guess + (IF floor10_table[guess + 1] <= x THEN 1 ELSE 0) - (IF n = 0 THEN 1 ELSE 0)

\* what int_to_dec_par prints of a number of so many bytes: <<width, number>>
\* of one uint_to_dec_par_impl_exact_ or of two, the first of at most 32 bits.
\* "width" is dec_width, or 1.
IntToDec(n, bytes, width) ==
  IF n < 10 THEN <<<<1, n>>>>
  ELSE IF n < 100 THEN <<<<2, n>>>>
  ELSE IF bytes = 1 THEN <<<<3, n>>>>
  ELSE IF Word16(n) = n THEN <<<<width, n>>>>
  ELSE IF n < 100000 THEN <<<<5, n>>>>
  ELSE IF Word32(n) = n THEN <<<<width, n>>>>
  ELSE IF n < 10000000000 THEN <<<<10, n>>>>
  ELSE <<<<width - 10, Word32(n \div 10000000000)>>, <<10, n % 10000000000>>>>

\* the unsigned number that is printed after the sign; "size" is 2^bits
Magnitude(i, size) ==
  IF i < 0 THEN (((size - 1) - (i % size)) + 1) % size ELSE i

-----------------------------------------------------------------------------
(* Printers that make a fixed number of digits, leading zeros included. *)

\* iota_3digits: a zero byte and three digits
Iota3(n) ==
  LET r1 == Word32(2684355 * n)
      r2 == Next32(r1, S28, 10)
      r3 == Next32(r2, S28, 10)
  IN  <<r1 \div S28, r2 \div S28, r3 \div S28>>

\* iota_4_u32digits
Iota4(n) ==
  LET r1 == Word32(268436 * n)
      r2 == Next32(r1, S28, 10)
      r3 == Next32(r2, S28, 10)
      r4 == Next32(r3, S28, 10)
  IN  <<r1 \div S28, r2 \div S28, r3 \div S28, r4 \div S28>>

\* iota_2_u16digits: the mask keeps 7 bits of the fraction, not 10
Iota2(n) ==
  LET r1 == Word16(103 * n)
      r2 == Word16((r1 % 128) * 10)
  IN  <<r1 \div S10, r2 \div S10>>

\* iota_5_u32_tou64digits
Iota5(n) ==
  LET r1 == Word(429497 * n)
      r2 == Next64(r1, S32, 10)
      r3 == Next64(r2, S32, 10)
      r4 == Next64(r3, S32, 10)
      r5 == Next64(r4, S32, 10)
  IN  <<r1 \div S32, r2 \div S32, r3 \div S32, r4 \div S32, r5 \div S32>>

\* hybrid_iota_8digits_noif_noload_u64
Iota8(n) ==
  LET r1 == Word(115292150461 * n)
      r2 == Next64(r1, S60, 10)
      r3 == Next64(r2, S60, 10)
      r4 == Next64(r3, S60, 10)
      r5 == Next64(r4, S60, 10)
      r6 == Next64(r5, S60, 10)
      r7 == Next64(r6, S60, 10)
      r8 == Next64(r7, S60, 10)
  IN  <<r1 \div S60, r2 \div S60, r3 \div S60, r4 \div S60,
        r5 \div S60, r6 \div S60, r7 \div S60, r8 \div S60>>

\* lookup_iota_8digits_ascii_noif
Lookup8(n) ==
  LET r1 == Word(144115188076 * n)
      r2 == Next64(r1, S57, 100)
      r3 == Next64(r2, S57, 100)
      r4 == Next64(r3, S57, 100)
  IN  <<r1 \div S57, r2 \div S57, r3 \div S57, r4 \div S57>>

\* lookup_iota_8digits_ascii below 10^6 and below 10^4: the other pairs are zero
Lookup6(n) ==
  LET r1 == Word(14411518807586 * n)
      r2 == Next64(r1, S57, 100)
      r3 == Next64(r2, S57, 100)
  IN  <<r1 \div S57, r2 \div S57, r3 \div S57>>

Lookup4(n) ==
  LET r1 == Word(1441151880758559 * n)
      r2 == Next64(r1, S57, 100)
  IN  <<r1 \div S57, r2 \div S57>>

LookupBySize(n) ==
  IF n < 100 THEN <<0, 0, 0, n>>
  ELSE IF n < 10000 THEN <<0, 0, Lookup4(n)[1], Lookup4(n)[2]>>
  ELSE IF n < 1000000 THEN <<0, Lookup6(n)[1], Lookup6(n)[2], Lookup6(n)[3]>>
  ELSE Lookup8(n)

-----------------------------------------------------------------------------
(* Four pairs or eight digits in one 64-bit word, all lanes at once. *)

\* h & 0xfff8'0000'fff8'0000 and h & 0xfc00'fc00'fc00'fc00
Keep13Of32(h) ==
  (S32 * ((h \div S32) - ((h \div S32) % S19))) + ((h % S32) - ((h % S32) % S19))
Lane16(h, low) == (h \div low) % S16
Keep6Of16(h) ==
  LET kept(low) == low * (Lane16(h, low) - (Lane16(h, low) % S10))
  IN  kept(1) + kept(S16) + kept(S32) + kept(S32 * S16)

\* the first digit of each lane to its low byte, the second to the high one
\* (u16x4_num_to_iota_impl_)
LanesToDigits(pairs) ==
  LET h == Word(pairs * 103)
      high == Keep6Of16(h)
      low == Keep6Of16(Word((h - high) * 10))
  IN  (high \div S10) + (low \div 4)

\* simd_8digit_conv_u64, to four digits in each half, to two in each quarter
SplitInHalves(n) ==
  LET h == Word(n * 109951163)
  IN  (h \div S40) + Word((Word((h % S40) * 625) \div (S40 \div 16)) * S32)
SplitInQuarters(halves) ==
  LET h == Word(halves * 5243)
      high == Keep13Of32(h)
      low == Keep13Of32(Word((h - high) * 100))
  IN  (high \div S19) + (low \div 8)
Conv8(n) == LanesToDigits(SplitInQuarters(SplitInHalves(n)))

\* countr_zero(word) >> 3, the zeros before the first digit of a word
ZeroBytes(h) ==
  IF h % S8 # 0 THEN 0 ELSE IF h % S16 # 0 THEN 1
  ELSE IF h % S24 # 0 THEN 2 ELSE IF h % S32 # 0 THEN 3
  ELSE IF h % (S32 * S8) # 0 THEN 4 ELSE IF h % (S32 * S16) # 0 THEN 5
  ELSE IF h % (S32 * S24) # 0 THEN 6 ELSE IF h # 0 THEN 7 ELSE 8

\* uint_to_dec_less1e9: the digits it prints, at least one
CountLess1e9(n) ==
  IF ZeroBytes(Conv8(n)) = 8 THEN 1 ELSE 8 - ZeroBytes(Conv8(n))

\* dec_from_uint_impl_semi_parallel_impl_ncx_ of a 64-bit number: the words it
\* fills from the last one on, and the digits of the 24 that are printed
SemiParallelWords(n) ==
  IF n < 100000000 THEN <<Conv8(n)>>
  ELSE LET q == n \div 100000000 IN
       IF q < 100000000 THEN <<Conv8(q), Conv8(n % 100000000)>>
       ELSE <<Conv8(q \div 100000000), Conv8(q % 100000000), Conv8(n % 100000000)>>
SemiParallelCount(n) ==
  IF n < 100000000 THEN CountLess1e9(n)
  ELSE LET q == n \div 100000000 IN
       IF q < 100000000 THEN 16 - ZeroBytes(Conv8(q))
       ELSE 24 - ZeroBytes(Conv8(q \div 100000000))

\* convert_base10p8_to_base10_u64_t
Base10p8ToBase10(n) ==
  LET p == Exact8(n)
  IN  LanesToDigits(p[1] + S16 * p[2] + S32 * p[3] + (S32 * S16) * p[4])

\* hybrid_iota_8digits_ascii_noif_noload
Hybrid8(n) ==
  LET p == Lookup8(n)
  IN  LanesToDigits(p[1] + S16 * p[2] + S32 * p[3] + (S32 * S16) * p[4])

\* convert_base10_to_base10p8_u64_t: eight digits, a nibble each, and back;
\* v & 0xf0f0f0f0, v & 0xff00ff00, v & 0xffff0000
Lane8(v, low) == (v \div low) % S8
HighNibbles(v) ==
  LET kept(low) == low * (Lane8(v, low) - (Lane8(v, low) % 16))
  IN  kept(1) + kept(S8) + kept(S16) + kept(S24)
HighBytes(v) ==
  ((v % S16) - (v % S8)) + S16 * (((v \div S16) % S16) - ((v \div S16) % S8))
HighHalf(v) == v - (v % S16)

Base10ToBase10p8(d) ==
  LET v0 == d[8] + 16 * d[7] + S8 * d[6] + (S8 * 16) * d[5]
            + S16 * d[4] + (S16 * 16) * d[3] + S24 * d[2] + (S24 * 16) * d[1]
      v1 == Word32(v0 - (HighNibbles(v0) \div 8) * 3)
      v2 == Word32(v1 - (HighBytes(v1) \div 64) * 39)
  IN  Word32(v2 - (HighHalf(v2) \div 4096) * 3471)

-----------------------------------------------------------------------------
(* uint_to_dec_pre_calc_impl_: printers that are given the width. *)

\* semi_par_ takes 4, 2 or 1 digits off the end: what is left and the digits
Last4(n) ==
  LET r1 == Word(109951163 * n)
      r2 == Next64(r1, S40, 10)
      r3 == Next64(r2, S40, 10)
      r4 == Next64(r3, S40, 10)
      r5 == Next64(r4, S40, 10)
  IN  <<r1 \div S40, r2 \div S40, r3 \div S40, r4 \div S40, r5 \div S40>>

Last2(n) ==
  LET r1 == Word(5243 * n)
      r2 == Next64(r1, S19, 10)
      r3 == Next64(r2, S19, 10)
  IN  <<r1 \div S19, r2 \div S19, r3 \div S19>>

Last1(n) ==
  LET r1 == Word(103 * n)
      r2 == Next64(r1, S10, 10)
  IN  <<r1 \div S10, r2 \div S10>>

\* inv_p10_b57: 10^-i with 57 bits, rounded up
inv_p10_b57(i) ==
  <<S57, 14411518807585588, 1441151880758559, 144115188075856, 14411518807586,
    1441151880759, 144115188076, 14411518808, 1441151881>>[i + 1]

\* seq_lessmul_: the last 3 or 4, 5 or 6, 7 or 8 digits; the first entry is one
\* digit when they are odd
LessMul4(n) ==
  LET r1 == Word(n * inv_p10_b57(2))
      r2 == Next64(r1, S57, 100)
  IN  <<r1 \div S57, r2 \div S57>>

LessMul6(n) ==
  LET r1 == Word(n * inv_p10_b57(4))
      r2 == Next64(r1, S57, 100)
      r3 == Next64(r2, S57, 100)
  IN  <<r1 \div S57, r2 \div S57, r3 \div S57>>

LessMul8(n) ==
  LET r1 == Word(n * inv_p10_b57(6))
      r2 == Next64(r1, S57, 100)
      r3 == Next64(r2, S57, 100)
      r4 == Next64(r3, S57, 100)
  IN  <<r1 \div S57, r2 \div S57, r3 \div S57, r4 \div S57>>

\* ... and eight digits at a time before them, with a product of 128 bits whose
\* fraction of 90 bits is rounded up to 57: what is left and the four pairs
LessMulEight(n) ==
  LET product == n * 12379400392853802749
      r1 == Word((product + S33 - 1) \div S33) % S57
      r2 == Word(r1 * 100)
      r3 == Next64(r2, S57, 100)
      r4 == Next64(r3, S57, 100)
      r5 == Next64(r4, S57, 100)
  IN  <<Word(product \div S90), r2 \div S57, r3 \div S57, r4 \div S57, r5 \div S57>>

\* more_mul_: all ten digits of a 32-bit number, of which "width" are stored
MoreMul(n) ==
  LET r1 == Word(n * inv_p10_b57(8))
      r2 == Next64(r1, S57, 100)
      r3 == Next64(r2, S57, 100)
      r4 == Next64(r3, S57, 100)
      r5 == Next64(r4, S57, 100)
  IN  <<r1 \div S57, r2 \div S57, r3 \div S57, r4 \div S57, r5 \div S57>>

\* ... of a byte
LessMulByte(n) ==
  LET r1 == Word32(205 * n)
      r2 == Next32(r1, S11, 10)
  IN  <<r1 \div S11, r2 \div S11>>

-----------------------------------------------------------------------------
(* get_devide_inverse_and_shift (uintN.hpp): any divisor that way. *)

\* the bits of the fraction: above(d) > d and above(v) >= the greatest value
Point(aboveDevisor, aboveValue) == aboveDevisor * aboveValue
Reciprocal(point, d) == point \div d + (IF point % d = 0 THEN 0 ELSE 1)
=============================================================================
