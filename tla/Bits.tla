---------------------------------- MODULE Bits ----------------------------------
(***************************************************************************)
(* The puzzles of "Labs individuales/lab2/bits.c" and the functions of     *)
(* tests.c that say what they should return.  The width is a parameter: a  *)
(* word has four bytes of B bits, and a float a sign, an exponent of E and *)
(* a fraction of F bits.  In the C code B is 8 and F is 23.                *)
(*                                                                         *)
(* Arguments that are bit or byte numbers, and floatPower2's exponent, are *)
(* numbers; the other ones and the results are words.                      *)
(***************************************************************************)
EXTENDS BitWords

CONSTANTS B, F

E == W - 1 - F
ASSUME FormatAssumption ==
  /\ B \in Nat /\ B >= 2 /\ B % 2 = 0 /\ W = 4 * B
  /\ F \in Nat /\ F >= 2 /\ E >= 2

bitAnd(x, y) == Not(Not(x) \cup Not(y))

bitXor(x, y) ==
  LET operation_1 == Not(x \cap y)
      operation_2 == Not(Not(x) \cap Not(y))
  IN  operation_1 \cap operation_2

negate(x) == Add(Not(x), One)

\* Mutant: the bytes are put in without clearing their places.
byteSwap_SinBorrar(x, n, m) ==
  LET mask_ff == 0 .. B - 1
  IN  x \cup Shl(Sar(x, B * n) \cap mask_ff, B * m) \cup Shl(Sar(x, B * m) \cap mask_ff, B * n)

byteSwap(x, n, m) ==
  LET mask_ff == 0 .. B - 1
      byte_n == Sar(x, B * n) \cap mask_ff
      byte_m == Sar(x, B * m) \cap mask_ff
      mask1 == Not(Shl(mask_ff, B * m) \cup Shl(mask_ff, B * n))
  IN  (x \cap mask1) \cup (Shl(byte_n, B * m) \cup Shl(byte_m, B * n))

allOddBits(x) ==
  LET byte == {i \in 0 .. B - 1 : i % 2 = 1}  \* 0xAA
      half == Shl(byte, B) \cup byte
      mask == Shl(half, 2 * B) \cup half
  IN  LNot(Xor(x \cap mask, mask))

bitMask(highbit, lowbit) ==
  LET all_ones_mask == Not({})
      high_bits == Shl(Shl(all_ones_mask, highbit), 1)
      low_bits == Shl(all_ones_mask, lowbit)
  IN  Xor(high_bits, low_bits) \cap low_bits

conditional(x, y, z) ==
  LET mask == Add(Not(LNot(LNot(x))), One)
  IN  (mask \cap y) \cup (Not(mask) \cap z)

isAsciiDigit(x) ==
  LET lower_limit == Sar(Add(Not(OfInt(47)), x), W - 1)
      upper_limit == Sar(Add(OfInt(58), Not(x)), W - 1)
  IN  LNot(lower_limit \cup upper_limit)

isNonZero(x) ==
  LET not_x == Add(Not(x), One)
  IN  Sar(x \cup not_x, W - 1) \cap One

logicalNeg(x) ==
  LET not_x == Add(Not(x), One)
      mask == Not({})
  IN  Xor(Sar(x \cup not_x, W - 1), mask) \cap One

mask_bit_significant == Shl(One, W - 1)
mask_exp == Shl(0 .. E - 1, F)
mask_frac(uf) == uf \cap Not(Sar(mask_bit_significant, E))

floatNegate(uf) ==
  IF mask_exp \cap uf = mask_exp /\ mask_frac(uf) # {} THEN uf
  ELSE Xor(uf, mask_bit_significant)

floatAbsVal(uf) ==
  IF mask_exp \cap uf = mask_exp /\ mask_frac(uf) # {} THEN uf
  ELSE uf \cap Not(mask_bit_significant)

Bias == 2^(E - 1) - 1  \* 0x7F

floatPower2(x) ==
  LET displacement == -x - Bias
  IN  CASE x < -(Bias + F) -> {}
        [] x <= -Bias /\ x >= -(Bias + F) -> Shl(One, F - displacement)
        [] x <= Bias /\ x >= 1 - Bias -> Shl(OfInt(Bias + x), F)
        [] OTHER -> Shl(0 .. E - 1, F)

-----------------------------------------------------------------------------
(***************************************************************************)
(* tests.c                                                                 *)
(***************************************************************************)

test_bitAnd(x, y) == x \cap y

test_bitXor(x, y) == Xor(x, y)

test_negate(x) == OfInt(-ToInt(x))

\* Byte n is cut out before byte m is read.
test_byteSwap(x, n, m) ==
  LET byte(k) == B * k .. B * k + B - 1
      nmask == Shr(x \cap byte(n), B * n)
      rest == x \ byte(n)
      mmask == Shr(rest \cap byte(m), B * m)
  IN  (rest \ byte(m)) \cup Shl(nmask, B * m) \cup Shl(mmask, B * n)

test_allOddBits(x) == Truth(\A i \in Bit : i % 2 = 1 => i \in x)

test_bitMask(highbit, lowbit) == lowbit .. highbit

test_conditional(x, y, z) == IF x # {} THEN y ELSE z

test_isAsciiDigit(x) == Truth(48 <= ToInt(x) /\ ToInt(x) <= 57)

test_isNonZero(x) == Truth(x # {})

test_logicalNeg(x) == Truth(x = {})

\* A float: sign, exponent and fraction, as the union of tests.c reads them.
u2f(u) == [sign |-> W - 1 \in u, exp |-> u \cap (F .. W - 2), frac |-> u \cap (0 .. F - 1)]
f2u(f) == (IF f.sign THEN {W - 1} ELSE {}) \cup f.exp \cup f.frac
isnan(f) == f.exp = F .. W - 2 /\ f.frac # {}
Minus(f) == [sign |-> ~f.sign, exp |-> f.exp, frac |-> f.frac]

test_floatNegate(uf) == IF isnan(u2f(uf)) THEN uf ELSE f2u(Minus(u2f(uf)))

test_floatAbsVal(uf) ==
  IF isnan(u2f(uf)) THEN uf
  ELSE IF W - 1 \in uf THEN f2u(Minus(u2f(uf))) ELSE uf

\* A power of two as a float, by its exponent.  One below the least exponent
\* of a denormal stands for 0, which a product below it rounds to, and one
\* above the greatest for infinity.
MinExp == 1 - Bias - F
Rounded(e) == IF e < MinExp THEN MinExp - 1 ELSE IF e > Bias THEN Bias + 1 ELSE e
PowerToFloat(e) ==
  CASE e < MinExp -> [sign |-> FALSE, exp |-> {}, frac |-> {}]
    [] e > Bias -> [sign |-> FALSE, exp |-> F .. W - 2, frac |-> {}]
    [] e >= MinExp /\ e < 1 - Bias -> [sign |-> FALSE, exp |-> {}, frac |-> {e - MinExp}]
    [] OTHER -> [sign |-> FALSE, exp |-> Shl(OfInt(e + Bias), F), frac |-> {}]

\* Square and multiply, on exponents, of the result and of p2.
Exps == MinExp - 1 .. Bias + 1
loop[n \in Nat] ==
  [result \in Exps |-> [p2 \in Exps |->
     IF n = 0 THEN result
     ELSE loop[n \div 2][IF n % 2 = 1 THEN Rounded(result + p2) ELSE result][Rounded(p2 + p2)]]]

test_floatPower2(x) ==
  IF x = -(2^(W - 1)) THEN {}
  ELSE f2u(PowerToFloat(IF x < 0 THEN loop[-x][0][-1] ELSE loop[x][0][1]))
=================================================================================
