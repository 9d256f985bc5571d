------------------------------- MODULE BitsProofs -------------------------------
(***************************************************************************)
(* Theorems of lab2.  The puzzles return what tests.c says, for words of   *)
(* every width: that of an int, 32 bits, among them.  And btest, for every *)
(* width, options, defect and way the alarms ring: the alarm's jump, the   *)
(* score, the arrays of values, the borders that they reach and the one    *)
(* they do not, and the verdicts, which are just.                          *)
(***************************************************************************)
EXTENDS BTestProps, SumProofs, SequenceTheorems

-----------------------------------------------------------------------------
(***************************************************************************)
(* bits.c                                                                  *)
(***************************************************************************)

\* Bit k of the opposite of x, as bits.c computes it: that of x up to its
\* lowest one, the complement above it.
LEMMA BitDelOpuesto ==
  ASSUME NEW x \in Word, NEW k \in Bit
  PROVE  k \in Add(Not(x), One) <=>
           IF \A j \in 0 .. k - 1 : j \notin x THEN k \in x ELSE k \notin x
<1>1. k \in Add(Not(x), One) <=> ~(k \in Xor(Not(x), One) <=> Carry(Not(x), One, k))
  BY DEF Add
<1>2. Carry(Not(x), One, k) <=> k > 0 /\ \A j \in 0 .. k - 1 : j \notin x
  BY WidthAssumption DEF Carry, Not, One, Bit, Word
<1>3. k \in Xor(Not(x), One) <=> ~(k \notin x <=> k = 0)
  BY WidthAssumption DEF Xor, Not, One, Bit, Word
<1>4. CASE k = 0
  BY <1>1, <1>2, <1>3, <1>4
<1>5. CASE k # 0
  BY <1>1, <1>2, <1>3, <1>5, WidthAssumption DEF Bit
<1> QED
  BY <1>4, <1>5

\* The sign of x | -x: set unless x is 0.
LEMMA SignoDeXoMenosX ==
  ASSUME NEW x \in Word
  PROVE  W - 1 \in x \cup Add(Not(x), One) <=> x # {}
<1>1. W - 1 \in Bit
  BY WidthAssumption DEF Bit
<1>2. CASE x = {}
  <2>1. W - 1 \notin Add(Not(x), One)
    BY <1>1, <1>2, BitDelOpuesto
  <2> QED
    BY <1>2, <2>1
<1>3. CASE x # {}
  <2>1. PICK b \in Bit : b \in x
    BY <1>3 DEF Word
  <2>2. CASE W - 1 \notin x
    <3>1. b \in 0 .. (W - 1) - 1
      BY <2>1, <2>2, WidthAssumption DEF Bit
    <3>2. ~ \A j \in 0 .. (W - 1) - 1 : j \notin x
      BY <2>1, <3>1
    <3>3. W - 1 \in Add(Not(x), One)
      BY <1>1, <2>2, <3>2, BitDelOpuesto
    <3> QED
      BY <1>3, <3>3
  <2> QED
    BY <1>3, <2>2
<1> QED
  BY <1>2, <1>3

\* An arithmetic shift by W - 1 spreads the sign.
LEMMA SignoRepetido ==
  ASSUME NEW x
  PROVE  Sar(x, W - 1) = IF W - 1 \in x THEN Bit ELSE {}
<1>1. \A k \in Bit : k + (W - 1) < W => k + (W - 1) = W - 1
  BY WidthAssumption DEF Bit
<1> QED
  BY <1>1 DEF Sar

\* isNonZero and logicalNeg test the word for zero, where -x overflows too.
THEOREM CeroCorrecto ==
  \A x \in Word : isNonZero(x) = test_isNonZero(x) /\ logicalNeg(x) = test_logicalNeg(x)
<1> SUFFICES ASSUME NEW x \in Word
             PROVE  isNonZero(x) = test_isNonZero(x) /\ logicalNeg(x) = test_logicalNeg(x)
  OBVIOUS
<1> DEFINE s == Sar(x \cup Add(Not(x), One), W - 1)
<1>1. s = IF x # {} THEN Bit ELSE {}
  BY SignoDeXoMenosX, SignoRepetido
<1>2. One \subseteq Bit
  BY WidthAssumption DEF One, Bit
<1>3. isNonZero(x) = s \cap One
  BY DEF isNonZero
<1>4. logicalNeg(x) = Xor(s, Bit) \cap One
  BY DEF logicalNeg, Not
<1> HIDE DEF s
<1>5. CASE x = {}
  BY <1>1, <1>2, <1>3, <1>4, <1>5 DEF Xor, test_isNonZero, test_logicalNeg, Truth
<1>6. CASE x # {}
  BY <1>1, <1>2, <1>3, <1>4, <1>6 DEF Xor, test_isNonZero, test_logicalNeg, Truth
<1> QED
  BY <1>5, <1>6

\* The mask of conditional: ones when x is not 0, zeros when it is.
LEMMA MascaraDeConditional ==
  ASSUME NEW x \in Word
  PROVE  Add(Not(LNot(LNot(x))), One) = IF x # {} THEN Bit ELSE {}
<1>1. One \in Word /\ {} \in Word
  BY WidthAssumption DEF One, Word, Bit
<1>2. \A u \in Word : Add(Not(u), One) \subseteq Bit
  BY DEF Add
<1>3. CASE x = {}
  <2>1. LNot(LNot(x)) = {}
    BY <1>3 DEF LNot, Truth, One
  <2>2. \A k \in Bit : k \notin Add(Not({}), One)
    BY <1>1, BitDelOpuesto
  <2> QED
    BY <1>1, <1>2, <1>3, <2>1, <2>2
<1>4. CASE x # {}
  <2>1. LNot(LNot(x)) = One
    BY <1>4 DEF LNot, Truth, One
  <2>2. ASSUME NEW k \in Bit PROVE k \in Add(Not(One), One)
    <3>1. CASE k = 0
      BY <1>1, <3>1, BitDelOpuesto DEF One
    <3>2. CASE k # 0
      <4>1. 0 \in 0 .. k - 1 /\ 0 \in One /\ k \notin One
        BY <3>2 DEF Bit, One
      <4> QED
        BY <1>1, <4>1, BitDelOpuesto
    <3> QED
      BY <3>1, <3>2
  <2> QED
    BY <1>1, <1>2, <1>4, <2>1, <2>2
<1> QED
  BY <1>3, <1>4

\* bitAnd, bitXor and conditional compute what their names say.
THEOREM LogicaCorrecta ==
  \A x, y, z \in Word :
    /\ bitAnd(x, y) = test_bitAnd(x, y)
    /\ bitXor(x, y) = test_bitXor(x, y)
    /\ conditional(x, y, z) = test_conditional(x, y, z)
<1> SUFFICES ASSUME NEW x \in Word, NEW y \in Word, NEW z \in Word
             PROVE  /\ bitAnd(x, y) = test_bitAnd(x, y)
                    /\ bitXor(x, y) = test_bitXor(x, y)
                    /\ conditional(x, y, z) = test_conditional(x, y, z)
  OBVIOUS
<1>1. bitAnd(x, y) = test_bitAnd(x, y)
  BY DEF bitAnd, test_bitAnd, Not, Word
<1>2. bitXor(x, y) = test_bitXor(x, y)
  BY DEF bitXor, test_bitXor, Not, Xor, Word
<1>3. conditional(x, y, z) = test_conditional(x, y, z)
  <2> DEFINE m == Add(Not(LNot(LNot(x))), One)
  <2>1. conditional(x, y, z) = (m \cap y) \cup (Not(m) \cap z)
    BY DEF conditional
  <2>2. m = IF x # {} THEN Bit ELSE {}
    BY MascaraDeConditional
  <2> HIDE DEF m
  <2> QED
    BY <2>1, <2>2 DEF test_conditional, Not, Word
<1> QED
  BY <1>1, <1>2, <1>3

\* bitMask is the interval from lowbit to highbit, empty when they cross, at
\* both ends of the word too.
THEOREM MascaraCorrecta ==
  \A highbit, lowbit \in Bit : bitMask(highbit, lowbit) = test_bitMask(highbit, lowbit)
<1> SUFFICES ASSUME NEW h \in Bit, NEW l \in Bit
             PROVE  bitMask(h, l) = test_bitMask(h, l)
  OBVIOUS
<1>1. Shl(Not({}), l) = l .. W - 1
  BY WidthAssumption DEF Shl, Not, Bit
<1>2. Shl(Shl(Not({}), h), 1) = h + 1 .. W - 1
  BY WidthAssumption DEF Shl, Not, Bit
<1>3. bitMask(h, l) = Xor(h + 1 .. W - 1, l .. W - 1) \cap (l .. W - 1)
  BY <1>1, <1>2 DEF bitMask
<1> QED
  BY <1>3, WidthAssumption DEF Xor, test_bitMask, Bit

\* allOddBits builds its mask by doubling the odd bits of a byte.
THEOREM ImparesCorrecto ==
  \A x \in Word : allOddBits(x) = test_allOddBits(x)
<1> SUFFICES ASSUME NEW x \in Word PROVE allOddBits(x) = test_allOddBits(x)
  OBVIOUS
<1> DEFINE byte == {k \in 0 .. B - 1 : k % 2 = 1}
           half == Shl(byte, B) \cup byte
           mask == Shl(half, 2 * B) \cup half
           odd == {k \in Bit : k % 2 = 1}
<1>0. B \in Nat /\ B % 2 = 0 /\ B >= 2 /\ W = 4 * B /\ W \in Nat
  BY FormatAssumption, WidthAssumption
<1>1. \A k \in Int : (k - B) % 2 = k % 2 /\ (k - 2 * B) % 2 = k % 2
  BY <1>0
<1>2. half = {k \in 0 .. 2 * B - 1 : k % 2 = 1}
  BY <1>0, <1>1 DEF Shl, Bit
<1> HIDE DEF half
<1>3. mask = odd
  BY <1>0, <1>1, <1>2 DEF Shl, Bit
<1>4. allOddBits(x) = Truth(Xor(x \cap mask, mask) = {})
  BY DEF allOddBits, LNot, half
<1> HIDE DEF mask
<1>5. Xor(x \cap odd, odd) = {} <=> \A k \in Bit : k % 2 = 1 => k \in x
  BY DEF Xor
<1> QED
  BY <1>3, <1>4, <1>5 DEF test_allOddBits, Truth

\* byteSwap, which reads both bytes and then writes them, agrees with
\* test_byteSwap, which cuts one out before it reads the other: also when they
\* are the same byte.
THEOREM BytesCorrecto ==
  \A x \in Word, n, m \in 0 .. 3 : byteSwap(x, n, m) = test_byteSwap(x, n, m)
<1> SUFFICES ASSUME NEW x \in Word, NEW n \in 0 .. 3, NEW m \in 0 .. 3
             PROVE  byteSwap(x, n, m) = test_byteSwap(x, n, m)
  OBVIOUS
<1>0. B \in Nat /\ B >= 2 /\ W = 4 * B /\ W \in Nat
  BY FormatAssumption, WidthAssumption
<1> DEFINE p == B * n
           q == B * m
           ff == 0 .. B - 1
<1>1. /\ p \in Nat /\ q \in Nat /\ p + B <= W /\ q + B <= W
      /\ n = m => p = q
      /\ n # m => p + B <= q \/ q + B <= p
  <2>1. p \in {0, B, 2 * B, 3 * B} /\ q \in {0, B, 2 * B, 3 * B}
    BY <1>0
  <2>2. CASE n = m
    BY <1>0, <2>1, <2>2
  <2>3. CASE n < m
    BY <1>0, <2>3
  <2>4. CASE n > m
    BY <1>0, <2>4
  <2> QED
    BY <2>2, <2>3, <2>4
<1>2. byteSwap(x, n, m) =
        (x \cap Not(Shl(ff, q) \cup Shl(ff, p)))
          \cup (Shl(Sar(x, p) \cap ff, q) \cup Shl(Sar(x, q) \cap ff, p))
  BY DEF byteSwap
<1>3. test_byteSwap(x, n, m) =
        ((x \ (p .. p + B - 1)) \ (q .. q + B - 1))
          \cup Shl(Shr(x \cap (p .. p + B - 1), p), q)
          \cup Shl(Shr((x \ (p .. p + B - 1)) \cap (q .. q + B - 1), q), p)
  BY DEF test_byteSwap
<1> HIDE DEF p, q
<1>4. Not(Shl(ff, q) \cup Shl(ff, p)) = (Bit \ (p .. p + B - 1)) \ (q .. q + B - 1)
  BY <1>0, <1>1 DEF Not, Shl, Bit
<1>5. Shl(Sar(x, p) \cap ff, q) = {k \in q .. q + B - 1 : (k - q) + p \in x}
  BY <1>0, <1>1 DEF Shl, Sar, Bit
<1>6. Shl(Sar(x, q) \cap ff, p) = {k \in p .. p + B - 1 : (k - p) + q \in x}
  BY <1>0, <1>1 DEF Shl, Sar, Bit
<1>7. Shl(Shr(x \cap (p .. p + B - 1), p), q) = {k \in q .. q + B - 1 : (k - q) + p \in x}
  BY <1>0, <1>1 DEF Shl, Shr, Bit
<1>8. Shl(Shr((x \ (p .. p + B - 1)) \cap (q .. q + B - 1), q), p) =
        IF n = m THEN {} ELSE {k \in p .. p + B - 1 : (k - p) + q \in x}
  <2>1. CASE n = m
    BY <1>0, <1>1, <2>1 DEF Shl, Shr, Bit
  <2>2. CASE n # m
    BY <1>0, <1>1, <2>2 DEF Shl, Shr, Bit
  <2> QED
    BY <2>1, <2>2
<1>9. x \cap ((Bit \ (p .. p + B - 1)) \ (q .. q + B - 1)) = (x \ (p .. p + B - 1)) \ (q .. q + B - 1)
  BY DEF Word
<1>10. CASE n = m
  BY <1>1, <1>2, <1>3, <1>4, <1>5, <1>6, <1>7, <1>8, <1>9, <1>10
<1>11. CASE n # m
  BY <1>2, <1>3, <1>4, <1>5, <1>6, <1>7, <1>8, <1>9, <1>11
<1> QED
  BY <1>10, <1>11

\* The masks of the float puzzles are the fields of the format.
LEMMA CamposDelFlotante ==
  /\ F \in Nat /\ F < W - 1
  /\ mask_bit_significant = {W - 1}
  /\ mask_exp = F .. W - 2
  /\ \A u \in Word : mask_frac(u) = u \cap (0 .. F - 1)
<1>0. F \in Nat /\ F >= 2 /\ E >= 2 /\ W \in Nat /\ W >= 2 /\ E = W - 1 - F
  BY FormatAssumption, WidthAssumption DEF E
<1>1. mask_bit_significant = {W - 1}
  BY <1>0 DEF mask_bit_significant, Shl, One, Bit
<1>2. mask_exp = F .. W - 2
  BY <1>0 DEF mask_exp, Shl, Bit
<1>3. Sar({W - 1}, E) = F .. W - 1
  BY <1>0 DEF Sar, Bit
<1>4. ASSUME NEW u \in Word PROVE mask_frac(u) = u \cap (0 .. F - 1)
  BY <1>0, <1>1, <1>3 DEF mask_frac, Not, Bit, Word
<1> QED
  BY <1>0, <1>1, <1>2, <1>4

\* floatNegate and floatAbsVal change the sign alone, of everything but a NaN.
THEOREM FlotantesCorrectos ==
  \A uf \in Word :
    floatNegate(uf) = test_floatNegate(uf) /\ floatAbsVal(uf) = test_floatAbsVal(uf)
<1> SUFFICES ASSUME NEW uf \in Word
             PROVE  floatNegate(uf) = test_floatNegate(uf) /\ floatAbsVal(uf) = test_floatAbsVal(uf)
  OBVIOUS
<1>1. isnan(u2f(uf)) <=> mask_exp \cap uf = mask_exp /\ mask_frac(uf) # {}
  BY CamposDelFlotante DEF isnan, u2f
<1>2. uf \subseteq 0 .. W - 1
  BY DEF Word, Bit
<1>3. f2u(Minus(u2f(uf))) = (IF W - 1 \in uf THEN {} ELSE {W - 1}) \cup (uf \cap (0 .. W - 2))
  <2>0. F \in Nat /\ F < W - 1 /\ W \in Nat
    BY CamposDelFlotante, WidthAssumption
  <2> DEFINE v == u2f(uf)
  <2>1. /\ Minus(v).sign = ~(W - 1 \in uf)
        /\ Minus(v).exp = uf \cap (F .. W - 2)
        /\ Minus(v).frac = uf \cap (0 .. F - 1)
    BY CamposDelFlotante DEF Minus, u2f
  <2>2. (uf \cap (F .. W - 2)) \cup (uf \cap (0 .. F - 1)) = uf \cap (0 .. W - 2)
    BY <2>0
  <2>3. CASE W - 1 \in uf
    BY <2>1, <2>2, <2>3 DEF f2u
  <2>4. CASE W - 1 \notin uf
    BY <2>1, <2>2, <2>4 DEF f2u
  <2> QED
    BY <2>3, <2>4
<1>4. Xor(uf, {W - 1}) = (IF W - 1 \in uf THEN {} ELSE {W - 1}) \cup (uf \cap (0 .. W - 2))
  <2>0. W \in Nat /\ \A k \in uf : k \in Int /\ 0 <= k /\ (k = W - 1 \/ k <= W - 2)
    BY <1>2, WidthAssumption
  <2>1. uf \ {W - 1} = uf \cap (0 .. W - 2)
    BY <2>0
  <2>2. CASE W - 1 \in uf
    BY <2>1, <2>2 DEF Xor
  <2>3. CASE W - 1 \notin uf
    BY <2>1, <2>3 DEF Xor
  <2> QED
    BY <2>2, <2>3
<1>5. uf \cap Not({W - 1}) = uf \cap (0 .. W - 2)
  BY <1>2, WidthAssumption DEF Not, Bit
<1>6. floatNegate(uf) = test_floatNegate(uf)
  BY <1>1, <1>3, <1>4, CamposDelFlotante DEF floatNegate, test_floatNegate
<1>7. CASE W - 1 \in uf
  BY <1>1, <1>3, <1>5, <1>6, <1>7, CamposDelFlotante DEF floatAbsVal, test_floatAbsVal
<1>8. CASE W - 1 \notin uf
  <2>0. \A k \in uf : k \in 0 .. W - 2
    BY <1>2, <1>8, WidthAssumption
  <2>1. uf \cap (0 .. W - 2) = uf
    BY <2>0
  <2> QED
    BY <1>1, <1>5, <1>6, <1>8, <2>1, CamposDelFlotante DEF floatAbsVal, test_floatAbsVal
<1> QED
  BY <1>7, <1>8

-----------------------------------------------------------------------------
(***************************************************************************)
(* Words as numbers: what negate and isAsciiDigit compute where the sums   *)
(* overflow.                                                               *)
(***************************************************************************)

\* The number of a word is the sum of the weights of its bits.
LEMMA NumeroDePalabra ==
  ASSUME NEW x
  PROVE  \E v \in [0 .. W -> Nat] : Sumando(v, x, W) /\ ToNat(x) = v[W] /\ v[W] < Dos(W)
<1>0. W \in Nat /\ W \in 0 .. W
  BY WidthAssumption
<1>1. ToNat(x) = SumaElegida(x, W)[W]
  BY DEF ToNat, SumaElegida
<1>2. SumaElegida(x, W) \in [0 .. W -> Nat] /\ Sumando(SumaElegida(x, W), x, W)
  BY <1>0, ElegidaSuma
<1> DEFINE v == SumaElegida(x, W)
<1>3. v \in [0 .. W -> Nat] /\ Sumando(v, x, W) /\ ToNat(x) = v[W]
  BY <1>1, <1>2
<1> HIDE DEF v
<1>4. v[W] < Dos(W)
  BY <1>0, <1>3, SumasAcotadas
<1> QED
  BY <1>3, <1>4

\* It fits in the width.
LEMMA NumeroAcotado ==
  \A x : ToNat(x) \in Nat /\ ToNat(x) < Dos(W)
<1> TAKE x
<1>1. PICK v \in [0 .. W -> Nat] : ToNat(x) = v[W] /\ v[W] < Dos(W)
  BY NumeroDePalabra
<1>2. v[W] \in Nat
  BY WidthAssumption
<1> QED
  BY <1>1, <1>2

\* An integer that differs from it by a multiple of 2^W has its bits.
LEMMA PalabraDeNumero ==
  ASSUME NEW x \in Word, NEW n \in Int, NEW q \in Int, n = q * Dos(W) + ToNat(x)
  PROVE  OfInt(n) = x
<1>1. PICK v \in [0 .. W -> Nat] : Sumando(v, x, W) /\ ToNat(x) = v[W]
  BY NumeroDePalabra
<1>0. W \in Nat
  BY WidthAssumption
<1>2. n = q * Dos(W) + v[W]
  BY <1>1
<1>3. ASSUME NEW k \in Bit PROVE k \in x <=> (n \div 2^k) % 2 = 1
  <2>1. k \in Nat /\ k < W
    BY <1>0 DEF Bit
  <2>2. k \in x <=> (n \div Dos(k)) % 2 = 1
    BY <1>0, <1>1, <1>2, <2>1, BitsDeSuma
  <2> QED
    BY <2>2 DEF Dos
<1> QED
  BY <1>3 DEF OfInt, Word

\* And the word of a number that fits is that number.
LEMMA NumeroDeOfInt ==
  ASSUME NEW n \in Nat, n < Dos(W)
  PROVE  ToNat(OfInt(n)) = n
<1>0. W \in Nat /\ W \in 0 .. W
  BY WidthAssumption
<1> DEFINE x == OfInt(n)
<1>1. PICK v \in [0 .. W -> Nat] : Sumando(v, x, W) /\ ToNat(x) = v[W]
  BY NumeroDePalabra
<1>2. ASSUME NEW k \in Nat, k < W PROVE k \in x <=> (n \div Dos(k)) % 2 = 1
  <2>1. k \in Bit
    BY <1>0, <1>2 DEF Bit
  <2> QED
    BY <2>1 DEF OfInt, Dos
<1> HIDE DEF x
<1>3. n = v[W] + Dos(W) * (n \div Dos(W))
  <2>1. \A k \in 0 .. W : n = v[k] + Dos(k) * (n \div Dos(k))
    BY <1>0, <1>1, <1>2, SumaDeBits
  <2> QED
    BY <1>0, <2>1
<1> DEFINE d == Dos(W)
<1>4. d \in Nat /\ n = 0 * d + n
  BY <1>0, DosBase
<1>5. n \div d = 0
  <2>1. n < d
    OBVIOUS
  <2> HIDE DEF d
  <2> QED
    BY <1>4, <2>1, Division
<1>6. v[W] \in Nat /\ v[W] + d * 0 = v[W]
  <2>1. v[W] \in Nat
    BY <1>0
  <2> HIDE DEF d
  <2> QED
    BY <1>4, <2>1
<1> QED
  BY <1>1, <1>3, <1>5, <1>6 DEF x

\* The sign is set in the upper half of the numbers.
LEMMA SignoDeNumero ==
  ASSUME NEW x
  PROVE  W - 1 \in x <=> ToNat(x) >= Dos(W - 1)
<1>0. W \in Nat /\ W - 1 \in Nat /\ (W - 1) + 1 = W /\ W - 1 \in 0 .. W
  BY WidthAssumption
<1>1. PICK v \in [0 .. W -> Nat] : Sumando(v, x, W) /\ ToNat(x) = v[W]
  BY NumeroDePalabra
<1>2. \A k \in Nat : k + 1 <= W => v[k + 1] = v[k] + Peso(x, k)
  BY <1>0, <1>1, Pesos
<1>3. v[W] = v[W - 1] + Peso(x, W - 1)
  <2>1. (W - 1) + 1 <= W => v[(W - 1) + 1] = v[W - 1] + Peso(x, W - 1)
    BY <1>0, <1>2
  <2> QED
    BY <1>0, <2>1
<1>4. v[W - 1] < Dos(W - 1) /\ v[W - 1] \in Nat
  BY <1>0, <1>1, SumasAcotadas
<1>5. Dos(W - 1) \in Nat
  BY <1>0, DosBase
<1>6. CASE W - 1 \in x
  BY <1>1, <1>3, <1>4, <1>5, <1>6 DEF Peso
<1>7. CASE W - 1 \notin x
  BY <1>1, <1>3, <1>4, <1>5, <1>7 DEF Peso
<1> QED
  BY <1>6, <1>7

\* The machine's addition is that of the numbers, but for a carry out of the
\* word.
LEMMA SumaDePalabras ==
  ASSUME NEW x \in Word, NEW y \in Word
  PROVE  \E a \in {0, 1} : ToNat(x) + ToNat(y) = ToNat(Add(x, y)) + a * Dos(W)
<1>0. W \in Nat /\ W \in 0 .. W
  BY WidthAssumption
<1> DEFINE s == Add(x, y)
           c == {k \in Nat : Carry(x, y, k)}
<1>1. \A w : ToNat(w) = SumaElegida(w, W)[W]
  BY DEF ToNat, SumaElegida
<1>4. x \subseteq Nat /\ y \subseteq Nat
  BY <1>0 DEF Word, Bit
<1>5. 0 \notin c
  BY <1>4 DEF Carry
<1>6. ASSUME NEW k \in Nat, k < W
      PROVE  (k \in s) <=> ((k \in x) <=> ((k \in y) <=> (k \in c)))
  <2>1. k \in Bit
    BY <1>0, <1>6 DEF Bit
  <2>2. k \in s <=> ~(k \in Xor(x, y) <=> Carry(x, y, k))
    BY <2>1 DEF Add
  <2>3. k \in Xor(x, y) <=> ~(k \in x <=> k \in y)
    BY DEF Xor
  <2>4. Carry(x, y, k) <=> k \in c
    OBVIOUS
  <2> HIDE DEF s, c
  <2> QED
    BY <2>2, <2>3, <2>4
<1>7. ASSUME NEW k \in Nat
      PROVE  (k + 1 \in c) <=> \/ k \in x /\ k \in y
                               \/ k \in c /\ (k \in x \/ k \in y)
  <2>1. k + 1 \in c <=> Carry(x, y, k + 1)
    OBVIOUS
  <2>2. Carry(x, y, k + 1) <=>
          \E j \in x \cap y : j < k + 1 /\ \A l \in j + 1 .. (k + 1) - 1 : l \in x \cup y
    BY DEF Carry
  <2>3. ASSUME NEW j \in x \cap y
        PROVE  (j < k + 1 /\ \A l \in j + 1 .. (k + 1) - 1 : l \in x \cup y) <=>
                 \/ j = k
                 \/ j < k /\ (\A l \in j + 1 .. k - 1 : l \in x \cup y) /\ k \in x \cup y
    <3>1. j \in Nat
      BY <1>4
    <3> QED
      BY <3>1
  <2>4. k \in c <=> \E j \in x \cap y : j < k /\ \A l \in j + 1 .. k - 1 : l \in x \cup y
    BY DEF Carry
  <2> HIDE DEF c
  <2> QED
    BY <2>1, <2>2, <2>3, <2>4
<1>8. Sumador(s, c, x, y, W)
  BY <1>5, <1>6, <1>7 DEF Sumador
<1> HIDE DEF s, c
<1>9. ToNat(x) + ToNat(y) = ToNat(s) + Peso(c, W)
  <2>1. \A k \in 0 .. W : SumaElegida(x, W)[k] + SumaElegida(y, W)[k] =
                            SumaElegida(s, W)[k] + Peso(c, k)
    BY <1>0, <1>8, SumadorSuma
  <2> QED
    BY <1>0, <1>1, <2>1
<1> DEFINE a == IF W \in c THEN 1 ELSE 0
<1>10. Peso(c, W) = a * Dos(W) /\ a \in {0, 1}
  <2>1. Dos(W) \in Nat
    BY <1>0, DosBase
  <2>2. CASE W \in c
    BY <2>1, <2>2 DEF Peso
  <2>3. CASE W \notin c
    BY <2>1, <2>3 DEF Peso
  <2> QED
    BY <2>2, <2>3
<1> QED
  BY <1>9, <1>10 DEF s

\* The complement is what is left to the greatest number.
LEMMA NumeroDeNot ==
  ASSUME NEW x \in Word
  PROVE  ToNat(x) + ToNat(Not(x)) = Dos(W) - 1
<1>0. W \in Nat /\ W \in 0 .. W
  BY WidthAssumption
<1>1. PICK v \in [0 .. W -> Nat] : Sumando(v, x, W) /\ ToNat(x) = v[W]
  BY NumeroDePalabra
<1>2. PICK u \in [0 .. W -> Nat] : Sumando(u, Not(x), W) /\ ToNat(Not(x)) = u[W]
  BY NumeroDePalabra
<1>3. \A k \in Nat : k < W => (k \in Not(x) <=> k \notin x)
  BY <1>0 DEF Not, Bit
<1>4. \A k \in 0 .. W : v[k] + u[k] = Dos(k) - 1
  BY <1>0, <1>1, <1>2, <1>3, SumasComplementarias
<1> QED
  BY <1>0, <1>1, <1>2, <1>4

\* One is one.
LEMMA NumeroDeUno == ToNat(One) = 1
<1>0. W \in Nat /\ 1 <= W /\ 1 \in 0 .. W
  BY WidthAssumption
<1>1. PICK v \in [0 .. W -> Nat] : Sumando(v, One, W) /\ ToNat(One) = v[W]
  BY NumeroDePalabra
<1>2. v[W] = v[1]
  <2>1. \A l \in Nat : 1 <= l /\ l < W => l \notin One
    BY DEF One
  <2> QED
    BY <1>0, <1>1, <2>1, SumasSinMas
<1>3. v[1] = v[0] + Peso(One, 0) /\ v[0] = 0
  <2>1. v[1] = v[1 - 1] + Peso(One, 1 - 1) /\ v[0] = 0
    BY <1>0, <1>1 DEF Sumando
  <2> QED
    BY <2>1
<1>4. Peso(One, 0) = 1
  BY DosBase DEF Peso, One
<1> QED
  BY <1>1, <1>2, <1>3, <1>4

\* negate is the two's complement opposite for every word, TMin among them,
\* whose opposite is itself.
THEOREM OpuestoCorrecto ==
  \A x \in Word : negate(x) = test_negate(x)
<1> SUFFICES ASSUME NEW x \in Word PROVE negate(x) = test_negate(x)
  OBVIOUS
<1> DEFINE y == Not(x)
           s == Add(y, One)
           a == ToNat(x)
           b == ToNat(y)
           c == ToNat(s)
           d == Dos(W)
           g == IF W - 1 \in x THEN 1 ELSE 0
<1>1. y \in Word /\ One \in Word /\ s \in Word
  BY WidthAssumption DEF Not, Word, One, Bit, Add
<1>2. PICK k \in {0, 1} : b + 1 = c + k * d
  BY <1>1, SumaDePalabras, NumeroDeUno
<1>3. a + b = d - 1
  BY NumeroDeNot
<1>4. a \in Nat /\ b \in Nat /\ c \in Nat /\ d \in Nat
  BY NumeroAcotado, DosBase, WidthAssumption
<1>5. ToInt(x) = a - g * d
  <2>1. ToInt(x) = a - (IF W - 1 \in x THEN d ELSE 0)
    BY DEF ToInt, Dos
  <2>2. g * d = IF W - 1 \in x THEN d ELSE 0
    <3> HIDE DEF d
    <3>1. 1 * d = d /\ 0 * d = 0
      BY <1>4
    <3> QED
      BY <3>1
  <2> HIDE DEF g, d, a
  <2> QED
    BY <2>1, <2>2
<1>6. g \in {0, 1}
  OBVIOUS
<1>7. -ToInt(x) = (g + k - 1) * d + c /\ g + k - 1 \in Int
  <2> HIDE DEF a, b, c, d, g
  <2>1. CASE g = 0 /\ k = 0
    BY <1>2, <1>3, <1>4, <1>5, <2>1
  <2>2. CASE g = 0 /\ k = 1
    BY <1>2, <1>3, <1>4, <1>5, <2>2
  <2>3. CASE g = 1 /\ k = 0
    BY <1>2, <1>3, <1>4, <1>5, <2>3
  <2>4. CASE g = 1 /\ k = 1
    BY <1>2, <1>3, <1>4, <1>5, <2>4
  <2> QED
    BY <1>6, <2>1, <2>2, <2>3, <2>4
<1>8. -ToInt(x) \in Int
  <2> HIDE DEF a, d, g
  <2> QED
    BY <1>4, <1>5, <1>6
<1> HIDE DEF g
<1>9. OfInt(-ToInt(x)) = s
  BY <1>1, <1>7, <1>8, PalabraDeNumero
<1> QED
  BY <1>9 DEF negate, test_negate

\* isAsciiDigit looks at the signs of x - 48 and 57 - x.  The first overflows
\* for the least integers and looks positive, and then so does the second,
\* which looks negative; the answer is right for every word of 8 bits or more.
THEOREM DigitoCorrecto ==
  \A x \in Word : isAsciiDigit(x) = test_isAsciiDigit(x)
<1> SUFFICES ASSUME NEW x \in Word PROVE isAsciiDigit(x) = test_isAsciiDigit(x)
  OBVIOUS
<1> DEFINE u == OfInt(47)
           w == OfInt(58)
           p == Add(Not(u), x)
           q == Add(w, Not(x))
           n == ToNat(x)
           m == ToNat(Not(u))
           k == ToNat(Not(x))
           P == ToNat(p)
           Q == ToNat(q)
           d == Dos(W)
           h == Dos(W - 1)
<1>0. W \in Nat /\ W >= 8 /\ W - 1 \in Nat /\ (W - 1) + 1 = W /\ 7 <= W - 1
  BY FormatAssumption, WidthAssumption
<1>1. Dos(7) >= 64
  <2>1. Dos(0) = 1 /\ Dos(0 + 1) = 2 * Dos(0) /\ Dos(1 + 1) = 2 * Dos(1) /\ Dos(2 + 1) = 2 * Dos(2)
        /\ Dos(3 + 1) = 2 * Dos(3) /\ Dos(4 + 1) = 2 * Dos(4) /\ Dos(5 + 1) = 2 * Dos(5)
        /\ Dos(6 + 1) = 2 * Dos(6)
    BY DosBase
  <2> QED
    BY <2>1
<1>2. h \in Nat /\ d = 2 * h /\ h >= 64
  <2>1. Dos((W - 1) + 1) = 2 * Dos(W - 1) /\ Dos(W - 1) \in Nat
    BY <1>0, DosBase
  <2>2. Dos(7) <= Dos(W - 1)
    BY <1>0, DosCrece
  <2> QED
    BY <1>0, <1>1, <2>1, <2>2, DosBase
<1>3. u \in Word /\ w \in Word /\ Not(u) \in Word /\ Not(x) \in Word /\ p \in Word /\ q \in Word
  BY DEF OfInt, Word, Not, Add
<1>4. ToNat(u) = 47 /\ ToNat(w) = 58
  <2>1. 47 < Dos(W) /\ 58 < Dos(W)
    BY <1>2
  <2> QED
    BY <2>1, NumeroDeOfInt
<1>5. m = d - 48 /\ k = d - 1 - n
  <2>1. ToNat(u) + m = d - 1
    BY <1>3, NumeroDeNot
  <2>2. n + k = d - 1
    BY <1>3, NumeroDeNot
  <2>3. m \in Nat /\ n \in Nat /\ k \in Nat /\ d \in Nat
    BY <1>2, NumeroAcotado
  <2> HIDE DEF m, n, k, d, u
  <2> QED
    BY <1>4, <2>1, <2>2, <2>3
<1>6. PICK a \in {0, 1} : m + n = P + a * d
  BY <1>3, SumaDePalabras
<1>7. PICK b \in {0, 1} : 58 + k = Q + b * d
  BY <1>3, <1>4, SumaDePalabras
<1>8. n \in Nat /\ n < d /\ P \in Nat /\ P < d /\ Q \in Nat /\ Q < d /\ d \in Nat
  BY <1>2, NumeroAcotado
<1>9. (W - 1 \in p <=> P >= h) /\ (W - 1 \in q <=> Q >= h) /\ (W - 1 \in x <=> n >= h)
  BY SignoDeNumero
<1>10. ToInt(x) = n - (IF n >= h THEN d ELSE 0)
  <2>1. ToInt(x) = n - (IF W - 1 \in x THEN d ELSE 0)
    BY DEF ToInt, Dos
  <2> HIDE DEF n, h, d
  <2> QED
    BY <1>9, <2>1
<1>11. isAsciiDigit(x) = Truth(W - 1 \notin p /\ W - 1 \notin q)
  <2>1. isAsciiDigit(x) = LNot(Sar(p, W - 1) \cup Sar(q, W - 1))
    BY DEF isAsciiDigit
  <2>2. /\ Sar(p, W - 1) = IF W - 1 \in p THEN Bit ELSE {}
        /\ Sar(q, W - 1) = IF W - 1 \in q THEN Bit ELSE {}
    BY SignoRepetido
  <2>3. Bit # {}
    BY <1>0 DEF Bit
  <2> HIDE DEF p, q
  <2>4. Sar(p, W - 1) \cup Sar(q, W - 1) = {} <=> W - 1 \notin p /\ W - 1 \notin q
    BY <2>2, <2>3
  <2> QED
    BY <2>1, <2>4 DEF LNot
<1>12. (~(P >= h) /\ ~(Q >= h)) <=> (48 <= ToInt(x) /\ ToInt(x) <= 57)
  <2> HIDE DEF n, m, k, P, Q, d, h, p, q, u, w
  <2> DEFINE s == ToInt(x)
  <2>1. /\ a = 0 => (d - 48) + n = P
        /\ a = 1 => (d - 48) + n = P + d
        /\ b = 0 => 58 + (d - 1 - n) = Q
        /\ b = 1 => 58 + (d - 1 - n) = Q + d
    BY <1>5, <1>6, <1>7, <1>8
  <2>2. /\ n >= h => s = n - d
        /\ ~(n >= h) => s = n
    BY <1>8, <1>10
  <2> SUFFICES (~(P >= h) /\ ~(Q >= h)) <=> (48 <= s /\ s <= 57)
    OBVIOUS
  <2> HIDE DEF s
  <2>3. CASE a = 0 /\ b = 0
    BY <1>2, <1>8, <2>1, <2>2, <2>3
  <2>4. CASE a = 0 /\ b = 1
    BY <1>2, <1>8, <2>1, <2>2, <2>4
  <2>5. CASE a = 1 /\ b = 0
    BY <1>2, <1>8, <2>1, <2>2, <2>5
  <2>6. CASE a = 1 /\ b = 1
    BY <1>2, <1>8, <2>1, <2>2, <2>6
  <2> QED
    BY <1>6, <1>7, <2>3, <2>4, <2>5, <2>6
<1> HIDE DEF p, q, P, Q, h
<1> QED
  BY <1>9, <1>11, <1>12 DEF test_isAsciiDigit

-----------------------------------------------------------------------------
(***************************************************************************)
(* Powers of two: the loop that squares and multiplies.                    *)
(***************************************************************************)

\* The exponents that a float holds, with one more at each end.
LEMMA Exponentes ==
  /\ Bias \in Nat /\ Bias >= 1 /\ F \in Nat /\ F >= 2 /\ MinExp = 1 - Bias - F
  /\ Exps \subseteq Int /\ 0 \in Exps /\ 1 \in Exps /\ -1 \in Exps
  /\ \A e \in Int : e \in Exps <=> MinExp - 1 <= e /\ e <= Bias + 1
  /\ \A e \in Int : Rounded(e) \in Exps
<1>1. E - 1 \in Nat /\ 1 <= E - 1 /\ F \in Nat /\ F >= 2
  BY FormatAssumption, WidthAssumption DEF E
<1>2. Dos(1) = 2
  <2>1. Dos(0 + 1) = 2 * Dos(0)
    BY DosBase
  <2> QED
    BY <2>1, DosBase
<1>3. Dos(E - 1) \in Nat /\ Dos(E - 1) >= 2
  <2>1. Dos(1) <= Dos(E - 1)
    BY <1>1, DosCrece
  <2> QED
    BY <1>1, <1>2, <2>1, DosBase
<1>4. Bias = Dos(E - 1) - 1
  BY DEF Bias, Dos
<1>5. Bias \in Nat /\ Bias >= 1
  BY <1>3, <1>4
<1>6. MinExp = 1 - Bias - F
  BY DEF MinExp
<1>7. Exps = (1 - Bias - F) - 1 .. Bias + 1
  BY DEF Exps, MinExp
<1>8. \A e \in Int : Rounded(e) = IF e < 1 - Bias - F THEN (1 - Bias - F) - 1
                                  ELSE IF e > Bias THEN Bias + 1 ELSE e
  BY DEF Rounded, MinExp
<1> DEFINE b == Bias
<1>9. b \in Nat /\ b >= 1
  BY <1>5
<1> HIDE DEF b
<1>10. /\ Exps = (1 - b - F) - 1 .. b + 1
       /\ \A e \in Int : Rounded(e) = IF e < 1 - b - F THEN (1 - b - F) - 1
                                      ELSE IF e > b THEN b + 1 ELSE e
  BY <1>7, <1>8 DEF b
<1>11. /\ Exps \subseteq Int /\ 0 \in Exps /\ 1 \in Exps /\ -1 \in Exps
       /\ \A e \in Int : e \in Exps <=> (1 - b - F) - 1 <= e /\ e <= b + 1
       /\ \A e \in Int : Rounded(e) \in Exps
  BY <1>1, <1>9, <1>10
<1> QED
  BY <1>1, <1>5, <1>6, <1>11 DEF b

\* One turn of the loop, with g for those that follow.
Turno(g, n, r, p) ==
  IF n = 0 THEN r ELSE g[n \div 2][IF n % 2 = 1 THEN Rounded(r + p) ELSE r][Rounded(p + p)]

\* g is the loop for the first numbers.
Hasta(g, N) ==
  /\ g \in [0 .. N -> [Exps -> [Exps -> Exps]]]
  /\ \A n \in 0 .. N : \A r \in Exps : \A p \in Exps : g[n][r][p] = Turno(g, n, r, p)

\* There is such a g for each number,
LEMMA HayBucle == \A N \in Nat : \E g : Hasta(g, N)
<1> DEFINE T == {n \in Nat : ~ \E g : Hasta(g, n)}
<1> SUFFICES ASSUME T # {} PROVE FALSE
  OBVIOUS
<1>0. T \subseteq Nat
  OBVIOUS
<1> HIDE DEF T
<1>1. PICK m \in T : \A n \in T : m <= n
  BY <1>0, Minimo
<1>2. m \in Nat
  BY <1>0
<1>3. m # 0
  <2>1. ASSUME m = 0 PROVE FALSE
    <3> DEFINE g == [n \in 0 .. 0 |-> [r \in Exps |-> [p \in Exps |-> r]]]
    <3>1. g \in [0 .. m -> [Exps -> [Exps -> Exps]]]
      BY <2>1
    <3>2. \A n \in 0 .. m : \A r \in Exps : \A p \in Exps : g[n][r][p] = Turno(g, n, r, p)
      BY <2>1 DEF Turno
    <3> QED
      BY <1>1, <3>1, <3>2 DEF T, Hasta
  <2> QED
    BY <2>1
<1>4. m - 1 \in Nat /\ ~(m <= m - 1)
  BY <1>2, <1>3
<1>5. PICK h : Hasta(h, m - 1)
  BY <1>1, <1>4 DEF T
<1>6. /\ h \in [0 .. m - 1 -> [Exps -> [Exps -> Exps]]]
      /\ \A n \in 0 .. m - 1 : \A r \in Exps : \A p \in Exps : h[n][r][p] = Turno(h, n, r, p)
  BY <1>5 DEF Hasta
<1> DEFINE u == [r \in Exps |-> [p \in Exps |-> Turno(h, m, r, p)]]
           g == [n \in 0 .. m |-> IF n = m THEN u ELSE h[n]]
<1>7. \A n \in 0 .. m : n # 0 => n \div 2 \in 0 .. m - 1
  BY <1>2
<1>8. ASSUME NEW n \in 0 .. m, NEW r \in Exps, NEW p \in Exps
      PROVE  Turno(h, n, r, p) \in Exps
  <2>1. CASE n = 0
    BY <2>1 DEF Turno
  <2>2. CASE n # 0
    <3>1. h[n \div 2] \in [Exps -> [Exps -> Exps]]
      BY <1>6, <1>7, <2>2
    <3>2. Rounded(r + p) \in Exps /\ Rounded(p + p) \in Exps
      BY Exponentes
    <3> DEFINE k == IF n % 2 = 1 THEN Rounded(r + p) ELSE r
               q == Rounded(p + p)
               w == h[n \div 2]
    <3>3. k \in Exps /\ q \in Exps /\ w \in [Exps -> [Exps -> Exps]]
      BY <3>1, <3>2
    <3>4. Turno(h, n, r, p) = w[k][q]
      BY <2>2 DEF Turno
    <3> HIDE DEF k, q, w
    <3> QED
      BY <3>3, <3>4
  <2> QED
    BY <2>1, <2>2
<1>9. u \in [Exps -> [Exps -> Exps]]
  <2>1. m \in 0 .. m
    BY <1>2
  <2> QED
    BY <1>8, <2>1
<1>10. /\ \A n \in 0 .. m : n # m => n \in 0 .. m - 1
       /\ m \in 0 .. m
  BY <1>2
<1>11. g \in [0 .. m -> [Exps -> [Exps -> Exps]]]
  <2> HIDE DEF u
  <2> QED
    BY <1>6, <1>9, <1>10
<1>12. ASSUME NEW n \in 0 .. m, NEW r \in Exps, NEW p \in Exps
       PROVE  g[n][r][p] = Turno(g, n, r, p)
  <2>1. Turno(g, n, r, p) = Turno(h, n, r, p)
    <3>1. CASE n = 0
      BY <3>1 DEF Turno
    <3>2. CASE n # 0
      <4>1. g[n \div 2] = h[n \div 2]
        BY <1>2, <1>7, <3>2
      <4> HIDE DEF g
      <4> QED
        BY <4>1 DEF Turno
    <3> QED
      BY <3>1, <3>2
  <2>2. g[n][r][p] = Turno(h, n, r, p)
    <3>1. CASE n = m
      <4>1. g[n] = u
        BY <3>1
      <4>2. u[r][p] = Turno(h, m, r, p)
        OBVIOUS
      <4> HIDE DEF g, u
      <4> QED
        BY <3>1, <4>1, <4>2
    <3>2. CASE n # m
      <4>1. g[n] = h[n] /\ n \in 0 .. m - 1
        BY <1>10, <3>2
      <4>2. h[n][r][p] = Turno(h, n, r, p)
        BY <1>6, <4>1
      <4> HIDE DEF g
      <4> QED
        BY <4>1, <4>2
    <3> QED
      BY <3>1, <3>2
  <2> QED
    BY <2>1, <2>2
<1> HIDE DEF g
<1> QED
  BY <1>1, <1>2, <1>11, <1>12 DEF T, Hasta

\* and any two agree where both are defined.
LEMMA BucleUnico ==
  ASSUME NEW N \in Nat, NEW M \in Nat, NEW g, NEW h, Hasta(g, N), Hasta(h, M)
  PROVE  \A n \in Nat : n <= N /\ n <= M =>
           \A r \in Exps : \A p \in Exps : g[n][r][p] = h[n][r][p]
<1> DEFINE T == {n \in Nat : /\ n <= N /\ n <= M
                             /\ ~ \A r \in Exps : \A p \in Exps : g[n][r][p] = h[n][r][p]}
<1> SUFFICES ASSUME T # {} PROVE FALSE
  OBVIOUS
<1>0. T \subseteq Nat
  OBVIOUS
<1> HIDE DEF T
<1>1. PICK m \in T : \A n \in T : m <= n
  BY <1>0, Minimo
<1>2. /\ m \in Nat /\ m <= N /\ m <= M
      /\ ~ \A r \in Exps : \A p \in Exps : g[m][r][p] = h[m][r][p]
  BY <1>1 DEF T
<1>3. PICK r \in Exps, p \in Exps : g[m][r][p] # h[m][r][p]
  BY <1>2
<1>4. m \in 0 .. N /\ m \in 0 .. M
  BY <1>2
<1>5. g[m][r][p] = Turno(g, m, r, p) /\ h[m][r][p] = Turno(h, m, r, p)
  BY <1>4 DEF Hasta
<1>6. m # 0
  BY <1>3, <1>5 DEF Turno
<1>7. m \div 2 \in Nat /\ ~(m <= m \div 2) /\ m \div 2 <= N /\ m \div 2 <= M
  BY <1>2, <1>6
<1>8. \A a \in Exps : \A b \in Exps : g[m \div 2][a][b] = h[m \div 2][a][b]
  BY <1>1, <1>7 DEF T
<1>9. Rounded(r + p) \in Exps /\ Rounded(p + p) \in Exps
  BY Exponentes
<1>10. Turno(g, m, r, p) = Turno(h, m, r, p)
  BY <1>6, <1>8, <1>9 DEF Turno
<1> QED
  BY <1>3, <1>5, <1>10

\* So the loop is the function that its definition says.
LEMMA Bucle ==
  \A n \in Nat : \A r \in Exps : \A p \in Exps : loop[n][r][p] = Turno(loop, n, r, p)
<1> DEFINE de(n) == CHOOSE g : Hasta(g, n)
           f == [n \in Nat |-> de(n)[n]]
<1>1. \A n \in Nat : Hasta(de(n), n)
  BY HayBucle
<1>2. ASSUME NEW n \in Nat PROVE f[n] \in [Exps -> [Exps -> Exps]]
  <2>1. de(n) \in [0 .. n -> [Exps -> [Exps -> Exps]]]
    BY <1>1 DEF Hasta
  <2>2. f[n] = de(n)[n]
    OBVIOUS
  <2> HIDE DEF de, f
  <2> QED
    BY <2>1, <2>2
<1>3. ASSUME NEW n \in Nat, NEW r \in Exps, NEW p \in Exps
      PROVE  f[n][r][p] = Turno(f, n, r, p)
  <2>1. f[n] = de(n)[n]
    OBVIOUS
  <2>2. Hasta(de(n), n) /\ n \in 0 .. n
    BY <1>1
  <2>3. de(n)[n][r][p] = Turno(de(n), n, r, p)
    <3> HIDE DEF de
    <3> QED
      BY <2>2 DEF Hasta
  <2>4. CASE n = 0
    BY <2>1, <2>3, <2>4 DEF Turno
  <2>5. CASE n # 0
    <3> DEFINE m == n \div 2
               k == IF n % 2 = 1 THEN Rounded(r + p) ELSE r
               q == Rounded(p + p)
    <3>1. m \in Nat /\ m <= n
      OBVIOUS
    <3>2. k \in Exps /\ q \in Exps
      BY Exponentes
    <3>3. Turno(de(n), n, r, p) = de(n)[m][k][q] /\ Turno(f, n, r, p) = f[m][k][q]
      BY <2>5 DEF Turno
    <3>4. f[m] = de(m)[m]
      BY <3>1
    <3>5. Hasta(de(m), m)
      BY <1>1, <3>1
    <3> HIDE DEF de, f, m, k, q
    <3>6. m <= m
      BY <3>1
    <3>7. de(n)[m][k][q] = de(m)[m][k][q]
      BY <2>2, <3>1, <3>2, <3>5, <3>6, BucleUnico
    <3> QED
      BY <2>1, <2>3, <3>3, <3>4, <3>7
  <2> QED
    BY <2>4, <2>5
<1> DEFINE cuerpo(g) ==
             [n \in Nat |->
               [result \in Exps |-> [p2 \in Exps |->
                  IF n = 0 THEN result
                  ELSE g[n \div 2][IF n % 2 = 1 THEN Rounded(result + p2) ELSE result][Rounded(p2 + p2)]]]]
<1>4. f = cuerpo(f)
  <2>1. DOMAIN f = Nat /\ f = [n \in Nat |-> f[n]]
    OBVIOUS
  <2> HIDE DEF f
  <2>2. ASSUME NEW n \in Nat
        PROVE  f[n] = [r \in Exps |-> [p \in Exps |-> Turno(f, n, r, p)]]
    <3>1. f[n] = [r \in Exps |-> f[n][r]]
      BY <1>2
    <3>2. ASSUME NEW r \in Exps PROVE f[n][r] = [p \in Exps |-> Turno(f, n, r, p)]
      <4>1. f[n][r] = [p \in Exps |-> f[n][r][p]]
        BY <1>2
      <4> QED
        BY <1>3, <4>1
    <3> QED
      BY <3>1, <3>2
  <2>3. cuerpo(f) = [n \in Nat |-> [r \in Exps |-> [p \in Exps |-> Turno(f, n, r, p)]]]
    BY DEF Turno
  <2> HIDE DEF cuerpo
  <2> QED
    BY <2>1, <2>2, <2>3
<1> HIDE DEF f
<1>5. loop = CHOOSE g : g = cuerpo(g)
  BY DEF loop
<1>6. loop = cuerpo(loop)
  <2> HIDE DEF cuerpo
  <2> QED
    BY <1>4, <1>5
<1> SUFFICES ASSUME NEW n \in Nat, NEW r \in Exps, NEW p \in Exps
             PROVE  loop[n][r][p] = Turno(loop, n, r, p)
  OBVIOUS
<1>7. cuerpo(loop)[n][r][p] = Turno(loop, n, r, p)
  BY DEF Turno
<1> HIDE DEF cuerpo
<1> QED
  BY <1>6, <1>7

\* What the loop keeps is at one end for good: to round at every turn or once
\* at the end is the same while the exponents have one sign.
LEMMA Saturar ==
  ASSUME NEW a \in Int, NEW q \in Int, NEW m \in Nat,
         \/ a >= 0 /\ q >= 0
         \/ a <= 0 /\ q <= 0
  PROVE  Rounded(Rounded(a) + m * Rounded(q)) = Rounded(a + m * q)
<1> DEFINE lo == MinExp
           hi == Bias
           A == Rounded(a)
           Q == Rounded(q)
           x == m * q
           y == m * Q
<1>1. lo \in Int /\ hi \in Int /\ lo < 0 /\ hi > 0
  BY Exponentes
<1>2. \A e \in Int : Rounded(e) = IF e < lo THEN lo - 1 ELSE IF e > hi THEN hi + 1 ELSE e
  BY DEF Rounded
<1>3. /\ A = IF a < lo THEN lo - 1 ELSE IF a > hi THEN hi + 1 ELSE a
      /\ Q = IF q < lo THEN lo - 1 ELSE IF q > hi THEN hi + 1 ELSE q
  BY <1>2
<1> HIDE DEF lo, hi, A, Q
<1>4. A \in Int /\ Q \in Int
  BY <1>1, <1>3
<1>5. x \in Int /\ y \in Int /\ (Q = q => x = y)
  BY <1>4
<1>6. /\ m = 0 => x = 0 /\ y = 0
      /\ q >= 0 => x >= 0
      /\ q <= 0 => x <= 0
      /\ Q >= 0 => y >= 0
      /\ Q <= 0 => y <= 0
  BY <1>4
<1>7. m # 0 => /\ q >= 0 => x >= q
               /\ q <= 0 => x <= q
               /\ Q >= 0 => y >= Q
               /\ Q <= 0 => y <= Q
  <2> SUFFICES ASSUME m # 0
               PROVE  /\ q >= 0 => x >= q
                      /\ q <= 0 => x <= q
                      /\ Q >= 0 => y >= Q
                      /\ Q <= 0 => y <= Q
    OBVIOUS
  <2>1. PICK l \in Nat : m = l + 1
    BY m - 1 \in Nat, m = (m - 1) + 1
  <2>2. x = l * q + q /\ y = l * Q + Q
    BY <1>4, <2>1
  <2>3. /\ q >= 0 => l * q >= 0
        /\ q <= 0 => l * q <= 0
        /\ Q >= 0 => l * Q >= 0
        /\ Q <= 0 => l * Q <= 0
    BY <1>4
  <2> DEFINE u == l * q
             w == l * Q
  <2>4. u \in Int /\ w \in Int
    BY <1>4
  <2> HIDE DEF u, w, x, y
  <2>5. x = u + q /\ y = w + Q
    BY <2>2 DEF u, w
  <2>6. /\ q >= 0 => u >= 0
        /\ q <= 0 => u <= 0
        /\ Q >= 0 => w >= 0
        /\ Q <= 0 => w <= 0
    BY <2>3 DEF u, w
  <2> QED
    BY <1>4, <2>4, <2>5, <2>6
<1> HIDE DEF x, y
<1>8. a + x \in Int /\ A + y \in Int
  BY <1>4, <1>5
<1> DEFINE s == a + x
           z == A + y
<1>9. /\ Rounded(s) = IF s < lo THEN lo - 1 ELSE IF s > hi THEN hi + 1 ELSE s
      /\ Rounded(z) = IF z < lo THEN lo - 1 ELSE IF z > hi THEN hi + 1 ELSE z
  <2> HIDE DEF s, z
  <2> QED
    BY <1>2, <1>8 DEF s, z
<1>10. ASSUME a >= 0, q >= 0 PROVE Rounded(z) = Rounded(s)
  <2>1. /\ A = IF a > hi THEN hi + 1 ELSE a
        /\ Q = IF q > hi THEN hi + 1 ELSE q
    BY <1>1, <1>3, <1>10
  <2>2. x >= 0 /\ y >= 0
    BY <1>1, <1>6, <1>10, <2>1
  <2>3. CASE m = 0
    BY <1>1, <1>6, <1>8, <1>9, <1>10, <2>1, <2>3
  <2>4. CASE m # 0
    <3>1. x >= q /\ y >= Q
      BY <1>1, <1>7, <1>10, <2>1, <2>4
    <3> QED
      BY <1>1, <1>4, <1>5, <1>8, <1>9, <1>10, <2>1, <2>2, <3>1
  <2> QED
    BY <2>3, <2>4
<1>11. ASSUME a <= 0, q <= 0 PROVE Rounded(z) = Rounded(s)
  <2>1. /\ A = IF a < lo THEN lo - 1 ELSE a
        /\ Q = IF q < lo THEN lo - 1 ELSE q
    BY <1>1, <1>3, <1>11
  <2>2. x <= 0 /\ y <= 0
    BY <1>1, <1>6, <1>11, <2>1
  <2>3. CASE m = 0
    BY <1>1, <1>6, <1>8, <1>9, <1>11, <2>1, <2>3
  <2>4. CASE m # 0
    <3>1. x <= q /\ y <= Q
      BY <1>1, <1>7, <1>11, <2>1, <2>4
    <3> QED
      BY <1>1, <1>4, <1>5, <1>8, <1>9, <1>11, <2>1, <2>2, <3>1
  <2> QED
    BY <2>3, <2>4
<1>12. Rounded(z) = Rounded(s)
  BY <1>10, <1>11
<1> QED
  BY <1>12 DEF s, z, A, Q, x, y

\* Square and multiply is the product, at n of any size.
LEMMA BucleMultiplica ==
  ASSUME NEW n \in Nat, NEW r \in Exps, NEW p \in Exps,
         \/ r >= 0 /\ p >= 0
         \/ r <= 0 /\ p <= 0
  PROVE  loop[n][r][p] = Rounded(r + n * p)
<1> DEFINE Mismo(a, b) == \/ a >= 0 /\ b >= 0
                          \/ a <= 0 /\ b <= 0
           T == {k \in Nat : ~ \A a \in Exps : \A b \in Exps :
                                 Mismo(a, b) => loop[k][a][b] = Rounded(a + k * b)}
<1> SUFFICES ASSUME T # {} PROVE FALSE
  OBVIOUS
<1>0. T \subseteq Nat
  OBVIOUS
<1> HIDE DEF T
<1>1. PICK k \in T : \A j \in T : k <= j
  BY <1>0, Minimo
<1>2. k \in Nat
  BY <1>0
<1>3. PICK a \in Exps, b \in Exps : Mismo(a, b) /\ loop[k][a][b] # Rounded(a + k * b)
  BY <1>1 DEF T
<1>4. a \in Int /\ b \in Int /\ loop[k][a][b] = Turno(loop, k, a, b)
  BY <1>2, Bucle, Exponentes
<1> DEFINE lo == MinExp
           hi == Bias
<1>5. /\ lo \in Int /\ hi \in Int /\ lo < 0 /\ hi > 0
      /\ lo - 1 <= a /\ a <= hi + 1 /\ lo - 1 <= b /\ b <= hi + 1
  BY <1>4, Exponentes
<1>6. \A e \in Int : Rounded(e) = IF e < lo THEN lo - 1 ELSE IF e > hi THEN hi + 1 ELSE e
  BY DEF Rounded
<1> HIDE DEF lo, hi
<1>7. Rounded(a) = a
  BY <1>4, <1>5, <1>6
<1>8. k # 0
  <2>1. ASSUME k = 0 PROVE FALSE
    <3>1. loop[k][a][b] = a
      BY <1>4, <2>1 DEF Turno
    <3>2. a + k * b = a
      BY <1>4, <2>1
    <3> QED
      BY <1>3, <1>7, <3>1, <3>2
  <2> QED
    BY <2>1
<1> DEFINE m == k \div 2
           c == k % 2
           s == a + c * b
           q == b + b
           R == IF c = 1 THEN Rounded(a + b) ELSE a
<1>9. m \in Nat /\ ~(k <= m) /\ c \in {0, 1} /\ k = 2 * m + c
  BY <1>2, <1>8
<1>10. loop[k][a][b] = loop[m][R][Rounded(q)]
  BY <1>4, <1>8 DEF Turno
<1>11. R = Rounded(s) /\ s \in Int /\ q \in Int /\ Mismo(s, q)
  <2> HIDE DEF m, c
  <2>1. CASE c = 0
    <3>1. s = a
      BY <1>4, <2>1
    <3> QED
      BY <1>3, <1>4, <1>7, <2>1, <3>1
  <2>2. CASE c = 1
    <3>1. s = a + b
      BY <1>4, <2>2
    <3> QED
      BY <1>3, <1>4, <2>2, <3>1
  <2> QED
    BY <1>9, <2>1, <2>2
<1>12. Mismo(Rounded(s), Rounded(q)) /\ Rounded(s) \in Exps /\ Rounded(q) \in Exps
  <2> HIDE DEF s, q
  <2>1. /\ Rounded(s) = IF s < lo THEN lo - 1 ELSE IF s > hi THEN hi + 1 ELSE s
        /\ Rounded(q) = IF q < lo THEN lo - 1 ELSE IF q > hi THEN hi + 1 ELSE q
    BY <1>6, <1>11
  <2> QED
    BY <1>5, <1>11, <2>1, Exponentes
<1>13. loop[m][Rounded(s)][Rounded(q)] = Rounded(Rounded(s) + m * Rounded(q))
  <2>1. m \notin T
    BY <1>1, <1>9
  <2> HIDE DEF m, s, q, Mismo
  <2> QED
    BY <1>9, <1>12, <2>1 DEF T
<1>14. Rounded(Rounded(s) + m * Rounded(q)) = Rounded(s + m * q)
  <2> HIDE DEF m, s, q
  <2> QED
    BY <1>9, <1>11, Saturar
<1>15. s + m * q = a + k * b
  <2> HIDE DEF m, c
  <2>1. (a + c * b) + m * (b + b) = a + (2 * m + c) * b
    BY <1>4, <1>9
  <2> QED
    BY <1>9, <2>1
<1> HIDE DEF m, c, s, q, R
<1> QED
  BY <1>3, <1>10, <1>11, <1>13, <1>14, <1>15

\* The float that the loop ends with, by the kinds of exponents.
LEMMA PotenciaDeTests ==
  ASSUME NEW x \in Int, x # -(2^(W - 1))
  PROVE  /\ x < MinExp => test_floatPower2(x) = {}
         /\ MinExp <= x /\ x < 1 - Bias => test_floatPower2(x) = {x - MinExp}
         /\ 1 - Bias <= x /\ x <= Bias => test_floatPower2(x) = Shl(OfInt(x + Bias), F)
         /\ x > Bias => test_floatPower2(x) = F .. W - 2
<1> DEFINE e == Rounded(x)
<1>1. test_floatPower2(x) = f2u(PowerToFloat(e))
  <2>1. CASE x < 0
    <3>1. -x \in Nat /\ 0 + (-x) * (-1) = x
      BY <2>1
    <3>2. loop[-x][0][-1] = Rounded(0 + (-x) * (-1))
      BY <3>1, BucleMultiplica, Exponentes
    <3> QED
      BY <2>1, <3>1, <3>2 DEF test_floatPower2
  <2>2. CASE ~(x < 0)
    <3>1. x \in Nat /\ 0 + x * 1 = x
      BY <2>2
    <3>2. loop[x][0][1] = Rounded(0 + x * 1)
      BY <3>1, BucleMultiplica, Exponentes
    <3> QED
      BY <2>2, <3>1, <3>2 DEF test_floatPower2
  <2> QED
    BY <2>1, <2>2
<1> DEFINE lo == MinExp
           hi == Bias
<1>2. lo \in Int /\ hi \in Int /\ lo = 1 - hi - F /\ hi >= 1 /\ F \in Nat /\ F >= 2
  BY Exponentes
<1>3. e = IF x < lo THEN lo - 1 ELSE IF x > hi THEN hi + 1 ELSE x
  BY DEF Rounded
<1>4. PowerToFloat(e) =
        CASE e < lo -> [sign |-> FALSE, exp |-> {}, frac |-> {}]
          [] e > hi -> [sign |-> FALSE, exp |-> F .. W - 2, frac |-> {}]
          [] e >= lo /\ e < 1 - hi -> [sign |-> FALSE, exp |-> {}, frac |-> {e - lo}]
          [] OTHER -> [sign |-> FALSE, exp |-> Shl(OfInt(e + hi), F), frac |-> {}]
  BY DEF PowerToFloat
<1>5. \A ex, fr : f2u([sign |-> FALSE, exp |-> ex, frac |-> fr]) = ex \cup fr
  BY DEF f2u
<1>6. SUFFICES /\ x < lo => test_floatPower2(x) = {}
               /\ lo <= x /\ x < 1 - hi => test_floatPower2(x) = {x - lo}
               /\ 1 - hi <= x /\ x <= hi => test_floatPower2(x) = Shl(OfInt(x + hi), F)
               /\ x > hi => test_floatPower2(x) = F .. W - 2
  OBVIOUS
<1> HIDE DEF e, lo, hi
<1>7. ASSUME x < lo PROVE test_floatPower2(x) = {}
  <2>1. e < lo
    BY <1>2, <1>3, <1>7
  <2>2. PowerToFloat(e) = [sign |-> FALSE, exp |-> {}, frac |-> {}]
    <3>1. ~(e > hi) /\ ~(e >= lo /\ e < 1 - hi)
      BY <1>2, <1>3, <1>7
    <3> QED
      BY <1>4, <2>1, <3>1
  <2> QED
    BY <1>1, <1>5, <2>2
<1>8. ASSUME lo <= x, x < 1 - hi PROVE test_floatPower2(x) = {x - lo}
  <2>1. e = x /\ ~(e < lo) /\ ~(e > hi) /\ e >= lo /\ e < 1 - hi
    BY <1>2, <1>3, <1>8
  <2>2. PowerToFloat(e) = [sign |-> FALSE, exp |-> {}, frac |-> {e - lo}]
    BY <1>4, <2>1
  <2>3. f2u(PowerToFloat(e)) = {} \cup {e - lo}
    BY <1>5, <2>2
  <2> QED
    BY <1>1, <2>1, <2>3
<1>9. ASSUME 1 - hi <= x, x <= hi PROVE test_floatPower2(x) = Shl(OfInt(x + hi), F)
  <2>1. e = x /\ ~(e < lo) /\ ~(e > hi) /\ ~(e < 1 - hi)
    BY <1>2, <1>3, <1>9
  <2>2. PowerToFloat(e) = [sign |-> FALSE, exp |-> Shl(OfInt(e + hi), F), frac |-> {}]
    BY <1>4, <2>1
  <2>3. f2u(PowerToFloat(e)) = Shl(OfInt(e + hi), F) \cup {}
    BY <1>5, <2>2
  <2> QED
    BY <1>1, <2>1, <2>3
<1>10. ASSUME x > hi PROVE test_floatPower2(x) = F .. W - 2
  <2>1. ~(e < lo) /\ e > hi /\ ~(e < 1 - hi)
    BY <1>2, <1>3, <1>10
  <2>2. PowerToFloat(e) = [sign |-> FALSE, exp |-> F .. W - 2, frac |-> {}]
    BY <1>4, <2>1
  <2>3. f2u(PowerToFloat(e)) = (F .. W - 2) \cup {}
    BY <1>5, <2>2
  <2> QED
    BY <1>1, <2>3
<1> QED
  BY <1>7, <1>8, <1>9, <1>10

\* floatPower2 agrees with tests.c on every integer but the exponents of the
\* denormals, on all of which it is wrong: its bit is one place too high.
THEOREM PotenciaSalvoDenormales ==
  \A x \in Int : floatPower2(x) = test_floatPower2(x) <=> x \notin Denormales
<1> SUFFICES ASSUME NEW x \in Int
             PROVE  floatPower2(x) = test_floatPower2(x) <=> x \notin Denormales
  OBVIOUS
<1> DEFINE hi == Bias
           lo == MinExp
           h == 2^(W - 1)
           P == floatPower2(x)
           Q == test_floatPower2(x)
<1>1. hi \in Nat /\ lo = 1 - hi - F /\ hi >= 1 /\ F \in Nat /\ F >= 2 /\ F < W - 1 /\ W \in Nat
  BY Exponentes, CamposDelFlotante, WidthAssumption
<1>2. h \in Nat /\ h > hi + F
  <2>1. F - 1 \in Nat /\ W - 1 \in Nat /\ F - 1 <= W - 1
    BY <1>1
  <2>2. Dos(F - 1) <= Dos(W - 1) /\ Dos(W - 1) \in Nat /\ Dos(F - 1) \in Nat
    BY <2>1, DosBase, DosCrece
  <2>3. Dos(F - 1) > hi + F
    BY PrecisionAssumption DEF Dos
  <2>4. h = Dos(W - 1)
    BY DEF Dos
  <2> HIDE DEF h, hi
  <2> QED
    BY <1>1, <2>2, <2>3, <2>4
<1>3. x \in Denormales <=> -(hi + F) <= x /\ x <= -hi
  <2>1. Denormales = -(hi + F) .. -hi
    BY DEF Denormales
  <2> HIDE DEF hi
  <2> QED
    BY <1>1, <2>1
<1> DEFINE displacement == -x - hi
<1>4. P = CASE x < -(hi + F) -> {}
            [] x <= -hi /\ x >= -(hi + F) -> Shl(One, F - displacement)
            [] x <= hi /\ x >= 1 - hi -> Shl(OfInt(hi + x), F)
            [] OTHER -> Shl(0 .. E - 1, F)
  BY DEF floatPower2
<1>5. x # -h => /\ x < lo => Q = {}
                /\ lo <= x /\ x < 1 - hi => Q = {x - lo}
                /\ 1 - hi <= x /\ x <= hi => Q = Shl(OfInt(x + hi), F)
                /\ x > hi => Q = F .. W - 2
  BY PotenciaDeTests
<1>6. x = -h => Q = {}
  BY DEF test_floatPower2
<1>7. Shl(0 .. E - 1, F) = F .. W - 2
  BY CamposDelFlotante DEF mask_exp
<1>8. SUFFICES P = Q <=> x \notin Denormales
  OBVIOUS
<1> HIDE DEF hi, lo, h, P, Q, displacement
<1>9. CASE x < -(hi + F)
  <2>1. x < lo /\ x \notin Denormales /\ ~(x <= -hi /\ x >= -(hi + F)) /\ ~(x <= hi /\ x >= 1 - hi)
    BY <1>1, <1>3, <1>9
  <2>2. P = {}
    BY <1>4, <1>9, <2>1
  <2>3. Q = {}
    BY <1>5, <1>6, <2>1
  <2> QED
    BY <2>1, <2>2, <2>3
<1>10. CASE x <= -hi /\ x >= -(hi + F)
  <2> DEFINE j == F - displacement
  <2>1. x \in Denormales /\ ~(x < -(hi + F)) /\ ~(x <= hi /\ x >= 1 - hi) /\ x # -h
    BY <1>1, <1>2, <1>3, <1>10
  <2>2. P = Shl(One, j)
    BY <1>4, <1>10, <2>1
  <2>3. j \in 0 .. F /\ j = F + x + hi
    BY <1>1, <1>10 DEF displacement
  <2> HIDE DEF j
  <2>4. Shl(One, j) = {j}
    BY <1>1, <2>3 DEF Shl, One, Bit
  <2>5. CASE x < lo
    BY <1>5, <2>1, <2>2, <2>4, <2>5
  <2>6. CASE ~(x < lo)
    <3>1. lo <= x /\ x < 1 - hi /\ x - lo = j - 1 /\ j - 1 # j
      BY <1>1, <1>10, <2>3, <2>6
    <3>2. Q = {j - 1}
      BY <1>5, <2>1, <3>1
    <3> QED
      BY <2>1, <2>2, <2>4, <3>1, <3>2
  <2> QED
    BY <2>5, <2>6
<1>11. CASE x <= hi /\ x >= 1 - hi
  <2>1. /\ x \notin Denormales /\ ~(x < -(hi + F)) /\ ~(x <= -hi /\ x >= -(hi + F))
        /\ x # -h /\ hi + x = x + hi /\ 1 - hi <= x
    BY <1>1, <1>2, <1>3, <1>11
  <2>2. P = Shl(OfInt(hi + x), F)
    BY <1>4, <1>11, <2>1
  <2>3. Q = Shl(OfInt(x + hi), F)
    BY <1>5, <1>11, <2>1
  <2> QED
    BY <2>1, <2>2, <2>3
<1>12. CASE x > hi
  <2>1. /\ x \notin Denormales /\ ~(x < -(hi + F)) /\ ~(x <= -hi /\ x >= -(hi + F))
        /\ ~(x <= hi /\ x >= 1 - hi) /\ x # -h
    BY <1>1, <1>2, <1>3, <1>12
  <2>2. P = Shl(0 .. E - 1, F)
    BY <1>4, <2>1
  <2>3. Q = F .. W - 2
    BY <1>5, <1>12, <2>1
  <2> QED
    BY <1>7, <2>1, <2>2, <2>3
<1> QED
  BY <1>1, <1>9, <1>10, <1>11, <1>12

-----------------------------------------------------------------------------
(***************************************************************************)
(* btest.c                                                                 *)
(***************************************************************************)

\* Sequences.

\* Of the first n of the sequences q, g has at k the first k one after another.
Pegadas(g, q, n) == \A k \in 1 .. n : g[k] = IF k = 1 THEN q[k] ELSE g[k - 1] \o q[k]

\* The recursion of FlattenSeq has a solution.
LEMMA HayPegadas ==
  ASSUME NEW R, NEW N \in Nat, NEW q \in [1 .. N -> Seq(R)]
  PROVE  \A n \in 1 .. N : \E g \in [1 .. n -> Seq(R)] : Pegadas(g, q, n)
<1> DEFINE T == {n \in 1 .. N : ~ \E g \in [1 .. n -> Seq(R)] : Pegadas(g, q, n)}
<1> SUFFICES ASSUME T # {} PROVE FALSE
  OBVIOUS
<1>1. PICK m \in T : \A n \in T : m <= n
  <2>1. T \subseteq Nat
    OBVIOUS
  <2> HIDE DEF T
  <2> QED
    BY <2>1, Minimo
<1>2. CASE m = 1
  <2> DEFINE g == [k \in 1 .. 1 |-> q[1]]
  <2>1. g \in [1 .. m -> Seq(R)] /\ Pegadas(g, q, m)
    BY <1>2 DEF Pegadas
  <2> QED
    BY <1>1, <2>1
<1>3. CASE m > 1
  <2>1. m - 1 \in 1 .. N /\ m - 1 \notin T
    <3>1. m \in 1 .. N
      BY <1>1
    <3>2. m - 1 \in 1 .. N /\ ~ (m <= m - 1)
      BY <1>3, <3>1
    <3> HIDE DEF T
    <3> QED
      BY <1>1, <3>2
  <2>2. PICK h \in [1 .. m - 1 -> Seq(R)] : Pegadas(h, q, m - 1)
    BY <2>1
  <2> DEFINE u == h[m - 1] \o q[m]
             g == [k \in 1 .. m |-> IF k = m THEN u ELSE h[k]]
  <2>3. u \in Seq(R)
    <3>1. h[m - 1] \in Seq(R) /\ q[m] \in Seq(R)
      BY <1>3
    <3> QED
      BY <3>1, ConcatProperties
  <2> HIDE DEF u
  <2>4. g \in [1 .. m -> Seq(R)]
    BY <2>3
  <2>5. \A k \in 1 .. m - 1 : g[k] = h[k]
    BY <1>1
  <2>6. Pegadas(g, q, m)
    <3> SUFFICES ASSUME NEW k \in 1 .. m
                 PROVE  g[k] = IF k = 1 THEN q[k] ELSE g[k - 1] \o q[k]
      BY DEF Pegadas
    <3>1. CASE k = m
      <4>1. g[m] = h[m - 1] \o q[m]
        BY SMTT(60) DEF u
      <4>2. m - 1 \in 1 .. m - 1
        BY <1>1, <1>3
      <4>3. g[m - 1] = h[m - 1]
        BY <2>5, <4>2
      <4> HIDE DEF g
      <4> QED
        BY <1>3, <3>1, <4>1, <4>3
    <3>2. CASE k # m
      <4>1. k \in 1 .. m - 1 /\ (k # 1 => k - 1 \in 1 .. m - 1)
        BY <3>2
      <4>2. h[k] = IF k = 1 THEN q[k] ELSE h[k - 1] \o q[k]
        BY <2>2, <4>1 DEF Pegadas
      <4> HIDE DEF g
      <4> QED
        BY <2>5, <4>1, <4>2
    <3> QED
      BY <3>1, <3>2
  <2> QED
    BY <1>1, <2>4, <2>6
<1> QED
  BY <1>1, <1>2, <1>3

\* What FlattenSeq makes of N sequences of at most c elements of R.
LEMMA Aplanada ==
  ASSUME NEW R, NEW N \in Nat, NEW c \in Nat, NEW q \in [1 .. N -> Seq(R)],
         \A k \in 1 .. N : Len(q[k]) <= c
  PROVE  FlattenSeq(q) \in Seq(R) /\ Len(FlattenSeq(q)) <= c * N
<1>0. q \in Seq(Seq(R)) /\ Len(q) = N
  OBVIOUS
<1>1. CASE N = 0
  <2>1. FlattenSeq(q) = q
    BY <1>0, <1>1 DEF FlattenSeq
  <2>2. q = <<>>
    BY <1>0, <1>1
  <2>3. c * N = 0
    BY <1>1
  <2> QED
    BY <2>1, <2>2, <2>3
<1>2. CASE N > 0
  <2> DEFINE f == CHOOSE g : g = [k \in 1 .. Len(q) |-> IF k = 1 THEN q[k] ELSE g[k - 1] \o q[k]]
  <2>1. FlattenSeq(q) = f[N]
    BY <1>0, <1>2 DEF FlattenSeq
  <2>2. \E g : g = [k \in 1 .. Len(q) |-> IF k = 1 THEN q[k] ELSE g[k - 1] \o q[k]]
    <3>1. PICK g \in [1 .. N -> Seq(R)] : Pegadas(g, q, N)
      BY <1>2, HayPegadas
    <3>2. g = [k \in 1 .. N |-> IF k = 1 THEN q[k] ELSE g[k - 1] \o q[k]]
      BY <3>1 DEF Pegadas
    <3> QED
      BY <1>0, <3>2
  <2>3. f = [k \in 1 .. N |-> IF k = 1 THEN q[k] ELSE f[k - 1] \o q[k]]
    BY <1>0, <2>2
  <2> HIDE DEF f
  <2> DEFINE Bien(n) == f[n] \in Seq(R) /\ Len(f[n]) <= c * n
             T == {n \in 1 .. N : ~ Bien(n)}
  <2>4. ASSUME T # {} PROVE FALSE
    <3>1. PICK m \in T : \A n \in T : m <= n
      <4>1. T \subseteq Nat /\ T # {}
        BY <2>4
      <4> HIDE DEF T
      <4> QED
        BY <4>1, Minimo
    <3>2. q[m] \in Seq(R) /\ Len(q[m]) <= c /\ m \in Nat
      OBVIOUS
    <3>3. CASE m = 1
      <4>1. f[m] = q[m] /\ c * m = c
        BY <2>3, <3>3
      <4> QED
        BY <3>1, <3>2, <4>1
    <3>4. CASE m # 1
      <4>1. m - 1 \in 1 .. N /\ m - 1 \notin T
        BY <3>1, <3>4
      <4>2. f[m - 1] \in Seq(R) /\ Len(f[m - 1]) <= c * (m - 1)
        BY <4>1
      <4>3. f[m] = f[m - 1] \o q[m]
        BY <2>3, <3>4
      <4>4. f[m] \in Seq(R) /\ Len(f[m]) = Len(f[m - 1]) + Len(q[m])
        BY <3>2, <4>2, <4>3, ConcatProperties
      <4>5. c * (m - 1) + c = c * m
        BY <3>2
      <4>6. Len(f[m]) <= c * m
        <5>1. Len(f[m - 1]) \in Nat /\ Len(q[m]) \in Nat /\ c * (m - 1) \in Int
          BY <3>2, <4>2
        <5> DEFINE a == c * (m - 1)
                   b == c * m
        <5>2. a \in Int /\ a + c = b /\ Len(f[m - 1]) <= a
          BY <4>2, <4>5, <5>1
        <5> HIDE DEF a, b
        <5>3. Len(f[m]) <= b
          BY <3>2, <4>4, <5>1, <5>2
        <5> QED
          BY <5>3 DEF b
      <4> QED
        BY <3>1, <4>4, <4>6
    <3> QED
      BY <3>3, <3>4
  <2>5. N \in 1 .. N
    BY <1>2
  <2> QED
    BY <2>1, <2>4, <2>5
<1> QED
  BY <1>1, <1>2

-----------------------------------------------------------------------------
\* The table of puzzles and the arrays of values.

\* The ends of decl.c's ranges and the borders of the floats are numbers.
LEMMA Numeros ==
  /\ TMin \in Int /\ TMax \in Int /\ Bias \in Int
  /\ 2^F \in Int /\ 2^E \in Int /\ 2^(F - 1) \in Int /\ W \in Nat /\ TMin <= TMax
<1>1. W \in Nat /\ W - 1 \in Nat /\ F \in Nat /\ F - 1 \in Nat /\ E \in Nat /\ E - 1 \in Nat
  BY WidthAssumption, FormatAssumption DEF E
<1>2. \A n \in Nat : 2^n \in Int
  OBVIOUS
<1>3. 2^(W - 1) \in Int /\ 2^(E - 1) \in Int /\ 2^F \in Int /\ 2^E \in Int /\ 2^(F - 1) \in Int
  BY <1>1, <1>2
<1>4. TMin <= TMax
  <2> DEFINE h == Dos(W - 1)
  <2>1. TMin = -h /\ TMax = h - 1
    BY DEF TMin, TMax, Dos
  <2>2. h \in Nat
    BY <1>1, DosBase
  <2>3. h >= 1
    BY <1>1, DosCrece
  <2> HIDE DEF h
  <2> QED
    BY <2>1, <2>2, <2>3
<1> QED
  BY <1>1, <1>3, <1>4 DEF TMin, TMax, Bias

\* A row as gen_vals and run_tests need it: its ranges are pairs of numbers,
\* none of which has one number more than an array has places.
FilaCorrecta(p) ==
  /\ p.args \in 1 .. 3
  /\ p.rating \in Nat
  /\ \A j \in 1 .. p.args : \E min, max \in Int :
       p.arg_ranges[j] = <<min, max>> /\ min <= max /\ max - min # MAX_TEST_VALS

\* The 13 rows are.
LEMMA Filas ==
  /\ DOMAIN test_set = 1 .. 13 /\ Len(test_set) = 13
  /\ \A n \in 1 .. 13 : FilaCorrecta(test_set[n])
<1>0. MAX_TEST_VALS \in Nat /\ MAX_TEST_VALS > 3
  BY RangeAssumption DEF MAX_TEST_VALS
<1>1. TMax - TMin # MAX_TEST_VALS /\ W - 1 # MAX_TEST_VALS
  BY TamanioAssumption
<1> DEFINE P == {Todos, Flotante, <<0, 3>>, <<0, W - 1>>}
<1>2. \A x \in P : \E min, max \in Int : x = <<min, max>> /\ min <= max /\ max - min # MAX_TEST_VALS
  <2>1. 3 - 0 # MAX_TEST_VALS /\ 1 - 1 # MAX_TEST_VALS /\ (W - 1) - 0 # MAX_TEST_VALS
    BY <1>0, <1>1, Numeros
  <2>2. W - 1 \in Int /\ 0 <= W - 1
    BY Numeros, WidthAssumption
  <2> QED
    BY <1>1, <2>1, <2>2, Numeros DEF Todos, Flotante
<1>3. Todos \in P /\ Flotante \in P /\ <<0, 3>> \in P /\ <<0, W - 1>> \in P
  OBVIOUS
<1> HIDE DEF P
<1>4. \A m, x, r : x \in P /\ r \in Nat => FilaCorrecta(Prueba(m, 1, r, <<x>>))
  BY <1>2 DEF FilaCorrecta, Prueba
<1>5. \A m, x, y, r : x \in P /\ y \in P /\ r \in Nat => FilaCorrecta(Prueba(m, 2, r, <<x, y>>))
  BY <1>2 DEF FilaCorrecta, Prueba
<1>6. \A m, x, y, z, r : x \in P /\ y \in P /\ z \in P /\ r \in Nat =>
        FilaCorrecta(Prueba(m, 3, r, <<x, y, z>>))
  BY <1>2 DEF FilaCorrecta, Prueba
<1>7. DOMAIN test_set = 1 .. 13 /\ Len(test_set) = 13
  BY DEF test_set
<1>8. ASSUME NEW n \in 1 .. 13 PROVE FilaCorrecta(test_set[n])
  <2>1. n = 1 \/ n = 2 \/ n = 3 \/ n = 4 \/ n = 5 \/ n = 6 \/ n = 7 \/ n = 8
          \/ n = 9 \/ n = 10 \/ n = 11 \/ n = 12 \/ n = 13
    OBVIOUS
  <2>2. FilaCorrecta(test_set[1])
    <3>1. test_set[1] = Prueba("bitAnd", 2, 1, <<Todos, Todos>>)
      BY DEF test_set
    <3> QED
      BY <1>3, <1>4, <1>5, <1>6, <3>1
  <2>3. FilaCorrecta(test_set[2])
    <3>1. test_set[2] = Prueba("bitXor", 2, 1, <<Todos, Todos>>)
      BY DEF test_set
    <3> QED
      BY <1>3, <1>4, <1>5, <1>6, <3>1
  <2>4. FilaCorrecta(test_set[3])
    <3>1. test_set[3] = Prueba("negate", 1, 2, <<Todos>>)
      BY DEF test_set
    <3> QED
      BY <1>3, <1>4, <1>5, <1>6, <3>1
  <2>5. FilaCorrecta(test_set[4])
    <3>1. test_set[4] = Prueba("byteSwap", 3, 2, <<Todos, <<0, 3>>, <<0, 3>>>>)
      BY DEF test_set
    <3> QED
      BY <1>3, <1>4, <1>5, <1>6, <3>1
  <2>6. FilaCorrecta(test_set[5])
    <3>1. test_set[5] = Prueba("allOddBits", 1, 2, <<Todos>>)
      BY DEF test_set
    <3> QED
      BY <1>3, <1>4, <1>5, <1>6, <3>1
  <2>7. FilaCorrecta(test_set[6])
    <3>1. test_set[6] = Prueba("bitMask", 2, 3, <<<<0, W - 1>>, <<0, W - 1>>>>)
      BY DEF test_set
    <3> QED
      BY <1>3, <1>4, <1>5, <1>6, <3>1
  <2>8. FilaCorrecta(test_set[7])
    <3>1. test_set[7] = Prueba("conditional", 3, 3, <<Todos, Todos, Todos>>)
      BY DEF test_set
    <3> QED
      BY <1>3, <1>4, <1>5, <1>6, <3>1
  <2>9. FilaCorrecta(test_set[8])
    <3>1. test_set[8] = Prueba("isAsciiDigit", 1, 3, <<Todos>>)
      BY DEF test_set
    <3> QED
      BY <1>3, <1>4, <1>5, <1>6, <3>1
  <2>10. FilaCorrecta(test_set[9])
    <3>1. test_set[9] = Prueba("isNonZero", 1, 4, <<Todos>>)
      BY DEF test_set
    <3> QED
      BY <1>3, <1>4, <1>5, <1>6, <3>1
  <2>11. FilaCorrecta(test_set[10])
    <3>1. test_set[10] = Prueba("logicalNeg", 1, 4, <<Todos>>)
      BY DEF test_set
    <3> QED
      BY <1>3, <1>4, <1>5, <1>6, <3>1
  <2>12. FilaCorrecta(test_set[11])
    <3>1. test_set[11] = Prueba("floatNegate", 1, 2, <<Flotante>>)
      BY DEF test_set
    <3> QED
      BY <1>3, <1>4, <1>5, <1>6, <3>1
  <2>13. FilaCorrecta(test_set[12])
    <3>1. test_set[12] = Prueba("floatAbsVal", 1, 2, <<Flotante>>)
      BY DEF test_set
    <3> QED
      BY <1>3, <1>4, <1>5, <1>6, <3>1
  <2>14. FilaCorrecta(test_set[13])
    <3>1. test_set[13] = Prueba("floatPower2", 1, 4, <<Flotante>>)
      BY DEF test_set
    <3> QED
      BY <1>3, <1>4, <1>5, <1>6, <3>1
  <2> QED
    BY <2>1, <2>2, <2>3, <2>4, <2>5, <2>6, <2>7, <2>8, <2>9, <2>10, <2>11, <2>12, <2>13, <2>14
<1> QED
  BY <1>7, <1>8

\* No two rows have the same name, by which a verdict is told from another.
LEMMA Nombres ==
  \A m, n \in 1 .. 13 : test_set[m].name = test_set[n].name => m = n
<1> DEFINE nombre == [n \in 1 .. 13 |-> test_set[n].name]
<1>1. nombre = <<"bitAnd", "bitXor", "negate", "byteSwap", "allOddBits", "bitMask", "conditional", "isAsciiDigit", "isNonZero", "logicalNeg", "floatNegate", "floatAbsVal", "floatPower2">>
  BY DEF test_set, Prueba
<1> HIDE DEF nombre
<1>2. \A m, n \in 1 .. 13 : nombre[m] = nombre[n] => m = n
  BY <1>1
<1> QED
  BY <1>2 DEF nombre

-----------------------------------------------------------------------------
\* gen_vals.

\* The largest number of a set that has one of them below a bound.
LEMMA Mayor ==
  ASSUME NEW N \in Nat, NEW S, S \subseteq 1 .. N, S # {}
  PROVE  Max(S) \in S
<1> DEFINE T == {N - x : x \in S}
<1>1. T \subseteq Nat /\ T # {}
  <2>1. \A x \in S : N - x \in Nat
    OBVIOUS
  <2>2. \A x \in S : N - x \in T
    OBVIOUS
  <2>3. ASSUME NEW v \in T PROVE v \in Nat
    <3>1. PICK x \in S : v = N - x
      OBVIOUS
    <3> QED
      BY <2>1, <3>1
  <2> HIDE DEF T
  <2> QED
    BY <2>2, <2>3
<1>2. PICK u \in T : \A v \in T : u <= v
  BY <1>1, Minimo
<1>3. PICK x \in S : u = N - x
  BY <1>2
<1>4. ASSUME NEW y \in S PROVE x >= y
  <2>1. N - y \in T
    OBVIOUS
  <2>2. N - x <= N - y
    BY <1>2, <1>3, <2>1
  <2>3. x \in Int /\ y \in Int
    OBVIOUS
  <2> QED
    BY <2>2, <2>3
<1> QED
  BY <1>4 DEF Max

\* Each argument is tried on at least one value of its range and at most TEST_RANGE.
LEMMA RangoDePrueba ==
  ASSUME NEW args \in 1 .. 3
  PROVE  arg_test_range(args) \in 1 .. TEST_RANGE
<1> DEFINE potencia(r) == CASE args = 1 -> r [] args = 2 -> r * r [] args = 3 -> r * r * r
           S == {r \in 1 .. TEST_RANGE : potencia(r) <= TEST_RANGE}
<1>1. TEST_RANGE \in Nat /\ TEST_RANGE >= 4
  BY RangeAssumption
<1>2. potencia(1) = 1
  OBVIOUS
<1>3. 1 \in S
  BY <1>1, <1>2
<1>4. arg_test_range(args) = Max(S)
  BY DEF arg_test_range
<1> HIDE DEF potencia
<1>5. S \subseteq 1 .. TEST_RANGE /\ S # {}
  BY <1>3
<1> HIDE DEF S
<1>6. Max(S) \in S
  BY <1>1, <1>5, Mayor
<1> QED
  BY <1>4, <1>5, <1>6

\* The values of a range.
EnRango(min, max) == {v \in Int \cup Azar : min <= v /\ v <= max}

\* A pair and what follows it.
LEMMA Pegar ==
  ASSUME NEW R, NEW a \in Seq(R), NEW b \in Seq(R), NEW n \in Nat, NEW m \in Nat,
         Len(a) <= n, Len(b) <= m
  PROVE  a \o b \in Seq(R) /\ Len(a \o b) <= n + m
BY ConcatProperties

\* Values near the ends, around zero and at random are in the range, which is
\* wider than the array, and are at most five for each one asked for.
LEMMA MuestraCabe ==
  ASSUME NEW min \in Int, NEW max \in Int, NEW r \in 1 .. TEST_RANGE,
         max - MAX_TEST_VALS > min, NEW azar \in [1 .. r -> random_val(min, max)]
  PROVE  /\ Muestra(min, max, azar) \in Seq(EnRango(min, max))
         /\ Len(Muestra(min, max, azar)) <= MAX_TEST_VALS
<1> DEFINE R == EnRango(min, max)
           a(k) == <<min + (k - 1), max - (k - 1)>>
           b(k) == IF k - 1 >= min /\ k - 1 <= max THEN <<k - 1>> ELSE <<>>
           c(k) == IF 1 - k >= min /\ 1 - k <= max THEN <<1 - k>> ELSE <<>>
           d(k) == <<azar[k]>>
           q == [k \in 1 .. r |-> a(k) \o b(k) \o c(k) \o d(k)]
<1>0. TEST_RANGE \in Nat /\ TEST_RANGE >= 4 /\ MAX_TEST_VALS = 13 * TEST_RANGE
  BY RangeAssumption DEF MAX_TEST_VALS
<1>1. ASSUME NEW k \in 1 .. r
      PROVE  q[k] \in Seq(R) /\ Len(q[k]) <= 5
  <2>1. a(k) \in Seq(R) /\ Len(a(k)) <= 2
    <3>1. min + (k - 1) \in R /\ max - (k - 1) \in R
      BY <1>0 DEF EnRango
    <3> QED
      BY <3>1
  <2>2. b(k) \in Seq(R) /\ Len(b(k)) <= 1
    <3>1. k - 1 >= min /\ k - 1 <= max => k - 1 \in R
      BY DEF EnRango
    <3> QED
      BY <3>1
  <2>3. c(k) \in Seq(R) /\ Len(c(k)) <= 1
    <3>1. 1 - k >= min /\ 1 - k <= max => 1 - k \in R
      BY DEF EnRango
    <3> QED
      BY <3>1
  <2>4. d(k) \in Seq(R) /\ Len(d(k)) <= 1
    <3>1. azar[k] \in random_val(min, max)
      OBVIOUS
    <3>2. azar[k] \in R
      BY <3>1 DEF EnRango, random_val
    <3> QED
      BY <3>2
  <2>5. q[k] = a(k) \o b(k) \o c(k) \o d(k)
    OBVIOUS
  <2> HIDE DEF q, R, a, b, c, d
  <2>6. a(k) \o b(k) \in Seq(R) /\ Len(a(k) \o b(k)) <= 3
    BY <2>1, <2>2, Pegar
  <2>7. a(k) \o b(k) \o c(k) \in Seq(R) /\ Len(a(k) \o b(k) \o c(k)) <= 4
    BY <2>3, <2>6, Pegar
  <2>8. a(k) \o b(k) \o c(k) \o d(k) \in Seq(R) /\ Len(a(k) \o b(k) \o c(k) \o d(k)) <= 5
    BY <2>4, <2>7, Pegar
  <2> QED
    BY <2>5, <2>8
<1>2. Muestra(min, max, azar) = FlattenSeq(q)
  <2>1. Len(azar) = r
    OBVIOUS
  <2> QED
    BY <2>1 DEF Muestra
<1>3. q \in [1 .. r -> Seq(R)] /\ \A k \in 1 .. r : Len(q[k]) <= 5
  <2>1. q = [k \in 1 .. r |-> q[k]]
    OBVIOUS
  <2> HIDE DEF q
  <2> QED
    BY <1>1, <2>1
<1> HIDE DEF q
<1>4. FlattenSeq(q) \in Seq(R) /\ Len(FlattenSeq(q)) <= 5 * r
  BY SMTT(60), <1>3, Aplanada
<1>5. Len(FlattenSeq(q)) <= MAX_TEST_VALS
  <2> HIDE DEF R
  <2>1. Len(FlattenSeq(q)) \in Nat
    BY <1>4
  <2> QED
    BY <1>0, <1>4, <2>1
<1> QED
  BY <1>2, <1>4, <1>5

\* Twelve floats for each value asked for and four more.
LEMMA FlotantesCaben ==
  ASSUME NEW r \in 1 .. TEST_RANGE
  PROVE  Valores_float(r) \in Seq(Int) /\ Len(Valores_float(r)) <= MAX_TEST_VALS
<1> DEFINE smallest_norm == 2^F
           one == Bias * 2^F
           largest_norm == (2^E - 2) * 2^F
           inf == (2^E - 1) * 2^F
           nan == inf + 2^(F - 1)
           con_signo(n) == <<n, n + TMin>>
           m == Min({r, 2^F})
           q == [k \in 1 .. m |->
                  con_signo(k - 1)
                    \o con_signo(smallest_norm + k - 1) \o con_signo(smallest_norm - (k - 1))
                    \o con_signo(one + k - 1) \o con_signo(one - (k - 1))
                    \o con_signo(largest_norm - (k - 1))]
           N == IF m > 0 THEN m ELSE 0
<1>0. TEST_RANGE \in Nat /\ TEST_RANGE >= 4 /\ MAX_TEST_VALS = 13 * TEST_RANGE
  BY RangeAssumption DEF MAX_TEST_VALS
<1>1. /\ smallest_norm \in Int /\ one \in Int /\ largest_norm \in Int
      /\ inf \in Int /\ nan \in Int /\ TMin \in Int
  BY Numeros
<1>2. Valores_float(r) = FlattenSeq(q) \o con_signo(inf) \o con_signo(nan)
  BY DEF Valores_float
<1>3. m \in Int /\ m <= r
  <2>1. \E x \in {r, 2^F} : \A y \in {r, 2^F} : x <= y
    BY Numeros
  <2>2. m \in {r, 2^F} /\ \A y \in {r, 2^F} : m <= y
    BY <2>1 DEF Min
  <2> HIDE DEF m
  <2> QED
    BY <2>2, Numeros
<1> HIDE DEF smallest_norm, one, largest_norm, inf, nan, m
<1>4. \A n \in Int : con_signo(n) \in Seq(Int) /\ Len(con_signo(n)) <= 2
  BY <1>1
<1> HIDE DEF con_signo
<1>5. ASSUME NEW k \in 1 .. N
      PROVE  q[k] \in Seq(Int) /\ Len(q[k]) <= 12
  <2> DEFINE a == con_signo(k - 1)
             b == con_signo(smallest_norm + k - 1)
             c == con_signo(smallest_norm - (k - 1))
             d == con_signo(one + k - 1)
             e == con_signo(one - (k - 1))
             f == con_signo(largest_norm - (k - 1))
  <2>1. k \in 1 .. m /\ k \in Int
    BY <1>3
  <2>2. q[k] = a \o b \o c \o d \o e \o f
    BY <2>1
  <2>3. /\ a \in Seq(Int) /\ Len(a) <= 2 /\ b \in Seq(Int) /\ Len(b) <= 2
        /\ c \in Seq(Int) /\ Len(c) <= 2 /\ d \in Seq(Int) /\ Len(d) <= 2
        /\ e \in Seq(Int) /\ Len(e) <= 2 /\ f \in Seq(Int) /\ Len(f) <= 2
    <3>1. /\ k - 1 \in Int /\ smallest_norm + k - 1 \in Int /\ smallest_norm - (k - 1) \in Int
          /\ one + k - 1 \in Int /\ one - (k - 1) \in Int /\ largest_norm - (k - 1) \in Int
      BY <1>1, <2>1
    <3> QED
      BY <1>4, <3>1
  <2> HIDE DEF a, b, c, d, e, f, q
  <2>4. a \o b \in Seq(Int) /\ Len(a \o b) <= 4
    BY <2>3, Pegar
  <2>5. a \o b \o c \in Seq(Int) /\ Len(a \o b \o c) <= 6
    BY <2>3, <2>4, Pegar
  <2>6. a \o b \o c \o d \in Seq(Int) /\ Len(a \o b \o c \o d) <= 8
    BY <2>3, <2>5, Pegar
  <2>7. a \o b \o c \o d \o e \in Seq(Int) /\ Len(a \o b \o c \o d \o e) <= 10
    BY <2>3, <2>6, Pegar
  <2>8. a \o b \o c \o d \o e \o f \in Seq(Int) /\ Len(a \o b \o c \o d \o e \o f) <= 12
    BY <2>3, <2>7, Pegar
  <2> QED
    BY <2>2, <2>8
<1>6. 1 .. m = 1 .. N /\ N \in Nat /\ N <= r
  BY <1>3
<1>7. q \in [1 .. N -> Seq(Int)]
  <2>1. q = [k \in 1 .. N |-> q[k]]
    BY <1>6
  <2> HIDE DEF q, N
  <2> QED
    BY <1>5, <2>1
<1> HIDE DEF q, N
<1>8. FlattenSeq(q) \in Seq(Int) /\ Len(FlattenSeq(q)) <= 12 * N
  BY <1>5, <1>6, <1>7, Aplanada
<1> DEFINE s == FlattenSeq(q)
<1> HIDE DEF s
<1>9. s \in Seq(Int) /\ Len(s) <= 12 * r /\ Len(s) \in Nat /\ 12 * r \in Nat
  <2>1. s \in Seq(Int) /\ Len(s) <= 12 * N
    BY <1>8 DEF s
  <2>2. Len(s) \in Nat
    BY <2>1
  <2> QED
    BY <1>6, <2>1, <2>2
<1>10. s \o con_signo(inf) \in Seq(Int) /\ Len(s \o con_signo(inf)) <= 12 * r + 2
  BY <1>1, <1>4, <1>9, Pegar
<1>11. /\ s \o con_signo(inf) \o con_signo(nan) \in Seq(Int)
       /\ Len(s \o con_signo(inf) \o con_signo(nan)) <= 12 * r + 2 + 2
  <2>1. 12 * r + 2 \in Nat
    BY <1>9
  <2> QED
    BY <1>1, <1>4, <1>10, <2>1, Pegar
<1> DEFINE u == s \o con_signo(inf) \o con_signo(nan)
<1>12. Valores_float(r) = u
  BY <1>2 DEF s
<1>13. u \in Seq(Int) /\ Len(u) <= 12 * r + 4
  BY <1>11
<1> HIDE DEF u
<1>14. Len(u) \in Nat
  BY <1>13
<1>15. Len(u) <= MAX_TEST_VALS
  BY <1>0, <1>13, <1>14
<1> QED
  BY <1>12, <1>13, <1>15

\* Whatever gen_vals fills fits, and is in the range unless it is an argument
\* given with an option or a float.
LEMMA ValoresCaben ==
  ASSUME NEW min \in Int, NEW max \in Int, max - min # MAX_TEST_VALS,
         NEW r \in 1 .. TEST_RANGE, NEW arg, NEW s \in gen_vals(min, max, r, arg)
  PROVE  /\ Len(s) <= MAX_TEST_VALS
         /\ arg \notin DOMAIN orden.argval /\ <<min, max>> # Flotante =>
              \A k \in DOMAIN s : min <= s[k] /\ s[k] <= max
<1>0. TEST_RANGE \in Nat /\ TEST_RANGE >= 4 /\ MAX_TEST_VALS = 13 * TEST_RANGE
  BY RangeAssumption DEF MAX_TEST_VALS
<1>1. CASE arg \in DOMAIN orden.argval
  <2>1. s = <<orden.argval[arg]>>
    BY <1>1 DEF gen_vals
  <2> QED
    BY <1>0, <1>1, <2>1
<1>2. CASE arg \notin DOMAIN orden.argval /\ min = 1 /\ max = 1
  <2>1. s = Valores_float(r)
    BY <1>2 DEF gen_vals
  <2> QED
    BY <1>2, <2>1, FlotantesCaben DEF Flotante
<1>3. CASE arg \notin DOMAIN orden.argval /\ ~(min = 1 /\ max = 1) /\ max - MAX_TEST_VALS <= min
  <2>1. s = [k \in 1 .. max - min + 1 |-> min + k - 1]
    BY <1>3 DEF gen_vals
  <2>2. \A k \in DOMAIN s : min <= s[k] /\ s[k] <= max
    BY <2>1
  <2>3. CASE max - min + 1 >= 0
    <3>1. Len(s) = max - min + 1
      BY <2>1, <2>3
    <3> QED
      BY <1>0, <1>3, <2>2, <3>1
  <2>4. CASE max - min + 1 < 0
    <3>1. s = <<>>
      BY <2>1, <2>4
    <3> QED
      BY <1>0, <2>2, <3>1
  <2> QED
    BY <2>3, <2>4
<1>4. CASE arg \notin DOMAIN orden.argval /\ ~(min = 1 /\ max = 1) /\ ~(max - MAX_TEST_VALS <= min)
  <2>1. PICK azar \in [1 .. r -> random_val(min, max)] : s = Muestra(min, max, azar)
    BY <1>4 DEF gen_vals
  <2>2. s \in Seq(EnRango(min, max)) /\ Len(s) <= MAX_TEST_VALS
    BY <1>0, <1>4, <2>1, MuestraCabe
  <2> QED
    BY <2>2 DEF EnRango
<1> QED
  BY <1>1, <1>2, <1>3, <1>4

\* So do the arrays of a puzzle.
LEMMA TablasCaben ==
  ASSUME NEW n \in 1 .. 13, NEW s \in Tablas(test_set[n])
  PROVE  \A j \in DOMAIN s :
           /\ Len(s[j]) <= MAX_TEST_VALS
           /\ j \notin DOMAIN orden.argval /\ test_set[n].arg_ranges[j] # Flotante =>
                \A k \in DOMAIN s[j] :
                  test_set[n].arg_ranges[j][1] <= s[j][k] /\ s[j][k] <= test_set[n].arg_ranges[j][2]
<1> DEFINE p == test_set[n]
<1>1. FilaCorrecta(p)
  BY Filas
<1> HIDE DEF p
<1>2. SUFFICES ASSUME NEW j \in DOMAIN s
               PROVE  /\ Len(s[j]) <= MAX_TEST_VALS
                      /\ j \notin DOMAIN orden.argval /\ p.arg_ranges[j] # Flotante =>
                           \A k \in DOMAIN s[j] :
                             p.arg_ranges[j][1] <= s[j][k] /\ s[j][k] <= p.arg_ranges[j][2]
  BY DEF p
<1> DEFINE r == arg_test_range(p.args)
<1>3. s \in Tablas(p)
  BY DEF p
<1>4. j \in 1 .. p.args /\ s[j] \in gen_vals(p.arg_ranges[j][1], p.arg_ranges[j][2], r, j)
  BY <1>3 DEF Tablas
<1>5. PICK min, max \in Int : p.arg_ranges[j] = <<min, max>> /\ max - min # MAX_TEST_VALS
  BY <1>1, <1>4 DEF FilaCorrecta
<1>6. p.arg_ranges[j][1] = min /\ p.arg_ranges[j][2] = max
  BY <1>5
<1>7. r \in 1 .. TEST_RANGE
  BY <1>1, RangoDePrueba DEF FilaCorrecta
<1> HIDE DEF r
<1>8. s[j] \in gen_vals(min, max, r, j)
  BY <1>4, <1>6
<1>9. /\ Len(s[j]) <= MAX_TEST_VALS
      /\ j \notin DOMAIN orden.argval /\ <<min, max>> # Flotante =>
           \A k \in DOMAIN s[j] : min <= s[j][k] /\ s[j][k] <= max
  BY <1>5, <1>7, <1>8, ValoresCaben
<1> QED
  BY <1>5, <1>6, <1>9

-----------------------------------------------------------------------------
\* The invariant.

Comos == {"mal", "bien", "tiempo"}
Probados == {n \in 1 .. i - 1 : orden.test_fname \in {NULL, test_set[n].name}}
Con(como) == {n \in 1 .. 13 : <<test_set[n].name, como>> \in informe}
Vale == [n \in 1 .. 13 |-> IF orden.global_rating # 0 THEN orden.global_rating ELSE test_set[n].rating]

\* Where the program is: arrays and a frame are there only while a test runs,
\* which is one of the table that the options ask for.
Lugar ==
  /\ orden \in Ordenes
  /\ i \in 1 .. 14
  /\ pc \in {"run_tests", "sigsetjmp", "alarm", "probar", "fin", "indefinido"}
  /\ pc \in {"sigsetjmp", "alarm", "probar"} =>
       i <= 13 /\ orden.test_fname \in {NULL, test_set[i].name}
  /\ pc = "run_tests" => vals = <<>>

\* What was printed: verdicts on puzzles that were tested.
Impreso ==
  /\ IsFiniteSet(informe)
  /\ informe \subseteq {<<test_set[n].name, c>> : n \in Probados, c \in Comos}

\* The frame is saved before the alarm is set.
Marco == pc = "alarm" => envbuf = i

\* The score, with named parts.
Puntos ==
  /\ errors = Cardinality(Con("mal") \cup Con("tiempo"))
  /\ points = SumFunctionOnSet(Vale, Con("bien"))
  /\ max_points = SumFunctionOnSet(Vale, Probados)
  /\ Cardinality(informe) = Cardinality(Probados)

BInv == Lugar /\ Impreso /\ Marco /\ Puntos /\ SaltoASuPrueba /\ CabenEnRango

\* The score as the property states it.
LEMMA PuntosSon == PuntosCuadran <=> Puntos
BY Filas DEF PuntosCuadran, Puntos, Con, Probados, Vale

\* What a puzzle is worth is a number.
LEMMA ValeNat ==
  ASSUME orden \in Ordenes
  PROVE  \A n \in 1 .. 13 : Vale[n] \in Nat
<1>1. orden.global_rating \in Nat
  BY OrdenesAssumption
<1>2. \A n \in 1 .. 13 : test_set[n].rating \in Nat
  BY Filas DEF FilaCorrecta
<1> QED
  BY <1>1, <1>2 DEF Vale

\* The puzzles of the table are finitely many.
LEMMA Finitos == \A S : S \subseteq 1 .. 13 => IsFiniteSet(S)
<1>1. IsFiniteSet(1 .. 13)
  <2>1. \A n \in Nat : IsFiniteSet(1 .. n)
    BY FS_Interval
  <2> QED
    BY <2>1
<1> QED
  BY <1>1, FS_Subset

\* What test_function's return adds: one verdict, on a puzzle that had none.
LEMMA VuelveConserva ==
  ASSUME BInv, pc \in {"alarm", "probar"}, NEW terrors, NEW como, Vuelve(terrors, como),
         \/ terrors = 1 /\ como \in {"mal", "tiempo"}
         \/ terrors = 0 /\ como = "bien"
  PROVE  Lugar' /\ Impreso' /\ Puntos'
<1> DEFINE fila == <<test_set[i].name, como>>
<1>1. /\ orden \in Ordenes /\ orden' = orden /\ i \in 1 .. 13 /\ i' = i + 1 /\ i' \in 1 .. 14
      /\ orden.test_fname \in {NULL, test_set[i].name}
      /\ como \in Comos /\ informe' = informe \cup {fila}
      /\ vals' = <<>> /\ pc' = "run_tests"
  BY DEF BInv, Lugar, Vuelve, Comos, t
<1>2. Lugar'
  BY <1>1 DEF Lugar
<1>3. Probados' = Probados \cup {i} /\ i \notin Probados /\ Probados \subseteq 1 .. 13
  <2>1. \A n \in Int : n \in 1 .. (i + 1) - 1 <=> n \in 1 .. i - 1 \/ n = i
    BY <1>1
  <2>2. Probados' = {n \in 1 .. (i + 1) - 1 : orden.test_fname \in {NULL, test_set[n].name}}
    BY <1>1 DEF Probados
  <2>3. ASSUME NEW n PROVE n \in Probados' <=> n \in Probados \/ n = i
    BY <1>1, <2>1, <2>2 DEF Probados
  <2>4. Probados' = Probados \cup {i}
    BY <2>3
  <2>5. i \notin Probados /\ Probados \subseteq 1 .. 13
    BY <1>1 DEF Probados
  <2> QED
    BY <2>4, <2>5
<1>4. \A c : <<test_set[i].name, c>> \notin informe
  <2> SUFFICES ASSUME NEW c, <<test_set[i].name, c>> \in informe PROVE FALSE
    OBVIOUS
  <2>1. PICK n \in Probados, d \in Comos : <<test_set[i].name, c>> = <<test_set[n].name, d>>
    BY DEF BInv, Impreso
  <2>2. test_set[i].name = test_set[n].name
    BY <2>1
  <2>3. n = i
    BY <1>1, <1>3, <2>2, Nombres
  <2> QED
    BY <1>3, <2>3
<1> HIDE DEF fila
<1>5. Impreso'
  <2>1. IsFiniteSet(informe')
    BY <1>1, FS_AddElement DEF BInv, Impreso
  <2>2. informe' \subseteq {<<test_set[n].name, c>> : n \in Probados', c \in Comos}
    BY <1>1, <1>3 DEF BInv, Impreso, fila
  <2> QED
    BY <2>1, <2>2 DEF Impreso
<1>6. \A c : i \notin Con(c)
  BY <1>4 DEF Con
<1>7. \A c : Con(c)' = IF c = como THEN Con(c) \cup {i} ELSE Con(c)
  <2> SUFFICES ASSUME NEW c PROVE Con(c)' = IF c = como THEN Con(c) \cup {i} ELSE Con(c)
    OBVIOUS
  <2>1. Con(c)' = {n \in 1 .. 13 : <<test_set[n].name, c>> \in informe'}
    BY DEF Con
  <2>2. ASSUME NEW n \in 1 .. 13
        PROVE  <<test_set[n].name, c>> \in informe' <=>
                 <<test_set[n].name, c>> \in informe \/ (c = como /\ n = i)
    <3>1. <<test_set[n].name, c>> = fila <=> c = como /\ n = i
      BY <1>1, Nombres DEF fila
    <3> QED
      BY <1>1, <3>1
  <2> QED
    BY <1>1, <2>1, <2>2 DEF Con
<1>8. /\ Vale' = Vale
      /\ \A n \in 1 .. 13 : Vale[n] \in Nat
      /\ IsFiniteSet(Probados) /\ \A c : IsFiniteSet(Con(c)) /\ Con(c) \subseteq 1 .. 13
  BY <1>1, <1>3, ValeNat, Finitos DEF Vale, Con
<1>9. Cardinality(informe)' = Cardinality(Probados)'
  <2>1. Cardinality(informe') = Cardinality(informe) + 1
    <3>1. fila \notin informe
      BY <1>4 DEF fila
    <3>2. IsFiniteSet(informe)
      BY DEF BInv, Impreso
    <3> QED
      BY <1>1, <3>1, <3>2, FS_AddElement
  <2>2. Cardinality(Probados') = Cardinality(Probados) + 1
    BY <1>3, <1>8, FS_AddElement
  <2> QED
    BY <2>1, <2>2 DEF BInv, Puntos
<1>10. max_points' = SumFunctionOnSet(Vale', Probados')
  <2>1. SumFunctionOnSet(Vale, Probados \cup {i}) = SumFunctionOnSet(Vale, Probados) + Vale[i]
    BY <1>1, <1>3, <1>8, SumMore
  <2>2. max_points' = max_points + Vale[i]
    BY <1>1 DEF Vuelve, rating, t, Vale
  <2> QED
    BY <1>3, <1>8, <2>1, <2>2 DEF BInv, Puntos
<1>11. points' = SumFunctionOnSet(Vale', Con("bien")')
  <2>1. /\ SumFunctionOnSet(Vale, Con("bien")) \in Nat
        /\ SumFunctionOnSet(Vale, Con("bien") \cup {i}) = SumFunctionOnSet(Vale, Con("bien")) + Vale[i]
    BY <1>1, <1>6, <1>8, SumMore
  <2>2. points' = points + (IF terrors = 0 THEN Vale[i] ELSE 0)
    BY <1>1 DEF Vuelve, rating, t, Vale
  <2>3. points = SumFunctionOnSet(Vale, Con("bien"))
    BY DEF BInv, Puntos
  <2>4. CASE terrors = 0 /\ como = "bien"
    BY <1>7, <1>8, <2>1, <2>2, <2>3, <2>4
  <2>5. CASE terrors = 1 /\ como \in {"mal", "tiempo"}
    <3>1. Con("bien")' = Con("bien")
      BY <1>7, <2>5
    <3> QED
      BY <1>8, <2>1, <2>2, <2>3, <2>5, <3>1
  <2> QED
    BY <2>4, <2>5
<1>12. errors' = Cardinality(Con("mal")' \cup Con("tiempo")')
  <2> DEFINE S == Con("mal") \cup Con("tiempo")
  <2>1. errors' = errors + terrors /\ errors = Cardinality(S)
    BY DEF Vuelve, BInv, Puntos
  <2>2. i \notin S /\ IsFiniteSet(S)
    BY <1>6, <1>8, FS_Union
  <2>3. Cardinality(S) \in Nat /\ Cardinality(S \cup {i}) = Cardinality(S) + 1
    BY <2>2, FS_AddElement, FS_CardinalityType
  <2>4. CASE terrors = 0 /\ como = "bien"
    <3>1. Con("mal")' \cup Con("tiempo")' = S
      BY <1>7, <2>4
    <3>2. errors' = Cardinality(S)
      BY <2>1, <2>3, <2>4
    <3> HIDE DEF S
    <3> QED
      BY <3>1, <3>2
  <2>5. CASE terrors = 1 /\ como \in {"mal", "tiempo"}
    <3>1. Con("mal")' \cup Con("tiempo")' = S \cup {i}
      BY <1>7, <2>5
    <3>2. errors' = Cardinality(S \cup {i})
      BY <2>1, <2>3, <2>5
    <3> HIDE DEF S
    <3> QED
      BY <3>1, <3>2
  <2> QED
    BY <2>4, <2>5
<1>13. Puntos'
  BY <1>9, <1>10, <1>11, <1>12 DEF Puntos
<1> QED
  BY <1>2, <1>5, <1>13

\* A step that neither ends a test nor leaves one out changes nothing of the score.
LEMMA PuntosQuietos ==
  ASSUME BInv, UNCHANGED <<orden, i, errors, points, max_points, informe>>
  PROVE  Impreso' /\ Puntos'
BY DEF BInv, Impreso, Puntos, Con, Probados, Vale

\* main's state before the loop.
LEMMA BInicio == Init => BInv
<1> SUFFICES ASSUME Init PROVE BInv
  OBVIOUS
<1>1. Lugar /\ Marco /\ SaltoASuPrueba /\ CabenEnRango
  BY DEF Init, Lugar, Marco, SaltoASuPrueba, CabenEnRango
<1>2. Probados = {} /\ \A c : Con(c) = {}
  BY DEF Init, Probados, Con
<1>3. IsFiniteSet({}) /\ Cardinality({}) = 0
  BY FS_EmptySet
<1>4. Impreso
  BY <1>3 DEF Init, Impreso
<1>5. Puntos
  <2>1. Con("mal") \cup Con("tiempo") = {}
    BY <1>2
  <2> QED
    BY <1>2, <1>3, <2>1, SumNothing DEF Init, Puntos
<1> QED
  BY <1>1, <1>4, <1>5 DEF BInv

\* Every step keeps it.
LEMMA BPaso == BInv /\ [Next]_vars => BInv'
<1> SUFFICES ASSUME BInv, [Next]_vars PROVE BInv'
  OBVIOUS
<1>0. Lugar /\ Marco /\ SaltoASuPrueba /\ CabenEnRango
  BY DEF BInv
<1>1. CASE Termina
  <2>1. Impreso' /\ Puntos'
    BY <1>1, PuntosQuietos DEF Termina
  <2>2. Lugar' /\ Marco' /\ SaltoASuPrueba' /\ CabenEnRango'
    BY <1>0, <1>1 DEF Termina, Lugar, Marco, SaltoASuPrueba, CabenEnRango, t
  <2> QED
    BY <2>1, <2>2 DEF BInv
<1>2. CASE Salta
  <2>1. /\ i \in 1 .. 13 /\ i' = i + 1 /\ orden' = orden /\ pc' = "run_tests" /\ vals' = <<>>
        /\ orden.test_fname \notin {NULL, test_set[i].name}
        /\ UNCHANGED <<errors, points, max_points, informe>>
    BY <1>0, <1>2, Filas DEF Salta, Lugar, t
  <2>2. Probados' = Probados
    <3>1. Probados' = {n \in 1 .. (i + 1) - 1 : orden.test_fname \in {NULL, test_set[n].name}}
      BY <2>1 DEF Probados
    <3>2. \A n \in Int : n \in 1 .. (i + 1) - 1 <=> n \in 1 .. i - 1 \/ n = i
      BY <2>1
    <3>3. ASSUME NEW n PROVE n \in Probados' <=> n \in Probados
      BY <2>1, <3>1, <3>2 DEF Probados
    <3> QED
      BY <3>3
  <2>3. Impreso' /\ Puntos'
    BY <2>1, <2>2 DEF BInv, Impreso, Puntos, Con, Vale
  <2>4. Lugar' /\ Marco' /\ SaltoASuPrueba' /\ CabenEnRango'
    BY <1>0, <2>1 DEF Lugar, Marco, SaltoASuPrueba, CabenEnRango
  <2> QED
    BY <2>3, <2>4 DEF BInv
<1>3. CASE Genera
  <2>1. /\ i \in 1 .. 13 /\ vals' \in Tablas(test_set[i]) /\ i' = i /\ orden' = orden
        /\ orden.test_fname \in {NULL, test_set[i].name}
        /\ pc' \in {"sigsetjmp", "probar"} /\ (pc' = "probar" => ~orden.con_limite)
    BY <1>0, <1>3, Filas DEF Genera, Lugar, t
  <2>2. CabenEnRango'
    BY <2>1, TablasCaben DEF CabenEnRango, t
  <2>3. Lugar' /\ Marco' /\ SaltoASuPrueba'
    BY <1>0, <2>1 DEF Lugar, Marco, SaltoASuPrueba
  <2>4. Impreso' /\ Puntos'
    BY <1>3, PuntosQuietos DEF Genera
  <2> QED
    BY <2>2, <2>3, <2>4 DEF BInv
<1>4. CASE Sigsetjmp
  <2>1. Impreso' /\ Puntos'
    BY <1>4, PuntosQuietos DEF Sigsetjmp
  <2>2. Lugar' /\ Marco' /\ SaltoASuPrueba' /\ CabenEnRango'
    BY <1>0, <1>4 DEF Sigsetjmp, Lugar, Marco, SaltoASuPrueba, CabenEnRango, t
  <2> QED
    BY <2>1, <2>2 DEF BInv
<1>5. CASE Alarm
  <2>1. Impreso' /\ Puntos'
    BY <1>5, PuntosQuietos DEF Alarm
  <2>2. Lugar' /\ Marco' /\ SaltoASuPrueba' /\ CabenEnRango'
    BY <1>0, <1>5 DEF Alarm, Lugar, Marco, SaltoASuPrueba, CabenEnRango, t
  <2> QED
    BY <2>1, <2>2 DEF BInv
<1>6. ASSUME NEW terrors, NEW como, Vuelve(terrors, como), pc \in {"alarm", "probar"},
             \/ terrors = 1 /\ como \in {"mal", "tiempo"}
             \/ terrors = 0 /\ como = "bien"
      PROVE  BInv'
  <2>1. Lugar' /\ Impreso' /\ Puntos'
    BY <1>6, VuelveConserva
  <2>2. pc' = "run_tests" /\ vals' = <<>>
    BY <1>6 DEF Vuelve
  <2>3. Marco' /\ SaltoASuPrueba' /\ CabenEnRango'
    BY <2>2 DEF Marco, SaltoASuPrueba, CabenEnRango
  <2> QED
    BY <2>1, <2>3 DEF BInv
<1>7. CASE Compara
  <2>1. pc = "probar" /\ UNCHANGED alarma
    BY <1>7 DEF Compara
  <2>2. \/ Vuelve(1, "mal") \/ Vuelve(0, "bien")
        \/ UNCHANGED <<orden, i, pc, vals, errors, points, max_points, informe, envbuf>>
    BY <1>7 DEF Compara
  <2>3. CASE UNCHANGED <<orden, i, pc, vals, errors, points, max_points, informe, envbuf>>
    <3>1. Impreso' /\ Puntos'
      BY <2>3, PuntosQuietos
    <3>2. Lugar' /\ Marco' /\ SaltoASuPrueba' /\ CabenEnRango'
      BY <1>0, <2>1, <2>3 DEF Lugar, Marco, SaltoASuPrueba, CabenEnRango, t
    <3> QED
      BY <3>1, <3>2 DEF BInv
  <2> QED
    BY <1>6, <2>1, <2>2, <2>3
<1>8. CASE Suena
  <2>1. \/ pc \in {"alarm", "probar"} /\ Vuelve(1, "tiempo")
        \/ pc' = "indefinido" /\ UNCHANGED <<orden, i, vals, probadas, errors, points, max_points, informe, envbuf>>
    BY <1>8 DEF Suena
  <2>2. CASE pc' = "indefinido" /\ UNCHANGED <<orden, i, vals, probadas, errors, points, max_points, informe, envbuf>>
    <3>1. Impreso' /\ Puntos'
      BY <2>2, PuntosQuietos
    <3>2. Lugar' /\ Marco' /\ SaltoASuPrueba' /\ CabenEnRango'
      BY <1>0, <2>2 DEF Lugar, Marco, SaltoASuPrueba, CabenEnRango, t
    <3> QED
      BY <3>1, <3>2 DEF BInv
  <2> QED
    BY <1>6, <2>1, <2>2
<1>9. CASE UNCHANGED vars
  <2>1. Impreso' /\ Puntos'
    BY <1>9, PuntosQuietos DEF vars
  <2>2. Lugar' /\ Marco' /\ SaltoASuPrueba' /\ CabenEnRango'
    BY <1>0, <1>9 DEF vars, Lugar, Marco, SaltoASuPrueba, CabenEnRango, t
  <2> QED
    BY <2>1, <2>2 DEF BInv
<1> QED
  BY <1>1, <1>2, <1>3, <1>4, <1>5, <1>7, <1>8, <1>9 DEF Next

\* Every reachable state satisfies it.
LEMMA BInvariante == Spec => []BInv
BY BInicio, BPaso, PTL DEF Spec

-----------------------------------------------------------------------------
\* The alarm that may ring while a puzzle runs was set by its own test, and
\* the jump it makes goes to the frame that the same test saved: in whatever
\* order alarms ring and tests return, none is left to end the next puzzle.
THEOREM SaltaASuPrueba == Spec => []SaltoASuPrueba
<1>1. BInv => SaltoASuPrueba
  BY DEF BInv
<1> QED
  BY <1>1, BInvariante, PTL

\* The totals that run_tests prints are the sums over the verdicts printed, for
\* any options, defect and alarms: each puzzle tested counts once.
THEOREM TotalesCuadran == Spec => []PuntosCuadran
<1>1. BInv => PuntosCuadran
  BY PuntosSon DEF BInv
<1> QED
  BY <1>1, BInvariante, PTL

\* gen_vals never goes beyond its arrays, whatever TEST_RANGE from 4 on and
\* whatever random numbers it is given, nor leaves the range of decl.c.
THEOREM ValoresEnSuSitio == Spec => []CabenEnRango
<1>1. BInv => CabenEnRango
  BY DEF BInv
<1> QED
  BY <1>1, BInvariante, PTL

-----------------------------------------------------------------------------
\* What is left out of no test: every value of the first argument's array is
\* compared, and the array has the puzzle's Bordes.

Contiene(s, v) == \E b \in 1 .. Len(s) : s[b] = v

\* Putting sequences one after another loses nothing of either.
LEMMA ContienePegada ==
  ASSUME NEW R, NEW a \in Seq(R), NEW b \in Seq(R), NEW v, Contiene(a, v) \/ Contiene(b, v)
  PROVE  a \o b \in Seq(R) /\ Contiene(a \o b, v)
<1>1. /\ a \o b \in Seq(R) /\ Len(a \o b) = Len(a) + Len(b)
      /\ \A k \in 1 .. Len(a) + Len(b) :
           (a \o b)[k] = IF k <= Len(a) THEN a[k] ELSE b[k - Len(a)]
  BY ConcatProperties
<1>2. Len(a) \in Nat /\ Len(b) \in Nat
  OBVIOUS
<1> DEFINE c == a \o b
<1> HIDE DEF c
<1>3. CASE Contiene(a, v)
  <2>1. PICK k \in 1 .. Len(a) : a[k] = v
    BY <1>3 DEF Contiene
  <2>2. k \in 1 .. Len(c) /\ c[k] = v
    BY <1>1, <1>2, <2>1 DEF c
  <2> QED
    BY <1>1, <2>2 DEF c, Contiene
<1>4. CASE Contiene(b, v)
  <2>1. PICK k \in 1 .. Len(b) : b[k] = v
    BY <1>4 DEF Contiene
  <2>2. /\ Len(a) + k \in 1 .. Len(a) + Len(b) /\ ~(Len(a) + k <= Len(a))
        /\ (Len(a) + k) - Len(a) = k
    BY <1>2, <2>1
  <2>3. Len(a) + k \in 1 .. Len(c) /\ c[Len(a) + k] = v
    BY <1>1, <2>1, <2>2 DEF c
  <2> QED
    BY <1>1, <2>3 DEF c, Contiene
<1> QED
  BY <1>3, <1>4

\* FlattenSeq loses nothing either.
LEMMA ContieneAplanada ==
  ASSUME NEW R, NEW N \in Nat, NEW q \in [1 .. N -> Seq(R)], NEW k \in 1 .. N,
         NEW v, Contiene(q[k], v)
  PROVE  FlattenSeq(q) \in Seq(R) /\ Contiene(FlattenSeq(q), v)
<1>0. q \in Seq(Seq(R)) /\ Len(q) = N /\ N > 0
  OBVIOUS
<1> DEFINE f == CHOOSE g : g = [n \in 1 .. Len(q) |-> IF n = 1 THEN q[n] ELSE g[n - 1] \o q[n]]
<1>1. FlattenSeq(q) = f[N]
  BY <1>0 DEF FlattenSeq
<1>2. \E g : g = [n \in 1 .. Len(q) |-> IF n = 1 THEN q[n] ELSE g[n - 1] \o q[n]]
  <2>1. PICK g \in [1 .. N -> Seq(R)] : Pegadas(g, q, N)
    BY <1>0, HayPegadas
  <2>2. g = [n \in 1 .. N |-> IF n = 1 THEN q[n] ELSE g[n - 1] \o q[n]]
    BY <2>1 DEF Pegadas
  <2> QED
    BY <1>0, <2>2
<1>3. f = [n \in 1 .. N |-> IF n = 1 THEN q[n] ELSE f[n - 1] \o q[n]]
  BY <1>0, <1>2
<1> HIDE DEF f
<1> DEFINE Bien(n) == f[n] \in Seq(R) /\ (k <= n => Contiene(f[n], v))
           T == {n \in 1 .. N : ~ Bien(n)}
<1>4. T \subseteq Nat
  OBVIOUS
<1>5. ASSUME T # {} PROVE FALSE
  <2> HIDE DEF T
  <2>1. PICK m \in T : \A n \in T : m <= n
    BY <1>4, <1>5, Minimo
  <2>2. m \in 1 .. N /\ ~Bien(m)
    BY <2>1 DEF T
  <2>3. CASE m = 1
    <3>1. f[m] = q[m] /\ q[m] \in Seq(R)
      BY <1>3, <2>2, <2>3
    <3>2. k <= m => k = m
      BY <2>3
    <3> QED
      BY <2>2, <3>1, <3>2
  <2>4. CASE m # 1
    <3>1. m - 1 \in 1 .. N /\ ~(m <= m - 1)
      BY <2>2, <2>4
    <3>2. Bien(m - 1)
      BY <2>1, <3>1 DEF T
    <3>3. f[m] = f[m - 1] \o q[m] /\ q[m] \in Seq(R)
      BY <1>3, <2>2, <2>4
    <3>4. f[m] \in Seq(R)
      BY <3>2, <3>3, ConcatProperties
    <3>5. k <= m => k <= m - 1 \/ k = m
      BY <2>2
    <3>6. k <= m => Contiene(f[m - 1], v) \/ Contiene(q[m], v)
      BY <3>2, <3>5
    <3>7. k <= m => Contiene(f[m], v)
      BY <3>2, <3>3, <3>6, ContienePegada
    <3> QED
      BY <2>2, <3>4, <3>7
  <2> QED
    BY <2>3, <2>4
<1>6. N \notin T
  <2> HIDE DEF T
  <2> QED
    BY <1>5
<1>7. Bien(N)
  <2> HIDE DEF Bien
  <2> QED
    BY <1>0, <1>6
<1> QED
  BY <1>0, <1>1, <1>7

\* Of one argument there are TEST_RANGE values and more.
LEMMA RangoDeUno == arg_test_range(1) = TEST_RANGE
<1>1. TEST_RANGE \in Nat /\ TEST_RANGE >= 4
  BY RangeAssumption
<1> DEFINE S == {r \in 1 .. TEST_RANGE : r <= TEST_RANGE}
<1>2. arg_test_range(1) = Max(S)
  BY DEF arg_test_range
<1>3. TEST_RANGE \in S /\ \A r \in S : TEST_RANGE >= r
  BY <1>1
<1>4. \A x \in S : (\A r \in S : x >= r) => x = TEST_RANGE
  BY <1>1, <1>3
<1> HIDE DEF S
<1> QED
  BY <1>2, <1>3, <1>4 DEF Max

\* The widths of the fields, and what they add up to.
LEMMA Formato ==
  /\ W \in Nat /\ F \in Nat /\ E \in Nat /\ F >= 2 /\ E >= 2 /\ W - 1 = E + F
  /\ 2^F = Dos(F) /\ 2^E = Dos(E) /\ 2^(F - 1) = Dos(F - 1) /\ 2^(W - 1) = Dos(E) * Dos(F)
  /\ Bias = Dos(E - 1) - 1
  /\ Dos(F) \in Nat /\ Dos(E) \in Nat /\ Dos(F - 1) \in Nat /\ Dos(E - 1) \in Nat
  /\ Dos(F) >= 4 /\ Dos(E) >= 4 /\ Dos(F) = 2 * Dos(F - 1) /\ Dos(E) = 2 * Dos(E - 1)
<1>1. /\ W \in Nat /\ F \in Nat /\ E \in Nat /\ F >= 2 /\ E >= 2 /\ W - 1 = E + F
      /\ F - 1 \in Nat /\ E - 1 \in Nat /\ F = (F - 1) + 1 /\ E = (E - 1) + 1
  BY WidthAssumption, FormatAssumption DEF E
<1>2. Dos(E + F) = Dos(E) * Dos(F)
  BY <1>1, DosSuma
<1>3. /\ 2^F = Dos(F) /\ 2^E = Dos(E) /\ 2^(F - 1) = Dos(F - 1)
      /\ 2^(W - 1) = Dos(W - 1) /\ 2^(E - 1) = Dos(E - 1)
  BY DEF Dos
<1>4. Dos(F) \in Nat /\ Dos(E) \in Nat /\ Dos(F - 1) \in Nat /\ Dos(E - 1) \in Nat
  BY <1>1, DosBase
<1>5. Dos(2) = 4
  <2>1. Dos(0 + 1) = 2 * Dos(0) /\ Dos(1 + 1) = 2 * Dos(1) /\ Dos(0) = 1
    BY DosBase
  <2>2. 0 + 1 = 1 /\ 1 + 1 = 2
    OBVIOUS
  <2> QED
    BY <2>1, <2>2
<1>6. Dos(2) <= Dos(F) /\ Dos(2) <= Dos(E)
  BY <1>1, DosCrece
<1>7. Dos(F) = 2 * Dos(F - 1) /\ Dos(E) = 2 * Dos(E - 1)
  BY <1>1, DosBase
<1> QED
  BY <1>1, <1>2, <1>3, <1>4, <1>5, <1>6, <1>7 DEF Bias

\* The floats that gen_vals makes include zero, the smallest normalized and the
\* largest denormalized number, one, infinity and NaN.
LEMMA FlotantesEnBordes ==
  ASSUME NEW v \in {0, TMin, 2^F, 2^F - 1, Bias * 2^F, TMax - 2^F + 1, TMax - 2^F + 1 + 2^(F - 1)}
  PROVE  Contiene(Valores_float(TEST_RANGE), v)
<1> DEFINE smallest_norm == 2^F
           one == Bias * 2^F
           largest_norm == (2^E - 2) * 2^F
           inf == (2^E - 1) * 2^F
           nan == inf + 2^(F - 1)
           con_signo(n) == <<n, n + TMin>>
           m == Min({TEST_RANGE, 2^F})
           q == [k \in 1 .. m |->
                  con_signo(k - 1)
                    \o con_signo(smallest_norm + k - 1) \o con_signo(smallest_norm - (k - 1))
                    \o con_signo(one + k - 1) \o con_signo(one - (k - 1))
                    \o con_signo(largest_norm - (k - 1))]
<1>0. TEST_RANGE \in Nat /\ TEST_RANGE >= 4
  BY RangeAssumption
<1>1. /\ smallest_norm \in Int /\ one \in Int /\ largest_norm \in Int
      /\ inf \in Int /\ nan \in Int /\ TMin \in Int
  BY Numeros
<1>2. TMax - 2^F + 1 = inf /\ TMax - 2^F + 1 + 2^(F - 1) = nan
  <2> DEFINE x == Dos(E)
             y == Dos(F)
             z == Dos(F - 1)
  <2>1. /\ x \in Nat /\ y \in Nat /\ z \in Nat /\ 2^F = y /\ 2^E = x /\ 2^(F - 1) = z
        /\ TMax = x * y - 1
    BY Formato DEF TMax
  <2> HIDE DEF x, y, z
  <2>2. (x * y - 1) - y + 1 = (x - 1) * y /\ x * y \in Int /\ (x - 1) * y \in Int
    BY <2>1
  <2> QED
    BY <2>1, <2>2
<1>3. Valores_float(TEST_RANGE) = FlattenSeq(q) \o con_signo(inf) \o con_signo(nan)
  BY DEF Valores_float
<1>4. m \in Nat /\ m >= 2
  <2>1. 2^F \in Nat /\ 2^F >= 4
    BY Formato
  <2>2. \E x \in {TEST_RANGE, 2^F} : \A y \in {TEST_RANGE, 2^F} : x <= y
    BY <1>0, <2>1
  <2>3. m \in {TEST_RANGE, 2^F}
    BY <2>2 DEF Min
  <2> HIDE DEF m
  <2> QED
    BY <1>0, <2>1, <2>3
<1> HIDE DEF smallest_norm, one, largest_norm, inf, nan, m
<1>5. \A n \in Int : /\ con_signo(n) \in Seq(Int)
                     /\ Contiene(con_signo(n), n) /\ Contiene(con_signo(n), n + TMin)
  <2> SUFFICES ASSUME NEW n \in Int
               PROVE  /\ con_signo(n) \in Seq(Int)
                      /\ Contiene(con_signo(n), n) /\ Contiene(con_signo(n), n + TMin)
    OBVIOUS
  <2>1. con_signo(n) \in Seq(Int) /\ Len(con_signo(n)) = 2 /\ con_signo(n)[1] = n /\ con_signo(n)[2] = n + TMin
    BY <1>1
  <2>2. 1 \in 1 .. 2 /\ 2 \in 1 .. 2
    OBVIOUS
  <2> HIDE DEF con_signo
  <2> QED
    BY <2>1, <2>2 DEF Contiene
<1>6. con_signo(0)[2] = TMin /\ Contiene(con_signo(0), 0) /\ Contiene(con_signo(0), TMin)
  <2>1. 0 + TMin = TMin
    BY <1>1
  <2> HIDE DEF con_signo
  <2>2. Contiene(con_signo(0), 0) /\ Contiene(con_signo(0), 0 + TMin)
    BY <1>5
  <2> QED
    BY <2>1, <2>2 DEF con_signo
<1> HIDE DEF con_signo
<1>7. ASSUME NEW k \in 1 .. m
      PROVE  /\ q[k] \in Seq(Int)
             /\ \A w : \/ Contiene(con_signo(k - 1), w)
                       \/ Contiene(con_signo(smallest_norm + k - 1), w)
                       \/ Contiene(con_signo(smallest_norm - (k - 1)), w)
                       \/ Contiene(con_signo(one + k - 1), w)
                       => Contiene(q[k], w)
  <2> DEFINE a == con_signo(k - 1)
             b == con_signo(smallest_norm + k - 1)
             c == con_signo(smallest_norm - (k - 1))
             d == con_signo(one + k - 1)
             e == con_signo(one - (k - 1))
             f == con_signo(largest_norm - (k - 1))
  <2>1. q[k] = a \o b \o c \o d \o e \o f
    OBVIOUS
  <2>2. /\ a \in Seq(Int) /\ b \in Seq(Int) /\ c \in Seq(Int)
        /\ d \in Seq(Int) /\ e \in Seq(Int) /\ f \in Seq(Int)
    <3>1. /\ k - 1 \in Int /\ smallest_norm + k - 1 \in Int /\ smallest_norm - (k - 1) \in Int
          /\ one + k - 1 \in Int /\ one - (k - 1) \in Int /\ largest_norm - (k - 1) \in Int
      BY <1>1, <1>4
    <3> QED
      BY <1>5, <3>1
  <2>s. SUFFICES ASSUME NEW w
                 PROVE  /\ q[k] \in Seq(Int)
                        /\ Contiene(a, w) \/ Contiene(b, w) \/ Contiene(c, w) \/ Contiene(d, w)
                             => Contiene(q[k], w)
    OBVIOUS
  <2> HIDE DEF a, b, c, d, e, f, q
  <2>3. a \o b \in Seq(Int) /\ (Contiene(a, w) \/ Contiene(b, w) => Contiene(a \o b, w))
    BY <2>2, ContienePegada, ConcatProperties
  <2> DEFINE ab == a \o b
             abc == ab \o c
             abcd == abc \o d
             abcde == abcd \o e
  <2>4. ab \in Seq(Int) /\ (Contiene(a, w) \/ Contiene(b, w) => Contiene(ab, w))
    BY <2>3
  <2> HIDE DEF ab
  <2>5. abc \in Seq(Int) /\ (Contiene(ab, w) \/ Contiene(c, w) => Contiene(abc, w))
    BY <2>2, <2>4, ContienePegada, ConcatProperties
  <2> HIDE DEF abc
  <2>6. abcd \in Seq(Int) /\ (Contiene(abc, w) \/ Contiene(d, w) => Contiene(abcd, w))
    BY <2>2, <2>5, ContienePegada, ConcatProperties
  <2> HIDE DEF abcd
  <2>7. abcde \in Seq(Int) /\ (Contiene(abcd, w) => Contiene(abcde, w))
    BY <2>2, <2>6, ContienePegada, ConcatProperties
  <2> HIDE DEF abcde
  <2>8. abcde \o f \in Seq(Int) /\ (Contiene(abcde, w) => Contiene(abcde \o f, w))
    BY <2>2, <2>7, ContienePegada, ConcatProperties
  <2>9. q[k] = abcde \o f
    BY <2>1 DEF ab, abc, abcd, abcde
  <2> QED
    BY <2>4, <2>5, <2>6, <2>7, <2>8, <2>9
<1>8. q \in [1 .. m -> Seq(Int)]
  <2>1. q = [k \in 1 .. m |-> q[k]]
    OBVIOUS
  <2> HIDE DEF q
  <2> QED
    BY <1>7, <2>1
<1> HIDE DEF q
<1> DEFINE s == FlattenSeq(q)
           si == s \o con_signo(inf)
           u == si \o con_signo(nan)
<1>9. 1 \in 1 .. m /\ 2 \in 1 .. m
  BY <1>4
<1>10. s \in Seq(Int)
  <2>1. Contiene(q[1], 0)
    <3>1. 1 - 1 = 0
      OBVIOUS
    <3>2. Contiene(con_signo(1 - 1), 0)
      BY <1>6, <3>1
    <3> QED
      BY <1>7, <1>9, <3>2
  <2> QED
    BY <1>4, <1>8, <1>9, <2>1, ContieneAplanada
<1>11. \A w : Contiene(q[1], w) \/ Contiene(q[2], w) => Contiene(s, w)
  BY <1>4, <1>8, <1>9, ContieneAplanada
<1> HIDE DEF s
<1>12. si \in Seq(Int) /\ \A w : Contiene(s, w) \/ Contiene(con_signo(inf), w) => Contiene(si, w)
  BY <1>1, <1>5, <1>10, ContienePegada, ConcatProperties
<1> HIDE DEF si
<1>13. \A w : Contiene(si, w) \/ Contiene(con_signo(nan), w) => Contiene(u, w)
  BY <1>1, <1>5, <1>12, ContienePegada
<1>14. u = Valores_float(TEST_RANGE)
  BY <1>3 DEF s, si
<1> HIDE DEF u
<1>15. CASE v = 0 \/ v = TMin
  <2>1. 1 - 1 = 0
    OBVIOUS
  <2>2. Contiene(con_signo(1 - 1), v)
    BY <1>6, <1>15, <2>1
  <2> QED
    BY <1>7, <1>9, <1>11, <1>12, <1>13, <1>14, <2>2
<1>16. CASE v = 2^F
  <2>1. smallest_norm + 1 - 1 = v
    BY <1>1, <1>16 DEF smallest_norm
  <2>2. Contiene(con_signo(smallest_norm + 1 - 1), v)
    BY <1>1, <1>5, <2>1
  <2> QED
    BY <1>7, <1>9, <1>11, <1>12, <1>13, <1>14, <2>2
<1>17. CASE v = 2^F - 1
  <2>1. smallest_norm - (2 - 1) = v
    BY <1>1, <1>17 DEF smallest_norm
  <2>2. Contiene(con_signo(smallest_norm - (2 - 1)), v)
    BY <1>1, <1>5, <2>1
  <2> QED
    BY <1>7, <1>9, <1>11, <1>12, <1>13, <1>14, <2>2
<1>18. CASE v = Bias * 2^F
  <2>1. one + 1 - 1 = v
    BY <1>1, <1>18 DEF one
  <2>2. Contiene(con_signo(one + 1 - 1), v)
    BY <1>1, <1>5, <2>1
  <2> QED
    BY <1>7, <1>9, <1>11, <1>12, <1>13, <1>14, <2>2
<1>19. CASE v = inf \/ v = nan
  <2>1. CASE v = inf
    <3>1. Contiene(con_signo(inf), v)
      BY <1>1, <1>5, <2>1
    <3>2. Contiene(si, v)
      BY <1>12, <3>1
    <3> QED
      BY <1>13, <1>14, <3>2
  <2>2. CASE v = nan
    <3>1. Contiene(con_signo(nan), v)
      BY <1>1, <1>5, <2>2
    <3>2. Contiene(u, v)
      BY <1>13, <3>1
    <3> QED
      BY <1>14, <3>2
  <2> QED
    BY <1>19, <2>1, <2>2
<1> QED
  BY <1>2, <1>15, <1>16, <1>17, <1>18, <1>19

\* The values near the ends and around zero start at the ends and at zero.
LEMMA MuestraEnBordes ==
  ASSUME NEW min \in Int, NEW max \in Int, NEW r \in 1 .. TEST_RANGE,
         NEW azar \in [1 .. r -> random_val(min, max)],
         NEW v \in {min, max, 0}, min <= v, v <= max
  PROVE  Contiene(Muestra(min, max, azar), v)
<1> DEFINE R == Int \cup Azar
           a(k) == <<min + (k - 1), max - (k - 1)>>
           b(k) == IF k - 1 >= min /\ k - 1 <= max THEN <<k - 1>> ELSE <<>>
           c(k) == IF 1 - k >= min /\ 1 - k <= max THEN <<1 - k>> ELSE <<>>
           d(k) == <<azar[k]>>
           q == [k \in 1 .. r |-> a(k) \o b(k) \o c(k) \o d(k)]
<1>0. TEST_RANGE \in Nat /\ r \in Nat /\ 1 \in 1 .. r
  BY RangeAssumption
<1>1. ASSUME NEW k \in 1 .. r
      PROVE  /\ q[k] \in Seq(R)
             /\ \A w : Contiene(a(k), w) \/ Contiene(b(k), w) => Contiene(q[k], w)
  <2>1. a(k) \in Seq(R)
    <3>1. min + (k - 1) \in R /\ max - (k - 1) \in R
      BY <1>0
    <3> HIDE DEF R
    <3> QED
      BY <3>1
  <2>2. b(k) \in Seq(R) /\ c(k) \in Seq(R)
    <3>1. k - 1 \in R /\ 1 - k \in R
      OBVIOUS
    <3> HIDE DEF R
    <3> QED
      BY <3>1
  <2>3. d(k) \in Seq(R)
    <3>1. azar[k] \in R
      BY DEF random_val
    <3> HIDE DEF R
    <3> QED
      BY <3>1
  <2>4. q[k] = a(k) \o b(k) \o c(k) \o d(k)
    OBVIOUS
  <2> SUFFICES ASSUME NEW w
               PROVE  /\ q[k] \in Seq(R)
                      /\ Contiene(a(k), w) \/ Contiene(b(k), w) => Contiene(q[k], w)
    OBVIOUS
  <2> DEFINE ab == a(k) \o b(k)
             abc == ab \o c(k)
             abcd == abc \o d(k)
  <2> HIDE DEF q, R, a, b, c, d
  <2>5. ab \in Seq(R) /\ (Contiene(a(k), w) \/ Contiene(b(k), w) => Contiene(ab, w))
    BY <2>1, <2>2, ContienePegada, ConcatProperties
  <2> HIDE DEF ab
  <2>6. abc \in Seq(R) /\ (Contiene(ab, w) => Contiene(abc, w))
    BY <2>2, <2>5, ContienePegada, ConcatProperties
  <2> HIDE DEF abc
  <2>7. abcd \in Seq(R) /\ (Contiene(abc, w) => Contiene(abcd, w))
    BY <2>3, <2>6, ContienePegada, ConcatProperties
  <2>8. q[k] = abcd
    BY <2>4 DEF ab, abc
  <2> QED
    BY <2>5, <2>6, <2>7, <2>8
<1>2. Muestra(min, max, azar) = FlattenSeq(q)
  <2>1. Len(azar) = r
    BY <1>0
  <2> QED
    BY <2>1 DEF Muestra
<1>3. q \in [1 .. r -> Seq(R)]
  <2>1. q = [k \in 1 .. r |-> q[k]]
    OBVIOUS
  <2> HIDE DEF q
  <2> QED
    BY <1>1, <2>1
<1>4. Contiene(a(1), v) \/ Contiene(b(1), v)
  <2>1. CASE v = min
    <3>1. Len(a(1)) = 2 /\ a(1)[1] = v /\ 1 \in 1 .. 2
      BY <2>1
    <3> HIDE DEF a
    <3> QED
      BY <3>1 DEF Contiene
  <2>2. CASE v = max
    <3>1. Len(a(1)) = 2 /\ a(1)[2] = v /\ 2 \in 1 .. 2
      BY <2>2
    <3> HIDE DEF a
    <3> QED
      BY <3>1 DEF Contiene
  <2>3. CASE v = 0
    <3>1. b(1) = <<0>>
      BY <2>3
    <3>2. Len(b(1)) = 1 /\ b(1)[1] = v /\ 1 \in 1 .. 1
      BY <2>3, <3>1
    <3> HIDE DEF b
    <3> QED
      BY <3>2 DEF Contiene
  <2> QED
    BY <2>1, <2>2, <2>3
<1> HIDE DEF a, b, q, R
<1>5. Contiene(q[1], v)
  BY <1>0, <1>1, <1>4
<1> QED
  <2>1. FlattenSeq(q) \in Seq(R) /\ Contiene(FlattenSeq(q), v)
    BY <1>0, <1>3, <1>5, ContieneAplanada
  <2> QED
    BY <1>2, <2>1

\* The rows of floats have one argument.
LEMMA FilasFlotantes ==
  \A n \in 1 .. 13 : test_set[n].arg_ranges[1] = Flotante => test_set[n].args = 1
<1>1. Todos # Flotante
  <2>1. TMin = -(Dos(E) * Dos(F)) /\ Dos(E) \in Nat /\ Dos(F) \in Nat
    BY Formato DEF TMin
  <2> DEFINE x == Dos(E) * Dos(F)
  <2>2. x \in Nat
    BY <2>1
  <2> HIDE DEF x
  <2>3. TMin # 1
    BY <2>1, <2>2 DEF x
  <2> QED
    BY <2>3 DEF Todos, Flotante
<1>2. <<0, W - 1>> # Flotante
  BY DEF Flotante
<1>3. SUFFICES ASSUME NEW n \in 1 .. 13, test_set[n].arg_ranges[1] = Flotante
               PROVE  test_set[n].args = 1
  OBVIOUS
<1>4. \A m, x, y, a, r : Prueba(m, a, r, x).arg_ranges = x /\ Prueba(m, a, r, x).args = a
  BY DEF Prueba
<1>5. n = 1 \/ n = 2 \/ n = 3 \/ n = 4 \/ n = 5 \/ n = 6 \/ n = 7 \/ n = 8
        \/ n = 9 \/ n = 10 \/ n = 11 \/ n = 12 \/ n = 13
  OBVIOUS
<1>6. /\ test_set[1] = Prueba("bitAnd", 2, 1, <<Todos, Todos>>)
      /\ test_set[2] = Prueba("bitXor", 2, 1, <<Todos, Todos>>)
      /\ test_set[3].args = 1
      /\ test_set[4] = Prueba("byteSwap", 3, 2, <<Todos, <<0, 3>>, <<0, 3>>>>)
      /\ test_set[5].args = 1
      /\ test_set[6] = Prueba("bitMask", 2, 3, <<<<0, W - 1>>, <<0, W - 1>>>>)
      /\ test_set[7] = Prueba("conditional", 3, 3, <<Todos, Todos, Todos>>)
      /\ test_set[8].args = 1 /\ test_set[9].args = 1 /\ test_set[10].args = 1
      /\ test_set[11].args = 1 /\ test_set[12].args = 1 /\ test_set[13].args = 1
  BY DEF test_set, Prueba
<1> QED
  BY <1>1, <1>2, <1>3, <1>4, <1>5, <1>6

\* A puzzle's first array has the borders of its range.
LEMMA TablasEnBordes ==
  ASSUME NEW n \in 1 .. 13, NEW s \in Tablas(test_set[n]), NEW v \in Bordes(test_set[n])
  PROVE  Contiene(s[1], v)
<1> DEFINE p == test_set[n]
           r == arg_test_range(p.args)
<1>1. FilaCorrecta(p)
  BY Filas
<1>2. p.arg_ranges[1] = Flotante => p.args = 1
  BY FilasFlotantes
<1>3. s \in Tablas(p) /\ v \in Bordes(p)
  OBVIOUS
<1> HIDE DEF p
<1>4. 1 \in 1 .. p.args /\ r \in 1 .. TEST_RANGE
  BY <1>1, RangoDePrueba DEF FilaCorrecta
<1>5. s[1] \in gen_vals(p.arg_ranges[1][1], p.arg_ranges[1][2], r, 1)
  BY <1>3, <1>4 DEF Tablas
<1>6. PICK min, max \in Int : p.arg_ranges[1] = <<min, max>>
  BY <1>1, <1>4 DEF FilaCorrecta
<1>7. p.arg_ranges[1][1] = min /\ p.arg_ranges[1][2] = max
  BY <1>6
<1>8. s[1] \in gen_vals(min, max, r, 1)
  BY <1>5, <1>7
<1>9. CASE 1 \in DOMAIN orden.argval
  <2>1. s[1] = <<orden.argval[1]>> /\ v = orden.argval[1]
    BY <1>3, <1>8, <1>9 DEF gen_vals, Bordes
  <2>2. Len(s[1]) = 1 /\ s[1][1] = v /\ 1 \in 1 .. 1
    BY <2>1
  <2> QED
    BY <2>2 DEF Contiene
<1>10. CASE 1 \notin DOMAIN orden.argval /\ p.arg_ranges[1] = Flotante
  <2>1. min = 1 /\ max = 1 /\ r = TEST_RANGE
    BY <1>2, <1>6, <1>10, RangoDeUno DEF Flotante
  <2>2. s[1] = Valores_float(TEST_RANGE)
    BY <1>8, <1>10, <2>1 DEF gen_vals
  <2>3. v \in {0, TMin, 2^F, 2^F - 1, Bias * 2^F, TMax - 2^F + 1, TMax - 2^F + 1 + 2^(F - 1)}
    BY <1>3, <1>10 DEF Bordes
  <2> QED
    BY <2>2, <2>3, FlotantesEnBordes
<1>11. CASE 1 \notin DOMAIN orden.argval /\ p.arg_ranges[1] # Flotante
  <2>1. v \in {min, max, 0} /\ min <= v /\ v <= max /\ ~(min = 1 /\ max = 1)
    BY <1>3, <1>6, <1>7, <1>11 DEF Bordes, Flotante
  <2>2. CASE max - MAX_TEST_VALS <= min
    <3>1. s[1] = [k \in 1 .. max - min + 1 |-> min + k - 1]
      BY <1>8, <1>11, <2>1, <2>2 DEF gen_vals
    <3>2. v \in Int /\ v - min + 1 \in 1 .. max - min + 1 /\ max - min + 1 \in Nat
      BY <2>1
    <3>3. Len(s[1]) = max - min + 1
      BY <3>1, <3>2
    <3>4. s[1][v - min + 1] = min + (v - min + 1) - 1
      BY <3>1, <3>2
    <3>5. min + (v - min + 1) - 1 = v
      BY <3>2
    <3> QED
      BY <3>2, <3>3, <3>4, <3>5 DEF Contiene
  <2>3. CASE ~(max - MAX_TEST_VALS <= min)
    <3>1. PICK azar \in [1 .. r -> random_val(min, max)] : s[1] = Muestra(min, max, azar)
      BY <1>8, <1>11, <2>1, <2>3 DEF gen_vals
    <3> HIDE DEF r
    <3> QED
      BY <1>4, <2>1, <3>1, MuestraEnBordes
  <2> QED
    BY <2>2, <2>3
<1> QED
  BY <1>9, <1>10, <1>11

\* The arrays are sequences.
LEMMA TablasSecuencias ==
  ASSUME NEW n \in 1 .. 13, NEW s \in Tablas(test_set[n])
  PROVE  /\ DOMAIN s = 1 .. test_set[n].args
         /\ \A j \in 1 .. test_set[n].args : Len(s[j]) \in Nat
<1> DEFINE p == test_set[n]
           r == arg_test_range(p.args)
<1>1. FilaCorrecta(p)
  BY Filas
<1>2. s \in Tablas(p)
  OBVIOUS
<1> HIDE DEF p
<1>3. DOMAIN s = 1 .. p.args
  BY <1>2 DEF Tablas
<1>4. ASSUME NEW j \in 1 .. p.args PROVE Len(s[j]) \in Nat
  <2>1. s[j] \in gen_vals(p.arg_ranges[j][1], p.arg_ranges[j][2], r, j)
    BY <1>2 DEF Tablas
  <2>2. PICK min, max \in Int : p.arg_ranges[j] = <<min, max>>
    BY <1>1 DEF FilaCorrecta
  <2>3. r \in 1 .. TEST_RANGE
    BY <1>1, RangoDePrueba DEF FilaCorrecta
  <2> HIDE DEF r
  <2>4. s[j] \in gen_vals(min, max, r, j)
    BY <2>1, <2>2
  <2>5. CASE j \in DOMAIN orden.argval
    BY <2>4, <2>5 DEF gen_vals
  <2>6. CASE j \notin DOMAIN orden.argval /\ min = 1 /\ max = 1
    <3>1. s[j] = Valores_float(r)
      BY <2>4, <2>6 DEF gen_vals
    <3>2. Valores_float(r) \in Seq(Int)
      BY <2>3, FlotantesCaben
    <3> QED
      BY <3>1, <3>2
  <2>7. CASE j \notin DOMAIN orden.argval /\ ~(min = 1 /\ max = 1) /\ max - MAX_TEST_VALS <= min
    <3>1. s[j] = [k \in 1 .. max - min + 1 |-> min + k - 1]
      BY <2>4, <2>7 DEF gen_vals
    <3>2. CASE max - min + 1 >= 0
      BY <3>1, <3>2
    <3>3. CASE max - min + 1 < 0
      <4>1. s[j] = <<>>
        BY <3>1, <3>3
      <4> QED
        BY <4>1
    <3> QED
      BY <3>2, <3>3
  <2>8. CASE j \notin DOMAIN orden.argval /\ ~(min = 1 /\ max = 1) /\ ~(max - MAX_TEST_VALS <= min)
    <3>1. PICK azar \in [1 .. r -> random_val(min, max)] : s[j] = Muestra(min, max, azar)
      BY <2>4, <2>8 DEF gen_vals
    <3>2. MAX_TEST_VALS \in Nat
      BY RangeAssumption DEF MAX_TEST_VALS
    <3>3. s[j] \in Seq(EnRango(min, max))
      BY <2>3, <2>8, <3>1, <3>2, MuestraCabe
    <3> QED
      BY <3>3
  <2> QED
    BY <2>5, <2>6, <2>7, <2>8
<1> QED
  BY <1>3, <1>4 DEF p

\* The b-th value of the first argument is reached before the loops end.
LEMMA VueltaDe ==
  ASSUME NEW b \in Nat, NEW c \in Nat, NEW d \in Nat, NEW n \in Nat,
         b >= 1, b <= c, n + 1 = c * d
  PROVE  /\ d >= 1 /\ (b - 1) * d \in Nat /\ (b - 1) * d <= n
         /\ ((b - 1) * d) \div d = b - 1
<1>1. d >= 1
  <2>1. d = 0 => c * d = 0
    OBVIOUS
  <2> QED
    BY <2>1
<1>2. PICK e \in Nat : e = b - 1
  BY b - 1 \in Nat
<1>3. e * d \in Nat /\ (e * d) \div d = e
  BY <1>1
<1>4. PICK h \in Nat : c = e + 1 + h
  BY <1>2, c - b \in Nat, c = (b - 1) + 1 + (c - b)
<1>5. c * d = e * d + d + h * d /\ h * d \in Nat
  BY <1>4
<1>6. e * d <= n
  <2> DEFINE x == e * d
             y == h * d
  <2>1. x \in Nat /\ y \in Nat /\ n + 1 = x + d + y
    BY <1>3, <1>5
  <2> HIDE DEF x, y
  <2>2. x <= n
    BY <1>1, <2>1
  <2> QED
    BY <2>2 DEF x
<1> QED
  BY <1>1, <1>2, <1>3, <1>6

\* When the loops have ended with no error the defect is not at a border.
LEMMA TodoProbado ==
  ASSUME i \in 1 .. 13, vals \in Tablas(test_set[i]), probadas \in Nat, EsUltima,
         \A m \in Nat : m <= probadas => ~Falla(test_set[i].name, Tupla(m)),
         orden.defecto.en = test_set[i].name
  PROVE  orden.defecto.valor \notin Bordes(test_set[i])
<1> SUFFICES ASSUME NEW v \in Bordes(test_set[i]), orden.defecto.valor = v PROVE FALSE
  OBVIOUS
<1>1. FilaCorrecta(test_set[i])
  BY Filas
<1>2. test_set[i].args \in 1 .. 3 /\ 1 <= test_set[i].args
  BY <1>1 DEF FilaCorrecta
<1>3. Contiene(vals[1], v)
  BY TablasEnBordes
<1>4. \A j \in 1 .. 3 : Cuenta(j) \in Nat
  BY <1>2, TablasSecuencias DEF Cuenta, t
<1>5. Cuenta(1) = Len(vals[1])
  BY <1>2 DEF Cuenta, t
<1>6. PICK b \in 1 .. Cuenta(1) : vals[1][b] = v
  BY <1>3, <1>5 DEF Contiene
<1> DEFINE c == Cuenta(1)
           c2 == Cuenta(2)
           c3 == Cuenta(3)
           d == c2 * c3
           m == (b - 1) * d
<1>7. c \in Nat /\ c2 \in Nat /\ c3 \in Nat /\ d \in Nat
  BY <1>4
<1>8. b \in Nat /\ b >= 1 /\ b <= c
  BY <1>6, <1>7
<1>9. probadas + 1 = c * d
  <2>1. probadas + 1 = c * c2 * c3
    BY DEF EsUltima
  <2> HIDE DEF c, c2, c3
  <2>2. c * c2 * c3 = c * (c2 * c3)
    BY <1>7
  <2> QED
    BY <2>1, <2>2
<1>10. m \in Nat /\ m <= probadas /\ m \div d = b - 1
  <2> HIDE DEF c, d
  <2> QED
    BY <1>7, <1>8, <1>9, VueltaDe
<1>11. Tupla(m)[1] = vals[1][(m \div d) + 1]
  BY <1>2 DEF Tupla, t
<1> HIDE DEF d, m, c
<1>12. (m \div d) + 1 = b
  BY <1>8, <1>10
<1>13. Tupla(m)[1] = v
  BY <1>6, <1>11, <1>12
<1> QED
  BY <1>10, <1>13 DEF Falla

\* What the loops have gone through, and the verdicts.
Recorrido ==
  /\ probadas \in Nat
  /\ pc \in {"run_tests", "sigsetjmp", "alarm"} => probadas = 0
  /\ pc \in {"sigsetjmp", "alarm", "probar"} => vals \in Tablas(t)
  /\ pc = "probar" => \A m \in Nat : m < probadas => ~Falla(t.name, Tupla(m))

DInv == Recorrido /\ EnBordes

\* A step that prints nothing leaves the verdicts as they are.
LEMMA DetectaQuieto ==
  ASSUME EnBordes, UNCHANGED <<orden, informe>>
  PROVE  EnBordes'
BY DEF EnBordes, Bordes

\* A test that ends with anything but "bien" does too.
LEMMA DetectaOtro ==
  ASSUME EnBordes, NEW terrors, NEW como, como # "bien", Vuelve(terrors, como)
  PROVE  EnBordes' /\ Recorrido'
<1>1. \A x : <<x, "bien">> \in informe' => <<x, "bien">> \in informe
  BY DEF Vuelve
<1>2. orden' = orden
  BY DEF Vuelve
<1>3. EnBordes'
  BY <1>1, <1>2 DEF EnBordes, Bordes
<1>4. Recorrido'
  BY DEF Recorrido, Vuelve
<1> QED
  BY <1>3, <1>4

\* The tuples and the defect are those of the arrays and the order.
LEMMA TuplaQuieta ==
  ASSUME UNCHANGED <<orden, i, vals>>
  PROVE  /\ \A m : Tupla(m)' = Tupla(m)
         /\ \A x, m : Falla(x, Tupla(m))' = Falla(x, Tupla(m))
         /\ Tablas(t)' = Tablas(t) /\ t' = t
BY DEF Tupla, Cuenta, t, Falla, Tablas, gen_vals

\* With no line printed no puzzle is said to be right.
LEMMA DInicio == Init => DInv
<1> SUFFICES ASSUME Init PROVE DInv
  OBVIOUS
<1> QED
  BY DEF Init, DInv, Recorrido, EnBordes

\* One comparison: if it ends the test without an error, all were made.
LEMMA DCompara ==
  ASSUME BInv, DInv, Compara
  PROVE  DInv'
<1> DEFINE v == Tupla(probadas)
<1>0. pc = "probar" /\ probadas \in Nat /\ vals \in Tablas(t) /\ i \in 1 .. 13
  BY DEF Compara, DInv, Recorrido, BInv, Lugar
<1>1. \/ Vuelve(1, "mal")
      \/ ~test_n_arg(t.name, v) /\ EsUltima /\ Vuelve(0, "bien")
      \/ /\ ~test_n_arg(t.name, v)
         /\ probadas' = probadas + 1
         /\ UNCHANGED <<orden, i, pc, vals, errors, points, max_points, informe, envbuf>>
  BY DEF Compara
<1>2. ASSUME ~test_n_arg(t.name, v)
      PROVE  \A m \in Nat : m <= probadas => ~Falla(t.name, Tupla(m))
  <2>1. ~Falla(t.name, v)
    BY <1>2 DEF test_n_arg
  <2>2. \A m \in Nat : m <= probadas => m < probadas \/ m = probadas
    BY <1>0
  <2> QED
    BY <1>0, <2>1, <2>2 DEF DInv, Recorrido
<1>3. CASE Vuelve(1, "mal")
  BY <1>3, DetectaOtro DEF DInv
<1>4. CASE ~test_n_arg(t.name, v) /\ EsUltima /\ Vuelve(0, "bien")
  <2>1. Recorrido'
    BY <1>4 DEF Recorrido, Vuelve
  <2>2. orden' = orden /\ informe' = informe \cup {<<t.name, "bien">>}
    BY <1>4 DEF Vuelve
  <2>3. orden.defecto.en = test_set[i].name => orden.defecto.valor \notin Bordes(test_set[i])
    BY <1>0, <1>2, <1>4, TodoProbado DEF t
  <2>4. ASSUME NEW n \in DOMAIN test_set,
               <<test_set[n].name, "bien">> \in informe', orden.defecto.en = test_set[n].name
        PROVE  orden.defecto.valor \notin Bordes(test_set[n])
    <3>1. CASE <<test_set[n].name, "bien">> \in informe
      BY <2>4, <3>1 DEF DInv, EnBordes
    <3>2. CASE test_set[n].name = test_set[i].name
      <4>1. n = i
        BY <1>0, <3>2, Nombres, Filas
      <4> QED
        BY <2>3, <2>4, <4>1
    <3> QED
      BY <2>2, <2>4, <3>1, <3>2 DEF t
  <2>5. EnBordes'
    BY <2>2, <2>4 DEF EnBordes, Bordes
  <2> QED
    BY <2>1, <2>5 DEF DInv
<1>5. CASE /\ ~test_n_arg(t.name, v)
           /\ probadas' = probadas + 1
           /\ UNCHANGED <<orden, i, pc, vals, errors, points, max_points, informe, envbuf>>
  <2>1. EnBordes'
    BY <1>5, DetectaQuieto DEF DInv
  <2>2. \A m \in Nat : m < probadas + 1 => m <= probadas
    BY <1>0
  <2>3. \A m \in Nat : m < probadas' => ~Falla(t.name, Tupla(m))
    BY <1>2, <1>5, <2>2
  <2>4. /\ Tablas(t)' = Tablas(t) /\ t' = t
        /\ \A m : Falla(t.name, Tupla(m))' = Falla(t.name, Tupla(m))
    BY <1>5, TuplaQuieta
  <2>5. Recorrido'
    <3>1. probadas' \in Nat /\ pc' = "probar" /\ vals' \in Tablas(t)'
      BY <1>0, <1>5, <2>4
    <3>2. (\A m \in Nat : m < probadas => ~Falla(t.name, Tupla(m)))'
      BY <2>3, <2>4
    <3> QED
      BY <3>1, <3>2 DEF Recorrido
  <2> QED
    BY <2>1, <2>5 DEF DInv
<1> QED
  BY <1>1, <1>3, <1>4, <1>5

\* Every step keeps it.
LEMMA DPaso == BInv /\ DInv /\ [Next]_vars => DInv'
<1> SUFFICES ASSUME BInv, DInv, [Next]_vars PROVE DInv'
  OBVIOUS
<1>0. Recorrido /\ EnBordes
  BY DEF DInv
<1>1. CASE Termina
  BY <1>0, <1>1, DetectaQuieto DEF Termina, DInv, Recorrido
<1>2. CASE Salta
  <2>1. pc' = "run_tests" /\ probadas' = 0
    BY <1>0, <1>2 DEF Salta, Recorrido
  <2> QED
    BY <1>0, <1>2, <2>1, DetectaQuieto DEF Salta, DInv, Recorrido
<1>3. CASE Genera
  <2>1. /\ probadas' = 0 /\ vals' \in Tablas(t) /\ t' = t /\ orden' = orden
        /\ pc' \in {"sigsetjmp", "probar"}
    BY <1>0, <1>3 DEF Genera, Recorrido, t
  <2>2. Tablas(t)' = Tablas(t)
    BY <2>1 DEF Tablas, gen_vals
  <2>3. \A m \in Nat : ~(m < probadas')
    BY <2>1
  <2>4. Recorrido'
    BY <2>1, <2>2, <2>3 DEF Recorrido
  <2> QED
    BY <1>0, <1>3, <2>4, DetectaQuieto DEF Genera, DInv
<1>4. CASE Sigsetjmp \/ Alarm
  <2>1. /\ probadas' = 0 /\ pc' \in {"alarm", "probar"} /\ vals \in Tablas(t)
        /\ UNCHANGED <<orden, i, vals, informe>>
    BY <1>0, <1>4 DEF Sigsetjmp, Alarm, Recorrido
  <2>2. vals' \in Tablas(t)'
    BY <2>1, TuplaQuieta
  <2>3. \A m \in Nat : ~(m < probadas')
    BY <2>1
  <2>4. Recorrido'
    BY <2>1, <2>2, <2>3 DEF Recorrido
  <2> QED
    BY <1>0, <2>1, <2>4, DetectaQuieto DEF DInv
<1>5. CASE Compara
  BY <1>5, DCompara
<1>6. CASE Suena
  <2>1. CASE Vuelve(1, "tiempo")
    BY <1>0, <2>1, DetectaOtro DEF DInv
  <2>2. CASE pc' = "indefinido" /\ UNCHANGED <<orden, i, vals, probadas, errors, points, max_points, informe, envbuf>>
    BY <1>0, <2>2, DetectaQuieto DEF DInv, Recorrido
  <2> QED
    BY <1>6, <2>1, <2>2 DEF Suena
<1>7. CASE UNCHANGED vars
  <2>1. UNCHANGED <<orden, i, vals, informe, probadas, pc>>
    BY <1>7 DEF vars
  <2>2. /\ Tablas(t)' = Tablas(t) /\ t' = t
        /\ \A m : Falla(t.name, Tupla(m))' = Falla(t.name, Tupla(m))
    BY <2>1, TuplaQuieta
  <2>3. (\A m \in Nat : m < probadas => ~Falla(t.name, Tupla(m)))' <=>
          (\A m \in Nat : m < probadas => ~Falla(t.name, Tupla(m)))
    BY <2>1, <2>2
  <2>4. Recorrido'
    BY <1>0, <2>1, <2>2, <2>3 DEF Recorrido
  <2> QED
    BY <1>0, <2>1, <2>4, DetectaQuieto DEF DInv
<1> QED
  BY <1>1, <1>2, <1>3, <1>4, <1>5, <1>6, <1>7 DEF Next

-----------------------------------------------------------------------------
(***************************************************************************)
(* The verdicts.  What the loops call a puzzle with is what it may be      *)
(* called with, and then only floatPower2 differs, at the denormals.       *)
(***************************************************************************)

\* Numbers that are no denormal's exponent nor the largest normalized float.
Lejanos == {e \in Int : e \notin Denormales /\ e \notin NoProbados}

\* There are floats, and all that gen_vals makes are such numbers.
LEMMA FlotantesLejanos ==
  ASSUME NEW r \in 1 .. TEST_RANGE
  PROVE  Valores_float(r) \in Seq(Lejanos) /\ Len(Valores_float(r)) >= 1
<1> DEFINE smallest_norm == 2^F
           one == Bias * 2^F
           largest_norm == (2^E - 2) * 2^F
           inf == (2^E - 1) * 2^F
           nan == inf + 2^(F - 1)
           con_signo(n) == <<n, n + TMin>>
           m == Min({r, 2^F})
           q == [k \in 1 .. m |->
                  con_signo(k - 1)
                    \o con_signo(smallest_norm + k - 1) \o con_signo(smallest_norm - (k - 1))
                    \o con_signo(one + k - 1) \o con_signo(one - (k - 1))
                    \o con_signo(largest_norm - (k - 1))]
           N == IF m > 0 THEN m ELSE 0
           y == Dos(F)
           z == Dos(F - 1)
           b == Bias
           h == b * y
           X == -TMin
<1>0. TEST_RANGE \in Nat /\ TEST_RANGE >= 4
  BY RangeAssumption
<1>1. Valores_float(r) = FlattenSeq(q) \o con_signo(inf) \o con_signo(nan)
  BY DEF Valores_float
<1>2. m \in Int /\ m <= r /\ m <= y
  <2>0. 2^F = y /\ y \in Nat
    BY Formato
  <2>1. \E x \in {r, 2^F} : \A w \in {r, 2^F} : x <= w
    BY <2>0
  <2>2. m \in {r, 2^F} /\ \A w \in {r, 2^F} : m <= w
    BY <2>1 DEF Min
  <2> HIDE DEF m, y
  <2> QED
    BY <2>0, <2>2
<1>3. /\ y \in Nat /\ z \in Nat /\ b \in Nat /\ b >= 1 /\ y = 2 * z /\ y >= 4 /\ F \in Nat
      /\ z > b + F
  <2>1. z > b + F
    BY PrecisionAssumption, Formato
  <2> QED
    BY <2>1, Formato, Exponentes
<1>4. /\ h \in Nat /\ h >= y /\ X \in Nat /\ X = 2 * h + 2 * y
      /\ smallest_norm = y /\ one = h /\ largest_norm = X - 2 * y
      /\ inf = X - y /\ nan = X - y + z
  <2> DEFINE x == Dos(E)
  <2>1. /\ x \in Nat /\ x = 2 * (b + 1) /\ X = x * y
        /\ 2^F = y /\ 2^E = x /\ 2^(F - 1) = z
    <3>1. /\ x \in Nat /\ Dos(E) = 2 * Dos(E - 1) /\ Bias = Dos(E - 1) - 1 /\ Dos(E - 1) \in Nat
          /\ 2^F = y /\ 2^E = x /\ 2^(F - 1) = z
      BY Formato
    <3>2. TMin = -(x * y)
      BY Formato DEF TMin
    <3> DEFINE p == x * y
    <3>3. p \in Nat
      BY <1>3, <3>1
    <3> HIDE DEF p
    <3>4. -TMin = p
      BY <3>2, <3>3 DEF p
    <3> QED
      BY <3>1, <3>4 DEF p
  <2>2. /\ smallest_norm = y /\ one = b * y /\ largest_norm = (x - 2) * y
        /\ inf = (x - 1) * y /\ nan = (x - 1) * y + z
    BY <2>1
  <2> HIDE DEF x, b, y, z, smallest_norm, one, largest_norm, inf, nan, X
  <2>3. /\ h \in Nat /\ h >= y
    <3>1. PICK a \in Nat : b = a + 1
      BY <1>3, b - 1 \in Nat, b = (b - 1) + 1
    <3>2. b * y = a * y + y /\ a * y \in Nat
      BY <1>3, <3>1
    <3> QED
      BY <1>3, <3>2
  <2>4. x * y = 2 * (b * y) + 2 * y
    BY <1>3, <2>1
  <2>5. (x - 2) * y = x * y - 2 * y /\ (x - 1) * y = x * y - y
    BY <1>3, <2>1
  <2> HIDE DEF h
  <2>6. X = 2 * h + 2 * y
    BY <2>1, <2>4 DEF h
  <2> QED
    BY <1>3, <2>1, <2>2, <2>3, <2>5, <2>6 DEF h
<1>5. TMin = -X /\ TMin \in Int
  BY Numeros
<1>6. \A e \in Int : e \in Lejanos <=>
        ~(-(b + F) <= e /\ e <= -b) /\ e # X - y - 1 /\ e # -y - 1
  <2>1. Denormales = -(b + F) .. -b
    BY DEF Denormales
  <2>2. NoProbados = {X - y - 1, -y - 1}
    <3>1. TMax = X - 1 /\ 2^F = y
      <4>1. TMax = -TMin - 1
        BY Formato DEF TMax, TMin
      <4> QED
        BY <4>1, Formato
    <3> HIDE DEF X, y, z, b, h, m, smallest_norm, one, largest_norm, inf, nan
    <3>2. MayorNormal = (X - 1) - y
      BY <3>1 DEF MayorNormal
    <3>3. MayorNormal = X - y - 1 /\ MayorNormal + TMin = -y - 1
      BY <1>3, <1>4, <1>5, <3>2
    <3> QED
      BY <3>3 DEF NoProbados
  <2> HIDE DEF b, X, y
  <2> QED
    BY <1>3, <2>1, <2>2 DEF Lejanos
<1> HIDE DEF smallest_norm, one, largest_norm, inf, nan, m, y, z, b, h, X
<1>7. ASSUME NEW n \in Int, 0 <= n, n <= X - z, n # X - y - 1
      PROVE  con_signo(n) \in Seq(Lejanos) /\ Len(con_signo(n)) <= 2
  <2>1. n \in Lejanos
    BY <1>3, <1>4, <1>6, <1>7
  <2>2. n + TMin \in Int /\ ~(-(b + F) <= n + TMin) /\ n + TMin # -y - 1 /\ n + TMin # X - y - 1
    BY <1>3, <1>4, <1>5, <1>7
  <2>3. n + TMin \in Lejanos
    BY <1>6, <2>2
  <2> QED
    BY <2>1, <2>3
<1> HIDE DEF con_signo
<1>8. ASSUME NEW k \in 1 .. N
      PROVE  q[k] \in Seq(Lejanos) /\ Len(q[k]) <= 12
  <2> DEFINE a == con_signo(k - 1)
             bb == con_signo(smallest_norm + k - 1)
             c == con_signo(smallest_norm - (k - 1))
             d == con_signo(one + k - 1)
             e == con_signo(one - (k - 1))
             f == con_signo(largest_norm - (k - 1))
  <2>1. k \in 1 .. m /\ k \in Int /\ k <= y /\ k >= 1
    BY <1>2, <1>3
  <2>2. q[k] = a \o bb \o c \o d \o e \o f
    BY <2>1
  <2>3. /\ a \in Seq(Lejanos) /\ Len(a) <= 2 /\ bb \in Seq(Lejanos) /\ Len(bb) <= 2
        /\ c \in Seq(Lejanos) /\ Len(c) <= 2 /\ d \in Seq(Lejanos) /\ Len(d) <= 2
        /\ e \in Seq(Lejanos) /\ Len(e) <= 2 /\ f \in Seq(Lejanos) /\ Len(f) <= 2
    <3>1. k - 1 \in Int /\ 0 <= k - 1 /\ k - 1 <= X - z /\ k - 1 # X - y - 1
      BY <1>3, <1>4, <2>1
    <3>2. smallest_norm + k - 1 \in Int /\ 0 <= smallest_norm + k - 1 /\ smallest_norm + k - 1 <= X - z /\ smallest_norm + k - 1 # X - y - 1
      BY <1>3, <1>4, <2>1
    <3>3. smallest_norm - (k - 1) \in Int /\ 0 <= smallest_norm - (k - 1) /\ smallest_norm - (k - 1) <= X - z /\ smallest_norm - (k - 1) # X - y - 1
      BY <1>3, <1>4, <2>1
    <3>4. one + k - 1 \in Int /\ 0 <= one + k - 1 /\ one + k - 1 <= X - z /\ one + k - 1 # X - y - 1
      BY <1>3, <1>4, <2>1
    <3>5. one - (k - 1) \in Int /\ 0 <= one - (k - 1) /\ one - (k - 1) <= X - z /\ one - (k - 1) # X - y - 1
      BY <1>3, <1>4, <2>1
    <3>6. largest_norm - (k - 1) \in Int /\ 0 <= largest_norm - (k - 1) /\ largest_norm - (k - 1) <= X - z /\ largest_norm - (k - 1) # X - y - 1
      BY <1>3, <1>4, <2>1
    <3> QED
      BY <1>7, <3>1, <3>2, <3>3, <3>4, <3>5, <3>6
  <2> HIDE DEF a, bb, c, d, e, f, q
  <2>4. a \o bb \in Seq(Lejanos) /\ Len(a \o bb) <= 4
    BY <2>3, Pegar
  <2>5. a \o bb \o c \in Seq(Lejanos) /\ Len(a \o bb \o c) <= 6
    BY <2>3, <2>4, Pegar
  <2>6. a \o bb \o c \o d \in Seq(Lejanos) /\ Len(a \o bb \o c \o d) <= 8
    BY <2>3, <2>5, Pegar
  <2>7. a \o bb \o c \o d \o e \in Seq(Lejanos) /\ Len(a \o bb \o c \o d \o e) <= 10
    BY <2>3, <2>6, Pegar
  <2>8. a \o bb \o c \o d \o e \o f \in Seq(Lejanos) /\ Len(a \o bb \o c \o d \o e \o f) <= 12
    BY <2>3, <2>7, Pegar
  <2> QED
    BY <2>2, <2>8
<1>9. 1 .. m = 1 .. N /\ N \in Nat
  BY <1>2
<1>10. q \in [1 .. N -> Seq(Lejanos)]
  <2>1. q = [k \in 1 .. N |-> q[k]]
    BY <1>9
  <2> HIDE DEF q, N
  <2> QED
    BY <1>8, <2>1
<1> HIDE DEF q, N
<1>11. FlattenSeq(q) \in Seq(Lejanos)
  <2>1. FlattenSeq(q) \in Seq(Lejanos) /\ Len(FlattenSeq(q)) <= 12 * N
    BY <1>8, <1>9, <1>10, Aplanada
  <2> QED
    BY <2>1
<1>12. con_signo(inf) \in Seq(Lejanos) /\ con_signo(nan) \in Seq(Lejanos)
  <2>1. /\ inf \in Int /\ 0 <= inf /\ inf <= X - z /\ inf # X - y - 1
        /\ nan \in Int /\ 0 <= nan /\ nan <= X - z /\ nan # X - y - 1
    BY <1>3, <1>4
  <2> QED
    BY <1>7, <2>1
<1> DEFINE s == FlattenSeq(q)
           u == con_signo(inf)
           w == con_signo(nan)
<1>13. s \in Seq(Lejanos) /\ u \in Seq(Lejanos) /\ w \in Seq(Lejanos)
  BY <1>11, <1>12
<1>14. Valores_float(r) = s \o u \o w /\ Len(w) = 2
  BY <1>1 DEF con_signo
<1> HIDE DEF s, u, w
<1>15. s \o u \in Seq(Lejanos)
  BY <1>13, ConcatProperties
<1>16. s \o u \o w \in Seq(Lejanos) /\ Len(s \o u \o w) >= 1
  <2> DEFINE x == s \o u
  <2> HIDE DEF x
  <2>1. x \in Seq(Lejanos) /\ Len(x) \in Nat
    BY <1>15 DEF x
  <2>2. x \o w \in Seq(Lejanos) /\ Len(x \o w) = Len(x) + Len(w)
    BY <1>13, <2>1, ConcatProperties
  <2>3. Len(x \o w) >= 1
    BY <1>14, <2>1, <2>2
  <2> QED
    BY <2>2, <2>3 DEF x
<1> QED
  BY <1>14, <1>16

\* What gen_vals makes for an argument that no option gives: numbers, at least
\* one, and floats only those of Lejanos.
LEMMA ValoresUtiles ==
  ASSUME NEW min \in Int, NEW max \in Int, min <= max, NEW r \in 1 .. TEST_RANGE,
         NEW arg, arg \notin DOMAIN orden.argval, NEW s \in gen_vals(min, max, r, arg)
  PROVE  /\ s \in Seq(Int) /\ Len(s) >= 1
         /\ <<min, max>> = Flotante => s \in Seq(Lejanos)
<1>0. MAX_TEST_VALS \in Nat
  BY RangeAssumption DEF MAX_TEST_VALS
<1>1. CASE min = 1 /\ max = 1
  <2>1. s = Valores_float(r)
    BY <1>1 DEF gen_vals
  <2>2. s \in Seq(Lejanos) /\ Len(s) >= 1
    BY <2>1, FlotantesLejanos
  <2>3. Lejanos \subseteq Int
    BY DEF Lejanos
  <2>4. s \in Seq(Int)
    <3>1. Len(s) \in Nat /\ s = [k \in 1 .. Len(s) |-> s[k]] /\ \A k \in 1 .. Len(s) : s[k] \in Lejanos
      BY <2>2
    <3>2. \A k \in 1 .. Len(s) : s[k] \in Int
      BY <2>3, <3>1
    <3> QED
      BY <3>1, <3>2
  <2> QED
    BY <2>2, <2>4
<1>2. CASE ~(min = 1 /\ max = 1) /\ max - MAX_TEST_VALS <= min
  <2>1. s = [k \in 1 .. max - min + 1 |-> min + k - 1]
    BY <1>2 DEF gen_vals
  <2>2. max - min + 1 \in Nat /\ max - min + 1 >= 1
    OBVIOUS
  <2>3. s \in Seq(Int) /\ Len(s) = max - min + 1
    BY <2>1, <2>2
  <2> QED
    BY <1>2, <2>2, <2>3 DEF Flotante
<1>3. CASE ~(min = 1 /\ max = 1) /\ ~(max - MAX_TEST_VALS <= min)
  <2>1. PICK azar \in [1 .. r -> random_val(min, max)] : s = Muestra(min, max, azar)
    BY <1>3 DEF gen_vals
  <2>2. max - MAX_TEST_VALS > min
    BY <1>0, <1>3
  <2>3. s \in Seq(EnRango(min, max))
    BY <2>1, <2>2, MuestraCabe
  <2>4. EnRango(min, max) \subseteq Int
    BY AzarAssumption DEF EnRango
  <2>5. s \in Seq(Int)
    BY <2>3, <2>4
  <2>6. Contiene(s, min)
    BY <2>1, MuestraEnBordes
  <2>7. Len(s) >= 1
    BY <2>5, <2>6 DEF Contiene
  <2> QED
    BY <1>3, <2>5, <2>7 DEF Flotante
<1> QED
  BY <1>1, <1>2, <1>3

\* What a puzzle may be called with as its argument j.
Apto(p, j, v) ==
  /\ v \in Int
  /\ p.arg_ranges[j] # Flotante => p.arg_ranges[j][1] <= v /\ v <= p.arg_ranges[j][2]
  /\ p.arg_ranges[j] = Flotante /\ j \notin DOMAIN orden.argval => v \in Lejanos

\* The arrays have that, and only the number that an option gives if one does.
LEMMA ValoresAptos ==
  ASSUME orden \in Ordenes, NEW n \in 1 .. 13,
         orden.test_fname \in {NULL, test_set[n].name}, NEW s \in Tablas(test_set[n])
  PROVE  \A j \in 1 .. test_set[n].args :
           /\ s[j] \in Seq(Int) /\ Len(s[j]) >= 1
           /\ \A k \in 1 .. Len(s[j]) : Apto(test_set[n], j, s[j][k])
           /\ j \in DOMAIN orden.argval => s[j] = <<orden.argval[j]>>
<1> DEFINE p == test_set[n]
           r == arg_test_range(p.args)
<1>1. FilaCorrecta(p) /\ s \in Tablas(p) /\ orden \in Ordenes
      /\ orden.test_fname \in {NULL, p.name}
  BY Filas
<1>2. SUFFICES ASSUME NEW j \in 1 .. p.args
               PROVE  /\ s[j] \in Seq(Int) /\ Len(s[j]) >= 1
                      /\ \A k \in 1 .. Len(s[j]) : Apto(p, j, s[j][k])
                      /\ j \in DOMAIN orden.argval => s[j] = <<orden.argval[j]>>
  OBVIOUS
<1>3. j \in DOMAIN s
  BY DEF Tablas
<1>4. j \notin DOMAIN orden.argval /\ p.arg_ranges[j] # Flotante =>
        \A k \in DOMAIN s[j] : p.arg_ranges[j][1] <= s[j][k] /\ s[j][k] <= p.arg_ranges[j][2]
  BY <1>3, TablasCaben
<1>5. j \in DOMAIN orden.argval =>
        /\ orden.argval[j] \in Int
        /\ p.arg_ranges[j] # Flotante =>
             p.arg_ranges[j][1] <= orden.argval[j] /\ orden.argval[j] <= p.arg_ranges[j][2]
  <2>1. n \in DOMAIN test_set
    BY Filas
  <2> QED
    BY <1>1, <2>1, ArgumentosAssumption
<1> HIDE DEF p
<1>6. s[j] \in gen_vals(p.arg_ranges[j][1], p.arg_ranges[j][2], r, j)
  BY <1>1 DEF Tablas
<1>7. PICK min, max \in Int : p.arg_ranges[j] = <<min, max>> /\ min <= max
  BY <1>1 DEF FilaCorrecta
<1>8. r \in 1 .. TEST_RANGE
  BY <1>1, RangoDePrueba DEF FilaCorrecta
<1> HIDE DEF r
<1>9. s[j] \in gen_vals(min, max, r, j)
  BY <1>6, <1>7
<1>10. CASE j \in DOMAIN orden.argval
  <2>1. s[j] = <<orden.argval[j]>>
    BY <1>9, <1>10 DEF gen_vals
  <2>2. s[j] \in Seq(Int) /\ Len(s[j]) = 1
    BY <1>5, <1>10, <2>1
  <2>3. \A k \in 1 .. Len(s[j]) : s[j][k] = orden.argval[j]
    BY <2>1, <2>2
  <2> QED
    BY <1>5, <1>10, <2>1, <2>2, <2>3 DEF Apto
<1>11. CASE j \notin DOMAIN orden.argval
  <2>1. /\ s[j] \in Seq(Int) /\ Len(s[j]) >= 1
        /\ p.arg_ranges[j] = Flotante => s[j] \in Seq(Lejanos)
    BY <1>7, <1>8, <1>9, <1>11, ValoresUtiles
  <2>2. \A k \in 1 .. Len(s[j]) : s[j][k] \in Int /\ k \in DOMAIN s[j]
    BY <2>1
  <2>3. p.arg_ranges[j] = Flotante => \A k \in 1 .. Len(s[j]) : s[j][k] \in Lejanos
    BY <2>1
  <2> QED
    BY <1>4, <1>11, <2>1, <2>2, <2>3 DEF Apto
<1> QED
  BY <1>10, <1>11

\* The three loops' counters stay inside their arrays until the last round.
LEMMA Contadores ==
  ASSUME NEW a \in Nat, NEW b \in Nat, NEW c \in Nat, NEW m \in Nat, m < a * b * c
  PROVE  /\ (m \div (b * c)) + 1 \in 1 .. a
         /\ ((m \div c) % b) + 1 \in 1 .. b
         /\ (m % c) + 1 \in 1 .. c
<1> DEFINE d == b * c
<1>1. d \in Nat /\ m < a * d
  <2>1. d \in Nat /\ a * b * c = a * (b * c)
    OBVIOUS
  <2> QED
    BY <2>1
<1>2. b >= 1 /\ c >= 1
  <2>1. CASE b = 0
    <3>1. a * b * c = 0
      BY <2>1
    <3> QED
      BY <3>1
  <2>2. CASE c = 0
    <3>1. a * b * c = 0
      BY <2>2
    <3> QED
      BY <3>1
  <2> QED
    BY <2>1, <2>2
<1>3. m % c \in 0 .. c - 1 /\ m \div c \in Nat
  BY <1>2
<1>4. (m \div c) % b \in 0 .. b - 1
  BY <1>2, <1>3
<1> HIDE DEF d
<1>5. d >= 1
  <2>1. d = 0 => a * d = 0
    OBVIOUS
  <2> QED
    BY <1>1, <2>1
<1>6. PICK q, r \in Nat : m = q * d + r /\ r < d /\ m \div d = q
  <2>1. m \div d \in Nat /\ m % d \in Nat /\ m % d < d /\ m = (m \div d) * d + (m % d)
    BY <1>1, <1>5
  <2> QED
    BY <2>1
<1>7. q < a
  <2> SUFFICES ASSUME q >= a PROVE FALSE
    OBVIOUS
  <2>1. PICK e \in Nat : q = a + e
    BY q - a \in Nat, q = a + (q - a)
  <2>2. q * d = a * d + e * d /\ e * d \in Nat /\ a * d \in Nat
    BY <1>1, <2>1
  <2> DEFINE x == a * d
             y == e * d
  <2>3. x \in Nat /\ y \in Nat /\ m = x + y + r /\ m < x
    BY <1>1, <1>6, <2>2
  <2> HIDE DEF x, y
  <2> QED
    BY <1>6, <2>3
<1>8. (m \div d) + 1 \in 1 .. a
  BY <1>6, <1>7
<1> QED
  BY <1>2, <1>3, <1>4, <1>8 DEF d

\* So every tuple is made of values of the arrays, one of each.
LEMMA TuplaDeValores ==
  ASSUME i \in 1 .. 13, orden \in Ordenes, orden.test_fname \in {NULL, test_set[i].name},
         vals \in Tablas(test_set[i]),
         NEW m \in Nat, m < Cuenta(1) * Cuenta(2) * Cuenta(3)
  PROVE  /\ \A j \in 1 .. 3 : Tupla(m)[j] \in Int
         /\ \A j \in 1 .. test_set[i].args :
              /\ Apto(test_set[i], j, Tupla(m)[j])
              /\ j \in DOMAIN orden.argval => Tupla(m)[j] = orden.argval[j]
<1> DEFINE p == test_set[i]
           v == Tupla(m)
           c1 == Cuenta(1)
           c2 == Cuenta(2)
           c3 == Cuenta(3)
           k1 == (m \div (c2 * c3)) + 1
           k2 == ((m \div c3) % c2) + 1
           k3 == (m % c3) + 1
<1>1. p.args \in 1 .. 3 /\ t = p
  BY Filas DEF FilaCorrecta, t
<1>2. \A j \in 1 .. p.args :
        /\ vals[j] \in Seq(Int) /\ Len(vals[j]) >= 1
        /\ \A k \in 1 .. Len(vals[j]) : Apto(p, j, vals[j][k])
        /\ j \in DOMAIN orden.argval => vals[j] = <<orden.argval[j]>>
  BY ValoresAptos
<1>3. v = [j \in 1 .. 3 |-> IF j <= p.args THEN vals[j][(<<m \div (c2 * c3), (m \div c3) % c2, m % c3>>)[j] + 1] ELSE 0]
  BY <1>1 DEF Tupla
<1> HIDE DEF p, v
<1>4. /\ v[1] = (IF 1 <= p.args THEN vals[1][k1] ELSE 0)
      /\ v[2] = (IF 2 <= p.args THEN vals[2][k2] ELSE 0)
      /\ v[3] = (IF 3 <= p.args THEN vals[3][k3] ELSE 0)
  BY <1>3
<1>5. \A j \in 1 .. 3 : Cuenta(j) = IF j <= p.args THEN Len(vals[j]) ELSE 1
  BY <1>1 DEF Cuenta
<1>6. c1 \in Nat /\ c2 \in Nat /\ c3 \in Nat /\ m < c1 * c2 * c3
  BY <1>1, <1>2, <1>5
<1> HIDE DEF c1, c2, c3
<1>7. k1 \in 1 .. c1 /\ k2 \in 1 .. c2 /\ k3 \in 1 .. c3
  BY <1>6, Contadores
<1> HIDE DEF k1, k2, k3
<1>8. ASSUME NEW j \in 1 .. p.args
      PROVE  \E k \in 1 .. Len(vals[j]) : v[j] = vals[j][k]
  <2>1. CASE j = 1
    BY <1>1, <1>4, <1>5, <1>7, <2>1 DEF c1
  <2>2. CASE j = 2
    BY <1>1, <1>4, <1>5, <1>7, <2>2 DEF c2
  <2>3. CASE j = 3
    BY <1>1, <1>4, <1>5, <1>7, <2>3 DEF c3
  <2> QED
    BY <1>1, <2>1, <2>2, <2>3
<1>9. ASSUME NEW j \in 1 .. p.args
      PROVE  Apto(p, j, v[j]) /\ (j \in DOMAIN orden.argval => v[j] = orden.argval[j])
  <2>1. PICK k \in 1 .. Len(vals[j]) : v[j] = vals[j][k]
    BY <1>8
  <2>2. Apto(p, j, v[j])
    BY <1>2, <2>1
  <2>3. ASSUME j \in DOMAIN orden.argval PROVE v[j] = orden.argval[j]
    <3>1. vals[j] = <<orden.argval[j]>>
      BY <1>2, <2>3
    <3>2. Len(vals[j]) = 1 /\ vals[j][1] = orden.argval[j]
      BY <3>1
    <3> QED
      BY <2>1, <3>2
  <2> QED
    BY <2>2, <2>3
<1>10. \A j \in 1 .. 3 : v[j] \in Int
  <2>1. \A j \in 1 .. 3 : j \notin 1 .. p.args => v[j] = 0
    BY <1>1, <1>4
  <2>2. \A j \in 1 .. p.args : v[j] \in Int
    BY <1>9 DEF Apto
  <2> QED
    BY <2>1, <2>2
<1> QED
  BY <1>9, <1>10 DEF p, v

\* What a puzzle is called with is told apart by its row.
LEMMA Llamadas ==
  ASSUME NEW n \in 1 .. 13, NEW v \in [1 .. 3 -> Int],
         \A j \in 1 .. test_set[n].args : Apto(test_set[n], j, v[j])
  PROVE  /\ test_set[n].name = "byteSwap" => v[2] \in 0 .. 3 /\ v[3] \in 0 .. 3
         /\ test_set[n].name = "bitMask" => v[1] \in Bit /\ v[2] \in Bit
<1>1. \A m, x, y, z, a, r :
        /\ Prueba(m, a, r, x).arg_ranges = x
        /\ Prueba(m, a, r, x).args = a /\ Prueba(m, a, r, x).name = m
  BY DEF Prueba
<1>2. /\ test_set[4] = Prueba("byteSwap", 3, 2, <<Todos, <<0, 3>>, <<0, 3>>>>)
      /\ test_set[6] = Prueba("bitMask", 2, 3, <<<<0, W - 1>>, <<0, W - 1>>>>)
  BY DEF test_set
<1>3. <<0, 3>> # Flotante /\ <<0, W - 1>> # Flotante
  BY DEF Flotante
<1>4. ASSUME test_set[n].name = "byteSwap" PROVE v[2] \in 0 .. 3 /\ v[3] \in 0 .. 3
  <2>1. n = 4
    <3>1. test_set[4].name = "byteSwap"
      BY <1>1, <1>2
    <3> QED
      BY <1>4, <3>1, Nombres
  <2>2. test_set[n].args = 3 /\ test_set[n].arg_ranges[2] = <<0, 3>> /\ test_set[n].arg_ranges[3] = <<0, 3>>
    BY <1>1, <1>2, <2>1
  <2>3. Apto(test_set[n], 2, v[2]) /\ Apto(test_set[n], 3, v[3])
    BY <2>2
  <2> QED
    BY <1>3, <2>2, <2>3 DEF Apto
<1>5. ASSUME test_set[n].name = "bitMask" PROVE v[1] \in Bit /\ v[2] \in Bit
  <2>1. n = 6
    <3>1. test_set[6].name = "bitMask"
      BY <1>1, <1>2
    <3> QED
      BY <1>5, <3>1, Nombres
  <2>2. /\ test_set[n].args = 2
        /\ test_set[n].arg_ranges[1] = <<0, W - 1>> /\ test_set[n].arg_ranges[2] = <<0, W - 1>>
    BY <1>1, <1>2, <2>1
  <2>3. Apto(test_set[n], 1, v[1]) /\ Apto(test_set[n], 2, v[2])
    BY <2>2
  <2> QED
    BY <1>3, <2>2, <2>3 DEF Apto, Bit
<1> QED
  BY <1>4, <1>5

\* Called so, no puzzle differs from its reference but floatPower2 at a denormal.
LEMMA PuzzlesCorrectos ==
  ASSUME NEW n \in 1 .. 13, NEW v \in [1 .. 3 -> Int],
         \A j \in 1 .. test_set[n].args : Apto(test_set[n], j, v[j])
  PROVE  Difieren(test_set[n].name, v) <=>
           test_set[n].name = "floatPower2" /\ v[1] \in Denormales
<1> DEFINE name == test_set[n].name
           x == OfInt(v[1])
           y == OfInt(v[2])
           z == OfInt(v[3])
<1>1. name \in {"bitAnd", "bitXor", "negate", "byteSwap", "allOddBits", "bitMask",
        "conditional", "isAsciiDigit", "isNonZero", "logicalNeg", "floatNegate",
        "floatAbsVal", "floatPower2"}
  <2>1. n = 1 \/ n = 2 \/ n = 3 \/ n = 4 \/ n = 5 \/ n = 6 \/ n = 7 \/ n = 8
          \/ n = 9 \/ n = 10 \/ n = 11 \/ n = 12 \/ n = 13
    OBVIOUS
  <2> QED
    BY <2>1 DEF test_set, Prueba
<1>2. /\ name = "byteSwap" => v[2] \in 0 .. 3 /\ v[3] \in 0 .. 3
      /\ name = "bitMask" => v[1] \in Bit /\ v[2] \in Bit
  BY Llamadas
<1>3. x \in Word /\ y \in Word /\ z \in Word /\ v[1] \in Int
  BY DEF OfInt, Word
<1> SUFFICES Difieren(name, v) <=> name = "floatPower2" /\ v[1] \in Denormales
  OBVIOUS
<1>4. Difieren(name, v) <=>
        CASE name = "bitAnd" -> bitAnd(x, y) # test_bitAnd(x, y)
          [] name = "bitXor" -> bitXor(x, y) # test_bitXor(x, y)
          [] name = "negate" -> negate(x) # test_negate(x)
          [] name = "byteSwap" -> byteSwap(x, v[2], v[3]) # test_byteSwap(x, v[2], v[3])
          [] name = "allOddBits" -> allOddBits(x) # test_allOddBits(x)
          [] name = "bitMask" -> bitMask(v[1], v[2]) # test_bitMask(v[1], v[2])
          [] name = "conditional" -> conditional(x, y, z) # test_conditional(x, y, z)
          [] name = "isAsciiDigit" -> isAsciiDigit(x) # test_isAsciiDigit(x)
          [] name = "isNonZero" -> isNonZero(x) # test_isNonZero(x)
          [] name = "logicalNeg" -> logicalNeg(x) # test_logicalNeg(x)
          [] name = "floatNegate" -> floatNegate(x) # test_floatNegate(x)
          [] name = "floatAbsVal" -> floatAbsVal(x) # test_floatAbsVal(x)
          [] name = "floatPower2" -> floatPower2(v[1]) # test_floatPower2(v[1])
  BY DEF Difieren
<1>5. /\ bitAnd(x, y) = test_bitAnd(x, y) /\ bitXor(x, y) = test_bitXor(x, y)
      /\ conditional(x, y, z) = test_conditional(x, y, z)
  BY <1>3, LogicaCorrecta
<1>6. negate(x) = test_negate(x) /\ allOddBits(x) = test_allOddBits(x)
  BY <1>3, OpuestoCorrecto, ImparesCorrecto
<1>7. isNonZero(x) = test_isNonZero(x) /\ logicalNeg(x) = test_logicalNeg(x)
  BY <1>3, CeroCorrecto
<1>8. floatNegate(x) = test_floatNegate(x) /\ floatAbsVal(x) = test_floatAbsVal(x)
  BY <1>3, FlotantesCorrectos
<1>9. isAsciiDigit(x) = test_isAsciiDigit(x)
  BY <1>3, DigitoCorrecto
<1>10. name = "byteSwap" => byteSwap(x, v[2], v[3]) = test_byteSwap(x, v[2], v[3])
  BY <1>2, <1>3, BytesCorrecto
<1>11. name = "bitMask" => bitMask(v[1], v[2]) = test_bitMask(v[1], v[2])
  BY <1>2, MascaraCorrecta
<1>12. floatPower2(v[1]) = test_floatPower2(v[1]) <=> v[1] \notin Denormales
  BY <1>3, PotenciaSalvoDenormales
<1> HIDE DEF name, x, y, z
<1>13. CASE name = "floatPower2"
  <2>1. Difieren(name, v) <=> floatPower2(v[1]) # test_floatPower2(v[1])
    BY <1>4, <1>13
  <2> QED
    BY <1>12, <1>13, <2>1
<1>14. CASE name # "floatPower2"
  <2>1. ~Difieren(name, v)
    BY ONLY <1>1, <1>4, <1>5, <1>6, <1>7, <1>8, <1>9, <1>10, <1>11, <1>14
  <2> QED
    BY <1>14, <2>1
<1> QED
  BY <1>13, <1>14

-----------------------------------------------------------------------------
\* The verdicts' invariant.

\* While a puzzle is called there is a tuple left to call it with.
Quedan == pc = "probar" => probadas < Cuenta(1) * Cuenta(2) * Cuenta(3)

VInv == Quedan /\ VeredictoJusto /\ SinMayorNormal

\* The values there are for argument j, as Cuenta counts them, in arrays s.
Largo(n, s, j) == IF j <= test_set[n].args THEN Len(s[j]) ELSE 1

\* There is at least one tuple.
LEMMA HayTuplas ==
  ASSUME NEW n \in 1 .. 13, orden \in Ordenes, orden.test_fname \in {NULL, test_set[n].name},
         NEW s \in Tablas(test_set[n])
  PROVE  0 < Largo(n, s, 1) * Largo(n, s, 2) * Largo(n, s, 3)
<1> DEFINE p == test_set[n]
           c1 == Largo(n, s, 1)
           c2 == Largo(n, s, 2)
           c3 == Largo(n, s, 3)
<1>1. \A j \in 1 .. p.args : s[j] \in Seq(Int) /\ Len(s[j]) >= 1
  BY ValoresAptos
<1>2. \A j \in 1 .. 3 : Largo(n, s, j) = IF j <= p.args THEN Len(s[j]) ELSE 1
  BY DEF Largo
<1>3. p.args \in 1 .. 3
  BY Filas DEF FilaCorrecta
<1> HIDE DEF p
<1>4. \A j \in 1 .. 3 : Largo(n, s, j) \in Nat /\ Largo(n, s, j) >= 1
  BY <1>1, <1>2, <1>3
<1>5. c1 \in Nat /\ c1 >= 1 /\ c2 \in Nat /\ c2 >= 1 /\ c3 \in Nat /\ c3 >= 1
  BY <1>4
<1> HIDE DEF c1, c2, c3
<1>6. c1 * c2 \in Nat /\ c1 * c2 >= 1
  BY <1>5
<1>7. 0 < c1 * c2 * c3
  <2> DEFINE x == c1 * c2
  <2>1. x \in Nat /\ x >= 1
    BY <1>6
  <2> HIDE DEF x
  <2>2. 0 < x * c3
    BY <1>5, <2>1
  <2> QED
    BY <2>2 DEF x
<1> QED
  BY <1>7 DEF c1, c2, c3

\* A defect at the largest normalized number, in the puzzle of row n.
EnMayorNormal(n) ==
  /\ test_set[n].arg_ranges[1] = Flotante /\ 1 \notin DOMAIN orden.argval
  /\ orden.defecto.en = test_set[n].name /\ orden.defecto.valor \in NoProbados

\* A line that is just leaves the verdicts so.
LEMMA VeredictoNuevo ==
  ASSUME VeredictoJusto, SinMayorNormal, i \in 1 .. 13,
         NEW terrors, NEW como, Vuelve(terrors, como),
         como = "mal" => t.name = orden.defecto.en \/ (t.name = "floatPower2" /\ ConDenormal),
         como = "bien" => ~(t.name = "floatPower2" /\ ConDenormal),
         como = "mal" => ~EnMayorNormal(i)
  PROVE  VInv'
<1>1. orden' = orden /\ informe' = informe \cup {<<t.name, como>>} /\ pc' = "run_tests"
  BY DEF Vuelve
<1>2. ConDenormal' <=> ConDenormal
  BY <1>1 DEF ConDenormal
<1>3. ASSUME NEW r \in informe'
      PROVE  /\ r[2] = "mal" => r[1] = orden.defecto.en \/ (r[1] = "floatPower2" /\ ConDenormal)
             /\ r[2] = "bien" => ~(r[1] = "floatPower2" /\ ConDenormal)
  <2>1. CASE r \in informe
    BY <2>1 DEF VeredictoJusto
  <2>2. CASE r = <<t.name, como>>
    <3>1. r[1] = t.name /\ r[2] = como
      BY <2>2
    <3> QED
      BY <3>1
  <2> QED
    BY <1>1, <2>1, <2>2
<1>4. ASSUME NEW n \in DOMAIN test_set, EnMayorNormal(n)
      PROVE  <<test_set[n].name, "mal">> \notin informe'
  <2>1. <<test_set[n].name, "mal">> \notin informe
    BY <1>4 DEF SinMayorNormal, EnMayorNormal
  <2>2. CASE <<test_set[n].name, "mal">> = <<t.name, como>>
    <3>1. n = i
      BY <2>2, Nombres, Filas DEF t
    <3> QED
      BY <1>4, <2>2, <3>1
  <2> QED
    BY <1>1, <2>1, <2>2
<1>5. SinMayorNormal'
  BY <1>1, <1>4 DEF SinMayorNormal, EnMayorNormal
<1> QED
  BY <1>1, <1>2, <1>3, <1>5 DEF VInv, Quedan, VeredictoJusto

\* A step that prints nothing leaves them so.
LEMMA VeredictoQuieto ==
  ASSUME VeredictoJusto, SinMayorNormal, UNCHANGED <<orden, informe>>
  PROVE  VeredictoJusto' /\ SinMayorNormal'
BY DEF VeredictoJusto, ConDenormal, SinMayorNormal

\* With no line printed none is unjust.
LEMMA VInicio == Init => VInv
BY DEF Init, VInv, Quedan, VeredictoJusto, SinMayorNormal

\* One comparison: what it finds is a defect or a denormal.
LEMMA VCompara ==
  ASSUME BInv, DInv, VInv, Compara
  PROVE  VInv'
<1> DEFINE v == Tupla(probadas)
           name == t.name
<1>0. /\ pc = "probar" /\ probadas \in Nat /\ vals \in Tablas(test_set[i]) /\ i \in 1 .. 13
      /\ orden \in Ordenes /\ orden.test_fname \in {NULL, test_set[i].name}
      /\ probadas < Cuenta(1) * Cuenta(2) * Cuenta(3) /\ VeredictoJusto /\ SinMayorNormal
      /\ t = test_set[i]
  BY DEF Compara, DInv, Recorrido, BInv, Lugar, VInv, Quedan, t
<1>1. /\ \A j \in 1 .. 3 : v[j] \in Int
      /\ \A j \in 1 .. test_set[i].args :
           Apto(test_set[i], j, v[j]) /\ (j \in DOMAIN orden.argval => v[j] = orden.argval[j])
  BY <1>0, TuplaDeValores
<1>2. v \in [1 .. 3 -> Int]
  <2>1. v = [j \in 1 .. 3 |-> v[j]]
    BY DEF Tupla
  <2> HIDE DEF v
  <2> QED
    BY <1>1, <2>1
<1>3. test_set[i].args \in 1 .. 3
  BY <1>0, Filas DEF FilaCorrecta
<1> HIDE DEF v
<1>4. Difieren(name, v) <=> name = "floatPower2" /\ v[1] \in Denormales
  BY <1>0, <1>1, <1>2, PuzzlesCorrectos
<1>5. Apto(test_set[i], 1, v[1]) /\ (1 \in DOMAIN orden.argval => v[1] = orden.argval[1])
  BY <1>1, <1>3
<1>6. name = "floatPower2" => (v[1] \in Denormales <=> ConDenormal)
  <2>1. name = "floatPower2" => test_set[i].arg_ranges[1] = Flotante
    <3>1. test_set[13].name = "floatPower2" /\ test_set[13].arg_ranges[1] = Flotante
      BY DEF test_set, Prueba
    <3> QED
      BY <1>0, <3>1, Nombres
  <2>2. name = "floatPower2" /\ 1 \notin DOMAIN orden.argval => v[1] \notin Denormales
    BY <1>5, <2>1 DEF Apto, Lejanos
  <2> QED
    BY <1>5, <2>2 DEF ConDenormal
<1> HIDE DEF name
<1>7. \/ test_n_arg(name, v) /\ Vuelve(1, "mal")
      \/ ~test_n_arg(name, v) /\ Vuelve(0, "bien")
      \/ /\ ~EsUltima /\ probadas' = probadas + 1
         /\ UNCHANGED <<orden, i, pc, vals, errors, points, max_points, informe, envbuf>>
  BY DEF Compara, v, name
<1>8. CASE test_n_arg(name, v) /\ Vuelve(1, "mal")
  <2>1. name = orden.defecto.en \/ (name = "floatPower2" /\ ConDenormal)
    BY <1>4, <1>6, <1>8 DEF test_n_arg, Falla
  <2>2. ASSUME EnMayorNormal(i) PROVE FALSE
    <3>1. v[1] \in Lejanos
      BY <1>5, <2>2 DEF EnMayorNormal, Apto
    <3>2. ~Difieren(name, v)
      BY <1>4, <1>6, <2>2 DEF EnMayorNormal, ConDenormal
    <3>3. orden.defecto.valor = v[1]
      BY <1>8, <3>2 DEF test_n_arg, Falla
    <3> QED
      BY <2>2, <3>1, <3>3 DEF EnMayorNormal, Lejanos
  <2> QED
    BY <1>0, <1>8, <2>1, <2>2, VeredictoNuevo DEF name
<1>9. CASE ~test_n_arg(name, v) /\ Vuelve(0, "bien")
  <2>1. ~(name = "floatPower2" /\ ConDenormal)
    BY <1>4, <1>6, <1>9 DEF test_n_arg
  <2> QED
    BY <1>0, <1>9, <2>1, VeredictoNuevo DEF name
<1>10. CASE /\ ~EsUltima /\ probadas' = probadas + 1
            /\ UNCHANGED <<orden, i, pc, vals, errors, points, max_points, informe, envbuf>>
  <2>1. VeredictoJusto' /\ SinMayorNormal'
    BY <1>0, <1>10, VeredictoQuieto
  <2>2. \A j \in {1, 2, 3} : Cuenta(j)' = Cuenta(j)
    BY <1>10 DEF Cuenta, t
  <2> DEFINE c == Cuenta(1) * Cuenta(2) * Cuenta(3)
  <2>3. c' = c
    BY <2>2
  <2>4. \A j \in 1 .. 3 : Cuenta(j) \in Nat
    BY <1>0, <1>3, TablasSecuencias DEF Cuenta
  <2>5. c \in Nat /\ probadas < c /\ probadas + 1 # c
    BY <1>0, <1>10, <2>4 DEF EsUltima
  <2> HIDE DEF c
  <2>6. probadas' < c'
    BY <1>0, <1>10, <2>3, <2>5
  <2>7. Quedan'
    BY <2>6 DEF Quedan, c
  <2> QED
    BY <2>1, <2>7 DEF VInv
<1> QED
  BY <1>7, <1>8, <1>9, <1>10

\* Every step keeps it.
LEMMA VPaso == BInv /\ DInv /\ VInv /\ [Next]_vars => VInv'
<1> SUFFICES ASSUME BInv, DInv, VInv, [Next]_vars PROVE VInv'
  OBVIOUS
<1>0. Quedan /\ VeredictoJusto /\ SinMayorNormal /\ Lugar /\ Recorrido
  BY DEF VInv, BInv, DInv
<1>1. CASE Termina \/ Salta
  <2>1. UNCHANGED <<orden, informe>> /\ pc' # "probar"
    BY <1>1 DEF Termina, Salta
  <2> QED
    BY <1>0, <2>1, VeredictoQuieto DEF VInv, Quedan
<1>2. ASSUME i \in 1 .. 13, orden.test_fname \in {NULL, test_set[i].name},
             vals' \in Tablas(t), probadas' = 0, UNCHANGED <<orden, i, informe>>
      PROVE  VInv'
  <2>1. VeredictoJusto' /\ SinMayorNormal'
    BY <1>0, <1>2, VeredictoQuieto
  <2>2. t = test_set[i] /\ t' = test_set[i] /\ vals' \in Tablas(test_set[i])
    BY <1>2 DEF t
  <2>3. 0 < Largo(i, vals', 1) * Largo(i, vals', 2) * Largo(i, vals', 3)
    BY <1>0, <1>2, <2>2, HayTuplas DEF Lugar
  <2>4. \A j \in {1, 2, 3} : Cuenta(j)' = Largo(i, vals', j)
    BY <2>2 DEF Cuenta, Largo
  <2>5. (Cuenta(1) * Cuenta(2) * Cuenta(3))' = Largo(i, vals', 1) * Largo(i, vals', 2) * Largo(i, vals', 3)
    BY <2>4
  <2>6. probadas' < (Cuenta(1) * Cuenta(2) * Cuenta(3))'
    BY <1>2, <2>3, <2>5
  <2> QED
    BY <2>1, <2>6 DEF VInv, Quedan
<1>3. CASE Genera
  <2>1. /\ pc = "run_tests" /\ vals' \in Tablas(t) /\ UNCHANGED <<orden, i, informe, probadas>>
        /\ i \in 1 .. 13 /\ orden.test_fname \in {NULL, test_set[i].name}
    BY <1>0, <1>3, Filas DEF Genera, Lugar, t
  <2> QED
    BY <1>0, <1>2, <2>1 DEF Recorrido
<1>4. CASE Sigsetjmp \/ Alarm
  <2>1. /\ pc \in {"sigsetjmp", "alarm"} /\ UNCHANGED <<orden, i, informe, probadas, vals>>
    BY <1>4 DEF Sigsetjmp, Alarm
  <2>2. /\ vals' \in Tablas(t) /\ probadas' = 0
        /\ i \in 1 .. 13 /\ orden.test_fname \in {NULL, test_set[i].name}
    BY <1>0, <2>1 DEF Recorrido, Lugar
  <2> QED
    BY <1>2, <2>1, <2>2
<1>5. CASE Compara
  BY <1>5, VCompara
<1>6. CASE Suena
  <2>1. CASE pc \in {"alarm", "probar"} /\ Vuelve(1, "tiempo")
    <3>1. i \in 1 .. 13
      BY <1>0, <2>1 DEF Lugar
    <3> QED
      BY <1>0, <2>1, <3>1, VeredictoNuevo
  <2>2. CASE pc' = "indefinido" /\ UNCHANGED <<orden, i, vals, probadas, errors, points, max_points, informe, envbuf>>
    BY <1>0, <2>2, VeredictoQuieto DEF VInv, Quedan
  <2> QED
    BY <1>6, <2>1, <2>2 DEF Suena
<1>7. CASE UNCHANGED vars
  <2>1. VeredictoJusto' /\ SinMayorNormal'
    BY <1>0, <1>7, VeredictoQuieto DEF vars
  <2>2. Quedan'
    BY <1>0, <1>7 DEF vars, Quedan, Cuenta, t
  <2> QED
    BY <2>1, <2>2 DEF VInv
<1> QED
  BY <1>1, <1>3, <1>4, <1>5, <1>6, <1>7 DEF Next

\* Only a puzzle with a defect fails, and floatPower2 asked for a denormal,
\* which always does: for every width, TEST_RANGE, random numbers, options and
\* order of the alarms.
THEOREM VeredictoSiempre == Spec => []VeredictoJusto
<1>1. VInv => VeredictoJusto
  BY DEF VInv
<1> QED
  BY <1>1, BInvariante, DInicio, DPaso, VInicio, VPaso, PTL DEF Spec

\* What btest detects at the borders of a puzzle's range, and that it never
\* detects what is wrong at the largest normalized float only: for every width,
\* TEST_RANGE, random numbers, options and order of the alarms.
THEOREM DetectaSiempre == Spec => []DetectaEnBordes
<1>1. DInv /\ VInv => DetectaEnBordes
  BY DEF DInv, VInv, DetectaEnBordes
<1> QED
  BY <1>1, BInvariante, DInicio, DPaso, VInicio, VPaso, PTL DEF Spec
================================================================================
