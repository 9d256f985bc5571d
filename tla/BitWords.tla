-------------------------------- MODULE BitWords --------------------------------
(***************************************************************************)
(* The C compiler's int and unsigned of W bits: a word is the set of its   *)
(* one bits, so the bitwise operators are those of sets.  Shift amounts    *)
(* are numbers from 0 to W - 1, outside of which C leaves them undefined.  *)
(***************************************************************************)
EXTENDS Integers

CONSTANT W  \* bits of a word

ASSUME WidthAssumption == W \in Nat /\ W >= 2

Bit == 0 .. W - 1
Word == SUBSET Bit
One == {0}

Not(x) == Bit \ x
Xor(x, y) == (x \ y) \cup (y \ x)
Shl(x, n) == {i \in Bit : i - n \in x}
\* Right shift of an int, which repeats the sign, and of an unsigned.
Sar(x, n) == {i \in Bit : IF i + n < W THEN i + n \in x ELSE W - 1 \in x}
Shr(x, n) == {i \in Bit : i + n \in x}

\* x + y carries into bit i: two ones meet below it and the carry is passed on.
Carry(x, y, i) ==
  \E j \in x \cap y : j < i /\ \A k \in j + 1 .. i - 1 : k \in x \cup y
Add(x, y) == {i \in Bit : ~(i \in Xor(x, y) <=> Carry(x, y, i))}

\* The result of a C comparison, and the operator ! on a word.
Truth(b) == IF b THEN One ELSE {}
LNot(x) == Truth(x = {})

\* The word of a number, in two's complement, and the numbers of a word.
OfInt(n) == {i \in Bit : (n \div 2^i) % 2 = 1}
ToNat(x) ==
  LET upTo[k \in 0 .. W] ==
        IF k = 0 THEN 0 ELSE upTo[k - 1] + (IF k - 1 \in x THEN 2^(k - 1) ELSE 0)
  IN  upTo[W]
ToInt(x) == ToNat(x) - (IF W - 1 \in x THEN 2^W ELSE 0)
=================================================================================
