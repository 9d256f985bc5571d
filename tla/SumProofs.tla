------------------------------- MODULE SumProofs -------------------------------
(***************************************************************************)
(* Sums over finite sets of natural numbers, as the community modules fold *)
(* them: SumFunctionOnSet chooses the elements in an order of its own, and *)
(* counts what a set of units counts, which has no order.  Powers of two,  *)
(* which count the subsets of a set.  And the number that a set of bits    *)
(* writes: ToNat's sum, its carries, complements and quotients.            *)
(***************************************************************************)
EXTENDS Integers, Functions, FiniteSetTheorems, WellFoundedInduction, TLAPS

\* As many elements for each member of S as sz gives it.
Units(S, sz) == {u \in S \X Nat : u[2] >= 1 /\ u[2] <= sz[u[1]]}

\* Among the finite sets of a collection there is one of which none is a proper subset.
LEMMA SmallestSet ==
  ASSUME NEW S, NEW T, T \subseteq SUBSET S, T # {}, \A s \in T : IsFiniteSet(s)
  PROVE  \E s \in T : \A r \in T : ~(r \subseteq s /\ r # s)
<1>1. T \subseteq FiniteSubsetsOf(S)
  BY DEF FiniteSubsetsOf
<1>2. PICK s \in T : \A r \in T : ~(<<r, s>> \in StrictSubsetOrdering(S))
  <2>1. IsWellFoundedOn(StrictSubsetOrdering(S), FiniteSubsetsOf(S))
    BY FS_StrictSubsetOrderingWellFounded
  <2> DEFINE R == StrictSubsetOrdering(S)
             F == FiniteSubsetsOf(S)
  <2> HIDE DEF R, F
  <2>2. IsWellFoundedOn(R, F) /\ T \subseteq F
    BY <1>1, <2>1 DEF R, F
  <2>3. \E s \in T : \A r \in T : ~(<<r, s>> \in R)
    BY <2>2, WFMin
  <2>4. QED
    BY <2>3 DEF R
<1>3. QED
  BY <1>2 DEF StrictSubsetOrdering

\* The units of one element more.
LEMMA UnitsMore ==
  ASSUME NEW S, NEW sz, NEW x \in S, sz[x] \in Nat, IsFiniteSet(Units(S \ {x}, sz))
  PROVE  /\ IsFiniteSet(Units(S, sz))
         /\ Cardinality(Units(S, sz)) = Cardinality(Units(S \ {x}, sz)) + sz[x]
<1> DEFINE A == Units(S \ {x}, sz)
           B == {x} \X (1 .. sz[x])
<1>1. Units(S, sz) = A \cup B /\ A \cap B = {}
  <2>1. ASSUME NEW u \in Units(S, sz) PROVE u \in A \cup B
    BY DEF Units
  <2>2. ASSUME NEW u \in A \cup B PROVE u \in Units(S, sz)
    BY DEF Units
  <2>3. A \cap B = {}
    BY DEF Units
  <2>4. QED
    BY <2>1, <2>2, <2>3
<1>2. IsFiniteSet(1 .. sz[x]) /\ Cardinality(1 .. sz[x]) = sz[x]
  BY FS_Interval
<1>3. IsFiniteSet(B) /\ Cardinality(B) = sz[x]
  <2>1. IsFiniteSet({x}) /\ Cardinality({x}) = 1
    BY FS_Singleton
  <2> DEFINE C == 1 .. sz[x]
             D == {x}
  <2>2. IsFiniteSet(C) /\ Cardinality(C) = sz[x] /\ IsFiniteSet(D) /\ Cardinality(D) = 1
    BY <1>2, <2>1
  <2> HIDE DEF C, D
  <2>3. IsFiniteSet(D \X C) /\ Cardinality(D \X C) = Cardinality(D) * Cardinality(C)
    BY <2>2, FS_Product
  <2>4. Cardinality(D \X C) = sz[x]
    BY <2>2, <2>3
  <2>5. QED
    BY <2>3, <2>4 DEF C, D
<1> HIDE DEF A, B
<1>4. IsFiniteSet(A)
  BY DEF A
<1>5. Cardinality(A) \in Nat /\ Cardinality(B) = sz[x] /\ Cardinality(A \cap B) = 0
  <2>1. Cardinality(A) \in Nat
    BY <1>4, FS_CardinalityType
  <2>2. Cardinality(A \cap B) = 0
    BY <1>1, FS_EmptySet
  <2>3. QED
    BY <1>3, <2>1, <2>2
<1>6. /\ IsFiniteSet(A \cup B)
      /\ Cardinality(A \cup B) = Cardinality(A) + Cardinality(B) - Cardinality(A \cap B)
  BY <1>3, <1>4, FS_Union
<1>7. QED
  BY <1>1, <1>5, <1>6 DEF A

\* The units of finitely many elements are finitely many.
LEMMA UnitsFinite ==
  ASSUME NEW S, IsFiniteSet(S), NEW sz, \A i \in S : sz[i] \in Nat
  PROVE  IsFiniteSet(Units(S, sz))
<1> DEFINE T == {s \in SUBSET S : ~IsFiniteSet(Units(s, sz))}
<1> SUFFICES ASSUME S \in T PROVE FALSE
  OBVIOUS
<1>1. \A s \in T : IsFiniteSet(s)
  BY FS_Subset
<1>2. PICK s \in T : \A r \in T : ~(r \subseteq s /\ r # s)
  <2>1. T \subseteq SUBSET S /\ T # {} /\ \A s \in T : IsFiniteSet(s)
    BY <1>1
  <2> HIDE DEF T
  <2>2. QED
    BY <2>1, SmallestSet
<1>3. s # {}
  <2>1. Units({}, sz) = {}
    BY DEF Units
  <2>2. QED
    BY <1>2, <2>1, FS_EmptySet
<1>4. PICK x \in s : TRUE
  BY <1>3
<1>5. IsFiniteSet(Units(s \ {x}, sz))
  BY <1>2, <1>4
<1>6. QED
  BY <1>2, <1>4, <1>5, UnitsMore

\* Sizes matter only inside the set.
LEMMA UnitsSame ==
  ASSUME NEW S, NEW sz, NEW tz, \A i \in S : sz[i] = tz[i]
  PROVE  Units(S, sz) = Units(S, tz)
<1>1. \A u \in S \X Nat : sz[u[1]] = tz[u[1]]
  OBVIOUS
<1>2. QED
  BY <1>1 DEF Units

\* A function as the one that the fold defines.
IsFold(g, sz, S) ==
  g = [s \in SUBSET S |->
        IF s = {} THEN 0
        ELSE sz[CHOOSE x \in s : TRUE] + g[s \ {CHOOSE x \in s : TRUE}]]

\* The sum is the value of such a function at the whole set.
LEMMA SumFolds ==
  ASSUME NEW sz, NEW S
  PROVE  SumFunctionOnSet(sz, S) = (CHOOSE g : IsFold(g, sz, S))[S]
BY DEF SumFunctionOnSet, FoldFunctionOnSet, MapThenFoldSet, IsFold

\* So a sum counts units: the fold is well defined, for there is such a
\* function, and its value is that of any other one.
LEMMA SumIsUnits ==
  ASSUME NEW S, IsFiniteSet(S), NEW sz, \A i \in S : sz[i] \in Nat
  PROVE  SumFunctionOnSet(sz, S) = Cardinality(Units(S, sz))
<1> DEFINE first(s) == CHOOSE x \in s : TRUE
           f == [s \in SUBSET S |-> Cardinality(Units(s, sz))]
<1>1. \A s \in SUBSET S : IsFiniteSet(s)
  BY FS_Subset
<1>2. \A s \in SUBSET S : s # {} => first(s) \in s
  OBVIOUS
<1>3. f[{}] = 0
  <2>1. Units({}, sz) = {}
    BY DEF Units
  <2>2. QED
    BY <2>1, FS_EmptySet
<1> HIDE DEF first
<1>4. ASSUME NEW s \in SUBSET S, s # {}
      PROVE  f[s] = sz[first(s)] + f[s \ {first(s)}] /\ f[s \ {first(s)}] \in Nat
  <2> DEFINE x == first(s)
  <2>1. x \in s /\ x \in S /\ s \ {x} \in SUBSET S
    BY <1>2, <1>4
  <2> HIDE DEF x
  <2>2. IsFiniteSet(Units(s \ {x}, sz))
    BY <1>1, <2>1, UnitsFinite
  <2>3. Cardinality(Units(s, sz)) = Cardinality(Units(s \ {x}, sz)) + sz[x]
    BY <2>1, <2>2, UnitsMore
  <2>4. Cardinality(Units(s \ {x}, sz)) \in Nat
    BY <2>2, FS_CardinalityType
  <2>5. QED
    BY <2>1, <2>3, <2>4 DEF x
<1> HIDE DEF f
<1>5. IsFold(f, sz, S)
  <2>1. f = [s \in SUBSET S |-> IF s = {} THEN 0 ELSE sz[first(s)] + f[s \ {first(s)}]]
    <3>1. \A s \in SUBSET S : f[s] = IF s = {} THEN 0 ELSE sz[first(s)] + f[s \ {first(s)}]
      BY <1>3, <1>4
    <3>2. f = [s \in SUBSET S |-> f[s]]
      BY DEF f
    <3>3. QED
      BY <3>1, <3>2
  <2>2. QED
    BY <2>1 DEF IsFold, first
<1> DEFINE g == CHOOSE h : IsFold(h, sz, S)
<1>6. IsFold(g, sz, S)
  BY <1>5
<1> HIDE DEF g
<1>7. \A s \in SUBSET S : g[s] = IF s = {} THEN 0 ELSE sz[first(s)] + g[s \ {first(s)}]
  BY <1>6 DEF IsFold, first
<1>8. g[S] = f[S]
  <2> DEFINE T == {s \in SUBSET S : g[s] # f[s]}
  <2> SUFFICES ASSUME S \in T PROVE FALSE
    OBVIOUS
  <2>1. PICK s \in T : \A r \in T : ~(r \subseteq s /\ r # s)
    <3>1. T \subseteq SUBSET S /\ T # {} /\ \A s \in T : IsFiniteSet(s)
      BY <1>1
    <3> HIDE DEF T
    <3>2. QED
      BY <3>1, SmallestSet
  <2>2. s # {}
    BY <1>3, <1>7, <2>1
  <2>3. first(s) \in s /\ s \ {first(s)} \in SUBSET S
    BY <1>2, <2>1, <2>2
  <2>4. g[s \ {first(s)}] = f[s \ {first(s)}]
    BY <2>1, <2>3
  <2>5. QED
    BY <1>4, <1>7, <2>1, <2>2, <2>4
<1>9. f[S] = Cardinality(Units(S, sz))
  BY DEF f
<1>10. SumFunctionOnSet(sz, S) = g[S]
  BY SumFolds DEF g
<1>11. QED
  BY <1>8, <1>9, <1>10

\* The sum of one element more.
LEMMA SumMore ==
  ASSUME NEW S, IsFiniteSet(S), NEW x, x \notin S,
         NEW sz, \A i \in S \cup {x} : sz[i] \in Nat
  PROVE  /\ SumFunctionOnSet(sz, S) \in Nat
         /\ SumFunctionOnSet(sz, S \cup {x}) = SumFunctionOnSet(sz, S) + sz[x]
<1>1. IsFiniteSet(S \cup {x}) /\ (S \cup {x}) \ {x} = S
  BY FS_AddElement
<1>2. IsFiniteSet(Units(S, sz))
  BY UnitsFinite
<1>3. SumFunctionOnSet(sz, S) = Cardinality(Units(S, sz))
  BY SumIsUnits
<1>4. SumFunctionOnSet(sz, S \cup {x}) = Cardinality(Units(S \cup {x}, sz))
  BY <1>1, SumIsUnits
<1>5. Cardinality(Units(S \cup {x}, sz)) = Cardinality(Units(S, sz)) + sz[x]
  BY <1>1, <1>2, UnitsMore
<1> QED
  BY <1>2, <1>3, <1>4, <1>5, FS_CardinalityType

\* The sum of nothing.
LEMMA SumNothing ==
  ASSUME NEW sz
  PROVE  SumFunctionOnSet(sz, {}) = 0
<1>1. Units({}, sz) = {}
  BY DEF Units
<1>2. IsFiniteSet({}) /\ Cardinality({}) = 0
  BY FS_EmptySet
<1> QED
  BY <1>1, <1>2, SumIsUnits

-----------------------------------------------------------------------------
\* Any set of natural numbers that has one has a least one.
LEMMA Minimo ==
  ASSUME NEW T, T \subseteq Nat, T # {}
  PROVE  \E x \in T : \A y \in T : x <= y
<1> DEFINE R == OpToRel(<, Nat)
<1>1. \A x, y \in Nat : <<x, y>> \in R <=> x < y
  BY DEF OpToRel
<1>2. IsWellFoundedOn(R, Nat)
  BY NatLessThanWellFounded
<1> HIDE DEF R
<1>3. PICK x \in T : \A y \in T : ~ (<<y, x>> \in R)
  BY <1>2, WFMin
<1>4. ASSUME NEW y \in T  PROVE x <= y
  <2>1. x \in Nat /\ y \in Nat
    OBVIOUS
  <2>2. ~ (y < x)
    BY <1>1, <1>3, <2>1
  <2>3. QED
    BY <2>1, <2>2
<1>5. QED
  BY <1>4

\* 2^n, which counts the subsets of n numbers.
LEMMA Subconjuntos ==
  ASSUME NEW n \in Nat
  PROVE  /\ IsFiniteSet(SUBSET (1 .. n))
         /\ Cardinality(SUBSET (1 .. n)) = 2^n
         /\ 2^n \in Nat
<1>1. IsFiniteSet(1 .. n) /\ Cardinality(1 .. n) = n
  BY FS_Interval
<1>2. IsFiniteSet(SUBSET (1 .. n)) /\ Cardinality(SUBSET (1 .. n)) = 2^Cardinality(1 .. n)
  BY <1>1, FS_SUBSET
<1>3. Cardinality(SUBSET (1 .. n)) \in Nat
  BY <1>2, FS_CardinalityType
<1> QED
  BY <1>1, <1>2, <1>3

\* One number more doubles them: the subsets without it, and those with it.
LEMMA PotenciaDoble ==
  ASSUME NEW n \in Nat
  PROVE  2^(n + 1) = 2 * 2^n
<1> DEFINE S == SUBSET (1 .. n)
           T == SUBSET (1 .. n + 1)
           C == {s \cup {n + 1} : s \in S}
           f == [s \in S |-> s \cup {n + 1}]
<1>1. T = S \cup C
  <2>1. ASSUME NEW t \in T PROVE t \in S \cup C
    <3>1. CASE n + 1 \in t
      <4>1. t \ {n + 1} \in S /\ t = (t \ {n + 1}) \cup {n + 1}
        BY <3>1
      <4> QED
        BY <4>1
    <3>2. CASE n + 1 \notin t
      BY <3>2
    <3> QED
      BY <3>1, <3>2
  <2>2. ASSUME NEW t \in S \cup C PROVE t \in T
    OBVIOUS
  <2> QED
    BY <2>1, <2>2
<1>2. S \cap C = {}
  <2>1. \A s \in S : n + 1 \notin s
    OBVIOUS
  <2> QED
    BY <2>1
<1>3. IsFiniteSet(S) /\ Cardinality(S) = 2^n /\ 2^n \in Nat
  BY Subconjuntos
<1>4. Cardinality(T) = 2^(n + 1)
  BY Subconjuntos, n + 1 \in Nat
<1>5. f \in Bijection(S, C)
  <2>1. f \in [S -> C]
    OBVIOUS
  <2>2. ASSUME NEW s \in S, NEW r \in S, f[s] = f[r] PROVE s = r
    <3>1. n + 1 \notin s /\ n + 1 \notin r /\ s \cup {n + 1} = r \cup {n + 1}
      BY <2>2
    <3> QED
      BY <3>1
  <2>3. \A c \in C : \E s \in S : f[s] = c
    OBVIOUS
  <2> HIDE DEF S, C, f
  <2> QED
    BY <2>1, <2>2, <2>3 DEF Bijection, Injection, Surjection, IsInjective
<1> HIDE DEF S, T, C, f
<1>6. IsFiniteSet(C) /\ Cardinality(C) = Cardinality(S)
  BY <1>3, <1>5, FS_Bijection DEF ExistsBijection
<1>7. Cardinality(T) = Cardinality(S) + Cardinality(C)
  <2>1. Cardinality(S \cup C) = Cardinality(S) + Cardinality(C) - Cardinality(S \cap C)
    BY <1>3, <1>6, FS_Union
  <2>2. Cardinality({}) = 0
    BY FS_EmptySet
  <2>3. Cardinality(S) + Cardinality(C) - 0 = Cardinality(S) + Cardinality(C)
    BY <1>3, <1>6
  <2> QED
    BY <1>1, <1>2, <2>1, <2>2, <2>3
<1> QED
  BY <1>3, <1>4, <1>6, <1>7

\* A power of two, by a name of its own that the provers leave alone.
Dos(n) == 2^n

\* The first one, and each from the one before.
LEMMA DosBase == Dos(0) = 1 /\ \A n \in Nat : Dos(n) \in Nat /\ Dos(n + 1) = 2 * Dos(n)
BY Subconjuntos, PotenciaDoble, 2^0 = 1 DEF Dos

\* Exponents add up.
LEMMA DosSuma ==
  \A a, b \in Nat : Dos(a + b) = Dos(a) * Dos(b)
<1> DEFINE T == {b \in Nat : \E a \in Nat : Dos(a + b) # Dos(a) * Dos(b)}
<1> SUFFICES ASSUME T # {} PROVE FALSE
  OBVIOUS
<1>0. T \subseteq Nat
  OBVIOUS
<1> HIDE DEF T
<1>1. PICK b \in T : \A n \in T : b <= n
  BY <1>0, Minimo
<1>2. b \in Nat
  BY <1>0
<1>3. PICK a \in Nat : Dos(a + b) # Dos(a) * Dos(b)
  BY <1>1 DEF T
<1>4. b # 0
  <2>1. Dos(a) * 1 = Dos(a) /\ a + 0 = a
    BY DosBase
  <2> QED
    BY <1>3, <2>1, DosBase
<1>5. PICK c \in Nat : b = c + 1
  <2>1. b - 1 \in Nat /\ b = (b - 1) + 1
    BY <1>2, <1>4
  <2> QED
    BY <2>1
<1>6. Dos(a + c) = Dos(a) * Dos(c)
  <2>1. c \notin T
    BY <1>1, <1>5
  <2> QED
    BY <2>1 DEF T
<1>7. Dos((a + c) + 1) = 2 * Dos(a + c) /\ Dos(c + 1) = 2 * Dos(c)
  BY DosBase, a + c \in Nat
<1> DEFINE x == Dos(a)
           y == Dos(c)
<1>8. x \in Nat /\ y \in Nat
  BY DosBase
<1> HIDE DEF x, y
<1>9. 2 * (x * y) = x * (2 * y)
  BY <1>8
<1>10. a + (c + 1) = (a + c) + 1
  OBVIOUS
<1> QED
  BY <1>3, <1>5, <1>6, <1>7, <1>9, <1>10 DEF x, y

\* A larger exponent at least doubles it.
LEMMA DosCrece ==
  /\ \A n \in Nat : Dos(n) >= 1
  /\ \A m, n \in Nat : m < n => 2 * Dos(m) <= Dos(n)
  /\ \A m, n \in Nat : m <= n => Dos(m) <= Dos(n)
<1>1. \A n \in Nat : Dos(n) >= 1
  <2> DEFINE T == {n \in Nat : ~(Dos(n) >= 1)}
  <2> SUFFICES ASSUME T # {} PROVE FALSE
    OBVIOUS
  <2>0. T \subseteq Nat
    OBVIOUS
  <2> HIDE DEF T
  <2>1. PICK n \in T : \A m \in T : n <= m
    BY <2>0, Minimo
  <2>2. n \in Nat /\ ~(Dos(n) >= 1)
    BY <2>1 DEF T
  <2>3. n # 0
    BY <2>2, DosBase
  <2>4. n - 1 \in Nat /\ n = (n - 1) + 1 /\ ~(n <= n - 1)
    BY <2>2, <2>3
  <2>5. Dos(n - 1) >= 1
    BY <2>1, <2>4 DEF T
  <2>6. Dos(n) = 2 * Dos(n - 1) /\ Dos(n - 1) \in Nat
    BY <2>4, DosBase
  <2> QED
    BY <2>2, <2>5, <2>6
<1>2. ASSUME NEW m \in Nat, NEW n \in Nat, m <= n PROVE Dos(m) <= Dos(n)
  <2>1. n - m \in Nat /\ n = m + (n - m)
    BY <1>2
  <2>2. Dos(n) = Dos(m) * Dos(n - m)
    BY <2>1, DosSuma
  <2> DEFINE x == Dos(m)
             y == Dos(n - m)
  <2>3. x \in Nat /\ y \in Nat /\ y >= 1
    BY <1>1, <2>1, DosBase
  <2> HIDE DEF x, y
  <2>4. x <= x * y
    <3>1. y - 1 \in Nat /\ y = (y - 1) + 1
      BY <2>3
    <3>2. x * (y - 1) \in Nat
      BY <2>3, <3>1
    <3>3. x * y = x * (y - 1) + x
      BY <2>3
    <3> QED
      BY <2>3, <3>2, <3>3
  <2> QED
    BY <2>2, <2>4 DEF x, y
<1>3. ASSUME NEW m \in Nat, NEW n \in Nat, m < n PROVE 2 * Dos(m) <= Dos(n)
  <2>1. m + 1 \in Nat /\ m + 1 <= n
    BY <1>3
  <2>2. Dos(m + 1) <= Dos(n)
    BY <1>2, <2>1
  <2> QED
    BY <2>2, DosBase
<1> QED
  BY <1>1, <1>2, <1>3

\* A number put together from a quotient and a remainder gives them back.
LEMMA Division ==
  \A n, q, d, r \in Nat : r < d /\ n = q * d + r => n \div d = q /\ n % d = r
<1> SUFFICES ASSUME NEW n \in Nat, NEW q \in Nat, NEW d \in Nat, NEW r \in Nat,
                    r < d, n = q * d + r
             PROVE  n \div d = q /\ n % d = r
  OBVIOUS
<1> QED
  OBVIOUS

-----------------------------------------------------------------------------
\* The numbers that sets of bits write.

\* The bit i of x, by its weight.
Peso(x, i) == IF i \in x THEN Dos(i) ELSE 0

\* A number, at most that of a one.
LEMMA PesoNat == \A x : \A i \in Nat : Peso(x, i) \in Nat /\ Peso(x, i) <= Dos(i)
BY DosBase DEF Peso

\* g has at k the number that the lowest k bits of x write.
Sumando(g, x, n) == \A k \in 0 .. n : g[k] = IF k = 0 THEN 0 ELSE g[k - 1] + Peso(x, k - 1)

\* There is such a g,
LEMMA HaySuma ==
  ASSUME NEW x
  PROVE  \A n \in Nat : \E g \in [0 .. n -> Nat] : Sumando(g, x, n)
<1> DEFINE T == {n \in Nat : ~ \E g \in [0 .. n -> Nat] : Sumando(g, x, n)}
<1> SUFFICES ASSUME T # {} PROVE FALSE
  OBVIOUS
<1>0. T \subseteq Nat
  OBVIOUS
<1> HIDE DEF T
<1>1. PICK m \in T : \A n \in T : m <= n
  BY <1>0, Minimo
<1>2. m \in Nat
  BY <1>0
<1>3. m # 0
  <2>1. ASSUME m = 0 PROVE FALSE
    <3> DEFINE g == [k \in 0 .. 0 |-> 0]
    <3>1. g \in [0 .. m -> Nat] /\ Sumando(g, x, m)
      BY <2>1 DEF Sumando
    <3> QED
      BY <1>1, <3>1 DEF T
  <2> QED
    BY <2>1
<1>4. m - 1 \in Nat /\ ~(m <= m - 1)
  BY <1>2, <1>3
<1>5. PICK h \in [0 .. m - 1 -> Nat] : Sumando(h, x, m - 1)
  BY <1>1, <1>4 DEF T
<1> DEFINE p == Peso(x, m - 1)
           g == [k \in 0 .. m |-> IF k = m THEN h[m - 1] + p ELSE h[k]]
<1>6. p \in Nat
  BY <1>4, PesoNat
<1>7. g \in [0 .. m -> Nat]
  BY <1>2, <1>4, <1>6
<1>8. ASSUME NEW k \in 0 .. m PROVE g[k] = IF k = 0 THEN 0 ELSE g[k - 1] + Peso(x, k - 1)
  <2>1. CASE k = m
    <3>1. g[k] = h[k - 1] + Peso(x, k - 1) /\ g[k - 1] = h[k - 1] /\ k # 0
      BY <1>2, <1>3, <2>1
    <3> QED
      BY <3>1
  <2>2. CASE k # m
    <3>1. k \in 0 .. m - 1 /\ g[k] = h[k]
      BY <1>2, <2>2
    <3>2. h[k] = IF k = 0 THEN 0 ELSE h[k - 1] + Peso(x, k - 1)
      BY <1>5, <3>1 DEF Sumando
    <3>3. k # 0 => g[k - 1] = h[k - 1]
      BY <1>2, <2>2
    <3> QED
      BY <3>1, <3>2, <3>3
  <2> QED
    BY <2>1, <2>2
<1> QED
  BY <1>1, <1>7, <1>8 DEF T, Sumando

\* Each bit adds its weight.
LEMMA Pesos ==
  ASSUME NEW N \in Nat, NEW x, NEW v \in [0 .. N -> Nat], Sumando(v, x, N)
  PROVE  /\ v[0] = 0
         /\ \A k \in Nat : k + 1 <= N => v[k + 1] = v[k] + Peso(x, k)
         /\ \A k \in Nat : k <= N => v[k] \in Nat
<1>1. v[0] = 0 /\ \A k \in Nat : k + 1 <= N => v[k + 1] = v[k] + Peso(x, k)
  <2>1. v[0] = 0
    BY DEF Sumando
  <2>2. ASSUME NEW k \in Nat, k + 1 <= N PROVE v[k + 1] = v[k] + Peso(x, k)
    <3>1. k + 1 \in 0 .. N /\ (k + 1) - 1 = k /\ k + 1 # 0
      BY <2>2
    <3>2. v[k + 1] = v[(k + 1) - 1] + Peso(x, (k + 1) - 1)
      BY <3>1 DEF Sumando
    <3> QED
      BY <3>1, <3>2
  <2> QED
    BY <2>1, <2>2
<1>2. \A k \in Nat : k <= N => v[k] \in Nat
  OBVIOUS
<1> QED
  BY <1>1, <1>2

\* The lowest k bits write less than 2^k.
LEMMA SumasAcotadas ==
  ASSUME NEW N \in Nat, NEW x, NEW v \in [0 .. N -> Nat], Sumando(v, x, N)
  PROVE  \A k \in 0 .. N : v[k] < Dos(k)
<1>p. /\ v[0] = 0
      /\ \A k \in Nat : k + 1 <= N => v[k + 1] = v[k] + Peso(x, k)
      /\ \A k \in Nat : k <= N => v[k] \in Nat
  BY Pesos
<1> DEFINE T == {k \in 0 .. N : ~(v[k] < Dos(k))}
<1> SUFFICES ASSUME T # {} PROVE FALSE
  OBVIOUS
<1>0. T \subseteq Nat
  OBVIOUS
<1> HIDE DEF T
<1>1. PICK m \in T : \A k \in T : m <= k
  BY <1>0, Minimo
<1>2. m \in 0 .. N /\ ~(v[m] < Dos(m))
  BY <1>1 DEF T
<1>3. m # 0
  BY <1>p, <1>2, DosBase
<1>4. PICK j \in Nat : m = j + 1
  BY <1>2, <1>3, m - 1 \in Nat, m = (m - 1) + 1
<1>5. j + 1 <= N /\ j \in 0 .. N /\ ~(m <= j)
  BY <1>2, <1>4
<1>6. v[j] < Dos(j)
  BY <1>1, <1>5 DEF T
<1>7. v[m] = v[j] + Peso(x, j) /\ Peso(x, j) \in Nat /\ Peso(x, j) <= Dos(j)
  BY <1>p, <1>4, <1>5, PesoNat
<1>8. Dos(m) = 2 * Dos(j) /\ Dos(j) \in Nat /\ v[j] \in Nat
  BY <1>p, <1>4, <1>5, DosBase
<1> QED
  BY <1>2, <1>6, <1>7, <1>8

\* y has the bits of x from n on, at 0; it has the lowest n.
Bajan(y, x, n, N) == \A i \in Nat : i < N - n => (i \in y <=> i + n \in x)
Coinciden(y, x, n) == \A i \in Nat : i < n => (i \in y <=> i \in x)

\* The bits from n on, moved down to 0, are multiplied by 2^n.
LEMMA SumasPartidas ==
  ASSUME NEW N \in Nat, NEW x, NEW v \in [0 .. N -> Nat], Sumando(v, x, N),
         NEW y, NEW u \in [0 .. N -> Nat], Sumando(u, y, N),
         NEW n \in Nat, n <= N,
         Bajan(y, x, n, N)
  PROVE  \A k \in 0 .. N - n : v[n + k] = v[n] + Dos(n) * u[k]
<1>p. /\ v[0] = 0
      /\ \A k \in Nat : k + 1 <= N => v[k + 1] = v[k] + Peso(x, k)
      /\ \A k \in Nat : k <= N => v[k] \in Nat
  BY Pesos
<1> DEFINE T == {k \in 0 .. N - n : v[n + k] # v[n] + Dos(n) * u[k]}
<1> SUFFICES ASSUME T # {} PROVE FALSE
  OBVIOUS
<1>0. T \subseteq Nat
  OBVIOUS
<1> HIDE DEF T
<1>1. PICK m \in T : \A k \in T : m <= k
  BY <1>0, Minimo
<1>2. m \in 0 .. N - n /\ v[n + m] # v[n] + Dos(n) * u[m]
  BY <1>1 DEF T
<1>u. u[0] = 0
  BY DEF Sumando
<1>3. m # 0
  <2>1. Dos(n) \in Nat /\ v[n] \in Nat
    BY <1>p, DosBase
  <2>2. Dos(n) * 0 = 0 /\ n + 0 = n /\ v[n] + 0 = v[n]
    BY <2>1
  <2> QED
    BY <1>u, <1>2, <2>2
<1>4. PICK j \in Nat : m = j + 1
  BY <1>2, <1>3, m - 1 \in Nat, m = (m - 1) + 1
<1>5. j < N - n /\ j \in 0 .. N - n /\ ~(m <= j) /\ j \in 0 .. N
  BY <1>2, <1>4
<1>6. v[n + j] = v[n] + Dos(n) * u[j]
  BY <1>1, <1>5 DEF T
<1>7. u[m] = u[j] + Peso(y, j)
  <2>1. m \in 0 .. N /\ m # 0 /\ m - 1 = j
    BY <1>2, <1>4
  <2> QED
    BY <2>1 DEF Sumando
<1>8. v[n + m] = v[n + j] + Peso(x, n + j)
  <2>1. n + j \in Nat /\ (n + j) + 1 <= N /\ n + m = (n + j) + 1
    BY <1>4, <1>5
  <2> QED
    BY <1>p, <2>1
<1>9. Peso(x, n + j) = Dos(n) * Peso(y, j)
  <2>1. j \in y <=> n + j \in x
    <3>1. j + n = n + j
      BY <1>4
    <3> QED
      BY <1>5, <3>1 DEF Bajan
  <2>2. Dos(n + j) = Dos(n) * Dos(j)
    BY DosSuma
  <2>3. Dos(n) * 0 = 0
    BY DosBase
  <2> QED
    BY <2>1, <2>2, <2>3 DEF Peso
<1> DEFINE d == Dos(n)
           a == u[j]
           p == Peso(y, j)
<1>10. d \in Nat /\ a \in Nat /\ p \in Nat /\ v[n] \in Nat
  BY <1>p, <1>5, DosBase, PesoNat
<1>11. d * (a + p) = d * a + d * p /\ d * a \in Nat /\ d * p \in Nat
  <2> HIDE DEF d, a, p
  <2> QED
    BY <1>10
<1>12. v[n + m] = (v[n] + d * a) + d * p
  BY <1>6, <1>8, <1>9
<1>13. v[n + m] = v[n] + d * (a + p)
  <2> HIDE DEF d, a, p
  <2> QED
    BY <1>10, <1>11, <1>12
<1> QED
  BY <1>2, <1>7, <1>13

\* Bits that are not set add nothing.
LEMMA SumasSinMas ==
  ASSUME NEW N \in Nat, NEW x, NEW v \in [0 .. N -> Nat], Sumando(v, x, N),
         NEW n \in Nat, n <= N,
         \A i \in Nat : n <= i /\ i < N => i \notin x
  PROVE  v[N] = v[n]
<1>p. /\ v[0] = 0
      /\ \A k \in Nat : k + 1 <= N => v[k + 1] = v[k] + Peso(x, k)
      /\ \A k \in Nat : k <= N => v[k] \in Nat
  BY Pesos
<1> DEFINE T == {k \in 0 .. N - n : v[n + k] # v[n]}
<1>1. T = {}
  <2> SUFFICES ASSUME T # {} PROVE FALSE
    OBVIOUS
  <2>0. T \subseteq Nat
    OBVIOUS
  <2> HIDE DEF T
  <2>1. PICK m \in T : \A k \in T : m <= k
    BY <2>0, Minimo
  <2>2. m \in 0 .. N - n /\ v[n + m] # v[n]
    BY <2>1 DEF T
  <2>3. m # 0
    BY <2>2
  <2>4. PICK j \in Nat : m = j + 1
    BY <2>2, <2>3, m - 1 \in Nat, m = (m - 1) + 1
  <2>5. j < N - n /\ j \in 0 .. N - n /\ ~(m <= j)
    BY <2>2, <2>4
  <2>6. v[n + j] = v[n]
    BY <2>1, <2>5 DEF T
  <2>7. n + j \in Nat /\ (n + j) + 1 <= N /\ n + m = (n + j) + 1 /\ n <= n + j /\ n + j < N
    BY <2>4, <2>5
  <2>8. v[n + m] = v[n + j] + Peso(x, n + j) /\ Peso(x, n + j) = 0
    <3>1. n + j \notin x
      BY <2>7
    <3>2. v[n + m] = v[n + j] + Peso(x, n + j)
      BY <1>p, <2>7
    <3> QED
      BY <3>1, <3>2 DEF Peso
  <2>9. v[n + j] \in Nat
    <3>1. n + j <= N
      BY <2>7
    <3> QED
      BY <1>p, <2>7, <3>1
  <2> QED
    BY <2>2, <2>6, <2>8, <2>9
<1>2. N - n \in 0 .. N - n /\ n + (N - n) = N
  OBVIOUS
<1>3. v[n + (N - n)] = v[n]
  BY <1>1, <1>2
<1> HIDE DEF T
<1> QED
  BY <1>2, <1>3

\* The lowest n bits decide the lowest n sums.
LEMMA SumasIguales ==
  ASSUME NEW N \in Nat, NEW x, NEW v \in [0 .. N -> Nat], Sumando(v, x, N),
         NEW y, NEW u \in [0 .. N -> Nat], Sumando(u, y, N),
         NEW n \in Nat, n <= N,
         Coinciden(y, x, n)
  PROVE  u[n] = v[n]
<1>p. /\ v[0] = 0
      /\ \A k \in Nat : k + 1 <= N => v[k + 1] = v[k] + Peso(x, k)
      /\ \A k \in Nat : k <= N => v[k] \in Nat
  BY Pesos
<1> DEFINE T == {k \in 0 .. n : u[k] # v[k]}
<1>1. T = {}
  <2> SUFFICES ASSUME T # {} PROVE FALSE
    OBVIOUS
  <2>0. T \subseteq Nat
    OBVIOUS
  <2> HIDE DEF T
  <2>1. PICK m \in T : \A k \in T : m <= k
    BY <2>0, Minimo
  <2>2. m \in 0 .. n /\ u[m] # v[m]
    BY <2>1 DEF T
  <2>3. m # 0
    BY <1>p, <2>2 DEF Sumando
  <2>4. PICK j \in Nat : m = j + 1
    BY <2>2, <2>3, m - 1 \in Nat, m = (m - 1) + 1
  <2>5. j < n /\ j \in 0 .. n /\ ~(m <= j) /\ j + 1 <= N
    BY <2>2, <2>4
  <2>6. u[j] = v[j]
    BY <2>1, <2>5 DEF T
  <2>7. u[m] = u[j] + Peso(y, j)
    <3>1. m \in 0 .. N /\ m # 0 /\ m - 1 = j
      BY <2>2, <2>4
    <3> QED
      BY <3>1 DEF Sumando
  <2>8. v[m] = v[j] + Peso(x, j)
    BY <1>p, <2>4, <2>5
  <2>9. Peso(x, j) = Peso(y, j)
    BY <2>5 DEF Peso, Coinciden
  <2> QED
    BY <2>2, <2>6, <2>7, <2>8, <2>9
<1>2. n \in 0 .. n
  OBVIOUS
<1> QED
  BY <1>1, <1>2

\* The function that a recursive definition of the number of x chooses.
SumaElegida(x, N) ==
  CHOOSE g : g = [k \in 0 .. N |-> IF k = 0 THEN 0
                                   ELSE g[k - 1] + (IF k - 1 \in x THEN 2^(k - 1) ELSE 0)]

\* It is the sum of the weights: there is such a function, and any other has
\* the same values.
LEMMA ElegidaSuma ==
  ASSUME NEW N \in Nat, NEW x
  PROVE  SumaElegida(x, N) \in [0 .. N -> Nat] /\ Sumando(SumaElegida(x, N), x, N)
<1> DEFINE f == SumaElegida(x, N)
<1>2. PICK g \in [0 .. N -> Nat] : Sumando(g, x, N)
  BY HaySuma
<1>3. g = [k \in 0 .. N |-> IF k = 0 THEN 0 ELSE g[k - 1] + (IF k - 1 \in x THEN 2^(k - 1) ELSE 0)]
  BY <1>2 DEF Sumando, Peso, Dos
<1>4. f = [k \in 0 .. N |-> IF k = 0 THEN 0 ELSE f[k - 1] + (IF k - 1 \in x THEN 2^(k - 1) ELSE 0)]
  BY <1>3 DEF SumaElegida
<1> HIDE DEF f
<1>5. Sumando(f, x, N)
  BY <1>4 DEF Sumando, Peso, Dos
<1>6. \A k \in 0 .. N : f[k] \in Nat
  <2> DEFINE T == {k \in 0 .. N : f[k] \notin Nat}
  <2> SUFFICES ASSUME T # {} PROVE FALSE
    OBVIOUS
  <2>0. T \subseteq Nat
    OBVIOUS
  <2> HIDE DEF T
  <2>1. PICK m \in T : \A n \in T : m <= n
    BY <2>0, Minimo
  <2>2. m \in 0 .. N /\ f[m] \notin Nat
    BY <2>1 DEF T
  <2>3. m # 0
    BY <1>5, <2>2 DEF Sumando
  <2>4. m - 1 \in 0 .. N /\ m - 1 \in Nat /\ ~(m <= m - 1)
    BY <2>2, <2>3
  <2>5. f[m - 1] \in Nat
    BY <2>1, <2>4 DEF T
  <2>6. f[m] = f[m - 1] + Peso(x, m - 1) /\ Peso(x, m - 1) \in Nat
    BY <1>5, <2>2, <2>3, <2>4, PesoNat DEF Sumando
  <2> QED
    BY <2>2, <2>5, <2>6
<1>7. f \in [0 .. N -> Nat]
  BY <1>4, <1>6
<1> QED
  BY <1>5, <1>7 DEF f

-----------------------------------------------------------------------------
\* Sums, complements and quotients of numbers, by their bits.

\* The bits of s and of the carries c are those of an adder given x and y.
Sumador(s, c, x, y, N) ==
  /\ 0 \notin c
  /\ \A k \in Nat : k < N =>
       /\ (k \in s) <=> ((k \in x) <=> ((k \in y) <=> (k \in c)))
       /\ (k + 1 \in c) <=> \/ k \in x /\ k \in y
                            \/ k \in c /\ (k \in x \/ k \in y)

\* An adder adds: what its lowest k bits leave out is the carry.
LEMMA SumadorSuma ==
  ASSUME NEW N \in Nat, NEW x, NEW y, NEW s, NEW c, Sumador(s, c, x, y, N)
  PROVE  \A k \in 0 .. N : SumaElegida(x, N)[k] + SumaElegida(y, N)[k] =
                             SumaElegida(s, N)[k] + Peso(c, k)
<1> DEFINE v == SumaElegida(x, N)
           u == SumaElegida(y, N)
           z == SumaElegida(s, N)
<1>v. v \in [0 .. N -> Nat] /\ Sumando(v, x, N)
  BY ElegidaSuma
<1>u. u \in [0 .. N -> Nat] /\ Sumando(u, y, N)
  BY ElegidaSuma
<1>w. z \in [0 .. N -> Nat] /\ Sumando(z, s, N)
  BY ElegidaSuma
<1> SUFFICES \A k \in 0 .. N : v[k] + u[k] = z[k] + Peso(c, k)
  OBVIOUS
<1> HIDE DEF v, u, z
<1>x. /\ v[0] = 0
      /\ \A k \in Nat : k + 1 <= N => v[k + 1] = v[k] + Peso(x, k)
      /\ \A k \in Nat : k <= N => v[k] \in Nat
  BY <1>v, Pesos
<1>y. /\ u[0] = 0
      /\ \A k \in Nat : k + 1 <= N => u[k + 1] = u[k] + Peso(y, k)
      /\ \A k \in Nat : k <= N => u[k] \in Nat
  BY <1>u, Pesos
<1>z. /\ z[0] = 0
      /\ \A k \in Nat : k + 1 <= N => z[k + 1] = z[k] + Peso(s, k)
      /\ \A k \in Nat : k <= N => z[k] \in Nat
  BY <1>w, Pesos
<1> DEFINE T == {k \in 0 .. N : v[k] + u[k] # z[k] + Peso(c, k)}
<1> SUFFICES ASSUME T # {} PROVE FALSE
  OBVIOUS
<1>0. T \subseteq Nat
  OBVIOUS
<1> HIDE DEF T
<1>1. PICK m \in T : \A k \in T : m <= k
  BY <1>0, Minimo
<1>2. m \in 0 .. N /\ v[m] + u[m] # z[m] + Peso(c, m)
  BY <1>1 DEF T
<1>3. m # 0
  <2>1. v[0] = 0 /\ u[0] = 0 /\ z[0] = 0 /\ Peso(c, 0) = 0
    BY <1>x, <1>y, <1>z DEF Peso, Sumador
  <2> QED
    BY <1>2, <2>1
<1>4. PICK j \in Nat : m = j + 1
  BY <1>2, <1>3, m - 1 \in Nat, m = (m - 1) + 1
<1>5. j + 1 <= N /\ j \in 0 .. N /\ ~(m <= j) /\ j < N
  BY <1>2, <1>4
<1>6. v[j] + u[j] = z[j] + Peso(c, j)
  BY <1>1, <1>5 DEF T
<1>7. v[m] = v[j] + Peso(x, j) /\ v[j] \in Nat
  BY <1>x, <1>4, <1>5
<1>8. u[m] = u[j] + Peso(y, j) /\ u[j] \in Nat
  BY <1>y, <1>4, <1>5
<1>9. z[m] = z[j] + Peso(s, j) /\ z[j] \in Nat
  BY <1>z, <1>4, <1>5
<1>10. Dos(m) = 2 * Dos(j) /\ Dos(j) \in Nat
  BY <1>4, DosBase
<1>11. /\ (j \in s) <=> ((j \in x) <=> ((j \in y) <=> (j \in c)))
       /\ (m \in c) <=> \/ j \in x /\ j \in y
                        \/ j \in c /\ (j \in x \/ j \in y)
  BY <1>4, <1>5 DEF Sumador
<1> DEFINE px == Peso(x, j)
           py == Peso(y, j)
           ps == Peso(s, j)
           pc == Peso(c, j)
           pm == Peso(c, m)
           d == Dos(j)
<1>12. px + py + pc = ps + pm
  <2>1. px = IF j \in x THEN d ELSE 0
    BY DEF Peso
  <2>2. py = IF j \in y THEN d ELSE 0
    BY DEF Peso
  <2>3. ps = IF j \in s THEN d ELSE 0
    BY DEF Peso
  <2>4. pc = IF j \in c THEN d ELSE 0
    BY DEF Peso
  <2>5. pm = IF m \in c THEN 2 * d ELSE 0
    BY <1>10 DEF Peso
  <2>6. d \in Nat
    BY <1>10
  <2> HIDE DEF px, py, ps, pc, pm, d
  <2>7. CASE j \in x /\ j \in y
    BY <1>11, <2>1, <2>2, <2>3, <2>4, <2>5, <2>6, <2>7
  <2>8. CASE j \notin x /\ j \notin y
    BY <1>11, <2>1, <2>2, <2>3, <2>4, <2>5, <2>6, <2>8
  <2>9. CASE ~(j \in x <=> j \in y)
    BY <1>11, <2>1, <2>2, <2>3, <2>4, <2>5, <2>6, <2>9
  <2> QED
    BY <2>7, <2>8, <2>9
<1>13. px \in Nat /\ py \in Nat /\ ps \in Nat /\ pc \in Nat /\ pm \in Nat
  BY <1>4, PesoNat
<1> HIDE DEF px, py, ps, pc, pm, d
<1>14. v[m] = v[j] + px /\ u[m] = u[j] + py /\ z[m] = z[j] + ps /\ v[j] + u[j] = z[j] + pc
  BY <1>6, <1>7, <1>8, <1>9 DEF px, py, ps, pc
<1> DEFINE vj == v[j]
           uj == u[j]
           zj == z[j]
<1>15. v[m] + u[m] = z[m] + pm
  <2>1. vj \in Nat /\ uj \in Nat /\ zj \in Nat
    BY <1>7, <1>8, <1>9
  <2>2. v[m] = vj + px /\ u[m] = uj + py /\ z[m] = zj + ps /\ vj + uj = zj + pc
    BY <1>14
  <2> HIDE DEF vj, uj, zj
  <2>3. (vj + px) + (uj + py) = (zj + ps) + pm
    BY <1>12, <1>13, <2>1, <2>2
  <2> QED
    BY <2>2, <2>3
<1> QED
  BY <1>2, <1>15 DEF pm

\* A number and that of the complementary bits add up to the number of all ones.
LEMMA SumasComplementarias ==
  ASSUME NEW N \in Nat, NEW x, NEW v \in [0 .. N -> Nat], Sumando(v, x, N),
         NEW y, NEW u \in [0 .. N -> Nat], Sumando(u, y, N),
         \A k \in Nat : k < N => (k \in y <=> k \notin x)
  PROVE  \A k \in 0 .. N : v[k] + u[k] = Dos(k) - 1
<1>x. /\ v[0] = 0
      /\ \A k \in Nat : k + 1 <= N => v[k + 1] = v[k] + Peso(x, k)
      /\ \A k \in Nat : k <= N => v[k] \in Nat
  BY Pesos
<1>y. /\ u[0] = 0
      /\ \A k \in Nat : k + 1 <= N => u[k + 1] = u[k] + Peso(y, k)
      /\ \A k \in Nat : k <= N => u[k] \in Nat
  BY Pesos
<1> DEFINE T == {k \in 0 .. N : v[k] + u[k] # Dos(k) - 1}
<1> SUFFICES ASSUME T # {} PROVE FALSE
  OBVIOUS
<1>0. T \subseteq Nat
  OBVIOUS
<1> HIDE DEF T
<1>1. PICK m \in T : \A k \in T : m <= k
  BY <1>0, Minimo
<1>2. m \in 0 .. N /\ v[m] + u[m] # Dos(m) - 1
  BY <1>1 DEF T
<1>3. m # 0
  <2>1. v[0] = 0 /\ u[0] = 0
    BY DEF Sumando
  <2> QED
    BY <1>2, <2>1, DosBase
<1>4. PICK j \in Nat : m = j + 1
  BY <1>2, <1>3, m - 1 \in Nat, m = (m - 1) + 1
<1>5. j + 1 <= N /\ j \in 0 .. N /\ ~(m <= j) /\ j < N
  BY <1>2, <1>4
<1>6. v[j] + u[j] = Dos(j) - 1
  BY <1>1, <1>5 DEF T
<1>7. v[m] = v[j] + Peso(x, j) /\ v[j] \in Nat
  BY <1>x, <1>4, <1>5
<1>8. u[m] = u[j] + Peso(y, j) /\ u[j] \in Nat
  BY <1>y, <1>4, <1>5
<1>9. Dos(m) = 2 * Dos(j) /\ Dos(j) \in Nat
  BY <1>4, DosBase
<1>10. Peso(x, j) + Peso(y, j) = Dos(j)
  BY <1>5, <1>9 DEF Peso
<1>11. Peso(x, j) \in Nat /\ Peso(y, j) \in Nat
  BY PesoNat
<1>12. v[m] + u[m] = Dos(m) - 1
  <2> DEFINE vj == v[j]
             uj == u[j]
             px == Peso(x, j)
             py == Peso(y, j)
             d == Dos(j)
  <2>1. /\ vj \in Nat /\ uj \in Nat /\ px \in Nat /\ py \in Nat /\ d \in Nat
        /\ v[m] = vj + px /\ u[m] = uj + py /\ Dos(m) = 2 * d
        /\ vj + uj = d - 1 /\ px + py = d
    BY <1>6, <1>7, <1>8, <1>9, <1>10, <1>11
  <2> HIDE DEF vj, uj, px, py, d
  <2>2. (vj + px) + (uj + py) = 2 * d - 1
    BY <2>1
  <2> QED
    BY <2>1, <2>2
<1> QED
  BY <1>2, <1>12

\* Division, of any integer.
LEMMA DivisionEntera ==
  \A n, q \in Int, d, r \in Nat : r < d /\ n = q * d + r => n \div d = q /\ n % d = r
<1> SUFFICES ASSUME NEW n \in Int, NEW q \in Int, NEW d \in Nat, NEW r \in Nat,
                    r < d, n = q * d + r
             PROVE  n \div d = q /\ n % d = r
  OBVIOUS
<1> QED
  OBVIOUS

\* The bits of a number, taken by division, write it: what those below k leave
\* is the quotient by 2^k.
LEMMA SumaDeBits ==
  ASSUME NEW N \in Nat, NEW n \in Nat, NEW x, NEW v \in [0 .. N -> Nat], Sumando(v, x, N),
         \A k \in Nat : k < N => (k \in x <=> (n \div Dos(k)) % 2 = 1)
  PROVE  \A k \in 0 .. N : n = v[k] + Dos(k) * (n \div Dos(k))
<1> DEFINE T == {k \in 0 .. N : n # v[k] + Dos(k) * (n \div Dos(k))}
<1> SUFFICES ASSUME T # {} PROVE FALSE
  OBVIOUS
<1>0. T \subseteq Nat
  OBVIOUS
<1> HIDE DEF T
<1>1. PICK m \in T : \A k \in T : m <= k
  BY <1>0, Minimo
<1>2. m \in 0 .. N /\ n # v[m] + Dos(m) * (n \div Dos(m))
  BY <1>1 DEF T
<1>3. m # 0
  <2>1. v[0] = 0 /\ Dos(0) = 1
    BY DosBase DEF Sumando
  <2>2. n \div 1 = n /\ n = 0 + 1 * n
    OBVIOUS
  <2>3. m = 0 => v[m] + Dos(m) * (n \div Dos(m)) = 0 + 1 * (n \div 1)
    BY <2>1
  <2> QED
    BY <1>2, <2>2, <2>3
<1>4. PICK j \in Nat : m = j + 1
  BY <1>2, <1>3, m - 1 \in Nat, m = (m - 1) + 1
<1>5. j + 1 <= N /\ j \in 0 .. N /\ ~(m <= j) /\ j < N
  BY <1>2, <1>4
<1> DEFINE d == Dos(j)
           q == n \div d
           b == q % 2
           h == q \div 2
<1>6. n = v[j] + d * q
  BY <1>1, <1>5 DEF T
<1>7. v[m] = v[j] + Peso(x, j) /\ v[j] \in Nat /\ v[j] < Dos(j)
  BY SMTT(60), <1>4, <1>5, Pesos, SumasAcotadas
<1>8. Dos(m) = 2 * d /\ d \in Nat /\ d >= 1
  BY <1>4, DosBase, DosCrece
<1>9. q \in Nat
  <2> HIDE DEF d
  <2> QED
    BY SMTT(60), <1>8
<1>10. b \in {0, 1} /\ h \in Nat /\ q = 2 * h + b
  <2> HIDE DEF q
  <2> QED
    BY <1>9
<1>11. Peso(x, j) = b * d
  <2>1. j \in x <=> b = 1
    BY <1>5
  <2> HIDE DEF b
  <2>2. CASE b = 1
    BY <1>8, <2>1, <2>2 DEF Peso
  <2>3. CASE b = 0
    BY <1>8, <2>1, <2>3 DEF Peso
  <2> QED
    BY <1>10, <2>2, <2>3
<1> DEFINE r == v[j] + b * d
           c == d + d
           vj == v[j]
<1>12. n = h * c + r /\ r < c /\ r \in Nat /\ c \in Nat /\ c = 2 * d
  <2>1. vj \in Nat /\ vj < d /\ n = vj + d * q
    BY <1>6, <1>7
  <2> HIDE DEF d, q, b, h, vj
  <2>2. d * (2 * h + b) = h * (d + d) + b * d
    BY <1>8, <1>10
  <2>3. n = h * c + (vj + b * d)
    <3>1. n = vj + (h * (d + d) + b * d)
      BY <1>10, <2>1, <2>2
    <3> DEFINE e == h * (d + d)
               f == b * d
    <3>2. e \in Nat /\ f \in Nat
      BY <1>8, <1>10
    <3> HIDE DEF e, f
    <3>3. vj + (e + f) = e + (vj + f)
      BY <2>1, <3>2
    <3> QED
      BY <3>1, <3>3 DEF e, f
  <2>4. vj + b * d < c /\ vj + b * d \in Nat /\ c \in Nat /\ c = 2 * d
    <3>1. CASE b = 0
      BY <1>8, <2>1, <3>1
    <3>2. CASE b = 1
      BY <1>8, <2>1, <3>2
    <3> QED
      BY <1>10, <3>1, <3>2
  <2> QED
    BY <2>3, <2>4 DEF vj
<1>13. v[m] = r
  BY <1>7, <1>11
<1> HIDE DEF d, q, b, h, r, c
<1>14. n \div c = h
  BY <1>10, <1>12, Division
<1>15. Dos(m) = c
  BY <1>8, <1>12
<1>16. n = r + c * h
  BY <1>10, <1>12
<1> QED
  BY <1>2, <1>13, <1>14, <1>15, <1>16

\* And an integer that is, but for multiples of 2^N, the number that x writes
\* has by division the bits of x.
LEMMA BitsDeSuma ==
  ASSUME NEW N \in Nat, NEW x, NEW v \in [0 .. N -> Nat], Sumando(v, x, N),
         NEW n \in Int, NEW q \in Int, n = q * Dos(N) + v[N],
         NEW k \in Nat, k < N
  PROVE  k \in x <=> (n \div Dos(k)) % 2 = 1
<1> DEFINE y == {j \in Nat : j + (k + 1) \in x}
<1>1. PICK u \in [0 .. N -> Nat] : Sumando(u, y, N)
  BY HaySuma
<1>2. k + 1 \in Nat /\ k + 1 <= N /\ N - (k + 1) \in 0 .. N - (k + 1) /\ N - (k + 1) \in 0 .. N
  OBVIOUS
<1>3. Bajan(y, x, k + 1, N)
  BY DEF Bajan
<1> HIDE DEF y
<1> DEFINE m == N - (k + 1)
           d == Dos(k)
           h == u[m]
           a == v[k]
           p == Dos(m)
           b == IF k \in x THEN 1 ELSE 0
<1>4. v[(k + 1) + m] = v[k + 1] + Dos(k + 1) * h
  <2>1. \A j \in 0 .. N - (k + 1) : v[(k + 1) + j] = v[k + 1] + Dos(k + 1) * u[j]
    BY <1>1, <1>2, <1>3, SumasPartidas
  <2> QED
    BY <1>2, <2>1
<1>5. (k + 1) + m = N
  OBVIOUS
<1>16. /\ v[0] = 0
       /\ \A j \in Nat : j + 1 <= N => v[j + 1] = v[j] + Peso(x, j)
       /\ \A j \in Nat : j <= N => v[j] \in Nat
  BY Pesos
<1>6. v[k + 1] = a + Peso(x, k) /\ a \in Nat
  BY <1>2, <1>16
<1>7. a < d
  BY <1>2, SumasAcotadas, k \in 0 .. N
<1>8. d \in Nat /\ d >= 1 /\ Dos(k + 1) = 2 * d /\ p \in Nat /\ Dos(N) = (2 * d) * p
  <2>1. Dos((k + 1) + m) = Dos(k + 1) * Dos(m)
    BY <1>2, DosSuma
  <2>2. m \in Nat
    BY <1>2
  <2> HIDE DEF m
  <2>3. d \in Nat /\ d >= 1 /\ Dos(k + 1) = 2 * d /\ p \in Nat
    BY <2>2, DosBase, DosCrece
  <2>4. Dos(N) = Dos(k + 1) * p
    BY <1>5, <2>1
  <2> QED
    BY <2>3, <2>4
<1>9. Peso(x, k) = b * d /\ b \in {0, 1}
  <2>1. CASE k \in x
    BY <1>8, <2>1 DEF Peso
  <2>2. CASE k \notin x
    BY <1>8, <2>2 DEF Peso
  <2> QED
    BY <2>1, <2>2
<1>10. h \in Nat
  BY <1>1, <1>2
<1>11. v[N] = (a + b * d) + (2 * d) * h
  BY <1>4, <1>5, <1>6, <1>8, <1>9
<1> DEFINE e == b + 2 * (h + q * p)
<1>12. n = e * d + a /\ e \in Int
  <2>1. n = q * ((2 * d) * p) + ((a + b * d) + (2 * d) * h)
    BY <1>8, <1>11
  <2> HIDE DEF d, h, a, p, b
  <2>2. q * ((2 * d) * p) = (2 * (q * p)) * d
    BY <1>8
  <2>3. (2 * d) * h = (2 * h) * d
    BY <1>8, <1>10
  <2> DEFINE g == q * p
  <2>4. g \in Int
    BY <1>8
  <2>5. n = (2 * g) * d + ((a + b * d) + (2 * h) * d)
    BY <2>1, <2>2, <2>3
  <2>6. e = b + 2 * (h + g) /\ e \in Int
    BY <1>9, <1>10, <2>4
  <2> HIDE DEF g
  <2>7. (2 * g) * d + ((a + b * d) + (2 * h) * d) = (b + 2 * (h + g)) * d + a
    BY <1>6, <1>8, <1>9, <1>10, <2>4
  <2> QED
    BY <2>5, <2>6, <2>7
<1>13. e % 2 = b
  <2> DEFINE g == h + q * p
  <2>1. g \in Int
    <3> HIDE DEF h, p
    <3> QED
      BY <1>8, <1>10
  <2> HIDE DEF g, b
  <2>2. CASE b = 0
    <3>1. (2 * g) % 2 = 0 /\ 0 + 2 * g = 2 * g
      BY <2>1
    <3> QED
      BY <2>2, <3>1 DEF g
  <2>3. CASE b = 1
    <3>1. (1 + 2 * g) % 2 = 1
      BY <2>1
    <3> QED
      BY <2>3, <3>1 DEF g
  <2> QED
    BY <1>9, <2>2, <2>3
<1>14. n \div d = e
  <2> HIDE DEF d, e, a
  <2> QED
    BY <1>6, <1>7, <1>8, <1>12, DivisionEntera
<1>15. (n \div d) % 2 = b
  BY <1>13, <1>14
<1> QED
  BY <1>15
================================================================================
