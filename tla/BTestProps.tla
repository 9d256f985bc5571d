------------------------------- MODULE BTestProps -------------------------------
(***************************************************************************)
(* What btest must get right, and what it shows about bits.c.              *)
(***************************************************************************)
EXTENDS BTest

\* gen_vals takes a range whole when max - MAX_TEST_VALS <= min: a range of
\* exactly MAX_TEST_VALS + 1 numbers would fill the array and one place more.
\* None of decl.c's has that many.
ASSUME TamanioAssumption == MAX_TEST_VALS \notin {TMax - TMin, W - 1}

\* A float's fraction is long beside its exponent, as 2^22 is beside 150 in the
\* C code: none of the floats that gen_vals makes is, read as an int, the
\* exponent of a denormal.
ASSUME PrecisionAssumption == 2^(F - 1) > Bias + F

\* Exponents of the powers of two that are denormal, and the first one that is 0.
Denormales == -(Bias + F) .. -Bias

ConDenormal == 1 \in DOMAIN orden.argval /\ orden.argval[1] \in Denormales

\* bits.c fails no test but one: floatPower2 asked, with -1, for a power that is
\* a denormal.  Every other puzzle agrees with tests.c on whatever it is given,
\* where the sums overflow too; and a puzzle with a defect is not blamed on
\* another.
VeredictoJusto ==
  \A r \in informe :
    /\ r[2] = "mal" => r[1] = orden.defecto.en \/ (r[1] = "floatPower2" /\ ConDenormal)
    /\ r[2] = "bien" => ~(r[1] = "floatPower2" /\ ConDenormal)

\* Where the values that gen_vals makes reach.  For floats, and both signs where
\* written so: zero, the smallest normalized and the largest denormalized number,
\* one, infinity and NaN.
Bordes(p) ==
  IF 1 \in DOMAIN orden.argval THEN {orden.argval[1]}
  ELSE LET min == p.arg_ranges[1][1]
           max == p.arg_ranges[1][2]
       IN  IF p.arg_ranges[1] = Flotante
           THEN {0, TMin, 2^F, 2^F - 1, Bias * 2^F, TMax - 2^F + 1, TMax - 2^F + 1 + 2^(F - 1)}
           ELSE {v \in {min, max, 0} : min <= v /\ v <= max}

\* Where they do not: the largest normalized number, 0x7f7fffff, and its
\* opposite.  gen_vals says it tests the region around it, but calls largest_norm
\* the first float of the last exponent, 0x7f000000, and goes down from there.
MayorNormal == TMax - 2^F
NoProbados == {MayorNormal, MayorNormal + TMin}

\* A puzzle that gets its points answered rightly at each of its Bordes: gen_vals
\* and the nested loops leave none of them out, and no error is lost on the way
\* to the score.
EnBordes ==
  \A n \in DOMAIN test_set :
    <<test_set[n].name, "bien">> \in informe /\ orden.defecto.en = test_set[n].name
      => orden.defecto.valor \notin Bordes(test_set[n])

\* A puzzle on floats that is wrong at the largest normalized number only is
\* never found so.
SinMayorNormal ==
  \A n \in DOMAIN test_set :
    test_set[n].arg_ranges[1] = Flotante /\ 1 \notin DOMAIN orden.argval =>
      (orden.defecto.en = test_set[n].name /\ orden.defecto.valor \in NoProbados
         => <<test_set[n].name, "mal">> \notin informe)

\* What btest detects at the borders of a puzzle's range, and the one border,
\* between the largest normalized float and infinity, where it detects nothing.
DetectaEnBordes == EnBordes /\ SinMayorNormal

\* The totals are those of the lines printed: one verdict for each puzzle
\* tested, an error for each that failed, its rating for each that did not.
PuntosCuadran ==
  LET de(como) == {n \in DOMAIN test_set : <<test_set[n].name, como>> \in informe}
      vale == [n \in DOMAIN test_set |->
                 IF orden.global_rating # 0 THEN orden.global_rating ELSE test_set[n].rating]
      probados == {n \in 1 .. i - 1 : orden.test_fname \in {NULL, test_set[n].name}}
  IN  /\ errors = Cardinality(de("mal") \cup de("tiempo"))
      /\ points = SumFunctionOnSet(vale, de("bien"))
      /\ max_points = SumFunctionOnSet(vale, probados)
      /\ Cardinality(informe) = Cardinality(probados)

\* While a puzzle runs, the alarm that may ring is its own and jumps to its own
\* test_function: an alarm left by the test before cannot end it.
SaltoASuPrueba ==
  pc = "probar" /\ orden.con_limite => alarma = i /\ envbuf = i

\* The arrays that gen_vals fills have MAX_TEST_VALS elements, which the floats
\* take up to the last when TEST_RANGE is 4, and each value is in the range
\* that decl.c gives the argument.
CabenEnRango ==
  \A j \in DOMAIN vals :
    /\ Len(vals[j]) <= MAX_TEST_VALS
    /\ j \notin DOMAIN orden.argval /\ t.arg_ranges[j] # Flotante =>
         \A k \in DOMAIN vals[j] :
           t.arg_ranges[j][1] <= vals[j][k] /\ vals[j][k] <= t.arg_ranges[j][2]

\* btest ends, whether by itself or by a jump to a frame that is gone; a puzzle
\* that never returns keeps it only with -T 0.
Acaba ==
  \/ orden.defecto # SinDefecto /\ orden.defecto.modo = "cuelga" /\ ~orden.con_limite
  \/ <>(pc \in {"fin", "indefinido"})

\* What bits.c says above floatPower2: the result is the bit representation of
\* 2.0^x, and 0 when it is too small for a denormal.
PotenciaExacta == <<"floatPower2", "mal">> \notin informe
================================================================================
