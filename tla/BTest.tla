--------------------------------- MODULE BTest ---------------------------------
(***************************************************************************)
(* The test harness of "Labs individuales/lab2/btest.c": run_tests and     *)
(* test_function, one call of a puzzle and its reference per step, with    *)
(* the alarm that may ring between any two of them.                        *)
(*                                                                         *)
(* btest judges whatever bits.c it is linked with.  The order it is        *)
(* started with (its options) comes with a defect: none, which is the      *)
(* bits.c of the repository, or one puzzle that answers wrongly or does    *)
(* not return when its first argument has a certain value.                 *)
(***************************************************************************)
EXTENDS Bits, SequencesExt

CONSTANTS
  TEST_RANGE,
  Azar,        \* numbers among which random_val's are
  Ordenes,     \* options, and the defect of the solution
  MaxAlarmas   \* bound: alarms that end a test

ASSUME AzarAssumption == Azar \subseteq Int
\* 500000 in the code.  With fewer than 4 the floats do not fit in MAX_TEST_VALS.
ASSUME RangeAssumption == TEST_RANGE \in Nat /\ TEST_RANGE >= 4 /\ MaxAlarmas \in Nat \ {0}
\* main refuses a negative rating.
ASSUME OrdenesAssumption == \A o \in Ordenes : o.global_rating \in Nat

MAX_TEST_VALS == 13 * TEST_RANGE
NULL == "NULL"
SinDefecto == [en |-> NULL]

TMin == -(2^(W - 1))
TMax == 2^(W - 1) - 1
Todos == <<TMin, TMax>>
Flotante == <<1, 1>>

\* decl.c's table, which a puzzle without functions ends.
Prueba(name, args, rating, arg_ranges) ==
  [name |-> name, args |-> args, rating |-> rating, arg_ranges |-> arg_ranges]
test_set == <<
  Prueba("bitAnd", 2, 1, <<Todos, Todos>>),
  Prueba("bitXor", 2, 1, <<Todos, Todos>>),
  Prueba("negate", 1, 2, <<Todos>>),
  Prueba("byteSwap", 3, 2, <<Todos, <<0, 3>>, <<0, 3>>>>),
  Prueba("allOddBits", 1, 2, <<Todos>>),
  Prueba("bitMask", 2, 3, <<<<0, W - 1>>, <<0, W - 1>>>>),
  Prueba("conditional", 3, 3, <<Todos, Todos, Todos>>),
  Prueba("isAsciiDigit", 1, 3, <<Todos>>),
  Prueba("isNonZero", 1, 4, <<Todos>>),
  Prueba("logicalNeg", 1, 4, <<Todos>>),
  Prueba("floatNegate", 1, 2, <<Flotante>>),
  Prueba("floatAbsVal", 1, 2, <<Flotante>>),
  Prueba("floatPower2", 1, 4, <<Flotante>>) >>

\* The numbers given with -1, -2 and -3 are those that the table has for the
\* argument, which are the ones that bits.c says its puzzles are called with.
\* btest does not check it: others would be shift amounts that C leaves undefined.
ASSUME ArgumentosAssumption ==
  \A o \in Ordenes : \A n \in DOMAIN test_set : \A j \in 1 .. test_set[n].args :
    LET rango == IF test_set[n].arg_ranges[j] = Flotante THEN Todos ELSE test_set[n].arg_ranges[j]
    IN  o.test_fname \in {NULL, test_set[n].name} /\ j \in DOMAIN o.argval =>
          /\ o.argval[j] \in Int
          /\ rango[1] <= o.argval[j] /\ o.argval[j] <= rango[2]

VARIABLES
  orden,       \* the options and the defect, as main leaves them
  i,           \* index in test_set
  pc,
  vals,        \* arg_test_vals, as far as test_counts says
  probadas,    \* argument tuples tried so far: a1, a2 and a3 together
  errors, points, max_points,
  informe,     \* what was printed: a puzzle and how it did
  alarma,      \* the test that set the pending alarm, 0 if none is pending
  envbuf       \* the test whose frame sigsetjmp saved last, 0 if none

vars == <<orden, i, pc, vals, probadas, errors, points, max_points, informe, alarma, envbuf>>

t == test_set[i]

\* The two functions of the row, called with the numbers in v, differ.
Difieren(name, v) ==
  \E x \in {OfInt(v[1])}, y \in {OfInt(v[2])}, z \in {OfInt(v[3])} :
    CASE name = "bitAnd" -> bitAnd(x, y) # test_bitAnd(x, y)
      [] name = "bitXor" -> bitXor(x, y) # test_bitXor(x, y)
      [] name = "negate" -> negate(x) # test_negate(x)
      [] name = "byteSwap" -> byteSwap(x, v[2], v[3]) # test_byteSwap(x, v[2], v[3])
      [] name = "allOddBits" -> allOddBits(x) # test_allOddBits(x)
      [] name = "bitMask" -> bitMask(v[1], v[2]) # test_bitMask(v[1], v[2])
      [] name = "conditional" -> conditional(x, y, z) # test_conditional(x, y, z)
      [] name = "isAsciiDigit" -> isAsciiDigit(x) # test_isAsciiDigit(x)
      [] name = "isNonZero" -> isNonZero(x) # test_isNonZero(x)
      [] name = "logicalNeg" -> logicalNeg(x) # test_logicalNeg(x)
      [] name = "floatNegate" -> floatNegate(x) # test_floatNegate(x)
      [] name = "floatAbsVal" -> floatAbsVal(x) # test_floatAbsVal(x)
      [] name = "floatPower2" -> floatPower2(v[1]) # test_floatPower2(v[1])

Falla(name, v) == orden.defecto.en = name /\ orden.defecto.valor = v[1]
Cuelga(name, v) == Falla(name, v) /\ orden.defecto.modo = "cuelga"

\* test_1_arg, test_2_arg and test_3_arg.
test_n_arg(name, v) == Difieren(name, v) \/ Falla(name, v)

-----------------------------------------------------------------------------
(***************************************************************************)
(* gen_vals                                                                *)
(***************************************************************************)

\* Mutant: the region above the largest norm too, in arrays of the same size.
Valores_float_Arriba(test_range) ==
  LET largest_norm == (2^E - 2) * 2^F
      con_signo(n) == <<n, n + TMin>>
  IN  FlattenSeq([k \in 1 .. test_range |->
            con_signo(k - 1) \o con_signo(2^F + k - 1) \o con_signo(2^F - (k - 1))
              \o con_signo(Bias * 2^F + k - 1) \o con_signo(Bias * 2^F - (k - 1))
              \o con_signo(largest_norm - (k - 1)) \o con_signo(largest_norm + k - 1)])

\* Floats, as the ints with their bits: sign | n is n + TMin.  Those of one round
\* come in another order than in the code, which nothing but a message tells.
Valores_float(test_range) ==
  LET smallest_norm == 2^F
      one == Bias * 2^F
      largest_norm == (2^E - 2) * 2^F
      inf == (2^E - 1) * 2^F
      nan == inf + 2^(F - 1)
      con_signo(n) == <<n, n + TMin>>
  IN  FlattenSeq([k \in 1 .. Min({test_range, 2^F}) |->
            con_signo(k - 1)
              \o con_signo(smallest_norm + k - 1) \o con_signo(smallest_norm - (k - 1))
              \o con_signo(one + k - 1) \o con_signo(one - (k - 1))
              \o con_signo(largest_norm - (k - 1))])
        \o con_signo(inf) \o con_signo(nan)

\* Mutant: the loop starts at 1.
Muestra_DesdeUno(min, max, azar) ==
  FlattenSeq([k \in 1 .. Len(azar) |->
    <<min + k, max - k>>
      \o (IF k >= min /\ k <= max THEN <<k>> ELSE <<>>)
      \o (IF -k >= min /\ -k <= max THEN <<-k>> ELSE <<>>)
      \o <<azar[k]>>])

\* Values near the ends of a range, around zero and at random.
Muestra(min, max, azar) ==
  FlattenSeq([k \in 1 .. Len(azar) |->
    <<min + (k - 1), max - (k - 1)>>
      \o (IF k - 1 >= min /\ k - 1 <= max THEN <<k - 1>> ELSE <<>>)
      \o (IF 1 - k >= min /\ 1 - k <= max THEN <<1 - k>> ELSE <<>>)
      \o <<azar[k]>>])

random_val(min, max) == {v \in Azar : min <= v /\ v <= max}

\* The results gen_vals may have for argument arg, counted from 1.
gen_vals(min, max, test_range, arg) ==
  IF arg \in DOMAIN orden.argval THEN {<<orden.argval[arg]>>}
  ELSE IF min = 1 /\ max = 1 THEN {Valores_float(test_range)}
  ELSE IF max - MAX_TEST_VALS <= min THEN {[k \in 1 .. max - min + 1 |-> min + k - 1]}
  ELSE {Muestra(min, max, azar) : azar \in [1 .. test_range -> random_val(min, max)]}

\* TEST_RANGE, its square root or its cube root, rounded down, and at least 1.
arg_test_range(args) ==
  LET potencia(r) == CASE args = 1 -> r [] args = 2 -> r * r [] args = 3 -> r * r * r
  IN  Max({r \in 1 .. TEST_RANGE : potencia(r) <= TEST_RANGE})

\* The arrays that the loop over the arguments may fill.
Tablas(p) ==
  LET de == [j \in 1 .. p.args |->
        gen_vals(p.arg_ranges[j][1], p.arg_ranges[j][2], arg_test_range(p.args), j)]
  IN  {s \in [1 .. p.args -> UNION {de[j] : j \in 1 .. p.args}] :
         \A j \in 1 .. p.args : s[j] \in de[j]}

Cuenta(j) == IF j <= t.args THEN Len(vals[j]) ELSE 1

\* The tuple that the nested loops reach after n others; a puzzle with fewer
\* than three arguments ignores the last ones.
Tupla(n) ==
  LET indice == <<n \div (Cuenta(2) * Cuenta(3)), (n \div Cuenta(3)) % Cuenta(2), n % Cuenta(3)>>
  IN  [j \in 1 .. 3 |-> IF j <= t.args THEN vals[j][indice[j] + 1] ELSE 0]

-----------------------------------------------------------------------------

Init ==
  /\ orden \in Ordenes
  /\ i = 1
  /\ pc = "run_tests"
  /\ vals = <<>>
  /\ probadas = 0
  /\ errors = 0 /\ points = 0 /\ max_points = 0
  /\ informe = {}
  /\ alarma = 0 /\ envbuf = 0

\* The head of run_tests' loop: past the end of the table, or at a puzzle that
\* -f leaves out.
Termina ==
  /\ pc = "run_tests" /\ i > Len(test_set)
  /\ pc' = "fin"
  /\ UNCHANGED <<orden, i, vals, probadas, errors, points, max_points, informe, alarma, envbuf>>

Salta ==
  /\ pc = "run_tests" /\ i <= Len(test_set)
  /\ orden.test_fname \notin {NULL, t.name}
  /\ i' = i + 1
  /\ UNCHANGED <<orden, pc, vals, probadas, errors, points, max_points, informe, alarma, envbuf>>

\* test_function up to sigsetjmp.
Genera ==
  /\ pc = "run_tests" /\ i <= Len(test_set)
  /\ orden.test_fname \in {NULL, t.name}
  /\ vals' \in Tablas(t)
  /\ pc' = IF orden.con_limite THEN "sigsetjmp" ELSE "probar"
  /\ UNCHANGED <<orden, i, probadas, errors, points, max_points, informe, alarma, envbuf>>

\* Mutant: the place to return to is saved by the first test only.
Sigsetjmp_UnaVez ==
  /\ pc = "sigsetjmp"
  /\ envbuf' = IF envbuf = 0 THEN i ELSE envbuf
  /\ pc' = "alarm"
  /\ UNCHANGED <<orden, i, vals, probadas, errors, points, max_points, informe, alarma>>

Sigsetjmp ==
  /\ pc = "sigsetjmp"
  /\ envbuf' = i
  /\ pc' = "alarm"
  /\ UNCHANGED <<orden, i, vals, probadas, errors, points, max_points, informe, alarma>>

\* Mutant: the alarm is set once for the whole program.
Alarm_UnaVez ==
  /\ pc = "alarm"
  /\ alarma' = IF i = 1 THEN i ELSE alarma
  /\ pc' = "probar"
  /\ UNCHANGED <<orden, i, vals, probadas, errors, points, max_points, informe, envbuf>>

\* The new alarm takes the place of one that is still pending.
Alarm ==
  /\ pc = "alarm"
  /\ alarma' = i
  /\ pc' = "probar"
  /\ UNCHANGED <<orden, i, vals, probadas, errors, points, max_points, informe, envbuf>>

rating == IF orden.global_rating # 0 THEN orden.global_rating ELSE t.rating

\* Mutant: a puzzle that failed keeps its points.
Vuelve_ConPuntos(terrors, como) ==
  /\ errors' = errors + terrors
  /\ points' = points + rating
  /\ max_points' = max_points + rating
  /\ informe' = informe \cup {<<t.name, como>>}
  /\ i' = i + 1
  /\ vals' = <<>> /\ probadas' = 0
  /\ pc' = "run_tests"
  /\ UNCHANGED <<orden, envbuf>>

\* test_function returns and run_tests adds up.  A pending alarm stays.
Vuelve(terrors, como) ==
  /\ errors' = errors + terrors
  /\ points' = points + (IF terrors = 0 THEN rating ELSE 0)
  /\ max_points' = max_points + rating
  /\ informe' = informe \cup {<<t.name, como>>}
  /\ i' = i + 1
  /\ vals' = <<>> /\ probadas' = 0
  /\ pc' = "run_tests"
  /\ UNCHANGED <<orden, envbuf>>

EsUltima == probadas + 1 = Cuenta(1) * Cuenta(2) * Cuenta(3)

\* One round of the innermost loop: the first error ends the test.
Compara ==
  /\ pc = "probar"
  /\ \E v \in {Tupla(probadas)} : \E error \in {test_n_arg(t.name, v)} :
    /\ ~Cuelga(t.name, v)
    /\ \/ error /\ Vuelve(1, "mal")
       \/ ~error /\ EsUltima /\ Vuelve(0, "bien")
       \/ /\ ~error /\ ~EsUltima
          /\ probadas' = probadas + 1
          /\ UNCHANGED <<orden, i, pc, vals, errors, points, max_points, informe, envbuf>>
    /\ UNCHANGED alarma

\* timeout_handler: the jump goes to the frame in envbuf, which is there only
\* while the test that saved it runs.
Suena ==
  /\ alarma # 0 /\ pc \in {"run_tests", "sigsetjmp", "alarm", "probar"}
  /\ Cardinality({r \in informe : r[2] = "tiempo"}) < MaxAlarmas
  /\ alarma' = 0
  /\ \/ /\ pc \in {"alarm", "probar"} /\ envbuf = i
        /\ Vuelve(1, "tiempo")
     \/ /\ ~(pc \in {"alarm", "probar"} /\ envbuf = i)
        /\ pc' = "indefinido"
        /\ UNCHANGED <<orden, i, vals, probadas, errors, points, max_points, informe, envbuf>>

Next ==
  \/ Termina \/ Salta \/ Genera \/ Sigsetjmp \/ Alarm
  \/ Compara \/ Suena

Spec == Init /\ [][Next]_vars

\* The program runs on while it can, and an alarm that nothing else comes before rings.
FairSpec == Spec /\ WF_vars(Next)
================================================================================
