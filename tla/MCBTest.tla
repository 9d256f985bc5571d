--------------------------------- MODULE MCBTest ---------------------------------
(***************************************************************************)
(* Orders for btest: all the puzzles; one puzzle with a defect; and one    *)
(* puzzle with its arguments given, every number for the puzzles of one    *)
(* argument.                                                               *)
(***************************************************************************)
EXTENDS BTestProps

Nombre == {test_set[n].name : n \in DOMAIN test_set}
De(nombre) == test_set[CHOOSE n \in DOMAIN test_set : test_set[n].name = nombre]
MCAzar == {-77, 53}
Numeros == TMin .. TMax
Esquinas == {TMin, TMin + 1, -1, 0, 1, 48, TMax}

Orden(test_fname, argval, con_limite, global_rating, defecto) ==
  [test_fname |-> test_fname, argval |-> argval, con_limite |-> con_limite,
   global_rating |-> global_rating, defecto |-> defecto]

Todas ==
  {Orden(NULL, <<>>, l, 0, SinDefecto) : l \in BOOLEAN}
    \cup {Orden(NULL, <<>>, TRUE, 1, [en |-> "bitAnd", valor |-> 0, modo |-> "cuelga"])}

ConDefecto ==
  {Orden(n, <<>>, TRUE, 0, [en |-> n, valor |-> v, modo |-> m]) :
     n \in Nombre, v \in Esquinas \cup NoProbados \cup {3, 7, 112}, m \in {"mal", "cuelga"}}

\* The numbers that may be given for an argument: those its range allows, and
\* for a puzzle with more than one argument only some of them.
Dables(p, j) ==
  LET rango == IF p.arg_ranges[j] = Flotante THEN Todos ELSE p.arg_ranges[j]
  IN  {v \in (IF p.args = 1 \/ p.name = "bitMask" THEN Numeros ELSE Esquinas \cup 2 .. 3) :
         rango[1] <= v /\ v <= rango[2]}

ConArgumentos ==
  {Orden(n, <<v>>, TRUE, 0, SinDefecto) : n \in Nombre, v \in Numeros}

\* floatPower2 of every number.
MCPotencias == {Orden("floatPower2", <<v>>, TRUE, 0, SinDefecto) : v \in Numeros}

MCOrdenes ==
  Todas \cup ConDefecto
    \cup {o \in ConArgumentos : o.argval[1] \in Dables(De(o.test_fname), 1)}
    \cup UNION {{Orden(n, <<v, w>>, TRUE, 0, SinDefecto) :
                   v \in Dables(De(n), 1), w \in Dables(De(n), 2)} :
                n \in {m \in Nombre : De(m).args > 1}}
================================================================================
