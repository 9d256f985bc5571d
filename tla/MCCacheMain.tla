------------------------------ MODULE MCCacheMain ------------------------------
(***************************************************************************)
(* Command lines with the numbers next to 0, the least and the largest     *)
(* powers of two of a 6-bit int, whose products wrap around to a negative  *)
(* number and to 0, and sizes that only a long holds; traces of up to two  *)
(* lines, with either cut short at each piece of its text.                 *)
(***************************************************************************)
EXTENDS CacheMainProps

Numeros == {-1, 0, 1, 2, 3, 16}

MCOrdenes ==
  [argc : {5, 8}, tamanio : {-8, 0, 1, 8, 12, 16, 64, 72}, asociatividad : Numeros,
   sets : Numeros, primera : {0}, ultima : {1}]
  \cup [argc : {4}, tamanio : {8}, asociatividad : {1}, sets : {2}, primera : {0}, ultima : {0}]
  \cup [argc : {8}, tamanio : {8}, asociatividad : {1, 2}, sets : {2}, primera : {0}, ultima : {0}]

MCDirecciones == {{0, 1, 3, 5}, Bit}

\* Pieces of text: numbers of one and of two digits, one of them with a letter
\* that %i does not take.
Num(cifras) == [signo |-> "cifras", cifras |-> cifras]
Car(signo) == [signo |-> signo, cifras |-> <<>>]
Renglon(instruccion, dir, bytes) ==
  <<Num(<<4, 0>>), Car(":"), Car(" "), Car(instruccion), Car(" "), Num(dir), Car(" "), Num(bytes),
    Car(" "), Num(<<0>>), Car(" ")>>

Lectura == Renglon("R", <<2, 12>>, <<4>>)
Escritura == Renglon("W", <<3, 15>>, <<1, 0>>)

\* A line that lost its end but not its newline.
Cortada(linea, n) ==
  SubSeq(linea, 1, n) \o (IF linea[n].signo = " " THEN <<>> ELSE <<Car(" ")>>)

MCArchivos ==
  {<<>>, Lectura, <<Car("z")>>, Lectura \o <<Car("z")>>, Renglon("R", <<2, 12>>, <<4, 15>>) \o Escritura}
  \cup {Lectura \o SubSeq(Escritura, 1, n) : n \in 1 .. 11}
  \cup {Cortada(Lectura, n) \o Escritura : n \in 1 .. 10}
===============================================================================
