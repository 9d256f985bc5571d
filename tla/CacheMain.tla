-------------------------------- MODULE CacheMain --------------------------------
(***************************************************************************)
(* main of "Labs grupales/cachesim/alpha4.0.c": the checks on the command  *)
(* line, the allocation of the cache and its failures, the loop that reads *)
(* the trace, and what is given back before the program returns.  CacheSim *)
(* has what each access does to the lines; here an access goes as far as   *)
(* the set and the tag that the masks cut out of its address.              *)
(*                                                                         *)
(* int and uint32_t have W bits, a long is a number.                       *)
(***************************************************************************)
EXTENDS BitWords, Sequences, FiniteSetsExt

\* A piece of a trace's text: a run of hexadecimal digits, a run of white space
\* (" ", newlines too) or a single other character, which is not one that a
\* number may hold: no sign and no x.
Trozo == [signo : STRING, cifras : Seq(0 .. 15)]

CONSTANTS
  INT_MAX,
  Ordenes,      \* command lines: argc, the geometry and the verbose range
  Archivos,     \* traces: the pieces of their text
  Direcciones,  \* words that a trace, or a struct never written, may hold
  MaxVueltas    \* bound: accesses are counted up to it

ASSUME IntAssumption == INT_MAX \in Nat /\ INT_MAX = 2^(W - 1) - 1
ASSUME OrdenesAssumption ==
  \A o \in Ordenes : /\ o.argc \in Nat
                     /\ \A n \in {o.tamanio, o.asociatividad, o.sets, o.primera, o.ultima} : n \in Int
ASSUME ArchivosAssumption ==
  /\ MaxVueltas \in Nat
  /\ \A a \in Archivos :
       /\ a \in Seq(Trozo) /\ Len(a) <= MaxVueltas
       /\ \A k \in 1 .. Len(a) : a[k].cifras # <<>> <=> a[k].signo = "cifras"
       /\ \A k \in 1 .. Len(a) - 1 : a[k].signo \in {"cifras", " "} => a[k + 1].signo # a[k].signo
ASSUME DireccionesAssumption == Direcciones \subseteq Word

ERROR == -1
ERROR_ARCHIVO == -2
SinAcceso == [dir |-> {}, set |-> {}, tag |-> {}]
LECTURA == "R"

VARIABLES
  pc,         \* where main is; "fin" and "excepcion" are the end
  orden,      \* the command line
  original,   \* the trace's text
  archivo,    \* what is left to read of it
  directiva,  \* of the format, the one that fscanf is at
  traza,      \* direccion_accedida and instruccion of traza_t
  acceso,     \* the last access simulated, with its set and tag
  simuladas,  \* the accesses simulated, as traza had them
  vivos,      \* what was opened or allocated and not given back
  estado      \* what main returned

vars == <<pc, orden, original, archivo, directiva, traza, acceso, simuladas, vivos, estado>>

-----------------------------------------------------------------------------
\* The value of a number kept in an int, and C's division, towards zero.
AInt(n) == ((n + INT_MAX + 1) % (2 * (INT_MAX + 1))) - (INT_MAX + 1)
Abs(n) == IF n < 0 THEN -n ELSE n
Dividir(a, b) == (IF (a < 0) = (b < 0) THEN 1 ELSE -1) * (Abs(a) \div Abs(b))

Potencias == {n \in 1 .. INT_MAX : \E i \in 0 .. W - 2 : n = 2^i}

\* The loop over the powers starts at 0, so 0 passes and a negative does not.
es_potencia_de_dos(numero) == numero \in {0} \cup Potencias

son_potencias_de_dos ==
  /\ es_potencia_de_dos(AInt(orden.tamanio))
  /\ es_potencia_de_dos(orden.asociatividad)
  /\ es_potencia_de_dos(orden.sets)

\* The product that is divided by, here and in crear_cache, is an int.
Producto == AInt(orden.asociatividad * orden.sets)

combinacion_correcta ==
  LET tamanio_cache == AInt(orden.tamanio)
      tamanio_bloque == Dividir(tamanio_cache, Producto)
  IN  tamanio_cache = AInt(AInt(tamanio_bloque * orden.asociatividad) * orden.sets)

tamanio_bloque == AInt(Dividir(orden.tamanio, Producto))

\* The integer part of a logarithm; 0 and negatives have none.
log2(n) == CHOOSE i \in 0 .. W - 1 : 2^i <= n /\ n < 2^(i + 1)

\* Mutant: one bit too few in the tag's mask.
mascara_tag_Corta(bits_tag) == Sar({W - 1}, bits_tag - 2)

\* (1 << 31) >> (bits_tag - 1), of an int.
mascara_tag(bits_tag) == Sar({W - 1}, bits_tag - 1)

\* (1 << 31) ^ ~0 has every bit but the highest, which is why the mask of no
\* bits at all has that one.
mascara_offset(bits_offset) == Not(Shl(Xor({W - 1}, Bit), bits_offset))

mascara_set(bits_tag, bits_offset) ==
  Shr(Not(mascara_tag(bits_tag) \cup mascara_offset(bits_offset)), bits_offset)

\* calcular_set_y_tag with all its shifts in range.
Partir(dir, bits_set, bits_offset) ==
  [dir |-> dir,
   set |-> Shr(dir, bits_offset) \cap mascara_set(W - (bits_set + bits_offset), bits_offset),
   tag |-> Shr(dir, bits_set + bits_offset)]

\* The shifts are in range: the block has a logarithm and the tag has a bit.
ConTag == tamanio_bloque > 0 /\ log2(orden.sets) + log2(tamanio_bloque) < W

\* Out of range they may give anything.
calcular_set_y_tag(dir) ==
  IF ConTag THEN {Partir(dir, log2(orden.sets), log2(tamanio_bloque))}
  ELSE {[dir |-> dir, set |-> s, tag |-> t] : s, t \in Direcciones}

-----------------------------------------------------------------------------
Objeto(nombre) == <<nombre, 0>>
Lineas(n) == {"lineas"} \X (0 .. n - 1)

Init ==
  /\ pc = "main"
  /\ orden \in Ordenes
  /\ original \in Archivos
  /\ archivo = original
  /\ directiva = 1
  /\ traza = [direccion_accedida |-> {}, instruccion |-> LECTURA]
  /\ acceso = SinAcceso
  /\ simuladas = <<>>
  /\ vivos = {}
  /\ estado = 0

\* main returns, with the objects of quedan never given back.
Volver(codigo, quedan) ==
  /\ pc' = "fin"
  /\ estado' = codigo
  /\ vivos' = quedan
  /\ UNCHANGED <<orden, original, archivo, directiva, traza, acceso, simuladas>>

\* main goes on at lugar with the objects of tiene.
Seguir(lugar, tiene) ==
  /\ pc' = lugar
  /\ vivos' = tiene
  /\ UNCHANGED <<orden, original, archivo, directiva, traza, acceso, simuladas, estado>>

\* The three early returns of main's checks, none of which holds anything.
Rechazar ==
  /\ pc = "main"
  /\ \/ orden.argc \notin {5, 8}
     \/ orden.tamanio <= 0
     \/ ~son_potencias_de_dos
     \/ Producto # 0 /\ ~combinacion_correcta
  /\ Volver(ERROR, {})

Admitida ==
  /\ pc = "main" /\ orden.argc \in {5, 8}
  /\ orden.tamanio > 0 /\ son_potencias_de_dos

\* combinacion_correcta divides by zero and the process gets SIGFPE.
Dividir_Cero == Admitida /\ Producto = 0 /\ Seguir("excepcion", {})

fopen ==
  /\ Admitida /\ Producto # 0 /\ combinacion_correcta
  /\ \/ Volver(ERROR_ARCHIVO, {})
     \/ Seguir("crear_cache", {Objeto("archivo")})

crear_cache ==
  /\ pc = "crear_cache"
  /\ \/ Volver(ERROR, vivos \ {Objeto("archivo")})
     \/ Seguir("crear_sets", vivos \cup {Objeto("cache")})

\* Mutant: the first set is left out of the loop that frees.
Liberar_SinPrimero(i) == Lineas(i) \ {<<"lineas", 0>>}

\* The lines that the error path frees, from the one that failed, i, to 0.
Liberar(i) == Lineas(i)

\* crear_sets: the array, then the lines of each set; those of set i may not
\* be had.  crear_cache then returns NULL and main closes the file.
crear_sets ==
  /\ pc = "crear_sets"
  /\ \/ Volver(ERROR, vivos \ {Objeto("archivo")})
     \/ \E i \in 0 .. orden.sets - 1 :
          Volver(ERROR, ((vivos \cup Lineas(i)) \ Liberar(i)) \ {Objeto("archivo")})
     \/ Seguir(IF orden.argc = 8 THEN "verboso" ELSE "simular",
               vivos \cup {Objeto("sets")} \cup Lineas(orden.sets))

\* The verbose range, and the loop's own struct.
crear_modo_verboso ==
  /\ pc = "verboso"
  /\ \/ orden.primera >= orden.ultima /\ Volver(ERROR, vivos)
     \/ orden.primera < orden.ultima /\ Seguir("mostrar", vivos)
     \/ orden.primera < orden.ultima /\ Seguir("simular", vivos \cup {Objeto("verboso")})

\* traza is on the stack, and holds what was there.
EntrarAlBucle ==
  /\ pc = "simular"
  /\ traza' \in [direccion_accedida : Direcciones, instruccion : {LECTURA, "W"}]
  /\ pc' = "fscanf"
  /\ UNCHANGED <<orden, original, archivo, directiva, acceso, simuladas, vivos, estado>>

\* Mutant: the character is read without skipping what precedes it.
FORMATO_SinEspacio == <<"%x", ":", "%c", " ", " ", "%x", " ", "%i", " ", "%x", "\n">>

\* FORMATO_LECTURA_TRAZA.
FORMATO == <<"%x", ":", " ", "%c", " ", "%x", " ", "%i", " ", "%x", "\n">>

\* Mutant: the address and the instruction pointer change places among the
\* arguments of fscanf.
Direccion_Primera == 1

\* The directive that fills direccion_accedida, the second %x.
Direccion == 6

SinBlancos(texto) == IF texto # <<>> /\ Head(texto).signo = " " THEN Tail(texto) ELSE texto

\* texto without the first n characters of a number, or without its first one.
Quitar(texto, n) ==
  LET quedan == SubSeq(Head(texto).cifras, n + 1, Len(Head(texto).cifras))
  IN  IF quedan = <<>> THEN Tail(texto)
      ELSE <<[Head(texto) EXCEPT !.cifras = quedan]>> \o Tail(texto)

\* The digits a number may have: hexadecimal for %x, and for %i octal after a
\* 0, else decimal.
Base(cifras) == IF FORMATO[directiva] = "%x" THEN 16 ELSE IF cifras[1] = 0 THEN 8 ELSE 10
Cuantas(cifras) == Max({n \in 0 .. Len(cifras) : \A k \in 1 .. n : cifras[k] < Base(cifras)})
HayNumero(texto) == texto # <<>> /\ Head(texto).cifras # <<>> /\ Cuantas(Head(texto).cifras) > 0

\* The uint32_t that is written cifras, its low bits if they are too many.
Palabra(cifras) ==
  {b \in Bit : /\ b \div 4 < Len(cifras)
               /\ (cifras[Len(cifras) - b \div 4] \div 2^(b % 4)) % 2 = 1}

\* The directive was matched: fscanf goes on, or returns after the last one.
Pasar(resto) ==
  /\ archivo' = resto
  /\ IF directiva < Len(FORMATO)
     THEN directiva' = directiva + 1 /\ UNCHANGED pc
     ELSE directiva' = 1 /\ pc' = "acceso"

\* It was not: fscanf returns how many fields it filled, which is not EOF.
Devolver(resto) ==
  /\ archivo' = resto
  /\ directiva' = 1
  /\ pc' = "acceso"
  /\ UNCHANGED traza

\* White space in the format takes any or none, the end of a line too.
Blancos ==
  /\ FORMATO[directiva] \in {" ", "\n"}
  /\ Pasar(SinBlancos(archivo))
  /\ UNCHANGED traza

DosPuntos ==
  /\ FORMATO[directiva] = ":"
  /\ IF archivo # <<>> /\ Head(archivo).signo = ":"
     THEN Pasar(Tail(archivo)) /\ UNCHANGED traza
     ELSE Devolver(archivo)

Caracter ==
  /\ FORMATO[directiva] = "%c"
  /\ IF archivo = <<>> THEN Devolver(archivo)
     ELSE /\ Pasar(Quitar(archivo, 1))
          /\ traza' = [traza EXCEPT !.instruccion = Head(archivo).signo]

Numero ==
  LET texto == SinBlancos(archivo)
      cifras == Head(texto).cifras
  IN  /\ FORMATO[directiva] \in {"%x", "%i"}
      /\ \/ /\ HayNumero(texto)
            /\ Pasar(Quitar(texto, Cuantas(cifras)))
            /\ traza' = (IF directiva # Direccion THEN traza
                         ELSE [traza EXCEPT !.direccion_accedida =
                                 Palabra(SubSeq(cifras, 1, Cuantas(cifras)))])
         \/ ~HayNumero(texto) /\ (texto # <<>> \/ directiva > 1) /\ Devolver(texto)

\* EOF: the text ended before the first number.
FinDeArchivo ==
  /\ pc = "fscanf" /\ directiva = 1 /\ SinBlancos(archivo) = <<>>
  /\ pc' = "mostrar"
  /\ archivo' = <<>>
  /\ vivos' = vivos \ {Objeto("verboso")}
  /\ UNCHANGED <<orden, original, directiva, traza, acceso, simuladas, estado>>

\* One directive of a call.
fscanf ==
  /\ pc = "fscanf"
  /\ Blancos \/ DosPuntos \/ Caracter \/ Numero
  /\ UNCHANGED <<orden, original, acceso, simuladas, vivos, estado>>

\* One iteration, whatever fscanf filled of traza: leer_cache, escribir_cache
\* and cargar_linea_miss all start from calcular_set_y_tag.
Simular ==
  /\ pc = "acceso"
  /\ acceso' \in calcular_set_y_tag(traza.direccion_accedida)
  /\ simuladas' = (IF Len(simuladas) < MaxVueltas THEN Append(simuladas, traza) ELSE simuladas)
  /\ pc' = "fscanf"
  /\ UNCHANGED <<orden, original, archivo, directiva, traza, vivos, estado>>

\* mostrar_metricas, fclose and cache_destruir.
cache_destruir ==
  /\ pc = "mostrar"
  /\ Volver(0, vivos \ ({Objeto("archivo"), Objeto("sets"), Objeto("cache")}
                          \cup Lineas(orden.sets)))

Next ==
  \/ Rechazar \/ Dividir_Cero \/ fopen \/ crear_cache \/ crear_sets
  \/ crear_modo_verboso \/ EntrarAlBucle \/ fscanf \/ FinDeArchivo \/ Simular \/ cache_destruir

Spec == Init /\ [][Next]_vars

\* A program that can take a step takes it.
FairSpec == Spec /\ WF_vars(Next)
=================================================================================
