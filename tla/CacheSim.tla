-------------------------------- MODULE CacheSim --------------------------------
(***************************************************************************)
(* The cache simulator of "Labs grupales/cachesim/alpha4.0.c": one         *)
(* iteration of simular_cache_simple or simular_cache_modo_verboso per     *)
(* step.  The trace is any sequence of at most MaxAccesos accesses.        *)
(*                                                                         *)
(* The two loops differ in the verbose mode's operation number, which is   *)
(* stored in the lines the operations of a range touch; the simple mode is *)
(* the empty range.                                                        *)
(***************************************************************************)
EXTENDS Integers, FiniteSets

CONSTANTS
  cantidad_sets, lineas_por_set, tamanio_bloque,  \* the geometry main accepted
  MISS_PENALTY,
  Direcciones,        \* addresses the trace may hold
  primera_operacion,  \* the range of the verbose mode
  ultima_operacion_v,
  MaxAccesos          \* bound: accesses in the trace

ASSUME GeometryAssumption ==
  /\ cantidad_sets \in Nat \ {0}
  /\ lineas_por_set \in Nat \ {0}
  /\ tamanio_bloque \in Nat \ {0}
ASSUME PenaltyAssumption == MISS_PENALTY \in Nat
ASSUME AddressAssumption == Direcciones \subseteq Nat
ASSUME BoundAssumption == MaxAccesos \in Nat
\* atoi's, of any sign.
ASSUME RangoAssumption == primera_operacion \in Int /\ ultima_operacion_v \in Int

LECTURA == "R"
DESALOJO_LIMPIO == 1
DESALOJO_DIRTY_BIT == 2
Instrucciones == {LECTURA, "W"}
Sets == 0 .. cantidad_sets - 1
Lineas == 0 .. lineas_por_set - 1
ERROR == -1
SinTraza == [direccion_accedida |-> -1]

VARIABLES
  lineas,            \* the lines of each set
  lineas_ocupadas,   \* per set
  ciclos,
  operacion_actual,  \* accesses simulated so far
  metricas,
  traza,             \* the access fscanf read last
  resultado,         \* what the last miss evicted: the loop's own variable
  pc                 \* "simular", then "fin" once the metrics are shown

vars == <<lineas, lineas_ocupadas, ciclos, operacion_actual, metricas, traza, resultado, pc>>

\* The first of a set of line numbers, as a loop over the lines finds it.
Primero(indices) == CHOOSE i \in indices : \A j \in indices : i <= j

\* calcular_set_y_tag's masks and shifts, for the powers of two main accepts.
calcular_set(direccion) == (direccion \div tamanio_bloque) % cantidad_sets
calcular_tag(direccion) == direccion \div (tamanio_bloque * cantidad_sets)

\* The operations below take ls, the lines of one set.

leer_set(ls, tag) ==
  LET iguales == {i \in Lineas : ls[i].valido /\ ls[i].tag = tag}
  IN  IF iguales = {} THEN ERROR ELSE Primero(iguales)

\* Mutant: a load does not refresh the stamp.
actualizar_ciclos_SoloEscrituras(ls, tag, instruccion) ==
  LET i == Primero({j \in Lineas : ls[j].tag = tag})
  IN  IF instruccion = LECTURA THEN ls
      ELSE [ls EXCEPT ![i].ultimo_ciclo_usado = ciclos + 1, ![i].dirty_bit = TRUE]

\* actualizar_ciclos_lectura and actualizar_ciclos_escritura go by the tag
\* alone, without looking at valido.
actualizar_ciclos(ls, tag, instruccion) ==
  LET i == Primero({j \in Lineas : ls[j].tag = tag})
  IN  [ls EXCEPT ![i].ultimo_ciclo_usado = ciclos + 1,
                 ![i].valido = TRUE,
                 ![i].dirty_bit = @ \/ instruccion # LECTURA]

\* Mutant: every store pays for a write-back in its stamp.
cargar_linea_SelloAdelantado(linea, tag, instruccion) ==
  [linea EXCEPT !.valido = TRUE,
                !.tag = tag,
                !.ultimo_ciclo_usado = ciclos + MISS_PENALTY + 1
                   + (IF instruccion # LECTURA THEN MISS_PENALTY ELSE 0),
                !.dirty_bit = instruccion # LECTURA]

\* MISS_PENALTY is added once more only for a store that evicts a dirty line.
cargar_linea(linea, tag, instruccion) ==
  [linea EXCEPT !.valido = TRUE,
                !.tag = tag,
                !.ultimo_ciclo_usado = ciclos + MISS_PENALTY + 1
                   + (IF linea.dirty_bit /\ instruccion # LECTURA THEN MISS_PENALTY ELSE 0),
                !.dirty_bit = instruccion # LECTURA]

NoValidas(ls) == {i \in Lineas : ~ls[i].valido}
linea_no_valida(ls) == Primero(NoValidas(ls))

\* The line desalojar_linea evicts: the first of those with the least stamp.
linea_a_desalojar(ls) ==
  Primero({i \in Lineas : \A j \in Lineas : ls[i].ultimo_ciclo_usado <= ls[j].ultimo_ciclo_usado})

rango_verboso == operacion_actual >= primera_operacion /\ operacion_actual <= ultima_operacion_v

\* The verbose mode's note in line i.
Anotar(ls, i) ==
  IF rango_verboso THEN [ls EXCEPT ![i].ultima_operacion = operacion_actual] ELSE ls

\* actualizar_metricas works out the cost of the access by itself, and looks
\* at desalojo only for a miss.
actualizar_metricas(instruccion, fue_hit, desalojo) ==
  LET uno(b) == IF b THEN 1 ELSE 0
      lee == instruccion = LECTURA
      sucio == ~fue_hit /\ desalojo = DESALOJO_DIRTY_BIT
      tiempo == IF fue_hit THEN 1
                ELSE MISS_PENALTY + 1 + (IF sucio THEN MISS_PENALTY ELSE 0)
  IN  [metricas EXCEPT
         !.lecturas = @ + uno(lee),
         !.escrituras = @ + uno(~lee),
         !.misses_read = @ + uno(lee /\ ~fue_hit),
         !.misses_write = @ + uno(~lee /\ ~fue_hit),
         !.dirty_read_miss = @ + uno(lee /\ sucio),
         !.dirty_write_miss = @ + uno(~lee /\ sucio),
         !.bytes_read = @ + (IF fue_hit THEN 0 ELSE tamanio_bloque),
         !.bytes_written = @ + (IF sucio THEN tamanio_bloque ELSE 0),
         !.ciclos_lecturas = @ + (IF lee THEN tiempo ELSE 0),
         !.ciclos_escrituras = @ + (IF lee THEN 0 ELSE tiempo)]

-----------------------------------------------------------------------------

Init ==
  /\ lineas = [s \in Sets |-> [i \in Lineas |->
       [tag |-> 0, valido |-> FALSE, dirty_bit |-> FALSE,
        ultimo_ciclo_usado |-> 0, ultima_operacion |-> 0]]]
  /\ lineas_ocupadas = [s \in Sets |-> 0]
  /\ ciclos = 0
  /\ operacion_actual = 0
  /\ metricas = [lecturas |-> 0, escrituras |-> 0, total_accesos |-> 0,
                 misses_read |-> 0, misses_write |-> 0, total_misses |-> 0,
                 dirty_read_miss |-> 0, dirty_write_miss |-> 0,
                 bytes_read |-> 0, bytes_written |-> 0,
                 ciclos_lecturas |-> 0, ciclos_escrituras |-> 0]
  /\ traza = SinTraza
  \* Uninitialized: whatever the stack holds.
  /\ resultado \in {0, DESALOJO_LIMPIO, DESALOJO_DIRTY_BIT}
  /\ pc = "simular"

\* Mutant: the loop leaves the write-back out of the clock.
Contar_SinWriteback(instruccion, hit, desalojo) ==
  /\ resultado' = desalojo
  /\ ciclos' = ciclos + (IF hit THEN 1 ELSE MISS_PENALTY + 1)
  /\ metricas' = actualizar_metricas(instruccion, hit, resultado')
  /\ operacion_actual' = operacion_actual + 1
  /\ UNCHANGED pc

\* What the loop does once the lines are up to date: it advances the clock by
\* resultado, then hands hit and resultado to the metrics.
Contar(instruccion, hit, desalojo) ==
  /\ resultado' = desalojo
  /\ ciclos' = ciclos + (IF hit THEN 1
                         ELSE MISS_PENALTY + 1
                                + (IF resultado' = DESALOJO_DIRTY_BIT THEN MISS_PENALTY ELSE 0))
  /\ metricas' = actualizar_metricas(instruccion, hit, resultado')
  /\ operacion_actual' = operacion_actual + 1
  /\ UNCHANGED pc

\* Mutant: a hit leaves no note.
Hit_SinNota(s, tag, instruccion) ==
  /\ leer_set(lineas[s], tag) # ERROR
  /\ lineas' = [lineas EXCEPT ![s] = actualizar_ciclos(@, tag, instruccion)]
  /\ UNCHANGED lineas_ocupadas
  /\ Contar(instruccion, TRUE, 0)

\* leer_cache or escribir_cache finds the tag.
Hit(s, tag, instruccion) ==
  LET buscada == leer_set(lineas[s], tag)
  IN  /\ buscada # ERROR
      /\ lineas' = [lineas EXCEPT ![s] =
           actualizar_ciclos(Anotar(lineas[s], buscada), tag, instruccion)]
      /\ UNCHANGED lineas_ocupadas
      /\ Contar(instruccion, TRUE, 0)

\* cargar_linea_miss with a line that was never used.
MissLibre(s, tag, instruccion) ==
  LET i == linea_no_valida(lineas[s])
  IN  /\ leer_set(lineas[s], tag) = ERROR
      /\ NoValidas(lineas[s]) # {}
      /\ lineas' = [lineas EXCEPT ![s] =
           [Anotar(lineas[s], i) EXCEPT ![i] = cargar_linea(@, tag, instruccion)]]
      /\ lineas_ocupadas' = [lineas_ocupadas EXCEPT ![s] = @ + 1]
      /\ Contar(instruccion, FALSE, DESALOJO_LIMPIO)

\* cargar_linea_miss through desalojar_linea.
MissDesalojo(s, tag, instruccion) ==
  LET i == linea_a_desalojar(lineas[s])
  IN  /\ leer_set(lineas[s], tag) = ERROR
      /\ NoValidas(lineas[s]) = {}
      /\ lineas' = [lineas EXCEPT ![s] =
           [Anotar(lineas[s], i) EXCEPT ![i] = cargar_linea(@, tag, instruccion)]]
      /\ UNCHANGED lineas_ocupadas
      /\ Contar(instruccion, FALSE,
                IF lineas[s][i].dirty_bit THEN DESALOJO_DIRTY_BIT ELSE DESALOJO_LIMPIO)

\* End of the trace: mostrar_metricas adds up the totals.
mostrar_metricas ==
  /\ pc = "simular"
  /\ metricas' = [metricas EXCEPT
       !.total_accesos = metricas.lecturas + metricas.escrituras,
       !.total_misses = metricas.misses_read + metricas.misses_write]
  /\ pc' = "fin"
  /\ UNCHANGED <<lineas, lineas_ocupadas, ciclos, operacion_actual, traza, resultado>>

\* One iteration: fscanf read one more access.
Acceso(direccion, instruccion) ==
  LET s == calcular_set(direccion)
      tag == calcular_tag(direccion)
  IN  /\ pc = "simular" /\ operacion_actual < MaxAccesos
      /\ traza' = [direccion_accedida |-> direccion, instruccion |-> instruccion]
      /\ \/ Hit(s, tag, instruccion)
         \/ MissLibre(s, tag, instruccion)
         \/ MissDesalojo(s, tag, instruccion)

Next ==
  \/ \E direccion \in Direcciones, instruccion \in Instrucciones : Acceso(direccion, instruccion)
  \/ mostrar_metricas

Spec == Init /\ [][Next]_vars
================================================================================
