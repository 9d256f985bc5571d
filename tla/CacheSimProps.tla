------------------------------ MODULE CacheSimProps ------------------------------
(***************************************************************************)
(* What the cache simulator must keep true.                                *)
(***************************************************************************)
EXTENDS CacheSim

Tags == {calcular_tag(d) : d \in Direcciones}
Validas(s) == {i \in Lineas : lineas[s][i].valido}
Sucias(s) == {i \in Validas(s) : lineas[s][i].dirty_bit}
\* The lines whose write-back is still to come.
Pendientes == {p \in Sets \X Lineas : p[2] \in Sucias(p[1])}

Linea == [tag : Nat, valido : BOOLEAN, dirty_bit : BOOLEAN,
          ultimo_ciclo_usado : Nat, ultima_operacion : Nat]

Metricas == [lecturas : Nat, escrituras : Nat, total_accesos : Nat,
             misses_read : Nat, misses_write : Nat, total_misses : Nat,
             dirty_read_miss : Nat, dirty_write_miss : Nat,
             bytes_read : Nat, bytes_written : Nat,
             ciclos_lecturas : Nat, ciclos_escrituras : Nat]

\* The values the simulator's state ranges over.
TypeOK ==
  /\ lineas \in [Sets -> [Lineas -> Linea]]
  /\ lineas_ocupadas \in [Sets -> 0 .. lineas_por_set]
  /\ ciclos \in Nat
  /\ operacion_actual \in 0 .. MaxAccesos
  /\ metricas \in Metricas
  /\ traza \in [direccion_accedida : Direcciones, instruccion : Instrucciones] \cup {SinTraza}
  /\ resultado \in {0, DESALOJO_LIMPIO, DESALOJO_DIRTY_BIT}
  /\ pc \in {"simular", "fin"}

\* The valid lines of a set are its first lineas_ocupadas: the count is the
\* number of the line that the verbose mode says a miss will fill, and
\* linea_no_valida fills exactly that line.
OcupadasPrimero ==
  \A s \in Sets : \A i \in Lineas : lineas[s][i].valido <=> i < lineas_ocupadas[s]

\* No two valid lines of a set hold the same tag, though a tag is only
\* compared against the lines of its set at the moment of the access.
TagsUnicos ==
  \A s \in Sets : \A i, j \in Validas(s) : lineas[s][i].tag = lineas[s][j].tag => i = j

\* The stamps by which desalojar_linea picks its victim never tie between
\* valid lines and never run ahead of the clock, although cargar_linea adds
\* up the cost of a miss on its own, and differently for a load that evicts
\* a dirty line.  A stamp ahead of the clock would let a line look newer
\* than one used after it.
SellosOrdenados ==
  \A s \in Sets : \A i \in Validas(s) :
    /\ lineas[s][i].ultimo_ciclo_usado \in 1 .. ciclos
    /\ \A j \in Validas(s) \ {i} :
         lineas[s][i].ultimo_ciclo_usado # lineas[s][j].ultimo_ciclo_usado

\* What mostrar_metricas reports is what happened to the cache, although
\* three places work out what an access costs: the loop for the clock,
\* actualizar_metricas for the times, and desalojar_linea says through
\* resultado whether a write-back is due.
\*  - The times of loads and stores add up to the clock, and each is one cycle
\*    for every access of its kind and MISS_PENALTY for every miss and every
\*    write-back it had.
\*  - The traffic is that of the misses and of the write-backs, in blocks.
\*  - Every write-back is of what a store wrote: those counted, and those the
\*    dirty lines have still to make, are no more than the stores.
TiempoYTraficoCuadran ==
  /\ metricas.ciclos_lecturas + metricas.ciclos_escrituras = ciclos
  /\ metricas.ciclos_lecturas =
       metricas.lecturas + MISS_PENALTY * (metricas.misses_read + metricas.dirty_read_miss)
  /\ metricas.ciclos_escrituras =
       metricas.escrituras + MISS_PENALTY * (metricas.misses_write + metricas.dirty_write_miss)
  /\ metricas.bytes_read = tamanio_bloque * (metricas.misses_read + metricas.misses_write)
  /\ metricas.bytes_written =
       tamanio_bloque * (metricas.dirty_read_miss + metricas.dirty_write_miss)
  /\ metricas.dirty_read_miss + metricas.dirty_write_miss + Cardinality(Pendientes)
       <= metricas.escrituras

\* The operation number the verbose mode shows for a line orders the lines of
\* a set as their stamps do, among the lines whose last use it recorded: those
\* last used before the end of the range.
NotasEnOrden ==
  operacion_actual <= ultima_operacion_v + 1 =>
    \A s \in Sets : \A i, j \in Validas(s) :
      (lineas[s][i].ultima_operacion > primera_operacion
         /\ lineas[s][j].ultima_operacion > primera_operacion)
      => (lineas[s][i].ultimo_ciclo_usado < lineas[s][j].ultimo_ciclo_usado
            <=> lineas[s][i].ultima_operacion < lineas[s][j].ultima_operacion)

-----------------------------------------------------------------------------
\* The abstract cache.

Residentes == [s \in Sets |-> {lineas[s][i].tag : i \in Validas(s)}]
TagsSucios == [s \in Sets |-> {lineas[s][i].tag : i \in Sucias(s)}]
MasViejos == [s \in Sets |->
  {p \in Residentes[s] \X Residentes[s] :
     \E i, j \in Validas(s) :
       /\ p = <<lineas[s][i].tag, lineas[s][j].tag>>
       /\ lineas[s][i].ultimo_ciclo_usado < lineas[s][j].ultimo_ciclo_usado}]

Ultimo ==
  IF traza = SinTraza THEN <<>>
  ELSE <<calcular_set(traza.direccion_accedida), calcular_tag(traza.direccion_accedida),
         traza.instruccion # LECTURA>>

Abstracta == INSTANCE LRU WITH
  Ways <- lineas_por_set,
  resident <- Residentes,
  dirty <- TagsSucios,
  older <- MasViejos,
  last <- Ultimo,
  misses <- metricas.misses_read + metricas.misses_write,
  writebacks <- metricas.dirty_read_miss + metricas.dirty_write_miss

\* The simulator is a cache with least-recently-used replacement: the stamps
\* and the scans over lines choose the victims, and count the misses and the
\* write-backs, that the order of use alone determines.
EsLRU == Abstracta!Spec
================================================================================
