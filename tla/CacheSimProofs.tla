----------------------------- MODULE CacheSimProofs -----------------------------
(***************************************************************************)
(* Theorems of the cache simulator, for every geometry, penalty, set of    *)
(* addresses and length of trace.                                          *)
(***************************************************************************)
EXTENDS CacheSimProps, FiniteSetTheorems, WellFoundedInduction, TLAPS

-----------------------------------------------------------------------------
\* The helpers of the scans over a set's lines.

\* A non-empty set of numbers has a least one: the loops that look for a
\* line find the first.
LEMMA Minimo ==
  ASSUME NEW T, T \subseteq Nat, T # {}
  PROVE  \E x \in T : \A y \in T : x <= y
<1> DEFINE R == OpToRel(<, Nat)
<1>1. \A x, y \in Nat : <<x, y>> \in R <=> x < y
  BY DEF OpToRel
<1>2. IsWellFoundedOn(R, Nat)
  BY NatLessThanWellFounded
<1> HIDE DEF R
<1>3. PICK x \in T : \A y \in T : ~ (<<y, x>> \in R)
  BY <1>2, WFMin
<1>4. ASSUME NEW y \in T  PROVE x <= y
  <2>1. x \in Nat /\ y \in Nat
    OBVIOUS
  <2>2. ~ (y < x)
    BY <1>1, <1>3, <2>1
  <2> QED
    BY <2>1, <2>2
<1> QED
  BY <1>4

\* The loops return a line they looked for, and no earlier line will do.
LEMMA PrimeroEsElPrimero ==
  ASSUME NEW I, I \subseteq Lineas, I # {}
  PROVE  /\ Primero(I) \in I
         /\ \A j \in I : Primero(I) <= j
<1>1. I \subseteq Nat
  BY GeometryAssumption DEF Lineas
<1>2. \E x \in I : \A y \in I : x <= y
  BY <1>1, Minimo
<1> QED
  BY <1>2 DEF Primero

\* calcular_set_y_tag names a set of the cache and a tag.
LEMMA DireccionPartida ==
  ASSUME NEW d \in Direcciones
  PROVE  /\ calcular_set(d) \in Sets
         /\ calcular_tag(d) \in Nat
         /\ calcular_tag(d) \in Tags
<1>1. d \in Nat /\ cantidad_sets \in Nat \ {0} /\ tamanio_bloque \in Nat \ {0}
  BY AddressAssumption, GeometryAssumption
<1>2. d \div tamanio_bloque \in Nat
  BY <1>1
<1>3. calcular_set(d) \in Sets
  BY <1>1, <1>2 DEF calcular_set, Sets
<1>4. tamanio_bloque * cantidad_sets \in Nat \ {0}
  BY <1>1
<1>5. calcular_tag(d) \in Nat
  <2> DEFINE b == tamanio_bloque * cantidad_sets
  <2>1. calcular_tag(d) = d \div b
    BY DEF calcular_tag
  <2>2. b \in Nat \ {0}
    BY <1>4
  <2> HIDE DEF b
  <2> QED
    BY <1>1, <2>1, <2>2
<1> QED
  BY <1>3, <1>5 DEF Tags

-----------------------------------------------------------------------------
\* The inductive invariant.

\* A line never used is clean, so filling it never pays for a write-back.
LibresLimpias ==
  \A s \in Sets : \A i \in Lineas : ~lineas[s][i].valido => ~lineas[s][i].dirty_bit

\* A note is the number of an access already made; on a line never used it is
\* the 0 of crear_cache.
NotasPasadas ==
  \A s \in Sets : \A i \in Lineas :
    /\ lineas[s][i].ultima_operacion <= operacion_actual
    /\ lineas[s][i].valido => lineas[s][i].ultima_operacion < operacion_actual

\* The properties of the sets, with what they need of each other.
IInv ==
  /\ TypeOK
  /\ OcupadasPrimero
  /\ TagsUnicos
  /\ SellosOrdenados
  /\ LibresLimpias
  /\ NotasPasadas
  /\ NotasEnOrden

\* What an access does to the lines of its set: line i of set s becomes l,
\* which holds a tag no other valid line of the set holds and is stamped
\* after the clock's old reading and not after its new one.  The note is the
\* access's number while the verbose range lasts.
CambiaLinea(s, i, l) ==
  /\ l \in Linea /\ l.valido
  /\ l.ultima_operacion = (IF rango_verboso THEN operacion_actual
                           ELSE lineas[s][i].ultima_operacion)
  /\ operacion_actual' = operacion_actual + 1
  /\ \A j \in Validas(s) \ {i} : lineas[s][j].tag # l.tag
  /\ l.ultimo_ciclo_usado > ciclos /\ l.ultimo_ciclo_usado <= ciclos'
  /\ ciclos' \in Nat
  /\ lineas' = [lineas EXCEPT ![s] = [@ EXCEPT ![i] = l]]
  /\ i <= lineas_ocupadas[s]
  /\ lineas_ocupadas' = [lineas_ocupadas EXCEPT ![s] =
       IF i < lineas_ocupadas[s] THEN @ ELSE @ + 1]

\* An access that changes one line in that way keeps the sets' invariant.
LEMMA CambiaLineaConserva ==
  ASSUME IInv, NEW s \in Sets, NEW i \in Lineas, NEW l, CambiaLinea(s, i, l)
  PROVE  /\ lineas' \in [Sets -> [Lineas -> Linea]]
         /\ lineas_ocupadas' \in [Sets -> 0 .. lineas_por_set]
         /\ OcupadasPrimero' /\ TagsUnicos' /\ SellosOrdenados' /\ LibresLimpias'
         /\ NotasPasadas' /\ NotasEnOrden'
<1> USE DEF CambiaLinea
<1>0. /\ lineas \in [Sets -> [Lineas -> Linea]]
      /\ lineas_ocupadas \in [Sets -> 0 .. lineas_por_set]
      /\ ciclos \in Nat
      /\ lineas_por_set \in Nat \ {0}
  BY GeometryAssumption DEF IInv, TypeOK
<1>1. lineas' \in [Sets -> [Lineas -> Linea]]
  BY <1>0
<1>2. /\ \A r \in Sets \ {s} : lineas'[r] = lineas[r]
      /\ \A j \in Lineas \ {i} : lineas'[s][j] = lineas[s][j]
      /\ lineas'[s][i] = l
  BY <1>0
<1>3. /\ \A r \in Sets \ {s} : lineas_ocupadas'[r] = lineas_ocupadas[r]
      /\ lineas_ocupadas'[s] = IF i < lineas_ocupadas[s]
                               THEN lineas_ocupadas[s] ELSE lineas_ocupadas[s] + 1
  BY <1>0
<1>4. i \in 0 .. lineas_por_set - 1
  BY DEF Lineas
<1>5. lineas_ocupadas' \in [Sets -> 0 .. lineas_por_set]
  BY <1>0, <1>3, <1>4
<1>6. OcupadasPrimero'
  <2> SUFFICES ASSUME NEW r \in Sets, NEW j \in Lineas
               PROVE  lineas'[r][j].valido <=> j < lineas_ocupadas'[r]
    BY DEF OcupadasPrimero
  <2>1. lineas[r][j].valido <=> j < lineas_ocupadas[r]
    BY DEF IInv, OcupadasPrimero
  <2>2. CASE r # s
    BY <1>2, <1>3, <2>1, <2>2
  <2>3. CASE r = s /\ j # i
    <3>1. lineas'[r][j] = lineas[r][j]
      BY <1>2, <2>3
    <3>2. j \in Nat /\ i \in Nat /\ lineas_ocupadas[r] \in Nat
      BY <1>0, <1>4 DEF Lineas
    <3>3. j < lineas_ocupadas[r] <=> j < lineas_ocupadas'[r]
      BY <1>3, <2>3, <3>2
    <3> QED
      BY <2>1, <3>1, <3>3
  <2>4. CASE r = s /\ j = i
    BY <1>0, <1>2, <1>3, <1>4, <2>4
  <2> QED
    BY <2>2, <2>3, <2>4
<1>7. /\ \A r \in Sets \ {s} : Validas(r)' = Validas(r)
      /\ Validas(s)' = Validas(s) \cup {i}
  BY <1>2 DEF Validas
<1>8. TagsUnicos'
  BY <1>2, <1>7 DEF IInv, TagsUnicos, Validas
<1>9. SellosOrdenados'
  <2> SUFFICES ASSUME NEW r \in Sets, NEW j \in Validas(r)'
               PROVE  /\ lineas'[r][j].ultimo_ciclo_usado \in 1 .. ciclos'
                      /\ \A k \in Validas(r)' \ {j} :
                           lineas'[r][j].ultimo_ciclo_usado # lineas'[r][k].ultimo_ciclo_usado
    BY DEF SellosOrdenados
  <2>1. \A k \in Validas(r) :
          /\ lineas[r][k].ultimo_ciclo_usado \in 1 .. ciclos
          /\ \A h \in Validas(r) \ {k} :
               lineas[r][k].ultimo_ciclo_usado # lineas[r][h].ultimo_ciclo_usado
    BY DEF IInv, SellosOrdenados
  <2>2. ciclos <= ciclos' /\ l.ultimo_ciclo_usado \in Nat
    BY <1>0 DEF Linea
  <2>3. CASE r # s
    BY <1>0, <1>2, <1>7, <2>1, <2>2, <2>3
  <2>4. CASE r = s
    <3>1. \A k \in Validas(s) \ {i} :
            /\ lineas'[s][k] = lineas[s][k]
            /\ lineas[s][k].ultimo_ciclo_usado \in 1 .. ciclos
            /\ lineas[s][k].ultimo_ciclo_usado < l.ultimo_ciclo_usado
      BY <1>0, <1>2, <2>1, <2>2, <2>4 DEF Validas
    <3>2. CASE j = i
      BY <1>0, <1>2, <1>7, <2>2, <2>4, <3>1, <3>2
    <3>3. CASE j # i
      BY <1>0, <1>2, <1>7, <2>1, <2>2, <2>4, <3>1, <3>3
    <3> QED
      BY <3>2, <3>3
  <2> QED
    BY <2>3, <2>4
<1>10. LibresLimpias'
  BY <1>2 DEF IInv, LibresLimpias
<1>11. /\ operacion_actual \in Nat /\ operacion_actual' = operacion_actual + 1
       /\ primera_operacion \in Int /\ ultima_operacion_v \in Int
       /\ \A r \in Sets, j \in Lineas : /\ lineas[r][j].ultima_operacion \in Nat
                                        /\ lineas[r][j].ultimo_ciclo_usado \in Nat
  BY <1>0, BoundAssumption, RangoAssumption DEF IInv, TypeOK, Linea
<1>12. l.ultima_operacion \in Nat /\ l.ultima_operacion <= operacion_actual
  BY <1>11 DEF IInv, NotasPasadas, Linea
<1>13. NotasPasadas'
  <2> SUFFICES ASSUME NEW r \in Sets, NEW j \in Lineas
               PROVE  lineas'[r][j].ultima_operacion < operacion_actual + 1
    BY <1>1, <1>11 DEF NotasPasadas, Linea
  <2>1. lineas[r][j].ultima_operacion <= operacion_actual
    BY DEF IInv, NotasPasadas
  <2>2. CASE r = s /\ j = i
    BY <1>2, <1>11, <1>12, <2>2
  <2>3. CASE ~ (r = s /\ j = i)
    BY <1>2, <1>11, <2>1, <2>3
  <2> QED
    BY <2>2, <2>3
<1>14. NotasEnOrden'
  <2> DEFINE nota(j) == lineas[s][j].ultima_operacion
             sello(j) == lineas[s][j].ultimo_ciclo_usado
  <2>1. SUFFICES ASSUME operacion_actual + 1 <= ultima_operacion_v + 1,
                        NEW r \in Sets, NEW a \in Validas(r)', NEW b \in Validas(r)',
                        lineas'[r][a].ultima_operacion > primera_operacion,
                        lineas'[r][b].ultima_operacion > primera_operacion
                 PROVE  lineas'[r][a].ultimo_ciclo_usado < lineas'[r][b].ultimo_ciclo_usado
                          <=> lineas'[r][a].ultima_operacion < lineas'[r][b].ultima_operacion
    BY <1>11 DEF NotasEnOrden
  <2>2. operacion_actual <= ultima_operacion_v /\ operacion_actual <= ultima_operacion_v + 1
    BY <1>11, <2>1
  <2>3. \A q \in Sets : \A c, d \in Validas(q) :
          (lineas[q][c].ultima_operacion > primera_operacion
             /\ lineas[q][d].ultima_operacion > primera_operacion)
          => (lineas[q][c].ultimo_ciclo_usado < lineas[q][d].ultimo_ciclo_usado
                <=> lineas[q][c].ultima_operacion < lineas[q][d].ultima_operacion)
    BY <2>2 DEF IInv, NotasEnOrden
  <2>4. CASE r # s
    <3>1. lineas'[r] = lineas[r]
      BY <1>2, <2>4
    <3>2. a \in Validas(r) /\ b \in Validas(r)
      BY <3>1 DEF Validas
    <3> QED
      BY <2>1, <2>3, <3>1, <3>2
  <2>5. CASE r = s
    <3>1. \A c \in Validas(s)' : c = i \/ (c \in Validas(s) /\ lineas'[s][c] = lineas[s][c])
      BY <1>2 DEF Validas
    \* Another line was used before; and a line used now is noted now, since
    \* before the range no note is above its first number.
    <3>2. ASSUME NEW c \in Validas(s), c # i
          PROVE  /\ nota(c) < operacion_actual /\ nota(c) \in Nat
                 /\ sello(c) < l.ultimo_ciclo_usado /\ sello(c) \in Nat
      <4>1. c \in Lineas /\ lineas[s][c].valido
        BY DEF Validas
      <4>2. sello(c) \in 1 .. ciclos
        BY DEF IInv, SellosOrdenados
      <4> QED
        BY <1>0, <1>11, <4>1, <4>2 DEF IInv, NotasPasadas, Linea
    <3>3. ASSUME l.ultima_operacion > primera_operacion
          PROVE  l.ultima_operacion = operacion_actual
      <4>1. CASE rango_verboso
        BY <4>1
      <4>2. CASE ~rango_verboso
        <5>1. operacion_actual < primera_operacion
          BY <1>11, <2>2, <4>2 DEF rango_verboso
        <5> QED
          BY <1>11, <1>12, <3>3, <5>1
      <4> QED
        BY <4>1, <4>2
    <3>4. l.ultimo_ciclo_usado \in Nat
      BY DEF Linea
    <3>5. CASE a = i /\ b = i
      BY <1>2, <1>12, <2>5, <3>4, <3>5
    <3>6. CASE a = i /\ b # i
      <4>1. b \in Validas(s) /\ lineas'[s][b] = lineas[s][b] /\ lineas'[s][a] = l
        BY <1>2, <2>5, <3>1, <3>6
      <4>2. l.ultima_operacion = operacion_actual
        BY <2>1, <2>5, <3>3, <4>1
      <4> QED
        BY <1>11, <2>5, <3>2, <3>4, <3>6, <4>1, <4>2
    <3>7. CASE a # i /\ b = i
      <4>1. a \in Validas(s) /\ lineas'[s][a] = lineas[s][a] /\ lineas'[s][b] = l
        BY <1>2, <2>5, <3>1, <3>7
      <4>2. l.ultima_operacion = operacion_actual
        BY <2>1, <2>5, <3>3, <4>1
      <4> QED
        BY <1>11, <2>5, <3>2, <3>4, <3>7, <4>1, <4>2
    <3>8. CASE a # i /\ b # i
      BY <2>1, <2>3, <2>5, <3>1, <3>8
    <3> QED
      BY <3>5, <3>6, <3>7, <3>8
  <2> QED
    BY <2>4, <2>5
<1> QED
  BY <1>1, <1>5, <1>6, <1>8, <1>9, <1>10, <1>13, <1>14

-----------------------------------------------------------------------------
\* The metrics.

\* n when b holds.
Si(b, n) == IF b THEN n ELSE 0

\* What every access does besides changing a line: the clock and the metrics
\* move together, the metrics by kind of access.
Contada(instruccion, fallo, sucio) ==
  LET lee == instruccion = LECTURA
      costo == 1 + Si(fallo, MISS_PENALTY) + Si(sucio, MISS_PENALTY)
  IN  /\ ciclos' = ciclos + costo
      /\ operacion_actual' = operacion_actual + 1
      /\ pc' = pc
      /\ resultado' \in {0, DESALOJO_LIMPIO, DESALOJO_DIRTY_BIT}
      /\ metricas' \in Metricas
      /\ metricas'.lecturas = metricas.lecturas + Si(lee, 1)
      /\ metricas'.escrituras = metricas.escrituras + Si(~lee, 1)
      /\ metricas'.misses_read = metricas.misses_read + Si(lee /\ fallo, 1)
      /\ metricas'.misses_write = metricas.misses_write + Si(~lee /\ fallo, 1)
      /\ metricas'.dirty_read_miss = metricas.dirty_read_miss + Si(lee /\ sucio, 1)
      /\ metricas'.dirty_write_miss = metricas.dirty_write_miss + Si(~lee /\ sucio, 1)
      /\ metricas'.bytes_read = metricas.bytes_read + Si(fallo, tamanio_bloque)
      /\ metricas'.bytes_written = metricas.bytes_written + Si(sucio, tamanio_bloque)
      /\ metricas'.ciclos_lecturas = metricas.ciclos_lecturas + Si(lee, costo)
      /\ metricas'.ciclos_escrituras = metricas.ciclos_escrituras + Si(~lee, costo)

\* The metrics stay natural numbers when a pair of counters takes two others.
LEMMA Contadores ==
  ASSUME NEW r \in Metricas, NEW a \in Nat, NEW b \in Nat
  PROVE  /\ [r EXCEPT !.lecturas = a, !.escrituras = b] \in Metricas
         /\ [r EXCEPT !.misses_read = a, !.misses_write = b] \in Metricas
         /\ [r EXCEPT !.dirty_read_miss = a, !.dirty_write_miss = b] \in Metricas
         /\ [r EXCEPT !.bytes_read = a, !.bytes_written = b] \in Metricas
         /\ [r EXCEPT !.ciclos_lecturas = a, !.ciclos_escrituras = b] \in Metricas
         /\ [r EXCEPT !.total_accesos = a, !.total_misses = b] \in Metricas
BY DEF Metricas

\* The cost by which the loop advances the clock, from hit and resultado, is
\* the one actualizar_metricas adds to the times: both see a write-back exactly
\* when a miss evicted a dirty line.
LEMMA ContarEsContada ==
  ASSUME TypeOK, NEW instruccion, NEW hit \in BOOLEAN,
         NEW d \in {0, DESALOJO_LIMPIO, DESALOJO_DIRTY_BIT}, Contar(instruccion, hit, d)
  PROVE  Contada(instruccion, ~hit, ~hit /\ d = DESALOJO_DIRTY_BIT)
<1> DEFINE lee == instruccion = LECTURA
           fallo == ~hit
           sucio == ~hit /\ d = DESALOJO_DIRTY_BIT
           tiempo == IF hit THEN 1
                     ELSE MISS_PENALTY + 1 + (IF sucio THEN MISS_PENALTY ELSE 0)
           costo == 1 + Si(fallo, MISS_PENALTY) + Si(sucio, MISS_PENALTY)
           l == IF lee THEN 1 ELSE 0
           e == IF ~lee THEN 1 ELSE 0
           lf == IF lee /\ ~hit THEN 1 ELSE 0
           ef == IF ~lee /\ ~hit THEN 1 ELSE 0
           ls == IF lee /\ sucio THEN 1 ELSE 0
           es == IF ~lee /\ sucio THEN 1 ELSE 0
           bf == IF hit THEN 0 ELSE tamanio_bloque
           bs == IF sucio THEN tamanio_bloque ELSE 0
           cl == IF lee THEN tiempo ELSE 0
           ce == IF lee THEN 0 ELSE tiempo
           m == [metricas EXCEPT
                  !.lecturas = @ + l, !.escrituras = @ + e,
                  !.misses_read = @ + lf, !.misses_write = @ + ef,
                  !.dirty_read_miss = @ + ls, !.dirty_write_miss = @ + es,
                  !.bytes_read = @ + bf, !.bytes_written = @ + bs,
                  !.ciclos_lecturas = @ + cl, !.ciclos_escrituras = @ + ce]
<1>1. metricas \in Metricas /\ tamanio_bloque \in Nat /\ MISS_PENALTY \in Nat
  BY GeometryAssumption, PenaltyAssumption DEF TypeOK
<1>2. /\ resultado' = d
      /\ ciclos' = ciclos + (IF hit THEN 1
                             ELSE MISS_PENALTY + 1
                                    + (IF d = DESALOJO_DIRTY_BIT THEN MISS_PENALTY ELSE 0))
      /\ metricas' = actualizar_metricas(instruccion, hit, d)
      /\ operacion_actual' = operacion_actual + 1
      /\ pc' = pc
  BY DEF Contar
<1>3. actualizar_metricas(instruccion, hit, d) = m
  BY DEF actualizar_metricas
<1>4. costo \in Nat /\ tiempo = costo
  BY <1>1 DEF Si
<1>5. ciclos' = ciclos + costo
  <2>1. (IF hit THEN 1 ELSE MISS_PENALTY + 1
           + (IF d = DESALOJO_DIRTY_BIT THEN MISS_PENALTY ELSE 0)) = costo
    BY <1>1 DEF Si
  <2> QED
    BY <1>2, <2>1
<1>6. /\ l = Si(lee, 1) /\ e = Si(~lee, 1)
      /\ lf = Si(lee /\ fallo, 1) /\ ef = Si(~lee /\ fallo, 1)
      /\ ls = Si(lee /\ sucio, 1) /\ es = Si(~lee /\ sucio, 1)
      /\ bf = Si(fallo, tamanio_bloque) /\ bs = Si(sucio, tamanio_bloque)
      /\ cl = Si(lee, costo) /\ ce = Si(~lee, costo)
  <2> HIDE DEF costo, tiempo
  <2> QED
    BY <1>4 DEF Si
<1>7. /\ l \in Nat /\ e \in Nat /\ lf \in Nat /\ ef \in Nat /\ ls \in Nat /\ es \in Nat
      /\ bf \in Nat /\ bs \in Nat /\ cl \in Nat /\ ce \in Nat
  <2> HIDE DEF costo, tiempo
  <2> QED
    BY <1>1, <1>4
<1> HIDE DEF l, e, lf, ef, ls, es, bf, bs, cl, ce, costo, tiempo
<1>8. m \in Metricas
  <2> DEFINE k1 == [metricas EXCEPT !.lecturas = @ + l, !.escrituras = @ + e]
             k2 == [k1 EXCEPT !.misses_read = @ + lf, !.misses_write = @ + ef]
             k3 == [k2 EXCEPT !.dirty_read_miss = @ + ls, !.dirty_write_miss = @ + es]
             k4 == [k3 EXCEPT !.bytes_read = @ + bf, !.bytes_written = @ + bs]
             k5 == [k4 EXCEPT !.ciclos_lecturas = @ + cl, !.ciclos_escrituras = @ + ce]
  <2>1. m = k5
    BY ZenonT(60)
  <2> HIDE DEF m
  <2>2. k1 \in Metricas
    <3>1. metricas.lecturas + l \in Nat /\ metricas.escrituras + e \in Nat
      BY <1>1, <1>7 DEF Metricas
    <3> QED
      BY <1>1, <3>1, Contadores
  <2> HIDE DEF k1
  <2>3. k2 \in Metricas
    <3>1. k1.misses_read + lf \in Nat /\ k1.misses_write + ef \in Nat
      BY <1>7, <2>2 DEF Metricas
    <3> QED
      BY <2>2, <3>1, Contadores
  <2> HIDE DEF k2
  <2>4. k3 \in Metricas
    <3>1. k2.dirty_read_miss + ls \in Nat /\ k2.dirty_write_miss + es \in Nat
      BY <1>7, <2>3 DEF Metricas
    <3> QED
      BY <2>3, <3>1, Contadores
  <2> HIDE DEF k3
  <2>5. k4 \in Metricas
    <3>1. k3.bytes_read + bf \in Nat /\ k3.bytes_written + bs \in Nat
      BY <1>7, <2>4 DEF Metricas
    <3> QED
      BY <2>4, <3>1, Contadores
  <2> HIDE DEF k4
  <2>6. k5 \in Metricas
    <3>1. k4.ciclos_lecturas + cl \in Nat /\ k4.ciclos_escrituras + ce \in Nat
      BY <1>7, <2>5 DEF Metricas
    <3> QED
      BY <2>5, <3>1, Contadores
  <2> QED
    BY <2>1, <2>6
<1>9. /\ m.lecturas = metricas.lecturas + l
      /\ m.escrituras = metricas.escrituras + e
      /\ m.misses_read = metricas.misses_read + lf
      /\ m.misses_write = metricas.misses_write + ef
      /\ m.dirty_read_miss = metricas.dirty_read_miss + ls
      /\ m.dirty_write_miss = metricas.dirty_write_miss + es
      /\ m.bytes_read = metricas.bytes_read + bf
      /\ m.bytes_written = metricas.bytes_written + bs
      /\ m.ciclos_lecturas = metricas.ciclos_lecturas + cl
      /\ m.ciclos_escrituras = metricas.ciclos_escrituras + ce
  BY <1>1 DEF Metricas
<1>10. metricas' = m
  BY <1>2, <1>3
<1> HIDE DEF m
<1>11. resultado' \in {0, DESALOJO_LIMPIO, DESALOJO_DIRTY_BIT}
  BY <1>2
<1>12. costo = 1 + Si(fallo, MISS_PENALTY) + Si(sucio, MISS_PENALTY)
  BY DEF costo
<1> HIDE DEF fallo, sucio, lee
<1>13. Contada(instruccion, fallo, sucio)
  BY <1>2, <1>5, <1>6, <1>8, <1>9, <1>10, <1>11, <1>12 DEF Contada, lee
<1> QED
  BY <1>13 DEF fallo, sucio

\* One more event costs one more block of traffic, or one more penalty.
LEMMA UnBloqueMas ==
  ASSUME NEW b \in Nat, NEW x \in Nat, NEW uno \in {0, 1}
  PROVE  b * (x + uno) = b * x + (IF uno = 1 THEN b ELSE 0)
<1>1. CASE uno = 0
  BY <1>1
<1>2. CASE uno = 1
  BY <1>2
<1> QED
  BY <1>1, <1>2

\* An access of a kind adds one cycle to its time, and a penalty for each
\* event.
LEMMA UnAccesoMas ==
  ASSUME NEW p \in Nat, NEW n \in Nat, NEW x \in Nat, NEW y \in Nat,
         NEW fallo \in BOOLEAN, NEW sucio \in BOOLEAN
  PROVE  n + p * (x + y) + (1 + Si(fallo, p) + Si(sucio, p)) =
           (n + 1) + p * ((x + Si(fallo, 1)) + (y + Si(sucio, 1)))
<1> DEFINE f == Si(fallo, 1)
           u == Si(sucio, 1)
           g == Si(fallo, p)
           v == Si(sucio, p)
           z == x + y
           pz == p * z
<1>1. /\ f \in {0, 1} /\ u \in {0, 1} /\ g \in Nat /\ v \in Nat
      /\ g = (IF f = 1 THEN p ELSE 0) /\ v = (IF u = 1 THEN p ELSE 0)
  BY DEF Si
<1> HIDE DEF f, u, g, v
<1>2. (x + f) + (y + u) = (z + f) + u /\ z \in Nat
  BY <1>1
<1> HIDE DEF z
<1>3. p * ((z + f) + u) = p * (z + f) + v
  <2>1. z + f \in Nat
    BY <1>1, <1>2
  <2> QED
    BY <1>1, <2>1, UnBloqueMas
<1>4. p * (z + f) = pz + g
  BY <1>1, <1>2, UnBloqueMas
<1>5. pz \in Nat
  BY <1>2
<1> HIDE DEF pz
<1>6. n + pz + (1 + g + v) = (n + 1) + ((pz + g) + v)
  BY <1>1, <1>5
<1> QED
  BY <1>2, <1>3, <1>4, <1>6 DEF pz, z, f, u, g, v

\* What every access does to the clock, the counter of accesses and the
\* metrics, when it leaves no more write-backs to come than it pays for.
LEMMA ContarConserva ==
  ASSUME TypeOK, operacion_actual < MaxAccesos, pc = "simular",
         NEW instruccion, NEW fallo \in BOOLEAN, NEW sucio \in BOOLEAN,
         Contada(instruccion, fallo, sucio),
         Cardinality(Pendientes) \in Nat, Cardinality(Pendientes') \in Nat,
         Cardinality(Pendientes') + Si(sucio, 1) <=
           Cardinality(Pendientes) + Si(instruccion # LECTURA, 1)
  PROVE  /\ ciclos' \in Nat
         /\ operacion_actual' \in 0 .. MaxAccesos
         /\ metricas' \in Metricas
         /\ resultado' \in {0, DESALOJO_LIMPIO, DESALOJO_DIRTY_BIT}
         /\ pc' \in {"simular", "fin"}
         /\ TiempoYTraficoCuadran => TiempoYTraficoCuadran'
<1> DEFINE lee == instruccion = LECTURA
           f == Si(fallo, 1)
           u == Si(sucio, 1)
           e == Si(instruccion # LECTURA, 1)
           costo == 1 + Si(fallo, MISS_PENALTY) + Si(sucio, MISS_PENALTY)
<1>1. /\ ciclos \in Nat /\ operacion_actual \in 0 .. MaxAccesos /\ MaxAccesos \in Nat
      /\ metricas \in Metricas /\ tamanio_bloque \in Nat /\ MISS_PENALTY \in Nat
  BY GeometryAssumption, PenaltyAssumption, BoundAssumption DEF TypeOK
<1>2. costo \in Nat
  BY <1>1 DEF Si
<1>3. /\ ciclos' = ciclos + costo
      /\ operacion_actual' = operacion_actual + 1
      /\ pc' = pc
      /\ resultado' \in {0, DESALOJO_LIMPIO, DESALOJO_DIRTY_BIT}
      /\ metricas' \in Metricas
      /\ metricas'.lecturas = metricas.lecturas + Si(lee, 1)
      /\ metricas'.escrituras = metricas.escrituras + Si(~lee, 1)
      /\ metricas'.misses_read = metricas.misses_read + Si(lee /\ fallo, 1)
      /\ metricas'.misses_write = metricas.misses_write + Si(~lee /\ fallo, 1)
      /\ metricas'.dirty_read_miss = metricas.dirty_read_miss + Si(lee /\ sucio, 1)
      /\ metricas'.dirty_write_miss = metricas.dirty_write_miss + Si(~lee /\ sucio, 1)
      /\ metricas'.bytes_read = metricas.bytes_read + Si(fallo, tamanio_bloque)
      /\ metricas'.bytes_written = metricas.bytes_written + Si(sucio, tamanio_bloque)
      /\ metricas'.ciclos_lecturas = metricas.ciclos_lecturas + Si(lee, costo)
      /\ metricas'.ciclos_escrituras = metricas.ciclos_escrituras + Si(~lee, costo)
  BY DEF Contada
<1>4. /\ metricas.lecturas \in Nat /\ metricas.escrituras \in Nat
      /\ metricas.misses_read \in Nat /\ metricas.misses_write \in Nat
      /\ metricas.dirty_read_miss \in Nat /\ metricas.dirty_write_miss \in Nat
      /\ metricas.ciclos_lecturas \in Nat /\ metricas.ciclos_escrituras \in Nat
  BY <1>1 DEF Metricas
<1>5. /\ lee \in BOOLEAN /\ (~lee) \in BOOLEAN
      /\ f \in {0, 1} /\ Si(fallo, tamanio_bloque) = (IF f = 1 THEN tamanio_bloque ELSE 0)
      /\ u \in {0, 1} /\ Si(sucio, tamanio_bloque) = (IF u = 1 THEN tamanio_bloque ELSE 0)
      /\ e \in {0, 1} /\ Si(~lee, 1) = e
  BY DEF Si
<1>6. /\ Si(lee /\ fallo, 1) + Si(~lee /\ fallo, 1) = f
      /\ Si(lee /\ sucio, 1) + Si(~lee /\ sucio, 1) = u
      /\ Si(lee /\ fallo, 1) \in Nat /\ Si(~lee /\ fallo, 1) \in Nat
      /\ Si(lee /\ sucio, 1) \in Nat /\ Si(~lee /\ sucio, 1) \in Nat
  BY DEF Si
<1>7. Si(lee, costo) + Si(~lee, costo) = costo /\ Si(lee, costo) \in Nat /\ Si(~lee, costo) \in Nat
  BY <1>2 DEF Si
<1>8. ASSUME TiempoYTraficoCuadran  PROVE TiempoYTraficoCuadran'
  <2> DEFINE n == metricas.misses_read + metricas.misses_write
             w == metricas.dirty_read_miss + metricas.dirty_write_miss
  <2>1. /\ metricas.ciclos_lecturas + metricas.ciclos_escrituras = ciclos
        /\ metricas.ciclos_lecturas =
             metricas.lecturas + MISS_PENALTY * (metricas.misses_read + metricas.dirty_read_miss)
        /\ metricas.ciclos_escrituras =
             metricas.escrituras + MISS_PENALTY * (metricas.misses_write + metricas.dirty_write_miss)
        /\ metricas.bytes_read = tamanio_bloque * n
        /\ metricas.bytes_written = tamanio_bloque * w
        /\ w + Cardinality(Pendientes) <= metricas.escrituras
    BY <1>8 DEF TiempoYTraficoCuadran
  <2>2. n \in Nat /\ w \in Nat
    BY <1>4
  <2>3. metricas'.misses_read + metricas'.misses_write = n + f
        /\ metricas'.dirty_read_miss + metricas'.dirty_write_miss = w + u
    <3> HIDE DEF f, u
    <3> QED
      BY <1>3, <1>4, <1>6
  <2>4. metricas'.ciclos_lecturas + metricas'.ciclos_escrituras = ciclos'
    <3> HIDE DEF costo
    <3> QED
      BY <1>2, <1>3, <1>4, <1>7, <2>1
  <2>5. metricas'.ciclos_lecturas =
          metricas'.lecturas + MISS_PENALTY * (metricas'.misses_read + metricas'.dirty_read_miss)
    <3>1. CASE lee
      <4>1. /\ metricas'.ciclos_lecturas = metricas.ciclos_lecturas + costo
            /\ metricas'.lecturas = metricas.lecturas + 1
            /\ metricas'.misses_read = metricas.misses_read + Si(fallo, 1)
            /\ metricas'.dirty_read_miss = metricas.dirty_read_miss + Si(sucio, 1)
        BY <1>3, <3>1 DEF Si
      <4>2. metricas.lecturas + MISS_PENALTY * (metricas.misses_read + metricas.dirty_read_miss) + costo =
            (metricas.lecturas + 1)
              + MISS_PENALTY * ((metricas.misses_read + Si(fallo, 1))
                                  + (metricas.dirty_read_miss + Si(sucio, 1)))
        BY <1>1, <1>4, UnAccesoMas
      <4> QED
        BY <2>1, <4>1, <4>2
    <3>2. CASE ~lee
      <4>1. /\ metricas'.ciclos_lecturas = metricas.ciclos_lecturas
            /\ metricas'.lecturas = metricas.lecturas
            /\ metricas'.misses_read = metricas.misses_read
            /\ metricas'.dirty_read_miss = metricas.dirty_read_miss
        BY <1>3, <1>4, <3>2 DEF Si
      <4> QED
        BY <2>1, <4>1
    <3> QED
      BY <3>1, <3>2
  <2>6. metricas'.ciclos_escrituras =
          metricas'.escrituras + MISS_PENALTY * (metricas'.misses_write + metricas'.dirty_write_miss)
    <3>1. CASE ~lee
      <4>1. /\ metricas'.ciclos_escrituras = metricas.ciclos_escrituras + costo
            /\ metricas'.escrituras = metricas.escrituras + 1
            /\ metricas'.misses_write = metricas.misses_write + Si(fallo, 1)
            /\ metricas'.dirty_write_miss = metricas.dirty_write_miss + Si(sucio, 1)
        BY <1>3, <3>1 DEF Si
      <4>2. metricas.escrituras + MISS_PENALTY * (metricas.misses_write + metricas.dirty_write_miss) + costo =
            (metricas.escrituras + 1)
              + MISS_PENALTY * ((metricas.misses_write + Si(fallo, 1))
                                  + (metricas.dirty_write_miss + Si(sucio, 1)))
        BY <1>1, <1>4, UnAccesoMas
      <4> QED
        BY <2>1, <4>1, <4>2
    <3>2. CASE lee
      <4>1. /\ metricas'.ciclos_escrituras = metricas.ciclos_escrituras
            /\ metricas'.escrituras = metricas.escrituras
            /\ metricas'.misses_write = metricas.misses_write
            /\ metricas'.dirty_write_miss = metricas.dirty_write_miss
        BY <1>3, <1>4, <3>2 DEF Si
      <4> QED
        BY <2>1, <4>1
    <3> QED
      BY <3>1, <3>2
  <2> HIDE DEF n, w, f, u, e, costo
  <2>7. /\ tamanio_bloque * (n + f) = tamanio_bloque * n + (IF f = 1 THEN tamanio_bloque ELSE 0)
        /\ tamanio_bloque * (w + u) = tamanio_bloque * w + (IF u = 1 THEN tamanio_bloque ELSE 0)
    BY <1>1, <1>5, <2>2, UnBloqueMas
  <2>8. /\ metricas'.bytes_read = tamanio_bloque * (n + f)
        /\ metricas'.bytes_written = tamanio_bloque * (w + u)
    BY <1>3, <1>5, <2>1, <2>7
  <2>9. w + u + Cardinality(Pendientes') <= metricas'.escrituras
    <3> DEFINE p == Cardinality(Pendientes)
               q == Cardinality(Pendientes')
    <3>1. p \in Nat /\ q \in Nat /\ q + u <= p + e
      BY DEF u, e
    <3>2. w + p <= metricas.escrituras /\ metricas'.escrituras = metricas.escrituras + e
      BY <1>3, <1>5, <2>1
    <3> HIDE DEF p, q
    <3>3. w + u + q <= metricas'.escrituras
      BY <1>4, <1>5, <2>2, <3>1, <3>2
    <3> QED
      BY <3>3 DEF q
  <2> QED
    BY <2>3, <2>4, <2>5, <2>6, <2>8, <2>9 DEF TiempoYTraficoCuadran
<1> QED
  <2>1. ciclos' \in Nat /\ operacion_actual' \in 0 .. MaxAccesos
    <3> HIDE DEF costo
    <3> QED
      BY <1>1, <1>2, <1>3
  <2> QED
    BY <1>3, <1>8, <2>1

-----------------------------------------------------------------------------
\* The write-backs to come.

\* There are finitely many lines, and only line i of set s may change whether
\* it has a write-back to come.
LEMMA PendientesCambian ==
  ASSUME IInv, NEW s \in Sets, NEW i \in Lineas, NEW l, CambiaLinea(s, i, l)
  PROVE  /\ Cardinality(Pendientes) \in Nat
         /\ Cardinality(Pendientes') \in Nat
         /\ Cardinality(Pendientes') + Si(<<s, i>> \in Pendientes, 1) =
              Cardinality(Pendientes) + Si(l.dirty_bit, 1)
<1> DEFINE P == Pendientes
           R == Pendientes \ {<<s, i>>}
<1>1. /\ l.valido
      /\ lineas' = [lineas EXCEPT ![s] = [@ EXCEPT ![i] = l]]
      /\ lineas \in [Sets -> [Lineas -> Linea]]
  BY DEF CambiaLinea, IInv, TypeOK
<1>2. /\ \A r \in Sets, j \in Lineas : <<r, j>> # <<s, i>> => lineas'[r][j] = lineas[r][j]
      /\ lineas'[s][i] = l
  BY <1>1
<1>3. \A r \in Sets, j \in Lineas :
        /\ <<r, j>> \in Pendientes <=> lineas[r][j].valido /\ lineas[r][j].dirty_bit
        /\ <<r, j>> \in Pendientes' <=> lineas'[r][j].valido /\ lineas'[r][j].dirty_bit
  BY DEF Pendientes, Sucias, Validas
<1>4. Pendientes \subseteq Sets \X Lineas /\ Pendientes' \subseteq Sets \X Lineas
  BY DEF Pendientes
<1>5. Pendientes' = R \cup (IF l.dirty_bit THEN {<<s, i>>} ELSE {})
  <2> DEFINE Q == R \cup (IF l.dirty_bit THEN {<<s, i>>} ELSE {})
  <2>1. ASSUME NEW r \in Sets, NEW j \in Lineas  PROVE <<r, j>> \in Pendientes' <=> <<r, j>> \in Q
    <3>1. CASE <<r, j>> = <<s, i>>
      BY <1>1, <1>2, <1>3, <3>1
    <3>2. CASE <<r, j>> # <<s, i>>
      BY <1>2, <1>3, <3>2
    <3> QED
      BY <3>1, <3>2
  <2>2. Q \subseteq Sets \X Lineas
    BY <1>4
  <2> HIDE DEF Q
  <2>3. Pendientes' = Q
    BY <1>4, <2>1, <2>2
  <2> QED
    BY <2>3 DEF Q
<1>6. IsFiniteSet(Pendientes)
  <2>1. IsFiniteSet(Sets) /\ IsFiniteSet(Lineas)
    <3>1. cantidad_sets - 1 \in Int /\ lineas_por_set - 1 \in Int
      BY GeometryAssumption
    <3> QED
      BY <3>1, FS_Interval DEF Sets, Lineas
  <2>2. IsFiniteSet(Sets \X Lineas)
    BY <2>1, FS_Product
  <2> QED
    BY <1>4, <2>2, FS_Subset
<1>7. IsFiniteSet(R) /\ Cardinality(R) \in Nat /\ Cardinality(Pendientes) \in Nat
      /\ Cardinality(R) = Cardinality(Pendientes) - Si(<<s, i>> \in Pendientes, 1)
  <2>1. IsFiniteSet(R)
        /\ Cardinality(R) = (IF <<s, i>> \in Pendientes THEN Cardinality(Pendientes) - 1
                             ELSE Cardinality(Pendientes))
    BY <1>6, FS_RemoveElement
  <2>2. Cardinality(R) \in Nat /\ Cardinality(Pendientes) \in Nat
    BY <1>6, <2>1, FS_CardinalityType
  <2> QED
    BY <2>1, <2>2 DEF Si
<1>8. <<s, i>> \notin R
  OBVIOUS
<1> HIDE DEF R
<1>9. IsFiniteSet(Pendientes') /\ Cardinality(Pendientes') = Cardinality(R) + Si(l.dirty_bit, 1)
  <2>1. CASE l.dirty_bit
    <3>1. Pendientes' = R \cup {<<s, i>>}
      BY <1>5, <2>1
    <3>2. Cardinality(R \cup {<<s, i>>}) = Cardinality(R) + 1
      BY <1>7, <1>8, FS_AddElement
    <3> QED
      BY <1>7, <2>1, <3>1, <3>2, FS_AddElement DEF Si
  <2>2. CASE ~l.dirty_bit
    BY <1>5, <1>7, <2>2 DEF Si
  <2> QED
    BY <2>1, <2>2
<1> DEFINE p == Cardinality(Pendientes)
           q == Cardinality(Pendientes')
           r == Cardinality(R)
           u == Si(<<s, i>> \in Pendientes, 1)
           d == Si(l.dirty_bit, 1)
<1>10. p \in Nat /\ r \in Nat /\ u \in Nat /\ d \in Nat /\ r = p - u /\ q = r + d
  BY <1>7, <1>9 DEF Si
<1> HIDE DEF p, q, r, u, d
<1>11. q \in Nat /\ q + u = p + d
  BY <1>10
<1> QED
  BY <1>10, <1>11 DEF p, q, u, d

\* A write-back is of a line that had one to come, and only a store leaves one
\* to come that was not there.
Pagada(s, i, l, instruccion, sucio) ==
  /\ sucio => <<s, i>> \in Pendientes
  /\ l.dirty_bit => instruccion # LECTURA \/ (<<s, i>> \in Pendientes /\ ~sucio)

\* Such an access leaves no more write-backs to come than it pays for.
LEMMA PagadaBasta ==
  ASSUME IInv, NEW s \in Sets, NEW i \in Lineas, NEW l, CambiaLinea(s, i, l),
         NEW instruccion, NEW sucio \in BOOLEAN, Pagada(s, i, l, instruccion, sucio)
  PROVE  /\ Cardinality(Pendientes) \in Nat /\ Cardinality(Pendientes') \in Nat
         /\ Cardinality(Pendientes') + Si(sucio, 1) <=
              Cardinality(Pendientes) + Si(instruccion # LECTURA, 1)
<1> DEFINE p == Cardinality(Pendientes)
           q == Cardinality(Pendientes')
           a == Si(<<s, i>> \in Pendientes, 1)
           d == Si(l.dirty_bit, 1)
           u == Si(sucio, 1)
           e == Si(instruccion # LECTURA, 1)
<1>1. p \in Nat /\ q \in Nat /\ q + a = p + d
  BY PendientesCambian
<1>2. a \in {0, 1} /\ d \in {0, 1} /\ u \in {0, 1} /\ e \in {0, 1} /\ u + d <= a + e
  BY DEF Pagada, Si
<1> HIDE DEF p, q, a, d, u, e
<1>3. q + u <= p + e
  BY <1>1, <1>2
<1> QED
  BY <1>1, <1>3 DEF p, q, u, e

-----------------------------------------------------------------------------
\* What each kind of access does to its set.

\* The search of a set returns a valid line that holds the tag, or ERROR when
\* there is none.
LEMMA LeerSet ==
  ASSUME NEW s \in Sets, NEW tag
  PROVE  LET b == leer_set(lineas[s], tag)
         IN  /\ b = ERROR => \A j \in Validas(s) : lineas[s][j].tag # tag
             /\ b # ERROR => b \in Validas(s) /\ lineas[s][b].tag = tag
<1> DEFINE iguales == {i \in Lineas : lineas[s][i].valido /\ lineas[s][i].tag = tag}
<1>1. leer_set(lineas[s], tag) = IF iguales = {} THEN ERROR ELSE Primero(iguales)
  BY DEF leer_set
<1>2. CASE iguales = {}
  BY <1>1, <1>2 DEF Validas
<1>3. CASE iguales # {}
  <2>1. Primero(iguales) \in iguales
    BY <1>3, PrimeroEsElPrimero
  <2>2. Primero(iguales) # ERROR
    BY <2>1, GeometryAssumption DEF Lineas, ERROR
  <2> QED
    BY <1>1, <1>3, <2>1, <2>2 DEF Validas
<1> QED
  BY <1>2, <1>3

\* The verbose mode's note changes nothing else of the set.
LEMMA Anotada ==
  ASSUME TypeOK, NEW s \in Sets, NEW i \in Lineas
  PROVE  LET x == Anotar(lineas[s], i)
         IN  /\ x \in [Lineas -> Linea]
             /\ \A j \in Lineas \ {i} : x[j] = lineas[s][j]
             /\ x[i].tag = lineas[s][i].tag
             /\ x[i].valido = lineas[s][i].valido
             /\ x[i].dirty_bit = lineas[s][i].dirty_bit
             /\ x[i].ultima_operacion = (IF rango_verboso THEN operacion_actual
                                         ELSE lineas[s][i].ultima_operacion)
<1>1. lineas[s] \in [Lineas -> Linea] /\ operacion_actual \in Nat
  BY BoundAssumption DEF TypeOK
<1>2. CASE rango_verboso
  <2> DEFINE y == [lineas[s][i] EXCEPT !.ultima_operacion = operacion_actual]
  <2>1. Anotar(lineas[s], i) = [lineas[s] EXCEPT ![i] = y]
    BY <1>2 DEF Anotar
  <2>2. /\ y \in Linea
        /\ y.tag = lineas[s][i].tag
        /\ y.valido = lineas[s][i].valido
        /\ y.dirty_bit = lineas[s][i].dirty_bit
        /\ y.ultima_operacion = operacion_actual
    BY <1>1 DEF Linea
  <2> HIDE DEF y
  <2> QED
    BY <1>1, <1>2, <2>1, <2>2
<1>3. CASE ~rango_verboso
  BY <1>1, <1>3 DEF Anotar
<1> QED
  BY <1>2, <1>3

\* Line i of set s becomes l, which holds tag.
Usa(s, i, l, tag) ==
  /\ i \in Lineas
  /\ CambiaLinea(s, i, l)
  /\ l.tag = tag

\* A hit stamps the valid line that holds the tag: actualizar_ciclos, which
\* does not look at valido, finds the line that leer_set found.
LEMMA HitUsa ==
  ASSUME IInv, NEW s \in Sets, NEW tag \in Nat, NEW instruccion,
         Hit(s, tag, instruccion)
  PROVE  \E i \in Validas(s) : \E l \in Linea :
           /\ lineas[s][i].tag = tag
           /\ Usa(s, i, l, tag)
           /\ l.dirty_bit = (lineas[s][i].dirty_bit \/ instruccion # LECTURA)
           /\ Contada(instruccion, FALSE, FALSE)
<1> DEFINE b == leer_set(lineas[s], tag)
           x == Anotar(lineas[s], b)
           f == Primero({j \in Lineas : x[j].tag = tag})
           l == [x[b] EXCEPT !.ultimo_ciclo_usado = ciclos + 1,
                             !.valido = TRUE,
                             !.dirty_bit = @ \/ instruccion # LECTURA]
<1>0. /\ TypeOK /\ lineas[s] \in [Lineas -> Linea] /\ ciclos \in Nat
      /\ lineas_ocupadas \in [Sets -> 0 .. lineas_por_set]
      /\ Lineas \subseteq Nat
  BY GeometryAssumption DEF IInv, TypeOK, Lineas
<1>1. b \in Validas(s) /\ lineas[s][b].tag = tag /\ b \in Lineas
  BY LeerSet DEF Hit, Validas
<1>2. /\ x \in [Lineas -> Linea]
      /\ \A j \in Lineas \ {b} : x[j] = lineas[s][j]
      /\ x[b].tag = tag
      /\ x[b].dirty_bit = lineas[s][b].dirty_bit
      /\ x[b].ultima_operacion = (IF rango_verboso THEN operacion_actual
                                  ELSE lineas[s][b].ultima_operacion)
  BY <1>0, <1>1, Anotada
<1>3. lineas' = [lineas EXCEPT ![s] = actualizar_ciclos(x, tag, instruccion)]
  BY DEF Hit
<1>4. ciclos' = ciclos + 1 /\ operacion_actual' = operacion_actual + 1
  BY DEF Hit, Contar
<1> HIDE DEF b, x
<1>5. f = b
  <2> DEFINE I == {j \in Lineas : x[j].tag = tag}
  <2>1. b \in I
    BY <1>1, <1>2
  <2>2. f \in I /\ \A j \in I : f <= j
    BY <2>1, PrimeroEsElPrimero
  <2>3. f <= b /\ f \in Lineas
    BY <2>1, <2>2
  <2> HIDE DEF f
  <2>4. b < lineas_ocupadas[s]
    BY <1>1 DEF IInv, OcupadasPrimero, Validas
  <2>5. f \in Nat /\ b \in Nat /\ lineas_ocupadas[s] \in Nat
    <3>1. lineas_por_set \in Nat
      BY GeometryAssumption
    <3> QED
      BY <1>0, <1>1, <2>3, <3>1
  <2>6. f < lineas_ocupadas[s]
    BY <2>3, <2>4, <2>5
  <2>7. f \in Validas(s)
    BY <2>3, <2>6 DEF IInv, OcupadasPrimero, Validas
  <2>8. lineas[s][f].tag = tag
    <3>1. x[f].tag = tag
      BY <2>2
    <3> QED
      BY <1>1, <1>2, <2>3, <3>1
  <2> QED
    BY <1>1, <2>7, <2>8 DEF IInv, TagsUnicos
<1>6. actualizar_ciclos(x, tag, instruccion) = [x EXCEPT ![b] = l]
  BY <1>1, <1>2, <1>5 DEF actualizar_ciclos
<1>7. [x EXCEPT ![b] = l] = [lineas[s] EXCEPT ![b] = l]
  BY <1>0, <1>2
<1>8. /\ l \in Linea /\ l.valido /\ l.tag = tag
      /\ l.ultimo_ciclo_usado = ciclos + 1
      /\ l.dirty_bit = (lineas[s][b].dirty_bit \/ instruccion # LECTURA)
      /\ l.ultima_operacion = x[b].ultima_operacion
  <2> DEFINE d == x[b].dirty_bit \/ instruccion # LECTURA
  <2>1. d \in BOOLEAN
    OBVIOUS
  <2>2. l = [x[b] EXCEPT !.ultimo_ciclo_usado = ciclos + 1, !.valido = TRUE, !.dirty_bit = d]
    OBVIOUS
  <2>3. x[b] \in Linea
    BY <1>1, <1>2
  <2>4. d = (lineas[s][b].dirty_bit \/ instruccion # LECTURA)
    BY <1>2
  <2> HIDE DEF d, l
  <2>5. ciclos + 1 \in Nat
    BY <1>0
  <2>6. l \in Linea /\ l.valido = TRUE /\ l.tag = tag /\ l.ultimo_ciclo_usado = ciclos + 1 /\ l.dirty_bit = d
        /\ l.ultima_operacion = x[b].ultima_operacion
    BY <1>2, <2>1, <2>2, <2>3, <2>5 DEF Linea
  <2> QED
    BY <2>4, <2>6
<1> HIDE DEF l
<1>9. CambiaLinea(s, b, l)
  <2>1. lineas' = [lineas EXCEPT ![s] = [@ EXCEPT ![b] = l]]
    BY <1>3, <1>6, <1>7
  <2>2. \A j \in Validas(s) \ {b} : lineas[s][j].tag # l.tag
    BY <1>1, <1>8 DEF IInv, TagsUnicos
  <2>3. b < lineas_ocupadas[s] /\ b <= lineas_ocupadas[s]
    BY <1>0, <1>1 DEF IInv, OcupadasPrimero, Validas
  <2>4. lineas_ocupadas' = [lineas_ocupadas EXCEPT ![s] =
          IF b < lineas_ocupadas[s] THEN @ ELSE @ + 1]
    BY <1>0, <2>3 DEF Hit
  <2> QED
    BY <1>0, <1>2, <1>4, <1>8, <2>1, <2>2, <2>3, <2>4 DEF CambiaLinea
<1>10. Contada(instruccion, FALSE, FALSE)
  <2>1. Contar(instruccion, TRUE, 0)
    BY DEF Hit
  <2>2. Contada(instruccion, ~TRUE, ~TRUE /\ 0 = DESALOJO_DIRTY_BIT)
    BY <1>0, <2>1, ContarEsContada
  <2>3. ~TRUE = FALSE /\ (~TRUE /\ 0 = DESALOJO_DIRTY_BIT) = FALSE
    OBVIOUS
  <2> QED
    BY <2>2, <2>3
<1> QED
  BY <1>1, <1>8, <1>9, <1>10 DEF Usa

\* cargar_linea gives the line its tag, its dirty bit and a stamp between the
\* clock's two readings.
LEMMA LineaCargada ==
  ASSUME NEW linea \in Linea, NEW tag \in Nat, NEW instruccion, ciclos \in Nat
  PROVE  LET l == cargar_linea(linea, tag, instruccion)
         IN  /\ l \in Linea /\ l.valido = TRUE /\ l.tag = tag
             /\ l.dirty_bit = (instruccion # LECTURA)
             /\ l.ultima_operacion = linea.ultima_operacion
             /\ ciclos < l.ultimo_ciclo_usado
             /\ l.ultimo_ciclo_usado <=
                  ciclos + (1 + MISS_PENALTY + (IF linea.dirty_bit THEN MISS_PENALTY ELSE 0))
<1> DEFINE d == instruccion # LECTURA
           n == ciclos + MISS_PENALTY + 1
                  + (IF linea.dirty_bit /\ instruccion # LECTURA THEN MISS_PENALTY ELSE 0)
<1>1. cargar_linea(linea, tag, instruccion) =
        [linea EXCEPT !.valido = TRUE, !.tag = tag, !.ultimo_ciclo_usado = n, !.dirty_bit = d]
  BY DEF cargar_linea
<1>2. d \in BOOLEAN
  OBVIOUS
<1>3. /\ n \in Nat /\ ciclos < n
      /\ n <= ciclos + (1 + MISS_PENALTY + (IF linea.dirty_bit THEN MISS_PENALTY ELSE 0))
  BY PenaltyAssumption
<1> HIDE DEF n
<1>4. d = (instruccion # LECTURA)
  OBVIOUS
<1> HIDE DEF d
<1> DEFINE l == [linea EXCEPT !.valido = TRUE, !.tag = tag, !.ultimo_ciclo_usado = n, !.dirty_bit = d]
<1>5. l \in Linea /\ l.valido = TRUE /\ l.tag = tag /\ l.dirty_bit = d /\ l.ultimo_ciclo_usado = n
      /\ l.ultima_operacion = linea.ultima_operacion
  BY <1>2, <1>3 DEF Linea
<1> HIDE DEF l
<1> QED
  BY <1>1, <1>3, <1>4, <1>5 DEF l

\* A miss with room fills the line after the valid ones.
LEMMA MissLibreUsa ==
  ASSUME IInv, NEW s \in Sets, NEW tag \in Nat, NEW instruccion,
         MissLibre(s, tag, instruccion)
  PROVE  /\ \A j \in Validas(s) : lineas[s][j].tag # tag
         /\ lineas_ocupadas[s] < lineas_por_set
         /\ \E i \in Lineas \ Validas(s) : \E l \in Linea :
              Usa(s, i, l, tag) /\ l.dirty_bit = (instruccion # LECTURA)
         /\ Contada(instruccion, TRUE, FALSE)
<1> DEFINE i == linea_no_valida(lineas[s])
           x == Anotar(lineas[s], i)
           l == cargar_linea(x[i], tag, instruccion)
<1>0. /\ TypeOK /\ lineas[s] \in [Lineas -> Linea] /\ ciclos \in Nat
      /\ lineas_ocupadas \in [Sets -> 0 .. lineas_por_set]
      /\ lineas_ocupadas[s] \in 0 .. lineas_por_set
      /\ lineas_por_set \in Nat
      /\ Lineas \subseteq Nat
  BY GeometryAssumption DEF IInv, TypeOK, Lineas
<1>1. /\ leer_set(lineas[s], tag) = ERROR
      /\ NoValidas(lineas[s]) # {}
      /\ lineas' = [lineas EXCEPT ![s] = [x EXCEPT ![i] = l]]
      /\ lineas_ocupadas' = [lineas_ocupadas EXCEPT ![s] = @ + 1]
      /\ ciclos' = ciclos + (1 + MISS_PENALTY + 0)
      /\ operacion_actual' = operacion_actual + 1
  <2>1. Contar(instruccion, FALSE, DESALOJO_LIMPIO)
    BY DEF MissLibre
  <2>2. /\ ciclos' = ciclos + (MISS_PENALTY + 1 + 0)
        /\ operacion_actual' = operacion_actual + 1
    BY <2>1 DEF Contar, DESALOJO_LIMPIO, DESALOJO_DIRTY_BIT
  <2>3. MISS_PENALTY + 1 + 0 = 1 + MISS_PENALTY + 0
    BY PenaltyAssumption
  <2> QED
    BY <1>0, <2>2, <2>3 DEF MissLibre
<1>2. \A j \in Validas(s) : lineas[s][j].tag # tag
  BY <1>1, LeerSet
<1>3. /\ i \in NoValidas(lineas[s])
      /\ \A j \in NoValidas(lineas[s]) : i <= j
  <2>1. NoValidas(lineas[s]) \subseteq Lineas
    BY DEF NoValidas
  <2> QED
    BY <1>1, <2>1, PrimeroEsElPrimero DEF linea_no_valida
<1> HIDE DEF i
<1>4. i \in Lineas /\ ~lineas[s][i].valido /\ i \notin Validas(s)
  BY <1>3 DEF NoValidas, Validas
<1>5. i = lineas_ocupadas[s] /\ lineas_ocupadas[s] < lineas_por_set
  <2>1. ~ (i < lineas_ocupadas[s])
    BY <1>4 DEF IInv, OcupadasPrimero
  <2>2. i \in 0 .. lineas_por_set - 1
    BY <1>4 DEF Lineas
  <2>3. lineas_ocupadas[s] \in Lineas
    BY <1>0, <2>1, <2>2 DEF Lineas
  <2>4. ~ (lineas_ocupadas[s] < lineas_ocupadas[s])
    BY <1>0
  <2>5. lineas_ocupadas[s] \in NoValidas(lineas[s])
    BY <2>3, <2>4 DEF IInv, OcupadasPrimero, NoValidas
  <2>6. i <= lineas_ocupadas[s]
    BY <1>3, <2>5
  <2> QED
    BY <1>0, <2>1, <2>2, <2>6
<1>6. /\ x \in [Lineas -> Linea] /\ x[i] \in Linea
      /\ \A j \in Lineas \ {i} : x[j] = lineas[s][j]
      /\ x[i].dirty_bit = FALSE
      /\ x[i].ultima_operacion = (IF rango_verboso THEN operacion_actual
                                  ELSE lineas[s][i].ultima_operacion)
  <2>1. lineas[s][i].dirty_bit = FALSE
    BY <1>0, <1>4 DEF IInv, LibresLimpias, Linea
  <2> QED
    BY <1>0, <1>4, <2>1, Anotada
<1> HIDE DEF x
<1>7. /\ l \in Linea /\ l.valido = TRUE /\ l.tag = tag
      /\ l.dirty_bit = (instruccion # LECTURA)
      /\ l.ultima_operacion = x[i].ultima_operacion
      /\ ciclos < l.ultimo_ciclo_usado
      /\ l.ultimo_ciclo_usado <= ciclos + (1 + MISS_PENALTY + 0)
  <2>1. /\ l \in Linea /\ l.valido = TRUE /\ l.tag = tag
        /\ l.dirty_bit = (instruccion # LECTURA)
        /\ l.ultima_operacion = x[i].ultima_operacion
        /\ ciclos < l.ultimo_ciclo_usado
        /\ l.ultimo_ciclo_usado <=
             ciclos + (1 + MISS_PENALTY + (IF x[i].dirty_bit THEN MISS_PENALTY ELSE 0))
    BY <1>0, <1>6, LineaCargada
  <2> HIDE DEF l
  <2> QED
    BY <1>6, <2>1
<1> HIDE DEF l
<1>8. [x EXCEPT ![i] = l] = [lineas[s] EXCEPT ![i] = l]
  BY <1>0, <1>4, <1>6
<1>9. CambiaLinea(s, i, l)
  <2>1. lineas' = [lineas EXCEPT ![s] = [@ EXCEPT ![i] = l]]
    BY <1>1, <1>8
  <2>2. lineas_ocupadas' = [lineas_ocupadas EXCEPT ![s] =
          IF i < lineas_ocupadas[s] THEN @ ELSE @ + 1]
    <3>1. ~ (i < lineas_ocupadas[s])
      BY <1>0, <1>5
    <3> QED
      BY <1>1, <3>1
  <2>3. ciclos' \in Nat /\ l.ultimo_ciclo_usado > ciclos /\ l.ultimo_ciclo_usado <= ciclos'
    <3>1. l.ultimo_ciclo_usado \in Nat
      BY <1>7 DEF Linea
    <3> QED
      BY <1>0, <1>1, <1>7, <3>1, PenaltyAssumption
  <2>4. /\ operacion_actual' = operacion_actual + 1
        /\ l.ultima_operacion = (IF rango_verboso THEN operacion_actual
                                 ELSE lineas[s][i].ultima_operacion)
    BY <1>1, <1>6, <1>7
  <2>5. i <= lineas_ocupadas[s]
    BY <1>0, <1>5
  <2> QED
    BY <1>2, <1>7, <2>1, <2>2, <2>3, <2>4, <2>5 DEF CambiaLinea
<1>10. Contada(instruccion, TRUE, FALSE)
  <2>1. Contar(instruccion, FALSE, DESALOJO_LIMPIO)
    BY DEF MissLibre
  <2>2. Contada(instruccion, ~FALSE, ~FALSE /\ DESALOJO_LIMPIO = DESALOJO_DIRTY_BIT)
    BY <1>0, <2>1, ContarEsContada
  <2>3. ~FALSE = TRUE /\ (~FALSE /\ DESALOJO_LIMPIO = DESALOJO_DIRTY_BIT) = FALSE
    BY DEF DESALOJO_LIMPIO, DESALOJO_DIRTY_BIT
  <2> QED
    BY <2>2, <2>3
<1> QED
  BY <1>2, <1>4, <1>5, <1>7, <1>9, <1>10 DEF Usa

\* A miss in a full set replaces the valid line with the least stamp.
LEMMA MissDesalojoUsa ==
  ASSUME IInv, NEW s \in Sets, NEW tag \in Nat, NEW instruccion,
         MissDesalojo(s, tag, instruccion)
  PROVE  /\ \A j \in Validas(s) : lineas[s][j].tag # tag
         /\ Validas(s) = Lineas
         /\ \E i \in Validas(s) : \E l \in Linea :
              /\ Usa(s, i, l, tag)
              /\ l.dirty_bit = (instruccion # LECTURA)
              /\ \A j \in Lineas : lineas[s][i].ultimo_ciclo_usado <= lineas[s][j].ultimo_ciclo_usado
              /\ Contada(instruccion, TRUE, lineas[s][i].dirty_bit)
<1> DEFINE i == linea_a_desalojar(lineas[s])
           x == Anotar(lineas[s], i)
           l == cargar_linea(x[i], tag, instruccion)
           D == {k \in Lineas : \A j \in Lineas :
                   lineas[s][k].ultimo_ciclo_usado <= lineas[s][j].ultimo_ciclo_usado}
<1>0. /\ TypeOK /\ lineas[s] \in [Lineas -> Linea] /\ ciclos \in Nat
      /\ lineas_ocupadas \in [Sets -> 0 .. lineas_por_set]
      /\ lineas_ocupadas[s] \in 0 .. lineas_por_set
      /\ lineas_por_set \in Nat \ {0}
      /\ Lineas \subseteq Nat
      /\ 0 \in Lineas
  BY GeometryAssumption DEF IInv, TypeOK, Lineas
<1>1. /\ leer_set(lineas[s], tag) = ERROR
      /\ NoValidas(lineas[s]) = {}
      /\ lineas' = [lineas EXCEPT ![s] = [x EXCEPT ![i] = l]]
      /\ lineas_ocupadas' = lineas_ocupadas
      /\ Contar(instruccion, FALSE,
                IF lineas[s][i].dirty_bit THEN DESALOJO_DIRTY_BIT ELSE DESALOJO_LIMPIO)
  BY <1>0 DEF MissDesalojo
<1>2. \A j \in Validas(s) : lineas[s][j].tag # tag
  BY <1>1, LeerSet
<1>3. Validas(s) = Lineas
  BY <1>1 DEF NoValidas, Validas
<1>4. D # {}
  <2> DEFINE T == {lineas[s][k].ultimo_ciclo_usado : k \in Lineas}
  <2>1. T \subseteq Nat /\ T # {}
    BY <1>0 DEF Linea
  <2>2. PICK u \in T : \A v \in T : u <= v
    BY <2>1, Minimo
  <2>3. PICK k \in Lineas : lineas[s][k].ultimo_ciclo_usado = u
    BY <2>2
  <2>4. k \in D
    BY <2>2, <2>3
  <2> QED
    BY <2>4
<1>5. i \in D
  <2>1. D \subseteq Lineas
    OBVIOUS
  <2>2. i = Primero(D)
    BY DEF linea_a_desalojar
  <2> HIDE DEF i, D
  <2> QED
    BY <1>4, <2>1, <2>2, PrimeroEsElPrimero
<1> HIDE DEF i
<1>6. /\ i \in Lineas
      /\ \A j \in Lineas : lineas[s][i].ultimo_ciclo_usado <= lineas[s][j].ultimo_ciclo_usado
  BY <1>5
<1>7. i < lineas_ocupadas[s]
  BY <1>3, <1>6 DEF IInv, OcupadasPrimero, Validas
<1>8. /\ x \in [Lineas -> Linea] /\ x[i] \in Linea
      /\ \A j \in Lineas \ {i} : x[j] = lineas[s][j]
      /\ x[i].dirty_bit = lineas[s][i].dirty_bit
      /\ x[i].ultima_operacion = (IF rango_verboso THEN operacion_actual
                                  ELSE lineas[s][i].ultima_operacion)
  BY <1>0, <1>6, Anotada
<1> HIDE DEF x, D
<1>9. /\ l \in Linea /\ l.valido = TRUE /\ l.tag = tag
      /\ l.dirty_bit = (instruccion # LECTURA)
      /\ l.ultima_operacion = x[i].ultima_operacion
      /\ ciclos < l.ultimo_ciclo_usado
      /\ l.ultimo_ciclo_usado <=
           ciclos + (1 + MISS_PENALTY + (IF lineas[s][i].dirty_bit THEN MISS_PENALTY ELSE 0))
  <2>1. /\ l \in Linea /\ l.valido = TRUE /\ l.tag = tag
        /\ l.dirty_bit = (instruccion # LECTURA)
        /\ l.ultima_operacion = x[i].ultima_operacion
        /\ ciclos < l.ultimo_ciclo_usado
        /\ l.ultimo_ciclo_usado <=
             ciclos + (1 + MISS_PENALTY + (IF x[i].dirty_bit THEN MISS_PENALTY ELSE 0))
    BY <1>0, <1>8, LineaCargada
  <2> HIDE DEF l
  <2> QED
    BY <1>8, <2>1
<1> HIDE DEF l
<1>10. [x EXCEPT ![i] = l] = [lineas[s] EXCEPT ![i] = l]
  BY <1>0, <1>6, <1>8
<1>11. Contada(instruccion, TRUE, lineas[s][i].dirty_bit)
  <2> DEFINE d == IF lineas[s][i].dirty_bit THEN DESALOJO_DIRTY_BIT ELSE DESALOJO_LIMPIO
  <2>1. d \in {0, DESALOJO_LIMPIO, DESALOJO_DIRTY_BIT}
    OBVIOUS
  <2>2. Contada(instruccion, ~FALSE, ~FALSE /\ d = DESALOJO_DIRTY_BIT)
    <3>1. Contar(instruccion, FALSE, d)
      BY <1>1
    <3> HIDE DEF d
    <3> QED
      BY <1>0, <2>1, <3>1, ContarEsContada
  <2>3. ~FALSE = TRUE /\ (~FALSE /\ d = DESALOJO_DIRTY_BIT) = lineas[s][i].dirty_bit
    <3>1. lineas[s][i].dirty_bit \in BOOLEAN
      BY <1>0, <1>6 DEF Linea
    <3> QED
      BY <3>1 DEF DESALOJO_LIMPIO, DESALOJO_DIRTY_BIT
  <2> HIDE DEF d
  <2> QED
    BY <2>2, <2>3
<1>12. CambiaLinea(s, i, l)
  <2>1. lineas' = [lineas EXCEPT ![s] = [@ EXCEPT ![i] = l]]
    BY <1>1, <1>10
  <2>2. lineas_ocupadas' = [lineas_ocupadas EXCEPT ![s] =
          IF i < lineas_ocupadas[s] THEN @ ELSE @ + 1]
    BY <1>0, <1>1, <1>7
  <2>3. ciclos' \in Nat /\ l.ultimo_ciclo_usado > ciclos /\ l.ultimo_ciclo_usado <= ciclos'
    <3>1. ciclos' = ciclos + (1 + MISS_PENALTY
                                + (IF lineas[s][i].dirty_bit THEN MISS_PENALTY ELSE 0))
      BY <1>11 DEF Contada, Si
    <3>2. l.ultimo_ciclo_usado \in Nat
      BY <1>9 DEF Linea
    <3> QED
      BY <1>0, <1>9, <3>1, <3>2, PenaltyAssumption
  <2>4. i <= lineas_ocupadas[s]
    <3>1. i \in Nat /\ lineas_ocupadas[s] \in Nat
      BY <1>0, <1>6
    <3> QED
      BY <1>7, <3>1
  <2>5. operacion_actual' = operacion_actual + 1
    BY <1>1 DEF Contar
  <2> QED
    BY <1>0, <1>2, <1>8, <1>9, <2>1, <2>2, <2>3, <2>4, <2>5 DEF CambiaLinea
<1>13. Usa(s, i, l, tag) /\ l.dirty_bit = (instruccion # LECTURA)
  BY <1>6, <1>9, <1>12 DEF Usa
<1> QED
  BY <1>2, <1>3, <1>6, <1>9, <1>13, <1>11

-----------------------------------------------------------------------------
\* The invariant is inductive.

\* crear_cache's empty cache satisfies it.
LEMMA Inicio == Init => IInv /\ TiempoYTraficoCuadran
<1> SUFFICES ASSUME Init  PROVE IInv /\ TiempoYTraficoCuadran
  OBVIOUS
<1>1. lineas_por_set \in Nat \ {0} /\ MaxAccesos \in Nat /\ tamanio_bloque \in Nat
  BY GeometryAssumption, BoundAssumption
<1>2. \A s \in Sets : \A i \in Lineas : lineas[s][i] =
        [tag |-> 0, valido |-> FALSE, dirty_bit |-> FALSE,
         ultimo_ciclo_usado |-> 0, ultima_operacion |-> 0]
  BY DEF Init
<1>3. \A s \in Sets : Validas(s) = {}
  BY <1>2 DEF Validas
<1>4. TypeOK
  <2>1. lineas \in [Sets -> [Lineas -> Linea]]
    BY DEF Init, Linea
  <2>2. lineas_ocupadas \in [Sets -> 0 .. lineas_por_set]
    BY <1>1 DEF Init
  <2>3. metricas \in Metricas
    BY DEF Init, Metricas
  <2> QED
    BY <1>1, <2>1, <2>2, <2>3 DEF Init, TypeOK
<1>5. OcupadasPrimero
  <2> SUFFICES ASSUME NEW s \in Sets, NEW i \in Lineas
               PROVE  ~ lineas[s][i].valido /\ ~ (i < lineas_ocupadas[s])
    BY DEF OcupadasPrimero
  <2>1. lineas_ocupadas[s] = 0
    BY DEF Init
  <2>2. ~ (i < 0)
    BY <1>1 DEF Lineas
  <2> QED
    BY <1>2, <2>1, <2>2
<1>6. TagsUnicos /\ SellosOrdenados
  BY <1>3 DEF TagsUnicos, SellosOrdenados
<1>7. LibresLimpias
  BY <1>2 DEF LibresLimpias
<1>8. TiempoYTraficoCuadran
  <2>1. Pendientes = {}
    BY <1>3 DEF Pendientes, Sucias
  <2>2. Cardinality(Pendientes) = 0
    BY <2>1, FS_EmptySet
  <2> QED
    BY <1>1, <2>2, PenaltyAssumption DEF Init, TiempoYTraficoCuadran
<1>9. NotasPasadas
  BY <1>2 DEF Init, NotasPasadas
<1>10. NotasEnOrden
  BY <1>3 DEF NotasEnOrden
<1> QED
  BY <1>4, <1>5, <1>6, <1>7, <1>8, <1>9, <1>10 DEF IInv

\* One iteration of the simulation loop keeps it.
LEMMA AccesoConserva ==
  ASSUME IInv, NEW direccion \in Direcciones, NEW instruccion \in Instrucciones,
         Acceso(direccion, instruccion)
  PROVE  IInv' /\ (TiempoYTraficoCuadran => TiempoYTraficoCuadran')
<1> DEFINE s == calcular_set(direccion)
           tag == calcular_tag(direccion)
<1>1. s \in Sets /\ tag \in Nat
  BY DireccionPartida
<1>2. /\ pc = "simular" /\ operacion_actual < MaxAccesos
      /\ traza' = [direccion_accedida |-> direccion, instruccion |-> instruccion]
      /\ \/ Hit(s, tag, instruccion)
         \/ MissLibre(s, tag, instruccion)
         \/ MissDesalojo(s, tag, instruccion)
  BY DEF Acceso
<1> HIDE DEF s, tag
<1>3. \E i \in Lineas : \E l : \E fallo, sucio \in BOOLEAN :
        /\ CambiaLinea(s, i, l)
        /\ Pagada(s, i, l, instruccion, sucio)
        /\ Contada(instruccion, fallo, sucio)
  <2>0. \A i \in Validas(s) :
          /\ i \in Lineas
          /\ lineas[s][i].dirty_bit \in BOOLEAN
          /\ <<s, i>> \in Pendientes <=> lineas[s][i].dirty_bit
    BY <1>1 DEF IInv, TypeOK, Linea, Validas, Sucias, Pendientes
  <2>1. CASE Hit(s, tag, instruccion)
    <3>1. PICK i \in Validas(s), l \in Linea :
            /\ Usa(s, i, l, tag)
            /\ l.dirty_bit = (lineas[s][i].dirty_bit \/ instruccion # LECTURA)
            /\ Contada(instruccion, FALSE, FALSE)
      BY <1>1, <2>1, HitUsa
    <3>2. Pagada(s, i, l, instruccion, FALSE)
      BY <2>0, <3>1 DEF Pagada
    <3>3. CambiaLinea(s, i, l) /\ i \in Lineas
      BY <3>1 DEF Usa
    <3> QED
      BY <3>1, <3>2, <3>3
  <2>2. CASE MissLibre(s, tag, instruccion)
    <3>1. PICK i \in Lineas \ Validas(s), l \in Linea :
            Usa(s, i, l, tag) /\ l.dirty_bit = (instruccion # LECTURA)
      BY <1>1, <2>2, MissLibreUsa
    <3>2. Pagada(s, i, l, instruccion, FALSE)
      BY <3>1 DEF Pagada
    <3>3. CambiaLinea(s, i, l) /\ Contada(instruccion, TRUE, FALSE)
      BY <1>1, <2>2, <3>1, MissLibreUsa DEF Usa
    <3> QED
      BY <3>2, <3>3
  <2>3. CASE MissDesalojo(s, tag, instruccion)
    <3>1. PICK i \in Validas(s), l \in Linea :
            /\ Usa(s, i, l, tag)
            /\ l.dirty_bit = (instruccion # LECTURA)
            /\ Contada(instruccion, TRUE, lineas[s][i].dirty_bit)
      BY <1>1, <2>3, MissDesalojoUsa
    <3>2. Pagada(s, i, l, instruccion, lineas[s][i].dirty_bit)
      BY <2>0, <3>1 DEF Pagada
    <3>3. CambiaLinea(s, i, l)
      BY <3>1 DEF Usa
    <3>4. i \in Lineas
      BY <2>0
    <3>5. lineas[s][i].dirty_bit \in BOOLEAN
      BY <2>0
    <3> QED
      BY <3>1, <3>2, <3>3, <3>4, <3>5, Zenon
  <2> QED
    BY <1>2, <2>1, <2>2, <2>3
<1>4. PICK i \in Lineas : \E l : \E fallo, sucio \in BOOLEAN :
        /\ CambiaLinea(s, i, l)
        /\ Pagada(s, i, l, instruccion, sucio)
        /\ Contada(instruccion, fallo, sucio)
  BY <1>3
<1>5. PICK l : \E fallo, sucio \in BOOLEAN :
        /\ CambiaLinea(s, i, l)
        /\ Pagada(s, i, l, instruccion, sucio)
        /\ Contada(instruccion, fallo, sucio)
  BY <1>4
<1>6. PICK fallo \in BOOLEAN, sucio \in BOOLEAN :
        /\ CambiaLinea(s, i, l)
        /\ Pagada(s, i, l, instruccion, sucio)
        /\ Contada(instruccion, fallo, sucio)
  BY <1>5
<1>7. /\ lineas' \in [Sets -> [Lineas -> Linea]]
      /\ lineas_ocupadas' \in [Sets -> 0 .. lineas_por_set]
      /\ OcupadasPrimero' /\ TagsUnicos' /\ SellosOrdenados' /\ LibresLimpias'
      /\ NotasPasadas' /\ NotasEnOrden'
  BY <1>1, <1>6, CambiaLineaConserva
<1>8. /\ ciclos' \in Nat
      /\ operacion_actual' \in 0 .. MaxAccesos
      /\ metricas' \in Metricas
      /\ resultado' \in {0, DESALOJO_LIMPIO, DESALOJO_DIRTY_BIT}
      /\ pc' \in {"simular", "fin"}
      /\ TiempoYTraficoCuadran => TiempoYTraficoCuadran'
  <2>1. /\ Cardinality(Pendientes) \in Nat /\ Cardinality(Pendientes') \in Nat
        /\ Cardinality(Pendientes') + Si(sucio, 1) <=
             Cardinality(Pendientes) + Si(instruccion # LECTURA, 1)
    BY <1>1, <1>6, PagadaBasta
  <2> QED
    BY <1>2, <1>6, <2>1, ContarConserva DEF IInv
<1>9. traza' \in [direccion_accedida : Direcciones, instruccion : Instrucciones] \cup {SinTraza}
  BY <1>2
<1> QED
  BY <1>7, <1>8, <1>9 DEF IInv, TypeOK

\* Adding up the totals changes no property of the sets.
LEMMA MostrarConserva ==
  ASSUME IInv, mostrar_metricas
  PROVE  IInv' /\ (TiempoYTraficoCuadran => TiempoYTraficoCuadran')
<1> DEFINE a == metricas.lecturas + metricas.escrituras
           t == metricas.misses_read + metricas.misses_write
<1>1. metricas \in Metricas
  BY DEF IInv, TypeOK
<1>2. a \in Nat /\ t \in Nat
  BY <1>1 DEF Metricas
<1>3. metricas' = [metricas EXCEPT !.total_accesos = a, !.total_misses = t]
  BY DEF mostrar_metricas
<1> HIDE DEF a, t
<1>4. metricas' \in Metricas
  BY <1>1, <1>2, <1>3, Contadores
<1>5. /\ metricas'.lecturas = metricas.lecturas
      /\ metricas'.escrituras = metricas.escrituras
      /\ metricas'.ciclos_lecturas = metricas.ciclos_lecturas
      /\ metricas'.ciclos_escrituras = metricas.ciclos_escrituras
      /\ metricas'.bytes_read = metricas.bytes_read
      /\ metricas'.bytes_written = metricas.bytes_written
      /\ metricas'.misses_read = metricas.misses_read
      /\ metricas'.misses_write = metricas.misses_write
      /\ metricas'.dirty_read_miss = metricas.dirty_read_miss
      /\ metricas'.dirty_write_miss = metricas.dirty_write_miss
  BY <1>1, <1>3 DEF Metricas
<1>6. TypeOK'
  BY <1>4 DEF IInv, TypeOK, mostrar_metricas
<1>7. OcupadasPrimero' /\ LibresLimpias'
  BY DEF IInv, OcupadasPrimero, LibresLimpias, mostrar_metricas
<1>8. TagsUnicos' /\ SellosOrdenados'
  BY DEF IInv, TagsUnicos, SellosOrdenados, Validas, mostrar_metricas
<1>9. TiempoYTraficoCuadran => TiempoYTraficoCuadran'
  <2>1. Pendientes' = Pendientes /\ ciclos' = ciclos
    BY DEF Pendientes, Sucias, Validas, mostrar_metricas
  <2> QED
    BY <1>5, <2>1 DEF TiempoYTraficoCuadran
<1>10. NotasPasadas' /\ NotasEnOrden'
  BY DEF IInv, NotasPasadas, NotasEnOrden, Validas, mostrar_metricas
<1> QED
  BY <1>6, <1>7, <1>8, <1>9, <1>10 DEF IInv

\* Every step of the simulator keeps it.
LEMMA PasoConserva ==
  IInv /\ TiempoYTraficoCuadran /\ [Next]_vars => IInv' /\ TiempoYTraficoCuadran'
<1> SUFFICES ASSUME IInv, TiempoYTraficoCuadran, [Next]_vars
             PROVE  IInv' /\ TiempoYTraficoCuadran'
  OBVIOUS
<1>1. CASE \E direccion \in Direcciones, instruccion \in Instrucciones : Acceso(direccion, instruccion)
  BY <1>1, AccesoConserva
<1>2. CASE mostrar_metricas
  BY <1>2, MostrarConserva
<1>3. CASE UNCHANGED vars
  <2> USE <1>3 DEF vars
  <2>1. TypeOK'
    BY DEF IInv, TypeOK
  <2>2. OcupadasPrimero' /\ LibresLimpias'
    BY DEF IInv, OcupadasPrimero, LibresLimpias
  <2>3. TagsUnicos' /\ SellosOrdenados'
    BY DEF IInv, TagsUnicos, SellosOrdenados, Validas
  <2>4. TiempoYTraficoCuadran'
    <3>1. Pendientes' = Pendientes
      BY DEF Pendientes, Sucias, Validas
    <3> QED
      BY <3>1 DEF TiempoYTraficoCuadran
  <2>5. NotasPasadas' /\ NotasEnOrden'
    BY DEF IInv, NotasPasadas, NotasEnOrden, Validas
  <2> QED
    BY <2>1, <2>2, <2>3, <2>4, <2>5 DEF IInv
<1> QED
  BY <1>1, <1>2, <1>3 DEF Next

\* Every reachable state of the simulator satisfies the invariant.
LEMMA Invariante == Spec => [](IInv /\ TiempoYTraficoCuadran)
BY Inicio, PasoConserva, PTL DEF Spec

\* The simulator's state stays within its types: in particular no counter of
\* used lines passes the number of lines of a set.
THEOREM TiposCorrectos == Spec => []TypeOK
<1>1. IInv => TypeOK
  BY DEF IInv
<1> QED
  BY <1>1, Invariante, PTL

\* The valid lines of every set are its first lineas_ocupadas, hold different
\* tags, and carry different stamps none of which is ahead of the clock.
THEOREM ConjuntosCorrectos == Spec => [](OcupadasPrimero /\ TagsUnicos /\ SellosOrdenados)
<1>1. IInv => OcupadasPrimero /\ TagsUnicos /\ SellosOrdenados
  BY DEF IInv
<1> QED
  BY <1>1, Invariante, PTL

\* The times and the traffic that actualizar_metricas adds up are the clock's
\* and the misses' and write-backs', after every access.
THEOREM MetricasCuadran == Spec => []TiempoYTraficoCuadran
BY Invariante, PTL

\* The number the verbose mode prints for a line orders the lines of a set as
\* the stamps do, for as long as every use of a line is noted, whatever the
\* range: a line refilled from before the range, or never noted, does not
\* pass for a recent one.
THEOREM NotasOrdenadas == Spec => []NotasEnOrden
<1>1. IInv => NotasEnOrden
  BY DEF IInv
<1> QED
  BY <1>1, Invariante, PTL

-----------------------------------------------------------------------------
(***************************************************************************)
(* The cache simulator implements the least-recently-used cache of LRU.    *)
(***************************************************************************)

\* What LRU sees of a set.

\* The tags of the valid lines of set s other than i, of the dirty ones among
\* them, and the order of two lines' last uses.
Otros(s, i) == {lineas[s][j].tag : j \in Validas(s) \ {i}}
OtrosSucios(s, i) == {lineas[s][j].tag : j \in Sucias(s) \ {i}}
Antes(s, j, k) == lineas[s][j].ultimo_ciclo_usado < lineas[s][k].ultimo_ciclo_usado

\* A pair of tags is in the order exactly when their lines' stamps are.
LEMMA ParEnOrden ==
  ASSUME NEW s \in Sets, NEW p
  PROVE  p \in MasViejos[s] <=>
           \E j, k \in Validas(s) : p = <<lineas[s][j].tag, lineas[s][k].tag>> /\ Antes(s, j, k)
BY DEF MasViejos, Residentes, Antes

\* A set holds as many tags as lines in use, since no two valid lines hold
\* the same tag.
LEMMA TagsContados ==
  ASSUME IInv, NEW s \in Sets
  PROVE  Cardinality(Residentes[s]) = lineas_ocupadas[s]
<1> DEFINE n == lineas_ocupadas[s]
           f == [i \in Validas(s) |-> lineas[s][i].tag]
<1>1. n \in 0 .. lineas_por_set /\ lineas_por_set \in Nat
  BY GeometryAssumption DEF IInv, TypeOK
<1>2. Validas(s) = 0 .. n - 1
  <2>1. \A i \in Lineas : lineas[s][i].valido <=> i < n
    BY DEF IInv, OcupadasPrimero
  <2> HIDE DEF n
  <2> QED
    BY <1>1, <2>1 DEF Validas, Lineas
<1> HIDE DEF n
<1>3. IsFiniteSet(Validas(s)) /\ Cardinality(Validas(s)) = n
  <2>1. IsFiniteSet(0 .. n - 1) /\ Cardinality(0 .. n - 1) = (IF 0 > n - 1 THEN 0 ELSE n - 1 - 0 + 1)
    BY <1>1, FS_Interval
  <2> QED
    BY <1>1, <1>2, <2>1
<1>4. Residentes[s] = {lineas[s][i].tag : i \in Validas(s)}
  BY DEF Residentes
<1>5. f \in Surjection(Validas(s), Residentes[s])
  BY <1>4 DEF Surjection
<1>6. f \in Injection(Validas(s), Residentes[s])
  BY <1>4 DEF Injection, IsInjective, IInv, TagsUnicos
<1> HIDE DEF f
<1>7. Cardinality(Residentes[s]) = Cardinality(Validas(s))
  BY <1>3, <1>5, <1>6, FS_Surjection
<1> QED
  BY <1>3, <1>7 DEF n

\* When an access uses line i for tag, the set holds tag and what its other
\* lines held, tag is the last used and the others keep their order.
LEMMA UsaEnAbstracto ==
  ASSUME IInv, NEW s \in Sets, NEW i \in Lineas, NEW l \in Linea,
         NEW tag \in Nat, Usa(s, i, l, tag)
  PROVE  /\ tag \notin Otros(s, i)
         /\ Residentes' = [Residentes EXCEPT ![s] = Otros(s, i) \cup {tag}]
         /\ MasViejos' = [MasViejos EXCEPT ![s] =
              {p \in @ : p[1] \in Otros(s, i) /\ p[2] \in Otros(s, i)} \cup (Otros(s, i) \X {tag})]
         /\ TagsSucios' = [TagsSucios EXCEPT ![s] =
              OtrosSucios(s, i) \cup (IF l.dirty_bit THEN {tag} ELSE {})]
<1>1. /\ l.valido /\ l.tag = tag
      /\ \A j \in Validas(s) \ {i} : lineas[s][j].tag # tag
      /\ l.ultimo_ciclo_usado > ciclos
      /\ lineas' = [lineas EXCEPT ![s] = [@ EXCEPT ![i] = l]]
  BY DEF Usa, CambiaLinea
<1>2. lineas \in [Sets -> [Lineas -> Linea]] /\ ciclos \in Nat
  BY DEF IInv, TypeOK
<1>3. /\ \A r \in Sets \ {s} : lineas'[r] = lineas[r]
      /\ \A j \in Lineas \ {i} : lineas'[s][j] = lineas[s][j]
      /\ lineas'[s][i] = l
  BY <1>1, <1>2
<1>4. /\ \A r \in Sets \ {s} : Validas(r)' = Validas(r) /\ Sucias(r)' = Sucias(r)
      /\ Validas(s)' = (Validas(s) \ {i}) \cup {i}
      /\ Sucias(s)' = (Sucias(s) \ {i}) \cup (IF l.dirty_bit THEN {i} ELSE {})
  <2>1. /\ \A r \in Sets \ {s} : Validas(r)' = Validas(r)
        /\ Validas(s)' = (Validas(s) \ {i}) \cup {i}
    BY <1>1, <1>3 DEF Validas
  <2>2. \A r \in Sets \ {s} : Sucias(r)' = Sucias(r)
    BY <1>3, <2>1 DEF Sucias, Validas
  <2>3. \A j \in Lineas : j \in Sucias(s)' <=>
          IF j = i THEN l.dirty_bit ELSE j \in Sucias(s)
    <3>1. \A j \in Lineas \ {i} : j \in Sucias(s)' <=> j \in Sucias(s)
      BY <1>3, <2>1 DEF Sucias
    <3>2. i \in Sucias(s)' <=> l.dirty_bit
      BY <1>1, <1>3, <2>1 DEF Sucias
    <3> QED
      BY <3>1, <3>2
  <2>4. Sucias(s) \subseteq Lineas /\ Sucias(s)' \subseteq Lineas
    BY DEF Sucias, Validas
  <2> QED
    BY <2>1, <2>2, <2>3, <2>4
<1>5. tag \notin Otros(s, i)
  BY <1>1 DEF Otros
<1>6. Residentes' = [Residentes EXCEPT ![s] = Otros(s, i) \cup {tag}]
  <2>1. \A r \in Sets \ {s} : Residentes'[r] = Residentes[r]
    BY <1>3, <1>4 DEF Residentes, Validas
  <2>2. Residentes'[s] = Otros(s, i) \cup {tag}
    <3>1. Residentes'[s] = {lineas'[s][j].tag : j \in (Validas(s) \ {i}) \cup {i}}
      BY <1>4 DEF Residentes
    <3> QED
      BY <1>1, <1>3, <3>1 DEF Otros, Validas
  <2>3. /\ Residentes = [r \in Sets |-> Residentes[r]]
        /\ Residentes' = [r \in Sets |-> Residentes'[r]]
    BY DEF Residentes
  <2> HIDE DEF Residentes
  <2> QED
    BY <2>1, <2>2, <2>3
<1>7. TagsSucios' = [TagsSucios EXCEPT ![s] =
        OtrosSucios(s, i) \cup (IF l.dirty_bit THEN {tag} ELSE {})]
  <2>1. \A r \in Sets \ {s} : TagsSucios'[r] = TagsSucios[r]
    BY <1>3, <1>4 DEF TagsSucios
  <2>2. TagsSucios'[s] = OtrosSucios(s, i) \cup (IF l.dirty_bit THEN {tag} ELSE {})
    <3>1. TagsSucios'[s] = {lineas'[s][j].tag : j \in Sucias(s)'}
      BY DEF TagsSucios
    <3>2. \A j \in Sucias(s) \ {i} : lineas'[s][j] = lineas[s][j]
      BY <1>3 DEF Sucias, Validas
    <3>3. CASE l.dirty_bit
      BY <1>1, <1>3, <1>4, <3>1, <3>2, <3>3 DEF OtrosSucios
    <3>4. CASE ~l.dirty_bit
      BY <1>4, <3>1, <3>2, <3>4 DEF OtrosSucios
    <3> QED
      BY <3>3, <3>4
  <2>3. /\ TagsSucios = [r \in Sets |-> TagsSucios[r]]
        /\ TagsSucios' = [r \in Sets |-> TagsSucios'[r]]
    BY DEF TagsSucios
  <2> QED
    BY <2>1, <2>2, <2>3
<1>8. MasViejos' = [MasViejos EXCEPT ![s] =
        {p \in @ : p[1] \in Otros(s, i) /\ p[2] \in Otros(s, i)} \cup (Otros(s, i) \X {tag})]
  <2> DEFINE V == {p \in MasViejos[s] : p[1] \in Otros(s, i) /\ p[2] \in Otros(s, i)}
                    \cup (Otros(s, i) \X {tag})
  <2>1. \A r \in Sets \ {s} : MasViejos'[r] = MasViejos[r]
    BY <1>3, <1>4, <1>6 DEF MasViejos, Residentes
  <2>2. \A j \in Validas(s) \ {i} :
          /\ lineas'[s][j] = lineas[s][j]
          /\ Antes(s, j, i)' /\ ~Antes(s, i, j)'
    <3> SUFFICES ASSUME NEW j \in Validas(s) \ {i}
                 PROVE  lineas'[s][j] = lineas[s][j] /\ Antes(s, j, i)' /\ ~Antes(s, i, j)'
      OBVIOUS
    <3>1. lineas'[s][j] = lineas[s][j]
      BY <1>3 DEF Validas
    <3>2. lineas[s][j].ultimo_ciclo_usado \in 1 .. ciclos
      BY DEF IInv, SellosOrdenados
    <3>3. l.ultimo_ciclo_usado \in Nat
      BY DEF Linea
    <3> QED
      BY <1>1, <1>2, <1>3, <3>1, <3>2, <3>3 DEF Antes
  <2>3. ~Antes(s, i, i)'
    <3>1. l.ultimo_ciclo_usado \in Nat
      BY DEF Linea
    <3> QED
      BY <1>3, <3>1 DEF Antes
  <2>4. ASSUME NEW p, p \in MasViejos'[s]  PROVE p \in V
    <3>1. PICK j, k \in Validas(s)' : p = <<lineas'[s][j].tag, lineas'[s][k].tag>> /\ Antes(s, j, k)'
      BY <2>4 DEF MasViejos, Antes
    <3>2. j \in Validas(s) \ {i}
      BY <1>4, <2>2, <2>3, <3>1
    <3>3. CASE k = i
      BY <1>1, <1>3, <2>2, <3>1, <3>2, <3>3 DEF Otros
    <3>4. CASE k # i
      <4>1. k \in Validas(s) \ {i}
        BY <1>4, <3>4
      <4>2. p = <<lineas[s][j].tag, lineas[s][k].tag>> /\ Antes(s, j, k)
        BY <2>2, <3>1, <3>2, <4>1 DEF Antes
      <4>3. p \in MasViejos[s]
        BY <3>2, <4>1, <4>2, ParEnOrden
      <4>4. p[1] \in Otros(s, i) /\ p[2] \in Otros(s, i)
        BY <3>2, <4>1, <4>2 DEF Otros
      <4> QED
        BY <4>3, <4>4
    <3> QED
      BY <3>3, <3>4
  <2>5. ASSUME NEW p, p \in V  PROVE p \in MasViejos'[s]
    <3> SUFFICES \E j, k \in Validas(s)' :
                   p = <<lineas'[s][j].tag, lineas'[s][k].tag>> /\ Antes(s, j, k)'
      BY DEF MasViejos, Residentes, Antes
    <3>1. CASE p \in Otros(s, i) \X {tag}
      <4>1. PICK j \in Validas(s) \ {i} : p = <<lineas[s][j].tag, tag>>
        BY <3>1 DEF Otros
      <4> QED
        BY <1>1, <1>3, <1>4, <2>2, <4>1
    <3>2. CASE p \in MasViejos[s] /\ p[1] \in Otros(s, i) /\ p[2] \in Otros(s, i)
      <4>1. PICK j, k \in Validas(s) : p = <<lineas[s][j].tag, lineas[s][k].tag>> /\ Antes(s, j, k)
        BY <3>2, ParEnOrden
      <4>2. lineas[s][j].tag \in Otros(s, i) /\ lineas[s][k].tag \in Otros(s, i)
        BY <3>2, <4>1
      <4>3. j # i /\ k # i
        BY <4>2 DEF Otros, IInv, TagsUnicos
      <4> QED
        BY <1>4, <2>2, <4>1, <4>3 DEF Antes
    <3> QED
      BY <2>5, <3>1, <3>2
  <2>6. MasViejos'[s] = V
    BY <2>4, <2>5
  <2>7. /\ MasViejos = [r \in Sets |-> MasViejos[r]]
        /\ MasViejos' = [r \in Sets |-> MasViejos'[r]]
    BY DEF MasViejos
  <2> QED
    BY <2>1, <2>6, <2>7
<1> QED
  BY <1>5, <1>6, <1>7, <1>8

-----------------------------------------------------------------------------
\* Each iteration is a step of LRU.

\* LRU's counters and last access, as the simulator keeps them.
Fallos == metricas.misses_read + metricas.misses_write
Desalojos == metricas.dirty_read_miss + metricas.dirty_write_miss

\* LRU counts the tags of a set as CacheSim does.
LEMMA MismaCardinalidad == \A S : Abstracta!Cardinality(S) = Cardinality(S)
BY DEF Abstracta!Cardinality, Cardinality

\* A hit keeps the set's tags and makes the access's the last used.
LEMMA HitEsHit ==
  ASSUME IInv, NEW s \in Sets, NEW tag \in Nat, NEW instruccion, Hit(s, tag, instruccion),
         Fallos' = Fallos, Desalojos' = Desalojos
  PROVE  Abstracta!Hit(s, tag, instruccion # LECTURA)
<1> DEFINE store == instruccion # LECTURA
<1>1. PICK i \in Validas(s), l \in Linea :
        /\ lineas[s][i].tag = tag
        /\ Usa(s, i, l, tag)
        /\ l.dirty_bit = (lineas[s][i].dirty_bit \/ instruccion # LECTURA)
        /\ Contada(instruccion, FALSE, FALSE)
  BY HitUsa
<1>2. i \in Lineas /\ lineas[s][i].dirty_bit \in BOOLEAN
  BY DEF Validas, IInv, TypeOK, Linea
<1>3. /\ tag \notin Otros(s, i)
      /\ Residentes' = [Residentes EXCEPT ![s] = Otros(s, i) \cup {tag}]
      /\ MasViejos' = [MasViejos EXCEPT ![s] =
           {p \in @ : p[1] \in Otros(s, i) /\ p[2] \in Otros(s, i)} \cup (Otros(s, i) \X {tag})]
      /\ TagsSucios' = [TagsSucios EXCEPT ![s] =
           OtrosSucios(s, i) \cup (IF l.dirty_bit THEN {tag} ELSE {})]
  BY <1>1, <1>2, UsaEnAbstracto
<1>4. Residentes[s] = Otros(s, i) \cup {tag}
  BY <1>1 DEF Residentes, Otros
<1>5. Residentes[s] \ {tag} = Otros(s, i)
  BY <1>3, <1>4
<1>6. OtrosSucios(s, i) \cup (IF l.dirty_bit THEN {tag} ELSE {})
        = (TagsSucios[s] \cap Residentes[s]) \cup (IF store THEN {tag} ELSE {})
  <2>1. TagsSucios[s] \cap Residentes[s] = TagsSucios[s]
    BY DEF TagsSucios, Residentes, Sucias
  <2>2. CASE lineas[s][i].dirty_bit
    <3>1. TagsSucios[s] = OtrosSucios(s, i) \cup {tag}
      BY <1>1, <2>2 DEF TagsSucios, OtrosSucios, Sucias
    <3> QED
      BY <1>1, <2>1, <2>2, <3>1
  <2>3. CASE ~lineas[s][i].dirty_bit
    <3>1. TagsSucios[s] = OtrosSucios(s, i)
      BY <2>3 DEF TagsSucios, OtrosSucios, Sucias
    <3> QED
      BY <1>1, <2>1, <2>3, <3>1
  <2> QED
    BY <2>2, <2>3
<1>7. Abstracta!Use(s, tag, Residentes[s])
  BY <1>3, <1>4, <1>5 DEF Abstracta!Use
<1>8. Abstracta!Mark(s, tag, Residentes[s], store)
  BY <1>3, <1>6 DEF Abstracta!Mark
<1>9. tag \in Residentes[s]
  BY <1>4
<1> QED
  BY <1>7, <1>8, <1>9 DEF Abstracta!Hit, Fallos, Desalojos

\* A miss that fills a free line adds the access's tag to the set.
LEMMA MissLibreEsFill ==
  ASSUME IInv, NEW s \in Sets, NEW tag \in Nat, NEW instruccion, MissLibre(s, tag, instruccion),
         Fallos' = Fallos + 1, Desalojos' = Desalojos
  PROVE  Abstracta!Fill(s, tag, instruccion # LECTURA)
<1> DEFINE store == instruccion # LECTURA
<1>1. /\ \A j \in Validas(s) : lineas[s][j].tag # tag
      /\ lineas_ocupadas[s] < lineas_por_set
  BY MissLibreUsa
<1>2. PICK i \in Lineas \ Validas(s), l \in Linea : Usa(s, i, l, tag) /\ l.dirty_bit = store
  BY MissLibreUsa
<1>3. /\ tag \notin Otros(s, i)
      /\ Residentes' = [Residentes EXCEPT ![s] = Otros(s, i) \cup {tag}]
      /\ MasViejos' = [MasViejos EXCEPT ![s] =
           {p \in @ : p[1] \in Otros(s, i) /\ p[2] \in Otros(s, i)} \cup (Otros(s, i) \X {tag})]
      /\ TagsSucios' = [TagsSucios EXCEPT ![s] =
           OtrosSucios(s, i) \cup (IF l.dirty_bit THEN {tag} ELSE {})]
  BY <1>2, UsaEnAbstracto
<1>4. Residentes[s] = Otros(s, i) /\ TagsSucios[s] = OtrosSucios(s, i)
  BY <1>2 DEF Residentes, TagsSucios, Otros, OtrosSucios, Sucias
<1>5. TagsSucios[s] \cap (Residentes[s] \cup {tag}) = TagsSucios[s]
  BY DEF TagsSucios, Residentes, Sucias
<1>6. (Residentes[s] \cup {tag}) \ {tag} = Otros(s, i)
  BY <1>3, <1>4
<1>7. Abstracta!Use(s, tag, Residentes[s] \cup {tag})
  BY <1>3, <1>4, <1>6 DEF Abstracta!Use
<1>8. Abstracta!Mark(s, tag, Residentes[s] \cup {tag}, store)
  BY <1>2, <1>3, <1>4, <1>5 DEF Abstracta!Mark
<1>9. tag \notin Residentes[s] /\ Cardinality(Residentes[s]) < lineas_por_set
  BY <1>1, <1>3, <1>4, TagsContados
<1> QED
  BY <1>7, <1>8, <1>9, MismaCardinalidad DEF Abstracta!Fill, Fallos, Desalojos

\* A miss that evicts takes the place of the tag than which every other was
\* used more recently: the least stamp is that line's alone.
LEMMA MissDesalojoEsEvict ==
  ASSUME IInv, NEW s \in Sets, NEW tag \in Nat, NEW instruccion, MissDesalojo(s, tag, instruccion),
         Fallos' = Fallos + 1,
         \A sucio \in BOOLEAN : Contada(instruccion, TRUE, sucio) =>
           Desalojos' = Desalojos + (IF sucio THEN 1 ELSE 0)
  PROVE  \E victim \in Residentes[s] : Abstracta!Evict(s, tag, victim, instruccion # LECTURA)
<1> DEFINE store == instruccion # LECTURA
<1>1. (\A j \in Validas(s) : lineas[s][j].tag # tag) /\ Validas(s) = Lineas
  BY MissDesalojoUsa
<1>2. PICK i \in Validas(s), l \in Linea :
        /\ Usa(s, i, l, tag)
        /\ l.dirty_bit = store
        /\ \A j \in Lineas : lineas[s][i].ultimo_ciclo_usado <= lineas[s][j].ultimo_ciclo_usado
        /\ Contada(instruccion, TRUE, lineas[s][i].dirty_bit)
  BY MissDesalojoUsa
<1> DEFINE victim == lineas[s][i].tag
<1>3. i \in Lineas /\ lineas[s][i].dirty_bit \in BOOLEAN
  BY DEF Validas, IInv, TypeOK, Linea
<1>4. /\ tag \notin Otros(s, i)
      /\ Residentes' = [Residentes EXCEPT ![s] = Otros(s, i) \cup {tag}]
      /\ MasViejos' = [MasViejos EXCEPT ![s] =
           {p \in @ : p[1] \in Otros(s, i) /\ p[2] \in Otros(s, i)} \cup (Otros(s, i) \X {tag})]
      /\ TagsSucios' = [TagsSucios EXCEPT ![s] =
           OtrosSucios(s, i) \cup (IF l.dirty_bit THEN {tag} ELSE {})]
  BY <1>2, <1>3, UsaEnAbstracto
<1>5. victim \in Residentes[s]
  BY DEF Residentes
<1>6. tag \notin Residentes[s]
  BY <1>1 DEF Residentes
<1>7. Residentes[s] \ {victim} = Otros(s, i)
  BY DEF Residentes, Otros, IInv, TagsUnicos
<1>8. TagsSucios[s] \cap (Residentes[s] \ {victim}) = OtrosSucios(s, i)
  <2>1. \A j \in Validas(s) : lineas[s][j].tag = victim => j = i
    BY DEF IInv, TagsUnicos
  <2>2. \A x : x \in TagsSucios[s] <=> \E j \in Sucias(s) : x = lineas[s][j].tag
    BY DEF TagsSucios
  <2>3. \A x : x \in OtrosSucios(s, i) <=> \E j \in Sucias(s) \ {i} : x = lineas[s][j].tag
    BY DEF OtrosSucios
  <2>4. \A x : x \in Residentes[s] \ {victim} <=> \E j \in Validas(s) \ {i} : x = lineas[s][j].tag
    BY <1>7 DEF Otros
  <2>5. Sucias(s) \subseteq Validas(s)
    BY DEF Sucias
  <2> HIDE DEF victim
  <2>6. ASSUME NEW x \in TagsSucios[s] \cap (Residentes[s] \ {victim})  PROVE x \in OtrosSucios(s, i)
    <3>1. PICK j \in Sucias(s) : x = lineas[s][j].tag
      BY <2>2
    <3>2. j # i
      BY <3>1 DEF victim
    <3> QED
      BY <2>3, <3>1, <3>2
  <2>7. ASSUME NEW x \in OtrosSucios(s, i)  PROVE x \in TagsSucios[s] \cap (Residentes[s] \ {victim})
    BY <2>2, <2>3, <2>4, <2>5
  <2> QED
    BY <2>6, <2>7
<1>9. victim \in TagsSucios[s] <=> lineas[s][i].dirty_bit
  BY DEF TagsSucios, Sucias, Validas, IInv, TagsUnicos
<1>10. \A o \in Residentes[s] \ {victim} : <<victim, o>> \in MasViejos[s]
  <2> SUFFICES ASSUME NEW j \in Validas(s) \ {i}
               PROVE  <<victim, lineas[s][j].tag>> \in MasViejos[s]
    BY <1>7 DEF Otros
  <2>1. lineas[s][i].ultimo_ciclo_usado <= lineas[s][j].ultimo_ciclo_usado
    BY <1>2 DEF Validas
  <2>2. /\ lineas[s][i].ultimo_ciclo_usado # lineas[s][j].ultimo_ciclo_usado
        /\ lineas[s][i].ultimo_ciclo_usado \in 1 .. ciclos
        /\ lineas[s][j].ultimo_ciclo_usado \in 1 .. ciclos
    BY DEF IInv, SellosOrdenados
  <2>3. Antes(s, i, j)
    <3>1. ciclos \in Nat
      BY DEF IInv, TypeOK
    <3> QED
      BY <2>1, <2>2, <3>1 DEF Antes
  <2> QED
    BY <2>3, ParEnOrden
<1>11. Cardinality(Residentes[s]) = lineas_por_set
  <2>1. lineas_por_set \in Nat \ {0} /\ lineas_ocupadas[s] \in 0 .. lineas_por_set
    BY GeometryAssumption DEF IInv, TypeOK
  <2>2. lineas_por_set - 1 \in Lineas
    BY <2>1 DEF Lineas
  <2>3. lineas_por_set - 1 < lineas_ocupadas[s]
    BY <1>1, <2>2 DEF IInv, OcupadasPrimero, Validas
  <2>4. lineas_ocupadas[s] = lineas_por_set
    BY <2>1, <2>3
  <2> QED
    BY <2>4, TagsContados
<1>12. Abstracta!Use(s, tag, (Residentes[s] \ {victim}) \cup {tag})
  <2>1. ((Residentes[s] \ {victim}) \cup {tag}) \ {tag} = Otros(s, i)
    BY <1>4, <1>7
  <2> HIDE DEF victim
  <2> QED
    BY <1>4, <1>7, <2>1 DEF Abstracta!Use
<1>13. Abstracta!Mark(s, tag, Residentes[s] \ {victim}, store)
  <2> HIDE DEF victim
  <2> QED
    BY <1>2, <1>4, <1>8 DEF Abstracta!Mark
<1>14. Desalojos' = Desalojos + (IF victim \in TagsSucios[s] THEN 1 ELSE 0)
  <2>1. Desalojos' = Desalojos + (IF lineas[s][i].dirty_bit THEN 1 ELSE 0)
    BY <1>2, <1>3
  <2> HIDE DEF victim
  <2> QED
    BY <1>9, <2>1
<1> HIDE DEF victim
<1>15. Abstracta!Evict(s, tag, victim, store)
  BY <1>6, <1>10, <1>11, <1>12, <1>13, <1>14, MismaCardinalidad DEF Abstracta!Evict, Fallos, Desalojos
<1> QED
  BY <1>5, <1>15

\* Every access is counted as LRU counts it.
LEMMA ContarEnAbstracto ==
  ASSUME IInv, NEW instruccion, NEW fallo \in BOOLEAN, NEW sucio \in BOOLEAN,
         Contada(instruccion, fallo, sucio)
  PROVE  /\ Fallos' = Fallos + (IF fallo THEN 1 ELSE 0)
         /\ Desalojos' = Desalojos + (IF sucio THEN 1 ELSE 0)
<1> DEFINE lee == instruccion = LECTURA
<1>1. /\ metricas.misses_read \in Nat /\ metricas.misses_write \in Nat
      /\ metricas.dirty_read_miss \in Nat /\ metricas.dirty_write_miss \in Nat
  BY DEF IInv, TypeOK, Metricas
<1>2. /\ metricas'.misses_read = metricas.misses_read + Si(lee /\ fallo, 1)
      /\ metricas'.misses_write = metricas.misses_write + Si(~lee /\ fallo, 1)
      /\ metricas'.dirty_read_miss = metricas.dirty_read_miss + Si(lee /\ sucio, 1)
      /\ metricas'.dirty_write_miss = metricas.dirty_write_miss + Si(~lee /\ sucio, 1)
  BY DEF Contada
<1> QED
  BY <1>1, <1>2 DEF Fallos, Desalojos, Si

\* One iteration of the simulation loop is one step of LRU.
LEMMA AccesoEsPaso ==
  ASSUME IInv, NEW direccion \in Direcciones, NEW instruccion \in Instrucciones,
         Acceso(direccion, instruccion)
  PROVE  Abstracta!Next
<1> DEFINE s == calcular_set(direccion)
           tag == calcular_tag(direccion)
           store == instruccion # LECTURA
<1>1. s \in Sets /\ tag \in Nat /\ tag \in Tags /\ direccion \in Nat
  BY DireccionPartida, AddressAssumption
<1>2. /\ traza' = [direccion_accedida |-> direccion, instruccion |-> instruccion]
      /\ \/ Hit(s, tag, instruccion)
         \/ MissLibre(s, tag, instruccion)
         \/ MissDesalojo(s, tag, instruccion)
  BY DEF Acceso
<1>3. Ultimo' = <<s, tag, store>>
  <2>1. /\ traza'.direccion_accedida = direccion /\ traza'.instruccion = instruccion
        /\ SinTraza.direccion_accedida = -1
    BY <1>2 DEF SinTraza
  <2>2. traza' # SinTraza
    BY <1>1, <2>1
  <2> QED
    BY <2>1, <2>2 DEF Ultimo
<1>4. Fallos \in Nat /\ Desalojos \in Nat
  BY DEF IInv, TypeOK, Metricas, Fallos, Desalojos
<1> HIDE DEF s, tag
<1>5. \/ Abstracta!Hit(s, tag, store)
      \/ Abstracta!Fill(s, tag, store)
      \/ \E victim \in Residentes[s] : Abstracta!Evict(s, tag, victim, store)
  <2>1. CASE Hit(s, tag, instruccion)
    <3>1. PICK fallo \in BOOLEAN, sucio \in BOOLEAN :
            ~fallo /\ ~sucio /\ Contada(instruccion, fallo, sucio)
      <4>1. Contada(instruccion, FALSE, FALSE)
        BY <1>1, <2>1, HitUsa
      <4> QED
        BY <4>1
    <3>2. Fallos' = Fallos /\ Desalojos' = Desalojos
      <4>1. /\ Fallos' = Fallos + (IF fallo THEN 1 ELSE 0)
            /\ Desalojos' = Desalojos + (IF sucio THEN 1 ELSE 0)
        BY <3>1, ContarEnAbstracto
      <4> QED
        BY <1>4, <3>1, <4>1
    <3> QED
      BY <1>1, <2>1, <3>2, HitEsHit
  <2>2. CASE MissLibre(s, tag, instruccion)
    <3>1. PICK fallo \in BOOLEAN, sucio \in BOOLEAN :
            fallo /\ ~sucio /\ Contada(instruccion, fallo, sucio)
      <4>1. Contada(instruccion, TRUE, FALSE)
        BY <1>1, <2>2, MissLibreUsa
      <4> QED
        BY <4>1
    <3>2. Fallos' = Fallos + 1 /\ Desalojos' = Desalojos
      <4>1. /\ Fallos' = Fallos + (IF fallo THEN 1 ELSE 0)
            /\ Desalojos' = Desalojos + (IF sucio THEN 1 ELSE 0)
        BY <3>1, ContarEnAbstracto
      <4> QED
        BY <1>4, <3>1, <4>1
    <3> QED
      BY <1>1, <2>2, <3>2, MissLibreEsFill
  <2>3. CASE MissDesalojo(s, tag, instruccion)
    <3>1. \A sucio \in BOOLEAN : Contada(instruccion, TRUE, sucio) =>
            \E fallo \in BOOLEAN : fallo /\ Contada(instruccion, fallo, sucio)
      OBVIOUS
    <3>2. \A sucio \in BOOLEAN : Contada(instruccion, TRUE, sucio) =>
            Desalojos' = Desalojos + (IF sucio THEN 1 ELSE 0)
      BY <3>1, ContarEnAbstracto
    <3>3. PICK i \in Validas(s) : Contada(instruccion, TRUE, lineas[s][i].dirty_bit)
      BY <1>1, <2>3, MissDesalojoUsa
    <3>4. lineas[s][i].dirty_bit \in BOOLEAN
      BY <1>1 DEF Validas, IInv, TypeOK, Linea
    <3>5. PICK fallo \in BOOLEAN, sucio \in BOOLEAN : fallo /\ Contada(instruccion, fallo, sucio)
      BY <3>1, <3>3, <3>4
    <3>6. Fallos' = Fallos + 1
      BY <3>5, ContarEnAbstracto
    <3> QED
      BY <1>1, <2>3, <3>2, <3>6, MissDesalojoEsEvict
  <2> QED
    BY <1>2, <2>1, <2>2, <2>3
<1>6. store \in BOOLEAN
  OBVIOUS
<1> HIDE DEF store
<1> QED
  BY <1>1, <1>3, <1>5, <1>6 DEF Abstracta!Next

\* Showing the metrics changes nothing LRU sees.
LEMMA MostrarEsPausa ==
  ASSUME IInv, mostrar_metricas
  PROVE  UNCHANGED Abstracta!vars
<1>1. metricas \in Metricas
  BY DEF IInv, TypeOK
<1>2. /\ metricas'.misses_read = metricas.misses_read
      /\ metricas'.misses_write = metricas.misses_write
      /\ metricas'.dirty_read_miss = metricas.dirty_read_miss
      /\ metricas'.dirty_write_miss = metricas.dirty_write_miss
  BY <1>1 DEF mostrar_metricas, Metricas
<1>3. lineas' = lineas /\ traza' = traza
  BY DEF mostrar_metricas
<1>4. Residentes' = Residentes /\ TagsSucios' = TagsSucios /\ MasViejos' = MasViejos
  BY <1>3 DEF Residentes, TagsSucios, MasViejos, Validas, Sucias
<1>5. Ultimo' = Ultimo
  BY <1>3 DEF Ultimo
<1> QED
  BY <1>2, <1>4, <1>5 DEF Abstracta!vars

\* The empty cache is LRU's.
LEMMA InicioAbstracto == Init => Abstracta!Init
<1> SUFFICES ASSUME Init  PROVE Abstracta!Init
  OBVIOUS
<1>1. \A s \in Sets : Validas(s) = {}
  BY DEF Init, Validas
<1>2. /\ Residentes = [s \in Sets |-> {}]
      /\ TagsSucios = [s \in Sets |-> {}]
      /\ MasViejos = [s \in Sets |-> {}]
  BY <1>1 DEF Residentes, TagsSucios, MasViejos, Sucias
<1>3. Ultimo = <<>>
  BY DEF Init, Ultimo
<1>4. /\ metricas.misses_read + metricas.misses_write = 0
      /\ metricas.dirty_read_miss + metricas.dirty_write_miss = 0
  BY DEF Init
<1> QED
  BY <1>2, <1>3, <1>4 DEF Abstracta!Init

\* Every step of the simulator is a step of LRU or leaves it alone.
LEMMA PasoAbstracto == IInv /\ [Next]_vars => [Abstracta!Next]_(Abstracta!vars)
<1> SUFFICES ASSUME IInv, [Next]_vars  PROVE [Abstracta!Next]_(Abstracta!vars)
  OBVIOUS
<1>1. CASE \E direccion \in Direcciones, instruccion \in Instrucciones : Acceso(direccion, instruccion)
  BY <1>1, AccesoEsPaso
<1>2. CASE mostrar_metricas
  BY <1>2, MostrarEsPausa
<1>3. CASE UNCHANGED vars
  <2>1. lineas' = lineas /\ traza' = traza /\ metricas' = metricas
    BY <1>3 DEF vars
  <2>2. Residentes' = Residentes /\ TagsSucios' = TagsSucios /\ MasViejos' = MasViejos
    BY <2>1 DEF Residentes, TagsSucios, MasViejos, Validas, Sucias
  <2>3. Ultimo' = Ultimo
    BY <2>1 DEF Ultimo
  <2> QED
    BY <2>1, <2>2, <2>3 DEF Abstracta!vars
<1> QED
  BY <1>1, <1>2, <1>3 DEF Next

\* The simulator is a set-associative cache with least-recently-used
\* replacement: its stamps, scans and counters choose the victims and count
\* the misses and write-backs that the order of use alone determines.
THEOREM SimuladorEsLRU == Spec => EsLRU
<1>1. Spec => []IInv
  <2>1. IInv /\ TiempoYTraficoCuadran => IInv
    OBVIOUS
  <2> QED
    BY <2>1, Invariante, PTL
<1> QED
  BY <1>1, InicioAbstracto, PasoAbstracto, PTL DEF Spec, EsLRU, Abstracta!Spec
================================================================================
