----------------------------- MODULE CacheMainProps -----------------------------
(***************************************************************************)
(* What main and calcular_set_y_tag must get right, and when they do not.  *)
(***************************************************************************)
EXTENDS CacheMain

Aceptada == pc \notin {"main", "fin", "excepcion"}

\* A geometry that main accepts, of a size that an int holds, multiplies out
\* without overflow, and the masks split every address as division by it does:
\* CacheSim's calcular_set and calcular_tag, down to one set or one byte.
\* Larger sizes are checked by their low bits alone, and nothing holds of them.
GeometriaExacta ==
  Aceptada /\ orden.tamanio <= INT_MAX =>
    /\ tamanio_bloque * orden.asociatividad * orden.sets = orden.tamanio
    /\ orden.sets >= 1 /\ orden.asociatividad >= 1
    /\ acceso # SinAcceso =>
         LET dir == ToNat(acceso.dir)
         IN  /\ ToNat(acceso.set) = (dir \div tamanio_bloque) % orden.sets
             /\ ToNat(acceso.tag) = dir \div (tamanio_bloque * orden.sets)

\* The trace is lines of the format, the last one perhaps cut short: eleven
\* pieces of text each.
EnFormato(texto) ==
  \A k \in 1 .. Len(texto) :
    /\ k % 11 \in {1, 6, 8, 10} => texto[k].cifras # <<>>
    /\ k % 11 = 8 => \A j \in 1 .. Len(texto[k].cifras) :
                        texto[k].cifras[j] < (IF texto[k].cifras[1] = 0 THEN 8 ELSE 10)
    /\ k % 11 = 2 => texto[k].signo = ":"
    /\ k % 11 = 4 => texto[k].cifras = <<>> /\ texto[k].signo # " "
    /\ k % 11 \in {0, 3, 5, 7, 9} => texto[k].signo = " "

\* What line k says, and how many lines say something.
DeLaLinea(k) == [direccion_accedida |-> Palabra(original[11 * k - 5].cifras),
                 instruccion |-> original[11 * k - 7].signo]
CuantasLineas == (Len(original) + 10) \div 11

\* With 0 everything was given back and either there was no memory for the
\* verbose mode or the whole text of the trace was read.  If it is in the
\* format, each line was simulated once and in order, though fscanf knows
\* nothing of lines; one cut short at the end of the file too, with what an
\* earlier line left in traza.  In any other text the accesses need not be the
\* lines, since a line cut short takes its fields from the next one.
ExitoCompleto ==
  pc = "fin" /\ estado = 0 =>
    /\ vivos = {}
    /\ \/ orden.argc = 8 /\ simuladas = <<>>
       \/ /\ archivo = <<>>
          /\ Len(simuladas) <= Len(original)
          /\ EnFormato(original) =>
               /\ Len(simuladas) = CuantasLineas
               /\ \A k \in 1 .. CuantasLineas :
                    11 * k - 1 <= Len(original) => simuladas[k] = DeLaLinea(k)

\* What a failure leaves behind is the cache_t of a crear_sets that failed, or
\* everything, file and all, when the verbose range is empty.
SoloEstasFugas ==
  pc = "fin" /\ vivos # {} =>
    \/ vivos = {Objeto("cache")}
    \/ orden.argc = 8 /\ orden.primera >= orden.ultima /\ simuladas = <<>>

\* SIGFPE needs a zero, or as many lines as overflow an int to 0.
CaeSoloSi ==
  pc = "excepcion" =>
    \/ 0 \in {orden.asociatividad, orden.sets}
    \/ orden.asociatividad * orden.sets >= 2 * (INT_MAX + 1)

\* What the end of the program says of the trace, of the arguments, and of what
\* was opened and allocated on the way, whichever step failed.
SalidaHonesta == ExitoCompleto /\ SoloEstasFugas /\ CaeSoloSi

\* fscanf starts at a character that no number starts with: it returns 0 and
\* not EOF, and takes nothing.
Atascado ==
  directiva = 1 /\ archivo # <<>> /\ Head(archivo).cifras = <<>> /\ Head(archivo).signo # " "

\* The program ends, or from some point on every call of fscanf starts at the
\* same character and the last access is simulated for ever: a line cut short
\* is enough, when the next one lends it its number and leaves its colon.  That
\* never happens to a trace in the format, its last line perhaps cut short.
Acaba == <>(pc \in {"fin", "excepcion"}) \/ <>[](Atascado /\ ~EnFormato(original))
=================================================================================
