---------------------------- MODULE CacheMainProofs ----------------------------
(***************************************************************************)
(* Proofs about cachesim's main: the masks of calcular_set_y_tag, for      *)
(* words of any width, what the end of the program says, for any arguments *)
(* and traces, and the arithmetic of the geometries that main accepts.     *)
(***************************************************************************)
EXTENDS CacheMainProps, SumProofs, SequenceTheorems

\* The set's mask has a one for each bit of a set number, though the offset's
\* has a stray one when blocks have a single byte.
LEMMA MascaraDelSet ==
  ASSUME NEW s \in Nat, NEW o \in Nat, s + o < W
  PROVE  mascara_set(W - (s + o), o) = 0 .. s - 1
<1>0. W \in Nat /\ W >= 2
  BY WidthAssumption
<1>1. mascara_tag(W - (s + o)) = s + o .. W - 1
  BY <1>0 DEF mascara_tag, Sar, Bit
<1>2. Xor({W - 1}, Bit) = 0 .. W - 2
  BY <1>0 DEF Xor, Bit
<1>3. Shl(0 .. W - 2, o) = IF o = 0 THEN 0 .. W - 2 ELSE o .. W - 1
  BY <1>0 DEF Shl, Bit
<1>4. mascara_offset(o) = IF o = 0 THEN {W - 1} ELSE 0 .. o - 1
  BY <1>0, <1>2, <1>3 DEF mascara_offset, Not, Bit
<1>5. Not(mascara_tag(W - (s + o)) \cup mascara_offset(o)) = o .. s + o - 1
  <2>1. CASE o = 0
    BY <1>0, <1>1, <1>4, <2>1 DEF Not, Bit
  <2>2. CASE o # 0
    BY <1>0, <1>1, <1>4, <2>2 DEF Not, Bit
  <2> QED
    BY <2>1, <2>2
<1> QED
  BY <1>0, <1>5 DEF mascara_set, Shr, Bit

\* calcular_set_y_tag loses nothing of an address and shares nothing between
\* its parts, for every geometry that leaves the tag a bit: the set number is
\* below the number of sets, and the address is the offset, the set and the
\* tag put back in their places.
THEOREM DireccionSePartePorCompleto ==
  \A dir \in Word : \A s, o \in Nat : s + o < W =>
    LET p == Partir(dir, s, o)
    IN  /\ p.set \subseteq 0 .. s - 1
        /\ p.tag \subseteq 0 .. W - (s + o) - 1
        /\ dir = (dir \cap (0 .. o - 1)) \cup Shl(p.set, o) \cup Shl(p.tag, s + o)
<1> SUFFICES ASSUME NEW dir \in Word, NEW s \in Nat, NEW o \in Nat, s + o < W
             PROVE  LET p == Partir(dir, s, o)
                    IN  /\ p.set \subseteq 0 .. s - 1
                        /\ p.tag \subseteq 0 .. W - (s + o) - 1
                        /\ dir = (dir \cap (0 .. o - 1)) \cup Shl(p.set, o) \cup Shl(p.tag, s + o)
  OBVIOUS
<1> DEFINE p == Partir(dir, s, o)
<1>0. W \in Nat /\ dir \subseteq 0 .. W - 1
  BY WidthAssumption DEF Word, Bit
<1>1. p.set = {k \in 0 .. s - 1 : k + o \in dir}
  <2>1. p.set = Shr(dir, o) \cap (0 .. s - 1)
    BY MascaraDelSet DEF Partir
  <2> QED
    BY <1>0, <2>1 DEF Shr, Bit
<1>2. p.tag = {k \in 0 .. W - (s + o) - 1 : k + (s + o) \in dir}
  BY <1>0 DEF Partir, Shr, Bit
<1>3. Shl(p.set, o) = dir \cap (o .. s + o - 1)
  BY <1>0, <1>1 DEF Shl, Bit
<1>4. Shl(p.tag, s + o) = dir \cap (s + o .. W - 1)
  BY <1>0, <1>2 DEF Shl, Bit
<1>5. \A k \in dir : k \in 0 .. o - 1 \/ k \in o .. s + o - 1 \/ k \in s + o .. W - 1
  BY <1>0
<1>6. dir = (dir \cap (0 .. o - 1)) \cup Shl(p.set, o) \cup Shl(p.tag, s + o)
  BY <1>3, <1>4, <1>5
<1> QED
  BY <1>1, <1>2, <1>6

-----------------------------------------------------------------------------
\* Sequences of pieces of text.

\* What has a length above zero is not the empty sequence.
LEMMA NoVacia == ASSUME NEW t, Len(t) > 0 PROVE t # <<>>
OBVIOUS

\* What is left of a text from a place on: its first piece and the rest, or
\* nothing.
LEMMA Sobras ==
  ASSUME NEW s \in Seq(Trozo), NEW k \in Nat \ {0}
  PROVE  /\ k <= Len(s) => /\ SubSeq(s, k, Len(s)) # <<>>
                           /\ Head(SubSeq(s, k, Len(s))) = s[k]
                           /\ Tail(SubSeq(s, k, Len(s))) = SubSeq(s, k + 1, Len(s))
         /\ k > Len(s) => SubSeq(s, k, Len(s)) = <<>> /\ SubSeq(s, k + 1, Len(s)) = <<>>
<1>0. Len(s) \in Nat
  OBVIOUS
<1>1. ASSUME k <= Len(s)
      PROVE  /\ SubSeq(s, k, Len(s)) # <<>>
             /\ Head(SubSeq(s, k, Len(s))) = s[k]
             /\ Tail(SubSeq(s, k, Len(s))) = SubSeq(s, k + 1, Len(s))
  <2>1. k \in 1 .. Len(s) /\ Len(s) \in k .. Len(s)
    BY <1>0, <1>1
  <2>2. \A i \in k .. Len(s) : s[i] \in Trozo
    BY <1>0
  <2>3. Len(SubSeq(s, k, Len(s))) = Len(s) - k + 1
    BY <1>0, <1>1, <2>2, SubSeqProperties
  <2>4. SubSeq(s, k, Len(s)) # <<>>
    <3>1. Len(s) - k + 1 > 0
      BY <1>0, <1>1
    <3> DEFINE t == SubSeq(s, k, Len(s))
    <3>2. Len(t) > 0
      BY <2>3, <3>1
    <3> HIDE DEF t
    <3>3. t # <<>>
      BY <3>2, NoVacia
    <3> QED
      BY <3>3 DEF t
  <2> QED
    BY <2>1, <2>4, HeadTailOfSubSeq
<1>2. ASSUME k > Len(s) PROVE SubSeq(s, k, Len(s)) = <<>> /\ SubSeq(s, k + 1, Len(s)) = <<>>
  BY <1>0, <1>2, SubSeqEmpty
<1> QED
  BY <1>1, <1>2

\* The first piece and the others.
LEMMA Primera ==
  ASSUME NEW s \in Seq(Trozo), s # <<>>
  PROVE  /\ Head(s) \in Trozo /\ Head(s).cifras \in Seq(0 .. 15) /\ Head(s).signo \in STRING
         /\ Tail(s) \in Seq(Trozo) /\ Len(Tail(s)) = Len(s) - 1 /\ Len(s) \in Nat \ {0}
<1>1. Head(s) \in Trozo /\ Tail(s) \in Seq(Trozo) /\ Len(Tail(s)) = Len(s) - 1
  BY HeadTailProperties
<1> QED
  BY <1>1 DEF Trozo

\* White space is one piece, if any.
LEMMA SinBlancosMenos ==
  ASSUME NEW s \in Seq(Trozo)
  PROVE  /\ SinBlancos(s) \in Seq(Trozo)
         /\ Len(SinBlancos(s)) \in Nat /\ Len(s) \in Nat
         /\ SinBlancos(s) = s \/ Len(SinBlancos(s)) < Len(s)
<1>0. Len(s) \in Nat
  OBVIOUS
<1>1. CASE s # <<>> /\ Head(s).signo = " "
  <2>1. SinBlancos(s) = Tail(s)
    BY <1>1 DEF SinBlancos
  <2>2. Tail(s) \in Seq(Trozo) /\ Len(Tail(s)) = Len(s) - 1 /\ Len(s) \in Nat \ {0}
    BY <1>1, Primera
  <2> DEFINE t == Tail(s)
             n == Len(s)
  <2>3. t \in Seq(Trozo) /\ Len(t) = n - 1 /\ n \in Nat \ {0}
    BY <2>2
  <2> HIDE DEF t, n
  <2>4. Len(t) \in Nat /\ Len(t) < n /\ n \in Nat
    BY <2>3
  <2> QED
    BY <2>1, <2>3, <2>4 DEF t, n
<1>2. CASE ~(s # <<>> /\ Head(s).signo = " ")
  <2>1. SinBlancos(s) = s
    BY <1>2 DEF SinBlancos
  <2> QED
    BY <1>0, <2>1
<1> QED
  BY <1>1, <1>2

\* Taking characters of the first piece leaves no more pieces, and one less
\* when they are all that it has.
LEMMA QuitarMenos ==
  ASSUME NEW s \in Seq(Trozo), s # <<>>, NEW n \in Nat
  PROVE  /\ Quitar(s, n) \in Seq(Trozo)
         /\ Len(Quitar(s, n)) \in Nat /\ Len(Quitar(s, n)) <= Len(s)
         /\ n >= Len(Head(s).cifras) => Quitar(s, n) = Tail(s)
<1> DEFINE c == Head(s).cifras
           q == SubSeq(c, n + 1, Len(c))
<1>1. c \in Seq(0 .. 15) /\ Len(c) \in Nat
  BY Primera
<1>2. q \in Seq(0 .. 15)
  <2>1. \A i \in n + 1 .. Len(c) : c[i] \in 0 .. 15
    BY <1>1
  <2> HIDE DEF c
  <2>2. n + 1 \in Int /\ Len(c) \in Int
    BY <1>1
  <2> QED
    BY <2>1, <2>2, SubSeqProperties
<1>3. n >= Len(c) => q = <<>>
  <2> HIDE DEF c
  <2> QED
    BY <1>1, SubSeqEmpty, n + 1 \in Int
<1>4. Quitar(s, n) = IF q = <<>> THEN Tail(s) ELSE <<[Head(s) EXCEPT !.cifras = q]>> \o Tail(s)
  BY DEF Quitar
<1> HIDE DEF q, c
<1>5. [Head(s) EXCEPT !.cifras = q] \in Trozo
  BY <1>2, Primera DEF Trozo
<1>6. CASE q = <<>>
  BY <1>3, <1>4, <1>6, Primera DEF c
<1>7. CASE q # <<>>
  <2> DEFINE u == <<[Head(s) EXCEPT !.cifras = q]>>
  <2>1. u \in Seq(Trozo) /\ Len(u) = 1
    BY <1>5
  <2> HIDE DEF u
  <2>2. u \o Tail(s) \in Seq(Trozo) /\ Len(u \o Tail(s)) = 1 + Len(Tail(s))
    BY <2>1, Primera, ConcatProperties
  <2>3. Quitar(s, n) = u \o Tail(s)
    BY <1>4, <1>7 DEF u
  <2> QED
    BY <1>3, <1>7, <2>2, <2>3, Primera DEF c
<1> QED
  BY <1>6, <1>7

\* A set of numbers with a bound has a maximum, if it has any.
LEMMA Maximo ==
  ASSUME NEW S, NEW n \in Nat, S \subseteq 0 .. n, S # {}
  PROVE  Max(S) \in S /\ \A y \in S : Max(S) >= y
<1> DEFINE T == {n - x : x \in S}
<1>1. T \subseteq Nat /\ T # {}
  OBVIOUS
<1>2. PICK m \in T : \A t \in T : m <= t
  BY <1>1, Minimo
<1>3. PICK x \in S : m = n - x
  BY <1>2
<1>4. \A y \in S : x >= y
  <2> SUFFICES ASSUME NEW y \in S PROVE x >= y
    OBVIOUS
  <2>1. n - y \in T
    OBVIOUS
  <2>2. n - x <= n - y
    BY <1>2, <1>3, <2>1
  <2>3. x \in Nat /\ y \in Nat
    OBVIOUS
  <2> QED
    BY <2>2, <2>3
<1>5. \E z \in S : \A y \in S : z >= y
  BY <1>4
<1> QED
  BY <1>5 DEF Max

\* The digits that a conversion takes: the first ones below its base.
LEMMA CuantasSon ==
  ASSUME NEW c \in Seq(0 .. 15)
  PROVE  /\ Cuantas(c) \in 0 .. Len(c)
         /\ (\A k \in 1 .. Len(c) : c[k] < Base(c)) => Cuantas(c) = Len(c)
<1> DEFINE b == Base(c)
           S == {n \in 0 .. Len(c) : \A k \in 1 .. n : c[k] < b}
<1>0. Len(c) \in Nat
  OBVIOUS
<1>1. S \subseteq 0 .. Len(c) /\ 0 \in S
  BY <1>0
<1>2. Cuantas(c) = Max(S)
  BY DEF Cuantas
<1>3. (\A k \in 1 .. Len(c) : c[k] < b) => Len(c) \in S
  BY <1>0
<1> HIDE DEF b, S
<1>4. Max(S) \in S /\ \A y \in S : Max(S) >= y
  BY <1>0, <1>1, Maximo
<1>5. ASSUME Len(c) \in S PROVE Max(S) = Len(c)
  <2>1. Max(S) >= Len(c)
    BY <1>4, <1>5
  <2>2. Max(S) \in 0 .. Len(c)
    BY <1>1, <1>4
  <2> QED
    BY <1>0, <2>1, <2>2
<1> QED
  BY <1>1, <1>2, <1>3, <1>4, <1>5 DEF b

\* fscanf's format.
LEMMA Directivas ==
  /\ Len(FORMATO) = 11
  /\ FORMATO[1] = "%x" /\ FORMATO[2] = ":" /\ FORMATO[3] = " " /\ FORMATO[4] = "%c"
  /\ FORMATO[5] = " " /\ FORMATO[6] = "%x" /\ FORMATO[7] = " " /\ FORMATO[8] = "%i"
  /\ FORMATO[9] = " " /\ FORMATO[10] = "%x" /\ FORMATO[11] = "\n"
BY DEF FORMATO

-----------------------------------------------------------------------------
\* What the program has from the end of crear_sets on, verbose mode aside.
Todo == {Objeto("archivo"), Objeto("cache"), Objeto("sets")} \cup Lineas(orden.sets)

\* The letters are strings, whatever they are.
Traza == [direccion_accedida : Word, instruccion : STRING \cup {LECTURA, "W"}]

Tipos ==
  /\ orden \in Ordenes
  /\ original \in Seq(Trozo) /\ Len(original) <= MaxVueltas
  /\ \A k \in 1 .. Len(original) : original[k].cifras # <<>> <=> original[k].signo = "cifras"
  /\ archivo \in Seq(Trozo)
  /\ directiva \in 1 .. 11
  /\ pc # "fscanf" => directiva = 1
  /\ traza \in Traza
  /\ simuladas \in Seq(Traza)

\* What is held, place by place.
Tenencia ==
  /\ pc = "main" => vivos = {}
  /\ pc = "crear_cache" => vivos = {Objeto("archivo")}
  /\ pc = "crear_sets" => vivos = {Objeto("archivo"), Objeto("cache")}
  /\ pc \in {"verboso", "mostrar"} => vivos = Todo
  /\ pc \in {"simular", "fscanf", "acceso"} => vivos \ {Objeto("verboso")} = Todo

\* Every access took a piece of text at least, unless fscanf got stuck.
Cuenta ==
  /\ pc \in {"main", "crear_cache", "crear_sets", "verboso", "simular"} =>
       simuladas = <<>> /\ archivo = original
  /\ pc = "verboso" => orden.argc = 8
  /\ pc = "fscanf" => \/ Atascado
                      \/ directiva = 1 /\ Len(archivo) + Len(simuladas) <= Len(original)
                      \/ directiva > 1 /\ Len(archivo) + Len(simuladas) + 1 <= Len(original)
  /\ pc = "acceso" => Atascado \/ Len(archivo) + Len(simuladas) + 1 <= Len(original)
  /\ pc = "mostrar" => \/ archivo = <<>> /\ Len(simuladas) <= Len(original)
                       \/ orden.argc = 8 /\ simuladas = <<>>

\* Where fscanf is in the text, from 1, if the trace is in the format: the
\* directive it is at is that of the piece it is at.
Lugar == 11 * Len(simuladas) + directiva

\* A trace in the format is read line by line: the directives and the pieces
\* of text go together, and traza has the fields of the line read so far.
EnLinea ==
  EnFormato(original) =>
    /\ \A k \in 1 .. Len(simuladas) :
         /\ 11 * k - 10 <= Len(original)
         /\ 11 * k - 1 <= Len(original) => simuladas[k] = DeLaLinea(k)
    /\ pc = "fscanf" =>
         /\ archivo = SubSeq(original, Lugar, Len(original))
         /\ directiva > 1 => 11 * Len(simuladas) + 1 <= Len(original)
         /\ directiva > 4 /\ 11 * Len(simuladas) + 4 <= Len(original) =>
              traza.instruccion = original[11 * Len(simuladas) + 4].signo
         /\ directiva > 6 /\ 11 * Len(simuladas) + 6 <= Len(original) =>
              traza.direccion_accedida = Palabra(original[11 * Len(simuladas) + 6].cifras)
    /\ pc = "acceso" =>
         /\ archivo = SubSeq(original, 11 * Len(simuladas) + 12, Len(original))
         /\ 11 * Len(simuladas) + 1 <= Len(original)
         /\ 11 * Len(simuladas) + 10 <= Len(original) => traza = DeLaLinea(Len(simuladas) + 1)
    /\ pc = "mostrar" => \/ Len(original) <= 11 * Len(simuladas)
                         \/ orden.argc = 8 /\ simuladas = <<>>

IInv == Tipos /\ Tenencia /\ Cuenta /\ EnLinea /\ SalidaHonesta

\* main's state before the first line of the trace.
LEMMA Inicio == Init => IInv
<1> SUFFICES ASSUME Init PROVE IInv
  OBVIOUS
<1>1. original \in Seq(Trozo) /\ Len(original) <= MaxVueltas
  BY ArchivosAssumption DEF Init
<1>2. traza \in Traza
  BY DEF Init, Traza, Word
<1>3. \A k \in 1 .. Len(original) : original[k].cifras # <<>> <=> original[k].signo = "cifras"
  BY ArchivosAssumption DEF Init
<1>4. Tipos
  BY <1>1, <1>2, <1>3 DEF Init, Tipos
<1>5. Tenencia /\ Cuenta
  BY DEF Init, Tenencia, Cuenta
<1>6. EnLinea
  BY DEF Init, EnLinea
<1> QED
  BY <1>4, <1>5, <1>6 DEF Init, IInv, SalidaHonesta, ExitoCompleto, SoloEstasFugas, CaeSoloSi

-----------------------------------------------------------------------------
\* One directive of fscanf.

\* What a step of fscanf leaves alone.
LEMMA Quietas ==
  ASSUME fscanf
  PROVE  /\ pc = "fscanf" /\ orden' = orden /\ original' = original /\ acceso' = acceso
         /\ simuladas' = simuladas /\ vivos' = vivos /\ estado' = estado
         /\ pc' \in {"fscanf", "acceso"}
BY DEF fscanf, Blancos, DosPuntos, Caracter, Numero, Pasar, Devolver

\* It goes on to the next directive, or returns: after the last one, or with
\* traza as it was.
LEMMA Avanza ==
  ASSUME Tipos, fscanf
  PROVE  /\ directiva < 11 /\ pc' = "fscanf" => directiva' = directiva + 1
         /\ pc' = "acceso" => directiva' = 1
         /\ directiva' \in 1 .. 11
         /\ directiva = 11 => pc' = "acceso"
         /\ pc' = "acceso" /\ directiva < 11 => traza' = traza
<1>1. directiva \in 1 .. 11 /\ pc = "fscanf" /\ Len(FORMATO) = 11
  BY Quietas, Directivas DEF Tipos
<1>2. ASSUME NEW r, Pasar(r)
      PROVE  /\ directiva < 11 => directiva' = directiva + 1 /\ pc' = "fscanf"
             /\ directiva = 11 => directiva' = 1 /\ pc' = "acceso"
  BY <1>1, <1>2 DEF Pasar
<1>3. (\E r : Pasar(r)) \/ (\E r : Devolver(r))
  BY DEF fscanf, Blancos, DosPuntos, Caracter, Numero
<1>4. (\E r : Devolver(r)) => directiva' = 1 /\ pc' = "acceso" /\ traza' = traza
  BY DEF Devolver
<1> QED
  BY <1>1, <1>2, <1>3, <1>4

\* Which directive does what.
LEMMA CualEs ==
  ASSUME Tipos, fscanf
  PROVE  /\ directiva \in {3, 5, 7, 9, 11} <=> Blancos
         /\ directiva = 2 <=> DosPuntos
         /\ directiva = 4 <=> Caracter
         /\ directiva \in {1, 6, 8, 10} <=> Numero
<1>1. \/ directiva = 1 \/ directiva = 2 \/ directiva = 3 \/ directiva = 4 \/ directiva = 5 \/ directiva = 6
      \/ directiva = 7 \/ directiva = 8 \/ directiva = 9 \/ directiva = 10 \/ directiva = 11
  BY DEF Tipos
<1>2. Blancos => directiva \in {3, 5, 7, 9, 11}
  BY <1>1, Directivas DEF Blancos
<1>3. DosPuntos => directiva = 2
  BY <1>1, Directivas DEF DosPuntos
<1>4. Caracter => directiva = 4
  BY <1>1, Directivas DEF Caracter
<1>5. Numero => directiva \in {1, 6, 8, 10}
  BY <1>1, Directivas DEF Numero
<1>6. Blancos \/ DosPuntos \/ Caracter \/ Numero
  BY DEF fscanf
<1> QED
  BY <1>2, <1>3, <1>4, <1>5, <1>6

\* Every directive leaves pieces of text, no more than there were; the first
\* takes one, unless it gets stuck.
LEMMA Consume ==
  ASSUME Tipos, fscanf
  PROVE  /\ archivo' \in Seq(Trozo) /\ traza' \in Traza
         /\ Len(archivo') \in Nat /\ Len(archivo) \in Nat /\ Len(archivo') <= Len(archivo)
         /\ directiva = 1 /\ Atascado => Atascado'
         /\ directiva = 1 /\ ~Atascado => Len(archivo') < Len(archivo)
<1> DEFINE texto == SinBlancos(archivo)
           cifras == Head(texto).cifras
<1>0. archivo \in Seq(Trozo) /\ Len(archivo) \in Nat /\ directiva \in 1 .. 11 /\ traza \in Traza
  BY DEF Tipos
<1>1. CASE Blancos
  <2>1. archivo' = texto /\ traza' = traza
    BY <1>1 DEF Blancos, Pasar
  <2>2. directiva # 1
    BY <1>1, CualEs
  <2> QED
    BY <1>0, <2>1, <2>2, SinBlancosMenos
<1>2. CASE DosPuntos
  <2>1. directiva = 2 /\ traza' = traza
    BY <1>2, CualEs DEF DosPuntos, Devolver
  <2>2. archivo' = archivo \/ (archivo # <<>> /\ archivo' = Tail(archivo))
    BY <1>2 DEF DosPuntos, Devolver, Pasar
  <2> QED
    BY <1>0, <2>1, <2>2, Primera
<1>3. CASE Caracter
  <2>1. directiva = 4
    BY <1>3, CualEs
  <2>2. CASE archivo = <<>>
    <3>1. archivo' = archivo /\ traza' = traza
      BY <1>3, <2>2 DEF Caracter, Devolver
    <3> QED
      BY <1>0, <2>1, <3>1
  <2>3. CASE archivo # <<>>
    <3>1. archivo' = Quitar(archivo, 1) /\ traza' = [traza EXCEPT !.instruccion = Head(archivo).signo]
      BY <1>3, <2>3 DEF Caracter, Pasar
    <3>2. traza' \in Traza
      BY <1>0, <2>3, <3>1, Primera DEF Traza
    <3> QED
      BY <1>0, <2>1, <2>3, <3>1, <3>2, QuitarMenos
  <2> QED
    BY <2>2, <2>3
<1>4. CASE Numero
  <2>0. texto \in Seq(Trozo) /\ Len(texto) \in Nat /\ (texto = archivo \/ Len(texto) < Len(archivo))
    BY <1>0, SinBlancosMenos
  <2>1. CASE HayNumero(texto) /\ Pasar(Quitar(texto, Cuantas(cifras)))
    <3>1. texto # <<>> /\ cifras # <<>> /\ cifras \in Seq(0 .. 15)
      BY <2>0, <2>1, Primera DEF HayNumero
    <3>2. Cuantas(cifras) \in 0 .. Len(cifras) /\ Len(cifras) \in Nat
      BY <3>1, CuantasSon
    <3>3. archivo' = Quitar(texto, Cuantas(cifras))
      BY <2>1 DEF Pasar
    <3>4. traza' = traza \/ traza' = [traza EXCEPT !.direccion_accedida = Palabra(SubSeq(cifras, 1, Cuantas(cifras)))]
      <4>1. \/ traza' = (IF directiva # Direccion THEN traza
                        ELSE [traza EXCEPT !.direccion_accedida = Palabra(SubSeq(cifras, 1, Cuantas(cifras)))])
            \/ ~HayNumero(texto)
        BY <1>4 DEF Numero
      <4> QED
        BY <2>1, <4>1
    <3>5. traza' \in Traza
      <4>1. Palabra(SubSeq(cifras, 1, Cuantas(cifras))) \in Word
        BY DEF Palabra, Word
      <4> HIDE DEF cifras, texto
      <4> QED
        BY <1>0, <3>4, <4>1 DEF Traza
    <3>6. archivo' \in Seq(Trozo) /\ Len(archivo') \in Nat /\ Len(archivo') <= Len(texto)
      <4> HIDE DEF texto
      <4>1. Cuantas(cifras) \in Nat
        BY <3>2
      <4> QED
        BY <2>0, <3>1, <3>3, <4>1, QuitarMenos
    <3>7. ASSUME directiva = 1 PROVE Len(archivo') < Len(archivo) /\ ~Atascado
      <4>1. Base(cifras) = 16
        BY <3>7, Directivas DEF Base
      <4>2. \A k \in 1 .. Len(cifras) : cifras[k] < Base(cifras)
        <5>1. \A k \in 1 .. Len(cifras) : cifras[k] \in 0 .. 15
          BY <3>1
        <5> QED
          BY <4>1, <5>1
      <4>3. Cuantas(cifras) = Len(cifras)
        BY <3>1, <4>2, CuantasSon
      <4>4. Cuantas(cifras) >= Len(Head(texto).cifras) /\ Cuantas(cifras) \in Nat
        BY <3>2, <4>3
      <4>5. archivo' = Tail(texto)
        BY <2>0, <3>1, <3>3, <4>4, QuitarMenos
      <4>6. Len(archivo') = Len(texto) - 1
        BY <2>0, <3>1, <4>5, Primera
      <4>7. ~Atascado
        BY <3>1 DEF Atascado, SinBlancos
      <4> QED
        BY <1>0, <2>0, <4>6, <4>7
    <3> QED
      BY <1>0, <2>0, <3>5, <3>6, <3>7
  <2>2. CASE ~HayNumero(texto) /\ (texto # <<>> \/ directiva > 1) /\ Devolver(texto)
    <3>1. archivo' = texto /\ traza' = traza /\ directiva' = 1
      BY <2>2 DEF Devolver
    <3>2. ASSUME directiva = 1, Atascado PROVE Atascado'
      <4>1. texto = archivo
        BY <3>2 DEF Atascado, SinBlancos
      <4> QED
        BY <3>1, <3>2, <4>1 DEF Atascado
    <3>3. ASSUME directiva = 1, ~Atascado PROVE texto # archivo
      <4>1. SUFFICES ASSUME texto = archivo PROVE FALSE
        OBVIOUS
      <4>2. archivo # <<>> /\ Head(archivo).signo # " "
        <5>1. archivo # <<>>
          BY <2>2, <3>3, <4>1
        <5>2. Len(Tail(archivo)) # Len(archivo)
          BY <1>0, <5>1, Primera
        <5> QED
          BY <4>1, <5>1, <5>2 DEF SinBlancos
      <4>3. Head(archivo).cifras # <<>>
        BY <3>3, <4>2 DEF Atascado
      <4> DEFINE d == Head(archivo).cifras
      <4>4. d \in Seq(0 .. 15) /\ d # <<>> /\ Len(d) \in Nat
        <5>1. d \in Seq(0 .. 15)
          BY <1>0, <4>2, Primera
        <5> QED
          BY <4>3, <5>1
      <4>5. Base(d) = 16
        BY <3>3, Directivas DEF Base
      <4>6. \A k \in 1 .. Len(d) : d[k] < Base(d)
        <5>1. \A k \in 1 .. Len(d) : d[k] \in 0 .. 15
          BY <4>4
        <5> QED
          BY <4>5, <5>1
      <4>7. Cuantas(d) = Len(d)
        BY <4>4, <4>6, CuantasSon
      <4>8. Len(d) > 0
        BY <4>4
      <4> QED
        BY <2>2, <4>1, <4>2, <4>3, <4>7, <4>8 DEF HayNumero
    <3> QED
      BY <1>0, <2>0, <3>1, <3>2, <3>3
  <2> QED
    BY <1>4, <2>1, <2>2 DEF Numero
<1> QED
  BY <1>1, <1>2, <1>3, <1>4 DEF fscanf

\* In a trace in the format the directive finds its piece of text and takes it
\* whole; only the end of the text stops it.
LEMMA EncuentraSuPieza ==
  ASSUME Tipos, EnLinea, EnFormato(original), fscanf
  PROVE  /\ archivo' = SubSeq(original, Lugar + 1, Len(original))
         /\ Lugar <= Len(original) =>
              /\ directiva < 11 => pc' = "fscanf"
              /\ traza'.instruccion =
                   (IF directiva = 4 THEN original[Lugar].signo ELSE traza.instruccion)
              /\ traza'.direccion_accedida =
                   (IF directiva = 6 THEN Palabra(original[Lugar].cifras) ELSE traza.direccion_accedida)
         /\ Lugar > Len(original) => traza' = traza /\ directiva # 1
<1> DEFINE n == Len(original)
           p == original[Lugar]
<1>0. /\ original \in Seq(Trozo) /\ n \in Nat /\ directiva \in 1 .. 11 /\ Len(simuladas) \in Nat
      /\ Lugar \in Nat \ {0} /\ traza \in Traza /\ Len(FORMATO) = 11
  <2>1. original \in Seq(Trozo) /\ simuladas \in Seq(Traza) /\ directiva \in 1 .. 11 /\ traza \in Traza
    BY DEF Tipos
  <2>2. n \in Nat /\ Len(simuladas) \in Nat
    BY <2>1
  <2>3. Lugar \in Nat \ {0}
    BY <2>1, <2>2 DEF Lugar
  <2> QED
    BY <2>1, <2>2, <2>3, Directivas
<1>1. archivo = SubSeq(original, Lugar, n)
  BY Quietas DEF EnLinea
<1>2. CASE Lugar > n
  <2>1. archivo = <<>> /\ SubSeq(original, Lugar + 1, n) = <<>>
    BY <1>0, <1>1, <1>2, Sobras
  <2>2. SinBlancos(archivo) = <<>>
    BY <2>1 DEF SinBlancos
  <2>3. archivo' = <<>> /\ traza' = traza /\ directiva # 1
    <3>1. CASE Blancos
      <4>1. directiva # 1
        BY <3>1, CualEs
      <4> QED
        BY <2>2, <3>1, <4>1 DEF Blancos, Pasar
    <3>2. CASE DosPuntos
      <4>1. directiva # 1
        BY <3>2, CualEs
      <4> QED
        BY <2>1, <3>2, <4>1 DEF DosPuntos, Devolver
    <3>3. CASE Caracter
      <4>1. directiva # 1
        BY <3>3, CualEs
      <4> QED
        BY <2>1, <3>3, <4>1 DEF Caracter, Devolver
    <3>4. CASE Numero
      <4>1. ~HayNumero(SinBlancos(archivo))
        BY <2>2 DEF HayNumero
      <4>2. (SinBlancos(archivo) # <<>> \/ directiva > 1) /\ Devolver(SinBlancos(archivo))
        BY <3>4, <4>1 DEF Numero
      <4> QED
        BY <1>0, <2>2, <4>2 DEF Devolver
    <3> QED
      BY <3>1, <3>2, <3>3, <3>4 DEF fscanf
  <2> QED
    BY <1>0, <1>2, <2>1, <2>3
<1>3. CASE Lugar <= n
  <2>1. archivo # <<>> /\ Head(archivo) = p /\ Tail(archivo) = SubSeq(original, Lugar + 1, n)
    BY <1>0, <1>1, <1>3, Sobras
  <2>2. Lugar \in 1 .. n /\ p \in Trozo /\ Lugar % 11 = directiva % 11
    BY <1>0, <1>3 DEF Lugar
  <2>3. archivo \in Seq(Trozo)
    BY DEF Tipos
  <2> DEFINE m == Lugar % 11
  <2>4. /\ m \in {1, 6, 8, 10} => p.cifras # <<>>
        /\ m = 8 => \A j \in 1 .. Len(p.cifras) : p.cifras[j] < (IF p.cifras[1] = 0 THEN 8 ELSE 10)
        /\ m = 2 => p.signo = ":"
        /\ m = 4 => p.cifras = <<>> /\ p.signo # " "
        /\ m \in {0, 3, 5, 7, 9} => p.signo = " "
    BY <2>2 DEF EnFormato
  <2>5. m = directiva % 11
    BY <2>2
  <2> HIDE DEF p, m
  <2>6. CASE Blancos
    <3>1. m \in {0, 3, 5, 7, 9} /\ directiva \in {3, 5, 7, 9, 11}
      BY <2>5, <2>6, CualEs
    <3>2. archivo' = Tail(archivo) /\ traza' = traza /\ (directiva < 11 => pc' = "fscanf")
      BY <1>0, <2>1, <2>4, <2>6, <3>1, Quietas DEF Blancos, SinBlancos, Pasar
    <3> QED
      BY <1>0, <1>3, <2>1, <3>1, <3>2
  <2>7. CASE DosPuntos
    <3>1. m = 2 /\ directiva = 2
      BY <2>5, <2>7, CualEs
    <3>2. archivo' = Tail(archivo) /\ traza' = traza /\ pc' = "fscanf"
      BY <1>0, <2>1, <2>4, <2>7, <3>1, Quietas DEF DosPuntos, Pasar
    <3> QED
      BY <1>0, <1>3, <2>1, <3>1, <3>2
  <2>8. CASE Caracter
    <3>1. m = 4 /\ directiva = 4
      BY <2>5, <2>8, CualEs
    <3>2. Pasar(Quitar(archivo, 1)) /\ traza' = [traza EXCEPT !.instruccion = p.signo]
      BY <2>1, <2>8 DEF Caracter
    <3>3. 1 >= Len(Head(archivo).cifras)
      <4>1. p.cifras = <<>>
        BY <2>4, <3>1
      <4>2. Head(archivo).cifras = <<>>
        BY <2>1, <4>1
      <4> QED
        BY <4>2
    <3>4. Quitar(archivo, 1) = Tail(archivo)
      BY <2>1, <2>3, <3>3, QuitarMenos
    <3>5. archivo' = Tail(archivo) /\ pc' = "fscanf"
      BY <1>0, <3>1, <3>2, <3>4, Quietas DEF Pasar
    <3>6. traza'.instruccion = p.signo /\ traza'.direccion_accedida = traza.direccion_accedida
      BY <1>0, <3>2 DEF Traza
    <3> QED
      BY <1>0, <1>3, <2>1, <3>1, <3>5, <3>6 DEF p
  <2>9. CASE Numero
    <3> DEFINE c == Head(archivo).cifras
    <3>1. m \in {1, 6, 8, 10} /\ m = directiva /\ directiva \in {1, 6, 8, 10}
      BY <2>5, <2>9, CualEs
    <3>2. c = p.cifras /\ c # <<>> /\ c \in Seq(0 .. 15) /\ Len(c) \in Nat
      <4>1. c = p.cifras
        BY <2>1
      <4>2. p.cifras # <<>>
        BY <2>4, <3>1
      <4>3. c \in Seq(0 .. 15)
        BY <2>1, <2>3, Primera
      <4> QED
        BY <4>1, <4>2, <4>3
    <3>3. SinBlancos(archivo) = archivo
      <4>1. p.signo # " "
        <5>1. original[Lugar].cifras # <<>> => original[Lugar].signo = "cifras"
          BY <2>2 DEF Tipos
        <5> QED
          BY <3>2, <5>1 DEF p
      <4> QED
        BY <2>1, <4>1 DEF SinBlancos
    <3>4. \A k \in 1 .. Len(c) : c[k] < Base(c)
      <4>1. CASE directiva = 8
        <5>1. Base(c) = IF c[1] = 0 THEN 8 ELSE 10
          BY <4>1, Directivas DEF Base
        <5> QED
          BY <2>4, <3>1, <3>2, <4>1, <5>1
      <4>2. CASE directiva # 8
        <5>1. Base(c) = 16
          BY <3>1, <4>2, Directivas DEF Base
        <5>2. \A k \in 1 .. Len(c) : c[k] \in 0 .. 15
          BY <3>2
        <5> QED
          BY <5>1, <5>2
      <4> QED
        BY <4>1, <4>2
    <3>5. Cuantas(c) = Len(c) /\ Len(c) > 0
      BY <3>2, <3>4, CuantasSon
    <3>6. HayNumero(archivo)
      BY <2>1, <3>2, <3>5 DEF HayNumero
    <3>7. /\ Pasar(Quitar(archivo, Cuantas(c)))
          /\ traza' = (IF directiva # Direccion THEN traza
                       ELSE [traza EXCEPT !.direccion_accedida = Palabra(SubSeq(c, 1, Cuantas(c)))])
      BY <2>9, <3>3, <3>6 DEF Numero
    <3>8. Quitar(archivo, Cuantas(c)) = Tail(archivo)
      BY <2>1, <2>3, <3>2, <3>5, QuitarMenos
    <3>9. SubSeq(c, 1, Cuantas(c)) = c
      BY <3>2, <3>5, SubSeqFull
    <3>10. archivo' = Tail(archivo) /\ pc' = "fscanf"
      BY <1>0, <3>1, <3>7, <3>8, Quietas DEF Pasar
    <3>11. traza' = IF directiva # 6 THEN traza ELSE [traza EXCEPT !.direccion_accedida = Palabra(p.cifras)]
      BY <3>2, <3>7, <3>9 DEF Direccion
    <3>12. /\ traza'.instruccion = traza.instruccion
           /\ traza'.direccion_accedida = (IF directiva = 6 THEN Palabra(p.cifras) ELSE traza.direccion_accedida)
      BY <1>0, <3>11 DEF Traza
    <3>13. archivo' = SubSeq(original, Lugar + 1, n)
      BY <2>1, <3>10
    <3>14. traza'.instruccion = (IF directiva = 4 THEN original[Lugar].signo ELSE traza.instruccion)
      BY <3>1, <3>12
    <3>15. traza'.direccion_accedida =
             (IF directiva = 6 THEN Palabra(original[Lugar].cifras) ELSE traza.direccion_accedida)
      BY <3>12 DEF p
    <3>16. ~(Lugar > n)
      BY <1>0, <1>3
    <3> QED
      BY <3>10, <3>13, <3>14, <3>15, <3>16
  <2> QED
    BY <2>6, <2>7, <2>8, <2>9 DEF fscanf
<1> QED
  BY <1>0, <1>2, <1>3

-----------------------------------------------------------------------------
\* The product that wraps around to zero is zero or does not fit.
LEMMA ProductoCero ==
  ASSUME NEW a \in Nat, NEW n \in Nat, AInt(a * n) = 0
  PROVE  a = 0 \/ n = 0 \/ a * n >= 2 * (INT_MAX + 1)
<1> DEFINE h == INT_MAX + 1
           p == a * n
<1>1. h \in Nat /\ h > 0 /\ p \in Nat
  BY IntAssumption
<1> HIDE DEF h, p
<1>2. (p + h) % (2 * h) = h
  <2>1. ((p + INT_MAX + 1) % (2 * h)) \in Int
    BY <1>1, IntAssumption
  <2>2. p + INT_MAX + 1 = p + h
    BY <1>1, IntAssumption DEF h
  <2>3. ((p + INT_MAX + 1) % (2 * h)) - h = 0
    BY DEF AInt, h, p
  <2> QED
    BY <1>1, <2>1, <2>2, <2>3
<1>3. CASE p < 2 * h
  <2>1. CASE p + h < 2 * h
    <3>1. (p + h) % (2 * h) = p + h
      BY <1>1, <2>1
    <3>2. p = 0
      BY <1>1, <1>2, <3>1
    <3> QED
      BY <3>2 DEF p
  <2>2. CASE p + h >= 2 * h
    <3>1. (p + h) % (2 * h) = (p + h) - 2 * h
      BY <1>1, <1>3, <2>2
    <3> QED
      BY <1>1, <1>2, <1>3, <3>1
  <2> QED
    BY <1>1, <2>1, <2>2
<1>4. CASE p >= 2 * h
  BY <1>4 DEF p, h
<1> QED
  BY <1>1, <1>3, <1>4

\* Nothing else that the program holds has the verbose struct's name, and no
\* line of a set has the name of the cache.
LEMMA Nombres ==
  /\ Objeto("verboso") \notin Todo
  /\ \A i \in Int : Objeto("cache") \notin Lineas(i) /\ Objeto("archivo") \notin Lineas(i)
  /\ Objeto("cache") # Objeto("archivo")
BY DEF Todo, Objeto, Lineas

\* A step of fscanf keeps it.
LEMMA PasoFscanf == ASSUME IInv, fscanf PROVE IInv'
<1> DEFINE n == Len(original)
           h == Len(simuladas)
<1>0. /\ Tipos /\ Tenencia /\ Cuenta /\ EnLinea /\ SalidaHonesta
      /\ n \in Nat /\ h \in Nat /\ directiva \in 1 .. 11 /\ original \in Seq(Trozo)
  BY DEF IInv, Tipos
<1>1. /\ pc = "fscanf" /\ orden' = orden /\ original' = original
      /\ simuladas' = simuladas /\ vivos' = vivos /\ pc' \in {"fscanf", "acceso"}
  BY Quietas
<1>2. /\ directiva < 11 /\ pc' = "fscanf" => directiva' = directiva + 1
      /\ pc' = "acceso" => directiva' = 1
      /\ directiva' \in 1 .. 11
      /\ directiva = 11 => pc' = "acceso"
      /\ pc' = "acceso" /\ directiva < 11 => traza' = traza
  BY <1>0, Avanza
<1>3. /\ archivo' \in Seq(Trozo) /\ traza' \in Traza
      /\ Len(archivo') \in Nat /\ Len(archivo) \in Nat /\ Len(archivo') <= Len(archivo)
      /\ directiva = 1 /\ Atascado => Atascado'
      /\ directiva = 1 /\ ~Atascado => Len(archivo') < Len(archivo)
  BY <1>0, Consume
<1>4. Tipos'
  BY <1>0, <1>1, <1>2, <1>3 DEF Tipos
<1>5. Tenencia' /\ SalidaHonesta'
  BY <1>0, <1>1 DEF Tenencia, Todo, SalidaHonesta, ExitoCompleto, SoloEstasFugas, CaeSoloSi
<1>6. Cuenta'
  <2>1. Atascado' \/ Len(archivo') + h + 1 <= n
    <3>1. CASE directiva = 1
      BY <1>0, <1>1, <1>3, <3>1 DEF Cuenta
    <3>2. CASE directiva > 1
      <4>0. ~(directiva = 1)
        BY <1>0, <3>2
      <4>1. ~Atascado /\ ~(directiva = 1)
        BY <4>0 DEF Atascado
      <4>2. Len(archivo) + h + 1 <= n
        BY <1>0, <1>1, <4>1 DEF Cuenta
      <4> QED
        BY <1>0, <1>3, <4>2
    <3> QED
      BY <1>0, <3>1, <3>2
  <2>2. pc' = "fscanf" => directiva' > 1
    BY <1>0, <1>2
  <2> QED
    BY <1>1, <2>1, <2>2 DEF Cuenta
<1>7. EnLinea'
  <2> SUFFICES ASSUME EnFormato(original) PROVE EnLinea'
    BY <1>1 DEF EnLinea, EnFormato
  <2>1. /\ archivo' = SubSeq(original, Lugar + 1, n)
        /\ Lugar <= n =>
             /\ directiva < 11 => pc' = "fscanf"
             /\ traza'.instruccion =
                  (IF directiva = 4 THEN original[Lugar].signo ELSE traza.instruccion)
             /\ traza'.direccion_accedida =
                  (IF directiva = 6 THEN Palabra(original[Lugar].cifras) ELSE traza.direccion_accedida)
        /\ Lugar > n => traza' = traza /\ directiva # 1
    BY <1>0, EncuentraSuPieza
  <2>2. Lugar = 11 * h + directiva /\ Lugar \in Nat
    BY <1>0 DEF Lugar
  <2>3. 11 * h + 1 <= n
    BY SMTT(60), <1>0, <1>1, <2>1, <2>2 DEF EnLinea
  <2>4. /\ directiva > 4 /\ 11 * h + 4 <= n => traza.instruccion = original[11 * h + 4].signo
        /\ directiva > 6 /\ 11 * h + 6 <= n =>
             traza.direccion_accedida = Palabra(original[11 * h + 6].cifras)
        /\ \A k \in 1 .. h : /\ 11 * k - 10 <= n
                             /\ 11 * k - 1 <= n => simuladas[k] = DeLaLinea(k)
    BY <1>0, <1>1 DEF EnLinea
  <2>5. \A k \in Nat : DeLaLinea(k)' = DeLaLinea(k)
    BY <1>1 DEF DeLaLinea
  <2>6. ASSUME pc' = "fscanf"
        PROVE  /\ archivo' = SubSeq(original, Lugar', n)
               /\ directiva' > 4 /\ 11 * h + 4 <= n => traza'.instruccion = original[11 * h + 4].signo
               /\ directiva' > 6 /\ 11 * h + 6 <= n =>
                    traza'.direccion_accedida = Palabra(original[11 * h + 6].cifras)
    <3>1. directiva < 11 /\ directiva' = directiva + 1
      BY <1>0, <1>2, <2>6
    <3>2. Lugar' = Lugar + 1
      BY <1>0, <1>1, <2>2, <3>1 DEF Lugar
    <3>3. ASSUME directiva' > 4, 11 * h + 4 <= n
          PROVE  traza'.instruccion = original[11 * h + 4].signo
      <4>1. CASE directiva = 4
        BY <2>1, <2>2, <3>3, <4>1
      <4>2. CASE directiva > 4
        BY <1>0, <2>1, <2>2, <2>4, <3>3, <4>2
      <4> QED
        BY <1>0, <3>1, <3>3, <4>1, <4>2
    <3>4. ASSUME directiva' > 6, 11 * h + 6 <= n
          PROVE  traza'.direccion_accedida = Palabra(original[11 * h + 6].cifras)
      <4>1. CASE directiva = 6
        BY <2>1, <2>2, <3>4, <4>1
      <4>2. CASE directiva > 6
        BY <1>0, <2>1, <2>2, <2>4, <3>4, <4>2
      <4> QED
        BY <1>0, <3>1, <3>4, <4>1, <4>2
    <3> QED
      BY <2>1, <3>2, <3>3, <3>4
  <2>7. ASSUME pc' = "acceso"
        PROVE  /\ archivo' = SubSeq(original, 11 * h + 12, n)
               /\ 11 * h + 10 <= n => traza' = DeLaLinea(h + 1)
    <3>1. CASE directiva = 11
      <4>1. Lugar + 1 = 11 * h + 12
        BY <1>0, <2>2, <3>1
      <4>2. ASSUME 11 * h + 10 <= n PROVE traza' = DeLaLinea(h + 1)
        <5>1. /\ traza.instruccion = original[11 * h + 4].signo
              /\ traza.direccion_accedida = Palabra(original[11 * h + 6].cifras)
          BY <1>0, <2>4, <3>1, <4>2
        <5>2. /\ traza'.instruccion = traza.instruccion
              /\ traza'.direccion_accedida = traza.direccion_accedida
          BY <1>0, <2>1, <2>2, <3>1
        <5>3. 11 * (h + 1) - 5 = 11 * h + 6 /\ 11 * (h + 1) - 7 = 11 * h + 4
          BY <1>0
        <5>4. DeLaLinea(h + 1) = [direccion_accedida |-> Palabra(original[11 * h + 6].cifras),
                                  instruccion |-> original[11 * h + 4].signo]
          BY <5>3 DEF DeLaLinea
        <5> QED
          BY <1>3, <5>1, <5>2, <5>4 DEF Traza
      <4> QED
        BY <2>1, <4>1, <4>2
    <3>2. CASE directiva < 11
      <4>1. Lugar > n
        BY <1>0, <2>1, <2>2, <2>7, <3>2
      <4>2. 11 * h + 12 > n /\ Lugar + 1 > n /\ 11 * h + 12 \in Nat \ {0} /\ Lugar + 1 \in Nat \ {0}
        BY <1>0, <2>2, <3>2, <4>1
      <4>3. SubSeq(original, Lugar + 1, n) = <<>> /\ SubSeq(original, 11 * h + 12, n) = <<>>
        BY <1>0, <4>2, Sobras
      <4>4. ASSUME 11 * h + 10 <= n PROVE FALSE
        BY <1>0, <2>2, <3>2, <4>1, <4>4
      <4> QED
        BY <2>1, <4>3, <4>4
    <3> QED
      BY <1>0, <3>1, <3>2
  <2> QED
    BY <1>1, <2>3, <2>4, <2>5, <2>6, <2>7 DEF EnLinea
<1> QED
  BY <1>4, <1>5, <1>6, <1>7 DEF IInv

\* The end of the text keeps it: nothing was left but white space, and that is
\* what a trace in the format has after its last line at most.
LEMMA PasoFin == ASSUME IInv, FinDeArchivo PROVE IInv'
<1> DEFINE n == Len(original)
           h == Len(simuladas)
<1>0. /\ Tipos /\ Tenencia /\ Cuenta /\ EnLinea /\ SalidaHonesta
      /\ n \in Nat /\ h \in Nat /\ original \in Seq(Trozo)
      /\ archivo \in Seq(Trozo) /\ Len(archivo) \in Nat
  BY DEF IInv, Tipos
<1>1. /\ pc = "fscanf" /\ directiva = 1 /\ SinBlancos(archivo) = <<>> /\ pc' = "mostrar"
      /\ archivo' = <<>> /\ vivos' = vivos \ {Objeto("verboso")}
      /\ UNCHANGED <<orden, original, directiva, traza, simuladas>>
  BY DEF FinDeArchivo
<1>2. ~(archivo # <<>> /\ Head(archivo).signo # " ")
  BY <1>1 DEF SinBlancos
<1>3. Tipos'
  BY <1>0, <1>1 DEF Tipos
<1>4. Tenencia' /\ SalidaHonesta'
  BY <1>0, <1>1 DEF Tenencia, Todo, SalidaHonesta, ExitoCompleto, SoloEstasFugas, CaeSoloSi
<1>5. Cuenta'
  <2>0. ~Atascado
    BY <1>2 DEF Atascado
  <2>1. Len(archivo) + h <= n
    BY <1>0, <1>1, <2>0 DEF Cuenta
  <2> QED
    BY <1>0, <1>1, <2>1 DEF Cuenta
<1>6. EnLinea'
  <2> SUFFICES ASSUME EnFormato(original) PROVE EnLinea'
    BY <1>1 DEF EnLinea, EnFormato
  <2>1. n <= 11 * h
    <3>1. ASSUME 11 * h + 1 <= n PROVE FALSE
      <4>1. Lugar = 11 * h + 1 /\ Lugar \in Nat \ {0}
        BY <1>0, <1>1 DEF Lugar
      <4>2. archivo = SubSeq(original, Lugar, n)
        BY <1>0, <1>1 DEF EnLinea
      <4>3. archivo # <<>> /\ Head(archivo) = original[Lugar]
        BY <1>0, <3>1, <4>1, <4>2, Sobras
      <4>4. Lugar \in 1 .. n /\ Lugar % 11 = 1
        BY <1>0, <3>1, <4>1
      <4>5. original[Lugar].cifras # <<>>
        BY <4>4 DEF EnFormato
      <4>6. original[Lugar].signo = "cifras"
        BY <1>0, <4>4, <4>5 DEF Tipos
      <4> QED
        BY <1>2, <4>3, <4>6
    <3> QED
      BY <1>0, <3>1
  <2>2. \A k \in Nat : DeLaLinea(k)' = DeLaLinea(k)
    BY <1>1 DEF DeLaLinea
  <2>3. \A k \in 1 .. h : /\ 11 * k - 10 <= n
                          /\ 11 * k - 1 <= n => simuladas[k] = DeLaLinea(k)
    BY <1>0 DEF EnLinea
  <2> QED
    BY <1>0, <1>1, <2>1, <2>2, <2>3 DEF EnLinea
<1> QED
  BY <1>3, <1>4, <1>5, <1>6 DEF IInv

\* An iteration of the loop keeps it: the access simulated is the one that
\* fscanf left in traza.
LEMMA PasoSimular == ASSUME IInv, Simular PROVE IInv'
<1> DEFINE n == Len(original)
           h == Len(simuladas)
<1>0. /\ Tipos /\ Tenencia /\ Cuenta /\ EnLinea /\ SalidaHonesta
      /\ n \in Nat /\ h \in Nat /\ n <= MaxVueltas /\ MaxVueltas \in Nat
      /\ archivo \in Seq(Trozo) /\ Len(archivo) \in Nat /\ traza \in Traza
      /\ simuladas \in Seq(Traza)
  <2>1. MaxVueltas \in Nat
    BY ArchivosAssumption
  <2>2. Tipos /\ Tenencia /\ Cuenta /\ EnLinea /\ SalidaHonesta
    BY DEF IInv
  <2>3. /\ original \in Seq(Trozo) /\ n <= MaxVueltas /\ archivo \in Seq(Trozo)
        /\ traza \in Traza /\ simuladas \in Seq(Traza)
    BY <2>2 DEF Tipos
  <2> HIDE DEF n, h
  <2>4. n \in Nat /\ h \in Nat /\ Len(archivo) \in Nat
    BY <2>3 DEF n, h
  <2> QED
    BY <2>1, <2>2, <2>3, <2>4
<1>1. /\ pc = "acceso" /\ pc' = "fscanf" /\ directiva = 1
      /\ simuladas' = (IF h < MaxVueltas THEN Append(simuladas, traza) ELSE simuladas)
      /\ UNCHANGED <<orden, original, archivo, directiva, traza, vivos, estado>>
  BY <1>0 DEF Simular, Tipos
<1>2. /\ Append(simuladas, traza) \in Seq(Traza)
      /\ Len(Append(simuladas, traza)) = h + 1
      /\ \A k \in 1 .. h : Append(simuladas, traza)[k] = simuladas[k]
      /\ Append(simuladas, traza)[h + 1] = traza
  BY <1>0, AppendProperties
<1>3. Tipos'
  BY <1>0, <1>1, <1>2 DEF Tipos
<1>4. Tenencia' /\ SalidaHonesta'
  BY <1>0, <1>1 DEF Tenencia, Todo, SalidaHonesta, ExitoCompleto, SoloEstasFugas, CaeSoloSi
<1>5. Cuenta'
  <2>1. CASE Atascado
    BY <1>1, <2>1 DEF Cuenta, Atascado
  <2>2. CASE ~Atascado
    <3>1. Len(archivo) + h + 1 <= n
      BY <1>0, <1>1, <2>2 DEF Cuenta
    <3>2. Len(simuladas') = h + 1
      BY <1>0, <1>1, <1>2, <3>1
    <3> QED
      BY <1>0, <1>1, <3>1, <3>2 DEF Cuenta
  <2> QED
    BY <2>1, <2>2
<1>6. EnLinea'
  <2> SUFFICES ASSUME EnFormato(original) PROVE EnLinea'
    BY <1>1 DEF EnLinea, EnFormato
  <2>1. /\ archivo = SubSeq(original, 11 * h + 12, n)
        /\ 11 * h + 1 <= n
        /\ 11 * h + 10 <= n => traza = DeLaLinea(h + 1)
        /\ \A k \in 1 .. h : /\ 11 * k - 10 <= n
                             /\ 11 * k - 1 <= n => simuladas[k] = DeLaLinea(k)
    BY <1>0, <1>1 DEF EnLinea
  <2>2. simuladas' = Append(simuladas, traza)
    BY <1>0, <1>1, <2>1
  <2>3. Len(simuladas') = h + 1
    BY <1>2, <2>2
  <2>4. ASSUME NEW k \in 1 .. h + 1
        PROVE  /\ 11 * k - 10 <= n
               /\ 11 * k - 1 <= n => simuladas'[k] = DeLaLinea(k)
    <3>1. CASE k = h + 1
      <4>1. 11 * k - 10 = 11 * h + 1 /\ 11 * k - 1 = 11 * h + 10
        BY <1>0, <3>1
      <4> QED
        BY <1>2, <2>1, <2>2, <3>1, <4>1
    <3>2. CASE k \in 1 .. h
      BY <1>2, <2>1, <2>2, <3>2
    <3> QED
      BY <1>0, <3>1, <3>2
  <2>5. \A k \in Nat : DeLaLinea(k)' = DeLaLinea(k)
    BY <1>1 DEF DeLaLinea
  <2>6. Lugar' = 11 * h + 12
    BY <1>0, <1>1, <2>3 DEF Lugar
  <2>7. /\ archivo' = SubSeq(original', Lugar', Len(original'))
        /\ directiva' = 1 /\ pc' = "fscanf"
    BY <1>1, <2>1, <2>6
  <2>8. \A k \in 1 .. Len(simuladas') : /\ 11 * k - 10 <= Len(original')
                                        /\ 11 * k - 1 <= Len(original') => simuladas'[k] = DeLaLinea(k)'
    <3>1. \A k \in 1 .. h + 1 : k \in Nat
      BY <1>0
    <3> QED
      BY <1>1, <2>3, <2>4, <2>5, <3>1
  <2>9. /\ ~(directiva' > 1) /\ ~(directiva' > 4) /\ ~(directiva' > 6)
        /\ pc' # "acceso" /\ pc' # "mostrar"
    BY <2>7
  <2> HIDE DEF n, h
  <2>10. (\A k \in 1 .. Len(simuladas) : /\ 11 * k - 10 <= Len(original)
                                         /\ 11 * k - 1 <= Len(original) => simuladas[k] = DeLaLinea(k))'
    BY <2>8
  <2>11. (archivo = SubSeq(original, Lugar, Len(original)))'
    BY <2>7
  <2> QED
    BY <2>9, <2>10, <2>11 DEF EnLinea
<1> QED
  BY <1>3, <1>4, <1>5, <1>6 DEF IInv

\* Every step keeps it.
LEMMA Paso == IInv /\ [Next]_vars => IInv'
<1> SUFFICES ASSUME IInv, [Next]_vars PROVE IInv'
  OBVIOUS
<1> USE DEF IInv
<1>0. /\ orden.argc \in Nat /\ orden.tamanio \in Int /\ orden.asociatividad \in Int
      /\ orden.sets \in Int /\ MaxVueltas \in Nat
  BY OrdenesAssumption, ArchivosAssumption DEF Tipos
<1>e. ASSUME simuladas' = <<>>, pc' \notin {"fscanf", "acceso"}, pc' = "mostrar" => orden'.argc = 8
      PROVE  EnLinea'
  BY <1>e DEF EnLinea
<1>t. ASSUME UNCHANGED <<orden, original, archivo, directiva, traza, simuladas>>, pc # "fscanf"
      PROVE  Tipos'
  BY <1>t DEF Tipos
<1>1. CASE Rechazar
  BY <1>1, <1>e, <1>t DEF Rechazar, Volver, ERROR, Tenencia, Cuenta, SalidaHonesta, ExitoCompleto, SoloEstasFugas, CaeSoloSi
<1>2. CASE Dividir_Cero
  <2>1. AInt(orden.asociatividad * orden.sets) = 0
    BY <1>2 DEF Dividir_Cero, Producto
  <2>2. orden.asociatividad \in Nat /\ orden.sets \in Nat
    BY <1>2, IntAssumption DEF Dividir_Cero, Admitida, son_potencias_de_dos, es_potencia_de_dos, Potencias
  <2>3. CaeSoloSi'
    BY <1>2, <2>1, <2>2, ProductoCero DEF Dividir_Cero, Seguir, CaeSoloSi
  <2> QED
    BY <1>2, <1>e, <1>t, <2>3 DEF Dividir_Cero, Admitida, Seguir, Tenencia, Cuenta, SalidaHonesta, ExitoCompleto, SoloEstasFugas
<1>3. CASE fopen
  BY <1>3, <1>e, <1>t DEF fopen, Admitida, Volver, Seguir, ERROR_ARCHIVO, Tenencia, Cuenta, SalidaHonesta, ExitoCompleto, SoloEstasFugas, CaeSoloSi
<1>4. CASE crear_cache
  BY <1>4, <1>e, <1>t, Nombres DEF crear_cache, Volver, Seguir, ERROR, Tenencia, Cuenta, SalidaHonesta, ExitoCompleto, SoloEstasFugas, CaeSoloSi
<1>5. CASE crear_sets
  <2>0. vivos = {Objeto("archivo"), Objeto("cache")} /\ vivos \ {Objeto("archivo")} = {Objeto("cache")}
    BY <1>5, Nombres DEF crear_sets, Tenencia
  <2>1. CASE Volver(ERROR, {Objeto("cache")})
    BY <1>5, <1>e, <1>t, <2>1 DEF crear_sets, Volver, ERROR, Tenencia, Cuenta, SalidaHonesta, ExitoCompleto, SoloEstasFugas, CaeSoloSi
  <2>2. ASSUME NEW i \in 0 .. orden.sets - 1
        PROVE  ((vivos \cup Lineas(i)) \ Liberar(i)) \ {Objeto("archivo")} = {Objeto("cache")}
    BY <1>0, <2>0, Nombres DEF Liberar
  <2>3. CASE Seguir(IF orden.argc = 8 THEN "verboso" ELSE "simular",
                    vivos \cup {Objeto("sets")} \cup Lineas(orden.sets))
    <3>1. vivos' = Todo /\ Todo' = Todo
      BY <2>0, <2>3 DEF Seguir, Todo
    <3>2. Todo \ {Objeto("verboso")} = Todo
      BY Nombres
    <3> QED
      BY <1>5, <1>e, <1>t, <2>3, <3>1, <3>2 DEF crear_sets, Seguir, Tenencia, Cuenta, SalidaHonesta, ExitoCompleto, SoloEstasFugas, CaeSoloSi
  <2> QED
    BY <1>5, <2>0, <2>1, <2>2, <2>3 DEF crear_sets
<1>6. CASE crear_modo_verboso
  <2>0. pc = "verboso" /\ vivos = Todo /\ orden.argc = 8 /\ simuladas = <<>> /\ archivo = original
    BY <1>6 DEF crear_modo_verboso, Tenencia, Cuenta
  <2>1. CASE orden.primera >= orden.ultima /\ Volver(ERROR, vivos)
    BY <1>e, <1>t, <2>0, <2>1 DEF Volver, ERROR, Tenencia, Cuenta, SalidaHonesta, ExitoCompleto, SoloEstasFugas, CaeSoloSi
  <2>2. CASE Seguir("mostrar", vivos)
    BY <1>e, <1>t, <2>0, <2>2 DEF Seguir, Todo, Tenencia, Cuenta, SalidaHonesta, ExitoCompleto, SoloEstasFugas, CaeSoloSi
  <2>3. CASE Seguir("simular", vivos \cup {Objeto("verboso")})
    <3>1. vivos' \ {Objeto("verboso")} = Todo /\ Todo' = Todo
      BY <2>0, <2>3, Nombres DEF Seguir, Todo
    <3> QED
      BY <1>e, <1>t, <2>0, <2>3, <3>1 DEF Seguir, Tenencia, Cuenta, SalidaHonesta, ExitoCompleto, SoloEstasFugas, CaeSoloSi
  <2> QED
    BY <1>6, <2>1, <2>2, <2>3 DEF crear_modo_verboso
<1>7. CASE EntrarAlBucle
  <2>1. simuladas = <<>> /\ archivo = original /\ directiva = 1 /\ Len(original) \in Nat
    BY <1>7 DEF EntrarAlBucle, Cuenta, Tipos
  <2>2. traza' \in Traza
    BY <1>7, DireccionesAssumption DEF EntrarAlBucle, Traza
  <2>3. original = SubSeq(original, 1, Len(original))
    BY <2>1, SubSeqFull DEF Tipos
  <2>4. Lugar' = 1
    BY <1>7, <2>1 DEF EntrarAlBucle, Lugar
  <2>5. Tipos' /\ Tenencia' /\ SalidaHonesta'
    BY <1>7, <2>2 DEF EntrarAlBucle, Todo, Tipos, Tenencia, SalidaHonesta, ExitoCompleto, SoloEstasFugas, CaeSoloSi
  <2>6. Cuenta'
    BY <1>7, <2>1 DEF EntrarAlBucle, Cuenta
  <2>7. EnLinea'
    BY <1>7, <2>1, <2>3, <2>4 DEF EntrarAlBucle, EnLinea
  <2> QED
    BY <2>5, <2>6, <2>7
<1>8. CASE fscanf
  BY <1>8, PasoFscanf
<1>9. CASE FinDeArchivo
  BY <1>9, PasoFin
<1>10. CASE Simular
  BY <1>10, PasoSimular
<1>11. CASE cache_destruir
  <2> DEFINE n == Len(original)
             h == Len(simuladas)
  <2>0. pc = "mostrar" /\ n \in Nat /\ h \in Nat
    BY <1>11 DEF cache_destruir, Tipos
  <2>1. vivos' = {}
    BY <1>11 DEF cache_destruir, Volver, Tenencia, Todo
  <2>2. UNCHANGED <<orden, original, archivo, directiva, traza, simuladas>> /\ pc' = "fin"
    BY <1>11 DEF cache_destruir, Volver
  <2>3. Tipos' /\ Tenencia' /\ Cuenta'
    BY <2>0, <2>1, <2>2 DEF Tipos, Tenencia, Cuenta
  <2>4. \A k \in Nat : DeLaLinea(k)' = DeLaLinea(k)
    BY <2>2 DEF DeLaLinea
  <2>5. EnLinea'
    <3>1. EnFormato(original)' = EnFormato(original)
      BY <2>2 DEF EnFormato
    <3>2. ASSUME EnFormato(original), NEW k \in 1 .. h
          PROVE  /\ 11 * k - 10 <= n
                 /\ 11 * k - 1 <= n => simuladas[k] = DeLaLinea(k)'
      <4>1. k \in Nat
        BY <2>0
      <4> QED
        BY <2>4, <3>2, <4>1 DEF EnLinea
    <3> QED
      BY <2>2, <3>1, <3>2 DEF EnLinea
  <2>6. ASSUME EnFormato(original), ~(orden.argc = 8 /\ simuladas = <<>>)
        PROVE  /\ h = CuantasLineas
               /\ \A k \in 1 .. CuantasLineas : 11 * k - 1 <= n => simuladas[k] = DeLaLinea(k)
    <3>1. /\ n <= 11 * h
          /\ \A k \in 1 .. h : /\ 11 * k - 10 <= n
                               /\ 11 * k - 1 <= n => simuladas[k] = DeLaLinea(k)
      BY <2>0, <2>6 DEF EnLinea
    <3>2. 11 * h <= n + 10 /\ n + 10 < 11 * h + 11
      <4>1. CASE h = 0
        BY <2>0, <3>1, <4>1
      <4>2. CASE h # 0
        <5>1. h \in 1 .. h
          BY <2>0, <4>2
        <5>2. 11 * h - 10 <= n
          BY <3>1, <5>1
        <5> QED
          BY <2>0, <3>1, <5>2
      <4> QED
        BY <4>1, <4>2
    <3>3. (n + 10) \div 11 = h
      BY <2>0, <3>2
    <3> QED
      BY <3>1, <3>3 DEF CuantasLineas
  <2>7. ExitoCompleto'
    <3>1. CuantasLineas' = CuantasLineas /\ EnFormato(original)' = EnFormato(original)
      BY <2>2 DEF CuantasLineas, EnFormato
    <3>2. \/ archivo = <<>> /\ h <= n
          \/ orden.argc = 8 /\ simuladas = <<>>
      BY <2>0 DEF Cuenta
    <3>3. CuantasLineas \in Int
      BY <2>0 DEF CuantasLineas
    <3>4. \A k \in 1 .. CuantasLineas : k \in Nat
      BY <3>3
    <3> QED
      BY <2>1, <2>2, <2>4, <2>6, <3>1, <3>2, <3>4 DEF ExitoCompleto
  <2>8. SoloEstasFugas' /\ CaeSoloSi'
    BY <2>1, <2>2 DEF SoloEstasFugas, CaeSoloSi
  <2> QED
    BY <2>3, <2>5, <2>7, <2>8 DEF SalidaHonesta
<1>12. CASE UNCHANGED vars
  <2>0. UNCHANGED <<pc, orden, original, archivo, directiva, traza, acceso, simuladas, vivos, estado>>
    BY <1>12 DEF vars
  <2>1. Tipos' /\ Tenencia' /\ Cuenta' /\ SalidaHonesta'
    <3>1. Tipos' /\ Tenencia'
      BY <2>0 DEF Tipos, Tenencia, Todo
    <3>2. Cuenta'
      BY <2>0 DEF Cuenta, Atascado
    <3>3. CuantasLineas' = CuantasLineas /\ EnFormato(original)' = EnFormato(original)
          /\ \A k : DeLaLinea(k)' = DeLaLinea(k)
      BY <2>0 DEF CuantasLineas, DeLaLinea, EnFormato
    <3>4. ExitoCompleto'
      BY <2>0, <3>3 DEF SalidaHonesta, ExitoCompleto
    <3> QED
      BY <2>0, <3>1, <3>2, <3>4 DEF SalidaHonesta, SoloEstasFugas, CaeSoloSi
  <2>2. EnLinea'
    BY <1>12 DEF vars, EnLinea, EnFormato, DeLaLinea, Lugar
  <2> QED
    BY <2>1, <2>2
<1> QED
  BY <1>1, <1>2, <1>3, <1>4, <1>5, <1>6, <1>7, <1>8, <1>9, <1>10, <1>11, <1>12 DEF Next

\* Whatever arguments, text of the trace and failures of fopen and calloc: 0 is
\* returned with everything given back and the text read to its end; if it is
\* lines of the format, of any number and the last one perhaps cut short, each
\* was simulated once, in order and as it is written, though fscanf is free to
\* take a line's fields from the next one.  The other ends leave behind what
\* SoloEstasFugas says.
THEOREM FinalHonesto == Spec => []SalidaHonesta
<1>1. IInv => SalidaHonesta
  BY DEF IInv
<1> QED
  BY <1>1, Inicio, Paso, PTL DEF Spec

-----------------------------------------------------------------------------
(***************************************************************************)
(* The geometry, and the numbers that words write.                         *)
(***************************************************************************)

\* An int's largest number is below 2^(W - 1), and it wraps around at 2^W.
LEMMA Anchos == /\ W \in Nat /\ W >= 2 /\ INT_MAX \in Nat
                /\ INT_MAX + 1 = Dos(W - 1)
                /\ 2 * (INT_MAX + 1) = Dos(W)
<1>1. W - 1 \in Nat /\ (W - 1) + 1 = W
  BY WidthAssumption
<1>2. Dos(W) = 2 * Dos(W - 1)
  BY <1>1, DosBase
<1>3. INT_MAX + 1 = Dos(W - 1)
  BY IntAssumption, <1>1, DosBase DEF Dos
<1> QED
  BY WidthAssumption, IntAssumption, <1>2, <1>3

\* A number that an int holds is kept as it is.
LEMMA Cabe == \A n \in Nat : n <= INT_MAX => AInt(n) = n
<1> SUFFICES ASSUME NEW n \in Nat, n <= INT_MAX PROVE AInt(n) = n
  OBVIOUS
<1>1. INT_MAX \in Nat
  BY IntAssumption
<1>2. (n + INT_MAX + 1) % (2 * (INT_MAX + 1)) = n + INT_MAX + 1
  BY <1>1
<1> QED
  BY <1>1, <1>2 DEF AInt

\* A power of two that an int may be.
LEMMA UnaPotencia ==
  ASSUME NEW n, es_potencia_de_dos(n), n # 0
  PROVE  \E i \in Nat : i <= W - 2 /\ n = Dos(i)
<1>1. n \in Potencias
  BY DEF es_potencia_de_dos
<1>2. PICK i \in 0 .. W - 2 : n = 2^i
  BY <1>1 DEF Potencias
<1>3. i \in Nat /\ i <= W - 2
  BY <1>2, Anchos
<1> QED
  BY <1>2, <1>3 DEF Dos

\* The int that the product of two of them is kept in: the product itself, the
\* least of the negatives, or 0.
LEMMA AIntDeDos ==
  ASSUME NEW e \in Nat
  PROVE  /\ e <= W - 2 => AInt(Dos(e)) = Dos(e)
         /\ e = W - 1 => AInt(Dos(e)) = -Dos(W - 1)
         /\ e >= W => AInt(Dos(e)) = 0
<1> DEFINE h == INT_MAX + 1
<1>0. h \in Nat /\ h >= 1 /\ h = Dos(W - 1) /\ 2 * h = Dos(W) /\ W \in Nat /\ W >= 2
  BY Anchos
<1>1. ASSUME e <= W - 2 PROVE AInt(Dos(e)) = Dos(e)
  <2>1. 2 * Dos(e) <= Dos(W - 1) /\ Dos(e) \in Nat /\ Dos(e) >= 1
    BY <1>0, <1>1, DosCrece, DosBase, W - 1 \in Nat, e < W - 1
  <2>2. Dos(e) <= INT_MAX
    BY <2>1, <1>0, Anchos
  <2> QED
    BY <2>1, <2>2, Cabe
<1>2. AInt(Dos(e)) = ((Dos(e) + h) % (2 * h)) - h
  <2>1. Dos(e) \in Nat /\ INT_MAX \in Nat
    BY DosBase, Anchos
  <2>2. Dos(e) + INT_MAX + 1 = Dos(e) + h
    BY <2>1
  <2> QED
    BY <2>2 DEF AInt
<1> HIDE DEF h
<1>3. ASSUME e = W - 1 PROVE AInt(Dos(e)) = -Dos(W - 1)
  <2>1. (h + h) % (2 * h) = 0
    BY <1>0
  <2> QED
    BY <1>0, <1>2, <1>3, <2>1
<1>4. ASSUME e >= W PROVE AInt(Dos(e)) = 0
  <2>1. e - W \in Nat /\ e = (e - W) + W
    BY <1>0, <1>4
  <2>2. Dos(e) = Dos(e - W) * (2 * h) /\ Dos(e - W) \in Nat
    <3>1. Dos((e - W) + W) = Dos(e - W) * Dos(W)
      BY <1>0, <2>1, DosSuma
    <3> QED
      BY <1>0, <2>1, <3>1, DosBase
  <2> DEFINE q == Dos(e - W)
             d == 2 * h
  <2>3. q \in Nat /\ d \in Nat /\ h < d
    BY <1>0, <2>2
  <2>4. Dos(e) = q * d
    BY <2>2
  <2> HIDE DEF q, d
  <2>5. (q * d + h) % d = h
    <3> DEFINE n == q * d + h
    <3>1. n \in Nat /\ n = q * d + h
      BY <1>0, <2>3
    <3> HIDE DEF n
    <3>2. n % d = h
      BY <1>0, <2>3, <3>1, Division
    <3> QED
      BY <3>2 DEF n
  <2> QED
    BY <1>0, <1>2, <2>4, <2>5 DEF d
<1> QED
  BY <1>1, <1>3, <1>4

\* What is divided by what it is a multiple of, or by more than itself.
LEMMA Cociente ==
  /\ \A q, d \in Nat : d >= 1 => (q * d) \div d = q
  /\ \A n, d \in Nat : n < d => n \div d = 0
<1>1. ASSUME NEW q \in Nat, NEW d \in Nat, d >= 1 PROVE (q * d) \div d = q
  BY <1>1
<1>2. ASSUME NEW n \in Nat, NEW d \in Nat, n < d PROVE n \div d = 0
  BY <1>2
<1> QED
  BY <1>1, <1>2

\* What main's checks let through, when the size is one that an int holds, are
\* three powers of two that multiply out to it: no product overflowed.
LEMMA Geometria ==
  ASSUME orden.tamanio \in Int, orden.asociatividad \in Int, orden.sets \in Int,
         orden.tamanio > 0, orden.tamanio <= INT_MAX,
         son_potencias_de_dos, Producto # 0, combinacion_correcta
  PROVE  \E i, j, k \in Nat :
           /\ i + j + k <= W - 2
           /\ orden.asociatividad = Dos(i) /\ orden.sets = Dos(j) /\ tamanio_bloque = Dos(k)
           /\ orden.tamanio = Dos(i + j + k)
<1> DEFINE t == orden.tamanio
           a == orden.asociatividad
           s == orden.sets
<1>0. W \in Nat /\ W >= 2 /\ INT_MAX \in Nat
  BY Anchos
<1>1. AInt(t) = t
  BY Cabe, t \in Nat
<1>2. PICK c \in Nat : c <= W - 2 /\ t = Dos(c)
  BY <1>1, UnaPotencia DEF son_potencias_de_dos
<1>3. a # 0 /\ s # 0
  <2>1. ASSUME a * s = 0 PROVE FALSE
    <3>1. AInt(0) = 0
      BY Cabe, <1>0
    <3> QED
      BY <2>1, <3>1 DEF Producto
  <2> QED
    BY <2>1
<1>4. PICK i \in Nat : i <= W - 2 /\ a = Dos(i)
  BY <1>3, UnaPotencia DEF son_potencias_de_dos
<1>5. PICK j \in Nat : j <= W - 2 /\ s = Dos(j)
  BY <1>3, UnaPotencia DEF son_potencias_de_dos
<1>6. Producto = AInt(Dos(i + j)) /\ i + j \in Nat
  BY <1>4, <1>5, DosSuma DEF Producto
<1>7. t = AInt(AInt(Dividir(t, Producto) * a) * s)
  BY <1>1 DEF combinacion_correcta
<1>8. Dividir(t, Producto) # 0
  <2>1. ASSUME Dividir(t, Producto) = 0 PROVE FALSE
    <3>1. AInt(0) = 0
      BY Cabe, <1>0
    <3>2. 0 * a = 0 /\ 0 * s = 0
      OBVIOUS
    <3> QED
      BY <1>7, <2>1, <3>1, <3>2
  <2> QED
    BY <2>1
<1>9. i + j <= c
  <2>1. ~(i + j >= W)
    BY <1>6, AIntDeDos
  <2>2. ASSUME i + j = W - 1 PROVE FALSE
    <3>1. Producto = -Dos(W - 1) /\ Dos(W - 1) \in Nat /\ t < Dos(W - 1)
      BY <1>6, <2>2, AIntDeDos, Anchos
    <3>2. Abs(Producto) = Dos(W - 1) /\ Abs(t) = t
      BY <3>1 DEF Abs
    <3>3. t \div Dos(W - 1) = 0
      BY <3>1, Cociente, t \in Nat
    <3>4. Dividir(t, Producto) = 0
      BY <3>2, <3>3 DEF Dividir
    <3> QED
      BY <1>8, <3>4
  <2>3. ASSUME c < i + j, i + j <= W - 2 PROVE FALSE
    <3>1. Producto = Dos(i + j) /\ Dos(i + j) \in Nat
      BY <1>6, <2>3, AIntDeDos, DosBase
    <3>2. 2 * t <= Dos(i + j)
      BY <1>2, <1>6, <2>3, DosCrece
    <3>3. t < Dos(i + j) /\ t \in Nat
      BY <3>1, <3>2
    <3>4. t \div Dos(i + j) = 0
      BY <3>1, <3>3, Cociente
    <3>5. Abs(Producto) = Dos(i + j) /\ Abs(t) = t
      BY <3>1 DEF Abs
    <3>6. Dividir(t, Producto) = 0
      BY <3>4, <3>5 DEF Dividir
    <3> QED
      BY <1>8, <3>6
  <2> QED
    BY <1>0, <1>2, <1>6, <2>1, <2>2, <2>3
<1> DEFINE k == c - (i + j)
<1>10. k \in Nat /\ c = k + (i + j) /\ i + j + k = c
  BY <1>2, <1>6, <1>9
<1>11. tamanio_bloque = Dos(k)
  <2>1. t = Dos(k) * Dos(i + j)
    BY <1>2, <1>6, <1>10, DosSuma
  <2>2. Dos(k) \in Nat /\ Dos(i + j) \in Nat /\ Dos(i + j) >= 1
    BY <1>6, <1>10, DosBase, DosCrece
  <2>3. Producto = Dos(i + j)
    BY <1>2, <1>6, <1>9, AIntDeDos, <1>0
  <2>4. (Dos(k) * Dos(i + j)) \div Dos(i + j) = Dos(k)
    BY <2>2, Cociente
  <2>5. Abs(Producto) = Dos(i + j) /\ Abs(t) = t
    BY <2>2, <2>3 DEF Abs
  <2>6. (t < 0) = (Producto < 0)
    BY <2>2, <2>3
  <2>7. Dividir(t, Producto) = 1 * Dos(k)
    BY <2>1, <2>4, <2>5, <2>6 DEF Dividir
  <2>8. AInt(Dos(k)) = Dos(k)
    BY <1>0, <1>2, <1>10, AIntDeDos
  <2> QED
    BY <2>2, <2>7, <2>8 DEF tamanio_bloque
<1> QED
  BY <1>2, <1>4, <1>5, <1>10, <1>11

-----------------------------------------------------------------------------
\* The logarithm of a power of two is its exponent.
LEMMA Logaritmo == \A j \in Nat : j <= W - 1 => log2(Dos(j)) = j
<1> SUFFICES ASSUME NEW j \in Nat, j <= W - 1 PROVE log2(Dos(j)) = j
  OBVIOUS
<1>0. W \in Nat /\ W >= 2
  BY Anchos
<1>1. j \in 0 .. W - 1 /\ 2^j <= Dos(j) /\ Dos(j) < 2^(j + 1)
  <2>1. Dos(j) \in Nat /\ Dos(j) >= 1 /\ Dos(j + 1) = 2 * Dos(j)
    BY DosBase, DosCrece
  <2> QED
    BY <1>0, <2>1 DEF Dos
<1>2. ASSUME NEW i \in 0 .. W - 1, 2^i <= Dos(j), Dos(j) < 2^(i + 1) PROVE i = j
  <2>1. i \in Nat /\ i + 1 \in Nat
    BY <1>0
  <2>2. Dos(i) <= Dos(j) /\ Dos(j) < Dos(i + 1)
    BY <1>2 DEF Dos
  <2>3. Dos(i) \in Nat /\ Dos(j) \in Nat /\ Dos(i + 1) \in Nat /\ Dos(j) >= 1
    BY <2>1, DosBase, DosCrece
  <2>4. ~(j < i)
    <3>1. j < i => 2 * Dos(j) <= Dos(i)
      BY <2>1, DosCrece
    <3> QED
      BY <2>2, <2>3, <3>1
  <2>5. ~(i + 1 <= j)
    <3>1. i + 1 <= j => Dos(i + 1) <= Dos(j)
      BY <2>1, DosCrece
    <3> QED
      BY <2>2, <2>3, <3>1
  <2> QED
    BY <2>1, <2>4, <2>5
<1> QED
  BY <1>1, <1>2 DEF log2

\* ToNat adds up the weights of the bits.
LEMMA ToNatSuma ==
  ASSUME NEW x
  PROVE  \E v \in [0 .. W -> Nat] : Sumando(v, x, W) /\ ToNat(x) = v[W]
<1>0. W \in Nat
  BY Anchos
<1>1. ToNat(x) = SumaElegida(x, W)[W]
  BY DEF ToNat, SumaElegida
<1> QED
  BY <1>0, <1>1, ElegidaSuma

\* The masks and shifts of calcular_set_y_tag divide: the address without its
\* lowest bits is the quotient by a power of two, and those bits the rest.
LEMMA BitsDivididos ==
  ASSUME NEW x \in Word, NEW n \in Nat, n <= W
  PROVE  /\ ToNat(Shr(x, n)) = ToNat(x) \div Dos(n)
         /\ ToNat(x \cap (0 .. n - 1)) = ToNat(x) % Dos(n)
         /\ ToNat(x) \in Nat
<1>0. W \in Nat
  BY Anchos
<1>1. PICK v \in [0 .. W -> Nat] : Sumando(v, x, W) /\ ToNat(x) = v[W]
  BY ToNatSuma
<1>2. PICK u \in [0 .. W -> Nat] : Sumando(u, Shr(x, n), W) /\ ToNat(Shr(x, n)) = u[W]
  BY ToNatSuma
<1>3. PICK r \in [0 .. W -> Nat] : Sumando(r, x \cap (0 .. n - 1), W) /\ ToNat(x \cap (0 .. n - 1)) = r[W]
  BY ToNatSuma
<1>4. v[n] < Dos(n)
  BY <1>0, <1>1, SumasAcotadas, n \in 0 .. W
<1>5. u[W] = u[W - n]
  <2>1. \A i \in Nat : W - n <= i /\ i < W => i \notin Shr(x, n)
    BY <1>0 DEF Shr, Bit, Word
  <2>2. W - n \in Nat /\ W - n <= W
    BY <1>0
  <2> QED
    BY <1>0, <1>2, <2>1, <2>2, SumasSinMas
<1>6. v[W] = v[n] + Dos(n) * u[W - n]
  <2>1. \A i \in Nat : i < W - n => (i \in Shr(x, n) <=> i + n \in x)
    BY <1>0 DEF Shr, Bit, Word
  <2>2. \A k \in 0 .. W - n : v[n + k] = v[n] + Dos(n) * u[k]
    <3> DEFINE y == Shr(x, n)
    <3>1. Sumando(u, y, W) /\ Bajan(y, x, n, W)
      BY <1>2, <2>1 DEF Bajan
    <3> HIDE DEF y
    <3> QED
      BY <1>0, <1>1, <1>2, <3>1, SumasPartidas
  <2>3. W - n \in 0 .. W - n /\ n + (W - n) = W
    BY <1>0
  <2> QED
    BY <2>2, <2>3
<1>7. r[W] = r[n]
  <2>1. \A i \in Nat : n <= i /\ i < W => i \notin x \cap (0 .. n - 1)
    OBVIOUS
  <2> QED
    BY <1>0, <1>3, <2>1, SumasSinMas
<1>8. r[n] = v[n]
  <2>1. \A i \in Nat : i < n => (i \in x \cap (0 .. n - 1) <=> i \in x)
    OBVIOUS
  <2> DEFINE y == x \cap (0 .. n - 1)
  <2>2. Sumando(r, y, W) /\ Coinciden(y, x, n)
    BY <1>3, <2>1 DEF Coinciden
  <2> HIDE DEF y
  <2>3. W \in Nat /\ Sumando(v, x, W) /\ Sumando(r, y, W) /\ Coinciden(y, x, n) /\ n <= W
    BY <1>0, <1>1, <2>2
  <2> QED
    BY <2>3, SumasIguales
<1>9. v[W] \in Nat /\ v[n] \in Nat /\ u[W - n] \in Nat /\ Dos(n) \in Nat
  <2>1. W \in 0 .. W /\ n \in 0 .. W /\ W - n \in 0 .. W
    BY <1>0
  <2> QED
    BY <1>1, <1>2, <2>1, DosBase
<1> DEFINE a == v[W]
           b == v[n]
           q == u[W - n]
           d == Dos(n)
<1>10. a \in Nat /\ b \in Nat /\ q \in Nat /\ d \in Nat /\ b < d /\ a = b + d * q
  BY <1>4, <1>6, <1>9
<1> HIDE DEF a, b, q, d
<1>11. a = q * d + b
  BY <1>10
<1>12. a \div d = q /\ a % d = b
  BY <1>10, <1>11, Division
<1> QED
  BY <1>1, <1>2, <1>3, <1>5, <1>7, <1>8, <1>9, <1>12 DEF a, b, q, d

\* The set and the tag of an access are those of the division.
LEMMA PartirDivide ==
  ASSUME NEW dir \in Word, NEW s \in Nat, NEW o \in Nat, s + o < W
  PROVE  /\ ToNat(Partir(dir, s, o).set) = (ToNat(dir) \div Dos(o)) % Dos(s)
         /\ ToNat(Partir(dir, s, o).tag) = ToNat(dir) \div (Dos(o) * Dos(s))
<1>0. W \in Nat /\ o <= W /\ s <= W /\ s + o <= W /\ s + o \in Nat
  BY Anchos
<1>1. Partir(dir, s, o).set = Shr(dir, o) \cap (0 .. s - 1)
  BY MascaraDelSet DEF Partir
<1>2. Partir(dir, s, o).tag = Shr(dir, s + o)
  BY DEF Partir
<1>3. Shr(dir, o) \in Word
  BY DEF Shr, Word
<1>4. ToNat(Shr(dir, o)) = ToNat(dir) \div Dos(o)
  BY <1>0, BitsDivididos
<1>5. ToNat(Shr(dir, o) \cap (0 .. s - 1)) = ToNat(Shr(dir, o)) % Dos(s)
  BY <1>0, <1>3, BitsDivididos
<1>6. ToNat(Shr(dir, s + o)) = ToNat(dir) \div Dos(s + o)
  BY <1>0, BitsDivididos, s + o \in Nat
<1>7. Dos(s + o) = Dos(o) * Dos(s)
  <2>1. Dos(s) \in Nat /\ Dos(o) \in Nat
    BY DosBase
  <2> QED
    BY <2>1, DosSuma
<1> QED
  BY <1>1, <1>2, <1>4, <1>5, <1>6, <1>7

-----------------------------------------------------------------------------
\* What is known of the geometry once the checks are passed, and of the last
\* access: it was cut out of some address by the masks of that geometry.
GInv ==
  /\ Aceptada => /\ orden.tamanio > 0 /\ son_potencias_de_dos
                 /\ Producto # 0 /\ combinacion_correcta
  /\ acceso # SinAcceso => acceso.dir \in Word /\ acceso \in calcular_set_y_tag(acceso.dir)

\* main starts with no geometry to be right about.
LEMMA GInicio == Init => GInv
BY DEF Init, GInv, Aceptada

\* Every step keeps it.
LEMMA GPaso == IInv /\ GInv /\ [Next]_vars => GInv'
<1> SUFFICES ASSUME IInv, GInv, [Next]_vars PROVE GInv'
  OBVIOUS
<1> USE DEF GInv
<1>0. orden' = orden
  BY DEF Next, vars, Rechazar, Dividir_Cero, fopen, crear_cache, crear_sets, crear_modo_verboso,
         EntrarAlBucle, fscanf, FinDeArchivo, Simular, cache_destruir, Volver, Seguir
<1>a. /\ son_potencias_de_dos' = son_potencias_de_dos
      /\ Producto' = Producto
      /\ combinacion_correcta' = combinacion_correcta
  BY <1>0 DEF son_potencias_de_dos, Producto, combinacion_correcta
<1>b. \A dir : calcular_set_y_tag(dir)' = calcular_set_y_tag(dir)
  BY <1>0 DEF calcular_set_y_tag, ConTag, tamanio_bloque, Producto
<1>1. (Aceptada => /\ orden.tamanio > 0 /\ son_potencias_de_dos
                   /\ Producto # 0 /\ combinacion_correcta)'
  <2>1. CASE Aceptada
    BY <1>0, <1>a, <2>1
  <2>2. CASE ~Aceptada /\ Aceptada'
    <3>1. fopen
      BY <2>2 DEF Aceptada, Next, vars, Rechazar, Dividir_Cero, crear_cache, crear_sets,
                  crear_modo_verboso, EntrarAlBucle, fscanf, FinDeArchivo, Simular, cache_destruir,
                  Volver, Seguir
    <3> QED
      BY <1>0, <1>a, <3>1 DEF fopen, Admitida
  <2> QED
    BY <2>1, <2>2
<1>2. (acceso # SinAcceso => acceso.dir \in Word /\ acceso \in calcular_set_y_tag(acceso.dir))'
  <2>1. CASE Simular
    <3>1. acceso' \in calcular_set_y_tag(traza.direccion_accedida)
      BY <2>1 DEF Simular
    <3>2. acceso'.dir = traza.direccion_accedida
      BY <3>1 DEF calcular_set_y_tag, Partir
    <3>3. traza.direccion_accedida \in Word
      BY DEF IInv, Tipos, Traza
    <3> QED
      BY <1>b, <3>1, <3>2, <3>3
  <2>2. CASE acceso' = acceso
    BY <1>b, <2>2
  <2> QED
    BY <2>1, <2>2 DEF Next, vars, Rechazar, Dividir_Cero, fopen, crear_cache, crear_sets,
           crear_modo_verboso, EntrarAlBucle, fscanf, FinDeArchivo, cache_destruir, Volver, Seguir
<1> QED
  BY <1>1, <1>2

\* For any width of an int, a geometry that passes main's checks and whose size
\* an int holds multiplies out exactly, though the checks multiply in ints that
\* wrap around; and every access has the set and the tag that dividing gives.
THEOREM GeometriaSiempreExacta == Spec => []GeometriaExacta
<1>1. IInv /\ GInv => GeometriaExacta
  <2> SUFFICES ASSUME IInv, GInv, Aceptada, orden.tamanio <= INT_MAX
               PROVE  /\ tamanio_bloque * orden.asociatividad * orden.sets = orden.tamanio
                      /\ orden.sets >= 1 /\ orden.asociatividad >= 1
                      /\ acceso # SinAcceso =>
                           /\ ToNat(acceso.set) = (ToNat(acceso.dir) \div tamanio_bloque) % orden.sets
                           /\ ToNat(acceso.tag) = ToNat(acceso.dir) \div (tamanio_bloque * orden.sets)
    BY DEF GeometriaExacta
  <2>1. orden.tamanio \in Int /\ orden.asociatividad \in Int /\ orden.sets \in Int
    BY OrdenesAssumption DEF IInv, Tipos
  <2>2. orden.tamanio > 0 /\ son_potencias_de_dos /\ Producto # 0 /\ combinacion_correcta
    BY DEF GInv
  <2>3. PICK i, j, k \in Nat :
          /\ i + j + k <= W - 2
          /\ orden.asociatividad = Dos(i) /\ orden.sets = Dos(j) /\ tamanio_bloque = Dos(k)
          /\ orden.tamanio = Dos(i + j + k)
    BY <2>1, <2>2, Geometria
  <2>4. Dos(i) \in Nat /\ Dos(j) \in Nat /\ Dos(k) \in Nat /\ Dos(i) >= 1 /\ Dos(j) >= 1 /\ Dos(k) >= 1
    BY DosBase, DosCrece
  <2>5. Dos(k) * Dos(i) * Dos(j) = Dos(i + j + k)
    <3>1. Dos(k + i) = Dos(k) * Dos(i) /\ Dos((k + i) + j) = Dos(k + i) * Dos(j)
      BY DosSuma, k + i \in Nat
    <3>2. (k + i) + j = i + j + k
      OBVIOUS
    <3> QED
      BY <3>1, <3>2
  <2>6. W \in Nat /\ j <= W - 1 /\ k <= W - 1 /\ j + k < W
    BY <2>3, Anchos
  <2>7. ASSUME acceso # SinAcceso
        PROVE  acceso = Partir(acceso.dir, j, k) /\ acceso.dir \in Word
    <3>1. log2(orden.sets) = j /\ log2(tamanio_bloque) = k
      BY <2>3, <2>6, Logaritmo
    <3>2. ConTag
      BY <2>3, <2>4, <2>6, <3>1 DEF ConTag
    <3>3. calcular_set_y_tag(acceso.dir) = {Partir(acceso.dir, j, k)}
      BY <3>1, <3>2 DEF calcular_set_y_tag
    <3> QED
      BY <2>7, <3>3 DEF GInv
  <2>8. ASSUME acceso # SinAcceso
        PROVE  /\ ToNat(acceso.set) = (ToNat(acceso.dir) \div Dos(k)) % Dos(j)
               /\ ToNat(acceso.tag) = ToNat(acceso.dir) \div (Dos(k) * Dos(j))
    BY <2>6, <2>7, <2>8, PartirDivide
  <2> QED
    BY <2>3, <2>4, <2>5, <2>8
<1> QED
  BY <1>1, Inicio, Paso, GInicio, GPaso, PTL DEF Spec
=================================================================================
