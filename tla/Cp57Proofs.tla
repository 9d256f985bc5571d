-------------------------------- MODULE Cp57Proofs --------------------------------
(***************************************************************************)
(* The safety of cp57's copy for every buffer size, every source and every *)
(* set of failures the kernel may answer with.                             *)
(*                                                                         *)
(* That the copy is in order is not inductive: the invariant also says     *)
(* where the chunk in the buffer comes from, that the copy lies below it,  *)
(* and, for the failures that leave a prefix, that errno tells whether     *)
(* something read was dropped.                                             *)
(***************************************************************************)
EXTENDS Cp57Props, SequenceTheorems, TLAPS

Abriendo == {"readlink", "open origen", "open destino", "open directorio", "openat"}
EINTRs == {"read EINTR", "write EINTR"}

\* Bytes of the buffer that are still to be written.
Pendientes == IF pc = "write" /\ bytes_read > 0 THEN bytes_read ELSE 0

TypeInv ==
  /\ mismo \in BOOLEAN
  /\ original \in Seq(Nat) /\ \A k \in 1 .. Len(original) : original[k] = k
  /\ origen = original \/ (mismo /\ origen = <<>>)
  /\ destino \in Seq(Nat)
  /\ leidos \in 0 .. Len(origen)
  /\ buf \in Seq(Nat)
  /\ bytes_read \in Int /\ bytes_read >= -1
  /\ errno \in {"0", "EINTR", "otro"}
  /\ fallos \subseteq TodasLasFallas
  /\ pc \in Abriendo \cup Copiando \cup {"fin"}

AbreInv ==
  /\ pc \in Abriendo => destino = <<>> /\ leidos = 0
  /\ pc # "fin" => mensaje = "nada"
  /\ abiertos = CASE pc \in {"readlink", "open origen", "fin"} -> {}
                  [] pc \in {"open destino", "open directorio"} -> {"origen"}
                  [] pc = "openat" -> {"origen", "directorio"}
                  [] OTHER -> {"origen", "destino"}

CopiaInv ==
  /\ Pendientes <= leidos
  /\ Pendientes > 0 =>
       Len(buf) = bytes_read /\ \A k \in 1 .. bytes_read : buf[k] = leidos - bytes_read + k
  /\ \A k \in 1 .. Len(destino) : destino[k] <= leidos - Pendientes
  /\ \A j, k \in 1 .. Len(destino) : j < k => destino[j] < destino[k]

PrefijoInv ==
  fallos \subseteq EINTRs =>
    /\ Len(destino) <= leidos
    /\ \A k \in 1 .. Len(destino) : destino[k] = k
    /\ pc \in Copiando => errno # "otro" /\ (fallos = {} => errno = "0")
    /\ pc \in {"primer read", "read"} /\ errno # "EINTR" => Len(destino) = leidos
    /\ pc = "write" => bytes_read >= 0 /\ Len(destino) = leidos - bytes_read
    /\ fallos = {} /\ mensaje = "se copio todo" => Len(destino) = Len(origen)

CpInv == TypeInv /\ AbreInv /\ CopiaInv /\ PrefijoInv

-----------------------------------------------------------------------------
\* Sequences

\* What write appends to the destination when it takes n bytes of the buffer.
LEMMA Anexa ==
  ASSUME NEW d \in Seq(Nat), NEW b \in Seq(Nat), NEW n \in 0 .. Len(b)
  PROVE  /\ d \o SubSeq(b, 1, n) \in Seq(Nat)
         /\ Len(d \o SubSeq(b, 1, n)) = Len(d) + n
         /\ \A k \in 1 .. Len(d) : (d \o SubSeq(b, 1, n))[k] = d[k]
         /\ \A k \in Len(d) + 1 .. Len(d) + n : (d \o SubSeq(b, 1, n))[k] = b[k - Len(d)]
<1>1. /\ SubSeq(b, 1, n) \in Seq(Nat)
      /\ Len(SubSeq(b, 1, n)) = n
      /\ \A k \in 1 .. n : SubSeq(b, 1, n)[k] = b[k]
  OBVIOUS
<1> DEFINE c == SubSeq(b, 1, n)
<1> HIDE DEF c
<1>2. c \in Seq(Nat) /\ Len(c) = n /\ \A k \in 1 .. n : c[k] = b[k]
  BY <1>1 DEF c
<1>3. d \o c \in Seq(Nat) /\ Len(d \o c) = Len(d) + n
  <2>1. d \o c \in Seq(Nat)
    BY <1>2
  <2>2. Len(d \o c) = Len(d) + Len(c)
    BY <1>2, ConcatProperties
  <2>3. QED
    BY <1>2, <2>1, <2>2
<1>4. \A k \in 1 .. Len(d) : (d \o c)[k] = d[k]
  BY <1>2
<1>5. \A k \in Len(d) + 1 .. Len(d) + n : (d \o c)[k] = b[k - Len(d)]
  BY <1>2
<1>6. QED
  BY <1>3, <1>4, <1>5 DEF c

\* What read puts in the buffer, n bytes from offset i on.
LEMMA Lee ==
  ASSUME NEW o \in Seq(Nat), \A k \in 1 .. Len(o) : o[k] = k,
         NEW i \in Nat, NEW n \in Nat, i + n <= Len(o)
  PROVE  /\ SubSeq(o, i + 1, i + n) \in Seq(Nat)
         /\ Len(SubSeq(o, i + 1, i + n)) = n
         /\ \A k \in 1 .. n : SubSeq(o, i + 1, i + n)[k] = i + k
  OBVIOUS

\* A sequence that counts from 1 is the prefix of a longer one that does.
LEMMA Prefijo ==
  ASSUME NEW d \in Seq(Nat), NEW o \in Seq(Nat), Len(d) <= Len(o),
         \A k \in 1 .. Len(d) : d[k] = k, \A k \in 1 .. Len(o) : o[k] = k
  PROVE  d = SubSeq(o, 1, Len(d)) /\ (Len(d) = Len(o) => d = o)
<1>1. SubSeq(o, 1, Len(d)) \in Seq(Nat) /\ Len(SubSeq(o, 1, Len(d))) = Len(d)
  OBVIOUS
<1>2. \A k \in 1 .. Len(d) : SubSeq(o, 1, Len(d))[k] = d[k]
  OBVIOUS
<1>3. d = SubSeq(o, 1, Len(d))
  BY <1>1, <1>2
<1>4. Len(d) = Len(o) => d = o
  OBVIOUS
<1>5. QED
  BY <1>3, <1>4

-----------------------------------------------------------------------------
\* The invariant

\* It holds when the program starts.
LEMMA CpInicia == Init => CpInv
<1> SUFFICES ASSUME Init PROVE CpInv
  OBVIOUS
<1>1. PICK n \in 0 .. MaxLargo : original = [k \in 1 .. n |-> k]
  BY DEF Init
<1>2. n \in Nat /\ original \in Seq(Nat) /\ Len(original) = n
  BY <1>1, LargoAssumption
<1>3. \A k \in 1 .. Len(original) : original[k] = k
  BY <1>1, <1>2
<1>4. TypeInv
  BY <1>2, <1>3 DEF Init, TypeInv, Abriendo, TodasLasFallas
<1>5. AbreInv
  BY DEF Init, AbreInv, Abriendo
<1>6. CopiaInv
  BY DEF Init, CopiaInv, Pendientes
<1>7. PrefijoInv
  BY DEF Init, PrefijoInv, Copiando
<1>8. QED
  BY <1>4, <1>5, <1>6, <1>7 DEF CpInv

\* main up to the copy keeps it.
LEMMA CpAbre == CpInv /\ Abrir => CpInv'
<1> SUFFICES ASSUME CpInv, Abrir PROVE CpInv'
  OBVIOUS
<1> USE DEF CpInv
<1>1. CASE Enlace \/ NoEsEnlace
  <2>1. TypeInv' /\ AbreInv'
    BY <1>1 DEF Enlace, NoEsEnlace, Termina, fuente, TypeInv, AbreInv, Abriendo, Copiando
  <2>2. CopiaInv' /\ PrefijoInv'
    BY <1>1 DEF Enlace, NoEsEnlace, Termina, fuente, TypeInv, AbreInv, Abriendo, Copiando,
                CopiaInv, PrefijoInv, Pendientes
  <2>3. QED
    BY <2>1, <2>2
<1>2. CASE AbreOrigen \/ DestinoEsDirectorio \/ AbreDirectorio
  <2>1. TypeInv' /\ AbreInv'
    BY <1>2 DEF AbreOrigen, DestinoEsDirectorio, AbreDirectorio, fuente, TypeInv, AbreInv,
                Abriendo, Copiando
  <2>2. CopiaInv' /\ PrefijoInv'
    BY <1>2 DEF AbreOrigen, DestinoEsDirectorio, AbreDirectorio, fuente, TypeInv, AbreInv,
                Abriendo, Copiando, CopiaInv, PrefijoInv, Pendientes
  <2>3. QED
    BY <2>1, <2>2
<1>3. CASE ErrorAlAbrir \/ SinCopia
  <2>1. /\ UNCHANGED <<mismo, original, origen, destino, leidos, buf, bytes_read>>
        /\ pc' = "fin" /\ errno' = "otro"
    BY <1>3 DEF ErrorAlAbrir, SinCopia, Termina, fuente
  <2>2. fallos' \subseteq TodasLasFallas /\ ~(fallos' \subseteq EINTRs)
    <3>1. PICK f \in {"open", "openat"} : fallos' = fallos \cup {f}
      BY <1>3 DEF ErrorAlAbrir, SinCopia, Falla
    <3>2. QED
      BY <3>1 DEF TypeInv, TodasLasFallas, EINTRs
  <2>3. destino = <<>> /\ leidos = 0
    BY <1>3 DEF ErrorAlAbrir, SinCopia, AbreInv, Abriendo
  <2>4. TypeInv'
    BY <2>1, <2>2 DEF TypeInv
  <2>5. abiertos' = {}
    BY <1>3 DEF ErrorAlAbrir, SinCopia, Termina, AbreInv
  <2>6. AbreInv'
    BY <2>1, <2>5 DEF AbreInv, Abriendo
  <2>7. Len(destino') = 0
    BY <2>1, <2>3
  <2>8. CopiaInv'
    BY <2>1, <2>3, <2>7 DEF CopiaInv, Pendientes
  <2>9. PrefijoInv'
    BY <2>2 DEF PrefijoInv
  <2>10. QED
    BY <2>4, <2>6, <2>8, <2>9
<1>4. CASE AbreDestino \/ AbreEnDirectorio
  <2>1. UNCHANGED <<mismo, original, leidos, buf, bytes_read, fallos, mensaje>>
    BY <1>4 DEF AbreDestino, AbreEnDirectorio, fuente
  <2>2. errno' = "0" /\ pc' = "primer read" /\ mensaje' = "nada"
    BY <1>4 DEF AbreDestino, AbreEnDirectorio, Trunca, fuente, AbreInv, Abriendo
  <2>3. <<>> \in Seq(Nat) /\ Len(<<>>) = 0
    OBVIOUS
  <2>4. destino' = <<>>
    BY <1>4 DEF AbreDestino, AbreEnDirectorio, Trunca
  <2>5. leidos' = 0
    BY <1>4 DEF AbreDestino, AbreEnDirectorio, fuente, AbreInv, Abriendo
  <2>6. origen' = origen \/ (mismo /\ origen' = <<>>)
    BY <1>4 DEF AbreDestino, AbreEnDirectorio, Trunca
  <2>7. Len(destino') = 0 /\ destino' \in Seq(Nat)
    BY <2>3, <2>4
  <2>8. Len(origen') \in Nat
    <3>1. Len(origen) \in Nat
      BY <2>3 DEF TypeInv
    <3>2. QED
      BY <3>1, <2>3, <2>6
  <2>9. leidos' \in 0 .. Len(origen')
    BY <2>5, <2>8
  <2>10. TypeInv'
    BY <2>1, <2>2, <2>7, <2>9, <2>6 DEF TypeInv, Copiando
  <2>11. abiertos' = {"origen", "destino"}
    BY <1>4 DEF AbreDestino, AbreEnDirectorio, AbreInv
  <2>12. AbreInv'
    BY <2>2, <2>11 DEF AbreInv, Abriendo
  <2>13. CopiaInv'
    <3>1. Pendientes' = 0
      BY <2>2 DEF Pendientes
    <3>2. QED
      BY <3>1, <2>7, <2>5 DEF CopiaInv
  <2>14. PrefijoInv'
    <3>1. /\ Len(destino') <= leidos'
          /\ \A k \in 1 .. Len(destino') : destino'[k] = k
      BY <2>7, <2>5
    <3>2. QED
      BY <3>1, <2>2, <2>7, <2>5 DEF PrefijoInv, Copiando
  <2>15. QED
    BY <2>10, <2>12, <2>13, <2>14
<1>5. QED
  BY <1>1, <1>2, <1>3, <1>4 DEF Abrir

\* The source counts from 1, truncated or not.
LEMMA CpOrigen ==
  ASSUME CpInv
  PROVE  origen \in Seq(Nat) /\ \A k \in 1 .. Len(origen) : origen[k] = k
<1>1. CASE origen = original
  BY <1>1 DEF CpInv, TypeInv
<1>2. CASE origen = <<>>
  <2>1. <<>> \in Seq(Nat) /\ Len(<<>>) = 0
    OBVIOUS
  <2>2. QED
    BY <1>2, <2>1
<1>3. QED
  BY <1>1, <1>2 DEF CpInv, TypeInv

\* What every read meets: nothing of the buffer is pending, both files are
\* open and main has said nothing.
LEMMA CpLeyendo ==
  ASSUME CpInv, Leyendo
  PROVE  /\ Pendientes = 0 /\ abiertos = {"origen", "destino"} /\ mensaje = "nada"
         /\ Len(destino) \in Nat /\ leidos \in Nat /\ Len(origen) \in Nat
         /\ \A k \in 1 .. Len(destino) : destino[k] \in Nat /\ destino[k] <= leidos
<1>1. Pendientes = 0
  BY DEF Leyendo, Pendientes
<1>2. abiertos = {"origen", "destino"} /\ mensaje = "nada"
  BY DEF Leyendo, CpInv, AbreInv
<1>3. Len(destino) \in Nat /\ leidos \in Nat /\ destino \in Seq(Nat)
  BY DEF CpInv, TypeInv
<1>4. Len(origen) \in Nat
  BY DEF CpInv, TypeInv
<1>5. \A k \in 1 .. Len(destino) : destino[k] \in Nat /\ destino[k] <= leidos
  BY <1>1, <1>3 DEF CpInv, CopiaInv
<1>6. QED
  BY <1>1, <1>2, <1>3, <1>4, <1>5

\* A read that returns bytes keeps the invariant.
LEMMA CpReadBytes == CpInv /\ ReadBytes => CpInv'
<1> SUFFICES ASSUME CpInv, ReadBytes PROVE CpInv'
  OBVIOUS
<1>1. Leyendo
  BY DEF ReadBytes
<1>2. PICK n \in 1 .. size :
        /\ leidos + n <= Len(origen)
        /\ buf' = SubSeq(origen, leidos + 1, leidos + n)
        /\ leidos' = leidos + n
        /\ bytes_read' = n
  BY DEF ReadBytes
<1>3. n \in Nat /\ n > 0
  BY SizeAssumption
<1>4. UNCHANGED <<mismo, original, origen, destino, errno, fallos>>
  BY DEF ReadBytes, fuente
<1>5. /\ pc' = (IF errno # "EINTR" THEN "write" ELSE "read")
      /\ mensaje' = mensaje /\ abiertos' = abiertos
  <2>1. bytes_read' # 0
    BY <1>2, <1>3
  <2>2. TrasRead /\ errno' = errno
    BY <1>4 DEF ReadBytes
  <2>3. QED
    BY <2>1, <2>2 DEF TrasRead
<1>6. /\ Pendientes = 0 /\ abiertos = {"origen", "destino"} /\ mensaje = "nada"
      /\ Len(destino) \in Nat /\ leidos \in Nat /\ Len(origen) \in Nat
      /\ \A k \in 1 .. Len(destino) : destino[k] \in Nat /\ destino[k] <= leidos
  BY <1>1, CpLeyendo
<1>7. origen \in Seq(Nat) /\ \A k \in 1 .. Len(origen) : origen[k] = k
  BY CpOrigen
<1>8. /\ buf' \in Seq(Nat) /\ Len(buf') = n
      /\ \A k \in 1 .. n : buf'[k] = leidos + k
  BY <1>2, <1>3, <1>6, <1>7, Lee
<1>9. TypeInv'
  <2>1. leidos' \in 0 .. Len(origen') /\ bytes_read' \in Int /\ bytes_read' >= -1
    BY <1>2, <1>3, <1>4, <1>6
  <2>2. pc' \in Copiando
    BY <1>5 DEF Copiando
  <2>3. QED
    BY <1>4, <1>8, <2>1, <2>2 DEF CpInv, TypeInv
<1>10. AbreInv'
  BY <1>5, <1>6 DEF AbreInv, Abriendo
<1>11. CopiaInv'
  <2>1. Pendientes' = n \/ Pendientes' = 0
    BY <1>2, <1>3 DEF Pendientes
  <2>2. /\ Pendientes' <= leidos'
        /\ \A k \in 1 .. Len(destino') : destino'[k] <= leidos' - Pendientes'
    BY <1>2, <1>3, <1>4, <1>6, <2>1
  <2>3. Len(buf') = bytes_read' /\ \A k \in 1 .. bytes_read' : buf'[k] = leidos' - bytes_read' + k
    <3>1. leidos' - bytes_read' = leidos
      BY <1>2, <1>3, <1>6
    <3>2. QED
      BY <1>2, <1>8, <3>1
  <2>4. \A j, k \in 1 .. Len(destino') : j < k => destino'[j] < destino'[k]
    BY <1>4 DEF CpInv, CopiaInv
  <2>5. QED
    BY <2>2, <2>3, <2>4 DEF CopiaInv
<1>12. PrefijoInv'
  <2>1. SUFFICES ASSUME fallos' \subseteq EINTRs
        PROVE  /\ Len(destino') <= leidos'
               /\ \A k \in 1 .. Len(destino') : destino'[k] = k
               /\ errno' # "otro" /\ (fallos' = {} => errno' = "0")
               /\ pc' = "write" => Len(destino') = leidos' - bytes_read'
    BY <1>2, <1>3, <1>4, <1>5, <1>6 DEF PrefijoInv
  <2>2. fallos \subseteq EINTRs
    BY <2>1, <1>4
  <2>3. /\ Len(destino) <= leidos /\ \A k \in 1 .. Len(destino) : destino[k] = k
        /\ errno # "otro" /\ (fallos = {} => errno = "0")
        /\ errno # "EINTR" => Len(destino) = leidos
    BY <1>1, <2>2 DEF CpInv, PrefijoInv, Leyendo, Copiando
  <2>4. Len(destino') <= leidos' /\ (errno # "EINTR" => Len(destino') = leidos' - bytes_read')
    BY <1>2, <1>3, <1>4, <1>6, <2>3
  <2>5. QED
    BY <1>4, <1>5, <2>3, <2>4
<1>13. QED
  BY <1>9, <1>10, <1>11, <1>12 DEF CpInv

\* A read that finds the end of the file keeps it.
LEMMA CpReadFin == CpInv /\ ReadFin => CpInv'
<1> SUFFICES ASSUME CpInv, ReadFin PROVE CpInv'
  OBVIOUS
<1>1. Leyendo /\ leidos >= Len(origen) /\ bytes_read' = 0
  BY DEF ReadFin
<1>2. UNCHANGED <<mismo, original, origen, destino, errno, fallos, leidos, buf>>
  BY DEF ReadFin, fuente
<1>3. /\ Pendientes = 0 /\ abiertos = {"origen", "destino"} /\ mensaje = "nada"
      /\ Len(destino) \in Nat /\ leidos \in Nat /\ Len(origen) \in Nat
      /\ \A k \in 1 .. Len(destino) : destino[k] \in Nat /\ destino[k] <= leidos
  BY <1>1, CpLeyendo
<1>4. leidos = Len(origen)
  BY <1>1, <1>3 DEF CpInv, TypeInv
<1>5. \/ pc' = "fin" /\ mensaje' = "se copio todo" /\ abiertos' = {}
      \/ /\ pc' = (IF errno # "EINTR" THEN "write" ELSE "read")
         /\ mensaje' = "nada" /\ abiertos' = {"origen", "destino"}
  BY <1>2, <1>3 DEF ReadFin, TrasRead, Termina
<1>6. TypeInv'
  <2>1. pc' \in Copiando \cup {"fin"}
    BY <1>5 DEF Copiando
  <2>2. QED
    BY <1>1, <1>2, <2>1 DEF CpInv, TypeInv
<1>7. AbreInv'
  BY <1>5 DEF AbreInv, Abriendo
<1>8. CopiaInv'
  <2>1. Pendientes' = 0
    BY <1>1 DEF Pendientes
  <2>2. \A j, k \in 1 .. Len(destino') : j < k => destino'[j] < destino'[k]
    BY <1>2 DEF CpInv, CopiaInv
  <2>3. QED
    BY <1>2, <1>3, <2>1, <2>2 DEF CopiaInv
<1>9. PrefijoInv'
  <2>1. SUFFICES ASSUME fallos' \subseteq EINTRs
        PROVE  /\ Len(destino') <= leidos'
               /\ \A k \in 1 .. Len(destino') : destino'[k] = k
               /\ errno' # "otro" /\ (fallos' = {} => errno' = "0")
               /\ errno' # "EINTR" => Len(destino') = leidos'
    <3>1. bytes_read' >= 0 /\ leidos' - bytes_read' = leidos' /\ leidos' = Len(origen')
      BY <1>1, <1>2, <1>3, <1>4
    <3>2. pc' = "write" => errno' # "EINTR"
      BY <1>2, <1>5
    <3>3. QED
      BY <3>1, <3>2 DEF PrefijoInv
  <2>2. fallos \subseteq EINTRs
    BY <2>1, <1>2
  <2>3. QED
    BY <1>1, <1>2, <2>2 DEF CpInv, PrefijoInv, Leyendo, Copiando
<1>10. QED
  BY <1>6, <1>7, <1>8, <1>9 DEF CpInv

\* A read that fails keeps it.
LEMMA CpReadFalla == CpInv /\ ReadFalla => CpInv'
<1> SUFFICES ASSUME CpInv, ReadFalla PROVE CpInv'
  OBVIOUS
<1>1. Leyendo /\ bytes_read' = -1
  BY DEF ReadFalla
<1>2. UNCHANGED <<mismo, original, origen, destino, leidos, buf>>
  BY DEF ReadFalla, fuente
<1>3. \/ fallos' = fallos \cup {"read EINTR"} /\ errno' = "EINTR"
      \/ fallos' = fallos \cup {"read otro"} /\ errno' = "otro"
  BY DEF ReadFalla, Falla
<1>4. /\ Pendientes = 0 /\ abiertos = {"origen", "destino"} /\ mensaje = "nada"
      /\ Len(destino) \in Nat /\ leidos \in Nat /\ Len(origen) \in Nat
      /\ \A k \in 1 .. Len(destino) : destino[k] \in Nat /\ destino[k] <= leidos
  BY <1>1, CpLeyendo
<1>5. /\ pc' = (IF errno' # "EINTR" THEN "write" ELSE "read")
      /\ mensaje' = "nada" /\ abiertos' = {"origen", "destino"}
  <2>1. bytes_read' # 0
    BY <1>1
  <2>2. TrasRead
    BY DEF ReadFalla
  <2>3. QED
    BY <1>4, <2>1, <2>2 DEF TrasRead
<1>6. TypeInv'
  <2>1. fallos' \subseteq TodasLasFallas
    BY <1>3 DEF CpInv, TypeInv, TodasLasFallas
  <2>2. errno' \in {"0", "EINTR", "otro"} /\ pc' \in Copiando
    BY <1>3, <1>5 DEF Copiando
  <2>3. QED
    BY <1>1, <1>2, <2>1, <2>2 DEF CpInv, TypeInv
<1>7. AbreInv'
  BY <1>5 DEF AbreInv, Abriendo
<1>8. CopiaInv'
  <2>1. Pendientes' = 0
    BY <1>1 DEF Pendientes
  <2>2. \A j, k \in 1 .. Len(destino') : j < k => destino'[j] < destino'[k]
    BY <1>2 DEF CpInv, CopiaInv
  <2>3. QED
    BY <1>2, <1>4, <2>1, <2>2 DEF CopiaInv
<1>9. PrefijoInv'
  <2>1. SUFFICES ASSUME fallos' \subseteq EINTRs PROVE PrefijoInv'
    BY DEF PrefijoInv
  <2>2. fallos \subseteq EINTRs /\ errno' = "EINTR" /\ fallos' # {}
    <3>1. "read otro" \notin fallos'
      BY <2>1 DEF EINTRs
    <3>2. fallos' = fallos \cup {"read EINTR"} /\ errno' = "EINTR"
      BY <1>3, <3>1
    <3>3. QED
      BY <2>1, <3>2
  <2>3. Len(destino') <= leidos' /\ \A k \in 1 .. Len(destino') : destino'[k] = k
    BY <1>2, <2>2 DEF CpInv, PrefijoInv
  <2>4. QED
    BY <1>5, <2>2, <2>3 DEF PrefijoInv, Copiando
<1>10. QED
  BY <1>6, <1>7, <1>8, <1>9 DEF CpInv

\* A write that takes some or all of the buffer keeps it.
LEMMA CpWriteBytes == CpInv /\ WriteBytes => CpInv'
<1> SUFFICES ASSUME CpInv, WriteBytes PROVE CpInv'
  OBVIOUS
<1>1. pc = "write" /\ bytes_read >= 0 /\ pc' = "read"
  BY DEF WriteBytes
<1>2. UNCHANGED <<mismo, original, origen, abiertos, leidos, buf, bytes_read, errno, mensaje>>
  BY DEF WriteBytes, fuente
<1>3. PICK n \in 0 .. bytes_read :
        /\ IF n = bytes_read THEN UNCHANGED fallos ELSE n > 0 /\ Falla("write corta")
        /\ destino' = destino \o SubSeq(buf, 1, n)
  BY DEF WriteBytes
<1>4. /\ destino \in Seq(Nat) /\ buf \in Seq(Nat) /\ bytes_read \in Nat /\ leidos \in Nat
      /\ n \in Nat
  <2>1. leidos \in 0 .. Len(origen) /\ Len(origen) \in Nat
    BY CpOrigen DEF CpInv, TypeInv
  <2>2. QED
    BY <1>1, <2>1 DEF CpInv, TypeInv
<1>5. Pendientes = bytes_read
  BY <1>1, <1>4 DEF Pendientes
<1>6. /\ bytes_read <= leidos
      /\ \A k \in 1 .. bytes_read : buf[k] = leidos - bytes_read + k
      /\ \A k \in 1 .. Len(destino) : destino[k] <= leidos - bytes_read
      /\ \A j, k \in 1 .. Len(destino) : j < k => destino[j] < destino[k]
  BY <1>4, <1>5 DEF CpInv, CopiaInv
<1>7. n \in 0 .. Len(buf)
  <2>1. bytes_read > 0 => Len(buf) = bytes_read
    BY <1>4, <1>5 DEF CpInv, CopiaInv
  <2>2. QED
    BY <1>4, <2>1
<1> DEFINE d == destino
           e == destino'
<1>8. /\ e \in Seq(Nat) /\ Len(e) = Len(d) + n
      /\ \A k \in 1 .. Len(d) : e[k] = d[k]
      /\ \A k \in Len(d) + 1 .. Len(d) + n : e[k] = buf[k - Len(d)]
  BY <1>3, <1>4, <1>7, Anexa DEF d, e
<1>9. Len(d) \in Nat /\ \A k \in 1 .. Len(d) : d[k] \in Nat
  BY <1>4 DEF d
<1> HIDE DEF d, e
<1>10. ASSUME NEW k \in 1 .. Len(e), k > Len(d)
       PROVE  e[k] = leidos - bytes_read + (k - Len(d)) /\ k - Len(d) \in 1 .. bytes_read
  <2>1. k \in Len(d) + 1 .. Len(d) + n /\ k - Len(d) \in 1 .. bytes_read
    <3>1. k \in Int /\ k <= Len(d) + n /\ n <= bytes_read
      BY <1>4, <1>8
    <3>2. QED
      BY <1>4, <1>9, <1>10, <3>1
  <2>2. e[k] = buf[k - Len(d)]
    BY <1>8, <2>1
  <2>3. QED
    BY <1>6, <2>1, <2>2
<1>11. TypeInv'
  <2>1. fallos' \subseteq TodasLasFallas
    BY <1>3 DEF CpInv, TypeInv, TodasLasFallas, Falla
  <2>2. pc' \in Copiando
    BY <1>1 DEF Copiando
  <2>3. QED
    BY <1>2, <1>8, <2>1, <2>2 DEF CpInv, TypeInv, e
<1>12. AbreInv'
  BY <1>1, <1>2 DEF CpInv, AbreInv, Abriendo
<1>13. CopiaInv'
  <2>1. Pendientes' = 0
    BY <1>1 DEF Pendientes
  <2>2. ASSUME NEW k \in 1 .. Len(e) PROVE e[k] <= leidos
    <3>1. CASE k <= Len(d)
      BY <3>1, <1>4, <1>6, <1>8, <1>9 DEF d
    <3>2. CASE k > Len(d)
      BY <3>2, <1>4, <1>9, <1>10
    <3>3. QED
      BY <3>1, <3>2, <1>9
  <2>3. ASSUME NEW j \in 1 .. Len(e), NEW k \in 1 .. Len(e), j < k PROVE e[j] < e[k]
    <3>1. CASE k <= Len(d)
      BY <3>1, <2>3, <1>6, <1>8, <1>9 DEF d
    <3>2. CASE k > Len(d) /\ j <= Len(d)
      <4>1. e[j] = d[j] /\ d[j] \in Nat /\ d[j] <= leidos - bytes_read
        BY <3>2, <1>6, <1>8, <1>9 DEF d
      <4>2. e[k] = leidos - bytes_read + (k - Len(d)) /\ k - Len(d) > 0
        BY <3>2, <1>9, <1>10
      <4>3. QED
        BY <4>1, <4>2, <1>4, <1>9
    <3>3. CASE j > Len(d)
      <4>1. e[j] = leidos - bytes_read + (j - Len(d)) /\ e[k] = leidos - bytes_read + (k - Len(d))
        BY <3>3, <2>3, <1>8, <1>9, <1>10
      <4>2. QED
        BY <4>1, <2>3, <1>4, <1>9
    <3>4. QED
      BY <3>1, <3>2, <3>3, <1>9
  <2>4. leidos' = leidos /\ leidos' - Pendientes' = leidos /\ Pendientes' <= leidos'
    BY <1>2, <1>4, <2>1
  <2>5. QED
    BY <2>1, <2>2, <2>3, <2>4 DEF CopiaInv, e
<1>14. PrefijoInv'
  <2>1. SUFFICES ASSUME fallos' \subseteq EINTRs PROVE PrefijoInv'
    BY DEF PrefijoInv
  <2>2. n = bytes_read /\ fallos' = fallos
    <3>1. "write corta" \notin fallos'
      BY <2>1 DEF EINTRs
    <3>2. QED
      BY <1>3, <3>1 DEF Falla
  <2>3. /\ \A k \in 1 .. Len(d) : d[k] = k
        /\ Len(d) = leidos - bytes_read
        /\ errno # "otro" /\ (fallos = {} => errno = "0")
    BY <1>1, <2>1, <2>2 DEF CpInv, PrefijoInv, Copiando, d
  <2>4. Len(e) = leidos
    BY <1>4, <1>8, <1>9, <2>2, <2>3
  <2>5. ASSUME NEW k \in 1 .. Len(e) PROVE e[k] = k
    <3>1. CASE k <= Len(d)
      BY <3>1, <1>8, <1>9, <2>3
    <3>2. CASE k > Len(d)
      BY <3>2, <1>4, <1>9, <1>10, <2>3
    <3>3. QED
      BY <3>1, <3>2, <1>9
  <2>6. mensaje' = "nada"
    BY <1>1, <1>2 DEF CpInv, AbreInv
  <2>7. QED
    BY <1>1, <1>2, <1>4, <2>2, <2>3, <2>4, <2>5, <2>6 DEF PrefijoInv, Copiando, e
<1>15. QED
  BY <1>11, <1>12, <1>13, <1>14 DEF CpInv

\* A write that fails, interrupted or otherwise, keeps it.
LEMMA CpWriteFalla == CpInv /\ (WriteInterrumpido \/ WriteFalla) => CpInv'
<1> SUFFICES ASSUME CpInv, WriteInterrumpido \/ WriteFalla PROVE CpInv'
  OBVIOUS
<1>1. /\ UNCHANGED <<mismo, original, origen, destino, abiertos, leidos, buf, bytes_read, mensaje>>
      /\ pc = "write" /\ pc' \in {"read", "write"}
      /\ errno' \in {"EINTR", "otro"}
  BY DEF WriteInterrumpido, WriteFalla, fuente
<1>2. fallos' \subseteq TodasLasFallas /\ fallos \subseteq fallos'
  BY DEF WriteInterrumpido, WriteFalla, Falla, CpInv, TypeInv, TodasLasFallas
<1>3. leidos \in Nat /\ bytes_read \in Int /\ Len(destino) \in Nat
      /\ \A k \in 1 .. Len(destino) : destino[k] \in Nat
  BY CpOrigen DEF CpInv, TypeInv
<1>4. TypeInv'
  BY <1>1, <1>2 DEF CpInv, TypeInv, Copiando
<1>5. AbreInv'
  BY <1>1 DEF CpInv, AbreInv, Abriendo
<1>6. CopiaInv'
  <2>1. Pendientes \in Nat /\ (Pendientes' = Pendientes \/ Pendientes' = 0)
    BY <1>1, <1>3 DEF Pendientes
  <2>2. Pendientes <= leidos /\ \A k \in 1 .. Len(destino) : destino[k] <= leidos - Pendientes
    BY DEF CpInv, CopiaInv
  <2>3. Pendientes' <= leidos' /\ \A k \in 1 .. Len(destino') : destino'[k] <= leidos' - Pendientes'
    BY <1>1, <1>3, <2>1, <2>2
  <2>4. Pendientes' > 0 => Pendientes > 0
    BY <2>1
  <2>5. QED
    BY <1>1, <2>3, <2>4 DEF CpInv, CopiaInv
<1>7. PrefijoInv'
  <2>1. SUFFICES ASSUME fallos' \subseteq EINTRs PROVE PrefijoInv'
    BY DEF PrefijoInv
  <2>2. fallos \subseteq EINTRs
    BY <1>2, <2>1
  <2>3. /\ Len(destino) <= leidos /\ \A k \in 1 .. Len(destino) : destino[k] = k
        /\ bytes_read >= 0 /\ Len(destino) = leidos - bytes_read
    BY <1>1, <2>2 DEF CpInv, PrefijoInv
  <2>4. ~WriteFalla
    <3>1. "write otro" \notin fallos'
      BY <2>1 DEF EINTRs
    <3>2. bytes_read # -1
      BY <2>3, <1>3
    <3>3. QED
      BY <3>1, <3>2 DEF WriteFalla, Falla
  <2>5. errno' = "EINTR" /\ fallos' # {}
    BY <2>4 DEF WriteInterrumpido, Falla
  <2>6. mensaje' = "nada"
    BY <1>1 DEF CpInv, AbreInv
  <2>7. QED
    BY <1>1, <2>3, <2>5, <2>6 DEF PrefijoInv, Copiando
<1>8. QED
  BY <1>4, <1>5, <1>6, <1>7 DEF CpInv

\* So it always holds.
LEMMA CpInvariante == Spec => []CpInv
<1>1. CpInv /\ Next => CpInv'
  BY CpAbre, CpReadBytes, CpReadFin, CpReadFalla, CpWriteBytes, CpWriteFalla DEF Next, copyfd
<1>2. CpInv /\ UNCHANGED vars => CpInv'
  <2> SUFFICES ASSUME CpInv, UNCHANGED vars PROVE CpInv'
    OBVIOUS
  <2>1. TypeInv' /\ AbreInv'
    BY DEF CpInv, TypeInv, AbreInv, vars, fuente
  <2>2. CopiaInv'
    BY DEF CpInv, CopiaInv, Pendientes, vars
  <2>3. PrefijoInv'
    BY DEF CpInv, PrefijoInv, vars
  <2>4. QED
    BY <2>1, <2>2, <2>3 DEF CpInv
<1>3. QED
  BY CpInicia, <1>1, <1>2, PTL DEF Spec

-----------------------------------------------------------------------------
\* The properties

\* Whatever the kernel answers, the copy holds bytes of the source in the
\* source's order, none of them twice.
THEOREM CopiaEnOrden == Spec => []SinRepetir
<1>1. CpInv => SinRepetir
  <2> SUFFICES ASSUME CpInv PROVE SinRepetir
    OBVIOUS
  <2>1. DOMAIN destino = 1 .. Len(destino)
    BY DEF CpInv, TypeInv
  <2>2. QED
    BY <2>1 DEF CpInv, CopiaInv, SinRepetir
<1>2. QED
  BY <1>1, CpInvariante, PTL

\* While calls are only interrupted, the copy is a prefix of the source: what
\* copyfd drops once errno is EINTR is everything from there on.
THEOREM SoloSeCortaElFinal == Spec => []CopiaEsPrefijo
<1>1. CpInv => CopiaEsPrefijo
  <2> SUFFICES ASSUME CpInv, fallos \subseteq EINTRs
      PROVE  Len(destino) <= Len(origen) /\ destino = SubSeq(origen, 1, Len(destino))
    BY DEF CopiaEsPrefijo, EINTRs
  <2>1. origen \in Seq(Nat) /\ \A k \in 1 .. Len(origen) : origen[k] = k
    BY CpOrigen
  <2>2. destino \in Seq(Nat) /\ \A k \in 1 .. Len(destino) : destino[k] = k
    BY DEF CpInv, TypeInv, PrefijoInv
  <2>3. Len(destino) <= Len(origen)
    <3>1. Len(destino) <= leidos /\ leidos \in 0 .. Len(origen)
      BY DEF CpInv, TypeInv, PrefijoInv
    <3>2. Len(destino) \in Nat /\ Len(origen) \in Nat
      BY <2>1, <2>2
    <3>3. QED
      BY <3>1, <3>2
  <2>4. QED
    BY <2>1, <2>2, <2>3, Prefijo
<1>2. QED
  BY <1>1, CpInvariante, PTL

\* If no call fails, what cp57 reports as copied is the whole source.
THEOREM CopiaCompleta == Spec => []CopiaSinFallos
<1>1. CpInv => CopiaSinFallos
  <2>1. SUFFICES ASSUME CpInv, fallos = {}, mensaje = "se copio todo"
        PROVE  destino = origen /\ (~mismo => destino = original)
    BY DEF CopiaSinFallos
  <2>2. origen \in Seq(Nat) /\ \A k \in 1 .. Len(origen) : origen[k] = k
    BY <2>1, CpOrigen
  <2>3. fallos \subseteq EINTRs
    BY <2>1
  <2>4. /\ destino \in Seq(Nat) /\ \A k \in 1 .. Len(destino) : destino[k] = k
        /\ Len(destino) = Len(origen)
    BY <2>1, <2>3 DEF CpInv, TypeInv, PrefijoInv
  <2>5. destino = origen
    <3>1. Len(origen) \in Nat
      BY <2>2
    <3>2. Len(destino) <= Len(origen)
      BY <2>4, <3>1
    <3>3. QED
      BY <2>2, <2>4, <3>2, Prefijo
  <2>6. QED
    BY <2>1, <2>5 DEF CpInv, TypeInv
<1>2. QED
  BY <1>1, CpInvariante, PTL

\* On every path, the error paths included, descriptors are open exactly
\* while they are used.
THEOREM NoQuedanAbiertos == Spec => []DescriptoresEnOrden
<1>1. CpInv => DescriptoresEnOrden
  BY DEF CpInv, AbreInv, DescriptoresEnOrden, Copiando
<1>2. QED
  BY <1>1, CpInvariante, PTL

\* writeall goes on to the next read with all of the chunk written, unless a
\* write fell short or failed otherwise than by an interruption.
THEOREM ReintentaHastaEscribir == Spec => WriteallReintenta
<1> DEFINE A == pc = "write" /\ pc' = "read" /\ fallos' \cap {"write corta", "write otro"} = {} =>
                  Len(destino') = Len(destino) + (IF bytes_read = -1 THEN 0 ELSE bytes_read)
<1>1. ASSUME CpInv, [Next]_vars PROVE [A]_vars
  <2>1. SUFFICES ASSUME Next, pc = "write", pc' = "read",
                      fallos' \cap {"write corta", "write otro"} = {}
               PROVE  Len(destino') = Len(destino) + (IF bytes_read = -1 THEN 0 ELSE bytes_read)
    BY <1>1
  <2>2. destino \in Seq(Nat) /\ buf \in Seq(Nat) /\ bytes_read \in Int /\ Len(destino) \in Nat
    BY <1>1 DEF CpInv, TypeInv
  <2>3. WriteBytes \/ WriteInterrumpido \/ WriteFalla
    BY <2>1 DEF Next, Abrir, copyfd, Enlace, NoEsEnlace, AbreOrigen, ErrorAlAbrir, AbreDestino,
           DestinoEsDirectorio, AbreDirectorio, AbreEnDirectorio, SinCopia, Leyendo,
           ReadBytes, ReadFin, ReadFalla
  <2>4. CASE WriteBytes
    <3>1. bytes_read >= 0
      BY <2>4 DEF WriteBytes
    <3>2. bytes_read \in Nat
      BY <2>2, <3>1
    <3>3. destino' = destino \o SubSeq(buf, 1, bytes_read)
      BY <2>1, <2>4 DEF WriteBytes, Falla
    <3>4. bytes_read \in 0 .. Len(buf)
      <4>1. bytes_read > 0 => Len(buf) = bytes_read
        BY <1>1, <2>1, <2>2 DEF CpInv, CopiaInv, Pendientes
      <4>2. QED
        BY <2>2, <3>2, <4>1
    <3>5. Len(destino') = Len(destino) + bytes_read
      BY <2>2, <3>3, <3>4, Anexa
    <3>6. QED
      BY <3>2, <3>5
  <2>5. CASE WriteInterrumpido
    <3>1. destino' = destino /\ bytes_read = 0
      BY <2>1, <2>5 DEF WriteInterrumpido
    <3>2. QED
      BY <2>2, <3>1
  <2>6. CASE WriteFalla
    <3>1. destino' = destino /\ bytes_read = -1
      BY <2>1, <2>6 DEF WriteFalla, Falla
    <3>2. QED
      BY <2>2, <3>1
  <2>7. QED
    BY <2>3, <2>4, <2>5, <2>6
<1>2. QED
  BY <1>1, CpInvariante, PTL DEF Spec, WriteallReintenta, A
===================================================================================
