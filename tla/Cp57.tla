---------------------------------- MODULE Cp57 ----------------------------------
(***************************************************************************)
(* "Labs individuales/lab1/cp57.c": main opens the files, copyfd copies    *)
(* with read(2) and with writeall, a loop around write(2).  One action per *)
(* system call and outcome, with the code that runs until the next call.   *)
(*                                                                         *)
(* The kernel is external: Fallas says which failures it may answer with.  *)
(* A byte of the source is its position, so a copy shows where each of its *)
(* bytes came from.                                                        *)
(***************************************************************************)
EXTENDS Integers, Sequences

CONSTANTS
  size,         \* of copyfd's buffer
  MaxLargo,     \* bound: bytes in the source file
  Fallas        \* the failures that the system calls may answer with

TodasLasFallas ==
  {"open", "openat", "read EINTR", "read otro", "write corta", "write EINTR", "write otro"}

ASSUME SizeAssumption == size \in Nat \ {0}
ASSUME LargoAssumption == MaxLargo \in Nat
ASSUME FallasAssumption == Fallas \subseteq TodasLasFallas

VARIABLES
  mismo,       \* whether both arguments name one file
  original,    \* the source's bytes when the program starts
  origen,      \* the source's bytes
  destino,     \* the destination's bytes
  abiertos,    \* open file descriptors
  leidos,      \* offset of the source's descriptor
  buf,         \* what the last successful read put in the buffer
  bytes_read,  \* result of the last read
  errno,
  fallos,      \* the failures there were, a record for the properties
  mensaje,     \* what main reported
  pc

fuente == <<mismo, original>>
vars == <<fuente, origen, destino, abiertos, leidos, buf, bytes_read, errno, fallos, mensaje, pc>>

Init ==
  /\ mismo \in BOOLEAN
  /\ \E n \in 0 .. MaxLargo : original = [k \in 1 .. n |-> k]
  /\ origen = original
  /\ destino = <<>>
  /\ abiertos = {}
  /\ leidos = 0 /\ buf = <<>> /\ bytes_read = 0
  /\ errno = "0"
  /\ fallos = {} /\ mensaje = "nada"
  /\ pc = "readlink"

\* A system call fails as f says.
Falla(f) == f \in Fallas /\ fallos' = fallos \cup {f}

\* main reports m, closes some descriptors (-1 among them does no harm) and
\* returns.
Termina(m, cierra) ==
  /\ mensaje' = m
  /\ abiertos' = abiertos \ cierra
  /\ pc' = "fin"

-----------------------------------------------------------------------------
\* main, up to the copy

\* readlink of the source succeeds: link(2) is all that is done.
Enlace ==
  /\ pc = "readlink"
  /\ Termina("enlace", {})
  /\ UNCHANGED <<fuente, fallos, origen, destino, leidos, buf, bytes_read, errno>>

NoEsEnlace ==
  /\ pc = "readlink"
  /\ pc' = "open origen"
  /\ UNCHANGED <<fuente, fallos, origen, destino, abiertos, leidos, buf, bytes_read, errno, mensaje>>

AbreOrigen ==
  /\ pc = "open origen"
  /\ errno' = "0"
  /\ abiertos' = {"origen"}
  /\ pc' = "open destino"
  /\ UNCHANGED <<fuente, fallos, origen, destino, leidos, buf, bytes_read, mensaje>>

\* Mutant: the exit of the destination's error path closes nothing.
ErrorAlAbrir_NoCierra ==
  /\ pc \in {"open origen", "open destino", "open directorio"}
  /\ Falla("open") /\ errno' = "otro"
  /\ Termina("error al abrir", IF pc = "open directorio" THEN {"origen", "destino"} ELSE {})
  /\ UNCHANGED <<fuente, origen, destino, leidos, buf, bytes_read>>

ErrorAlAbrir ==
  /\ pc \in {"open origen", "open destino", "open directorio"}
  /\ Falla("open") /\ errno' = "otro"
  /\ Termina("error al abrir",
       CASE pc = "open origen" -> {}
         [] pc = "open destino" -> {"origen"}
         [] pc = "open directorio" -> {"origen", "destino"})
  /\ UNCHANGED <<fuente, origen, destino, leidos, buf, bytes_read>>

\* The destination is open and empty, and so is the source if it is the same.
\* copyfd starts by resetting errno.
Trunca ==
  /\ destino' = <<>>
  /\ origen' = IF mismo THEN <<>> ELSE origen
  /\ errno' = "0"
  /\ pc' = "primer read"

AbreDestino ==
  /\ pc = "open destino"
  /\ Trunca
  /\ abiertos' = abiertos \cup {"destino"}
  /\ UNCHANGED <<fuente, fallos, leidos, buf, bytes_read, mensaje>>

\* open answers EISDIR: the destination is a directory.
DestinoEsDirectorio ==
  /\ pc = "open destino"
  /\ errno' = "0"
  /\ pc' = "open directorio"
  /\ UNCHANGED <<fuente, fallos, origen, destino, abiertos, leidos, buf, bytes_read, mensaje>>

AbreDirectorio ==
  /\ pc = "open directorio"
  /\ abiertos' = abiertos \cup {"directorio"}
  /\ pc' = "openat"
  /\ UNCHANGED <<fuente, fallos, origen, destino, leidos, buf, bytes_read, errno, mensaje>>

AbreEnDirectorio ==
  /\ pc = "openat"
  /\ Trunca
  /\ abiertos' = (abiertos \ {"directorio"}) \cup {"destino"}
  /\ UNCHANGED <<fuente, fallos, leidos, buf, bytes_read, mensaje>>

\* openat fails: main tests reader, which nothing has assigned.
SinCopia ==
  /\ pc = "openat"
  /\ Falla("openat") /\ errno' = "otro"
  /\ \E m \in {"se copio todo", "hubo un error"} :
       Termina(m, {"directorio", "origen", "destino"})
  /\ UNCHANGED <<fuente, origen, destino, leidos, buf, bytes_read>>

-----------------------------------------------------------------------------
\* copyfd and writeall

\* Mutant: a read of less than the buffer's size is taken for the last.
TrasRead_CortoEsFin ==
  IF bytes_read' \in 0 .. size - 1
  THEN Termina("se copio todo", {"origen", "destino"})
  ELSE /\ pc' = IF errno' # "EINTR" THEN "write" ELSE "read"
       /\ UNCHANGED <<mensaje, abiertos>>

\* Mutant: the end of the file does not count after an interruption.
TrasRead_SigueTrasEINTR ==
  IF pc = "read" /\ bytes_read' = 0 /\ errno' # "EINTR"
  THEN Termina("se copio todo", {"origen", "destino"})
  ELSE /\ pc' = IF errno' # "EINTR" THEN "write" ELSE "read"
       /\ UNCHANGED <<mensaje, abiertos>>

\* After a read, the loop's test and the test of errno at its head.  A later
\* read that finds the end makes copyfd return 0, as it does whenever it
\* returns.  No call that succeeds resets errno.
TrasRead ==
  IF pc = "read" /\ bytes_read' = 0
  THEN Termina("se copio todo", {"origen", "destino"})
  ELSE /\ pc' = IF errno' # "EINTR" THEN "write" ELSE "read"
       /\ UNCHANGED <<mensaje, abiertos>>

Leyendo == pc \in {"primer read", "read"}

ReadBytes ==
  /\ Leyendo
  /\ \E n \in 1 .. size :
       /\ leidos + n <= Len(origen)
       /\ buf' = SubSeq(origen, leidos + 1, leidos + n)
       /\ leidos' = leidos + n
       /\ bytes_read' = n
  /\ UNCHANGED <<errno, fallos>>
  /\ TrasRead
  /\ UNCHANGED <<fuente, origen, destino>>

ReadFin ==
  /\ Leyendo
  /\ leidos >= Len(origen)
  /\ bytes_read' = 0
  /\ UNCHANGED <<errno, fallos>>
  /\ TrasRead
  /\ UNCHANGED <<fuente, origen, destino, leidos, buf>>

ReadFalla ==
  /\ Leyendo
  /\ \/ Falla("read EINTR") /\ errno' = "EINTR"
     \/ Falla("read otro") /\ errno' = "otro"
  /\ bytes_read' = -1
  /\ TrasRead
  /\ UNCHANGED <<fuente, origen, destino, leidos, buf>>

\* Mutant: writeall goes on after a short write, from the start of the buffer.
WriteBytes_DesdeElPrincipio ==
  /\ pc = "write" /\ bytes_read >= 0
  /\ \E n \in 0 .. bytes_read :
       /\ IF n = bytes_read THEN UNCHANGED fallos ELSE n > 0 /\ Falla("write corta")
       /\ Len(destino) < 2 * MaxLargo
       /\ destino' = destino \o SubSeq(buf, 1, n)
       /\ pc' = IF n = bytes_read THEN "read" ELSE "write"
  /\ UNCHANGED <<fuente, origen, abiertos, leidos, buf, bytes_read, errno, mensaje>>

\* Mutant: writeall passes write one byte less than it was given.
WriteBytes_UnoMenos ==
  /\ pc = "write" /\ bytes_read >= 0
  /\ destino' = destino \o SubSeq(buf, 1, bytes_read - 1)
  /\ pc' = "read"
  /\ UNCHANGED <<fuente, fallos, origen, abiertos, leidos, buf, bytes_read, errno, mensaje>>

\* write takes the first n bytes; writeall returns, whatever n is.
WriteBytes ==
  /\ pc = "write" /\ bytes_read >= 0
  /\ \E n \in 0 .. bytes_read :
       /\ IF n = bytes_read THEN UNCHANGED fallos ELSE n > 0 /\ Falla("write corta")
       /\ destino' = destino \o SubSeq(buf, 1, n)
  /\ pc' = "read"
  /\ UNCHANGED <<fuente, origen, abiertos, leidos, buf, bytes_read, errno, mensaje>>

\* Mutant: an interrupted write is not tried again.
WriteInterrumpido_SinReintento ==
  /\ pc = "write" /\ bytes_read >= 0
  /\ Falla("write EINTR") /\ errno' = "EINTR"
  /\ pc' = "read"
  /\ UNCHANGED <<fuente, origen, destino, abiertos, leidos, buf, bytes_read, mensaje>>

\* Interrupted, writeall tries again, unless there was nothing to write.
WriteInterrumpido ==
  /\ pc = "write" /\ bytes_read >= 0
  /\ Falla("write EINTR") /\ errno' = "EINTR"
  /\ pc' = IF bytes_read = 0 THEN "read" ELSE "write"
  /\ UNCHANGED <<fuente, origen, destino, abiertos, leidos, buf, bytes_read, mensaje>>

\* writeall returns the bytes written, 0.  A failed read's -1 is a count that
\* write always refuses.
WriteFalla ==
  /\ pc = "write"
  /\ IF bytes_read = -1 THEN UNCHANGED fallos ELSE Falla("write otro")
  /\ errno' = "otro"
  /\ pc' = "read"
  /\ UNCHANGED <<fuente, origen, destino, abiertos, leidos, buf, bytes_read, mensaje>>

Abrir ==
  \/ Enlace \/ NoEsEnlace \/ AbreOrigen \/ ErrorAlAbrir \/ AbreDestino
  \/ DestinoEsDirectorio \/ AbreDirectorio \/ AbreEnDirectorio \/ SinCopia

copyfd == ReadBytes \/ ReadFin \/ ReadFalla \/ WriteBytes \/ WriteInterrumpido \/ WriteFalla

Next == Abrir \/ copyfd

Spec == Init /\ [][Next]_vars

\* The program runs on whenever a system call answers.
FairSpec == Spec /\ WF_vars(Next)

\* And a system call that is made again and again does not fail each time.
ServedSpec == FairSpec /\ SF_vars(ReadBytes \/ ReadFin) /\ SF_vars(WriteBytes)
================================================================================
