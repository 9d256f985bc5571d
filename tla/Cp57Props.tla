-------------------------------- MODULE Cp57Props --------------------------------
(***************************************************************************)
(* What cp57 must keep true, and what its header and its messages say.     *)
(***************************************************************************)
EXTENDS Cp57

Copiando == {"primer read", "read", "write"}

\* Whatever fails, the copy holds bytes of the source in the source's order:
\* the retry in writeall never writes a byte twice, and a chunk that was
\* dropped is not written after a later one.
SinRepetir ==
  \A j, k \in DOMAIN destino : j < k => destino[j] < destino[k]

\* When calls are interrupted and do not fail otherwise, the copy is a prefix
\* of the source: errno stays EINTR from the first interruption on, so copyfd
\* drops everything it reads after it, and never just a chunk in between.
CopiaEsPrefijo ==
  fallos \subseteq {"read EINTR", "write EINTR"} =>
    /\ Len(destino) <= Len(origen)
    /\ destino = SubSeq(origen, 1, Len(destino))

\* If no call fails, whatever part of the buffer each read returns, what cp57
\* reports as copied is all of the source, as it was when the program started
\* unless both arguments name it.
CopiaSinFallos ==
  fallos = {} /\ mensaje = "se copio todo" =>
    destino = origen /\ (~mismo => destino = original)

\* A chunk whose write was interrupted is written in the end: writeall goes
\* on to the next read with nothing left of it, unless write fails otherwise.
WriteallReintenta ==
  [][pc = "write" /\ pc' = "read" /\ fallos' \cap {"write corta", "write otro"} = {} =>
       Len(destino') = Len(destino) + (IF bytes_read = -1 THEN 0 ELSE bytes_read)]_vars

\* Descriptors are open exactly while they are used, on the error paths too:
\* copyfd runs with both of its files open, and main leaves none behind.
DescriptoresEnOrden ==
  /\ pc \in Copiando => abiertos = {"origen", "destino"}
  /\ pc = "openat" => "directorio" \in abiertos
  /\ pc = "fin" => abiertos = {}

\* The program ends, if the kernel does not fail one call for ever: copyfd's
\* loop around read stops only at the end of the file, writeall's does not
\* stop on EINTR.
Acaba == <>(pc = "fin")

\* cp57.h on writeall: it makes sure that all the bytes are written, and
\* returns 0 if they were.  It returns 0 after a short write as well.
WriteallEscribeTodo ==
  [][pc = "write" /\ pc' = "read" /\ errno' = "0" =>
       Len(destino') = Len(destino) + bytes_read]_vars

\* cp57.h on copyfd: it returns 0 if the file was copied as a whole.  main
\* then reports that it was ("Se copió todo el archivo").
CopiaTodo == mensaje = "se copio todo" => destino = origen
================================================================================
