------------------------------ MODULE Recode57Props -----------------------------
(***************************************************************************)
(* What recode57 writes, compared with the text in the other encoding.     *)
(***************************************************************************)
EXTENDS Recode57, FiniteSetsExt

\* How many code points of the text lie wholly in the first n bytes of input.
Completos(n) ==
  Max({k \in 0 .. Len(texto) : Len(Archivo(orig, SubSeq(texto, 1, k))) <= n} \cup {0})

\* A code point of the text began in the first n bytes and did not end there.
Cortado(n) == Len(Archivo(orig, SubSeq(texto, 1, Completos(n)))) < n

\* The one file that a mark does not tell: U+0000 at its head in UTF-16LE.
Ambiguo == orig = "UTF16LE" /\ texto # <<>> /\ texto[1] = 0

\* Four bytes tell the encoding of every file, but for U+0000 after the mark of
\* UTF-16LE, which is UTF-32LE's.
DeteccionCorrecta ==
  pc # "bom" /\ pc # "error" /\ faltan = 0 =>
    IF Ambiguo THEN orig_enc = "UTF32LE" ELSE orig_enc = orig

\* However the reads cut the input, after each iteration the output is the mark
\* and every code point read to its last byte: none lost, repeated, or waiting.
\* So at the end of the input it is the whole text; but of a file of four bytes
\* or less nothing is written, not even the mark.
SalidaAlDia ==
  pc \in {"leer", "fin"} /\ faltan = 0 /\ fallos \subseteq {"read"} /\ ~Ambiguo =>
    salida = IF leidos <= 4 THEN <<>>
             ELSE Archivo(dest_enc, SubSeq(texto, 1, Completos(leidos)))

\* The program goes beyond what it has read in two cases only: the first read
\* was short, or a read ended inside a UTF-8 sequence.
IndefinidoSoloSi ==
  pc = "indefinido" => faltan > 0 \/ (orig = "UTF8" /\ Cortado(leidos))

\* The program ends.
Acaba == <>(pc \in {"fin", "error", "indefinido"})

-----------------------------------------------------------------------------
\* recode57.h on read_codepoint: "Se devuelve 0 si no se pudo decodificar ningún
\* codepoint, ya que no se consumió ningún byte."  So a code point that a read
\* cuts is completed by the next.
EsperaElResto == pc = "indefinido" => faltan > 0
================================================================================
