-------------------------------- MODULE Recode57 --------------------------------
(***************************************************************************)
(* "Labs individuales/lab3": recode57.c's loop over read and write, with   *)
(* the decoders and encoders of recode57_alu.c on the bytes themselves.    *)
(* One step per iteration.  A read may always return less than asked, as   *)
(* it does from a pipe.                                                    *)
(*                                                                         *)
(* The input is a text in one of the encodings.  What bytes a code point   *)
(* has in each (Formas) is the Unicode standard's, not the code's.         *)
(***************************************************************************)
EXTENDS Integers, SequencesExt

CONSTANTS
  Textos,    \* sequences of code points
  Formas,    \* for each code point its bytes as UTF-8 and as UTF-16BE
  TamInbuf,  \* sizeof(inbuf)
  Basura,    \* bytes that an unwritten part of bom may hold
  Fallas     \* bound: which of "read" and "write" may fail

\* The bytes that the Unicode standard gives a code point: in UTF-8 the first
\* one tells how many there are and the others hold six bits each; in UTF-16
\* there are one or two units, the values of which are apart.
Byte == 0 .. 255
EsUTF8(cp, s) ==
  /\ cp \in Nat /\ s \in Seq(Byte) /\ \A k \in 2 .. Len(s) : 128 <= s[k] /\ s[k] < 192
  /\ \/ Len(s) = 1 /\ cp < 128 /\ cp = s[1]
     \/ Len(s) = 2 /\ 128 <= cp /\ cp < 2048 /\ cp = 64 * (s[1] - 192) + (s[2] - 128)
     \/ /\ Len(s) = 3 /\ 2048 <= cp /\ cp < 65536
        /\ cp = 4096 * (s[1] - 224) + 64 * (s[2] - 128) + (s[3] - 128)
     \/ /\ Len(s) = 4 /\ 65536 <= cp /\ cp <= 1114111
        /\ cp = 262144 * (s[1] - 240) + 4096 * (s[2] - 128) + 64 * (s[3] - 128) + (s[4] - 128)
EsUTF16(cp, s) ==
  LET unidad(k) == 256 * s[k] + s[k + 1]
      entre(k, n) == n <= unidad(k) /\ unidad(k) < n + 1024
  IN  /\ cp \in Nat /\ s \in Seq(Byte)
      /\ \/ Len(s) = 2 /\ cp = unidad(1) /\ (cp < 55296 \/ 57344 <= cp)
         \/ /\ Len(s) = 4 /\ entre(1, 55296) /\ entre(3, 56320)
            /\ cp = 65536 + 1024 * (unidad(1) - 55296) + (unidad(3) - 56320)

ASSUME FormasAssumption ==
  \A cp \in DOMAIN Formas : EsUTF8(cp, Formas[cp].utf8) /\ EsUTF16(cp, Formas[cp].utf16)
ASSUME RecodeAssumption ==
  /\ TamInbuf \in Nat /\ TamInbuf > 4
  /\ Basura \subseteq Byte /\ Basura # {}
  /\ \A t \in Textos : t \in Seq(DOMAIN Formas)

UTF16 == {"UTF16BE", "UTF16LE"}
UTF32 == {"UTF32BE", "UTF32LE"}
Encodings == {"UTF8"} \cup UTF16 \cup UTF32
LittleEndian == {"UTF16LE", "UTF32LE"}

VARIABLES
  texto, orig,  \* the text on standard input and its encoding
  entrada,      \* its bytes
  dest_enc,     \* the argument
  pc,           \* "bom", "leer"; "fin", "error", or "indefinido" when the
                \* program has used bytes that it did not read
  orig_enc,     \* the encoding detected
  faltan,       \* how many bytes of bom were not read
  leidos,       \* how many bytes of the input were read
  resto,        \* the first prevbytes bytes of inbuf
  bom_bytes,    \* the byte order mark still to be written
  salida,       \* what standard output has taken
  fallos        \* which calls have failed

vars == <<texto, orig, entrada, dest_enc, pc, orig_enc, faltan, leidos, resto, bom_bytes, salida, fallos>>
entorno == <<texto, orig, entrada, dest_enc>>

-----------------------------------------------------------------------------
\* The input.

Cambiados(s) == [k \in DOMAIN s |-> s[IF k % 2 = 1 THEN k + 1 ELSE k - 1]]

\* A code point's bytes.
Forma(enc, cp) ==
  LET utf32 == <<0, cp \div 65536, (cp \div 256) % 256, cp % 256>>
  IN  IF enc = "UTF8" THEN Formas[cp].utf8
      ELSE IF enc = "UTF16BE" THEN Formas[cp].utf16
      ELSE IF enc = "UTF16LE" THEN Cambiados(Formas[cp].utf16)
      ELSE IF enc = "UTF32BE" THEN utf32 ELSE Reverse(utf32)

\* The mark at the head of a file: U+FEFF, except in UTF-8.
Marca(enc) ==
  IF enc = "UTF8" THEN <<>>
  ELSE IF enc = "UTF16BE" THEN <<254, 255>>
  ELSE IF enc = "UTF16LE" THEN <<255, 254>>
  ELSE IF enc = "UTF32BE" THEN <<0, 0, 254, 255>> ELSE <<255, 254, 0, 0>>

Archivo(enc, t) == Marca(enc) \o FlattenSeq([k \in DOMAIN t |-> Forma(enc, t[k])])

-----------------------------------------------------------------------------
\* recode57_alu.c

\* Mutant: the shorter mark is tried first.
bom_to_encoding_CortaPrimero(bom) ==
  CASE bom[1] = 254 /\ bom[2] = 255 -> "UTF16BE"
    [] bom[1] = 255 /\ bom[2] = 254 -> "UTF16LE"
    [] bom = <<0, 0, 254, 255>> -> "UTF32BE"
    [] OTHER -> "UTF8"

bom_to_encoding(bom) ==
  IF bom[1] = 254 /\ bom[2] = 255 THEN "UTF16BE"
  ELSE IF bom = <<0, 0, 254, 255>> THEN "UTF32BE"
  ELSE IF bom = <<255, 254, 0, 0>> THEN "UTF32LE"
  ELSE IF bom[1] = 255 /\ bom[2] = 254 THEN "UTF16LE" ELSE "UTF8"

write_bom(enc) ==
  IF enc = "UTF16BE" THEN <<254, 255>>
  ELSE IF enc = "UTF32BE" THEN <<0, 0, 254, 255>>
  ELSE IF enc = "UTF32LE" THEN <<255, 254, 0, 0>>
  ELSE IF enc = "UTF16LE" THEN <<255, 254>> ELSE <<>>

\* The 16-bit unit at byte i of buf, and the bytes of one.
Unidad(enc, buf, i) ==
  IF enc = "UTF16BE" THEN 256 * buf[i] + buf[i + 1] ELSE buf[i] + 256 * buf[i + 1]
Bytes(enc, u) == IF enc \in LittleEndian THEN <<u % 256, u \div 256>> ELSE <<u \div 256, u % 256>>

\* buf[0] >> 2 (buf[1] >> 2 in little endian) is 0x36.
Subrogado(enc, buf) == Unidad(enc, buf, 1) \div 1024 = 54

ConsumidosUTF32(n) == IF n >= 4 THEN 4 ELSE 0

\* Mutant: the second half of a surrogate pair is not waited for.
ConsumidosUTF16_SinPareja(enc, buf) ==
  IF Len(buf) < 2 THEN 0 ELSE IF Subrogado(enc, buf) THEN 4 ELSE 2
ConsumidosUTF16(enc, buf) ==
  IF Len(buf) < 2 THEN 0
  ELSE IF ~Subrogado(enc, buf) THEN 2
  ELSE IF Len(buf) >= 4 THEN 4 ELSE 0

\* In UTF-8 the first byte alone decides, however few there are.
ConsumidosUTF8(buf) ==
  IF buf = <<>> THEN 0
  ELSE IF buf[1] < 128 THEN 1
  ELSE IF buf[1] < 224 THEN 2
  ELSE IF buf[1] < 240 THEN 3 ELSE 4

\* What read_codepoint returns for the bytes buf: how many it consumed.
Consumidos(enc, buf) ==
  IF enc \in UTF32 THEN ConsumidosUTF32(Len(buf))
  ELSE IF enc \in UTF16 THEN ConsumidosUTF16(enc, buf) ELSE ConsumidosUTF8(buf)

\* The code point in the first b bytes of buf, *dest.
CodepointUTF32(enc, buf) ==
  IF enc = "UTF32BE" THEN 16777216 * buf[1] + 65536 * buf[2] + 256 * buf[3] + buf[4]
  ELSE buf[1] + 256 * buf[2] + 65536 * buf[3] + 16777216 * buf[4]
CodepointUTF16(enc, buf, b) ==
  LET alto == Unidad(enc, buf, 1)
  IN  IF b = 2 THEN alto ELSE 1024 * (alto % 1024) + (Unidad(enc, buf, 3) % 1024) + 65536
CodepointUTF8(buf, b) ==
  IF b = 1 THEN buf[1]
  ELSE IF b = 2 THEN 64 * (buf[1] % 32) + (buf[2] % 64)
  ELSE IF b = 3 THEN 4096 * (buf[1] % 16) + 64 * (buf[2] % 64) + (buf[3] % 64)
  ELSE 262144 * (buf[1] % 8) + 4096 * (buf[2] % 64) + 64 * (buf[3] % 64) + (buf[4] % 64)
Codepoint(enc, buf, b) ==
  IF enc \in UTF32 THEN CodepointUTF32(enc, buf)
  ELSE IF enc \in UTF16 THEN CodepointUTF16(enc, buf, b) ELSE CodepointUTF8(buf, b)

\* The code points below 2^21 are all that occur, and for them no two
\* operands of | have a bit in common.
EscritoUTF32(enc, cp) ==
  LET bajo == cp % 256
      medio == (cp \div 256) % 256
      alto == cp \div 65536
  IN  IF enc = "UTF32LE" THEN <<bajo, medio, alto, 0>> ELSE <<0, alto, medio, bajo>>
EscritoUTF16(enc, cp) ==
  LET aux == cp - 65536
  IN  IF cp <= 65535 THEN Bytes(enc, cp)
      ELSE Bytes(enc, 55296 + (aux \div 1024)) \o Bytes(enc, 56320 + (aux % 1024))
EscritoUTF8(cp) ==
  IF cp < 128 THEN <<cp>>
  ELSE IF cp < 2048 THEN <<192 + (cp \div 64), 128 + (cp % 64)>>
  ELSE IF cp < 65536
  THEN <<224 + (cp \div 4096), 128 + ((cp \div 64) % 64), 128 + (cp % 64)>>
  ELSE <<240 + (cp \div 262144), 128 + ((cp \div 4096) % 64), 128 + ((cp \div 64) % 64), 128 + (cp % 64)>>
write_codepoint(enc, cp) ==
  IF enc \in UTF32 THEN EscritoUTF32(enc, cp)
  ELSE IF enc \in UTF16 THEN EscritoUTF16(enc, cp) ELSE EscritoUTF8(cp)

-----------------------------------------------------------------------------
\* recode57.c

\* The code points of buf, the bytes left over, and whether a sequence was
\* longer than what was left: nbytes then wraps around and the loop runs on
\* beyond the buffer.
orig_to_ucs4(enc, buf) ==
  LET desde[i \in 1 .. Len(buf) + 1] ==
        LET queda == SubSeq(buf, i, Len(buf))
            b == Consumidos(enc, queda)
        IN  IF b = 0 \/ b > Len(queda)
            THEN [cps |-> <<>>, resto |-> queda, pasado |-> b > 0]
            ELSE [desde[i + b] EXCEPT !.cps = <<Codepoint(enc, queda, b)>> \o @]
  IN  desde[1]

ucs4_to_dest(enc, cps) == FlattenSeq([k \in DOMAIN cps |-> write_codepoint(enc, cps[k])])

Init ==
  /\ texto \in Textos /\ orig \in Encodings /\ entrada = Archivo(orig, texto)
  /\ dest_enc \in Encodings \cup {"UNKNOWN"}
  /\ pc = "bom" /\ orig_enc = "UTF8" /\ faltan = 0 /\ leidos = 0
  /\ resto = <<>> /\ bom_bytes = <<>> /\ salida = <<>> /\ fallos = {}

\* The argument names no encoding.
Rechazar ==
  /\ pc = "bom" /\ dest_enc = "UNKNOWN"
  /\ pc' = "error"
  /\ UNCHANGED <<entorno, orig_enc, faltan, leidos, resto, bom_bytes, salida, fallos>>

\* The bytes of bom that belong to the text.
Prefijo(enc, bom) ==
  IF enc = "UTF8" THEN bom ELSE IF enc \in UTF16 THEN SubSeq(bom, 3, 4) ELSE <<>>

\* The four bytes read first, however many came: what read returns is not
\* looked at.
LeerBom ==
  /\ pc = "bom" /\ dest_enc # "UNKNOWN"
  /\ \E n \in {k \in 0 .. 4 : k <= Len(entrada) /\ (k = 0 => entrada = <<>> \/ "read" \in Fallas)} :
     \E b \in [n + 1 .. 4 -> Basura] :
       LET bom == [k \in 1 .. 4 |-> IF k <= n THEN entrada[k] ELSE b[k]]
       IN  /\ orig_enc' = bom_to_encoding(bom)
           /\ resto' = Prefijo(orig_enc', bom)
           /\ faltan' = 4 - n /\ leidos' = n
  /\ bom_bytes' = write_bom(dest_enc)
  /\ pc' = "leer"
  /\ UNCHANGED <<entorno, salida, fallos>>

\* Mutant: the mark is written with every chunk.
Convertir_MarcaSiempre(d) ==
  LET out == bom_bytes \o ucs4_to_dest(dest_enc, d.cps)
  IN  /\ salida' = salida \o out /\ resto' = d.resto
      /\ UNCHANGED <<pc, bom_bytes, fallos>>

\* The rest of an iteration: the code points d are written, after the mark if
\* it is the first, and the bytes left over move to the front of inbuf.  What
\* write returns is not looked at.
Convertir(d) ==
  LET out == bom_bytes \o ucs4_to_dest(dest_enc, d.cps)
  IN  /\ \/ salida' = salida \o out /\ UNCHANGED fallos
         \/ /\ "write" \in Fallas
            /\ salida' = salida \o SubSeq(out, 1, Len(out) \div 2)
            /\ fallos' = fallos \cup {"write"}
      /\ bom_bytes' = <<>> /\ resto' = d.resto
      /\ UNCHANGED pc

\* An iteration.  If bom was not filled, inbuf starts with bytes never written.
Iterar ==
  /\ pc = "leer"
  /\ \E k \in 1 .. TamInbuf - Len(resto) :
       LET d == orig_to_ucs4(orig_enc, resto \o SubSeq(entrada, leidos + 1, leidos + k))
       IN  /\ leidos + k <= Len(entrada)
           /\ leidos' = leidos + k
           /\ IF faltan > 0 \/ d.pasado
              THEN pc' = "indefinido" /\ UNCHANGED <<resto, bom_bytes, salida, fallos>>
              ELSE Convertir(d)
  /\ UNCHANGED <<entorno, orig_enc, faltan>>

\* Mutant: the loop also waits for the bytes left over.
Fin_SinResto ==
  /\ pc = "leer" /\ leidos = Len(entrada) /\ resto = <<>>
  /\ pc' = "fin"
  /\ UNCHANGED <<entorno, orig_enc, faltan, leidos, resto, bom_bytes, salida, fallos>>

\* read returns 0: the input has ended, or there was no room to read into.
Fin ==
  /\ pc = "leer" /\ (leidos = Len(entrada) \/ Len(resto) = TamInbuf)
  /\ pc' = "fin"
  /\ UNCHANGED <<entorno, orig_enc, faltan, leidos, resto, bom_bytes, salida, fallos>>

\* read returns -1, which ends the loop in the same way.
ReadFalla ==
  /\ pc = "leer" /\ "read" \in Fallas
  /\ pc' = "fin" /\ fallos' = fallos \cup {"read"}
  /\ UNCHANGED <<entorno, orig_enc, faltan, leidos, resto, bom_bytes, salida>>

Next == Rechazar \/ LeerBom \/ Iterar \/ Fin \/ ReadFalla

Spec == Init /\ [][Next]_vars
\* One thread, and read answers.  Nothing makes it fail.
FairSpec == Spec /\ WF_vars(Rechazar \/ LeerBom \/ Iterar \/ Fin)
================================================================================
