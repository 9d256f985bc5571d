------------------------------ MODULE Recode57Proofs ------------------------------
(***************************************************************************)
(* recode57 writes the text in the other encoding, however the reads cut   *)
(* its input: for every text, encoding, size of inbuf and sequence of      *)
(* reads.  From one code point, through its bytes, to the whole program.   *)
(***************************************************************************)
EXTENDS Recode57Props, SequenceTheorems, WellFoundedInduction, TLAPS

\* The code points that the texts are made of.
CP == DOMAIN Formas

-----------------------------------------------------------------------------
(***************************************************************************)
(* One code point: recode57_alu.c reads it from its bytes in each encoding *)
(* and writes it as them.                                                  *)
(***************************************************************************)

\* The bytes of a code point are the standard's.
LEMMA FormasSon ==
  ASSUME NEW cp \in CP
  PROVE  EsUTF8(cp, Formas[cp].utf8) /\ EsUTF16(cp, Formas[cp].utf16)
BY SMT, FormasAssumption DEF CP

\* A byte is a number below 256.
LEMMA ByteSon ==
  ASSUME NEW x \in Byte
  PROVE  x \in Nat /\ x < 256
BY SMT DEF Byte

\* So is every element of a sequence of bytes.
LEMMA BytesSon ==
  ASSUME NEW s \in Seq(Byte), NEW n \in Nat, n >= 1, n <= Len(s)
  PROVE  s[n] \in Byte /\ s[n] \in Nat /\ s[n] < 256
<1>1. s[n] \in Byte
  BY SMT
<1>2. QED
  BY <1>1, ByteSon

\* The bytes of UTF-8 one by one.
LEMMA SiguientesUTF8 ==
  ASSUME NEW cp, NEW s, EsUTF8(cp, s)
  PROVE  /\ cp \in Nat /\ s \in Seq(Byte)
         /\ Len(s) = 1 \/ Len(s) = 2 \/ Len(s) = 3 \/ Len(s) = 4
         /\ s[1] \in Nat /\ s[1] < 256
         /\ Len(s) > 1 => s[2] \in Nat /\ 128 <= s[2] /\ s[2] < 192
         /\ Len(s) > 2 => s[3] \in Nat /\ 128 <= s[3] /\ s[3] < 192
         /\ Len(s) > 3 => s[4] \in Nat /\ 128 <= s[4] /\ s[4] < 192
<1>1. cp \in Nat /\ s \in Seq(Byte) /\ \A k \in 2 .. Len(s) : 128 <= s[k] /\ s[k] < 192
  BY SMT DEF EsUTF8
<1>2. Len(s) = 1 \/ Len(s) = 2 \/ Len(s) = 3 \/ Len(s) = 4
  BY SMT DEF EsUTF8
<1>3. s[1] \in Nat /\ s[1] < 256
  BY SMT, <1>1, <1>2, BytesSon
<1>4. Len(s) > 1 => s[2] \in Nat /\ 2 \in 2 .. Len(s)
  BY SMT, <1>1, <1>2, BytesSon
<1>5. Len(s) > 2 => s[3] \in Nat /\ 3 \in 2 .. Len(s)
  BY SMT, <1>1, <1>2, BytesSon
<1>6. Len(s) > 3 => s[4] \in Nat /\ 4 \in 2 .. Len(s)
  BY SMT, <1>1, <1>2, BytesSon
<1>7. QED
  BY <1>1, <1>2, <1>3, <1>4, <1>5, <1>6

\* In UTF-8 the first byte of a code point tells how many it has.
LEMMA PrimeroUTF8 ==
  ASSUME NEW cp, NEW s, EsUTF8(cp, s), NEW b, b # <<>>, b[1] = s[1]
  PROVE  /\ s[1] \in Nat /\ s[1] < 245
         /\ Consumidos("UTF8", b) = Len(s)
<1> DEFINE x == s[1]
           y == s[2]
           z == s[3]
           w == s[4]
           n == Len(s)
<1>1. /\ cp \in Nat /\ x \in Nat
      /\ n > 1 => y \in Nat /\ 128 <= y /\ y < 192
      /\ n > 2 => z \in Nat /\ 128 <= z /\ z < 192
      /\ n > 3 => w \in Nat /\ 128 <= w /\ w < 192
  BY SiguientesUTF8
<1>2. \/ n = 1 /\ cp < 128 /\ cp = x
      \/ n = 2 /\ 128 <= cp /\ cp < 2048 /\ cp = 64 * (x - 192) + (y - 128)
      \/ n = 3 /\ 2048 <= cp /\ cp < 65536 /\ cp = 4096 * (x - 224) + 64 * (y - 128) + (z - 128)
      \/ /\ n = 4 /\ 65536 <= cp /\ cp <= 1114111
         /\ cp = 262144 * (x - 240) + 4096 * (y - 128) + 64 * (z - 128) + (w - 128)
  BY SMT DEF EsUTF8
<1>3. Consumidos("UTF8", b) = ConsumidosUTF8(b) /\ b[1] = x
  BY SMT DEF Consumidos, UTF16, UTF32
<1> HIDE DEF x, y, z, w, n
<1>4. \/ n = 1 /\ x < 128
      \/ n = 2 /\ 192 <= x /\ x < 224
      \/ n = 3 /\ 224 <= x /\ x < 240
      \/ n = 4 /\ 240 <= x /\ x < 245
  BY SMTT(60), <1>1, <1>2
<1>5. ConsumidosUTF8(b) = n
  BY SMT, <1>1, <1>3, <1>4 DEF ConsumidosUTF8
<1>6. x \in Nat /\ x < 245
  BY SMT, <1>1, <1>4
<1>7. QED
  BY <1>3, <1>5, <1>6 DEF x, n

\* The arithmetic of the encoder, for two, three and four bytes.
LEMMA DosUTF8 ==
  ASSUME NEW cp \in Nat, NEW x \in Nat, NEW y \in Nat, 128 <= y, y < 192,
         128 <= cp, cp < 2048, cp = 64 * (x - 192) + (y - 128)
  PROVE  /\ EscritoUTF8(cp) = <<x, y>>
         /\ x % 32 = x - 192 /\ y % 64 = y - 128
<1>1. 192 <= x /\ x < 224
  BY SMT
<1>2. cp \div 64 = x - 192 /\ cp % 64 = y - 128
  BY SMT, <1>1
<1>3. EscritoUTF8(cp) = <<192 + (x - 192), 128 + (y - 128)>>
  BY SMT, <1>2 DEF EscritoUTF8
<1>4. QED
  BY SMT, <1>1, <1>3

\* The same of three,
LEMMA TresUTF8 ==
  ASSUME NEW cp \in Nat, NEW x \in Nat, NEW y \in Nat, NEW z \in Nat,
         128 <= y, y < 192, 128 <= z, z < 192,
         2048 <= cp, cp < 65536, cp = 4096 * (x - 224) + 64 * (y - 128) + (z - 128)
  PROVE  /\ EscritoUTF8(cp) = <<x, y, z>>
         /\ x % 16 = x - 224 /\ y % 64 = y - 128 /\ z % 64 = z - 128
<1>1. 224 <= x /\ x < 240
  BY SMT
<1>2. cp \div 4096 = x - 224 /\ (cp \div 64) % 64 = y - 128 /\ cp % 64 = z - 128
  BY SMT, <1>1
<1>3. EscritoUTF8(cp) = <<224 + (x - 224), 128 + (y - 128), 128 + (z - 128)>>
  BY SMT, <1>2 DEF EscritoUTF8
<1>4. QED
  BY SMT, <1>1, <1>3

\* Four bytes and the code point that they make,
CuatroBytes(cp, x, y, z, w) ==
  /\ cp \in Nat /\ x \in Nat /\ y \in Nat /\ z \in Nat /\ w \in Nat
  /\ 128 <= y /\ y < 192 /\ 128 <= z /\ z < 192 /\ 128 <= w /\ w < 192
  /\ 65536 <= cp /\ cp <= 1114111
  /\ cp = 262144 * (x - 240) + 4096 * (y - 128) + 64 * (z - 128) + (w - 128)

\* of which the same holds.
LEMMA CuatroUTF8 ==
  ASSUME NEW cp, NEW x, NEW y, NEW z, NEW w, CuatroBytes(cp, x, y, z, w)
  PROVE  /\ EscritoUTF8(cp) = <<x, y, z, w>>
         /\ x % 8 = x - 240 /\ y % 64 = y - 128 /\ z % 64 = z - 128 /\ w % 64 = w - 128
<1>0. /\ cp \in Nat /\ x \in Nat /\ y \in Nat /\ z \in Nat /\ w \in Nat
      /\ 128 <= y /\ y < 192 /\ 128 <= z /\ z < 192 /\ 128 <= w /\ w < 192
      /\ 65536 <= cp /\ cp <= 1114111
      /\ cp = 262144 * (x - 240) + 4096 * (y - 128) + 64 * (z - 128) + (w - 128)
  BY SMT DEF CuatroBytes
<1>1. 240 <= x /\ x < 245
  BY SMT, <1>0
<1>2. /\ cp \div 262144 = x - 240 /\ (cp \div 4096) % 64 = y - 128
      /\ (cp \div 64) % 64 = z - 128 /\ cp % 64 = w - 128
  BY SMT, <1>0, <1>1
<1>3. EscritoUTF8(cp) = <<240 + (x - 240), 128 + (y - 128), 128 + (z - 128), 128 + (w - 128)>>
  BY SMT, <1>0, <1>2 DEF EscritoUTF8
<1>4. QED
  BY SMT, <1>0, <1>1, <1>3

\* From its bytes in UTF-8 the code point is read, and it is written as them.
LEMMA LeeUTF8 ==
  ASSUME NEW cp, NEW s, EsUTF8(cp, s), NEW b,
         \A k \in 1 .. Len(s) : b[k] = s[k]
  PROVE  /\ Codepoint("UTF8", b, Len(s)) = cp
         /\ write_codepoint("UTF8", cp) = s
<1> DEFINE x == s[1]
           y == s[2]
           z == s[3]
           w == s[4]
           n == Len(s)
<1>1. /\ cp \in Nat /\ s \in Seq(Byte) /\ x \in Nat /\ n \in Nat /\ n > 0
      /\ n > 1 => y \in Nat /\ 128 <= y /\ y < 192
      /\ n > 2 => z \in Nat /\ 128 <= z /\ z < 192
      /\ n > 3 => w \in Nat /\ 128 <= w /\ w < 192
  BY SiguientesUTF8
<1>2. \/ n = 1 /\ cp < 128 /\ cp = x
      \/ n = 2 /\ 128 <= cp /\ cp < 2048 /\ cp = 64 * (x - 192) + (y - 128)
      \/ n = 3 /\ 2048 <= cp /\ cp < 65536 /\ cp = 4096 * (x - 224) + 64 * (y - 128) + (z - 128)
      \/ /\ n = 4 /\ 65536 <= cp /\ cp <= 1114111
         /\ cp = 262144 * (x - 240) + 4096 * (y - 128) + 64 * (z - 128) + (w - 128)
  BY SMT DEF EsUTF8
<1>3. /\ b[1] = x
      /\ n > 1 => b[2] = y
      /\ n > 2 => b[3] = z
      /\ n > 3 => b[4] = w
  BY SMT, <1>1
<1>4. /\ n = 1 => s = <<x>>
      /\ n = 2 => s = <<x, y>>
      /\ n = 3 => s = <<x, y, z>>
      /\ n = 4 => s = <<x, y, z, w>>
  BY SMT, <1>1
<1>5. Codepoint("UTF8", b, n) = CodepointUTF8(b, n)
  BY SMT DEF Codepoint, UTF16, UTF32
<1>6. write_codepoint("UTF8", cp) = EscritoUTF8(cp)
  BY SMT DEF write_codepoint, UTF16, UTF32
<1> HIDE DEF x, y, z, w, n
<1> DEFINE Bien == CodepointUTF8(b, n) = cp /\ EscritoUTF8(cp) = s
<1>7. ASSUME n = 1, cp < 128, cp = x  PROVE Bien
  BY SMT, <1>1, <1>3, <1>4, <1>7 DEF CodepointUTF8, EscritoUTF8
<1>8. ASSUME n = 2, 128 <= cp, cp < 2048, cp = 64 * (x - 192) + (y - 128)  PROVE Bien
  <2>1. y \in Nat /\ 128 <= y /\ y < 192
    BY SMT, <1>1, <1>8
  <2>2. EscritoUTF8(cp) = <<x, y>> /\ x % 32 = x - 192 /\ y % 64 = y - 128
    BY SMT, <1>1, <1>8, <2>1, DosUTF8
  <2>3. CodepointUTF8(b, n) = 64 * (x % 32) + (y % 64)
    BY SMT, <1>3, <1>8 DEF CodepointUTF8
  <2>4. CodepointUTF8(b, n) = cp
    BY SMT, <1>8, <2>2, <2>3
  <2>5. QED
    BY SMT, <1>4, <1>8, <2>2, <2>4
<1>9. ASSUME n = 3, 2048 <= cp, cp < 65536, cp = 4096 * (x - 224) + 64 * (y - 128) + (z - 128)
      PROVE Bien
  <2>1. y \in Nat /\ 128 <= y /\ y < 192 /\ z \in Nat /\ 128 <= z /\ z < 192
    BY SMT, <1>1, <1>9
  <2>2. cp \in Nat /\ x \in Nat
    BY SMT, <1>1
  <2>3. EscritoUTF8(cp) = <<x, y, z>> /\ x % 16 = x - 224 /\ y % 64 = y - 128 /\ z % 64 = z - 128
    BY SMTT(30), <1>9, <2>1, <2>2, TresUTF8
  <2>4. CodepointUTF8(b, n) = 4096 * (x % 16) + 64 * (y % 64) + (z % 64)
    BY SMT, <1>3, <1>9 DEF CodepointUTF8
  <2>5. CodepointUTF8(b, n) = cp
    BY SMT, <1>9, <2>3, <2>4
  <2>6. QED
    BY SMT, <1>4, <1>9, <2>3, <2>5
<1>10. ASSUME n = 4, 65536 <= cp, cp <= 1114111,
              cp = 262144 * (x - 240) + 4096 * (y - 128) + 64 * (z - 128) + (w - 128)
       PROVE Bien
  <2>1. /\ y \in Nat /\ 128 <= y /\ y < 192 /\ z \in Nat /\ 128 <= z /\ z < 192
        /\ w \in Nat /\ 128 <= w /\ w < 192
    BY SMT, <1>1, <1>10
  <2>2. cp \in Nat /\ x \in Nat
    BY SMT, <1>1
  <2>3. /\ EscritoUTF8(cp) = <<x, y, z, w>>
        /\ x % 8 = x - 240 /\ y % 64 = y - 128 /\ z % 64 = z - 128 /\ w % 64 = w - 128
    <3>1. CuatroBytes(cp, x, y, z, w)
      BY SMT, <1>10, <2>1, <2>2 DEF CuatroBytes
    <3>2. QED
      BY ONLY <3>1, CuatroUTF8
  <2>4. CodepointUTF8(b, n) = 262144 * (x % 8) + 4096 * (y % 64) + 64 * (z % 64) + (w % 64)
    BY SMT, <1>3, <1>10 DEF CodepointUTF8
  <2>5. CodepointUTF8(b, n) = cp
    BY SMT, <1>10, <2>3, <2>4
  <2>6. QED
    BY SMT, <1>4, <1>10, <2>3, <2>5
<1>11. Bien
  BY SMT, <1>2, <1>7, <1>8, <1>9, <1>10
<1>12. QED
  BY <1>5, <1>6, <1>11 DEF n

\* The two bytes of a unit of UTF-16.
LEMMA BytesDeUnidad ==
  ASSUME NEW enc \in UTF16, NEW h \in Nat, NEW l \in Nat, h < 256, l < 256, NEW u, u = 256 * h + l
  PROVE  /\ u \in Nat /\ u < 65536
         /\ enc = "UTF16BE" => Bytes(enc, u) = <<h, l>>
         /\ enc = "UTF16LE" => Bytes(enc, u) = <<l, h>>
<1>1. u \in Nat /\ u < 65536 /\ u % 256 = l /\ u \div 256 = h
  BY SMT
<1>2. QED
  BY SMT, <1>1 DEF Bytes, LittleEndian

\* From them the unit is read.
LEMMA UnidadDeBytes ==
  ASSUME NEW enc \in UTF16, NEW u \in Nat, u < 65536, NEW b, NEW i \in Nat,
         b[i] = Bytes(enc, u)[1], b[i + 1] = Bytes(enc, u)[2]
  PROVE  Unidad(enc, b, i) = u
<1>1. u = 256 * (u \div 256) + (u % 256) /\ u \div 256 \in Nat /\ u % 256 \in Nat
  BY SMT
<1>2. CASE enc = "UTF16BE"
  <2>1. b[i] = u \div 256 /\ b[i + 1] = u % 256
    BY SMT, <1>2 DEF Bytes, LittleEndian
  <2>2. Unidad(enc, b, i) = 256 * b[i] + b[i + 1]
    BY SMT, <1>2 DEF Unidad
  <2>3. QED
    BY SMT, <1>1, <2>1, <2>2
<1>3. CASE enc = "UTF16LE"
  <2>1. b[i] = u % 256 /\ b[i + 1] = u \div 256
    BY SMT, <1>3 DEF Bytes, LittleEndian
  <2>2. Unidad(enc, b, i) = b[i] + 256 * b[i + 1]
    BY SMT, <1>3 DEF Unidad
  <2>3. QED
    BY SMT, <1>1, <2>1, <2>2
<1>4. QED
  BY SMT, <1>2, <1>3 DEF UTF16

\* They are two.
LEMMA LenBytes ==
  ASSUME NEW enc, NEW u \in Nat, u < 65536
  PROVE  Bytes(enc, u) \in Seq(Byte) /\ Len(Bytes(enc, u)) = 2
<1>1. u % 256 \in Nat /\ u % 256 < 256 /\ u \div 256 \in Nat /\ u \div 256 < 256
  BY SMT
<1>2. u % 256 \in Byte /\ u \div 256 \in Byte
  BY SMT, <1>1 DEF Byte
<1>3. QED
  BY SMT, <1>2 DEF Bytes

\* Two pairs, one after the other.
LEMMA DosPares ==
  ASSUME NEW a, NEW b, NEW c, NEW d
  PROVE  <<a, b>> \o <<c, d>> = <<a, b, c, d>>
<1> DEFINE S == {a, b, c, d}
           x == <<a, b>> \o <<c, d>>
<1>1. a \in S /\ b \in S /\ c \in S /\ d \in S
  OBVIOUS
<1> HIDE DEF S
<1>2. <<a, b>> \in Seq(S) /\ <<c, d>> \in Seq(S) /\ <<a, b, c, d>> \in Seq(S)
  BY <1>1
<1>3. Len(<<a, b>>) = 2 /\ Len(<<c, d>>) = 2 /\ Len(<<a, b, c, d>>) = 4
  OBVIOUS
<1>4. x \in Seq(S) /\ Len(x) = 4
  BY <1>2, <1>3, ConcatProperties
<1>5. x[1] = a /\ x[2] = b /\ x[3] = c /\ x[4] = d
  BY <1>2, <1>3
<1> HIDE DEF x
<1>6. x = <<a, b, c, d>>
  BY <1>2, <1>3, <1>4, <1>5
<1>7. QED
  BY <1>6 DEF x

\* The bytes of each unit change places in little endian.
LEMMA CambiadosDos ==
  ASSUME NEW a, NEW b
  PROVE  Cambiados(<<a, b>>) = <<b, a>>
<1>1. Cambiados(<<a, b>>) = [k \in 1 .. 2 |-> <<a, b>>[IF k % 2 = 1 THEN k + 1 ELSE k - 1]]
  BY SMT DEF Cambiados
<1>2. ASSUME NEW k \in 1 .. 2
      PROVE  <<a, b>>[IF k % 2 = 1 THEN k + 1 ELSE k - 1] = <<b, a>>[k]
  BY SMT, <1>2
<1>3. QED
  BY SMT, <1>1, <1>2

\* The same of a surrogate pair.
LEMMA CambiadosCuatro ==
  ASSUME NEW a, NEW b, NEW c, NEW d
  PROVE  Cambiados(<<a, b, c, d>>) = <<b, a, d, c>>
<1>1. Cambiados(<<a, b, c, d>>)
        = [k \in 1 .. 4 |-> <<a, b, c, d>>[IF k % 2 = 1 THEN k + 1 ELSE k - 1]]
  BY SMT DEF Cambiados
<1>2. ASSUME NEW k \in 1 .. 4
      PROVE  <<a, b, c, d>>[IF k % 2 = 1 THEN k + 1 ELSE k - 1] = <<b, a, d, c>>[k]
  <2>1. k = 1 \/ k = 2 \/ k = 3 \/ k = 4
    BY SMT, <1>2
  <2>2. QED
    BY SMT, <2>1
<1>3. QED
  BY SMT, <1>1, <1>2

\* A code point of one unit, and one of two, which are u and v.
EsUnidad(cp) == cp \in Nat /\ cp < 65536 /\ (cp < 55296 \/ 57344 <= cp)
SonPareja(u, v, cp) ==
  /\ u \in Nat /\ v \in Nat /\ 55296 <= u /\ u < 56320 /\ 56320 <= v /\ v < 57344
  /\ cp = 65536 + 1024 * (u - 55296) + (v - 56320)

\* The code reads and writes the first as one unit.
LEMMA Unidades ==
  ASSUME NEW cp, EsUnidad(cp), NEW enc \in UTF16
  PROVE  /\ cp \in Nat /\ Bytes(enc, cp) \in Seq(Byte) /\ Len(Bytes(enc, cp)) = 2
         /\ EscritoUTF16(enc, cp) = Bytes(enc, cp)
         /\ \A b : b[1] = Bytes(enc, cp)[1] /\ b[2] = Bytes(enc, cp)[2] =>
              ~ Subrogado(enc, b) /\ CodepointUTF16(enc, b, 2) = cp
<1>1. cp \in Nat /\ cp < 65536 /\ cp <= 65535 /\ ~ (cp \div 1024 = 54)
  BY SMT DEF EsUnidad
<1>2. EscritoUTF16(enc, cp) = Bytes(enc, cp)
  BY SMT, <1>1 DEF EscritoUTF16
<1>3. Bytes(enc, cp) \in Seq(Byte) /\ Len(Bytes(enc, cp)) = 2
  BY SMT, <1>1, LenBytes
<1>4. ASSUME NEW b, b[1] = Bytes(enc, cp)[1], b[2] = Bytes(enc, cp)[2]
      PROVE  ~ Subrogado(enc, b) /\ CodepointUTF16(enc, b, 2) = cp
  <2>1. b[1 + 1] = Bytes(enc, cp)[2]
    BY SMT, <1>4
  <2>2. Unidad(enc, b, 1) = cp
    BY SMT, <1>1, <1>4, <2>1, UnidadDeBytes
  <2>3. QED
    BY SMT, <1>1, <2>2 DEF Subrogado, CodepointUTF16
<1>5. QED
  BY SMT, <1>1, <1>2, <1>3, <1>4

\* And the second as two.
LEMMA Parejas ==
  ASSUME NEW cp, NEW u, NEW v, SonPareja(u, v, cp), NEW enc \in UTF16
  PROVE  LET f == Bytes(enc, u) \o Bytes(enc, v)
         IN  /\ cp \in Nat /\ f \in Seq(Byte) /\ Len(f) = 4
             /\ EscritoUTF16(enc, cp) = f
             /\ \A b : b[1] = f[1] /\ b[2] = f[2] => Subrogado(enc, b)
             /\ \A b : b[1] = f[1] /\ b[2] = f[2] /\ b[3] = f[3] /\ b[4] = f[4] =>
                  CodepointUTF16(enc, b, 4) = cp
<1> DEFINE f == Bytes(enc, u) \o Bytes(enc, v)
<1>1. /\ u \in Nat /\ v \in Nat /\ 55296 <= u /\ u < 56320 /\ 56320 <= v /\ v < 57344
      /\ cp = 65536 + 1024 * (u - 55296) + (v - 56320)
  BY SMT DEF SonPareja
<1>2. /\ u < 65536 /\ v < 65536 /\ cp \in Nat /\ ~ (cp <= 65535)
      /\ u \div 1024 = 54 /\ u % 1024 = u - 55296 /\ v % 1024 = v - 56320
  BY SMT, <1>1
<1>3. (cp - 65536) \div 1024 = u - 55296 /\ (cp - 65536) % 1024 = v - 56320
  BY SMT, <1>1
<1> DEFINE s == Bytes(enc, u)
           t == Bytes(enc, v)
           x == 55296 + ((cp - 65536) \div 1024)
           y == 56320 + ((cp - 65536) % 1024)
<1>4. s \in Seq(Byte) /\ Len(s) = 2 /\ t \in Seq(Byte) /\ Len(t) = 2
  BY SMT, <1>1, <1>2, LenBytes
<1>a. f = s \o t
  OBVIOUS
<1> HIDE DEF f
<1>5. /\ f \in Seq(Byte) /\ Len(f) = 4
      /\ f[1] = s[1] /\ f[2] = s[2] /\ f[3] = t[1] /\ f[4] = t[2]
  <2>0. f = s \o t
    BY <1>a
  <2> HIDE DEF s, t
  <2>1. /\ s \o t \in Seq(Byte) /\ Len(s \o t) = Len(s) + Len(t)
        /\ \A i \in 1 .. Len(s) + Len(t) : (s \o t)[i] = IF i <= Len(s) THEN s[i] ELSE t[i - Len(s)]
    BY <1>4, ConcatProperties
  <2>2. Len(s \o t) = 4 /\ (s \o t)[1] = s[1] /\ (s \o t)[2] = s[2] /\ (s \o t)[3] = t[1]
        /\ (s \o t)[4] = t[2]
    BY SMT, <1>4, <2>1
  <2>3. QED
    BY <2>0, <2>1, <2>2
<1>6. EscritoUTF16(enc, cp) = f
  <2>1. EscritoUTF16(enc, cp)
          = IF cp <= 65535 THEN Bytes(enc, cp) ELSE Bytes(enc, x) \o Bytes(enc, y)
    BY SMT DEF EscritoUTF16
  <2>2. x = u /\ y = v
    BY SMT, <1>1, <1>3
  <2> HIDE DEF x, y
  <2>3. EscritoUTF16(enc, cp) = Bytes(enc, x) \o Bytes(enc, y)
    BY SMT, <1>2, <2>1
  <2>4. QED
    BY Zenon, <2>2, <2>3 DEF f
<1>7. ASSUME NEW b, b[1] = f[1], b[2] = f[2]
      PROVE  Unidad(enc, b, 1) = u /\ Subrogado(enc, b)
  <2>1. b[1] = Bytes(enc, u)[1] /\ b[1 + 1] = Bytes(enc, u)[2]
    BY SMT, <1>5, <1>7
  <2>2. Unidad(enc, b, 1) = u
    <3>1. u \in Nat /\ u < 65536 /\ 1 \in Nat
      BY SMT, <1>1, <1>2
    <3>2. QED
      BY ONLY SMT, enc \in UTF16, <2>1, <3>1, UnidadDeBytes
  <2>3. QED
    BY SMT, <1>2, <2>2 DEF Subrogado
<1>8. ASSUME NEW b, b[1] = f[1], b[2] = f[2], b[3] = f[3], b[4] = f[4]
      PROVE  CodepointUTF16(enc, b, 4) = cp
  <2>1. b[3] = Bytes(enc, v)[1] /\ b[3 + 1] = Bytes(enc, v)[2]
    BY SMT, <1>5, <1>8
  <2>2. Unidad(enc, b, 3) = v
    BY SMT, <1>1, <1>2, <2>1, UnidadDeBytes
  <2>3. Unidad(enc, b, 1) = u
    BY <1>7, <1>8
  <2>4. CodepointUTF16(enc, b, 4) = 1024 * (u % 1024) + (v % 1024) + 65536
    BY SMT, <2>2, <2>3 DEF CodepointUTF16
  <2>5. u % 1024 = u - 55296 /\ v % 1024 = v - 56320
    BY <1>2
  <2>6. cp = 1024 * (u - 55296) + (v - 56320) + 65536
    BY SMT, <1>1
  <2>7. QED
    BY SMT, <2>4, <2>5, <2>6
<1>9. cp \in Nat
  BY <1>2
<1>10. QED
  BY <1>5, <1>6, <1>7, <1>8, <1>9 DEF f

\* In UTF-16 a code point is a unit, or two that are surrogates.
LEMMA FormaUTF16 ==
  ASSUME NEW enc \in UTF16, NEW cp \in CP
  PROVE  \/ EsUnidad(cp) /\ Forma(enc, cp) = Bytes(enc, cp)
         \/ \E u, v : SonPareja(u, v, cp) /\ Forma(enc, cp) = Bytes(enc, u) \o Bytes(enc, v)
<1> DEFINE s == Formas[cp].utf16
           a == s[1]
           b == s[2]
           c == s[3]
           d == s[4]
           u == 256 * a + b
           v == 256 * c + d
<1>1. EsUTF16(cp, s)
  BY FormasSon
<1> HIDE DEF s
<1>2. cp \in Nat /\ s \in Seq(Byte) /\ (Len(s) = 2 \/ Len(s) = 4)
  BY SMT, <1>1 DEF EsUTF16
<1>3. /\ a \in Nat /\ a < 256 /\ b \in Nat /\ b < 256
      /\ Len(s) = 4 => c \in Nat /\ c < 256 /\ d \in Nat /\ d < 256
  BY SMT, <1>2, BytesSon
<1>4. /\ Len(s) = 2 => s = <<a, b>>
      /\ Len(s) = 4 => s = <<a, b, c, d>>
  BY SMT, <1>2
<1>5. /\ enc = "UTF16BE" => Forma(enc, cp) = s
      /\ enc = "UTF16LE" => Forma(enc, cp) = Cambiados(s)
      /\ enc = "UTF16BE" \/ enc = "UTF16LE"
  BY SMT DEF Forma, s, UTF16
<1>6. CASE Len(s) = 2
  <2>1. cp = u /\ (cp < 55296 \/ 57344 <= cp)
    BY SMT, <1>1, <1>6 DEF EsUTF16
  <2>2. a \in Nat /\ a < 256 /\ b \in Nat /\ b < 256 /\ s = <<a, b>>
    BY <1>3, <1>4, <1>6
  <2> HIDE DEF a, b
  <2>3. Cambiados(s) = <<b, a>>
    BY <2>2, CambiadosDos
  <2>4. /\ cp < 65536
        /\ enc = "UTF16BE" => Bytes(enc, cp) = <<a, b>>
        /\ enc = "UTF16LE" => Bytes(enc, cp) = <<b, a>>
    BY SMT, <2>1, <2>2, BytesDeUnidad
  <2>5. Forma(enc, cp) = Bytes(enc, cp)
    BY <1>5, <2>2, <2>3, <2>4
  <2>6. EsUnidad(cp)
    BY SMT, <1>2, <2>1, <2>4 DEF EsUnidad
  <2>7. QED
    BY <2>5, <2>6
<1>7. CASE Len(s) = 4
  <2>1. /\ 55296 <= u /\ u < 56320 /\ 56320 <= v /\ v < 57344
        /\ cp = 65536 + 1024 * (u - 55296) + (v - 56320)
    BY SMT, <1>1, <1>7 DEF EsUTF16
  <2>2. /\ a \in Nat /\ a < 256 /\ b \in Nat /\ b < 256
        /\ c \in Nat /\ c < 256 /\ d \in Nat /\ d < 256 /\ s = <<a, b, c, d>>
    BY <1>3, <1>4, <1>7
  <2> HIDE DEF a, b, c, d
  <2>3. Cambiados(s) = <<b, a, d, c>>
    BY <2>2, CambiadosCuatro
  <2>4. /\ u \in Nat
        /\ enc = "UTF16BE" => Bytes(enc, u) = <<a, b>>
        /\ enc = "UTF16LE" => Bytes(enc, u) = <<b, a>>
    BY SMT, <2>2, BytesDeUnidad
  <2>5. /\ v \in Nat
        /\ enc = "UTF16BE" => Bytes(enc, v) = <<c, d>>
        /\ enc = "UTF16LE" => Bytes(enc, v) = <<d, c>>
    BY SMT, <2>2, BytesDeUnidad
  <2> HIDE DEF u, v
  <2>6. <<a, b>> \o <<c, d>> = <<a, b, c, d>> /\ <<b, a>> \o <<d, c>> = <<b, a, d, c>>
    BY DosPares
  <2>7. Forma(enc, cp) = Bytes(enc, u) \o Bytes(enc, v)
    BY <1>5, <2>2, <2>3, <2>4, <2>5, <2>6
  <2>8. SonPareja(u, v, cp)
    BY SMT, <2>1, <2>4, <2>5 DEF SonPareja
  <2>9. QED
    BY <2>7, <2>8
<1>8. QED
  BY <1>2, <1>6, <1>7

\* So it is read from its bytes, and written as them.
LEMMA LeeUTF16 ==
  ASSUME NEW enc \in UTF16, NEW cp \in CP, NEW b \in Seq(Byte), Len(b) >= Len(Forma(enc, cp)),
         \A k \in 1 .. Len(Forma(enc, cp)) : b[k] = Forma(enc, cp)[k]
  PROVE  /\ Consumidos(enc, b) = Len(Forma(enc, cp))
         /\ Codepoint(enc, b, Len(Forma(enc, cp))) = cp
<1> DEFINE f == Forma(enc, cp)
<1>0. /\ Consumidos(enc, b) = ConsumidosUTF16(enc, b)
      /\ Codepoint(enc, b, Len(f)) = CodepointUTF16(enc, b, Len(f))
  BY SMT DEF Consumidos, Codepoint, UTF16, UTF32
<1>1. CASE EsUnidad(cp) /\ f = Bytes(enc, cp)
  <2>1. /\ f \in Seq(Byte) /\ Len(f) = 2
        /\ b[1] = f[1] /\ b[2] = f[2] => ~ Subrogado(enc, b) /\ CodepointUTF16(enc, b, 2) = cp
    BY <1>1, Unidades
  <2>2. b[1] = f[1] /\ b[2] = f[2] /\ Len(b) \in Nat /\ Len(b) >= 2
    <3> HIDE DEF f
    <3>1. QED
      BY SMT, <2>1 DEF f
  <2>3. ConsumidosUTF16(enc, b) = 2
    BY SMT, <2>1, <2>2 DEF ConsumidosUTF16
  <2>4. QED
    BY <1>0, <2>1, <2>2, <2>3
<1>2. ASSUME NEW u, NEW v, SonPareja(u, v, cp), f = Bytes(enc, u) \o Bytes(enc, v)
      PROVE  /\ Len(f) = 4
             /\ ConsumidosUTF16(enc, b) = 4
             /\ CodepointUTF16(enc, b, 4) = cp
  <2>1. /\ f \in Seq(Byte) /\ Len(f) = 4
        /\ b[1] = f[1] /\ b[2] = f[2] => Subrogado(enc, b)
        /\ b[1] = f[1] /\ b[2] = f[2] /\ b[3] = f[3] /\ b[4] = f[4] =>
             CodepointUTF16(enc, b, 4) = cp
    <3> DEFINE g == Bytes(enc, u) \o Bytes(enc, v)
    <3>1. /\ g \in Seq(Byte) /\ Len(g) = 4
          /\ \A d : d[1] = g[1] /\ d[2] = g[2] => Subrogado(enc, d)
          /\ \A d : d[1] = g[1] /\ d[2] = g[2] /\ d[3] = g[3] /\ d[4] = g[4] =>
               CodepointUTF16(enc, d, 4) = cp
      BY SMTT(60), <1>2, Parejas
    <3>2. f = g
      BY <1>2
    <3> HIDE DEF f, g
    <3>3. QED
      BY <3>1, <3>2
  <2>2. b[1] = f[1] /\ b[2] = f[2] /\ b[3] = f[3] /\ b[4] = f[4] /\ Len(b) \in Nat /\ Len(b) >= 4
    <3> HIDE DEF f
    <3>1. QED
      BY SMT, <2>1 DEF f
  <2>3. ConsumidosUTF16(enc, b) = 4
    BY SMT, <2>1, <2>2 DEF ConsumidosUTF16
  <2>4. QED
    BY <2>1, <2>2, <2>3
<1>3. \/ EsUnidad(cp) /\ f = Bytes(enc, cp)
      \/ \E u, v : SonPareja(u, v, cp) /\ f = Bytes(enc, u) \o Bytes(enc, v)
  BY FormaUTF16
<1>4. QED
  BY <1>0, <1>1, <1>2, <1>3

\* In UTF-16 it is written as its bytes.
LEMMA EscribeUTF16 ==
  ASSUME NEW enc \in UTF16, NEW cp \in CP
  PROVE  /\ cp \in Nat /\ Forma(enc, cp) \in Seq(Byte)
         /\ Len(Forma(enc, cp)) = 2 \/ Len(Forma(enc, cp)) = 4
         /\ write_codepoint(enc, cp) = Forma(enc, cp)
<1>1. write_codepoint(enc, cp) = EscritoUTF16(enc, cp)
  BY SMT DEF write_codepoint, UTF16, UTF32
<1>2. CASE EsUnidad(cp) /\ Forma(enc, cp) = Bytes(enc, cp)
  BY <1>1, <1>2, Unidades
<1>3. ASSUME NEW u, NEW v, SonPareja(u, v, cp), Forma(enc, cp) = Bytes(enc, u) \o Bytes(enc, v)
      PROVE  /\ cp \in Nat /\ Forma(enc, cp) \in Seq(Byte) /\ Len(Forma(enc, cp)) = 4
             /\ EscritoUTF16(enc, cp) = Forma(enc, cp)
  BY <1>3, Parejas
<1>4. QED
  BY <1>1, <1>2, <1>3, FormaUTF16

\* A part of them is waited for.
LEMMA EsperaUTF16 ==
  ASSUME NEW enc \in UTF16, NEW cp \in CP, NEW b \in Seq(Byte), Len(b) < Len(Forma(enc, cp)),
         \A k \in 1 .. Len(b) : b[k] = Forma(enc, cp)[k]
  PROVE  Consumidos(enc, b) = 0
<1> DEFINE f == Forma(enc, cp)
<1>0. Consumidos(enc, b) = ConsumidosUTF16(enc, b) /\ Len(b) \in Nat
  BY SMT DEF Consumidos, UTF16, UTF32
<1>1. CASE Len(b) < 2
  BY SMT, <1>0, <1>1 DEF ConsumidosUTF16
<1>2. CASE Len(b) >= 2
  <2>1. b[1] = f[1] /\ b[2] = f[2]
    <3> HIDE DEF f
    <3>1. QED
      BY SMT, <1>2 DEF f
  <2>2. CASE EsUnidad(cp) /\ f = Bytes(enc, cp)
    <3>1. Len(f) = 2
      BY <2>2, Unidades
    <3>2. QED
      BY SMT, <1>0, <1>2, <3>1
  <2>3. ASSUME NEW u, NEW v, SonPareja(u, v, cp), f = Bytes(enc, u) \o Bytes(enc, v)
        PROVE  ConsumidosUTF16(enc, b) = 0
    <3>1. Len(f) = 4 /\ (b[1] = f[1] /\ b[2] = f[2] => Subrogado(enc, b))
      BY SMTT(60), <2>3, Parejas
    <3>2. Len(b) < 4 /\ Subrogado(enc, b)
      BY <2>1, <3>1
    <3>3. QED
      BY SMT, <1>0, <1>2, <3>2 DEF ConsumidosUTF16
  <2>4. \/ EsUnidad(cp) /\ f = Bytes(enc, cp)
        \/ \E u, v : SonPareja(u, v, cp) /\ f = Bytes(enc, u) \o Bytes(enc, v)
    BY FormaUTF16
  <2>5. QED
    BY <1>0, <2>2, <2>3, <2>4
<1>3. QED
  BY SMT, <1>0, <1>1, <1>2

\* In UTF-32 a code point is a number of four bytes, the highest of them zero.
SonBytes(enc, cp, a, m, z) ==
  /\ cp = 65536 * a + 256 * m + z
  /\ Forma(enc, cp) = IF enc = "UTF32BE" THEN <<0, a, m, z>> ELSE <<z, m, a, 0>>
  /\ EscritoUTF32(enc, cp) = Forma(enc, cp)

\* In UTF-32 it has four bytes, the last but one of which are its digits in base 256.
LEMMA FormaUTF32 ==
  ASSUME NEW enc \in UTF32, NEW cp \in CP
  PROVE  \E a, m, z \in Byte : SonBytes(enc, cp, a, m, z)
<1> DEFINE a == cp \div 65536
           m == (cp \div 256) % 256
           z == cp % 256
<1>1. cp \in Nat /\ cp <= 1114111
  <2>1. EsUTF8(cp, Formas[cp].utf8)
    BY FormasSon
  <2>2. QED
    BY SMT, <2>1 DEF EsUTF8
<1>2. /\ a \in Nat /\ a < 256 /\ m \in Nat /\ m < 256 /\ z \in Nat /\ z < 256
      /\ cp = 65536 * a + 256 * m + z
  BY SMT, <1>1
<1>3. /\ enc = "UTF32BE" => Forma(enc, cp) = <<0, a, m, z>>
      /\ enc # "UTF32BE" => Forma(enc, cp) = Reverse(<<0, a, m, z>>) /\ enc = "UTF32LE"
  BY SMT DEF Forma, UTF32
<1>4. EscritoUTF32(enc, cp) = IF enc = "UTF32LE" THEN <<z, m, a, 0>> ELSE <<0, a, m, z>>
  BY SMT DEF EscritoUTF32
<1> HIDE DEF a, m, z
<1>5. Reverse(<<0, a, m, z>>) = <<z, m, a, 0>>
  BY SMT DEF Reverse
<1>6. a \in Byte /\ m \in Byte /\ z \in Byte
  BY SMT, <1>2 DEF Byte
<1>7. /\ Forma(enc, cp) = IF enc = "UTF32BE" THEN <<0, a, m, z>> ELSE <<z, m, a, 0>>
      /\ EscritoUTF32(enc, cp) = Forma(enc, cp)
  BY Zenon, <1>3, <1>4, <1>5 DEF UTF32
<1>8. SonBytes(enc, cp, a, m, z)
  BY SMT, <1>2, <1>7 DEF SonBytes
<1>9. QED
  BY <1>6, <1>8

\* Its bytes, as it is written.
LEMMA EscribeUTF32 ==
  ASSUME NEW enc \in UTF32, NEW cp \in CP
  PROVE  /\ cp \in Nat /\ Forma(enc, cp) \in Seq(Byte) /\ Len(Forma(enc, cp)) = 4
         /\ write_codepoint(enc, cp) = Forma(enc, cp)
<1>0. PICK a \in Byte, m \in Byte, z \in Byte : SonBytes(enc, cp, a, m, z)
  BY FormaUTF32
<1>1. /\ cp = 65536 * a + 256 * m + z
      /\ Forma(enc, cp) = IF enc = "UTF32BE" THEN <<0, a, m, z>> ELSE <<z, m, a, 0>>
      /\ EscritoUTF32(enc, cp) = Forma(enc, cp)
  BY SMT, <1>0 DEF SonBytes
<1>2. cp \in Nat
  BY SMT, <1>1, ByteSon
<1>3. 0 \in Byte
  BY SMT DEF Byte
<1>4. Forma(enc, cp) \in Seq(Byte) /\ Len(Forma(enc, cp)) = 4
  <2>1. <<0, a, m, z>> \in Seq(Byte) /\ <<z, m, a, 0>> \in Seq(Byte)
    BY <1>3
  <2>2. Len(<<0, a, m, z>>) = 4 /\ Len(<<z, m, a, 0>>) = 4
    BY SMT
  <2>3. Forma(enc, cp) = <<0, a, m, z>> \/ Forma(enc, cp) = <<z, m, a, 0>>
    BY SMT, <1>1
  <2>4. QED
    BY <2>1, <2>2, <2>3
<1>5. write_codepoint(enc, cp) = EscritoUTF32(enc, cp)
  BY DEF write_codepoint
<1>6. QED
  BY <1>1, <1>2, <1>4, <1>5

\* And as it is read.
LEMMA LeeUTF32 ==
  ASSUME NEW enc \in UTF32, NEW cp \in CP, NEW b \in Seq(Byte), Len(b) >= 4,
         \A k \in 1 .. 4 : b[k] = Forma(enc, cp)[k]
  PROVE  Consumidos(enc, b) = 4 /\ Codepoint(enc, b, 4) = cp
<1>0. PICK a \in Byte, m \in Byte, z \in Byte : SonBytes(enc, cp, a, m, z)
  BY FormaUTF32
<1>1. /\ cp = 65536 * a + 256 * m + z
      /\ Forma(enc, cp) = IF enc = "UTF32BE" THEN <<0, a, m, z>> ELSE <<z, m, a, 0>>
  BY SMT, <1>0 DEF SonBytes
<1>2. a \in Nat /\ m \in Nat /\ z \in Nat
  BY ByteSon
<1>3. Consumidos(enc, b) = 4
  BY SMT DEF Consumidos, ConsumidosUTF32
<1>4. Codepoint(enc, b, 4) = CodepointUTF32(enc, b)
  BY DEF Codepoint
<1>5. CASE enc = "UTF32BE"
  <2>1. b[1] = 0 /\ b[2] = a /\ b[3] = m /\ b[4] = z
    BY SMT, <1>1, <1>5
  <2>2. CodepointUTF32(enc, b) = 16777216 * b[1] + 65536 * b[2] + 256 * b[3] + b[4]
    BY SMT, <1>5 DEF CodepointUTF32
  <2>3. QED
    BY SMT, <1>1, <1>2, <1>3, <1>4, <2>1, <2>2
<1>6. CASE enc # "UTF32BE"
  <2>1. b[1] = z /\ b[2] = m /\ b[3] = a /\ b[4] = 0
    BY SMT, <1>1, <1>6
  <2>2. CodepointUTF32(enc, b) = b[1] + 256 * b[2] + 65536 * b[3] + 16777216 * b[4]
    BY SMT, <1>6 DEF CodepointUTF32
  <2>3. QED
    BY SMT, <1>1, <1>2, <1>3, <1>4, <2>1, <2>2
<1>7. QED
  BY <1>5, <1>6

\* The three together: a code point is written as its bytes,
THEOREM Escribe ==
  ASSUME NEW enc \in Encodings, NEW cp \in CP
  PROVE  /\ cp \in Nat /\ Forma(enc, cp) \in Seq(Byte)
         /\ Len(Forma(enc, cp)) \in Nat /\ 1 <= Len(Forma(enc, cp)) /\ Len(Forma(enc, cp)) <= 4
         /\ write_codepoint(enc, cp) = Forma(enc, cp)
<1>1. CASE enc = "UTF8"
  <2> DEFINE s == Formas[cp].utf8
  <2>1. Forma(enc, cp) = s
    BY <1>1 DEF Forma
  <2>2. EsUTF8(cp, s)
    BY FormasSon
  <2> HIDE DEF s
  <2>3. write_codepoint("UTF8", cp) = s
    BY <2>2, LeeUTF8
  <2>4. /\ cp \in Nat /\ s \in Seq(Byte)
        /\ Len(s) = 1 \/ Len(s) = 2 \/ Len(s) = 3 \/ Len(s) = 4
    BY <2>2, SiguientesUTF8
  <2> DEFINE n == Len(s)
  <2>5. n = 1 \/ n = 2 \/ n = 3 \/ n = 4
    BY <2>4
  <2> HIDE DEF n
  <2>6. n \in Nat /\ 1 <= n /\ n <= 4
    BY SMT, <2>5
  <2>7. QED
    BY <1>1, <2>1, <2>3, <2>4, <2>6 DEF n
<1>2. CASE enc \in UTF16
  <2>1. /\ cp \in Nat /\ Forma(enc, cp) \in Seq(Byte)
        /\ Len(Forma(enc, cp)) = 2 \/ Len(Forma(enc, cp)) = 4
        /\ write_codepoint(enc, cp) = Forma(enc, cp)
    BY <1>2, EscribeUTF16
  <2> DEFINE n == Len(Forma(enc, cp))
  <2>2. n = 2 \/ n = 4
    BY <2>1
  <2> HIDE DEF n
  <2>3. n \in Nat /\ 1 <= n /\ n <= 4
    BY SMT, <2>2
  <2>4. QED
    BY <2>1, <2>3 DEF n
<1>3. CASE enc \in UTF32
  <2>1. /\ cp \in Nat /\ Forma(enc, cp) \in Seq(Byte) /\ Len(Forma(enc, cp)) = 4
        /\ write_codepoint(enc, cp) = Forma(enc, cp)
    BY <1>3, EscribeUTF32
  <2>2. QED
    BY <2>1
<1>4. QED
  BY <1>1, <1>2, <1>3 DEF Encodings

\* it is read from them, whatever follows,
THEOREM Lee ==
  ASSUME NEW enc \in Encodings, NEW cp \in CP, NEW b \in Seq(Byte), Len(Forma(enc, cp)) <= Len(b),
         \A k \in 1 .. Len(Forma(enc, cp)) : b[k] = Forma(enc, cp)[k]
  PROVE  /\ Consumidos(enc, b) = Len(Forma(enc, cp))
         /\ Codepoint(enc, b, Len(Forma(enc, cp))) = cp
<1>1. CASE enc = "UTF8"
  <2> DEFINE s == Formas[cp].utf8
  <2>1. Forma(enc, cp) = s
    BY <1>1 DEF Forma
  <2>2. EsUTF8(cp, s)
    BY FormasSon
  <2> HIDE DEF s
  <2>3. Codepoint("UTF8", b, Len(s)) = cp
    BY <2>1, <2>2, LeeUTF8
  <2>4. Len(s) \in Nat /\ 1 <= Len(s)
    BY <2>1, Escribe
  <2>5. b # <<>> /\ b[1] = s[1]
    BY SMT, <2>1, <2>4
  <2>6. Consumidos("UTF8", b) = Len(s)
    BY <2>2, <2>5, PrimeroUTF8
  <2>7. QED
    BY <1>1, <2>1, <2>3, <2>6
<1>2. CASE enc \in UTF16
  <2>1. Len(b) >= Len(Forma(enc, cp))
    BY SMT, Escribe
  <2>2. QED
    BY <1>2, <2>1, LeeUTF16
<1>3. CASE enc \in UTF32
  <2>1. Len(Forma(enc, cp)) = 4
    BY <1>3, EscribeUTF32
  <2>2. Len(b) >= 4 /\ \A k \in 1 .. 4 : b[k] = Forma(enc, cp)[k]
    BY SMT, <2>1
  <2>3. QED
    BY <1>3, <2>1, <2>2, LeeUTF32
<1>4. QED
  BY <1>1, <1>2, <1>3 DEF Encodings

\* and from a part of them nothing is, but in UTF-8 they are all counted.
LEMMA Espera ==
  ASSUME NEW enc \in Encodings, NEW cp \in CP, NEW b \in Seq(Byte), Len(b) < Len(Forma(enc, cp)),
         \A k \in 1 .. Len(b) : b[k] = Forma(enc, cp)[k]
  PROVE  Consumidos(enc, b) = IF enc = "UTF8" /\ b # <<>> THEN Len(Forma(enc, cp)) ELSE 0
<1>1. CASE enc = "UTF8"
  <2> DEFINE s == Formas[cp].utf8
  <2>1. Forma(enc, cp) = s
    BY <1>1 DEF Forma
  <2>2. EsUTF8(cp, s)
    BY FormasSon
  <2> HIDE DEF s
  <2>3. ASSUME b # <<>>  PROVE Consumidos("UTF8", b) = Len(s)
    <3>1. b[1] = s[1]
      BY SMT, <2>1, <2>3
    <3>2. QED
      BY <2>2, <2>3, <3>1, PrimeroUTF8
  <2>4. b = <<>> => Consumidos("UTF8", b) = 0
    BY SMT DEF Consumidos, ConsumidosUTF8, UTF16, UTF32
  <2>5. QED
    BY <1>1, <2>1, <2>3, <2>4
<1>2. CASE enc \in UTF16
  <2>1. enc # "UTF8"
    BY <1>2 DEF UTF16
  <2>2. QED
    BY <1>2, <2>1, EsperaUTF16
<1>3. CASE enc \in UTF32
  <2>1. enc # "UTF8" /\ Len(b) \in Nat /\ Len(b) < 4
    BY SMT, <1>3, EscribeUTF32 DEF UTF32
  <2>2. Consumidos(enc, b) = 0
    BY SMT, <1>3, <2>1 DEF Consumidos, ConsumidosUTF32
  <2>3. QED
    BY <2>1, <2>2
<1>4. QED
  BY <1>1, <1>2, <1>3 DEF Encodings

\* The mark is written as it should be.
LEMMA MarcaEscrita ==
  ASSUME NEW enc \in Encodings
  PROVE  write_bom(enc) = Marca(enc) /\ Marca(enc) \in Seq(Byte) /\ Len(Marca(enc)) <= 4
<1>1. 0 \in Byte /\ 254 \in Byte /\ 255 \in Byte
  BY SMT DEF Byte
<1>2. QED
  BY SMT, <1>1 DEF write_bom, Marca, Encodings, UTF16, UTF32

-----------------------------------------------------------------------------
(***************************************************************************)
(* A file: the bytes of the code points of a text, one after another.      *)
(***************************************************************************)

\* A non-empty set of numbers has a least one.
LEMMA Minimo ==
  ASSUME NEW T, T \subseteq Nat, T # {}
  PROVE  \E x \in T : \A y \in T : x <= y
<1> DEFINE R == OpToRel(<, Nat)
<1>1. \A x, y \in Nat : <<x, y>> \in R <=> x < y
  BY DEF OpToRel
<1>2. IsWellFoundedOn(R, Nat)
  BY NatLessThanWellFounded
<1> HIDE DEF R
<1>3. PICK x \in T : \A y \in T : ~ (<<y, x>> \in R)
  BY <1>2, WFMin
<1>4. ASSUME NEW y \in T  PROVE x <= y
  <2>1. x \in Nat /\ y \in Nat
    OBVIOUS
  <2>2. ~ (y < x)
    BY <1>1, <1>3, <2>1
  <2>3. QED
    BY <2>1, <2>2
<1>5. QED
  BY <1>4

\* Of the first n of the sequences q, g has at k the first k one after another.
Pegadas(g, q, n) == \A k \in 1 .. n : g[k] = IF k = 1 THEN q[k] ELSE g[k - 1] \o q[k]

\* There is only one such g,
LEMMA UnicaPegadas ==
  ASSUME NEW q, NEW n \in Nat, NEW g, NEW h, Pegadas(g, q, n), Pegadas(h, q, n)
  PROVE  \A k \in 1 .. n : g[k] = h[k]
<1> DEFINE T == {k \in 1 .. n : g[k] # h[k]}
<1> SUFFICES ASSUME T # {} PROVE FALSE
  OBVIOUS
<1>1. T \subseteq Nat
  OBVIOUS
<1> HIDE DEF T
<1>2. PICK m \in T : \A k \in T : m <= k
  BY <1>1, Minimo
<1>3. m \in 1 .. n /\ g[m] # h[m]
  BY <1>2 DEF T
<1>4. CASE m = 1
  BY <1>3, <1>4 DEF Pegadas
<1>5. CASE m # 1
  <2>1. m - 1 \in 1 .. n /\ ~ (m <= m - 1)
    BY <1>3, <1>5
  <2>2. g[m - 1] = h[m - 1]
    BY <1>2, <2>1 DEF T
  <2>3. QED
    BY <1>3, <1>5, <2>2 DEF Pegadas
<1>6. QED
  BY <1>4, <1>5

\* and there is one.
LEMMA HayPegadas ==
  ASSUME NEW R, NEW N \in Nat, NEW q \in [1 .. N -> Seq(R)]
  PROVE  \A n \in 1 .. N : \E g \in [1 .. n -> Seq(R)] : Pegadas(g, q, n)
<1> DEFINE T == {n \in 1 .. N : ~ \E g \in [1 .. n -> Seq(R)] : Pegadas(g, q, n)}
<1> SUFFICES ASSUME T # {} PROVE FALSE
  OBVIOUS
<1>0. T \subseteq Nat
  OBVIOUS
<1> HIDE DEF T
<1>1. PICK m \in T : \A n \in T : m <= n
  BY <1>0, Minimo
<1>2. CASE m = 1
  <2> DEFINE g == [k \in 1 .. 1 |-> q[1]]
  <2>1. g \in [1 .. m -> Seq(R)] /\ Pegadas(g, q, m)
    BY <1>1, <1>2 DEF Pegadas, T
  <2>2. QED
    BY <1>1, <2>1 DEF T
<1>3. CASE m > 1
  <2>0. m \in 1 .. N
    BY <1>1 DEF T
  <2>1. m - 1 \in 1 .. N /\ m - 1 \notin T
    BY <1>1, <1>3, <2>0
  <2>2. PICK h \in [1 .. m - 1 -> Seq(R)] : Pegadas(h, q, m - 1)
    BY <2>1 DEF T
  <2> DEFINE u == h[m - 1] \o q[m]
             g == [k \in 1 .. m |-> IF k = m THEN u ELSE h[k]]
  <2>3. u \in Seq(R)
    <3>1. h[m - 1] \in Seq(R) /\ q[m] \in Seq(R)
      BY <1>3, <2>0
    <3>2. QED
      BY <3>1, ConcatProperties
  <2> HIDE DEF u
  <2>4. g \in [1 .. m -> Seq(R)]
    BY <2>0, <2>3
  <2>5. \A k \in 1 .. m - 1 : g[k] = h[k]
    BY <2>0
  <2>6. Pegadas(g, q, m)
    <3> SUFFICES ASSUME NEW k \in 1 .. m
                 PROVE  g[k] = IF k = 1 THEN q[k] ELSE g[k - 1] \o q[k]
      BY DEF Pegadas
    <3>1. CASE k = m
      <4>1. g[m] = h[m - 1] \o q[m]
        BY <2>0 DEF u
      <4>2. m - 1 \in 1 .. m - 1
        BY <2>0, <1>3
      <4>3. g[m - 1] = h[m - 1]
        BY <2>5, <4>2
      <4> HIDE DEF g
      <4>4. QED
        BY <1>3, <2>0, <3>1, <4>1, <4>3
    <3>2. CASE k # m
      <4>1. k \in 1 .. m - 1 /\ (k # 1 => k - 1 \in 1 .. m - 1)
        BY <2>0, <3>2
      <4>2. h[k] = IF k = 1 THEN q[k] ELSE h[k - 1] \o q[k]
        BY <2>2, <4>1 DEF Pegadas
      <4> HIDE DEF g
      <4>3. QED
        BY <2>5, <4>1, <4>2
    <3>3. QED
      BY <3>1, <3>2
  <2>7. QED
    BY <1>1, <2>4, <2>6 DEF T
<1>4. QED
  BY <1>0, <1>1, <1>2, <1>3 DEF T

\* It is what FlattenSeq computes.
LEMMA Aplanada ==
  ASSUME NEW R, NEW q \in Seq(Seq(R)), Len(q) > 0
  PROVE  \E g \in [1 .. Len(q) -> Seq(R)] : Pegadas(g, q, Len(q)) /\ FlattenSeq(q) = g[Len(q)]
<1> DEFINE N == Len(q)
           f == CHOOSE g : g = [k \in 1 .. Len(q) |-> IF k = 1 THEN q[k] ELSE g[k - 1] \o q[k]]
<1>1. FlattenSeq(q) = f[N]
  BY DEF FlattenSeq
<1>2. q \in [1 .. N -> Seq(R)] /\ N \in Nat /\ N \in 1 .. N
  OBVIOUS
<1>3. PICK g \in [1 .. N -> Seq(R)] : Pegadas(g, q, N)
  BY <1>2, HayPegadas
<1>4. g = [k \in 1 .. Len(q) |-> IF k = 1 THEN q[k] ELSE g[k - 1] \o q[k]]
  BY <1>3 DEF Pegadas
<1>5. f = [k \in 1 .. Len(q) |-> IF k = 1 THEN q[k] ELSE f[k - 1] \o q[k]]
  BY <1>4
<1> HIDE DEF f
<1>6. Pegadas(f, q, N)
  BY <1>5 DEF Pegadas
<1>7. f[N] = g[N]
  BY <1>2, <1>3, <1>6, UnicaPegadas
<1>8. QED
  BY <1>1, <1>3, <1>7

\* The last sequence goes after the others.
LEMMA AplanadaMas ==
  ASSUME NEW R, NEW q \in Seq(Seq(R)), NEW x \in Seq(R)
  PROVE  /\ FlattenSeq(q) \in Seq(R)
         /\ FlattenSeq(Append(q, x)) = FlattenSeq(q) \o x
<1> DEFINE p == Append(q, x)
           n == Len(q)
<1>1. p \in Seq(Seq(R)) /\ Len(p) = n + 1 /\ n \in Nat /\ p[n + 1] = x /\ \A k \in 1 .. n : p[k] = q[k]
  OBVIOUS
<1> HIDE DEF p, n
<1>2. n + 1 \in 1 .. n + 1 /\ n + 1 > 0 /\ (n + 1) - 1 = n /\ (n > 0 => n \in 1 .. n) /\ (n = 0 <=> n + 1 = 1)
  BY <1>1
<1>3. PICK h \in [1 .. n + 1 -> Seq(R)] : Pegadas(h, p, n + 1) /\ FlattenSeq(p) = h[n + 1]
  <2>1. Len(p) > 0
    BY <1>1, <1>2
  <2>2. \E g \in [1 .. Len(p) -> Seq(R)] : Pegadas(g, p, Len(p)) /\ FlattenSeq(p) = g[Len(p)]
    BY <1>1, <2>1, Aplanada
  <2>3. QED
    BY <1>1, <2>2
<1>4. h[n + 1] = IF n = 0 THEN x ELSE h[n] \o x
  <2>1. h[n + 1] = IF n + 1 = 1 THEN p[n + 1] ELSE h[(n + 1) - 1] \o p[n + 1]
    BY <1>2, <1>3 DEF Pegadas
  <2>2. QED
    BY <1>1, <1>2, <2>1
<1>5. CASE n = 0
  <2>1. q = <<>>
    BY <1>5 DEF n
  <2>2. FlattenSeq(q) = <<>>
    BY <2>1 DEF FlattenSeq
  <2>3. <<>> \in Seq(R) /\ <<>> \o x = x
    <3>1. <<>> \o x = x
      BY ConcatEmptySeq
    <3>2. <<>> \in Seq(R)
      OBVIOUS
    <3>3. QED
      BY <3>1, <3>2
  <2>4. QED
    BY <1>3, <1>4, <1>5, <2>2, <2>3 DEF p
<1>6. CASE n > 0
  <2>1. PICK g \in [1 .. n -> Seq(R)] : Pegadas(g, q, n) /\ FlattenSeq(q) = g[n]
    BY <1>6, Aplanada DEF n
  <2>2. Pegadas(h, q, n)
    <3> SUFFICES ASSUME NEW k \in 1 .. n
                 PROVE  h[k] = IF k = 1 THEN q[k] ELSE h[k - 1] \o q[k]
      BY DEF Pegadas
    <3>1. k \in 1 .. n + 1
      BY <1>1
    <3>2. h[k] = IF k = 1 THEN p[k] ELSE h[k - 1] \o p[k]
      BY <1>3, <3>1 DEF Pegadas
    <3>3. QED
      BY <1>1, <3>2
  <2>3. \A k \in 1 .. n : g[k] = h[k]
    <3>1. n \in Nat /\ Pegadas(g, q, n)
      BY <1>1, <2>1
    <3>2. QED
      BY ONLY SMTT(60), <3>1, <2>2, UnicaPegadas
  <2>4. n \in 1 .. n /\ g[n] \in Seq(R)
    BY <1>2, <1>6, <2>1
  <2>5. FlattenSeq(q) \in Seq(R) /\ FlattenSeq(q) = h[n]
    BY <2>1, <2>3, <2>4
  <2>6. n # 0
    BY <1>1, <1>6
  <2>7. QED
    BY <1>3, <1>4, <2>5, <2>6 DEF p
<1>7. QED
  BY <1>1, <1>5, <1>6

\* The bytes of a text after the mark.
Cuerpo(enc, t) == FlattenSeq([k \in DOMAIN t |-> Forma(enc, t[k])])

\* An empty text has none.
LEMMA CuerpoVacio ==
  ASSUME NEW enc, NEW t \in Seq(CP), Len(t) = 0
  PROVE  Cuerpo(enc, t) = <<>>
<1> DEFINE q == [k \in DOMAIN t |-> Forma(enc, t[k])]
<1>1. q = <<>>
  OBVIOUS
<1> HIDE DEF q
<1>2. FlattenSeq(q) = <<>>
  BY <1>1 DEF FlattenSeq
<1>3. QED
  BY <1>2 DEF Cuerpo, q

\* One code point more adds its own.
LEMMA CuerpoMas ==
  ASSUME NEW enc \in Encodings, NEW t \in Seq(CP), NEW x \in CP
  PROVE  /\ Cuerpo(enc, t) \in Seq(Byte)
         /\ Cuerpo(enc, Append(t, x)) = Cuerpo(enc, t) \o Forma(enc, x)
<1> DEFINE q == [k \in DOMAIN t |-> Forma(enc, t[k])]
           p == [k \in DOMAIN Append(t, x) |-> Forma(enc, Append(t, x)[k])]
<1>1. \A cp \in CP : Forma(enc, cp) \in Seq(Byte)
  BY Escribe
<1>2. q \in Seq(Seq(Byte))
  BY <1>1
<1>3. p = Append(q, Forma(enc, x))
  <2>1. Append(t, x) \in Seq(CP) /\ Len(Append(t, x)) = Len(t) + 1 /\ Len(t) \in Nat
        /\ Append(t, x)[Len(t) + 1] = x /\ \A k \in 1 .. Len(t) : Append(t, x)[k] = t[k]
    BY AppendProperties
  <2>2. p \in Seq(Seq(Byte)) /\ Len(p) = Len(t) + 1
    BY <1>1, <2>1
  <2>3. Append(q, Forma(enc, x)) \in Seq(Seq(Byte)) /\ Len(Append(q, Forma(enc, x))) = Len(t) + 1
    BY <1>1, <1>2
  <2>4. ASSUME NEW k \in 1 .. Len(t) + 1
        PROVE  p[k] = Append(q, Forma(enc, x))[k]
    <3>1. CASE k = Len(t) + 1
      BY <1>2, <2>1, <3>1
    <3>2. CASE k # Len(t) + 1
      BY <1>2, <2>1, <3>2
    <3>3. QED
      BY <3>1, <3>2
  <2> HIDE DEF p, q
  <2>5. QED
    BY <2>2, <2>3, <2>4, SeqEqual
<1>4. Forma(enc, x) \in Seq(Byte)
  BY <1>1
<1> HIDE DEF p, q
<1>5. FlattenSeq(q) \in Seq(Byte) /\ FlattenSeq(p) = FlattenSeq(q) \o Forma(enc, x)
  BY <1>2, <1>3, <1>4, AplanadaMas
<1>6. QED
  BY <1>5 DEF Cuerpo, p, q

\* The bytes of two texts go one after the other.
LEMMA CuerpoJunto ==
  ASSUME NEW enc \in Encodings, NEW s \in Seq(CP), NEW t \in Seq(CP)
  PROVE  Cuerpo(enc, s \o t) = Cuerpo(enc, s) \o Cuerpo(enc, t)
<1> DEFINE Bien(u) == Cuerpo(enc, s \o u) = Cuerpo(enc, s) \o Cuerpo(enc, u)
           T == {n \in Nat : \E u \in Seq(CP) : Len(u) = n /\ ~Bien(u)}
<1>1. \A u \in Seq(CP) : \A x \in CP : /\ Cuerpo(enc, u) \in Seq(Byte)
                                      /\ Cuerpo(enc, Append(u, x)) = Cuerpo(enc, u) \o Forma(enc, x)
                                      /\ Forma(enc, x) \in Seq(Byte)
  BY CuerpoMas, Escribe
<1>2. ASSUME T # {} PROVE FALSE
  <2>1. T \subseteq Nat
    OBVIOUS
  <2> HIDE DEF T
  <2>2. PICK n \in T : \A k \in T : n <= k
    BY <1>2, <2>1, Minimo
  <2>3. PICK u \in Seq(CP) : Len(u) = n /\ ~Bien(u)
    BY <2>2 DEF T
  <2> HIDE DEF Bien
  <2>4. CASE u = <<>>
    <3>1. s \o u = s /\ Cuerpo(enc, u) = <<>>
      BY <2>4, ConcatEmptySeq, CuerpoVacio
    <3>2. Cuerpo(enc, s) \in Seq(Byte)
      <4>1. CASE s = <<>>
        <5>1. Cuerpo(enc, s) = <<>>
          BY <4>1, CuerpoVacio
        <5>2. QED
          BY <5>1
      <4>2. CASE s # <<>>
        <5>1. s[1] \in CP
          BY <4>2
        <5>2. QED
          BY <1>1, <5>1
      <4>3. QED
        BY <4>1, <4>2
    <3>3. Cuerpo(enc, s) \o <<>> = Cuerpo(enc, s)
      BY <3>2, ConcatEmptySeq
    <3>4. QED
      BY <2>3, <3>1, <3>3 DEF Bien
  <2>5. CASE u # <<>>
    <3>1. PICK v \in Seq(CP), x \in CP : u = Append(v, x)
      BY <2>5, SequenceEmptyOrAppend
    <3>2. Len(u) = Len(v) + 1 /\ Len(v) \in Nat /\ ~ (n <= Len(v))
      BY <2>3, <3>1
    <3>3. Bien(v)
      BY <2>2, <3>2 DEF T
    <3>4. s \o u = Append(s \o v, x) /\ s \o v \in Seq(CP)
      <4>1. s \o v \in Seq(CP) /\ <<x>> \in Seq(CP)
        BY ConcatProperties
      <4>2. u = v \o <<x>> /\ Append(s \o v, x) = (s \o v) \o <<x>>
        BY <3>1, <4>1, AppendIsConcat
      <4>3. (s \o v) \o <<x>> = s \o (v \o <<x>>)
        BY SMTT(60), <4>1, ConcatAssociative
      <4>4. QED
        BY <4>1, <4>2, <4>3
    <3>5. Cuerpo(enc, s \o u) = Cuerpo(enc, s \o v) \o Forma(enc, x)
      BY <1>1, <3>4
    <3>6. Cuerpo(enc, s \o v) = Cuerpo(enc, s) \o Cuerpo(enc, v)
      BY <3>3 DEF Bien
    <3>7. (Cuerpo(enc, s) \o Cuerpo(enc, v)) \o Forma(enc, x) = Cuerpo(enc, s) \o (Cuerpo(enc, v) \o Forma(enc, x))
      <4>1. Cuerpo(enc, s) \in Seq(Byte) /\ Cuerpo(enc, v) \in Seq(Byte) /\ Forma(enc, x) \in Seq(Byte)
        BY <1>1
      <4>2. QED
        BY SMTT(60), <4>1, ConcatAssociative
    <3>8. Cuerpo(enc, u) = Cuerpo(enc, v) \o Forma(enc, x)
      BY <1>1, <3>1
    <3>9. QED
      BY <2>3, <3>5, <3>6, <3>7, <3>8 DEF Bien
  <2>6. QED
    BY <2>4, <2>5
<1>3. Len(t) \in Nat /\ Len(t) \notin T
  BY <1>2
<1>4. QED
  BY <1>3

\* They are bytes, and those of one code point are its own.
LEMMA CuerpoEs ==
  ASSUME NEW enc \in Encodings, NEW t \in Seq(CP)
  PROVE  /\ Cuerpo(enc, t) \in Seq(Byte)
         /\ \A x \in CP : Cuerpo(enc, <<x>>) = Forma(enc, x)
<1>1. Cuerpo(enc, t) \in Seq(Byte)
  <2>1. CASE t = <<>>
    <3>1. Cuerpo(enc, t) = <<>>
      BY <2>1, CuerpoVacio
    <3>2. QED
      BY <3>1
  <2>2. CASE t # <<>>
    <3>1. t[1] \in CP
      BY <2>2
    <3>2. QED
      BY <3>1, CuerpoMas
  <2>3. QED
    BY <2>1, <2>2
<1>2. ASSUME NEW x \in CP PROVE Cuerpo(enc, <<x>>) = Forma(enc, x)
  <2>1. <<>> \in Seq(CP) /\ Append(<<>>, x) = <<x>> /\ Len(<<>>) = 0
    OBVIOUS
  <2>2. Cuerpo(enc, <<x>>) = Cuerpo(enc, <<>>) \o Forma(enc, x)
    BY <2>1, CuerpoMas
  <2>3. Cuerpo(enc, <<>>) = <<>>
    BY <2>1, CuerpoVacio
  <2>4. Forma(enc, x) \in Seq(Byte)
    BY Escribe
  <2>5. <<>> \o Forma(enc, x) = Forma(enc, x)
    BY <2>4, ConcatEmptySeq
  <2>6. QED
    BY <2>2, <2>3, <2>5
<1>3. QED
  BY <1>1, <1>2

\* It is what the program writes for the code points of a text.
LEMMA CuerpoEscrito ==
  ASSUME NEW enc \in Encodings, NEW t \in Seq(CP)
  PROVE  ucs4_to_dest(enc, t) = Cuerpo(enc, t)
<1>1. \A cp \in CP : write_codepoint(enc, cp) = Forma(enc, cp)
  BY Escribe
<1>2. \A k \in DOMAIN t : t[k] \in CP
  OBVIOUS
<1>3. [k \in DOMAIN t |-> write_codepoint(enc, t[k])] = [k \in DOMAIN t |-> Forma(enc, t[k])]
  BY <1>1, <1>2
<1>4. QED
  BY <1>3 DEF ucs4_to_dest, Cuerpo

-----------------------------------------------------------------------------
(***************************************************************************)
(* orig_to_ucs4: the code points of a chunk of the input.                  *)
(***************************************************************************)

\* What follows a sequence in a longer one.
LEMMA Detras ==
  ASSUME NEW R, NEW a \in Seq(R), NEW b \in Seq(R)
  PROVE  /\ a \o b \in Seq(R) /\ Len(a \o b) = Len(a) + Len(b)
         /\ SubSeq(a \o b, Len(a) + 1, Len(a) + Len(b)) = b
         /\ SubSeq(a \o b, 1, Len(a)) = a
<1> DEFINE m == Len(a)
           n == Len(b)
           c == a \o b
<1>1. /\ c \in Seq(R) /\ Len(c) = m + n /\ m \in Nat /\ n \in Nat
      /\ \A i \in 1 .. m + n : c[i] = IF i <= m THEN a[i] ELSE b[i - m]
  BY ConcatProperties
<1>2. \A i \in 1 .. m + n : c[i] \in R
  BY <1>1, ElementOfSeq
<1> DEFINE s == SubSeq(c, m + 1, m + n)
           p == SubSeq(c, 1, m)
<1> HIDE DEF c
<1>3. /\ s \in Seq(R)
      /\ Len(s) = IF m + 1 <= m + n THEN m + n - (m + 1) + 1 ELSE 0
      /\ \A i \in 1 .. m + n - (m + 1) + 1 : s[i] = c[m + 1 + i - 1]
  <2>1. m + 1 \in Int /\ m + n \in Int /\ \A i \in m + 1 .. m + n : c[i] \in R
    BY <1>1, <1>2
  <2>2. QED
    BY <2>1, SubSeqProperties
<1>4. /\ p \in Seq(R) /\ Len(p) = (IF 1 <= m THEN m - 1 + 1 ELSE 0)
      /\ \A i \in 1 .. m - 1 + 1 : p[i] = c[1 + i - 1]
  <2>1. 1 \in Int /\ m \in Int /\ \A i \in 1 .. m : c[i] \in R
    BY <1>1, <1>2
  <2>2. QED
    BY <2>1, SubSeqProperties
<1> HIDE DEF s, p, m, n
<1>5. Len(s) = n /\ \A i \in 1 .. n : s[i] = b[i]
  <2>1. Len(s) = n
    BY <1>1, <1>3
  <2>2. ASSUME NEW i \in 1 .. n PROVE s[i] = b[i]
    <3>1. i \in 1 .. m + n - (m + 1) + 1 /\ m + 1 + i - 1 = m + i
      BY <1>1
    <3>2. m + i \in 1 .. m + n /\ ~ (m + i <= m) /\ m + i - m = i
      BY <1>1
    <3>3. QED
      BY <1>1, <1>3, <3>1, <3>2
  <2>3. QED
    BY <2>1, <2>2
<1>6. Len(p) = m /\ \A i \in 1 .. m : p[i] = a[i]
  <2>1. Len(p) = m
    BY <1>1, <1>4
  <2>2. ASSUME NEW i \in 1 .. m PROVE p[i] = a[i]
    <3>1. i \in 1 .. m - 1 + 1 /\ 1 + i - 1 = i /\ i \in 1 .. m + n /\ i <= m
      BY <1>1
    <3>2. QED
      BY <1>1, <1>4, <3>1
  <2>3. QED
    BY <2>1, <2>2
<1>7. s = b
  BY <1>3, <1>5, SeqEqual DEF n
<1>8. p = a
  BY <1>4, <1>6, SeqEqual DEF m
<1>9. QED
  BY <1>1, <1>7, <1>8 DEF s, p, c, m, n

\* The decoders consume up to four bytes.
LEMMA ConsumidosEs ==
  ASSUME NEW enc, NEW b
  PROVE  Consumidos(enc, b) \in Nat
BY SMT DEF Consumidos, ConsumidosUTF8, ConsumidosUTF16, ConsumidosUTF32

\* What the loop does from byte i of buf, g being what it does from the later ones.
Paso(enc, buf, g, i) ==
  LET queda == SubSeq(buf, i, Len(buf))
      b == Consumidos(enc, queda)
  IN  IF b = 0 \/ b > Len(queda)
      THEN [cps |-> <<>>, resto |-> queda, pasado |-> b > 0]
      ELSE [g[i + b] EXCEPT !.cps = <<Codepoint(enc, queda, b)>> \o @]

\* The rest of buf from byte i.
LEMMA Queda ==
  ASSUME NEW buf \in Seq(Byte), NEW i \in 1 .. Len(buf) + 1
  PROVE  SubSeq(buf, i, Len(buf)) \in Seq(Byte) /\ Len(SubSeq(buf, i, Len(buf))) = Len(buf) + 1 - i
<1> DEFINE n == Len(buf)
<1>1. n \in Nat /\ i \in Int /\ n \in Int /\ \A k \in i .. n : buf[k] \in Byte
  BY ElementOfSeq
<1>2. /\ SubSeq(buf, i, n) \in Seq(Byte)
      /\ Len(SubSeq(buf, i, n)) = IF i <= n THEN n - i + 1 ELSE 0
  BY <1>1, SubSeqProperties
<1>3. i >= 1 /\ i <= n + 1
  BY <1>1
<1> HIDE DEF n
<1>4. Len(SubSeq(buf, i, n)) = n + 1 - i
  BY <1>1, <1>2, <1>3
<1>5. QED
  BY <1>2, <1>4 DEF n

\* It looks at the later ones only.
LEMMA PasoLocal ==
  ASSUME NEW enc, NEW buf \in Seq(Byte), NEW i \in 1 .. Len(buf) + 1, NEW g, NEW h,
         \A k \in i + 1 .. Len(buf) + 1 : g[k] = h[k]
  PROVE  Paso(enc, buf, g, i) = Paso(enc, buf, h, i)
<1> DEFINE queda == SubSeq(buf, i, Len(buf))
           b == Consumidos(enc, queda)
<1>1. Len(queda) = Len(buf) + 1 - i /\ Len(buf) \in Nat
  BY Queda
<1>2. b \in Nat
  BY ConsumidosEs
<1> HIDE DEF b, queda
<1>3. CASE b = 0 \/ b > Len(queda)
  BY <1>3 DEF Paso, b, queda
<1>4. CASE ~ (b = 0 \/ b > Len(queda))
  <2>1. i + b \in i + 1 .. Len(buf) + 1
    BY <1>1, <1>2, <1>4
  <2>2. g[i + b] = h[i + b]
    BY <2>1
  <2>3. Paso(enc, buf, g, i) = [g[i + b] EXCEPT !.cps = <<Codepoint(enc, queda, b)>> \o @]
    BY <1>4 DEF Paso, b, queda
  <2>4. Paso(enc, buf, h, i) = [h[i + b] EXCEPT !.cps = <<Codepoint(enc, queda, b)>> \o @]
    BY <1>4 DEF Paso, b, queda
  <2>5. QED
    BY <2>2, <2>3, <2>4
<1>5. QED
  BY <1>3, <1>4

\* The recursion of orig_to_ucs4 has a solution.
LEMMA Desde ==
  ASSUME NEW enc, NEW buf \in Seq(Byte)
  PROVE  \E g : /\ \A i \in 1 .. Len(buf) + 1 : g[i] = Paso(enc, buf, g, i)
                /\ orig_to_ucs4(enc, buf) = g[1]
<1> DEFINE N == Len(buf) + 1
           Hay(m) == \E g : \A i \in m .. N : g[i] = Paso(enc, buf, g, i)
           T == {n \in 0 .. N : ~Hay(N + 1 - n)}
<1>1. N \in Nat /\ N >= 1
  OBVIOUS
<1> HIDE DEF N
<1>2. ASSUME T # {} PROVE FALSE
  <2>1. T \subseteq Nat
    BY <1>1
  <2> HIDE DEF T
  <2>2. PICK n \in T : \A k \in T : n <= k
    BY <1>2, <2>1, Minimo
  <2>3. n \in 0 .. N /\ ~Hay(N + 1 - n)
    BY <2>2 DEF T
  <2>4. n # 0
    <3>1. ASSUME n = 0 PROVE FALSE
      <4>1. \A i \in N + 1 - n .. N : <<>>[i] = Paso(enc, buf, <<>>, i)
        BY <1>1, <3>1
      <4>2. QED
        BY <2>3, <4>1
    <3>2. QED
      BY <3>1
  <2> DEFINE m == N + 1 - n
  <2>5. m \in 1 .. N /\ N + 1 - (n - 1) = m + 1 /\ n - 1 \in 0 .. N /\ ~ (n <= n - 1)
    BY <1>1, <2>3, <2>4
  <2> HIDE DEF m, Hay
  <2>6. Hay(m + 1)
    BY <2>2, <2>5 DEF T
  <2>7. PICK g : \A i \in m + 1 .. N : g[i] = Paso(enc, buf, g, i)
    BY <2>6 DEF Hay
  <2> DEFINE h == [i \in 1 .. N |-> IF i = m THEN Paso(enc, buf, g, m) ELSE g[i]]
  <2>8. ASSUME NEW i \in m .. N PROVE h[i] = Paso(enc, buf, h, i)
    <3>1. i \in 1 .. Len(buf) + 1 /\ i \in 1 .. N
      BY <1>1, <2>5 DEF N
    <3>2. \A k \in i + 1 .. Len(buf) + 1 : g[k] = h[k]
      <4>1. \A k \in i + 1 .. N : k \in 1 .. N /\ k # m
        BY <1>1, <2>5
      <4>2. QED
        BY <4>1 DEF N
    <3> HIDE DEF h
    <3>3. Paso(enc, buf, g, i) = Paso(enc, buf, h, i)
      BY <3>1, <3>2, PasoLocal
    <3>4. h[i] = Paso(enc, buf, g, i)
      <4>1. CASE i = m
        BY <3>1, <4>1 DEF h
      <4>2. CASE i # m
        <5>1. i \in m + 1 .. N
          BY <1>1, <2>5, <4>2
        <5>2. h[i] = g[i]
          BY <3>1, <4>2 DEF h
        <5>3. QED
          BY <2>7, <5>1, <5>2
      <4>3. QED
        BY <4>1, <4>2
    <3>5. QED
      BY <3>3, <3>4
  <2>9. Hay(m)
    BY <2>8 DEF Hay
  <2>10. QED
    BY <2>3, <2>9 DEF m
<1>3. Hay(1)
  <2>1. N \in 0 .. N /\ N + 1 - N = 1
    BY <1>1
  <2>2. Hay(N + 1 - N)
    BY <1>2, <2>1
  <2>3. QED
    BY <2>1, <2>2
<1>4. PICK g : \A i \in 1 .. N : g[i] = Paso(enc, buf, g, i)
  BY <1>3
<1> DEFINE h == [i \in 1 .. N |-> g[i]]
<1>5. \A i \in 1 .. N : h[i] = Paso(enc, buf, h, i)
  <2> SUFFICES ASSUME NEW i \in 1 .. N PROVE h[i] = Paso(enc, buf, h, i)
    OBVIOUS
  <2>1. i \in 1 .. Len(buf) + 1 /\ h[i] = g[i]
    BY DEF N
  <2>2. \A k \in i + 1 .. Len(buf) + 1 : g[k] = h[k]
    <3>1. \A k \in i + 1 .. N : k \in 1 .. N
      BY <1>1
    <3>2. QED
      BY <3>1 DEF N
  <2> HIDE DEF h
  <2>3. Paso(enc, buf, g, i) = Paso(enc, buf, h, i)
    BY <2>1, <2>2, PasoLocal
  <2>4. QED
    BY <1>4, <2>1, <2>3
<1>6. h = [i \in 1 .. N |-> Paso(enc, buf, h, i)]
  <2>1. \A i \in 1 .. N : h[i] = Paso(enc, buf, h, i)
    BY <1>5
  <2>2. QED
    BY <2>1
<1> HIDE DEF h
<1> DEFINE f == CHOOSE e : e = [i \in 1 .. Len(buf) + 1 |-> Paso(enc, buf, e, i)]
<1>7. f = [i \in 1 .. Len(buf) + 1 |-> Paso(enc, buf, f, i)]
  BY <1>6 DEF N
<1>8. orig_to_ucs4(enc, buf) = f[1]
  BY DEF orig_to_ucs4, Paso
<1> HIDE DEF f
<1>9. \A i \in 1 .. Len(buf) + 1 : f[i] = Paso(enc, buf, f, i)
  BY <1>7
<1>10. QED
  BY <1>8, <1>9

\* Of the bytes of a text and a part of one code point more it makes the text,
\* and leaves the part.
THEOREM Decodifica ==
  ASSUME NEW enc \in Encodings, NEW t \in Seq(CP), NEW r \in Seq(Byte),
         Consumidos(enc, r) = 0 \/ Consumidos(enc, r) > Len(r)
  PROVE  orig_to_ucs4(enc, Cuerpo(enc, t) \o r)
           = [cps |-> t, resto |-> r, pasado |-> Consumidos(enc, r) > 0]
<1> DEFINE buf == Cuerpo(enc, t) \o r
           pas == Consumidos(enc, r) > 0
           Fin2(v) == [cps |-> v, resto |-> r, pasado |-> pas]
<1>1. /\ \A u \in Seq(CP) : Cuerpo(enc, u) \in Seq(Byte)
      /\ \A x \in CP : Cuerpo(enc, <<x>>) = Forma(enc, x)
  <2>1. ASSUME NEW u \in Seq(CP) PROVE Cuerpo(enc, u) \in Seq(Byte)
    BY CuerpoEs
  <2>2. ASSUME NEW x \in CP PROVE Cuerpo(enc, <<x>>) = Forma(enc, x)
    BY CuerpoEs
  <2>3. QED
    BY <2>1, <2>2
<1>2. buf \in Seq(Byte) /\ Len(buf) = Len(Cuerpo(enc, t)) + Len(r)
  BY <1>1, ConcatProperties
<1>3. PICK g : /\ \A i \in 1 .. Len(buf) + 1 : g[i] = Paso(enc, buf, g, i)
               /\ orig_to_ucs4(enc, buf) = g[1]
  BY <1>2, Desde
<1> DEFINE Bien(u, v) == g[Len(Cuerpo(enc, u)) + 1] = Fin2(v)
           T == {n \in Nat : \E u, v \in Seq(CP) : t = u \o v /\ Len(v) = n /\ ~Bien(u, v)}
<1> HIDE DEF buf, pas
\* What the loop sees after the bytes of u.
<1>4. ASSUME NEW u \in Seq(CP), NEW v \in Seq(CP), t = u \o v
      PROVE  /\ Cuerpo(enc, v) \o r \in Seq(Byte)
             /\ SubSeq(buf, Len(Cuerpo(enc, u)) + 1, Len(buf)) = Cuerpo(enc, v) \o r
             /\ Len(Cuerpo(enc, u)) + 1 \in 1 .. Len(buf) + 1
  <2> DEFINE a == Cuerpo(enc, u)
             c == Cuerpo(enc, v)
  <2>1. a \in Seq(Byte) /\ c \in Seq(Byte) /\ Cuerpo(enc, t) = a \o c
    BY <1>1, <1>4, CuerpoJunto
  <2> HIDE DEF a, c
  <2> DEFINE e == c \o r
  <2>2. buf = a \o e
    BY <2>1, ConcatAssociative DEF buf
  <2>3. e \in Seq(Byte)
    BY <2>1, ConcatProperties
  <2> HIDE DEF e
  <2>4. Len(buf) = Len(a) + Len(e) /\ SubSeq(buf, Len(a) + 1, Len(a) + Len(e)) = e
    BY <2>1, <2>2, <2>3, Detras
  <2>5. Len(a) \in Nat /\ Len(e) \in Nat
    BY <2>1, <2>3
  <2>6. Len(a) + 1 \in 1 .. Len(buf) + 1
    BY <2>4, <2>5
  <2>7. QED
    BY <2>3, <2>4, <2>6 DEF a, c, e
<1>5. ASSUME T # {} PROVE FALSE
  <2>1. T \subseteq Nat
    OBVIOUS
  <2> HIDE DEF T
  <2>2. PICK n \in T : \A k \in T : n <= k
    BY <1>5, <2>1, Minimo
  <2>3. PICK u \in Seq(CP), v \in Seq(CP) : t = u \o v /\ Len(v) = n /\ ~Bien(u, v)
    BY <2>2 DEF T
  <2> DEFINE i == Len(Cuerpo(enc, u)) + 1
             queda == Cuerpo(enc, v) \o r
  <2>4. queda \in Seq(Byte) /\ SubSeq(buf, i, Len(buf)) = queda /\ i \in 1 .. Len(buf) + 1
    BY <1>4, <2>3
  <2>5. g[i] = Paso(enc, buf, g, i) /\ ~ (g[i] = Fin2(v))
    BY <1>3, <2>3, <2>4
  <2> HIDE DEF i, queda, Fin2, Bien
  <2>6. CASE v = <<>>
    <3>1. Cuerpo(enc, v) = <<>>
      BY <2>6, CuerpoVacio
    <3>2. queda = r
      BY <3>1, ConcatEmptySeq DEF queda
    <3>3. Paso(enc, buf, g, i) = [cps |-> <<>>, resto |-> r, pasado |-> Consumidos(enc, r) > 0]
      BY <2>4, <3>2 DEF Paso
    <3>4. QED
      BY <2>5, <2>6, <3>3 DEF Fin2, pas
  <2>7. CASE v # <<>>
    <3> DEFINE x == v[1]
               w == Tail(v)
    <3>1. x \in CP /\ w \in Seq(CP) /\ v = <<x>> \o w /\ <<x>> \in Seq(CP)
      BY <2>7
    <3> HIDE DEF x, w
    <3> DEFINE f == Forma(enc, x)
               c == Cuerpo(enc, w)
    <3>2. f \in Seq(Byte) /\ Len(f) \in Nat /\ 1 <= Len(f) /\ c \in Seq(Byte)
      BY <1>1, <3>1, Escribe
    <3>3. queda = f \o (c \o r) /\ c \o r \in Seq(Byte)
      <4>1. Cuerpo(enc, v) = f \o c
        <5>1. Cuerpo(enc, <<x>> \o w) = Cuerpo(enc, <<x>>) \o c
          BY <3>1, CuerpoJunto
        <5>2. QED
          BY <1>1, <3>1, <5>1
      <4>2. (f \o c) \o r = f \o (c \o r)
        BY SMTT(60), <3>2, ConcatAssociative
      <4>3. c \o r \in Seq(Byte)
        BY <3>2, ConcatProperties
      <4>4. QED
        BY <4>1, <4>2, <4>3 DEF queda
    <3>4. Len(f) <= Len(queda) /\ \A k \in 1 .. Len(f) : queda[k] = f[k]
      BY <3>2, <3>3
    <3>5. Consumidos(enc, queda) = Len(f) /\ Codepoint(enc, queda, Len(f)) = x
      BY <2>4, <3>1, <3>4, Lee
    <3>6. g[i] = [g[i + Len(f)] EXCEPT !.cps = <<x>> \o @]
      <4>1. ~ (Len(f) = 0 \/ Len(f) > Len(queda))
        BY <2>4, <3>2, <3>4
      <4> HIDE DEF f
      <4>2. Paso(enc, buf, g, i) = [g[i + Len(f)] EXCEPT !.cps = <<x>> \o @]
        BY <2>4, <3>5, <4>1 DEF Paso
      <4>3. QED
        BY <2>5, <4>2
    <3> DEFINE u2 == u \o <<x>>
    <3>7. u2 \in Seq(CP) /\ t = u2 \o w
      BY <2>3, <3>1, ConcatAssociative, ConcatProperties
    <3>8. Len(Cuerpo(enc, u2)) + 1 = i + Len(f)
      <4>1. Cuerpo(enc, u2) = Cuerpo(enc, u) \o f
        <5>1. Cuerpo(enc, u2) = Cuerpo(enc, u) \o Cuerpo(enc, <<x>>)
          BY <3>1, CuerpoJunto
        <5>2. QED
          BY <1>1, <3>1, <5>1
      <4>2. Cuerpo(enc, u) \in Seq(Byte)
        BY <1>1
      <4> HIDE DEF f, u2
      <4>3. Len(Cuerpo(enc, u2)) = Len(Cuerpo(enc, u)) + Len(f) /\ Len(Cuerpo(enc, u)) \in Nat
        BY <3>2, <4>1, <4>2, ConcatProperties
      <4>4. QED
        BY <3>2, <4>3 DEF i
    <3> HIDE DEF u2
    <3>9. Bien(u2, w)
      <4>1. Len(w) \in Nat /\ ~ (n <= Len(w))
        <5>1. Len(v) = Len(w) + 1 /\ Len(w) \in Nat
          BY <3>1
        <5>2. QED
          BY <2>3, <5>1
      <4>2. Len(w) \notin T
        BY <2>2, <4>1
      <4>3. QED
        BY <3>1, <3>7, <4>1, <4>2 DEF T
    <3>10. g[i + Len(f)] = Fin2(w)
      BY <3>8, <3>9 DEF Bien
    <3>11. [g[i + Len(f)] EXCEPT !.cps = <<x>> \o @] = Fin2(<<x>> \o w)
      <4> DEFINE z == g[i + Len(f)]
                 e == <<x>> \o z.cps
      <4>1. z = [cps |-> w, resto |-> r, pasado |-> pas]
        BY <3>10 DEF Fin2
      <4> HIDE DEF z
      <4>2. e = <<x>> \o w
        BY <4>1
      <4> HIDE DEF e
      <4>3. [z EXCEPT !.cps = e] = [cps |-> e, resto |-> r, pasado |-> pas]
        BY ONLY <4>1
      <4>4. QED
        BY <4>2, <4>3 DEF Fin2, z, e
    <3>12. QED
      BY <2>5, <3>1, <3>6, <3>11
  <2>8. QED
    BY <2>6, <2>7
<1>6. Bien(<<>>, t)
  <2>1. <<>> \in Seq(CP) /\ t = <<>> \o t
    BY ConcatEmptySeq
  <2>2. Len(t) \in Nat /\ Len(t) \notin T
    <3> HIDE DEF T
    <3>1. QED
      BY <1>5
  <2> HIDE DEF Bien
  <2>3. QED
    BY <2>1, <2>2
<1>7. Len(Cuerpo(enc, <<>>)) = 0
  <2>1. <<>> \in Seq(CP) /\ Len(<<>>) = 0
    OBVIOUS
  <2>2. Cuerpo(enc, <<>>) = <<>>
    BY <2>1, CuerpoVacio
  <2>3. QED
    BY <2>2
<1>8. g[1] = Fin2(t)
  <2>1. Len(Cuerpo(enc, <<>>)) + 1 = 1
    BY <1>7
  <2>2. QED
    BY <1>6, <2>1
<1>9. QED
  BY <1>3, <1>8 DEF buf, pas

\* In UTF-32 nothing is longer than what is left, whatever the bytes.
LEMMA DecodificaUTF32 ==
  ASSUME NEW enc \in UTF32, NEW buf \in Seq(Byte)
  PROVE  LET d == orig_to_ucs4(enc, buf) IN d.resto \in Seq(Byte) /\ ~d.pasado
<1>1. PICK g : /\ \A i \in 1 .. Len(buf) + 1 : g[i] = Paso(enc, buf, g, i)
               /\ orig_to_ucs4(enc, buf) = g[1]
  BY Desde
<1> DEFINE N == Len(buf) + 1
           Bien(i) == \E c : \E s \in Seq(Byte) : g[i] = [cps |-> c, resto |-> s, pasado |-> FALSE]
           T == {n \in Nat : n < N /\ ~Bien(N - n)}
<1>2. N \in Nat /\ N >= 1
  OBVIOUS
<1>3. ASSUME T # {} PROVE FALSE
  <2>1. T \subseteq Nat
    OBVIOUS
  <2> HIDE DEF T
  <2>2. PICK n \in T : \A k \in T : n <= k
    BY <1>3, <2>1, Minimo
  <2> DEFINE i == N - n
             queda == SubSeq(buf, i, Len(buf))
  <2>3. n \in Nat /\ n < N /\ ~Bien(i)
    BY <2>2 DEF T
  <2>4. i \in 1 .. Len(buf) + 1 /\ i \in Nat
    BY <1>2, <2>3
  <2> HIDE DEF Bien, i
  <2>5. queda \in Seq(Byte) /\ Len(queda) = N - i
    BY <2>4, Queda
  <2>6. Consumidos(enc, queda) = IF Len(queda) >= 4 THEN 4 ELSE 0
    BY DEF Consumidos, ConsumidosUTF32
  <2>7. g[i] = Paso(enc, buf, g, i)
    BY <1>1, <2>4
  <2> HIDE DEF queda, N
  <2>8. CASE Len(queda) >= 4
    <3>1. Consumidos(enc, queda) = 4 /\ ~ (4 = 0 \/ 4 > Len(queda))
      BY <2>5, <2>6, <2>8
    <3>2. g[i] = [g[i + 4] EXCEPT !.cps = <<Codepoint(enc, queda, 4)>> \o @]
      BY <2>7, <3>1 DEF Paso, queda
    <3>3. n - 4 \in Nat /\ n - 4 < N /\ N - (n - 4) = i + 4 /\ ~ (n <= n - 4)
      BY <1>2, <2>3, <2>4, <2>5, <2>8 DEF i
    <3>4. Bien(i + 4)
      BY <2>2, <3>3 DEF T
    <3>5. PICK c : \E s \in Seq(Byte) : g[i + 4] = [cps |-> c, resto |-> s, pasado |-> FALSE]
      BY <3>4 DEF Bien
    <3>6. PICK s \in Seq(Byte) : g[i + 4] = [cps |-> c, resto |-> s, pasado |-> FALSE]
      BY <3>5
    <3>7. g[i] = [cps |-> <<Codepoint(enc, queda, 4)>> \o c, resto |-> s, pasado |-> FALSE]
      <4> DEFINE z == g[i + 4]
                 e == <<Codepoint(enc, queda, 4)>> \o z.cps
                 no == FALSE
      <4>1. z = [cps |-> c, resto |-> s, pasado |-> no]
        BY <3>6
      <4> HIDE DEF z, no
      <4>2. e = <<Codepoint(enc, queda, 4)>> \o c
        BY <4>1
      <4> HIDE DEF e
      <4>3. [z EXCEPT !.cps = e] = [cps |-> e, resto |-> s, pasado |-> no]
        BY ONLY <4>1
      <4>4. QED
        BY <3>2, <4>2, <4>3 DEF z, e, no
    <3>8. QED
      BY <2>3, <3>7 DEF Bien
  <2>9. CASE ~ (Len(queda) >= 4)
    <3>1. Consumidos(enc, queda) = 0
      BY <2>6, <2>9
    <3>2. g[i] = [cps |-> <<>>, resto |-> queda, pasado |-> FALSE]
      <4>1. g[i] = [cps |-> <<>>, resto |-> queda, pasado |-> Consumidos(enc, queda) > 0]
        BY <2>7, <3>1 DEF Paso, queda
      <4>2. (Consumidos(enc, queda) > 0) = FALSE
        BY <3>1
      <4>3. QED
        BY <4>1, <4>2, Zenon
    <3>3. QED
      BY <2>3, <2>5, <3>2 DEF Bien
  <2>10. QED
    BY <2>8, <2>9
<1>4. N - 1 \in Nat /\ N - 1 < N /\ N - (N - 1) = 1
  BY <1>2
<1>5. Bien(1)
  <2> HIDE DEF N, Bien
  <2>1. N - 1 \notin T
    BY <1>3
  <2>2. QED
    BY <1>4, <2>1
<1>6. QED
  BY <1>1, <1>5

-----------------------------------------------------------------------------
(***************************************************************************)
(* The input read so far: how much of the text is in it.                   *)
(***************************************************************************)

\* The file that the first k code points of a text make.
Hasta(enc, t, k) == Archivo(enc, SubSeq(t, 1, k))

\* The code points between two places of a text.
LEMMA Entre ==
  ASSUME NEW t \in Seq(CP), NEW j \in 0 .. Len(t), NEW k \in j .. Len(t)
  PROVE  /\ SubSeq(t, j + 1, k) \in Seq(CP) /\ SubSeq(t, 1, k) \in Seq(CP)
         /\ SubSeq(t, 1, k) = SubSeq(t, 1, j) \o SubSeq(t, j + 1, k)
<1>1. Len(t) \in Nat /\ j \in Nat /\ k \in Nat /\ k <= Len(t) /\ j <= k
  OBVIOUS
<1>2. \A i \in 1 .. Len(t) : t[i] \in CP
  OBVIOUS
<1>3. SubSeq(t, j + 1, k) \in Seq(CP)
  <2>1. j + 1 \in Int /\ k \in Int /\ \A i \in j + 1 .. k : t[i] \in CP
    BY <1>1, <1>2
  <2>2. QED
    BY <2>1, SubSeqProperties
<1>4. SubSeq(t, 1, k) \in Seq(CP)
  <2>1. 1 \in Int /\ k \in Int /\ \A i \in 1 .. k : t[i] \in CP
    BY <1>1, <1>2
  <2>2. QED
    BY <2>1, SubSeqProperties
<1>5. SubSeq(t, 1, j) \o SubSeq(t, j + 1, k) = SubSeq(t, 1, k)
  <2>1. 1 \in 1 .. Len(t) + 1 /\ j \in 1 - 1 .. Len(t) /\ k \in j .. Len(t)
    BY <1>1
  <2>2. QED
    BY <2>1, ConcatAdjacentSubSeq
<1>6. QED
  BY <1>3, <1>4, <1>5

\* Those after the first j go behind the others.
LEMMA HastaMas ==
  ASSUME NEW enc \in Encodings, NEW t \in Seq(CP), NEW j \in 0 .. Len(t), NEW k \in j .. Len(t)
  PROVE  /\ Hasta(enc, t, j) \in Seq(Byte) /\ Hasta(enc, t, k) \in Seq(Byte)
         /\ Cuerpo(enc, SubSeq(t, j + 1, k)) \in Seq(Byte)
         /\ Hasta(enc, t, k) = Hasta(enc, t, j) \o Cuerpo(enc, SubSeq(t, j + 1, k))
<1> DEFINE s == SubSeq(t, 1, j)
           u == SubSeq(t, j + 1, k)
           m == Marca(enc)
<1>1. s \in Seq(CP) /\ u \in Seq(CP) /\ SubSeq(t, 1, k) = s \o u
  <2>1. 0 \in 0 .. Len(t) /\ j \in 0 .. Len(t)
    OBVIOUS
  <2>2. s \in Seq(CP)
    BY <2>1, Entre
  <2>3. QED
    BY <2>2, Entre
<1>2. m \in Seq(Byte)
  BY MarcaEscrita
<1>3. Hasta(enc, t, j) = m \o Cuerpo(enc, s) /\ Hasta(enc, t, k) = m \o Cuerpo(enc, s \o u)
  BY <1>1 DEF Hasta, Archivo, Cuerpo
<1> HIDE DEF s, u, m
<1>4. Cuerpo(enc, s) \in Seq(Byte) /\ Cuerpo(enc, u) \in Seq(Byte)
  BY <1>1, CuerpoEs
<1>5. Cuerpo(enc, s \o u) = Cuerpo(enc, s) \o Cuerpo(enc, u)
  BY <1>1, CuerpoJunto
<1>6. (m \o Cuerpo(enc, s)) \o Cuerpo(enc, u) = m \o (Cuerpo(enc, s) \o Cuerpo(enc, u))
  <2> DEFINE x == Cuerpo(enc, s)
             y == Cuerpo(enc, u)
  <2>1. m \in Seq(Byte) /\ x \in Seq(Byte) /\ y \in Seq(Byte)
    BY <1>2, <1>4
  <2> HIDE DEF x, y
  <2>2. (m \o x) \o y = m \o (x \o y)
    BY ONLY SMTT(60), <2>1, ConcatAssociative
  <2>3. QED
    BY ONLY <2>2 DEF x, y
<1>7. m \o Cuerpo(enc, s) \in Seq(Byte)
  BY <1>2, <1>4, ConcatProperties
<1>8. (m \o Cuerpo(enc, s)) \o Cuerpo(enc, u) \in Seq(Byte)
  BY <1>4, <1>7, ConcatProperties
<1>9. QED
  BY <1>3, <1>4, <1>5, <1>6, <1>7, <1>8 DEF u

\* Before the first there is the mark, and after the last nothing.
LEMMA HastaEs ==
  ASSUME NEW enc \in Encodings, NEW t \in Seq(CP)
  PROVE  /\ Hasta(enc, t, 0) = Marca(enc)
         /\ Hasta(enc, t, Len(t)) = Archivo(enc, t)
<1>1. SubSeq(t, 1, 0) = <<>> /\ SubSeq(t, 1, Len(t)) = t
  BY SubSeqEmpty, SubSeqFull
<1>2. <<>> \in Seq(CP) /\ Len(<<>>) = 0
  OBVIOUS
<1>3. Cuerpo(enc, <<>>) = <<>>
  BY <1>2, CuerpoVacio
<1>4. Marca(enc) \o <<>> = Marca(enc)
  BY MarcaEscrita, ConcatEmptySeq
<1>5. Hasta(enc, t, 0) = Marca(enc) \o Cuerpo(enc, <<>>)
  BY <1>1 DEF Hasta, Archivo, Cuerpo
<1>6. QED
  BY <1>1, <1>3, <1>4, <1>5 DEF Hasta

\* One code point more.
LEMMA HastaUno ==
  ASSUME NEW enc \in Encodings, NEW t \in Seq(CP), NEW k \in 0 .. Len(t), k < Len(t)
  PROVE  /\ t[k + 1] \in CP /\ k + 1 \in k .. Len(t)
         /\ Hasta(enc, t, k + 1) = Hasta(enc, t, k) \o Forma(enc, t[k + 1])
<1>1. t[k + 1] \in CP /\ k + 1 \in k .. Len(t)
  OBVIOUS
<1>2. SubSeq(t, k + 1, k + 1) = <<t[k + 1]>>
  <2>1. /\ SubSeq(t, k + 1, k + 1) \in Seq(CP)
        /\ Len(SubSeq(t, k + 1, k + 1)) = 1
        /\ SubSeq(t, k + 1, k + 1)[1] = t[k + 1]
    <3>1. k + 1 \in Int /\ \A i \in k + 1 .. k + 1 : t[i] \in CP
      OBVIOUS
    <3> DEFINE s == SubSeq(t, k + 1, k + 1)
    <3>2. /\ s \in Seq(CP) /\ Len(s) = (IF k + 1 <= k + 1 THEN (k + 1) - (k + 1) + 1 ELSE 0)
          /\ \A i \in 1 .. (k + 1) - (k + 1) + 1 : s[i] = t[k + 1 + i - 1]
      BY <3>1, SubSeqProperties
    <3> HIDE DEF s
    <3>3. Len(s) = 1 /\ 1 \in 1 .. (k + 1) - (k + 1) + 1 /\ k + 1 + 1 - 1 = k + 1
      BY <3>2
    <3>4. s[1] = t[k + 1]
      BY <3>2, <3>3
    <3>5. QED
      BY <3>2, <3>3, <3>4 DEF s
  <2>2. <<t[k + 1]>> \in Seq(CP) /\ Len(<<t[k + 1]>>) = 1 /\ <<t[k + 1]>>[1] = t[k + 1]
    BY <1>1
  <2> DEFINE s == SubSeq(t, k + 1, k + 1)
             u == <<t[k + 1]>>
  <2> HIDE DEF s, u
  <2>3. s \in Seq(CP) /\ u \in Seq(CP) /\ Len(s) = 1 /\ Len(u) = 1 /\ s[1] = u[1]
    BY <2>1, <2>2 DEF s, u
  <2>4. s = u
    BY ONLY <2>3, SeqEqual
  <2>5. QED
    BY <2>4 DEF s, u
<1>3. Cuerpo(enc, <<t[k + 1]>>) = Forma(enc, t[k + 1])
  BY <1>1, CuerpoEs
<1>4. Hasta(enc, t, k + 1) = Hasta(enc, t, k) \o Cuerpo(enc, SubSeq(t, k + 1, k + 1))
  BY <1>1, HastaMas
<1>5. QED
  BY <1>1, <1>2, <1>3, <1>4

\* The places of a text are in the order of their bytes.
LEMMA HastaLen ==
  ASSUME NEW enc \in Encodings, NEW t \in Seq(CP), NEW j \in 0 .. Len(t), NEW k \in j .. Len(t)
  PROVE  /\ Len(Hasta(enc, t, j)) \in Nat /\ Len(Hasta(enc, t, k)) \in Nat
         /\ Len(Hasta(enc, t, j)) <= Len(Hasta(enc, t, k))
<1> DEFINE a == Hasta(enc, t, j)
           b == Cuerpo(enc, SubSeq(t, j + 1, k))
           c == Hasta(enc, t, k)
<1>1. a \in Seq(Byte) /\ b \in Seq(Byte) /\ c = a \o b
  BY HastaMas
<1> HIDE DEF a, b, c
<1>2. Len(c) = Len(a) + Len(b) /\ Len(a) \in Nat /\ Len(b) \in Nat
  BY <1>1, ConcatProperties
<1>3. QED
  BY <1>2 DEF a, c

\* A set of numbers up to n that is not empty has a greatest one, which is its Max.
LEMMA Maximo ==
  ASSUME NEW n \in Nat, NEW S, S \subseteq 0 .. n, S # {}
  PROVE  Max(S) \in S /\ \A k \in S : k <= Max(S)
<1> DEFINE T == {i \in 0 .. n : n - i \in S}
<1>1. T \subseteq Nat
  OBVIOUS
<1>2. T # {}
  <2>1. PICK k \in S : TRUE
    OBVIOUS
  <2>2. n - k \in 0 .. n /\ n - (n - k) = k
    BY <2>1
  <2>3. QED
    BY <2>1, <2>2
<1> HIDE DEF T
<1>3. PICK m \in T : \A i \in T : m <= i
  BY <1>1, <1>2, Minimo
<1>4. n - m \in S /\ m \in 0 .. n
  BY <1>3 DEF T
<1>5. \A k \in S : n - m >= k
  <2> TAKE k \in S
  <2>1. n - k \in 0 .. n /\ n - (n - k) = k /\ k \in 0 .. n
    OBVIOUS
  <2>2. n - k \in T
    BY <2>1 DEF T
  <2>3. m <= n - k
    BY <1>3, <2>2
  <2>4. QED
    BY <1>4, <2>1, <2>3
<1>6. \E x \in S : \A y \in S : x >= y
  BY <1>4, <1>5
<1>7. Max(S) \in S /\ \A y \in S : Max(S) >= y
  BY <1>6 DEF Max
<1>8. \A y \in S : y \in Int
  OBVIOUS
<1>9. QED
  BY <1>7, <1>8

\* What Completos counts.
LEMMA CompletosEs ==
  ASSUME texto \in Seq(CP), orig \in Encodings, NEW n \in Nat, Len(Marca(orig)) <= n
  PROVE  LET c == Completos(n)
         IN  /\ c \in 0 .. Len(texto) /\ Len(Hasta(orig, texto, c)) <= n
             /\ \A k \in 0 .. Len(texto) : Len(Hasta(orig, texto, k)) <= n => k <= c
<1> DEFINE S == {k \in 0 .. Len(texto) : Len(Hasta(orig, texto, k)) <= n} \cup {0}
           N == Len(texto)
           c == Completos(n)
<1>1. c = Max(S)
  BY DEF Completos, Hasta
<1>2. N \in Nat /\ S \subseteq 0 .. N /\ S # {}
  OBVIOUS
<1>3. Len(Hasta(orig, texto, 0)) <= n
  BY HastaEs
<1>4. Max(S) \in S /\ \A k \in S : k <= Max(S)
  <2> HIDE DEF S, N
  <2>1. QED
    BY <1>2, Maximo
<1>5. \A k \in 0 .. N : Len(Hasta(orig, texto, k)) <= n => k \in S
  OBVIOUS
<1>6. \A k \in S : k \in 0 .. N /\ Len(Hasta(orig, texto, k)) <= n
  BY <1>2, <1>3
<1> HIDE DEF S, N, c
<1>7. c \in 0 .. N /\ Len(Hasta(orig, texto, c)) <= n
  BY <1>1, <1>4, <1>6
<1>8. \A k \in 0 .. N : Len(Hasta(orig, texto, k)) <= n => k <= c
  BY <1>1, <1>4, <1>5
<1>9. QED
  BY <1>7, <1>8 DEF N, c

\* The first n bytes of the input are whole code points and a part of one, at
\* which the loop stops.
LEMMA Trozo ==
  ASSUME texto \in Seq(CP), orig \in Encodings, entrada = Archivo(orig, texto),
         NEW n \in Nat, Len(Marca(orig)) <= n, n <= Len(entrada)
  PROVE  LET c == Completos(n)
             r == SubSeq(entrada, Len(Hasta(orig, texto, c)) + 1, n)
         IN  /\ r \in Seq(Byte) /\ SubSeq(entrada, 1, n) = Hasta(orig, texto, c) \o r
             /\ Consumidos(orig, r) = 0 \/ Consumidos(orig, r) > Len(r)
             /\ Consumidos(orig, r) > 0 => orig = "UTF8" /\ Cortado(n)
<1> DEFINE c == Completos(n)
           N == Len(texto)
           h == Hasta(orig, texto, c)
           L == Len(h)
           r == SubSeq(entrada, L + 1, n)
<1>1. /\ c \in 0 .. N /\ L <= n
      /\ \A k \in 0 .. N : Len(Hasta(orig, texto, k)) <= n => k <= c
  BY CompletosEs
<1>2. N \in Nat /\ N \in c .. N /\ c <= N
  BY <1>1
<1>3. PICK w \in Seq(Byte) : entrada = h \o w
  <2>1. /\ Hasta(orig, texto, N) = h \o Cuerpo(orig, SubSeq(texto, c + 1, N))
        /\ Cuerpo(orig, SubSeq(texto, c + 1, N)) \in Seq(Byte)
    BY <1>1, <1>2, HastaMas
  <2>2. Hasta(orig, texto, N) = entrada
    BY HastaEs
  <2>3. QED
    BY <2>1, <2>2
<1>4. h \in Seq(Byte) /\ L \in Nat
  <2>1. h \in Seq(Byte)
    BY <1>1, <1>2, HastaMas
  <2>2. QED
    BY <2>1
<1>5. Cortado(n) <=> L < n
  BY DEF Cortado, Hasta
<1> HIDE DEF c, h, N
<1>6. entrada \in Seq(Byte) /\ SubSeq(entrada, 1, L) = h
  BY <1>3, <1>4, Detras
<1> HIDE DEF L
<1>7. SubSeq(entrada, 1, L) \o r = SubSeq(entrada, 1, n)
  <2>1. 1 \in 1 .. Len(entrada) + 1 /\ L \in 1 - 1 .. Len(entrada) /\ n \in L .. Len(entrada)
    BY <1>1, <1>4, <1>6
  <2>2. QED
    BY <1>6, <2>1, ConcatAdjacentSubSeq
<1>8. r \in Seq(Byte) /\ Len(r) = n - L /\ \A i \in 1 .. n - L : r[i] = entrada[L + i]
  <2>1. L + 1 \in Int /\ n \in Int /\ \A i \in L + 1 .. n : entrada[i] \in Byte
    BY <1>4, <1>6
  <2>2. /\ r \in Seq(Byte) /\ Len(r) = (IF L + 1 <= n THEN n - (L + 1) + 1 ELSE 0)
        /\ \A i \in 1 .. n - (L + 1) + 1 : r[i] = entrada[L + 1 + i - 1]
    BY <2>1, SubSeqProperties
  <2> HIDE DEF r
  <2>3. Len(r) = n - L
    BY <1>1, <1>4, <2>2
  <2>4. \A i \in 1 .. n - L : i \in 1 .. n - (L + 1) + 1 /\ L + 1 + i - 1 = L + i
    BY <1>4
  <2>5. \A i \in 1 .. n - L : r[i] = entrada[L + i]
    BY <2>2, <2>4
  <2>6. QED
    BY <2>2, <2>3, <2>5
<1> HIDE DEF r
<1>9. CASE c = N
  <2>1. h = entrada
    BY <1>9, HastaEs DEF h, N
  <2>2. L = n
    BY <1>1, <1>4, <2>1 DEF L
  <2>3. r = <<>>
    BY <1>4, <1>8, <2>2
  <2>4. Consumidos(orig, r) = 0
    <3>1. Len(<<>>) = 0 /\ ~ (0 >= 4)
      OBVIOUS
    <3>2. QED
      BY <2>3, <3>1 DEF Consumidos, ConsumidosUTF8, ConsumidosUTF16, ConsumidosUTF32
  <2>5. ~ (Consumidos(orig, r) > 0)
    BY <2>4
  <2>6. SubSeq(entrada, 1, n) = h \o r
    BY <1>6, <1>7
  <2>7. QED
    BY <1>8, <2>4, <2>5, <2>6 DEF c, r, L, h
<1>10. CASE c # N
  <2> DEFINE x == texto[c + 1]
             f == Forma(orig, x)
             g == Hasta(orig, texto, c + 1)
  <2>1. c < N /\ c + 1 \in 0 .. N /\ N \in c + 1 .. N
    BY <1>1, <1>2, <1>10
  <2>2. x \in CP /\ g = h \o f
    BY <1>1, <2>1, HastaUno DEF h, N
  <2>3. f \in Seq(Byte) /\ Len(f) \in Nat
    BY <2>2, Escribe
  <2>4. PICK v \in Seq(Byte) : entrada = g \o v
    <3>1. /\ Hasta(orig, texto, N) = g \o Cuerpo(orig, SubSeq(texto, c + 1 + 1, N))
          /\ Cuerpo(orig, SubSeq(texto, c + 1 + 1, N)) \in Seq(Byte)
      BY <2>1, HastaMas DEF N
    <3>2. Hasta(orig, texto, N) = entrada
      BY HastaEs DEF N
    <3>3. QED
      BY <3>1, <3>2
  <2>5. ~ (Len(g) <= n)
    <3>1. ~ (c + 1 <= c)
      BY <1>1
    <3>2. QED
      BY <1>1, <2>1, <3>1
  <2> HIDE DEF f, g, x
  <2>6. g \in Seq(Byte) /\ Len(g) = L + Len(f) /\ \A i \in 1 .. Len(f) : g[L + i] = f[i]
    <3>1. /\ g \in Seq(Byte) /\ Len(g) = L + Len(f)
          /\ \A i \in 1 .. L + Len(f) : g[i] = IF i <= L THEN h[i] ELSE f[i - L]
      BY <1>4, <2>2, <2>3, ConcatProperties DEF L
    <3>2. \A i \in 1 .. Len(f) : L + i \in 1 .. L + Len(f) /\ ~ (L + i <= L) /\ (L + i) - L = i
      BY <1>4, <2>3
    <3>3. QED
      BY <3>1, <3>2
  <2>7. Len(r) < Len(f)
    BY <1>4, <1>8, <2>3, <2>5, <2>6
  <2>8. \A k \in 1 .. Len(r) : r[k] = f[k]
    <3> TAKE k \in 1 .. Len(r)
    <3>1. k \in 1 .. n - L /\ k \in 1 .. Len(f) /\ L + k \in 1 .. Len(g) /\ Len(v) \in Nat
      BY SMTT(60), <1>4, <1>8, <2>3, <2>4, <2>6, <2>7
    <3>2. entrada[L + k] = g[L + k]
      <4>1. L + k \in 1 .. Len(g) + Len(v) /\ L + k <= Len(g)
        BY <2>3, <2>6, <3>1
      <4>2. \A i \in 1 .. Len(g) + Len(v) : (g \o v)[i] = IF i <= Len(g) THEN g[i] ELSE v[i - Len(g)]
        BY SMTT(60), <2>6, ConcatProperties
      <4>3. QED
        BY <2>4, <4>1, <4>2
    <3>3. QED
      BY <1>8, <2>6, <3>1, <3>2
  <2>9. Consumidos(orig, r) = IF orig = "UTF8" /\ r # <<>> THEN Len(f) ELSE 0
    BY <1>8, <2>2, <2>7, <2>8, Espera DEF f
  <2>10. r # <<>> => L < n
    BY <1>4, <1>8
  <2>11. Consumidos(orig, r) = 0 \/ Consumidos(orig, r) > Len(r)
    <3>1. Len(f) > Len(r)
      BY <1>8, <2>3, <2>7
    <3>2. QED
      BY <2>9, <3>1
  <2>12. Consumidos(orig, r) > 0 => orig = "UTF8" /\ L < n
    BY <2>9, <2>10
  <2>13. QED
    BY <1>5, <1>6, <1>7, <1>8, <2>11, <2>12 DEF c, r, L, h
<1>11. QED
  BY <1>9, <1>10

\* An iteration: what it decodes is the text that it has read and not yet
\* converted, and what it leaves is the part of a code point.
LEMMA Avance ==
  ASSUME texto \in Seq(CP), orig \in Encodings, entrada = Archivo(orig, texto),
         NEW j \in 0 .. Len(texto), NEW n \in Nat, NEW m \in Nat, n <= m, m <= Len(entrada),
         NEW p \in Seq(Byte), SubSeq(entrada, 1, n) = Hasta(orig, texto, j) \o p
  PROVE  LET c == Completos(m)
             d == orig_to_ucs4(orig, p \o SubSeq(entrada, n + 1, m))
         IN  /\ c \in j .. Len(texto) /\ d.cps = SubSeq(texto, j + 1, c)
             /\ d.resto \in Seq(Byte) /\ SubSeq(entrada, 1, m) = Hasta(orig, texto, c) \o d.resto
             /\ d.pasado => orig = "UTF8" /\ Cortado(m)
<1> DEFINE N == Len(texto)
           c == Completos(m)
           h == Hasta(orig, texto, j)
           r == SubSeq(entrada, Len(Hasta(orig, texto, c)) + 1, m)
           q == SubSeq(entrada, n + 1, m)
           d == orig_to_ucs4(orig, p \o q)
<1>1. N \in Nat /\ 0 \in 0 .. N /\ j \in 0 .. N /\ N \in 0 .. N
  OBVIOUS
<1>2. h \in Seq(Byte) /\ Len(h) \in Nat /\ Len(Marca(orig)) <= Len(h) /\ entrada \in Seq(Byte)
  <2>1. Len(Hasta(orig, texto, 0)) <= Len(h) /\ Len(h) \in Nat
    BY <1>1, HastaLen
  <2>2. h \in Seq(Byte) /\ Hasta(orig, texto, N) \in Seq(Byte)
    BY <1>1, HastaMas
  <2>3. QED
    BY <2>1, <2>2, HastaEs
<1>3. Len(h) <= n
  <2>1. Len(SubSeq(entrada, 1, n)) = n
    <3>1. Len(entrada) \in Nat /\ n <= Len(entrada)
      BY <1>2
    <3>2. 1 \in Int /\ n \in Int /\ \A i \in 1 .. n : entrada[i] \in Byte
      BY <1>2, <3>1
    <3>3. Len(SubSeq(entrada, 1, n)) = IF 1 <= n THEN n - 1 + 1 ELSE 0
      BY <3>2, SubSeqProperties
    <3>4. QED
      BY <3>3
  <2> HIDE DEF h
  <2>2. Len(h \o p) = Len(h) + Len(p) /\ Len(p) \in Nat
    BY <1>2, ConcatProperties
  <2>3. h \o p = SubSeq(entrada, 1, n)
    BY DEF h
  <2>4. QED
    BY <1>2, <2>1, <2>2, <2>3
<1>4. Len(Marca(orig)) <= m
  <2>1. Len(Marca(orig)) \in Nat
    BY MarcaEscrita
  <2>2. QED
    BY <1>2, <1>3, <2>1
<1>5. c \in 0 .. N /\ j <= c
  <2>1. Len(h) <= m
    BY <1>2, <1>3
  <2>2. QED
    BY <1>1, <1>4, <2>1, CompletosEs
<1>6. /\ r \in Seq(Byte) /\ SubSeq(entrada, 1, m) = Hasta(orig, texto, c) \o r
      /\ Consumidos(orig, r) = 0 \/ Consumidos(orig, r) > Len(r)
      /\ Consumidos(orig, r) > 0 => orig = "UTF8" /\ Cortado(m)
  BY <1>4, Trozo
<1> DEFINE u == SubSeq(texto, j + 1, c)
           b == Cuerpo(orig, u)
<1>7. u \in Seq(CP) /\ b \in Seq(Byte) /\ Hasta(orig, texto, c) = h \o b
  <2>1. c \in j .. N
    BY <1>1, <1>5
  <2>2. QED
    BY <1>1, <2>1, Entre, HastaMas
<1> HIDE DEF c, h, r
<1>8. q \in Seq(Byte) /\ SubSeq(entrada, 1, m) = SubSeq(entrada, 1, n) \o q
  <2>1. Len(entrada) \in Nat
    BY <1>2
  <2>2. n + 1 \in Int /\ m \in Int /\ \A i \in n + 1 .. m : entrada[i] \in Byte
    BY <1>2, <2>1
  <2>3. q \in Seq(Byte)
    BY <2>2, SubSeqProperties
  <2>4. 1 \in 1 .. Len(entrada) + 1 /\ n \in 1 - 1 .. Len(entrada) /\ m \in n .. Len(entrada)
    BY <2>1
  <2>5. QED
    BY <1>2, <2>3, <2>4, ConcatAdjacentSubSeq
<1> HIDE DEF q, u, b
<1>9. p \o q = b \o r
  <2>1. p \o q \in Seq(Byte) /\ b \o r \in Seq(Byte)
    BY <1>6, <1>7, <1>8, ConcatProperties
  <2>2. SubSeq(entrada, 1, m) = h \o (p \o q)
    <3>1. SubSeq(entrada, 1, m) = (h \o p) \o q
      BY <1>8 DEF h
    <3>2. (h \o p) \o q = h \o (p \o q)
      <4>1. h \in Seq(Byte) /\ p \in Seq(Byte) /\ q \in Seq(Byte)
        BY <1>2, <1>8
      <4>2. QED
        BY ONLY <4>1, ConcatAssociative
    <3>3. QED
      BY <3>1, <3>2
  <2>3. SubSeq(entrada, 1, m) = h \o (b \o r)
    <3>1. (h \o b) \o r = h \o (b \o r)
      <4>1. h \in Seq(Byte) /\ b \in Seq(Byte) /\ r \in Seq(Byte)
        BY <1>2, <1>6, <1>7
      <4>2. QED
        BY ONLY <4>1, ConcatAssociative
    <3>2. QED
      BY <1>6, <1>7, <3>1
  <2> DEFINE s == p \o q
             t == b \o r
  <2> HIDE DEF s, t
  <2>4. s \in Seq(Byte) /\ t \in Seq(Byte) /\ h \o s = h \o t
    BY <2>1, <2>2, <2>3 DEF s, t
  <2>5. s = t
    BY <1>2, <2>4, ConcatSimplifications
  <2>6. QED
    BY <2>5 DEF s, t
<1>10. d = [cps |-> u, resto |-> r, pasado |-> Consumidos(orig, r) > 0]
  <2>1. orig_to_ucs4(orig, Cuerpo(orig, u) \o r) = [cps |-> u, resto |-> r, pasado |-> Consumidos(orig, r) > 0]
    BY <1>6, <1>7, Decodifica
  <2>2. QED
    BY <1>9, <2>1 DEF b
<1>11. d.cps = u /\ d.resto = r /\ d.pasado = (Consumidos(orig, r) > 0)
  <2> DEFINE w == Consumidos(orig, r) > 0
  <2> HIDE DEF d, w
  <2>1. d = [cps |-> u, resto |-> r, pasado |-> w]
    BY <1>10 DEF w
  <2>2. d.cps = u /\ d.resto = r /\ d.pasado = w
    BY <2>1
  <2>3. QED
    BY <2>2 DEF w
<1> HIDE DEF d
<1>12. c \in j .. N
  BY <1>1, <1>5
<1>13. d.pasado => orig = "UTF8" /\ Cortado(m)
  BY <1>6, <1>11
<1>14. QED
  BY <1>6, <1>11, <1>12, <1>13 DEF c, d, u, q, N

-----------------------------------------------------------------------------
(***************************************************************************)
(* bom_to_encoding: the encoding of a file by its first four bytes.        *)
(***************************************************************************)

\* Bytes of which UTF-8 is made: those of the marks are not.
ByteUTF8 == {x \in Byte : x < 254}

\* They are the bytes of any text in it.
LEMMA CuerpoUTF8 ==
  ASSUME NEW t \in Seq(CP)
  PROVE  Cuerpo("UTF8", t) \in Seq(ByteUTF8)
<1>1. ASSUME NEW cp \in CP PROVE Forma("UTF8", cp) \in Seq(ByteUTF8)
  <2> DEFINE s == Formas[cp].utf8
  <2>1. Forma("UTF8", cp) = s
    BY DEF Forma
  <2>2. EsUTF8(cp, s)
    BY FormasSon
  <2> HIDE DEF s
  <2>3. /\ s \in Seq(Byte)
        /\ Len(s) = 1 \/ Len(s) = 2 \/ Len(s) = 3 \/ Len(s) = 4
        /\ Len(s) > 1 => s[2] \in Nat /\ s[2] < 192
        /\ Len(s) > 2 => s[3] \in Nat /\ s[3] < 192
        /\ Len(s) > 3 => s[4] \in Nat /\ s[4] < 192
    BY <2>2, SiguientesUTF8
  <2>4. s[1] \in Nat /\ s[1] < 245
    <3>1. Len(<<>>) = 0 /\ Len(s) # 0
      BY SMTT(60), <2>3
    <3>2. s # <<>>
      BY <3>1
    <3>3. QED
      BY <2>2, <3>2, PrimeroUTF8
  <2>5. ASSUME NEW k \in 1 .. Len(s) PROVE s[k] \in ByteUTF8
    <3> DEFINE n == Len(s)
    <3>a. k \in 1 .. n /\ (n = 1 \/ n = 2 \/ n = 3 \/ n = 4)
      BY <2>3
    <3> HIDE DEF n
    <3>b. k = 1 \/ (k = 2 /\ n > 1) \/ (k = 3 /\ n > 2) \/ (k = 4 /\ n > 3)
      BY ONLY SMT, <3>a
    <3>1. k = 1 \/ (k = 2 /\ Len(s) > 1) \/ (k = 3 /\ Len(s) > 2) \/ (k = 4 /\ Len(s) > 3)
      BY <3>b DEF n
    <3>2. s[k] < 254
      BY SMT, <2>3, <2>4, <3>1
    <3>3. s[k] \in Byte
      BY <2>3, ElementOfSeq
    <3>4. QED
      BY <3>2, <3>3 DEF ByteUTF8
  <2>6. s \in Seq(ByteUTF8)
    <3>1. Len(s) \in Nat /\ s \in [1 .. Len(s) -> Byte]
      BY <2>3, LenProperties
    <3>2. s \in [1 .. Len(s) -> ByteUTF8]
      BY <2>5, <3>1
    <3>3. QED
      BY <3>1, <3>2
  <2>7. QED
    BY <2>1, <2>6
<1>2. [k \in DOMAIN t |-> Forma("UTF8", t[k])] \in Seq(Seq(ByteUTF8))
  <2>1. Len(t) \in Nat /\ DOMAIN t = 1 .. Len(t) /\ \A k \in 1 .. Len(t) : t[k] \in CP
    OBVIOUS
  <2> DEFINE q == [k \in DOMAIN t |-> Forma("UTF8", t[k])]
             S == Seq(ByteUTF8)
  <2> HIDE DEF S
  <2>2. q \in [1 .. Len(t) -> S]
    BY <1>1, <2>1 DEF S
  <2> HIDE DEF q
  <2>3. q \in Seq(S)
    BY <2>1, <2>2
  <2>4. QED
    BY <2>3 DEF q, S
<1>3. <<>> \in Seq(ByteUTF8)
  OBVIOUS
<1>4. QED
  BY <1>2, <1>3, AplanadaMas DEF Cuerpo

\* In UTF-16 the first two bytes of a code point are 0 only if it is U+0000.
LEMMA DosCeros ==
  ASSUME NEW cp \in CP
  PROVE  LET f == Forma("UTF16LE", cp)
         IN  /\ f \in Seq(Byte) /\ Len(f) >= 2 /\ Len(f) \in Nat
             /\ f[1] = 0 /\ f[2] = 0 <=> cp = 0
<1> DEFINE f == Forma("UTF16LE", cp)
<1>0. "UTF16LE" \in UTF16 /\ \A u : Bytes("UTF16LE", u) = <<u % 256, u \div 256>>
  BY SMT DEF UTF16, Bytes, LittleEndian
<1>1. CASE EsUnidad(cp) /\ f = Bytes("UTF16LE", cp)
  <2>1. cp \in Nat /\ cp < 65536
    BY <1>1 DEF EsUnidad
  <2>2. f \in Seq(Byte) /\ Len(f) = 2
    BY <1>1, <2>1, LenBytes
  <2>3. f[1] = cp % 256 /\ f[2] = cp \div 256
    BY <1>0, <1>1
  <2>4. cp % 256 = 0 /\ cp \div 256 = 0 <=> cp = 0
    BY SMT, <2>1
  <2> HIDE DEF f
  <2>5. QED
    BY <2>2, <2>3, <2>4 DEF f
<1>2. ASSUME NEW u, NEW v, SonPareja(u, v, cp), f = Bytes("UTF16LE", u) \o Bytes("UTF16LE", v)
      PROVE  f \in Seq(Byte) /\ Len(f) = 4 /\ ~ (f[1] = 0 /\ f[2] = 0) /\ cp # 0
  <2>1. u \in Nat /\ v \in Nat /\ 55296 <= u /\ u < 65536 /\ v < 65536 /\ cp # 0
    BY SMT, <1>2 DEF SonPareja
  <2> DEFINE a == Bytes("UTF16LE", u)
             b == Bytes("UTF16LE", v)
  <2>2. a \in Seq(Byte) /\ Len(a) = 2 /\ b \in Seq(Byte) /\ Len(b) = 2
    BY <2>1, LenBytes
  <2>3. a[1] = u % 256 /\ a[2] = u \div 256
    BY <1>0
  <2>4. ~ (u \div 256 = 0)
    BY SMT, <2>1
  <2> HIDE DEF a, b, f
  <2>5. f = a \o b
    BY <1>2 DEF a, b
  <2>6. f \in Seq(Byte) /\ Len(f) = 4 /\ f[2] = a[2]
    <3>1. /\ f \in Seq(Byte) /\ Len(f) = Len(a) + Len(b)
          /\ \A i \in 1 .. Len(a) + Len(b) : f[i] = IF i <= Len(a) THEN a[i] ELSE b[i - Len(a)]
      BY <2>2, <2>5, ConcatProperties
    <3>2. QED
      BY SMT, <2>2, <3>1
  <2>7. QED
    BY <2>1, <2>3, <2>4, <2>6
<1>3. CASE \E u, v : SonPareja(u, v, cp) /\ f = Bytes("UTF16LE", u) \o Bytes("UTF16LE", v)
  <2>1. f \in Seq(Byte) /\ Len(f) = 4 /\ ~ (f[1] = 0 /\ f[2] = 0) /\ cp # 0
    BY <1>2, <1>3
  <2> HIDE DEF f
  <2>2. QED
    BY <2>1 DEF f
<1>4. QED
  BY <1>0, <1>1, <1>3, FormaUTF16

\* A file's body is that of its first code point and then the others.
LEMMA CuerpoPrimero ==
  ASSUME NEW enc \in Encodings, NEW t \in Seq(CP), t # <<>>
  PROVE  /\ t[1] \in CP
         /\ \E w \in Seq(Byte) : Cuerpo(enc, t) = Forma(enc, t[1]) \o w
<1>1. t[1] \in CP /\ Tail(t) \in Seq(CP) /\ <<t[1]>> \in Seq(CP) /\ t = <<t[1]>> \o Tail(t)
  OBVIOUS
<1>2. Cuerpo(enc, <<t[1]>> \o Tail(t)) = Cuerpo(enc, <<t[1]>>) \o Cuerpo(enc, Tail(t))
  BY <1>1, CuerpoJunto
<1>3. Cuerpo(enc, <<t[1]>>) = Forma(enc, t[1]) /\ Cuerpo(enc, Tail(t)) \in Seq(Byte)
  BY <1>1, CuerpoEs
<1>4. QED
  BY <1>1, <1>2, <1>3

\* A sequence of four.
LEMMA DeCuatro ==
  ASSUME NEW s \in Seq(Byte), Len(s) = 4, NEW a, NEW b, NEW c, NEW d
  PROVE  s = <<a, b, c, d>> <=> s[1] = a /\ s[2] = b /\ s[3] = c /\ s[4] = d
BY SMT

\* What the first four bytes of a file are.
LEMMA Primeros ==
  ASSUME NEW enc \in Encodings, NEW t \in Seq(CP), Len(Archivo(enc, t)) >= 4
  PROVE  LET s == SubSeq(Archivo(enc, t), 1, 4)
         IN  /\ s \in Seq(Byte) /\ Len(s) = 4
             /\ \A k \in 1 .. 4 :
                  s[k] = IF k <= Len(Marca(enc)) THEN Marca(enc)[k] ELSE Cuerpo(enc, t)[k - Len(Marca(enc))]
             /\ Len(Archivo(enc, t)) = Len(Marca(enc)) + Len(Cuerpo(enc, t))
<1> DEFINE a == Archivo(enc, t)
           m == Marca(enc)
           c == Cuerpo(enc, t)
           s == SubSeq(a, 1, 4)
<1>1. m \in Seq(Byte) /\ c \in Seq(Byte) /\ a = m \o c
  BY MarcaEscrita, CuerpoEs DEF Archivo, Cuerpo
<1> HIDE DEF m, c
<1>2. /\ a \in Seq(Byte) /\ Len(a) = Len(m) + Len(c)
      /\ \A i \in 1 .. Len(m) + Len(c) : a[i] = IF i <= Len(m) THEN m[i] ELSE c[i - Len(m)]
  BY <1>1, ConcatProperties
<1>3. Len(a) \in Nat /\ Len(a) >= 4
  BY <1>2
<1> HIDE DEF a
<1>4. \A i \in 1 .. 4 : a[i] \in Byte /\ i \in 1 .. Len(m) + Len(c)
  BY <1>2, <1>3
<1>5. /\ s \in Seq(Byte) /\ Len(s) = (IF 1 <= 4 THEN 4 - 1 + 1 ELSE 0)
      /\ \A i \in 1 .. 4 - 1 + 1 : s[i] = a[1 + i - 1]
  BY <1>4, SubSeqProperties
<1> HIDE DEF s
<1>6. Len(s) = 4 /\ \A i \in 1 .. 4 : s[i] = a[i]
  <2>1. \A i \in 1 .. 4 : i \in 1 .. 4 - 1 + 1 /\ 1 + i - 1 = i
    OBVIOUS
  <2>2. QED
    BY <1>5, <2>1
<1>7. QED
  BY <1>2, <1>4, <1>5, <1>6 DEF s, a, m, c

\* The four bytes tell the encoding, but for U+0000 in UTF-16LE, and which of
\* them are the text's.
LEMMA Deteccion ==
  ASSUME NEW enc \in Encodings, NEW t \in Seq(CP), Len(Archivo(enc, t)) >= 4
  PROVE  LET s == SubSeq(Archivo(enc, t), 1, 4)
             nulo == enc = "UTF16LE" /\ t # <<>> /\ t[1] = 0
         IN  /\ s \in Seq(Byte) /\ Len(s) = 4
             /\ bom_to_encoding(s) = IF nulo THEN "UTF32LE" ELSE enc
             /\ Prefijo(enc, s) \in Seq(Byte)
             /\ s = Marca(enc) \o Prefijo(enc, s)
<1> DEFINE s == SubSeq(Archivo(enc, t), 1, 4)
           m == Marca(enc)
           c == Cuerpo(enc, t)
           nulo == enc = "UTF16LE" /\ t # <<>> /\ t[1] = 0
<1>1. /\ s \in Seq(Byte) /\ Len(s) = 4
      /\ \A k \in 1 .. 4 : s[k] = IF k <= Len(m) THEN m[k] ELSE c[k - Len(m)]
      /\ Len(Archivo(enc, t)) = Len(m) + Len(c)
  BY Primeros
<1>2. Len(m) + Len(c) >= 4
  BY <1>1
<1> HIDE DEF s, c
<1> DEFINE Son(a, b, d, e) == s = <<a, b, d, e>> <=> s[1] = a /\ s[2] = b /\ s[3] = d /\ s[4] = e
<1>3. \A a, b, d, e : Son(a, b, d, e)
  BY <1>1, DeCuatro
<1>4. /\ s = <<0, 0, 254, 255>> <=> s[1] = 0 /\ s[2] = 0 /\ s[3] = 254 /\ s[4] = 255
      /\ s = <<255, 254, 0, 0>> <=> s[1] = 255 /\ s[2] = 254 /\ s[3] = 0 /\ s[4] = 0
  <2> HIDE DEF Son
  <2>1. Son(0, 0, 254, 255) /\ Son(255, 254, 0, 0)
    BY SMT, <1>3
  <2>2. QED
    BY SMT, <2>1 DEF Son
<1> HIDE DEF Son
<1>5. bom_to_encoding(s) =
        IF s[1] = 254 /\ s[2] = 255 THEN "UTF16BE"
        ELSE IF s[1] = 0 /\ s[2] = 0 /\ s[3] = 254 /\ s[4] = 255 THEN "UTF32BE"
        ELSE IF s[1] = 255 /\ s[2] = 254 /\ s[3] = 0 /\ s[4] = 0 THEN "UTF32LE"
        ELSE IF s[1] = 255 /\ s[2] = 254 THEN "UTF16LE" ELSE "UTF8"
  BY SMT, <1>4 DEF bom_to_encoding
\* Those after the mark.
<1>6. ASSUME NEW i \in {0, 2, 4}, Len(m) = i, SubSeq(s, i + 1, 4) = Prefijo(enc, s)
      PROVE  Prefijo(enc, s) \in Seq(Byte) /\ s = m \o Prefijo(enc, s)
  <2>1. SubSeq(s, 1, i) \o SubSeq(s, i + 1, 4) = SubSeq(s, 1, 4) /\ SubSeq(s, 1, 4) = s
    <3>1. 1 \in 1 .. Len(s) + 1 /\ i \in 1 - 1 .. Len(s) /\ 4 \in i .. Len(s)
      BY <1>1, <1>6
    <3>2. SubSeq(s, 1, Len(s)) = s
      BY <1>1, SubSeqFull
    <3>3. s \in Seq(Byte)
      BY <1>1
    <3>4. SubSeq(s, 1, i) \o SubSeq(s, i + 1, 4) = SubSeq(s, 1, 4)
      BY ONLY <3>1, <3>3, ConcatAdjacentSubSeq
    <3>5. Len(s) = 4
      BY <1>1
    <3>6. SubSeq(s, 1, 4) = s
      BY ONLY <3>2, <3>5
    <3>7. QED
      BY ONLY <3>4, <3>6
  <2>2. \A k \in 1 .. 4 : s[k] \in Byte
    <3>1. s \in Seq(Byte) /\ Len(s) = 4
      BY <1>1
    <3>2. QED
      BY ONLY <3>1, ElementOfSeq
  <2>3. SubSeq(s, 1, i) = m
    <3> DEFINE p == SubSeq(s, 1, i)
    <3>1. \A k \in 1 .. i : s[k] \in Byte /\ s[k] = m[k]
      BY <1>1, <1>6, <2>2
    <3>2. /\ p \in Seq(Byte) /\ Len(p) = (IF 1 <= i THEN i - 1 + 1 ELSE 0)
          /\ \A k \in 1 .. i - 1 + 1 : p[k] = s[1 + k - 1]
      <4>1. 1 \in Int /\ i \in Int /\ \A k \in 1 .. i : s[k] \in Byte
        BY <3>1
      <4>2. QED
        BY <4>1, SubSeqProperties
    <3> HIDE DEF p, m
    <3>3. Len(p) = i /\ \A k \in 1 .. i : p[k] = m[k]
      <4>1. \A k \in 1 .. i : k \in 1 .. i - 1 + 1 /\ 1 + k - 1 = k
        OBVIOUS
      <4>2. QED
        BY <3>1, <3>2, <4>1
    <3>4. m \in Seq(Byte)
      BY MarcaEscrita DEF m
    <3>5. p = m
      BY <1>6, <3>2, <3>3, <3>4, SeqEqual
    <3>6. QED
      BY <3>5 DEF p
  <2>4. SubSeq(s, i + 1, 4) \in Seq(Byte)
    <3>1. i + 1 \in Int /\ 4 \in Int /\ \A k \in i + 1 .. 4 : s[k] \in Byte
      BY <1>6, <2>2
    <3>2. QED
      BY <3>1, SubSeqProperties
  <2>5. QED
    BY <1>6, <2>1, <2>3, <2>4
<1>7. CASE enc = "UTF8"
  <2>1. m = <<>> /\ Len(m) = 0
    BY <1>7 DEF Marca
  <2>2. \A k \in 1 .. 4 : s[k] = c[k]
    BY <1>1, <2>1
  <2>3. c \in Seq(ByteUTF8) /\ Len(c) >= 4
    BY <1>2, <1>7, <2>1, CuerpoUTF8 DEF c
  <2>4. \A k \in 1 .. 4 : s[k] \in Nat /\ s[k] < 254
    <3> TAKE k \in 1 .. 4
    <3>1. c[k] \in ByteUTF8
      BY <2>3
    <3>2. c[k] \in Nat /\ c[k] < 254
      BY <3>1, ByteSon DEF ByteUTF8
    <3>3. QED
      BY <2>2, <3>2
  <2>5. s[1] # 254 /\ s[1] # 255 /\ s[3] # 254
    BY <2>4
  <2>6. bom_to_encoding(s) = "UTF8"
    BY SMT, <1>5, <2>5
  <2>7. SubSeq(s, 0 + 1, 4) = Prefijo(enc, s)
    <3>1. SubSeq(s, 1, Len(s)) = s
      BY <1>1, SubSeqFull
    <3>2. QED
      BY <1>1, <1>7, <3>1 DEF Prefijo
  <2>8. QED
    BY <1>1, <1>6, <1>7, <2>1, <2>6, <2>7 DEF s
<1>8. CASE enc = "UTF16BE"
  <2>1. Len(m) = 2 /\ m[1] = 254 /\ m[2] = 255
    BY <1>8 DEF Marca
  <2>2. s[1] = 254 /\ s[2] = 255
    BY <1>1, <2>1
  <2>3. bom_to_encoding(s) = "UTF16BE"
    BY SMT, <1>5, <2>2
  <2>4. SubSeq(s, 2 + 1, 4) = Prefijo(enc, s)
    BY <1>8 DEF Prefijo, UTF16
  <2>5. QED
    BY <1>1, <1>6, <1>8, <2>1, <2>3, <2>4 DEF s
<1>9. CASE enc = "UTF16LE"
  <2>1. Len(m) = 2 /\ m[1] = 255 /\ m[2] = 254
    BY <1>9 DEF Marca
  <2>2. s[1] = 255 /\ s[2] = 254 /\ s[3] = c[1] /\ s[4] = c[2]
    BY <1>1, <2>1
  <2>3. t # <<>>
    <3>1. ASSUME t = <<>> PROVE FALSE
      <4>1. c = <<>>
        BY <3>1, CuerpoVacio DEF c
      <4>2. Len(c) = 0
        BY <4>1
      <4>3. QED
        BY <1>2, <2>1, <4>2
    <3>2. QED
      BY <3>1
  <2>4. s[3] = 0 /\ s[4] = 0 <=> t[1] = 0
    <3> DEFINE f == Forma("UTF16LE", t[1])
    <3>1. t[1] \in CP /\ \E w \in Seq(Byte) : c = f \o w
      BY <1>9, <2>3, CuerpoPrimero DEF c
    <3>2. PICK w \in Seq(Byte) : c = f \o w
      BY <3>1
    <3>3. f \in Seq(Byte) /\ Len(f) >= 2 /\ Len(f) \in Nat /\ (f[1] = 0 /\ f[2] = 0 <=> t[1] = 0)
      BY <3>1, DosCeros
    <3> HIDE DEF f
    <3>4. /\ Len(w) \in Nat
          /\ \A i \in 1 .. Len(f) + Len(w) : c[i] = IF i <= Len(f) THEN f[i] ELSE w[i - Len(f)]
      BY <3>2, <3>3, ConcatProperties
    <3>5. 1 \in 1 .. Len(f) + Len(w) /\ 2 \in 1 .. Len(f) + Len(w) /\ 1 <= Len(f) /\ 2 <= Len(f)
      BY <3>3, <3>4
    <3>6. c[1] = f[1] /\ c[2] = f[2]
      BY <3>4, <3>5
    <3>7. QED
      BY <2>2, <3>3, <3>6
  <2>5. bom_to_encoding(s) = IF t[1] = 0 THEN "UTF32LE" ELSE "UTF16LE"
    BY SMT, <1>5, <2>2, <2>4
  <2>6. SubSeq(s, 2 + 1, 4) = Prefijo(enc, s)
    BY <1>9 DEF Prefijo, UTF16
  <2>7. QED
    BY <1>1, <1>6, <1>9, <2>1, <2>3, <2>5, <2>6 DEF s
<1>10. CASE enc \in UTF32
  <2>1. SubSeq(s, 4 + 1, 4) = Prefijo(enc, s)
    <3>1. SubSeq(s, 4 + 1, 4) = <<>>
      BY SubSeqEmpty
    <3>2. QED
      BY <1>10, <3>1 DEF Prefijo, UTF32, UTF16
  <2>2. CASE enc = "UTF32BE"
    <3>1. Len(m) = 4 /\ m[1] = 0 /\ m[2] = 0 /\ m[3] = 254 /\ m[4] = 255
      BY <2>2 DEF Marca
    <3>2. s[1] = 0 /\ s[2] = 0 /\ s[3] = 254 /\ s[4] = 255
      BY <1>1, <3>1
    <3>3. bom_to_encoding(s) = "UTF32BE"
      BY SMT, <1>5, <3>2
    <3>4. QED
      BY <1>1, <1>6, <2>1, <2>2, <3>1, <3>3 DEF s
  <2>3. CASE enc = "UTF32LE"
    <3>1. Len(m) = 4 /\ m[1] = 255 /\ m[2] = 254 /\ m[3] = 0 /\ m[4] = 0
      BY <2>3 DEF Marca
    <3>2. s[1] = 255 /\ s[2] = 254 /\ s[3] = 0 /\ s[4] = 0
      BY <1>1, <3>1
    <3>3. bom_to_encoding(s) = "UTF32LE"
      BY SMT, <1>5, <3>2
    <3>4. QED
      BY <1>1, <1>6, <2>1, <2>3, <3>1, <3>3 DEF s
  <2>4. QED
    BY <1>10, <2>2, <2>3 DEF UTF32
<1>11. QED
  BY <1>7, <1>8, <1>9, <1>10 DEF Encodings, UTF16

-----------------------------------------------------------------------------
(***************************************************************************)
(* The program.                                                            *)
(***************************************************************************)

\* How many code points have been converted: after the first read, which is
\* bom's, none.
Convertidos == IF leidos <= 4 THEN 0 ELSE Completos(leidos)

\* The bytes at the front of inbuf are those read and not converted.
RestoAlDia == SubSeq(entrada, 1, leidos) = Hasta(orig, texto, Convertidos) \o resto

\* The output is the mark and what has been converted, unless a write failed.
SalidaBien ==
  /\ bom_bytes = IF leidos <= 4 THEN Marca(dest_enc) ELSE <<>>
  /\ fallos \subseteq {"read"} =>
       salida = IF leidos <= 4 THEN <<>> ELSE Hasta(dest_enc, texto, Convertidos)

Entorno ==
  /\ texto \in Seq(CP) /\ orig \in Encodings /\ entrada = Archivo(orig, texto)
  /\ dest_enc \in Encodings \cup {"UNKNOWN"}

Detectado == orig_enc = IF Ambiguo THEN "UTF32LE" ELSE orig

\* The inductive invariant.
RInv ==
  /\ Entorno
  /\ pc \in {"bom", "leer", "fin", "error", "indefinido"} /\ faltan \in Nat /\ leidos \in Nat
  /\ pc \in {"leer", "fin", "indefinido"} => dest_enc \in Encodings
  /\ pc = "bom" => salida = <<>>
  /\ pc \in {"leer", "fin"} /\ faltan = 0 => 4 <= leidos /\ leidos <= Len(entrada) /\ resto \in Seq(Byte)
  /\ pc \in {"leer", "fin", "indefinido"} /\ faltan = 0 => Detectado
  /\ pc \in {"leer", "fin"} /\ faltan = 0 /\ ~Ambiguo => RestoAlDia /\ SalidaBien
  /\ IndefinidoSoloSi

\* It holds at the start.
LEMMA RInvInit == Init => RInv
<1> SUFFICES ASSUME Init PROVE RInv
  OBVIOUS
<1>1. texto \in Seq(CP)
  BY RecodeAssumption DEF Init, CP
<1>2. Entorno
  BY <1>1 DEF Init, Entorno
<1>3. pc = "bom" /\ faltan = 0 /\ leidos = 0 /\ salida = <<>>
  BY DEF Init
<1>4. IndefinidoSoloSi
  BY <1>3 DEF IndefinidoSoloSi
<1>5. QED
  BY <1>2, <1>3, <1>4 DEF RInv

\* The state that a step leaves alone.
LEMMA EntornoIgual ==
  ASSUME Entorno, UNCHANGED entorno
  PROVE  /\ Entorno' /\ texto' = texto /\ orig' = orig /\ entrada' = entrada /\ dest_enc' = dest_enc
         /\ Ambiguo' = Ambiguo
<1>1. texto' = texto /\ orig' = orig /\ entrada' = entrada /\ dest_enc' = dest_enc
  BY DEF entorno
<1>2. Entorno'
  BY <1>1 DEF Entorno
<1>3. Ambiguo' = Ambiguo
  BY <1>1 DEF Ambiguo
<1>4. QED
  BY <1>1, <1>2, <1>3

\* The steps that read nothing and convert nothing keep it.
LEMMA RInvQuieto ==
  ASSUME RInv, UNCHANGED <<entorno, orig_enc, faltan, leidos, resto, bom_bytes, salida>>,
         \/ pc = "bom" /\ pc' = "error" /\ UNCHANGED fallos
         \/ pc = "leer" /\ pc' = "fin" /\ fallos' \in {fallos, fallos \cup {"read"}}
         \/ UNCHANGED <<pc, fallos>>
  PROVE  RInv'
<1>1. /\ Entorno' /\ texto' = texto /\ orig' = orig /\ entrada' = entrada /\ dest_enc' = dest_enc
      /\ Ambiguo' = Ambiguo
  BY EntornoIgual DEF RInv
<1>2. /\ orig_enc' = orig_enc /\ faltan' = faltan /\ leidos' = leidos /\ resto' = resto
      /\ bom_bytes' = bom_bytes /\ salida' = salida
  OBVIOUS
<1>3. Completos(leidos)' = Completos(leidos) /\ Cortado(leidos)' = Cortado(leidos)
  BY <1>1, <1>2 DEF Completos, Cortado
<1>4. Convertidos' = Convertidos
  BY <1>2, <1>3 DEF Convertidos
<1>5. RestoAlDia' = RestoAlDia /\ Detectado' = Detectado
  BY <1>1, <1>2, <1>4 DEF RestoAlDia, Detectado
<1>6. fallos' \subseteq {"read"} => fallos \subseteq {"read"}
  OBVIOUS
<1>7. SalidaBien => SalidaBien'
  BY <1>1, <1>2, <1>4, <1>6 DEF SalidaBien
<1>8. IndefinidoSoloSi'
  BY <1>1, <1>2, <1>3 DEF RInv, IndefinidoSoloSi
<1>9. \/ pc = "bom" /\ pc' = "error"
      \/ pc = "leer" /\ pc' = "fin"
      \/ pc' = pc
  OBVIOUS
<1>10. QED
  BY <1>1, <1>2, <1>5, <1>7, <1>8, <1>9 DEF RInv

\* The first read keeps it.
LEMMA RInvLeerBom == RInv /\ LeerBom => RInv'
<1> SUFFICES ASSUME RInv, LeerBom PROVE RInv'
  OBVIOUS
<1>1. /\ Entorno' /\ texto' = texto /\ orig' = orig /\ entrada' = entrada /\ dest_enc' = dest_enc
      /\ Ambiguo' = Ambiguo
  BY EntornoIgual DEF RInv, LeerBom
<1>2. /\ pc = "bom" /\ pc' = "leer" /\ dest_enc \in Encodings /\ salida' = <<>> /\ fallos' = fallos
      /\ bom_bytes' = write_bom(dest_enc)
  BY DEF RInv, LeerBom, Entorno
<1>3. PICK n \in 0 .. 4 : \E b \in [n + 1 .. 4 -> Basura] :
         LET bom == [k \in 1 .. 4 |-> IF k <= n THEN entrada[k] ELSE b[k]]
         IN  /\ orig_enc' = bom_to_encoding(bom)
             /\ resto' = Prefijo(orig_enc', bom)
             /\ faltan' = 4 - n /\ leidos' = n /\ n <= Len(entrada)
  BY DEF LeerBom
<1>4. faltan' = 4 - n /\ leidos' = n /\ n <= Len(entrada) /\ faltan' \in Nat /\ leidos' \in Nat
  BY <1>3
<1>5. IndefinidoSoloSi'
  BY <1>2 DEF IndefinidoSoloSi
<1>6. CASE n < 4
  <2>1. ~ (faltan' = 0)
    BY <1>4, <1>6
  <2>2. QED
    BY <1>1, <1>2, <1>4, <1>5, <2>1 DEF RInv
<1>7. CASE n = 4
  <2> DEFINE s == SubSeq(entrada, 1, 4)
  <2>1. texto \in Seq(CP) /\ orig \in Encodings /\ entrada = Archivo(orig, texto)
    BY DEF RInv, Entorno
  <2>2. Len(Archivo(orig, texto)) >= 4
    <3>1. Len(entrada) \in Nat
      <4>1. Len(texto) \in 0 .. Len(texto) /\ Len(texto) \in Len(texto) .. Len(texto)
        BY <2>1
      <4>2. Hasta(orig, texto, Len(texto)) \in Seq(Byte)
        BY <2>1, <4>1, HastaMas
      <4>3. QED
        BY <2>1, <4>2, HastaEs
    <3>2. QED
      BY <1>4, <1>7, <2>1, <3>1
  <2>3. /\ s \in Seq(Byte) /\ Len(s) = 4
        /\ bom_to_encoding(s) = IF Ambiguo THEN "UTF32LE" ELSE orig
        /\ Prefijo(orig, s) \in Seq(Byte)
        /\ s = Marca(orig) \o Prefijo(orig, s)
    BY <2>1, <2>2, Deteccion DEF Ambiguo
  <2>4. orig_enc' = bom_to_encoding(s) /\ resto' = Prefijo(orig_enc', s)
    <3>1. PICK b \in [n + 1 .. 4 -> Basura] :
             LET bom == [k \in 1 .. 4 |-> IF k <= n THEN entrada[k] ELSE b[k]]
             IN  orig_enc' = bom_to_encoding(bom) /\ resto' = Prefijo(orig_enc', bom)
      BY <1>3
    <3> DEFINE bom == [k \in 1 .. 4 |-> IF k <= n THEN entrada[k] ELSE b[k]]
    <3>2. \A k \in 1 .. 4 : s[k] = entrada[k]
      <4>1. entrada \in Seq(Byte)
        <5>1. Len(texto) \in 0 .. Len(texto) /\ Len(texto) \in Len(texto) .. Len(texto)
          BY <2>1
        <5>2. Hasta(orig, texto, Len(texto)) \in Seq(Byte)
          BY <2>1, <5>1, HastaMas
        <5>3. QED
          BY <2>1, <5>2, HastaEs
      <4>2. Len(entrada) \in Nat /\ Len(entrada) >= 4
        BY <2>1, <2>2, <4>1
      <4>3. 1 \in Int /\ 4 \in Int /\ \A k \in 1 .. 4 : entrada[k] \in Byte
        BY <4>1, <4>2
      <4>4. \A k \in 1 .. 4 - 1 + 1 : s[k] = entrada[1 + k - 1]
        BY <4>3, SubSeqProperties
      <4>5. \A k \in 1 .. 4 : k \in 1 .. 4 - 1 + 1 /\ 1 + k - 1 = k
        OBVIOUS
      <4> HIDE DEF s
      <4>6. QED
        BY <4>4, <4>5
    <3>3. \A k \in 1 .. 4 : bom[k] = s[k]
      BY <1>7, <3>2
    <3>4. bom = s
      <4>1. s = [k \in 1 .. 4 |-> s[k]]
        BY <2>3
      <4> HIDE DEF s
      <4>2. bom = [k \in 1 .. 4 |-> s[k]]
        BY <3>3
      <4>3. QED
        BY <4>1, <4>2
    <3>5. orig_enc' = bom_to_encoding(bom) /\ resto' = Prefijo(orig_enc', bom)
      BY <3>1
    <3> HIDE DEF bom, s
    <3>6. QED
      BY <3>4, <3>5
  <2>5. orig_enc' = IF Ambiguo THEN "UTF32LE" ELSE orig
    BY <2>3, <2>4
  <2>6. Detectado'
    BY <1>1, <2>5 DEF Detectado
  <2>7. resto' \in Seq(Byte)
    <3>1. CASE Ambiguo
      <4>1. resto' = <<>>
        BY <2>4, <2>5, <3>1 DEF Prefijo, UTF16
      <4>2. QED
        BY <4>1
    <3>2. CASE ~Ambiguo
      BY <2>3, <2>4, <2>5, <3>2
    <3>3. QED
      BY <3>1, <3>2
  <2>8. leidos' = 4 /\ Convertidos' = 0
    BY <1>4, <1>7 DEF Convertidos
  <2>9. ASSUME ~Ambiguo PROVE RestoAlDia'
    <3>1. resto' = Prefijo(orig, s)
      BY <2>4, <2>5, <2>9
    <3>2. Hasta(orig, texto, 0) = Marca(orig)
      BY <2>1, HastaEs
    <3>3. s = Hasta(orig, texto, 0) \o resto'
      BY <2>3, <3>1, <3>2
    <3> HIDE DEF s
    <3>4. SubSeq(entrada, 1, leidos') = Hasta(orig, texto, Convertidos') \o resto'
      BY <2>8, <3>3 DEF s
    <3>5. QED
      BY <1>1, <3>4 DEF RestoAlDia
  <2>10. SalidaBien'
    <3>1. write_bom(dest_enc) = Marca(dest_enc)
      BY <1>2, MarcaEscrita
    <3>2. leidos' <= 4
      BY <2>8
    <3>3. QED
      BY <1>1, <1>2, <3>1, <3>2 DEF SalidaBien
  <2>11. 4 <= leidos' /\ leidos' <= Len(entrada')
    BY <1>1, <1>4, <1>7, <2>8
  <2>12. QED
    BY <1>1, <1>2, <1>4, <1>5, <2>6, <2>7, <2>9, <2>10, <2>11 DEF RInv
<1>8. QED
  BY <1>6, <1>7

\* An iteration keeps it.
LEMMA RInvIterar == RInv /\ Iterar => RInv'
<1> SUFFICES ASSUME RInv, Iterar PROVE RInv'
  OBVIOUS
<1>1. /\ Entorno' /\ texto' = texto /\ orig' = orig /\ entrada' = entrada /\ dest_enc' = dest_enc
      /\ Ambiguo' = Ambiguo
  BY EntornoIgual DEF RInv, Iterar
<1>2. /\ pc = "leer" /\ orig_enc' = orig_enc /\ faltan' = faltan /\ dest_enc \in Encodings
      /\ leidos \in Nat /\ faltan \in Nat
  BY DEF RInv, Iterar
<1>3. /\ texto \in Seq(CP) /\ orig \in Encodings /\ entrada = Archivo(orig, texto)
  BY DEF RInv, Entorno
<1>4. PICK k \in 1 .. TamInbuf - Len(resto) :
         LET d == orig_to_ucs4(orig_enc, resto \o SubSeq(entrada, leidos + 1, leidos + k))
         IN  /\ leidos + k <= Len(entrada)
             /\ leidos' = leidos + k
             /\ IF faltan > 0 \/ d.pasado
                THEN pc' = "indefinido" /\ UNCHANGED <<resto, bom_bytes, salida, fallos>>
                ELSE Convertir(d)
  BY DEF Iterar
<1> DEFINE m == leidos + k
           d == orig_to_ucs4(orig_enc, resto \o SubSeq(entrada, leidos + 1, leidos + k))
<1>5. leidos' = m /\ m <= Len(entrada)
  BY <1>4
<1>6. IF faltan > 0 \/ d.pasado
      THEN pc' = "indefinido" /\ UNCHANGED <<resto, bom_bytes, salida, fallos>>
      ELSE Convertir(d)
  BY <1>4
<1>7. k \in Int /\ 1 <= k /\ m \in Nat /\ leidos <= m /\ leidos < m
  <2>1. k \in Int /\ 1 <= k
    BY <1>4
  <2>2. QED
    BY <1>2, <2>1
<1> HIDE DEF m, d
<1>8. CASE faltan > 0
  <2>1. pc' = "indefinido" /\ faltan' > 0 /\ ~ (faltan' = 0)
    BY <1>2, <1>6, <1>8
  <2>2. IndefinidoSoloSi'
    BY <2>1 DEF IndefinidoSoloSi
  <2>3. QED
    BY <1>1, <1>2, <1>5, <1>7, <2>1, <2>2 DEF RInv
<1>9. CASE ~ (faltan > 0)
  <2>1. faltan = 0 /\ faltan' = 0
    BY <1>2, <1>9
  <2>2. /\ 4 <= leidos /\ leidos <= Len(entrada) /\ resto \in Seq(Byte) /\ Detectado
        /\ ~Ambiguo => RestoAlDia /\ SalidaBien
    BY <1>2, <2>1 DEF RInv
  <2>3. Detectado'
    BY <1>1, <1>2, <2>2 DEF Detectado
  <2>4. ~ (leidos' <= 4) /\ 4 <= leidos'
    BY <1>2, <1>5, <1>7, <2>2
  <2>5. CASE Ambiguo
    <3>1. orig_enc \in UTF32
      BY <2>2, <2>5 DEF Detectado, UTF32
    <3>2. resto \o SubSeq(entrada, leidos + 1, m) \in Seq(Byte)
      <4>1. entrada \in Seq(Byte)
        <5>1. Len(texto) \in 0 .. Len(texto) /\ Len(texto) \in Len(texto) .. Len(texto)
          BY <1>3
        <5>2. Hasta(orig, texto, Len(texto)) \in Seq(Byte)
          BY <1>3, <5>1, HastaMas
        <5>3. QED
          BY <1>3, <5>2, HastaEs
      <4>2. Len(entrada) \in Nat
        BY <4>1
      <4>3. leidos + 1 \in Int /\ m \in Int /\ \A i \in leidos + 1 .. m : entrada[i] \in Byte
        BY <1>2, <1>5, <1>7, <4>1, <4>2
      <4>4. SubSeq(entrada, leidos + 1, m) \in Seq(Byte)
        BY <4>3, SubSeqProperties
      <4>5. QED
        BY <2>2, <4>4, ConcatProperties
    <3>3. d.resto \in Seq(Byte) /\ ~d.pasado
      <4> DEFINE buf == resto \o SubSeq(entrada, leidos + 1, m)
      <4>1. buf \in Seq(Byte)
        BY <3>2
      <4> HIDE DEF buf
      <4>2. orig_to_ucs4(orig_enc, buf).resto \in Seq(Byte) /\ ~orig_to_ucs4(orig_enc, buf).pasado
        BY <3>1, <4>1, DecodificaUTF32
      <4>3. QED
        BY <4>2 DEF buf, d, m
    <3>4. pc' = pc /\ resto' = d.resto
      BY <1>6, <1>9, <3>3 DEF Convertir
    <3>5. IndefinidoSoloSi'
      BY <1>2, <3>4 DEF IndefinidoSoloSi
    <3>6. QED
      BY <1>1, <1>2, <1>5, <1>7, <2>3, <2>4, <2>5, <3>3, <3>4, <3>5 DEF RInv
  <2>6. CASE ~Ambiguo
    <3> DEFINE j == Convertidos
               c == Completos(m)
    <3>1. RestoAlDia /\ SalidaBien /\ orig_enc = orig
      BY <2>2, <2>6 DEF Detectado
    <3>2. j \in 0 .. Len(texto)
      <4>1. CASE leidos <= 4
        BY <1>3, <4>1 DEF Convertidos
      <4>2. CASE ~ (leidos <= 4)
        <5>1. Len(Marca(orig)) <= 4 /\ Len(Marca(orig)) \in Nat
          BY <1>3, MarcaEscrita
        <5>2. Len(Marca(orig)) <= leidos
          BY <1>2, <2>2, <5>1
        <5>3. Completos(leidos) \in 0 .. Len(texto)
          BY <1>2, <1>3, <5>2, CompletosEs
        <5>4. QED
          BY <4>2, <5>3 DEF Convertidos
      <4>3. QED
        BY <4>1, <4>2
    <3> HIDE DEF j
    <3>3. SubSeq(entrada, 1, leidos) = Hasta(orig, texto, j) \o resto
      BY <3>1 DEF RestoAlDia, j
    <3>4. /\ c \in j .. Len(texto) /\ d.cps = SubSeq(texto, j + 1, c)
          /\ d.resto \in Seq(Byte) /\ SubSeq(entrada, 1, m) = Hasta(orig, texto, c) \o d.resto
          /\ d.pasado => orig = "UTF8" /\ Cortado(m)
      <4>1. LET e == orig_to_ucs4(orig, resto \o SubSeq(entrada, leidos + 1, m))
            IN  /\ c \in j .. Len(texto) /\ e.cps = SubSeq(texto, j + 1, c)
                /\ e.resto \in Seq(Byte) /\ SubSeq(entrada, 1, m) = Hasta(orig, texto, c) \o e.resto
                /\ e.pasado => orig = "UTF8" /\ Cortado(m)
        BY <1>2, <1>3, <1>5, <1>7, <2>2, <3>2, <3>3, Avance
      <4>2. orig_to_ucs4(orig, resto \o SubSeq(entrada, leidos + 1, m)) = d
        BY <3>1 DEF d, m
      <4>3. QED
        BY <4>1, <4>2
    <3>5. Completos(leidos)' = c /\ Cortado(leidos)' = Cortado(m)
      BY <1>1, <1>5 DEF Completos, Cortado
    <3> HIDE DEF c
    <3>6. CASE d.pasado
      <4>1. pc' = "indefinido"
        BY <1>6, <3>6
      <4>2. IndefinidoSoloSi'
        BY <1>1, <3>4, <3>5, <3>6 DEF IndefinidoSoloSi
      <4>3. QED
        BY <1>1, <1>2, <1>5, <1>7, <2>1, <2>3, <4>1, <4>2 DEF RInv
    <3>7. CASE ~d.pasado
      <4>1. Convertir(d)
        BY <1>6, <1>9, <3>7
      <4>2. pc' = pc /\ resto' = d.resto /\ bom_bytes' = <<>>
        BY <4>1 DEF Convertir
      <4>3. Convertidos' = c
        BY <2>4, <3>5 DEF Convertidos
      <4>4. RestoAlDia'
        BY <1>1, <1>5, <3>4, <4>2, <4>3 DEF RestoAlDia
      <4>5. ASSUME fallos' \subseteq {"read"} PROVE salida' = Hasta(dest_enc, texto, c)
        <5> DEFINE u == SubSeq(texto, j + 1, c)
                   h == Hasta(dest_enc, texto, j)
        <5>1. salida' = salida \o (bom_bytes \o ucs4_to_dest(dest_enc, d.cps)) /\ fallos' = fallos
          <6>1. ~ ("write" \in fallos')
            BY <4>5
          <6>2. QED
            BY <4>1, <6>1 DEF Convertir
        <5>2. /\ bom_bytes = IF leidos <= 4 THEN Marca(dest_enc) ELSE <<>>
              /\ salida = IF leidos <= 4 THEN <<>> ELSE h
          BY <3>1, <4>5, <5>1 DEF SalidaBien, j
        <5>3. u \in Seq(CP) /\ ucs4_to_dest(dest_enc, d.cps) = Cuerpo(dest_enc, u)
          <6>1. u \in Seq(CP)
            BY <1>3, <3>2, <3>4, Entre
          <6> HIDE DEF u
          <6>2. ucs4_to_dest(dest_enc, u) = Cuerpo(dest_enc, u)
            BY <1>2, <6>1, CuerpoEscrito
          <6>3. d.cps = u
            BY <3>4 DEF u
          <6>4. QED
            BY <6>1, <6>2, <6>3
        <5>4. /\ h \in Seq(Byte) /\ Cuerpo(dest_enc, u) \in Seq(Byte)
              /\ Hasta(dest_enc, texto, c) = h \o Cuerpo(dest_enc, u)
          BY <1>2, <1>3, <3>2, <3>4, HastaMas
        <5>5. leidos <= 4 => h = Marca(dest_enc)
          <6>1. leidos <= 4 => j = 0
            BY DEF j, Convertidos
          <6>2. Hasta(dest_enc, texto, 0) = Marca(dest_enc)
            BY <1>2, <1>3, HastaEs
          <6>3. QED
            BY <6>1, <6>2
        <5> HIDE DEF h, u
        <5> DEFINE b == Cuerpo(dest_enc, u)
        <5>6. /\ h \in Seq(Byte) /\ b \in Seq(Byte) /\ Hasta(dest_enc, texto, c) = h \o b
              /\ salida' = salida \o (bom_bytes \o b)
          BY <5>1, <5>3, <5>4
        <5> HIDE DEF b
        <5>7. h \o b \in Seq(Byte)
          BY <5>6, ConcatProperties
        <5>8. CASE leidos <= 4
          <6>1. bom_bytes = h /\ salida = <<>>
            BY <5>2, <5>5, <5>8
          <6>2. <<>> \o (h \o b) = h \o b
            BY <5>7, ConcatEmptySeq
          <6>3. QED
            BY <5>6, <6>1, <6>2
        <5>9. CASE ~ (leidos <= 4)
          <6>1. bom_bytes = <<>> /\ salida = h
            BY <5>2, <5>9
          <6>2. <<>> \o b = b
            BY <5>6, ConcatEmptySeq
          <6>3. QED
            BY <5>6, <6>1, <6>2
        <5>10. QED
          BY <5>8, <5>9
      <4>6. SalidaBien'
        BY <1>1, <2>4, <4>2, <4>3, <4>5 DEF SalidaBien
      <4>7. IndefinidoSoloSi'
        BY <1>2, <4>2 DEF IndefinidoSoloSi
      <4>8. QED
        BY <1>1, <1>2, <1>5, <1>7, <2>3, <2>4, <3>4, <4>2, <4>4, <4>6, <4>7 DEF RInv
    <3>8. QED
      BY <3>6, <3>7
  <2>7. QED
    BY <2>5, <2>6
<1>10. QED
  BY <1>8, <1>9

\* Every step keeps it.
LEMMA RInvNext == RInv /\ [Next]_vars => RInv'
<1> SUFFICES ASSUME RInv, [Next]_vars PROVE RInv'
  OBVIOUS
<1>1. CASE Rechazar
  BY <1>1, RInvQuieto DEF Rechazar
<1>2. CASE LeerBom
  BY <1>2, RInvLeerBom
<1>3. CASE Iterar
  BY <1>3, RInvIterar
<1>4. CASE Fin
  BY <1>4, RInvQuieto DEF Fin
<1>5. CASE ReadFalla
  BY <1>5, RInvQuieto DEF ReadFalla
<1>6. CASE UNCHANGED vars
  BY <1>6, RInvQuieto DEF vars, entorno
<1>7. QED
  BY <1>1, <1>2, <1>3, <1>4, <1>5, <1>6 DEF Next

\* The inductive invariant holds of every state that the program reaches.
THEOREM RInvSiempre == Spec => []RInv
<1>1. QED
  BY RInvInit, RInvNext, PTL DEF Spec

\* bom_to_encoding: whenever the first read filled bom, the encoding is that of
\* the file, except for U+0000 at its head in UTF-16LE.
THEOREM SpecDeteccionCorrecta == Spec => []DeteccionCorrecta
<1>1. RInv => DeteccionCorrecta
  BY DEF RInv, Detectado, DeteccionCorrecta
<1>2. QED
  BY <1>1, RInvSiempre, PTL

\* orig_to_ucs4 and ucs4_to_dest through inbuf: however the reads cut the file,
\* what has been written is the mark and every code point read to its end.
THEOREM SpecSalidaAlDia == Spec => []SalidaAlDia
<1>1. RInv => SalidaAlDia
  <2> SUFFICES ASSUME RInv, pc \in {"leer", "fin"}, faltan = 0, fallos \subseteq {"read"}, ~Ambiguo
               PROVE  salida = IF leidos <= 4 THEN <<>>
                               ELSE Archivo(dest_enc, SubSeq(texto, 1, Completos(leidos)))
    BY DEF SalidaAlDia
  <2>1. SalidaBien
    BY DEF RInv
  <2>2. QED
    BY <2>1 DEF SalidaBien, Convertidos, Hasta
<1>2. QED
  BY <1>1, RInvSiempre, PTL

\* nbytes of orig_to_ucs4 wraps around only when bom was not filled or a read
\* ended inside a sequence of UTF-8.
THEOREM SpecIndefinidoSoloSi == Spec => []IndefinidoSoloSi
<1>1. RInv => IndefinidoSoloSi
  BY DEF RInv
<1>2. QED
  BY <1>1, RInvSiempre, PTL
================================================================================
