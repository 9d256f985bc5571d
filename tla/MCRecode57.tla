------------------------------- MODULE MCRecode57 -------------------------------
\* Values of Recode57's constants for TLC.
EXTENDS Recode57Props, TLC

\* The ends of each length of UTF-8, and of the surrogate pairs, with the bytes
\* the Unicode standard gives them.
MCFormas ==
     0       :> [utf8 |-> <<0>>,                  utf16 |-> <<0, 0>>]
  @@ 127     :> [utf8 |-> <<127>>,                utf16 |-> <<0, 127>>]
  @@ 128     :> [utf8 |-> <<194, 128>>,           utf16 |-> <<0, 128>>]
  @@ 2047    :> [utf8 |-> <<223, 191>>,           utf16 |-> <<7, 255>>]
  @@ 2048    :> [utf8 |-> <<224, 160, 128>>,      utf16 |-> <<8, 0>>]
  @@ 55295   :> [utf8 |-> <<237, 159, 191>>,      utf16 |-> <<215, 255>>]
  @@ 65533   :> [utf8 |-> <<239, 191, 189>>,      utf16 |-> <<255, 253>>]
  @@ 65536   :> [utf8 |-> <<240, 144, 128, 128>>, utf16 |-> <<216, 0, 220, 0>>]
  @@ 128512  :> [utf8 |-> <<240, 159, 152, 128>>, utf16 |-> <<216, 61, 222, 0>>]
  @@ 1114111 :> [utf8 |-> <<244, 143, 191, 191>>, utf16 |-> <<219, 255, 223, 255>>]

MCTextos == {
  <<>>, <<127>>, <<0, 127>>, <<128, 2047>>,
  <<2047, 127, 2048, 128>>, <<55295, 65533, 127>>,
  <<127, 65536, 128>>, <<1114111, 127, 128512>>}
================================================================================
