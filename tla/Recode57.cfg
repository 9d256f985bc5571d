SPECIFICATION FairSpec
CONSTANTS
  Textos <- MCTextos
  Formas <- MCFormas
  TamInbuf = 6
  Basura = {0, 255}
  Fallas = {"read", "write"}
INVARIANTS
  DeteccionCorrecta
  SalidaAlDia
  IndefinidoSoloSi
PROPERTIES
  Acaba
CHECK_DEADLOCK FALSE
