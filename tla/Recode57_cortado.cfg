SPECIFICATION Spec
CONSTANTS
  Textos <- MCTextos
  Formas <- MCFormas
  TamInbuf = 6
  Basura = {0, 255}
  Fallas = {}
INVARIANT EsperaElResto
CHECK_DEADLOCK FALSE
