SPECIFICATION FairSpec
CONSTANTS
  W = 8
  B = 2
  F = 4
  TEST_RANGE = 4
  Azar <- MCAzar
  MaxAlarmas = 2
  Ordenes <- MCOrdenes
INVARIANTS
  VeredictoJusto
  DetectaEnBordes
  PuntosCuadran
  SaltoASuPrueba
  CabenEnRango
PROPERTIES
  Acaba
CHECK_DEADLOCK FALSE
