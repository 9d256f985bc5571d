SPECIFICATION Spec
CONSTANTS
  W = 8
  B = 2
  F = 4
  TEST_RANGE = 4
  Azar <- MCAzar
  MaxAlarmas = 2
  Ordenes <- MCPotencias
INVARIANT PotenciaExacta
CHECK_DEADLOCK FALSE
