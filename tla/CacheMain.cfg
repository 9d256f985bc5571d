SPECIFICATION FairSpec
CONSTANTS
  W = 6
  INT_MAX = 31
  Ordenes <- MCOrdenes
  Archivos <- MCArchivos
  Direcciones <- MCDirecciones
  MaxVueltas = 22
INVARIANTS
  GeometriaExacta
  SalidaHonesta
PROPERTIES
  Acaba
CHECK_DEADLOCK FALSE
