SPECIFICATION ServedSpec
CONSTANTS
  size = 2
  MaxLargo = 5
  Fallas = {"open", "openat", "read EINTR", "read otro", "write corta", "write EINTR", "write otro"}
INVARIANTS
  SinRepetir
  CopiaEsPrefijo
  CopiaSinFallos
  DescriptoresEnOrden
PROPERTIES
  WriteallReintenta
  Acaba
CHECK_DEADLOCK FALSE
