SPECIFICATION Spec
CONSTANTS
  cantidad_sets = 2
  lineas_por_set = 3
  tamanio_bloque = 4
  MISS_PENALTY = 100
  Direcciones = {0, 3, 4, 8, 16, 24}
  primera_operacion = 0
  ultima_operacion_v = 3
  MaxAccesos = 5
INVARIANTS
  SellosOrdenados
  TiempoYTraficoCuadran
  NotasEnOrden
PROPERTIES
  EsLRU
CHECK_DEADLOCK FALSE
