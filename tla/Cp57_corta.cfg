SPECIFICATION Spec
CONSTANTS
  size = 2
  MaxLargo = 3
  Fallas = {"write corta"}
PROPERTIES WriteallEscribeTodo
CHECK_DEADLOCK FALSE
