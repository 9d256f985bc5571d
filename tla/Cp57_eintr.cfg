SPECIFICATION Spec
CONSTANTS
  size = 2
  MaxLargo = 3
  Fallas = {"read EINTR"}
INVARIANTS CopiaTodo
CHECK_DEADLOCK FALSE
