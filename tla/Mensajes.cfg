CONSTANTS
  Campos <- MCCampos
  MaxCampos = 3
  n = 3
  Capacidad = 3
SPECIFICATION Spec
INVARIANTS TypeOK AsciiEntero
PROPERTIES ImplementaCanal TodoLlega
CHECK_DEADLOCK FALSE
