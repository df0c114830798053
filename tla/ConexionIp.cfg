CONSTANTS
  Conexiones = {c1, c2}
  Descriptores = {4, 5}
  Operaciones = {"CONNECT"}
  Interrumpe = {"abandono"}
SPECIFICATION Spec
INVARIANT IpDelCliente
CHECK_DEADLOCK FALSE
