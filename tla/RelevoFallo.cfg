CONSTANTS
  Conexiones = 2
  IpDe <- MCIpDe2
  PuedeFallar = TRUE
SPECIFICATION Spec
PROPERTY FalloTermina
CHECK_DEADLOCK FALSE
