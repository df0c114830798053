CONSTANTS
  Conexiones = 8
  IpDe <- MCIpDe
  PuedeFallar = FALSE
SPECIFICATION Spec
INVARIANTS TypeOK CadaHiloLoSuyo SinCarrera
PROPERTY MainVuelve
CHECK_DEADLOCK FALSE
