CONSTANTS
  Usuarios = {ana, luis}
  IPs = {ip1}
  SinIp = SinIp
  Puertos = {50000, 50001}
  MaxId = 1
  Adjuntos = {TRUE}
  MaxMensajes = 1
  MaxAltas = 1
  Clientes = {c1, c2}
  Nadie = Nadie
  Backlog = 2
  Piden = {c1}
  MaxEscuchas = 2
SPECIFICATION SistemaSpec
PROPERTY HiloTermina
CHECK_DEADLOCK FALSE
