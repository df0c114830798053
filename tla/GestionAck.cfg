CONSTANTS
  Usuarios = {ana, luis}
  IPs = {ip1}
  SinIp = SinIp
  Puertos = {5000}
  MaxId = 2
  Adjuntos = {FALSE}
  MaxMensajes = 1
  MaxAltas = 2
SPECIFICATION Spec
INVARIANT AckAlAutor
