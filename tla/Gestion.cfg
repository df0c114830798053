CONSTANTS
  Usuarios = {ana, luis}
  IPs = {ip1, ip2}
  SinIp = SinIp
  Puertos = {50000}
  MaxId = 1
  Adjuntos = {FALSE}
  MaxMensajes = 3
  MaxAltas = 2
  Nombres <- MCNombres
SPECIFICATION Spec
INVARIANTS TypeOK RedCoherente SinPerdidas SinRepetir ColaOrdenada AckFiel SoloSuConfirmacion
   ListadoFiel
PROPERTIES RezagoSoloPorFallo ImplementaMensajeria ImplementaColas
SYMMETRY Simetria
