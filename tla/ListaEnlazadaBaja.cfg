CONSTANTS
  Usuarios = {u1, u2, u3}
  Mensajes = {m1}
  Direcciones = {a1, a2, a3}
  NULO = NULO
SPECIFICATION Spec
PROPERTY BajaSoloDeUno
