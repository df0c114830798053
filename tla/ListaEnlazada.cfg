CONSTANTS
  Usuarios = {u1, u2, u3}
  Mensajes = {m1, m2, m3}
  Direcciones = {a1, a2, a3, a4, a5}
  NULO = NULO
SPECIFICATION Spec
INVARIANTS TypeOK SinPunterosColgantes
PROPERTY ImplementaColas
SYMMETRY Simetria
