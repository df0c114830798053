CONSTANTS
  Conexiones = {c1, c2}
  Descriptores = {4, 5}
  Operaciones = {"CONNECT", "SENDATTACH"}
  Interrumpe = {"abandono", "vacio"}
SPECIFICATION Spec
INVARIANTS TypeOK CadaUnoLoSuyo RespuestaFiel RegistradaAntes RegistroFiel  SinFugas
PROPERTIES PeticionRespondida 
CHECK_DEADLOCK FALSE
