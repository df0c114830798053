------------------------------- MODULE Conexion -----------------------------
(***************************************************************************)
(* The thread of a connection, conexion in servidor.c: it reads requests   *)
(* field by field from its descriptor, logs them, executes them (Gestion   *)
(* models the operations; here each one is a step) and answers, until it   *)
(* reads the end of the stream where an operation should be.  Descriptors  *)
(* are numbers that accept gives out again once they are closed.           *)
(*                                                                         *)
(* The log is another process, registro_svc.c: it prints the calls it is   *)
(* sent, one at a time, and answers them; a thread waits for the answer 25 *)
(* seconds.  A log server that is down is one that takes no step.          *)
(*                                                                         *)
(* Each client makes one request and closes after the answer, as client.py *)
(* does.  Interrumpe says what else it may do: "abandono", close at any    *)
(* moment, a field half written included; "vacio", send an empty message,  *)
(* which readLine returns like an end of stream.  A field is read in one   *)
(* step (Mensajes models the bytes).                                       *)
(***************************************************************************)
EXTENDS Naturals, FiniteSets, Sequences

CONSTANTS
  Conexiones,     \* bound of the model: the connections accept returns
  Descriptores,   \* descriptor numbers, positive
  Operaciones,    \* the operations the clients ask for
  Interrumpe

\* Fields that follow each operation, and how many of them are read before the
\* call to registrar_operacion.
Campos == [REGISTER |-> 1, UNREGISTER |-> 1, CONNECT |-> 2, DISCONNECT |-> 1,
           SEND |-> 3, USERS |-> 1, SENDATTACH |-> 4]
CamposParaRegistrar(o) == IF o = "SENDATTACH" THEN 4 ELSE 1

Cerrado == "cerrado"

ASSUME ConexionSupuestos ==
  /\ Cerrado \notin Conexiones
  /\ Descriptores \subseteq Nat \ {0} /\ IsFiniteSet(Descriptores)
  /\ Operaciones \subseteq DOMAIN Campos
  /\ Interrumpe \subseteq {"abandono", "vacio"}

VARIABLES
  descriptor,     \* the connection each descriptor refers to, or Cerrado
  peticion,       \* what the client of each connection asks for
  vacio,          \* is its message the empty string
  enviados,       \* fields its client has written, the operation included
  cerrada,        \* its client has closed it
  a_medias,       \* the last of those fields was cut by the end of the stream
  leidos,         \* fields read from it
  respuestas,     \* answers written to it
  hilo,           \* where the thread of each connection is
  my_sc,          \* its descriptor
  op,             \* the operation it is reading
  n,              \* fields of it already read
  origen,         \* history: connections it read them from
  vivo,           \* the server has not been killed
  llamadas,       \* calls the log server has still to print
  impresas,       \* the lines it has printed
  sin_registrar,  \* history: calls that were not made, failed or timed out
  ejecutadas,     \* history: requests executed, with the thread and the origin
  previas         \* history: connections answered before each one was accepted

cliente  == <<peticion, vacio, enviados, cerrada, a_medias>>
memoria  == <<my_sc, op, n, origen>>
registro == <<llamadas, impresas, sin_registrar>>
historia == <<ejecutadas, previas>>
vars     == <<descriptor, cliente, leidos, respuestas, hilo, memoria, vivo, registro, historia>>

Ninguna == "ninguna"

Init ==
  /\ descriptor = [f \in Descriptores |-> Cerrado]
  /\ peticion = [c \in Conexiones |-> Ninguna]
  /\ vacio = [c \in Conexiones |-> FALSE]
  /\ enviados = [c \in Conexiones |-> 0]
  /\ cerrada = [c \in Conexiones |-> FALSE]
  /\ a_medias = [c \in Conexiones |-> FALSE]
  /\ leidos = [c \in Conexiones |-> 0]
  /\ respuestas = [c \in Conexiones |-> 0]
  /\ hilo = [c \in Conexiones |-> "no"]
  /\ my_sc = [c \in Conexiones |-> 0]
  /\ op = [c \in Conexiones |-> Ninguna]
  /\ n = [c \in Conexiones |-> 0]
  /\ origen = [c \in Conexiones |-> {}]
  /\ vivo = TRUE
  /\ llamadas = {} /\ impresas = <<>> /\ sin_registrar = {}
  /\ ejecutadas = {}
  /\ previas = [c \in Conexiones |-> {}]
-----------------------------------------------------------------------------
\* main accepts connection c, gets the lowest free descriptor and creates the
\* thread; Relevo models how they reach it.  (With none free accept fails and
\* main ends the process: the runs have one for every connection.)
Aceptar(c) ==
  LET libres == {f \in Descriptores : descriptor[f] = Cerrado}
      f == CHOOSE x \in libres : \A y \in libres : x <= y IN
  /\ vivo /\ hilo[c] = "no" /\ libres # {}
  /\ descriptor' = [descriptor EXCEPT ![f] = c]
  /\ my_sc' = [my_sc EXCEPT ![c] = f]
  /\ hilo' = [hilo EXCEPT ![c] = "operacion"]
  /\ \E o \in Operaciones : peticion' = [peticion EXCEPT ![c] = o]
  /\ \E v \in BOOLEAN :
       /\ v => "vacio" \in Interrumpe /\ peticion'[c] \in {"SEND", "SENDATTACH"}
       /\ vacio' = [vacio EXCEPT ![c] = v]
  /\ previas' = [previas EXCEPT ![c] = {d \in Conexiones : respuestas[d] > 0}]
  /\ UNCHANGED <<enviados, cerrada, a_medias, leidos, respuestas, op, n, origen, vivo, registro,
                 ejecutadas>>

ClienteEnvia(c) ==
  /\ hilo[c] # "no" /\ ~cerrada[c]
  /\ enviados[c] < 1 + Campos[peticion[c]]
  /\ enviados' = [enviados EXCEPT ![c] = @ + 1]
  /\ UNCHANGED <<descriptor, peticion, vacio, cerrada, a_medias, leidos, respuestas, hilo,
                 memoria, vivo, registro, historia>>

\* The client has its answer, or reads the end of the stream instead, or gives up,
\* when it may have written part of its next field.
ClienteCierra(c) ==
  /\ hilo[c] # "no" /\ ~cerrada[c]
  /\ cerrada' = [cerrada EXCEPT ![c] = TRUE]
  /\ \/ /\ respuestas[c] > 0 \/ (\A f \in Descriptores : descriptor[f] # c)
                             \/ "abandono" \in Interrumpe
        /\ UNCHANGED <<enviados, a_medias>>
     \/ /\ "abandono" \in Interrumpe /\ enviados[c] < 1 + Campos[peticion[c]]
        /\ enviados' = [enviados EXCEPT ![c] = @ + 1]
        /\ a_medias' = [a_medias EXCEPT ![c] = TRUE]
  /\ UNCHANGED <<descriptor, peticion, vacio, leidos, respuestas, hilo, memoria, vivo,
                 registro, historia>>
-----------------------------------------------------------------------------
\* What readLine finds in the descriptor of thread c: a field of connection d,
\* the end of the stream (0), or an error (-1, a descriptor that is not open).
EsVacio(d) == vacio[d] /\ leidos[d] = 3

HayCampo(c, d) ==
  /\ descriptor[my_sc[c]] = d
  /\ leidos[d] < enviados[d] /\ ~EsVacio(d)
  /\ leidos' = [leidos EXCEPT ![d] = @ + 1]

LeeCero(c) ==
  \E d \in Conexiones :
    /\ descriptor[my_sc[c]] = d
    /\ \/ leidos[d] < enviados[d] /\ EsVacio(d)
          /\ leidos' = [leidos EXCEPT ![d] = @ + 1]
       \/ leidos[d] = enviados[d] /\ cerrada[d] /\ UNCHANGED leidos

LeeError(c) == descriptor[my_sc[c]] = Cerrado /\ UNCHANGED leidos

\* op_a_int: the field is an operation, or part of one, or one of the fields of a
\* request that another thread is reading; -1 if it is not a known one.
OpAInt(d) ==
  IF leidos[d] # 0 THEN {"-1"}
  ELSE IF a_medias[d] /\ enviados[d] = 1
       THEN {"-1"} \cup {o \in {"SEND"} : peticion[d] = "SENDATTACH"}
       ELSE {peticion[d]}

\* Mutant: an unknown operation is not rejected.
Reconocida_Siempre(o) == TRUE

Reconocida(o) == o # "-1"

\* The top of the loop.
LeerOperacion(c) ==
  /\ hilo[c] = "operacion"
  /\ \/ \E d \in Conexiones : \E o \in OpAInt(d) :
          /\ Reconocida(o) /\ HayCampo(c, d)
          /\ op' = [op EXCEPT ![c] = o]
          /\ n' = [n EXCEPT ![c] = 0]
          /\ origen' = [origen EXCEPT ![c] = {d}]
          /\ hilo' = [hilo EXCEPT ![c] = "campo"]
     \/ /\ \/ \E d \in Conexiones : \E o \in OpAInt(d) : ~Reconocida(o) /\ HayCampo(c, d)
           \/ LeeCero(c) \/ LeeError(c)
        /\ hilo' = [hilo EXCEPT ![c] = "terminar"]
        /\ UNCHANGED <<op, n, origen>>
  /\ UNCHANGED <<descriptor, cliente, respuestas, my_sc, vivo, registro, historia>>

\* close, which fails if the number is not open and closes whatever connection
\* has it now if it is.
Cerrar(c) ==
  /\ descriptor' = [descriptor EXCEPT ![my_sc[c]] = Cerrado]
  /\ UNCHANGED <<cliente, leidos, respuestas, memoria, vivo, registro, historia>>

\* Mutant: the loop goes on after the close.
Terminar_SinBreak(c) ==
  hilo[c] = "terminar" /\ Cerrar(c) /\ hilo' = [hilo EXCEPT ![c] = "operacion"]

\* Mutant: an error of readLine does not leave the loop.
Terminar_SiAbierto(c) ==
  /\ hilo[c] = "terminar" /\ Cerrar(c)
  /\ hilo' = [hilo EXCEPT ![c] =
                IF descriptor[my_sc[c]] = Cerrado THEN "operacion" ELSE "fin"]

\* close and break out of the loop.
Terminar(c) ==
  hilo[c] = "terminar" /\ Cerrar(c) /\ hilo' = [hilo EXCEPT ![c] = "fin"]

\* Mutant: the thread ends without closing.
DejarSwitch_SinCerrar(c) ==
  /\ hilo[c] = "dejar"
  /\ hilo' = [hilo EXCEPT ![c] = "fin"]
  /\ UNCHANGED <<descriptor, cliente, leidos, respuestas, memoria, vivo, registro, historia>>

\* close and a break that only leaves the switch: the thread goes back to the
\* top of the loop with the number it has closed.
DejarSwitch(c) ==
  hilo[c] = "dejar" /\ Cerrar(c) /\ hilo' = [hilo EXCEPT ![c] = "operacion"]

\* Mutant: the log is not called.
TrasCampo_SinRegistrar(o, k) == IF k = Campos[o] THEN "ejecutar" ELSE "campo"

\* What follows the k-th field of an operation.
TrasCampo(o, k) ==
  IF k = CamposParaRegistrar(o) THEN "registrar"
  ELSE IF k = Campos[o] THEN "ejecutar" ELSE "campo"

\* Inside the switch.
LeerCampo(c) ==
  /\ hilo[c] = "campo"
  /\ \/ \E d \in Conexiones :
          /\ HayCampo(c, d)
          /\ n' = [n EXCEPT ![c] = @ + 1]
          /\ origen' = [origen EXCEPT ![c] = @ \cup {d}]
          /\ hilo' = [hilo EXCEPT ![c] = TrasCampo(op[c], n'[c])]
     \/ /\ LeeCero(c) \/ LeeError(c)
        /\ hilo' = [hilo EXCEPT ![c] = "dejar"]
        /\ UNCHANGED <<n, origen>>
  /\ UNCHANGED <<descriptor, cliente, respuestas, my_sc, op, vivo, registro, historia>>

Anotacion(c) == [hilo |-> c, op |-> op[c], origen |-> origen[c]]

\* Mutant: the last field is not read.
TrasRegistrar_UnoMenos(c) ==
  hilo' = [hilo EXCEPT ![c] = IF n[c] >= Campos[op[c]] - 1 THEN "ejecutar" ELSE "campo"]

\* Where the thread goes on after the log.
TrasRegistrar(c) ==
  hilo' = [hilo EXCEPT ![c] = IF n[c] = Campos[op[c]] THEN "ejecutar" ELSE "campo"]

\* Mutant: the call does not wait for its reply.
RegistrarOperacion_SinEsperar(c) ==
  /\ hilo[c] = "registrar"
  /\ llamadas' = llamadas \cup {Anotacion(c)}
  /\ TrasRegistrar(c)
  /\ UNCHANGED <<descriptor, cliente, leidos, respuestas, memoria, vivo, impresas,
                 sin_registrar, historia>>

\* registrar_operacion: with no LOG_RPC_IP, or nobody to connect to there, the
\* request is not logged; otherwise the call is made.
RegistrarOperacion(c) ==
  /\ hilo[c] = "registrar"
  /\ \/ sin_registrar' = sin_registrar \cup {Anotacion(c)}
        /\ TrasRegistrar(c)
        /\ UNCHANGED llamadas
     \/ llamadas' = llamadas \cup {Anotacion(c)}
        /\ hilo' = [hilo EXCEPT ![c] = "espera"]
        /\ UNCHANGED sin_registrar
  /\ UNCHANGED <<descriptor, cliente, leidos, respuestas, memoria, vivo, impresas, historia>>

Impresa(a) == \E i \in DOMAIN impresas : impresas[i] = a

\* Mutant: the call waits for its reply without a limit.
VolverDelRegistro_SinLimite(c) ==
  /\ hilo[c] = "espera" /\ Impresa(Anotacion(c))
  /\ TrasRegistrar(c)
  /\ UNCHANGED <<descriptor, cliente, leidos, respuestas, memoria, vivo, registro, historia>>

\* The reply arrives, or the call fails or times out, when nothing is known of it:
\* it may be printed already, or later.
VolverDelRegistro(c) ==
  /\ hilo[c] = "espera"
  /\ \/ Impresa(Anotacion(c)) /\ UNCHANGED sin_registrar
     \/ sin_registrar' = sin_registrar \cup {Anotacion(c)}
  /\ TrasRegistrar(c)
  /\ UNCHANGED <<descriptor, cliente, leidos, respuestas, memoria, vivo, llamadas, impresas,
                 historia>>

\* imprimir_1_svc.
Imprimir(a) == impresas' = Append(impresas, a)

\* registro_prog_1.  The log server has one thread: it takes a call, prints its line
\* and sends the reply.
Atender(a) ==
  /\ a \in llamadas /\ llamadas' = llamadas \ {a}
  /\ Imprimir(a)
  /\ UNCHANGED <<descriptor, cliente, leidos, respuestas, hilo, memoria, vivo, sin_registrar,
                 historia>>

Ejecutar(c) ==
  /\ hilo[c] = "ejecutar"
  /\ ejecutadas' = ejecutadas \cup {Anotacion(c)}
  /\ hilo' = [hilo EXCEPT ![c] = "responder"]
  /\ UNCHANGED <<descriptor, cliente, leidos, respuestas, memoria, vivo, registro, previas>>

\* Operations whose answer takes several writes.
ConDatos == {"SEND", "SENDATTACH", "USERS"}

\* The answer goes wherever the descriptor leads; its errors are ignored.
ResponderBien(c, sigue) ==
  /\ hilo[c] = "responder"
  /\ LET d == descriptor[my_sc[c]] IN
     respuestas' = IF d = Cerrado THEN respuestas ELSE [respuestas EXCEPT ![d] = @ + 1]
  /\ hilo' = [hilo EXCEPT ![c] = sigue]
  /\ UNCHANGED <<descriptor, cliente, leidos, memoria, vivo, registro, historia>>

\* The first write to a connection its client has closed may make the kernel of the
\* client reset it; the next one raises SIGPIPE, which ends the process.
Sigpipe(c) ==
  /\ hilo[c] = "responder" /\ op[c] \in ConDatos
  /\ \E d \in Conexiones : descriptor[my_sc[c]] = d /\ cerrada[d]
  /\ vivo' = FALSE
  /\ descriptor' = [f \in Descriptores |-> Cerrado]
  /\ hilo' = [d \in Conexiones |-> IF hilo[d] = "no" THEN "no" ELSE "fin"]
  /\ UNCHANGED <<cliente, leidos, respuestas, memoria, registro, historia>>

\* Mutant: the answer may be written twice.
Responder_DosVeces(c) ==
  ResponderBien(c, "operacion") \/ ResponderBien(c, "responder") \/ Sigpipe(c)

Responder(c) == ResponderBien(c, "operacion") \/ Sigpipe(c)

Hilo(c) ==
  \/ LeerOperacion(c) \/ LeerCampo(c) \/ RegistrarOperacion(c) \/ VolverDelRegistro(c)
  \/ Ejecutar(c) \/ Responder(c) \/ DejarSwitch(c) \/ Terminar(c)

Next ==
  \/ \E c \in Conexiones : Aceptar(c) \/ ClienteEnvia(c) \/ ClienteCierra(c) \/ Hilo(c)
  \/ \E a \in llamadas : Atender(a)

\* A thread that can go on does: the operations return, and so does the call to the
\* log, after 25 seconds if need be.  Clients and the log server do what they like.
Spec == Init /\ [][Next]_vars /\ \A c \in Conexiones : WF_vars(Hilo(c))
-----------------------------------------------------------------------------
Nota == [hilo : Conexiones, op : DOMAIN Campos, origen : SUBSET Conexiones]

TypeOK ==
  /\ descriptor \in [Descriptores -> Conexiones \cup {Cerrado}]
  /\ peticion \in [Conexiones -> Operaciones \cup {Ninguna}]
  /\ vacio \in [Conexiones -> BOOLEAN]
  /\ enviados \in [Conexiones -> 0..5] /\ leidos \in [Conexiones -> 0..5]
  /\ cerrada \in [Conexiones -> BOOLEAN] /\ a_medias \in [Conexiones -> BOOLEAN]
  /\ respuestas \in [Conexiones -> Nat]
  /\ hilo \in [Conexiones -> {"no", "operacion", "campo", "registrar", "espera",
                              "ejecutar", "responder", "dejar", "terminar", "fin"}]
  /\ my_sc \in [Conexiones -> Descriptores \cup {0}]
  /\ op \in [Conexiones -> DOMAIN Campos \cup {Ninguna}]
  /\ n \in [Conexiones -> 0..4]
  /\ origen \in [Conexiones -> SUBSET Conexiones]
  /\ vivo \in BOOLEAN
  /\ impresas \in Seq(Nota) /\ llamadas \subseteq Nota
  /\ sin_registrar \subseteq Nota /\ ejecutadas \subseteq Nota
  /\ previas \in [Conexiones -> SUBSET Conexiones]

\* No client leaves, or sends an empty field, in the middle of its request.
Completas ==
  \A c \in Conexiones :
    ~vacio[c] /\ ~a_medias[c] /\ (cerrada[c] => enviados[c] \in {0, 1 + Campos[peticion[c]]})

\* A thread reads, logs and executes the request of its own connection only,
\* though descriptor numbers are reused: it never touches its number after it
\* closed it.  For clients that finish their requests (see IpDelCliente).
CadaUnoLoSuyo ==
  Completas =>
    /\ \A c \in Conexiones : origen[c] \subseteq {c}
    /\ \A e \in ejecutadas \cup llamadas \cup sin_registrar : e.origen = {e.hilo}

\* A client that has an answer has one, and it is the answer to its request: all
\* of its fields were read and one thread executed it.
RespuestaFiel ==
  Completas =>
    \A c \in Conexiones : respuestas[c] > 0 =>
      /\ respuestas[c] = 1
      /\ leidos[c] = 1 + Campos[peticion[c]]
      /\ Cardinality({e \in ejecutadas : c \in e.origen}) = 1

\* Nothing takes effect before the log server has printed it, unless the call was not
\* made, failed or timed out.  (The fields read after the call may come from one more
\* connection, that has been given the number since: what was logged is the same
\* request, with less of it read.)
Anotada(e) ==
  \E a \in sin_registrar \cup {impresas[i] : i \in DOMAIN impresas} :
    a.hilo = e.hilo /\ a.op = e.op /\ a.origen \subseteq e.origen

RegistradaAntes == \A e \in ejecutadas : Anotada(e)

\* The log tells the order of things: a request is printed once, and before those
\* of the clients that came when it had been answered, unless its call timed out.
\* (Two requests at the same time may be printed in one order and executed in the
\* other: the call is made without the mutex.)
RegistroFiel ==
  Completas =>
    \A i, j \in DOMAIN impresas : i < j =>
      /\ impresas[i] # impresas[j]
      /\ impresas[j].hilo \in previas[impresas[i].hilo] => impresas[j] \in sin_registrar

\* The server dies only of a client that asks for SEND, SENDATTACH or USERS and leaves
\* before the answer: a client that waits, or one that has it, does no harm.
CaeSoloPorAbandono ==
  Completas /\ ~vivo =>
    \E c \in Conexiones : cerrada[c] /\ respuestas[c] = 0 /\ peticion[c] \in ConDatos

\* Whoever sends a whole request is answered, even if the log server never replies,
\* as long as nobody cuts a request short and the server is not killed.
PeticionRespondida ==
  \A c \in Conexiones :
    (peticion[c] # Ninguna /\ enviados[c] = 1 + Campos[peticion[c]])
      ~> respuestas[c] > 0 \/ ~Completas \/ ~vivo

\* No descriptor leaks, not even those of requests cut short: when no thread is
\* left, every descriptor is closed.
SinFugas ==
  (\A c \in Conexiones : hilo[c] \in {"no", "fin"}) =>
    \A f \in Descriptores : descriptor[f] = Cerrado

\* When the clients are gone the threads end, those that a missing field sent
\* back to read from a closed descriptor included.
TodosTerminan ==
  (\A c \in Conexiones : cerrada[c]) ~> (\A c \in Conexiones : hilo[c] = "fin")
-----------------------------------------------------------------------------
\* CONNECT stores the "IP del cliente" that made the request: the thread that
\* executes it, and whose ip_cliente it stores, is the one of its connection.
IpDelCliente ==
  \A e \in ejecutadas : e.op = "CONNECT" => e.origen = {e.hilo}
=============================================================================
