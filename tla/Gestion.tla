------------------------------- MODULE Gestion ------------------------------
(***************************************************************************)
(* The server's core, gestion.c: the registered users, their connection    *)
(* data and their queues of undelivered messages.  All of it is protected  *)
(* by mutex_lista, which an operation holds from its first line to its     *)
(* return, network calls included.  An operation that calls nobody is one  *)
(* action.  CONNECT and SEND to a connected user open sockets while they   *)
(* hold the mutex: they are an action that takes it, one action for each   *)
(* call of entregar_mensaje / entregar_mensaje_fichero, and one that ends. *)
(*                                                                         *)
(* `res' is the byte an operation answers.  The outcome of connect(), of   *)
(* socket() and of malloc is the environment's choice.                     *)
(***************************************************************************)
EXTENDS Lista

CONSTANTS
  IPs,          \* addresses the clients connect from
  SinIp,        \* the ip field filled with zeros
  Puertos,      \* ports the clients listen on
  MaxId,        \* largest unsigned int: 2^32 - 1 in the code
  Adjuntos,     \* does a message carry a file name: a subset of BOOLEAN
  MaxMensajes,  \* bound of the model: messages accepted
  MaxAltas      \* bound of the model: registrations of each name

ASSUME GestionSupuestos ==
  /\ SinIp \notin IPs
  /\ Puertos \subseteq Nat \ {0}
  /\ MaxId \in Nat \ {0}
  /\ Adjuntos \subseteq BOOLEAN
  /\ MaxMensajes \in Nat
  /\ MaxAltas \in Nat

VARIABLES
  \* nodo_clientes, one function per field
  conectado, ip, puerto, ultimo_id, mensajes_pendientes,
  \* the operation that holds the mutex, or Libre
  mutex_lista,
  \* history: registrations of each name, messages accepted so far, messages
  \* written to each user's socket, confirmations, messages freed or leaked
  alta, emitidos, entregados, acks, descartados

red     == <<conectado, ip, puerto>>
historia == <<alta, emitidos, entregados, acks, descartados>>
vars    == <<lista, red, ultimo_id, mensajes_pendientes, mutex_lista, historia>>

\* nodo_mensaje.  `n' and `alta' are history: a number of its own, and which
\* registration of the sender's name wrote it.
Mensaje ==
  [n : Nat \ {0}, id : 1..MaxId, remitente : Usuarios, alta : Nat, fichero : BOOLEAN]

Libre == [op |-> "libre"]

\* The messages of u's queue that are still to be delivered.  While CONNECT
\* flushes the queue, mensajes_pendientes keeps pointing at the first node and
\* the first k nodes are already freed.
Entregadas(u) ==
  IF mutex_lista.op = "conectar" /\ mutex_lista.usuario = u THEN mutex_lista.k ELSE 0

EnCola(u) ==
  {mensajes_pendientes[u][i] : i \in (Entregadas(u) + 1)..Len(mensajes_pendientes[u])}

Init ==
  /\ InitLista
  /\ conectado = [u \in Usuarios |-> FALSE]
  /\ ip = [u \in Usuarios |-> SinIp]
  /\ puerto = [u \in Usuarios |-> 0]
  /\ ultimo_id = [u \in Usuarios |-> 0]
  /\ mensajes_pendientes = [u \in Usuarios |-> <<>>]
  /\ mutex_lista = Libre
  /\ alta = [u \in Usuarios |-> 0]
  /\ emitidos = 0
  /\ entregados = [u \in Usuarios |-> {}]
  /\ acks = {}
  /\ descartados = {}
-----------------------------------------------------------------------------
\* registrar_usuario: 1 if the name is taken, 2 if malloc fails.
RegistrarUsuario(u, res) ==
  /\ mutex_lista = Libre
  /\ \/ res = 1 /\ Existe(u) /\ UNCHANGED vars
     \/ res = 2 /\ ~Existe(u) /\ UNCHANGED vars
     \/ /\ res = 0
        /\ alta[u] < MaxAltas
        /\ Alta(u)
        /\ conectado' = [conectado EXCEPT ![u] = FALSE]
        /\ ip' = [ip EXCEPT ![u] = SinIp]
        /\ puerto' = [puerto EXCEPT ![u] = 0]
        /\ ultimo_id' = [ultimo_id EXCEPT ![u] = 0]
        /\ mensajes_pendientes' = [mensajes_pendientes EXCEPT ![u] = <<>>]
        /\ alta' = [alta EXCEPT ![u] = @ + 1]
        /\ UNCHANGED <<mutex_lista, emitidos, entregados, acks, descartados>>

\* dar_de_baja_usuario: 1 if there is no such user.  The node and its queue are
\* freed; the nodes in front of it stay allocated and out of reach, which for
\* every later operation is the same, so the model forgets them too.
DarDeBajaUsuario(u, res) ==
  /\ mutex_lista = Libre
  /\ \/ res = 1 /\ ~Existe(u) /\ UNCHANGED vars
     \/ /\ res = 0
        /\ Baja(u)
        /\ conectado' = [v \in Usuarios |-> v \notin Fuera(u) /\ conectado[v]]
        /\ ip' = [v \in Usuarios |-> IF v \in Fuera(u) THEN SinIp ELSE ip[v]]
        /\ puerto' = [v \in Usuarios |-> IF v \in Fuera(u) THEN 0 ELSE puerto[v]]
        /\ ultimo_id' = [v \in Usuarios |-> IF v \in Fuera(u) THEN 0 ELSE ultimo_id[v]]
        /\ mensajes_pendientes' =
             [v \in Usuarios |-> IF v \in Fuera(u) THEN <<>> ELSE mensajes_pendientes[v]]
        /\ descartados' =
             descartados \cup {m.n : m \in UNION {EnCola(v) : v \in Fuera(u)}}
        /\ UNCHANGED <<mutex_lista, alta, emitidos, entregados, acks>>

\* desconectar_usuario: 1 no such user, 2 not connected, 3 another ip.
DesconectarUsuario(u, i, res) ==
  /\ mutex_lista = Libre
  /\ \/ res = 1 /\ ~Existe(u) /\ UNCHANGED vars
     \/ res = 2 /\ Existe(u) /\ ~conectado[u] /\ UNCHANGED vars
     \/ res = 3 /\ Existe(u) /\ conectado[u] /\ ip[u] # i /\ UNCHANGED vars
     \/ /\ res = 0
        /\ Existe(u) /\ conectado[u] /\ ip[u] = i
        /\ conectado' = [conectado EXCEPT ![u] = FALSE]
        /\ puerto' = [puerto EXCEPT ![u] = 0]
        /\ ip' = [ip EXCEPT ![u] = SinIp]
        /\ UNCHANGED <<lista, ultimo_id, mensajes_pendientes, mutex_lista, historia>>
-----------------------------------------------------------------------------
\* Mutant: a failed confirmation clears conectado and nothing else.
EntregarMensaje_IpVieja(d, m, ack) ==
  LET r == m.remitente IN
  /\ puerto[d] # 0
  /\ entregados' = [entregados EXCEPT ![d] = @ \cup {m}]
  /\ \/ ack = "sin" /\ UNCHANGED <<red, acks>>
     \/ /\ ack = "ok" /\ Existe(r) /\ conectado[r]
        /\ acks' = acks \cup {[mensaje |-> m, alta |-> alta[r]]}
        /\ UNCHANGED red
     \/ /\ ack = "falla" /\ Existe(r) /\ conectado[r]
        /\ conectado' = [conectado EXCEPT ![r] = FALSE]
        /\ UNCHANGED <<ip, puerto, acks>>

\* Mutant: a failed confirmation disconnects the destination instead of the sender.
EntregarMensaje_MarcaDestino(d, m, ack) ==
  LET r == m.remitente IN
  /\ puerto[d] # 0
  /\ entregados' = [entregados EXCEPT ![d] = @ \cup {m}]
  /\ \/ ack = "sin" /\ UNCHANGED <<red, acks>>
     \/ /\ ack = "ok" /\ Existe(r) /\ conectado[r]
        /\ acks' = acks \cup {[mensaje |-> m, alta |-> alta[r]]}
        /\ UNCHANGED red
     \/ /\ ack = "falla" /\ Existe(r) /\ conectado[r]
        /\ conectado' = [conectado EXCEPT ![d] = FALSE]
        /\ puerto' = [puerto EXCEPT ![d] = 0]
        /\ ip' = [ip EXCEPT ![d] = SinIp]
        /\ UNCHANGED acks

\* entregar_mensaje and entregar_mensaje_fichero returning 0: the connection to
\* the destination opens, the message is written to it, and then the sender, if
\* registered and connected, is sent the confirmation.  `ack' is "ok" when it
\* goes out, "falla" when the connection to the sender is refused, "sin" when
\* there is nobody to confirm to or socket() fails.  No connection ever opens to
\* port 0, where a user whose data were cleared by a failed confirmation is.
EntregarMensaje(d, m, ack) ==
  LET r == m.remitente IN
  /\ puerto[d] # 0
  /\ entregados' = [entregados EXCEPT ![d] = @ \cup {m}]
  /\ \/ ack = "sin" /\ UNCHANGED <<red, acks>>
     \/ /\ ack = "ok" /\ Existe(r) /\ conectado[r]
        /\ acks' = acks \cup {[mensaje |-> m, alta |-> alta[r]]}
        /\ UNCHANGED red
     \/ /\ ack = "falla" /\ Existe(r) /\ conectado[r]
        /\ conectado' = [conectado EXCEPT ![r] = FALSE]
        /\ puerto' = [puerto EXCEPT ![r] = 0]
        /\ ip' = [ip EXCEPT ![r] = SinIp]
        /\ UNCHANGED acks

\* conectar_usuario answering an error: 1 no such user, 2 already connected.
ConectarRechazado(u, res) ==
  /\ mutex_lista = Libre
  /\ \/ res = 1 /\ ~Existe(u)
     \/ res = 2 /\ Existe(u) /\ conectado[u]
  /\ UNCHANGED vars

\* conectar_usuario up to its loop: the user is connected from here on.
ConectarUsuario(u, i, p) ==
  /\ mutex_lista = Libre
  /\ Existe(u) /\ ~conectado[u]
  /\ puerto' = [puerto EXCEPT ![u] = p]
  /\ ip' = [ip EXCEPT ![u] = i]
  /\ conectado' = [conectado EXCEPT ![u] = TRUE]
  /\ mutex_lista' = [op |-> "conectar", usuario |-> u, k |-> 0]
  /\ UNCHANGED <<lista, ultimo_id, mensajes_pendientes, historia>>

\* One turn of the loop: the oldest message left is delivered and freed.
EntregarPendiente(ack) ==
  LET u == mutex_lista.usuario
      k == mutex_lista.k IN
  /\ mutex_lista.op = "conectar"
  /\ k < Len(mensajes_pendientes[u])
  /\ EntregarMensaje(u, mensajes_pendientes[u][k + 1], ack)
  /\ mutex_lista' = [mutex_lista EXCEPT !.k = k + 1]
  /\ UNCHANGED <<lista, ultimo_id, mensajes_pendientes, alta, emitidos, descartados>>

\* Mutant: the whole queue is dropped even if a delivery failed.
ConectarFin_Vacia(falla) ==
  LET u == mutex_lista.usuario IN
  /\ mutex_lista.op = "conectar"
  /\ falla <=> mutex_lista.k < Len(mensajes_pendientes[u])
  /\ mensajes_pendientes' = [mensajes_pendientes EXCEPT ![u] = <<>>]
  /\ mutex_lista' = Libre
  /\ UNCHANGED <<lista, red, ultimo_id, historia>>

\* Mutant: mensajes_pendientes is not updated after the loop.
ConectarFin_SinRecortar(falla) ==
  /\ mutex_lista.op = "conectar"
  /\ falla <=> mutex_lista.k < Len(mensajes_pendientes[mutex_lista.usuario])
  /\ mutex_lista' = Libre
  /\ UNCHANGED <<lista, red, ultimo_id, mensajes_pendientes, historia>>

\* Mutant: only the first message is delivered.
ConectarFin_SoloUno(falla) ==
  LET u == mutex_lista.usuario
      k == mutex_lista.k IN
  /\ mutex_lista.op = "conectar"
  /\ falla <=> k < Len(mensajes_pendientes[u]) /\ k # 1
  /\ mensajes_pendientes' = [mensajes_pendientes EXCEPT ![u] = SubSeq(@, k + 1, Len(@))]
  /\ mutex_lista' = Libre
  /\ UNCHANGED <<lista, red, ultimo_id, historia>>

\* The end of conectar_usuario, answering 0: the loop ran out of messages, or a
\* delivery failed; the queue is what the loop left.
ConectarFin(falla) ==
  LET u == mutex_lista.usuario
      k == mutex_lista.k IN
  /\ mutex_lista.op = "conectar"
  /\ falla <=> k < Len(mensajes_pendientes[u])
  /\ mensajes_pendientes' = [mensajes_pendientes EXCEPT ![u] = SubSeq(@, k + 1, Len(@))]
  /\ mutex_lista' = Libre
  /\ UNCHANGED <<lista, red, ultimo_id, historia>>
-----------------------------------------------------------------------------
\* Mutant: 0 is not skipped when the counter wraps.
SiguienteId_SinCero(id) == (id + 1) % (MaxId + 1)

\* ultimo_id += 1 in an unsigned int, and 0 is skipped.
SiguienteId(id) ==
  LET s == (id + 1) % (MaxId + 1) IN IF s = 0 THEN 1 ELSE s

\* enviar_mensaje answering an error: 1 if either user does not exist, 2 if
\* malloc fails, when the identifier is already consumed.
EnviarRechazado(r, d, res) ==
  /\ mutex_lista = Libre
  /\ \/ /\ res = 1 /\ ~(Existe(r) /\ Existe(d))
        /\ UNCHANGED ultimo_id
     \/ /\ res = 2 /\ Existe(r) /\ Existe(d)
        /\ ultimo_id' = [ultimo_id EXCEPT ![r] = SiguienteId(@)]
  /\ UNCHANGED <<lista, red, mensajes_pendientes, mutex_lista, historia>>

\* Mutant: the message goes to the front of the queue.
EnviarMensaje_AlPrincipio(r, d, f) ==
  LET m == [n |-> emitidos + 1, id |-> SiguienteId(ultimo_id[r]),
            remitente |-> r, alta |-> alta[r], fichero |-> f] IN
  /\ mutex_lista = Libre
  /\ emitidos < MaxMensajes
  /\ Existe(r) /\ Existe(d) /\ ~conectado[d]
  /\ ultimo_id' = [ultimo_id EXCEPT ![r] = m.id]
  /\ mensajes_pendientes' = [mensajes_pendientes EXCEPT ![d] = <<m>> \o @]
  /\ emitidos' = emitidos + 1
  /\ UNCHANGED <<lista, red, mutex_lista, alta, entregados, acks, descartados>>

\* enviar_mensaje up to the delivery: the message gets its identifier and goes
\* to the end of the destination's queue.  If the destination is not connected
\* it is stored and the answer is 0; otherwise the mutex is kept to deliver it.
EnviarMensaje(r, d, f) ==
  LET m == [n |-> emitidos + 1, id |-> SiguienteId(ultimo_id[r]),
            remitente |-> r, alta |-> alta[r], fichero |-> f] IN
  /\ mutex_lista = Libre
  /\ emitidos < MaxMensajes
  /\ Existe(r) /\ Existe(d)
  /\ ultimo_id' = [ultimo_id EXCEPT ![r] = m.id]
  /\ mensajes_pendientes' = [mensajes_pendientes EXCEPT ![d] = Append(@, m)]
  /\ emitidos' = emitidos + 1
  /\ mutex_lista' = IF conectado[d] THEN [op |-> "enviar", usuario |-> d] ELSE Libre
  /\ UNCHANGED <<lista, red, alta, entregados, acks, descartados>>

\* Mutant: the message delivered stays in the queue.
EnviarEntrega_SinQuitar(ack) ==
  LET d == mutex_lista.usuario IN
  /\ mutex_lista.op = "enviar"
  /\ EntregarMensaje(d, mensajes_pendientes[d][Len(mensajes_pendientes[d])], ack)
  /\ mutex_lista' = Libre
  /\ UNCHANGED <<lista, ultimo_id, mensajes_pendientes, alta, emitidos, descartados>>

\* The message just queued is delivered, unlinked from the end of the queue and
\* freed; the answer is 0.
EnviarEntrega(ack) ==
  LET d == mutex_lista.usuario
      largo == Len(mensajes_pendientes[d]) IN
  /\ mutex_lista.op = "enviar"
  /\ EntregarMensaje(d, mensajes_pendientes[d][largo], ack)
  /\ mensajes_pendientes' = [mensajes_pendientes EXCEPT ![d] = SubSeq(@, 1, largo - 1)]
  /\ mutex_lista' = Libre
  /\ UNCHANGED <<lista, ultimo_id, alta, emitidos, descartados>>

\* Mutant: it returns without unlocking the mutex.
EnviarFalla_SinUnlock == mutex_lista.op = "enviar" /\ UNCHANGED vars

\* The delivery fails: the message stays in the queue, and the answer is 0 too.
EnviarFalla ==
  /\ mutex_lista.op = "enviar"
  /\ mutex_lista' = Libre
  /\ UNCHANGED <<lista, red, ultimo_id, mensajes_pendientes, historia>>

\* users: 2 no such user, 1 not connected; it reads the list and changes
\* nothing.
Users(u, res) ==
  /\ mutex_lista = Libre
  /\ \/ res = 2 /\ ~Existe(u)
     \/ res = 1 /\ Existe(u) /\ ~conectado[u]
     \/ res = 0 /\ Existe(u) /\ conectado[u]
  /\ UNCHANGED vars
-----------------------------------------------------------------------------
Peticion ==
  \/ \E u \in Usuarios, res \in 0..3 :
       \/ RegistrarUsuario(u, res)
       \/ DarDeBajaUsuario(u, res)
       \/ ConectarRechazado(u, res)
       \/ Users(u, res)
       \/ \E i \in IPs : DesconectarUsuario(u, i, res)
       \/ \E d \in Usuarios : EnviarRechazado(u, d, res)
  \/ \E u \in Usuarios, i \in IPs, p \in Puertos : ConectarUsuario(u, i, p)
  \/ \E u, d \in Usuarios, f \in Adjuntos : EnviarMensaje(u, d, f)

\* The operation that holds the mutex goes on.
Continuar ==
  \/ \E ack \in {"sin", "ok", "falla"} : EntregarPendiente(ack) \/ EnviarEntrega(ack)
  \/ \E falla \in BOOLEAN : ConectarFin(falla)
  \/ EnviarFalla

Next == Peticion \/ Continuar

\* A thread inside an operation is not stopped for ever: connect() and write()
\* return, with an error if the other side does not answer.  Nothing obliges a
\* client to make requests.
Spec == Init /\ [][Next]_vars /\ WF_vars(Continuar)
-----------------------------------------------------------------------------
EnCurso ==
  {Libre} \cup [op : {"conectar"}, usuario : Usuarios, k : Nat]
          \cup [op : {"enviar"}, usuario : Usuarios]

TypeOK ==
  /\ lista \in Seq(Usuarios)
  /\ conectado \in [Usuarios -> BOOLEAN]
  /\ ip \in [Usuarios -> IPs \cup {SinIp}]
  /\ puerto \in [Usuarios -> Puertos \cup {0}]
  /\ ultimo_id \in [Usuarios -> 0..MaxId]
  /\ mensajes_pendientes \in [Usuarios -> Seq(Mensaje)]
  /\ mutex_lista \in EnCurso
  /\ alta \in [Usuarios -> Nat]
  /\ emitidos \in Nat
  /\ entregados \in [Usuarios -> SUBSET Mensaje]
  /\ acks \subseteq [mensaje : Mensaje, alta : Nat]
  /\ descartados \subseteq Nat

\* The network fields make sense exactly while the user is connected: nothing
\* ever connects to a stale address, and nobody is listed with an empty one.
\* Five places write them, one of them for a user that asked for nothing.
RedCoherente ==
  \A u \in Usuarios :
    /\ conectado[u] => Existe(u) /\ ip[u] \in IPs /\ puerto[u] \in Puertos
    /\ ~conectado[u] => ip[u] = SinIp /\ puerto[u] = 0

\* Every accepted message is in one place: queued for a user, written to the
\* socket of a user, or discarded.  No step loses one, in the middle of a flush
\* or after a failed connection.
SinPerdidas ==
  \A n \in 1..emitidos :
    \/ n \in descartados
    \/ \E u \in Usuarios : \E m \in EnCola(u) \cup entregados[u] : m.n = n

\* ... and in no more than one: what was written to a socket or discarded is
\* no longer queued, and no message reaches two users.
Numeros(S) == {m.n : m \in S}

SinRepetir ==
  \A u \in Usuarios :
    /\ Numeros(EnCola(u)) \cap Numeros(entregados[u]) = {}
    /\ (Numeros(EnCola(u)) \cup Numeros(entregados[u])) \cap descartados = {}
    /\ \A v \in Usuarios \ {u} :
         (Numeros(EnCola(u)) \cup Numeros(entregados[u]))
           \cap (Numeros(EnCola(v)) \cup Numeros(entregados[v])) = {}

\* A queue holds its messages in the order the server accepted them, and only
\* for users that are registered: CONNECT delivers the oldest one first.
ColaOrdenada ==
  \A u \in Usuarios :
    LET q == mensajes_pendientes[u] IN
    /\ q # <<>> => Existe(u)
    /\ \A i, j \in 1..Len(q) : i < j => q[i].n < q[j].n

\* A confirmation is sent only for a message that was written to the socket of
\* some user, and at most one registration receives it.
AckFiel ==
  \A a \in acks :
    /\ \E u \in Usuarios : a.mensaje \in entregados[u]
    /\ \A b \in acks : a.mensaje.n = b.mensaje.n => a = b

\* CONNECT may answer 0 and leave its user disconnected, for one reason only: the
\* last message it delivered was the user's own and its confirmation failed.
\* Nothing that comes from others disconnects a user in the middle of its CONNECT,
\* and nothing more is delivered to it once it is disconnected.
SoloSuConfirmacion ==
  LET u == mutex_lista.usuario IN
  mutex_lista.op = "conectar" /\ ~conectado[u] =>
    /\ Existe(u) /\ mutex_lista.k > 0
    /\ mensajes_pendientes[u][mutex_lista.k].remitente = u

\* A backlog is a message queued for a connected user that the operation in
\* progress is not about to deliver.
Rezago(u) ==
  /\ conectado[u]
  /\ CASE mutex_lista.op = "conectar" /\ mutex_lista.usuario = u -> FALSE
       [] mutex_lista.op = "enviar" /\ mutex_lista.usuario = u ->
            Len(mensajes_pendientes[u]) > 1
       [] OTHER -> mensajes_pendientes[u] # <<>>

\* The connection to u is refused in this step.
FallaEntrega(u) ==
  /\ mutex_lista # Libre /\ mutex_lista.usuario = u
  /\ EnviarFalla \/ ConectarFin(TRUE)

\* A connected user comes to have a backlog only when a connection to it fails.
\* Nothing else, neither a request that arrives during a flush nor a failed
\* confirmation, leaves a message behind in the queue of a connected user.
RezagoSoloPorFallo ==
  [][\A u \in Usuarios : Rezago(u)' => Rezago(u) \/ FallaEntrega(u)]_vars

\* Messages are accepted once, handed over at most once and to nobody but their
\* destination: Gestion implements the abstract service.
M == INSTANCE Mensajeria WITH
       Destinos    <- Usuarios,
       Identidades <- 1..MaxMensajes,
       esperan     <- [u \in Usuarios |-> Numeros(EnCola(u))],
       recibidos   <- [u \in Usuarios |-> Numeros(entregados[u])],
       tirados     <- descartados
ImplementaMensajeria == M!Spec

\* What a request finds in the list and in the queues is what Colas says, the part of
\* a queue that CONNECT has freed left out: the nodes and pointers of ListaEnlazada
\* implement the same, so the operations may be written with sequences.
C == INSTANCE Colas WITH
       colas <- [u \in Usuarios |->
                   SubSeq(mensajes_pendientes[u], Entregadas(u) + 1, Len(mensajes_pendientes[u]))]
ImplementaColas == C!SpecColas

\* The mutex is always released: no operation keeps every other client waiting
\* for ever, however long the queue it flushes and whatever fails.
MutexSeLibera == []<>(mutex_lista = Libre)
-----------------------------------------------------------------------------
\* The confirmation of a message goes to the user that wrote it.
AckAlAutor == \A a \in acks : a.alta = a.mensaje.alta
=============================================================================
