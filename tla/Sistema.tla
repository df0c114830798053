------------------------------- MODULE Sistema ------------------------------
(***************************************************************************)
(* The server (Gestion) with its clients (client.py), all of them on one   *)
(* machine.  What Gestion leaves to the environment, whether a connection  *)
(* to a user opens, is decided here by the listening sockets, and what is  *)
(* written to a socket is followed until a listening thread prints it.     *)
(*                                                                         *)
(* A client has a shell, which executes one command at a time, and a       *)
(* listening thread (hilo_escucha) for every CONNECT it ever tried.  A     *)
(* request, the server's work and the answer are one step unless the       *)
(* server opens connections while it works.                                *)
(***************************************************************************)
EXTENDS Gestion, FiniteSets

CONSTANTS
  Clientes,     \* client processes
  Nadie,        \* _nombre when it is None
  Backlog,      \* connections a listening socket keeps waiting: listen(5)
  Piden,        \* bound of the model: clients that use USERS and GETFILE
  MaxEscuchas   \* bound of the model: listening sockets created

ASSUME SistemaSupuestos ==
  /\ IPs # {}
  /\ Nadie \notin Usuarios \cup Clientes
  /\ Backlog \in Nat \ {0, 1}
  /\ Piden \subseteq Clientes
  /\ MaxEscuchas \in Nat

VARIABLES
  nombre,       \* _nombre of each client
  listen_sock,  \* its _listen_sock: the number of a listening socket, or 0
  dir,          \* its _dir_usuarios_conectados: the port of each user, or 0
  shell,        \* the command it is waiting for
  escucha,      \* the listening sockets, each with its thread
  impresos      \* history: the messages each client has printed

local == <<nombre, listen_sock, dir>>
todo  == <<vars, local, shell, escucha, impresos>>

Escuchas == 1..MaxEscuchas
MiIp     == CHOOSE i \in IPs : TRUE
EnReposo == [en |-> "nada", usuario |-> Nadie]

\* Connections to a listening socket.  The one they are meant for, `para', is
\* history: no message of the protocol says it.
ConMensaje(m, d)  == [tipo |-> "mensaje", n |-> m.n, para |-> d]
ConAck(m)         == [tipo |-> "ack", n |-> m.n, para |-> m.remitente]
ConFichero(c, u)  == [tipo |-> "fichero", cliente |-> c, para |-> u]
SinConexion       == [tipo |-> "ninguna"]

\* A listening socket: its thread, the client and the port it belongs to, whether
\* close() was called, the connections that wait in it and the one its thread
\* reads.  `de' is history: the user whose CONNECT the server accepted with it.
SinCrear == [hilo |-> "no", cliente |-> Nadie, puerto |-> 0, cerrado |-> FALSE,
             cola |-> <<>>, atiende |-> SinConexion, de |-> Nadie]

SistemaInit ==
  /\ Init
  /\ nombre = [c \in Clientes |-> Nadie]
  /\ listen_sock = [c \in Clientes |-> 0]
  /\ dir = [c \in Clientes |-> [u \in Usuarios |-> 0]]
  /\ shell = [c \in Clientes |-> EnReposo]
  /\ escucha = [e \in Escuchas |-> SinCrear]
  /\ impresos = [c \in Clientes |-> {}]
-----------------------------------------------------------------------------
\* The kernel keeps a listening socket while a thread is inside accept(), even
\* if another thread closes it, and while the program has it open: not closed
\* and still referred to, by its thread or by _listen_sock.
Abierta(e) ==
  LET x == escucha[e] IN
  \/ x.hilo = "accept"
  \/ x.hilo = "lee" /\ ~x.cerrado
  \/ x.hilo = "fin" /\ ~x.cerrado /\ listen_sock[x.cliente] = e

\* Mutant: a listening socket always has room.
Abre_SinLimite(esc, p) == \E e \in Escuchas : Abierta(e) /\ esc[e].puerto = p

\* connect() to a port opens a connection if somebody listens there and has
\* room.  Otherwise it is refused, or waits for room until it times out.
Abre(esc, p) ==
  \E e \in Escuchas : Abierta(e) /\ esc[e].puerto = p /\ Len(esc[e].cola) < Backlog

Encola(esc, p, x) ==
  [e \in Escuchas |-> IF Abierta(e) /\ esc[e].puerto = p
                      THEN [esc[e] EXCEPT !.cola = Append(@, x)] ELSE esc[e]]

\* What EntregarMensaje does to the sockets, and how they decide the fate of the
\* confirmation.
Entrega(d, m, ack) ==
  LET r == m.remitente
      tras == Encola(escucha, puerto[d], ConMensaje(m, d)) IN
  /\ Abre(escucha, puerto[d])
  /\ ack = "sin" <=> ~(Existe(r) /\ conectado[r])
  /\ ack = "ok" => Abre(tras, puerto[r])
  /\ ack = "falla" => ~Abre(tras, puerto[r])
  /\ escucha' = IF ack = "ok" THEN Encola(tras, puerto[r], ConAck(m)) ELSE tras

EsperaEn(c, en, u) == shell' = [shell EXCEPT ![c] = [en |-> en, usuario |-> u]]
Vuelve(c) == shell' = [shell EXCEPT ![c] = EnReposo]
-----------------------------------------------------------------------------
\* REGISTER.
PedirRegister(c, u) ==
  /\ shell[c] = EnReposo
  /\ \E res \in 0..2 : RegistrarUsuario(u, res)
  /\ UNCHANGED <<local, shell, escucha, impresos>>

\* Mutant: every user is remembered with the client's own port.
PedirUsers_SuPuerto(c) ==
  /\ c \in Piden /\ shell[c] = EnReposo /\ nombre[c] # Nadie
  /\ Users(nombre[c], 0)
  /\ dir' = [dir EXCEPT ![c] =
       [u \in Usuarios |-> IF conectado[u] THEN puerto[nombre[c]] ELSE @[u]]]
  /\ UNCHANGED <<nombre, listen_sock, shell, escucha, impresos>>

\* USERS: the addresses of the answer replace the ones remembered; those of users
\* that are no longer connected stay.
PedirUsers(c) ==
  /\ c \in Piden /\ shell[c] = EnReposo /\ nombre[c] # Nadie
  /\ Users(nombre[c], 0)
  /\ dir' = [dir EXCEPT ![c] =
       [u \in Usuarios |-> IF conectado[u] THEN puerto[u] ELSE @[u]]]
  /\ UNCHANGED <<nombre, listen_sock, shell, escucha, impresos>>

\* CONNECT.  Before the request there is a new listening socket, on a port that
\* nobody listens on, and its thread.  (Ports are interchangeable: a port never
\* used before is the lowest one.)
Connect(c, u) ==
  LET e == 1 + Cardinality({x \in Escuchas : escucha[x].hilo # "no"})
      usados == {escucha[x].puerto : x \in Escuchas} IN
  /\ shell[c] = EnReposo /\ e \in Escuchas
  /\ \E p \in Puertos :
       /\ \A x \in Escuchas : Abierta(x) => escucha[x].puerto # p
       /\ \A q \in Puertos : q < p => q \in usados
       /\ escucha' = [escucha EXCEPT ![e] = [SinCrear EXCEPT
            !.hilo = "accept", !.cliente = c, !.puerto = p]]
  /\ listen_sock' = [listen_sock EXCEPT ![c] = e]
  /\ EsperaEn(c, "pide", u)
  /\ UNCHANGED <<vars, nombre, dir, impresos>>

\* The server takes the request; the socket and the thread stay if it rejects it.
ConnectPide(c) ==
  LET u == shell[c].usuario
      e == listen_sock[c] IN
  /\ shell[c].en = "pide"
  /\ \/ /\ ConectarUsuario(u, MiIp, escucha[e].puerto)
        /\ EsperaEn(c, "connect", u)
        /\ escucha' = [escucha EXCEPT ![e].de = u]
     \/ /\ \E res \in 1..2 : ConectarRechazado(u, res)
        /\ Vuelve(c)
        /\ UNCHANGED escucha
  /\ UNCHANGED <<local, impresos>>

\* The server flushes the queue ...
Volcar(ack) ==
  LET u == mutex_lista.usuario IN
  /\ EntregarPendiente(ack)
  /\ Entrega(u, mensajes_pendientes[u][mutex_lista.k + 1], ack)
  /\ UNCHANGED <<local, shell, impresos>>

\* ... and answers 0.
ConnectOk(c) ==
  LET u == shell[c].usuario IN
  /\ shell[c].en = "connect"
  /\ \E falla \in BOOLEAN : ConectarFin(falla) /\ (falla => ~Abre(escucha, puerto[u]))
  /\ nombre' = [nombre EXCEPT ![c] = u]
  /\ Vuelve(c)
  /\ UNCHANGED <<listen_sock, dir, escucha, impresos>>

\* DISCONNECT, of any name; whatever the answer, the client closes its listening
\* socket and forgets its name.
Disconnect(c, u) ==
  /\ shell[c] = EnReposo
  /\ \E res \in 0..3 : DesconectarUsuario(u, MiIp, res)
  /\ escucha' = [e \in Escuchas |->
       [escucha[e] EXCEPT !.cerrado = @ \/ listen_sock[c] = e]]
  /\ listen_sock' = [listen_sock EXCEPT ![c] = 0]
  /\ nombre' = [nombre EXCEPT ![c] = Nadie]
  /\ UNCHANGED <<dir, shell, impresos>>

\* SEND and SENDATTACH.
Send(c, d) ==
  /\ shell[c] = EnReposo /\ nombre[c] # Nadie
  /\ \/ \E f \in Adjuntos : EnviarMensaje(nombre[c], d, f)
     \/ \E res \in 1..2 : EnviarRechazado(nombre[c], d, res)
  /\ IF mutex_lista' = Libre THEN UNCHANGED shell ELSE EsperaEn(c, "send", d)
  /\ UNCHANGED <<local, escucha, impresos>>

SendFin(c) ==
  LET d == shell[c].usuario
      pendientes == mensajes_pendientes[d] IN
  /\ shell[c].en = "send"
  /\ \/ \E ack \in {"sin", "ok", "falla"} :
          EnviarEntrega(ack) /\ Entrega(d, pendientes[Len(pendientes)], ack)
     \/ EnviarFalla /\ ~Abre(escucha, puerto[d]) /\ UNCHANGED escucha
  /\ Vuelve(c)
  /\ UNCHANGED <<local, impresos>>

\* GETFILE: the request goes to the remembered address (if there is none getFile
\* asks for USERS first) and waits for the end of the file.
GetFile(c, u) ==
  /\ c \in Piden /\ shell[c] = EnReposo /\ nombre[c] # Nadie
  /\ dir[c][u] # 0 /\ Abre(escucha, dir[c][u])
  /\ escucha' = Encola(escucha, dir[c][u], ConFichero(c, u))
  /\ EsperaEn(c, "getfile", u)
  /\ UNCHANGED <<vars, local, impresos>>

\* The sockets where the request of c waits or is being served.
Pedido(c) ==
  LET x == ConFichero(c, shell[c].usuario) IN
  {e \in Escuchas :
     \/ escucha[e].hilo # "fin" /\ escucha[e].atiende = x
     \/ Abierta(e) /\ \E i \in DOMAIN escucha[e].cola : escucha[e].cola[i] = x}

\* The socket it waited in is closed: the connection is reset.
GetFileCortado(c) ==
  /\ shell[c].en = "getfile" /\ Pedido(c) = {}
  /\ Vuelve(c)
  /\ UNCHANGED <<vars, local, escucha, impresos>>

\* QUIT: the process ends without a word to the server, and may start again.
Quit(c) ==
  /\ shell[c] = EnReposo
  /\ escucha' = [e \in Escuchas |-> IF escucha[e].cliente = c
       THEN [escucha[e] EXCEPT !.hilo = "fin", !.cerrado = TRUE] ELSE escucha[e]]
  /\ nombre' = [nombre EXCEPT ![c] = Nadie]
  /\ listen_sock' = [listen_sock EXCEPT ![c] = 0]
  /\ dir' = [dir EXCEPT ![c] = [u \in Usuarios |-> 0]]
  /\ UNCHANGED <<vars, shell, impresos>>
-----------------------------------------------------------------------------
\* Mutant: accept() takes nothing once the socket has been closed.
Accept_SiAbierto(e) ==
  /\ escucha[e].hilo = "accept" /\ escucha[e].cola # <<>> /\ ~escucha[e].cerrado
  /\ escucha' = [escucha EXCEPT ![e].hilo = "lee",
       ![e].atiende = Head(escucha[e].cola), ![e].cola = Tail(@)]
  /\ UNCHANGED <<vars, local, shell, impresos>>

\* hilo_escucha.  close() does not wake an accept() that is already waiting: it
\* returns the next connection all the same.
Accept(e) ==
  /\ escucha[e].hilo = "accept" /\ escucha[e].cola # <<>>
  /\ escucha' = [escucha EXCEPT ![e].hilo = "lee",
       ![e].atiende = Head(escucha[e].cola), ![e].cola = Tail(@)]
  /\ UNCHANGED <<vars, local, shell, impresos>>

\* What a thread shows, and who stops waiting when it closes the connection.
Imprime(e) ==
  LET x == escucha[e].atiende IN
  impresos' = IF x.tipo # "mensaje" THEN impresos
              ELSE [impresos EXCEPT ![escucha[e].cliente] = @ \cup {x.n}]
Cierra(e) ==
  LET x == escucha[e].atiende IN
  IF x.tipo = "fichero" THEN Vuelve(x.cliente) ELSE UNCHANGED shell

\* Mutant: the connection is not closed.
Servir_SinClose(e) ==
  /\ escucha[e].hilo = "lee"
  /\ escucha' = [escucha EXCEPT ![e].hilo = "accept"]
  /\ Imprime(e)
  /\ UNCHANGED <<vars, local, shell>>

\* The thread prints what it reads, or sends the file, closes the connection and
\* calls accept() again, which fails if the socket has been closed.
Servir(e) ==
  /\ escucha[e].hilo = "lee"
  /\ escucha' = [escucha EXCEPT ![e].atiende = SinConexion,
       ![e].hilo = IF escucha[e].cerrado THEN "fin" ELSE "accept"]
  /\ Imprime(e) /\ Cierra(e)
  /\ UNCHANGED <<vars, local>>

\* An exception ends the thread and nothing else: a file that cannot be opened,
\* or a text that does not decode because the server cut it in the middle of a
\* character.  Whoever asked for the file reads the end of the stream.
Excepcion(e) ==
  /\ escucha[e].hilo = "lee" /\ escucha[e].atiende.tipo # "ack"
  /\ escucha' = [escucha EXCEPT ![e].hilo = "fin"]
  /\ Cierra(e)
  /\ UNCHANGED <<vars, local, impresos>>

Hilo(e) == Accept(e) \/ Servir(e) \/ Excepcion(e)

Servidor ==
  \/ \E ack \in {"sin", "ok", "falla"} : Volcar(ack)
  \/ \E c \in Clientes : ConnectPide(c) \/ ConnectOk(c) \/ SendFin(c)

Orden(c) ==
  \/ PedirUsers(c) \/ Quit(c)
  \/ \E u \in Usuarios : \/ PedirRegister(c, u) \/ Connect(c, u) \/ Disconnect(c, u)
                         \/ Send(c, u) \/ GetFile(c, u)

SistemaNext ==
  \/ Servidor
  \/ \E c \in Clientes : Orden(c) \/ GetFileCortado(c)
  \/ \E e \in Escuchas : Hilo(e)

\* Threads run, the server's included, and connect() ends: it opens or fails.
\* Nobody is obliged to type a command.
SistemaSpec ==
  /\ SistemaInit /\ [][SistemaNext]_todo
  /\ WF_todo(Servidor)
  /\ \A c \in Clientes : WF_todo(GetFileCortado(c))
  /\ \A e \in Escuchas : WF_todo(Hilo(e))
-----------------------------------------------------------------------------
Conexion ==
  [tipo : {"mensaje", "ack"}, n : 1..MaxMensajes, para : Usuarios]
  \cup [tipo : {"fichero"}, cliente : Clientes, para : Usuarios]

\* The first conjuncts are types.  The last one is a limit of the kernel that the
\* server and the clients, who do not know each other's connections, share.
SistemaTypeOK ==
  /\ nombre \in [Clientes -> Usuarios \cup {Nadie}]
  /\ listen_sock \in [Clientes -> Escuchas \cup {0}]
  /\ dir \in [Clientes -> [Usuarios -> Puertos \cup {0}]]
  /\ shell \in [Clientes -> [en : {"nada", "pide", "connect", "send", "getfile"},
                             usuario : Usuarios \cup {Nadie}]]
  /\ impresos \in [Clientes -> SUBSET (1..MaxMensajes)]
  /\ \A e \in Escuchas :
       /\ escucha[e].hilo \in {"no", "accept", "lee", "fin"}
       /\ escucha[e].atiende \in Conexion \cup {SinConexion}
       /\ \A i \in DOMAIN escucha[e].cola : escucha[e].cola[i] \in Conexion
       /\ Len(escucha[e].cola) <= Backlog

\* The connections in a socket or in the hands of its thread.
En(e) == {escucha[e].cola[i] : i \in DOMAIN escucha[e].cola} \cup {escucha[e].atiende}

\* Where message n is once it is written: the sockets that have it and the
\* clients that have printed it.
Sitios(n) ==
  {<<"socket", e>> : e \in {f \in Escuchas : \E x \in En(f) : x.tipo = "mensaje" /\ x.n = n}}
  \cup {<<"pantalla", c>> : c \in {x \in Clientes : n \in impresos[x]}}

\* Every message the server counts as delivered is in one listening socket, alive
\* or dead, or on one screen, and no other message is: none is printed twice or
\* by two clients, whatever the server delivers again after a failure.
EntregadoEnUnSitio ==
  \A n \in 1..MaxMensajes :
    Cardinality(Sitios(n)) = IF \E u \in Usuarios : n \in Numeros(entregados[u]) THEN 1 ELSE 0

\* What reaches a listening socket was meant for the user that connected with it,
\* or for a user that had the same port before: a remembered address, in the
\* server after a QUIT or in a client after USERS, goes wrong in no other way.
SoloPorPuertoReusado ==
  \A e \in Escuchas : \A x \in En(e) \ {SinConexion} :
    \E f \in Escuchas : escucha[f].puerto = escucha[e].puerto /\ escucha[f].de = x.para

\* A message written to a listening socket is printed, unless its thread ends.
EntregadoSeMuestra ==
  \A e \in Escuchas, n \in 1..MaxMensajes :
    (\E x \in En(e) : x.tipo = "mensaje" /\ x.n = n) ~>
      (\E c \in Clientes : n \in impresos[c]) \/ escucha[e].hilo = "fin"

\* GETFILE gives the shell back, even if the owner leaves, unless it waits in a
\* socket whose thread has ended and that is still open: then it waits for ever.
GetFileVuelve ==
  \A c \in Clientes :
    shell[c].en = "getfile" ~>
      shell[c].en # "getfile" \/ \E e \in Pedido(c) : escucha[e].hilo = "fin"
-----------------------------------------------------------------------------
\* "Creamos un socket TCP para hablar con el hilo de escucha del cliente destino":
\* the thread that gets a message is the one of the user it is sent to.
HablaConDestino ==
  \A e \in Escuchas : \A x \in En(e) : x.tipo = "mensaje" => escucha[e].de = x.para

\* "Esto destraba el .accept() del hilo y lo cierra": the thread of a listening
\* socket that DISCONNECT closes ends.
HiloTermina == \A e \in Escuchas : escucha[e].cerrado ~> escucha[e].hilo = "fin"
=============================================================================
