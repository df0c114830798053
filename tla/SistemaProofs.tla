---------------------------- MODULE SistemaProofs ---------------------------
(***************************************************************************)
(* Proofs about the server with its clients, for any number of clients and *)
(* of listening sockets: every step of the system is a step of the server  *)
(* or leaves it alone, so what Gestion promises holds among real clients,  *)
(* and what is written to a listening socket is where it should be.        *)
(***************************************************************************)
EXTENDS Sistema, GestionProofs, FiniteSetTheorems

Socket ==
  [hilo : {"no", "accept", "lee", "fin"}, cliente : Clientes \cup {Nadie},
   puerto : Puertos \cup {0}, cerrado : BOOLEAN, cola : Seq(Conexion),
   atiende : Conexion \cup {SinConexion}, de : Usuarios \cup {Nadie}]

\* The sockets created so far.
Usadas == {x \in Escuchas : escucha[x].hilo # "no"}

Tipos ==
  /\ nombre \in [Clientes -> Usuarios \cup {Nadie}]
  /\ listen_sock \in [Clientes -> Escuchas \cup {0}]
  /\ dir \in [Clientes -> [Usuarios -> Puertos \cup {0}]]
  /\ shell \in [Clientes -> [en : {"nada", "pide", "connect", "send", "getfile"},
                             usuario : Usuarios \cup {Nadie}]]
  /\ impresos \in [Clientes -> SUBSET (1..MaxMensajes)]
  /\ escucha \in [Escuchas -> Socket]
  /\ emitidos <= MaxMensajes

\* The client whose request holds the mutex.
Espera(c) == shell[c].en \in {"connect", "send"}

\* A client that is about to send its CONNECT has a socket of its own that nobody
\* has connected with.
Ordenes ==
  \A c \in Clientes :
    /\ shell[c].en # "nada" => shell[c].usuario \in Usuarios
    /\ listen_sock[c] # 0 => listen_sock[c] \in Usadas
    /\ shell[c].en = "pide" =>
         /\ listen_sock[c] # 0
         /\ escucha[listen_sock[c]].cliente = c
         /\ escucha[listen_sock[c]].de = Nadie

\* A client that waits for the server is the one the server works for.
Turno ==
  \A c \in Clientes :
    Espera(c) =>
      /\ mutex_lista.op = (IF shell[c].en = "send" THEN "enviar" ELSE "conectar")
      /\ mutex_lista.usuario = shell[c].usuario
      /\ \A b \in Clientes : Espera(b) => b = c

\* Sockets are created in order, no port has two open ones, and a thread inside
\* accept() serves nobody.
Sockets ==
  /\ Usadas = 1..Cardinality(Usadas)
  /\ \A e \in Escuchas :
       /\ e \notin Usadas => escucha[e] = SinCrear
       /\ e \in Usadas => escucha[e].cliente \in Clientes /\ escucha[e].puerto \in Puertos
       /\ escucha[e].hilo = "accept" => escucha[e].atiende = SinConexion
       /\ Len(escucha[e].cola) <= Backlog
       /\ Abierta(e) => \A f \in Escuchas :
            Abierta(f) /\ escucha[f].puerto = escucha[e].puerto => f = e

\* u connected with a socket on port p.
Tuvo(u, p) == \E f \in Escuchas : escucha[f].puerto = p /\ escucha[f].de = u

Direcciones ==
  /\ \A u \in Usuarios : conectado[u] => Tuvo(u, puerto[u])
  /\ \A c \in Clientes, u \in Usuarios : dir[c][u] # 0 => Tuvo(u, dir[c][u])
  /\ \A e \in Escuchas : \A x \in En(e) \ {SinConexion} : Tuvo(x.para, escucha[e].puerto)

InvG == Inv2 /\ RedCoherente /\ SinRepetir

Inv == InvG /\ Tipos /\ Ordenes /\ Turno /\ Sockets /\ Direcciones
-----------------------------------------------------------------------------
LEMMA Supuestos ==
  /\ MiIp \in IPs
  /\ Nadie \notin Usuarios /\ Nadie \notin Clientes /\ Backlog \in Nat \ {0, 1} /\ MaxEscuchas \in Nat
  /\ MaxMensajes \in Nat
  /\ 0 \notin Escuchas
  /\ \A e \in Escuchas : e \in Nat /\ e > 0
BY SistemaSupuestos, GestionSupuestos DEF MiIp, Escuchas

\* What there is to know of the kinds of connections.
LEMMA Conexiones ==
  /\ SinConexion \notin Conexion
  /\ \A x \in Conexion : x.tipo \in {"mensaje", "ack", "fichero"} /\ x.para \in Usuarios
  /\ \A x \in Conexion : x.tipo = "mensaje" => x.n \in 1..MaxMensajes
  /\ \A x \in Conexion : x.tipo = "fichero" => x.cliente \in Clientes
  /\ SinConexion.tipo = "ninguna"
<1>1. SinConexion.tipo = "ninguna"
  BY DEF SinConexion
<1>2. \A x \in Conexion : x.tipo \in {"mensaje", "ack", "fichero"} /\ x.para \in Usuarios
  BY DEF Conexion
<1>3. \A x \in Conexion : x.tipo = "mensaje" => x.n \in 1..MaxMensajes
  BY DEF Conexion
<1>4. \A x \in Conexion : x.tipo = "fichero" => x.cliente \in Clientes
  BY DEF Conexion
<1> QED
  BY <1>1, <1>2, <1>3, <1>4

LEMMA Campos ==
  ASSUME Tipos, NEW e \in Escuchas
  PROVE  /\ escucha[e] \in Socket
         /\ escucha[e].hilo \in {"no", "accept", "lee", "fin"}
         /\ escucha[e].cliente \in Clientes \cup {Nadie}
         /\ escucha[e].puerto \in Puertos \cup {0}
         /\ escucha[e].cerrado \in BOOLEAN
         /\ escucha[e].cola \in Seq(Conexion)
         /\ escucha[e].atiende \in Conexion \cup {SinConexion}
         /\ escucha[e].de \in Usuarios \cup {Nadie}
<1>1. escucha[e] \in Socket
  BY DEF Tipos
<1> QED
  BY <1>1 DEF Socket
-----------------------------------------------------------------------------
\* What every step but the creation of a socket does to the sockets: it opens
\* none, changes neither their ports nor who connected with them, and keeps their
\* queues within the kernel's limit.
Estable ==
  /\ escucha' \in [Escuchas -> Socket]
  /\ \A e \in Escuchas :
       /\ escucha'[e].cliente = escucha[e].cliente
       /\ escucha'[e].puerto = escucha[e].puerto
       /\ escucha[e].de # Nadie => escucha'[e].de = escucha[e].de
       /\ escucha'[e].hilo = "no" <=> escucha[e].hilo = "no"
       /\ escucha[e].hilo = "no" => escucha'[e] = escucha[e]
       /\ Abierta(e)' => Abierta(e)
       /\ escucha'[e].hilo = "accept" => escucha'[e].atiende = SinConexion
       /\ Len(escucha'[e].cola) <= Backlog

\* No connection reaches a socket.
SinLlegadas == \A e \in Escuchas : En(e)' \subseteq En(e) \cup {SinConexion}

LEMMA SocketsEstable ==
  ASSUME Sockets, Estable
  PROVE  Sockets' /\ Usadas' = Usadas
<1>1. Usadas' = Usadas
  BY DEF Usadas, Estable
<1>2. Usadas' = 1..Cardinality(Usadas')
  BY <1>1 DEF Sockets
<1>3. ASSUME NEW e \in Escuchas
      PROVE  /\ e \notin Usadas' => escucha'[e] = SinCrear
             /\ e \in Usadas' => escucha'[e].cliente \in Clientes /\ escucha'[e].puerto \in Puertos
             /\ escucha'[e].hilo = "accept" => escucha'[e].atiende = SinConexion
             /\ Len(escucha'[e].cola) <= Backlog
  BY <1>1 DEF Sockets, Estable, Usadas
<1>4. ASSUME NEW e \in Escuchas, NEW f \in Escuchas, Abierta(e)', Abierta(f)',
             escucha'[f].puerto = escucha'[e].puerto
      PROVE  f = e
  BY <1>4 DEF Sockets, Estable
<1> QED
  BY <1>1, <1>2, <1>3, <1>4 DEF Sockets

LEMMA TuvoEstable ==
  ASSUME Estable, NEW u \in Usuarios, NEW p, Tuvo(u, p)
  PROVE  Tuvo(u, p)'
<1>1. PICK f \in Escuchas : escucha[f].puerto = p /\ escucha[f].de = u
  BY DEF Tuvo
<1>2. escucha'[f].puerto = p /\ escucha'[f].de = u
  BY <1>1, Supuestos DEF Estable
<1> QED
  BY <1>2 DEF Tuvo

LEMMA EnCampos ==
  ASSUME Tipos, NEW e \in Escuchas
  PROVE  /\ En(e) \subseteq Conexion \cup {SinConexion}
         /\ \A x : x \in En(e) <=>
              \/ x = escucha[e].atiende
              \/ \E i \in 1..Len(escucha[e].cola) : x = escucha[e].cola[i]
<1>1. escucha[e].cola \in Seq(Conexion) /\ escucha[e].atiende \in Conexion \cup {SinConexion}
  BY Campos
<1>2. \A i \in 1..Len(escucha[e].cola) : escucha[e].cola[i] \in Conexion
  BY <1>1, ElementOfSeq
<1>3. DOMAIN escucha[e].cola = 1..Len(escucha[e].cola)
  BY <1>1
<1> QED
  BY <1>1, <1>2, <1>3 DEF En

\* The same, of the next state.
LEMMA EnCamposDespues ==
  ASSUME escucha' \in [Escuchas -> Socket], NEW e \in Escuchas
  PROVE  \A x : x \in En(e)' <=>
           \/ x = escucha'[e].atiende
           \/ \E i \in 1..Len(escucha'[e].cola) : x = escucha'[e].cola[i]
<1>1. escucha'[e] \in Socket
  OBVIOUS
<1>2. escucha'[e].cola \in Seq(Conexion)
  BY <1>1 DEF Socket
<1>3. DOMAIN escucha'[e].cola = 1..Len(escucha'[e].cola)
  BY <1>2
<1> QED
  BY <1>3 DEF En

\* A socket with some field changed is a socket.
LEMMA CambiarAccept ==
  ASSUME NEW s \in Socket, NEW x \in Conexion \cup {SinConexion}, NEW q \in Seq(Conexion)
  PROVE  [s EXCEPT !.hilo = "lee", !.atiende = x, !.cola = q] \in Socket
BY DEF Socket

\* accept() takes the first connection of the queue.
LEMMA AcceptSocket ==
  ASSUME Tipos, Sockets, NEW e \in Escuchas, Accept(e)
  PROVE  /\ escucha[e].cola # <<>>
         /\ Len(escucha[e].cola) \in Nat \ {0}
         /\ escucha[e].atiende = SinConexion
         /\ escucha'[e] = [escucha[e] EXCEPT !.hilo = "lee",
              !.atiende = escucha[e].cola[1], !.cola = Tail(escucha[e].cola)]
         /\ Len(Tail(escucha[e].cola)) = Len(escucha[e].cola) - 1
         /\ \A i \in 1..(Len(escucha[e].cola) - 1) :
              Tail(escucha[e].cola)[i] = escucha[e].cola[i + 1]
         /\ \A f \in Escuchas \ {e} : escucha'[f] = escucha[f]
         /\ escucha' \in [Escuchas -> Socket]
<1>1. /\ escucha[e].hilo = "accept" /\ escucha[e].cola # <<>>
      /\ escucha' = [escucha EXCEPT ![e].hilo = "lee",
           ![e].atiende = Head(escucha[e].cola), ![e].cola = Tail(@)]
  BY DEF Accept
<1>2. escucha[e].cola \in Seq(Conexion)
  BY Campos
<1>3. /\ Head(escucha[e].cola) \in Conexion
      /\ Tail(escucha[e].cola) \in Seq(Conexion)
      /\ Head(escucha[e].cola) = escucha[e].cola[1]
      /\ Len(Tail(escucha[e].cola)) = Len(escucha[e].cola) - 1
      /\ Len(escucha[e].cola) \in Nat \ {0}
      /\ \A i \in 1..(Len(escucha[e].cola) - 1) :
              Tail(escucha[e].cola)[i] = escucha[e].cola[i + 1]
  BY <1>1, <1>2, HeadTailProperties, LenProperties, EmptySeq, ElementOfSeq
<1>4. /\ escucha'[e] = [escucha[e] EXCEPT !.hilo = "lee",
              !.atiende = escucha[e].cola[1], !.cola = Tail(escucha[e].cola)]
      /\ \A f \in Escuchas \ {e} : escucha'[f] = escucha[f]
      /\ escucha' = [f \in Escuchas |-> escucha'[f]]
  BY <1>1, <1>3 DEF Tipos
<1>5. escucha'[e] \in Socket
  <2>1. escucha[e] \in Socket
    BY Campos
  <2>2. /\ escucha[e].cola[1] \in Conexion \cup {SinConexion}
        /\ Tail(escucha[e].cola) \in Seq(Conexion)
    BY <1>3
  <2>3. [escucha[e] EXCEPT !.hilo = "lee", !.atiende = escucha[e].cola[1],
           !.cola = Tail(escucha[e].cola)] \in Socket
    BY <2>1, <2>2, CambiarAccept, Zenon
  <2> QED
    BY <1>4, <2>3, Zenon
<1>6. \A f \in Escuchas \ {e} : escucha'[f] \in Socket
  BY <1>4, Campos
<1>7. escucha' \in [Escuchas -> Socket]
  BY <1>4, <1>5, <1>6
<1> QED
  BY <1>1, <1>3, <1>4, <1>7 DEF Sockets

LEMMA AcceptPaso ==
  ASSUME Tipos, Sockets, NEW e \in Escuchas, Accept(e)
  PROVE  Estable /\ SinLlegadas
<1>1. /\ escucha'[e] = [escucha[e] EXCEPT !.hilo = "lee",
              !.atiende = escucha[e].cola[1], !.cola = Tail(escucha[e].cola)]
      /\ \A f \in Escuchas \ {e} : escucha'[f] = escucha[f]
      /\ escucha' \in [Escuchas -> Socket]
      /\ Len(escucha[e].cola) \in Nat \ {0}
      /\ Len(Tail(escucha[e].cola)) = Len(escucha[e].cola) - 1
      /\ \A i \in 1..(Len(escucha[e].cola) - 1) :
              Tail(escucha[e].cola)[i] = escucha[e].cola[i + 1]
  BY AcceptSocket
<1>2. escucha[e].hilo = "accept" /\ listen_sock' = listen_sock
  BY DEF Accept, local
<1>3. /\ escucha'[e].hilo = "lee" /\ escucha'[e].atiende = escucha[e].cola[1]
      /\ escucha'[e].cola = Tail(escucha[e].cola)
      /\ escucha'[e].cliente = escucha[e].cliente /\ escucha'[e].puerto = escucha[e].puerto
      /\ escucha'[e].de = escucha[e].de /\ escucha'[e].cerrado = escucha[e].cerrado
  BY <1>1, Campos DEF Socket
<1>4. Abierta(e)
  BY <1>2 DEF Abierta
<1>5. Len(escucha'[e].cola) <= Backlog
  BY <1>1, <1>3, Supuestos DEF Sockets
<1>6. \A f \in Escuchas \ {e} : Abierta(f)' => Abierta(f)
  BY <1>1, <1>2 DEF Abierta
<1>7. Estable
  <2>1. \A f \in Escuchas \ {e} :
          /\ escucha[f].hilo = "accept" => escucha[f].atiende = SinConexion
          /\ Len(escucha[f].cola) <= Backlog
    BY DEF Sockets
  <2>2. escucha[e].hilo # "no"
    BY <1>2
  <2>3. escucha'[e].hilo \notin {"no", "accept"}
    BY <1>3
  <2> QED
    BY ZenonT(40), <1>1, <1>3, <1>4, <1>5, <1>6, <2>1, <2>2, <2>3 DEF Estable
<1>8. En(e)' \subseteq En(e)
  <2>1. ASSUME NEW x \in En(e)' PROVE x \in En(e)
    <3>1. CASE x = escucha'[e].atiende
      <4>1. 1 \in 1..Len(escucha[e].cola)
        BY <1>1
      <4> QED
        BY <1>3, <3>1, <4>1, EnCampos
    <3>2. ASSUME NEW i \in 1..Len(escucha'[e].cola), x = escucha'[e].cola[i]
          PROVE  x \in En(e)
      <4>1. i \in 1..(Len(escucha[e].cola) - 1) /\ i + 1 \in 1..Len(escucha[e].cola)
        BY <1>1, <1>3
      <4>2. x = escucha[e].cola[i + 1]
        BY <1>1, <1>3, <3>2, <4>1
      <4> QED
        BY <4>1, <4>2, EnCampos
    <3>3. \/ x = escucha'[e].atiende
          \/ \E i \in 1..Len(escucha'[e].cola) : x = escucha'[e].cola[i]
      <4>1. escucha' \in [Escuchas -> Socket]
        BY <1>1
      <4> QED
        BY <2>1, <4>1, EnCamposDespues
    <3> QED
      BY <3>1, <3>2, <3>3
  <2> QED
    BY <2>1
<1>9. \A f \in Escuchas \ {e} : En(f)' = En(f)
  BY <1>1 DEF En
<1> QED
  BY <1>7, <1>8, <1>9 DEF SinLlegadas

\* A step that leaves the queues alone, and takes nothing new in hand, brings no
\* connection.
LEMMA MismasColas ==
  ASSUME Tipos, escucha' \in [Escuchas -> Socket],
         \A e \in Escuchas :
           /\ escucha'[e].cola = escucha[e].cola
           /\ escucha'[e].atiende \in {escucha[e].atiende, SinConexion}
  PROVE  SinLlegadas
<1> SUFFICES ASSUME NEW e \in Escuchas, NEW x \in En(e)'
             PROVE  x \in En(e) \cup {SinConexion}
  BY DEF SinLlegadas
<1>1. CASE x = escucha'[e].atiende
  BY <1>1, EnCampos
<1>2. ASSUME NEW i \in 1..Len(escucha'[e].cola), x = escucha'[e].cola[i]
      PROVE  x \in En(e)
  BY <1>2, EnCampos
<1> QED
  BY <1>1, <1>2, EnCamposDespues

LEMMA CambiarServir ==
  ASSUME NEW s \in Socket, NEW h \in {"fin", "accept"}
  PROVE  [s EXCEPT !.atiende = SinConexion, !.hilo = h] \in Socket
BY DEF Socket

LEMMA ServirSocket ==
  ASSUME Tipos, NEW e \in Escuchas, Servir(e)
  PROVE  /\ escucha[e].hilo = "lee"
         /\ escucha' \in [Escuchas -> Socket]
         /\ escucha'[e].hilo = IF escucha[e].cerrado THEN "fin" ELSE "accept"
         /\ escucha'[e].atiende = SinConexion
         /\ escucha'[e].cliente = escucha[e].cliente /\ escucha'[e].puerto = escucha[e].puerto
         /\ escucha'[e].cerrado = escucha[e].cerrado /\ escucha'[e].cola = escucha[e].cola
         /\ escucha'[e].de = escucha[e].de
         /\ \A f \in Escuchas \ {e} : escucha'[f] = escucha[f]
<1> DEFINE h == IF escucha[e].cerrado THEN "fin" ELSE "accept"
<1>1. /\ escucha[e].hilo = "lee"
      /\ escucha' = [escucha EXCEPT ![e].atiende = SinConexion, ![e].hilo = h]
  BY DEF Servir
<1>2. h \in {"fin", "accept"}
  OBVIOUS
<1> HIDE DEF h
<1>3. /\ escucha'[e] = [escucha[e] EXCEPT !.atiende = SinConexion, !.hilo = h]
      /\ \A f \in Escuchas \ {e} : escucha'[f] = escucha[f]
      /\ escucha' = [f \in Escuchas |-> escucha'[f]]
  BY <1>1 DEF Tipos
<1>4. escucha[e] \in Socket /\ \A f \in Escuchas \ {e} : escucha'[f] \in Socket
  BY <1>3, Campos
<1>5. [escucha[e] EXCEPT !.atiende = SinConexion, !.hilo = h] \in Socket
  BY <1>2, <1>4, CambiarServir, Zenon
<1>6. escucha' \in [Escuchas -> Socket]
  <2>1. escucha'[e] \in Socket
    BY <1>3, <1>5, Zenon
  <2> QED
    BY <1>3, <1>4, <2>1
<1>7. /\ escucha'[e].hilo = h /\ escucha'[e].atiende = SinConexion
      /\ escucha'[e].cliente = escucha[e].cliente /\ escucha'[e].puerto = escucha[e].puerto
      /\ escucha'[e].cerrado = escucha[e].cerrado /\ escucha'[e].cola = escucha[e].cola
      /\ escucha'[e].de = escucha[e].de
  BY <1>3, <1>4 DEF Socket
<1> QED
  BY <1>1, <1>3, <1>6, <1>7 DEF h

LEMMA ServirPaso ==
  ASSUME Tipos, Sockets, NEW e \in Escuchas, Servir(e)
  PROVE  Estable /\ SinLlegadas
<1>1. /\ escucha[e].hilo = "lee"
      /\ escucha' \in [Escuchas -> Socket]
      /\ escucha'[e].hilo = IF escucha[e].cerrado THEN "fin" ELSE "accept"
      /\ escucha'[e].atiende = SinConexion
      /\ escucha'[e].cliente = escucha[e].cliente /\ escucha'[e].puerto = escucha[e].puerto
      /\ escucha'[e].cerrado = escucha[e].cerrado /\ escucha'[e].cola = escucha[e].cola
      /\ escucha'[e].de = escucha[e].de
      /\ \A f \in Escuchas \ {e} : escucha'[f] = escucha[f]
  BY ServirSocket
<1>2. listen_sock' = listen_sock
  BY DEF Servir, local
<1>3. Abierta(e)' => Abierta(e)
  <2>1. escucha[e].cerrado \in BOOLEAN
    BY Campos
  <2> QED
    BY <1>1, <1>2, <2>1 DEF Abierta
<1>4. \A f \in Escuchas \ {e} : Abierta(f)' => Abierta(f)
  BY <1>1, <1>2 DEF Abierta
<1>5. Estable
  BY <1>1, <1>3, <1>4 DEF Estable, Sockets
<1>6. SinLlegadas
  BY <1>1, MismasColas
<1> QED
  BY <1>5, <1>6

LEMMA ExcepcionSocket ==
  ASSUME Tipos, NEW e \in Escuchas, Excepcion(e)
  PROVE  /\ escucha[e].hilo = "lee"
         /\ escucha' \in [Escuchas -> Socket]
         /\ escucha'[e].hilo = "fin" /\ escucha'[e].atiende = escucha[e].atiende
         /\ escucha'[e].cliente = escucha[e].cliente /\ escucha'[e].puerto = escucha[e].puerto
         /\ escucha'[e].cerrado = escucha[e].cerrado /\ escucha'[e].cola = escucha[e].cola
         /\ escucha'[e].de = escucha[e].de
         /\ \A f \in Escuchas \ {e} : escucha'[f] = escucha[f]
<1>1. /\ escucha[e].hilo = "lee"
      /\ escucha' = [escucha EXCEPT ![e].hilo = "fin"]
  BY DEF Excepcion
<1>2. /\ escucha'[e] = [escucha[e] EXCEPT !.hilo = "fin"]
      /\ \A f \in Escuchas \ {e} : escucha'[f] = escucha[f]
      /\ escucha' = [f \in Escuchas |-> escucha'[f]]
  BY <1>1 DEF Tipos
<1>3. escucha[e] \in Socket /\ \A f \in Escuchas \ {e} : escucha'[f] \in Socket
  BY <1>2, Campos
<1>4. escucha'[e] \in Socket
  BY <1>2, <1>3 DEF Socket
<1>5. escucha' \in [Escuchas -> Socket]
  BY <1>2, <1>3, <1>4
<1>6. /\ escucha'[e].hilo = "fin" /\ escucha'[e].atiende = escucha[e].atiende
      /\ escucha'[e].cliente = escucha[e].cliente /\ escucha'[e].puerto = escucha[e].puerto
      /\ escucha'[e].cerrado = escucha[e].cerrado /\ escucha'[e].cola = escucha[e].cola
      /\ escucha'[e].de = escucha[e].de
  BY <1>2, <1>3 DEF Socket
<1> QED
  BY <1>1, <1>2, <1>5, <1>6

LEMMA ExcepcionPaso ==
  ASSUME Tipos, Sockets, NEW e \in Escuchas, Excepcion(e)
  PROVE  Estable /\ SinLlegadas
<1>1. /\ escucha[e].hilo = "lee"
      /\ escucha' \in [Escuchas -> Socket]
      /\ escucha'[e].hilo = "fin" /\ escucha'[e].atiende = escucha[e].atiende
      /\ escucha'[e].cliente = escucha[e].cliente /\ escucha'[e].puerto = escucha[e].puerto
      /\ escucha'[e].cerrado = escucha[e].cerrado /\ escucha'[e].cola = escucha[e].cola
      /\ escucha'[e].de = escucha[e].de
      /\ \A f \in Escuchas \ {e} : escucha'[f] = escucha[f]
  BY ExcepcionSocket
<1>2. listen_sock' = listen_sock
  BY DEF Excepcion, local
<1>3. Abierta(e)' => Abierta(e)
  BY <1>1, <1>2 DEF Abierta
<1>4. \A f \in Escuchas \ {e} : Abierta(f)' => Abierta(f)
  BY <1>1, <1>2 DEF Abierta
<1>5. Estable
  BY <1>1, <1>3, <1>4 DEF Estable, Sockets
<1>6. SinLlegadas
  BY <1>1, MismasColas
<1> QED
  BY <1>5, <1>6

\* A socket with cerrado, or its history, changed.
ConCerrado(s, b) == [s EXCEPT !.cerrado = b]
ConDe(s, u) == [s EXCEPT !.de = u]

LEMMA CambiarCerrado ==
  ASSUME NEW s \in Socket, NEW b \in BOOLEAN
  PROVE  /\ ConCerrado(s, b) \in Socket
         /\ ConCerrado(s, b).hilo = s.hilo /\ ConCerrado(s, b).cliente = s.cliente
         /\ ConCerrado(s, b).puerto = s.puerto /\ ConCerrado(s, b).cerrado = b
         /\ ConCerrado(s, b).cola = s.cola /\ ConCerrado(s, b).atiende = s.atiende
         /\ ConCerrado(s, b).de = s.de
         /\ b = s.cerrado => ConCerrado(s, b) = s
BY DEF Socket, ConCerrado

LEMMA CambiarDe ==
  ASSUME NEW s \in Socket, NEW u \in Usuarios
  PROVE  /\ ConDe(s, u) \in Socket
         /\ ConDe(s, u).hilo = s.hilo /\ ConDe(s, u).cliente = s.cliente
         /\ ConDe(s, u).puerto = s.puerto /\ ConDe(s, u).cerrado = s.cerrado
         /\ ConDe(s, u).cola = s.cola /\ ConDe(s, u).atiende = s.atiende
         /\ ConDe(s, u).de = u
BY DEF Socket, ConDe

LEMMA DisconnectPaso ==
  ASSUME Tipos, Ordenes, Sockets, NEW c \in Clientes, NEW u, Disconnect(c, u)
  PROVE  Estable /\ SinLlegadas
<1>1. /\ escucha' = [e \in Escuchas |->
           [escucha[e] EXCEPT !.cerrado = @ \/ listen_sock[c] = e]]
      /\ listen_sock' = [listen_sock EXCEPT ![c] = 0]
  BY DEF Disconnect
<1>2. ASSUME NEW e \in Escuchas
      PROVE  /\ escucha'[e] \in Socket
             /\ escucha'[e].hilo = escucha[e].hilo /\ escucha'[e].atiende = escucha[e].atiende
             /\ escucha'[e].cliente = escucha[e].cliente
             /\ escucha'[e].puerto = escucha[e].puerto
             /\ escucha'[e].cerrado = (escucha[e].cerrado \/ listen_sock[c] = e)
             /\ escucha'[e].cola = escucha[e].cola /\ escucha'[e].de = escucha[e].de
             /\ listen_sock[c] # e => escucha'[e] = escucha[e]
  <2>1. /\ escucha[e] \in Socket /\ escucha[e].cerrado \in BOOLEAN
    BY Campos
  <2>2. PICK b \in BOOLEAN : b = (escucha[e].cerrado \/ listen_sock[c] = e)
    OBVIOUS
  <2>3. escucha'[e] = ConCerrado(escucha[e], b)
    BY <1>1, <2>2 DEF ConCerrado
  <2>4. listen_sock[c] # e => b = escucha[e].cerrado
    BY <2>1, <2>2
  <2>5. /\ escucha'[e] \in Socket
        /\ escucha'[e].hilo = escucha[e].hilo /\ escucha'[e].atiende = escucha[e].atiende
        /\ escucha'[e].cliente = escucha[e].cliente
        /\ escucha'[e].puerto = escucha[e].puerto
        /\ escucha'[e].cerrado = b
        /\ escucha'[e].cola = escucha[e].cola /\ escucha'[e].de = escucha[e].de
        /\ b = escucha[e].cerrado => escucha'[e] = escucha[e]
    BY <2>1, <2>3, CambiarCerrado
  <2> QED
    BY <2>2, <2>4, <2>5
<1>3. escucha' \in [Escuchas -> Socket]
  <2>1. escucha' = [e \in Escuchas |-> escucha'[e]]
    BY <1>1
  <2> QED
    BY <1>2, <2>1
<1>4. listen_sock[c] # 0 => escucha[listen_sock[c]].hilo # "no"
  BY DEF Ordenes, Usadas
<1>5. ASSUME NEW e \in Escuchas, Abierta(e)'
      PROVE  Abierta(e)
  <2>1. escucha[e].cerrado \in BOOLEAN
    BY Campos
  <2>2. CASE escucha[e].hilo \in {"accept", "lee"}
    BY <1>2, <1>5, <2>1, <2>2 DEF Abierta
  <2>3. CASE escucha[e].hilo \notin {"accept", "lee"}
    <3>1. /\ escucha[e].hilo = "fin" /\ ~escucha'[e].cerrado
          /\ listen_sock'[escucha[e].cliente] = e
      BY <1>2, <1>5, <2>3 DEF Abierta
    <3>2. escucha[e].cliente \in Clientes
      BY <3>1 DEF Sockets, Usadas
    <3>3. listen_sock[escucha[e].cliente] = e
      BY <1>1, <3>1, <3>2, Supuestos DEF Tipos
    <3> QED
      BY <1>2, <2>1, <3>1, <3>3 DEF Abierta
  <2> QED
    BY <2>2, <2>3
<1>6. Estable
  <2>1. \A e \in Escuchas :
          /\ escucha[e].hilo = "accept" => escucha[e].atiende = SinConexion
          /\ Len(escucha[e].cola) <= Backlog
    BY DEF Sockets
  <2>2. \A e \in Escuchas : escucha[e].hilo = "no" => escucha'[e] = escucha[e]
    BY <1>2, <1>4, Supuestos
  <2> QED
    BY <1>2, <1>3, <1>5, <2>1, <2>2 DEF Estable
<1>7. SinLlegadas
  BY <1>2, <1>3, MismasColas
<1> QED
  BY <1>6, <1>7

LEMMA CambiarQuit ==
  ASSUME NEW s \in Socket
  PROVE  LET t == [s EXCEPT !.hilo = "fin", !.cerrado = TRUE] IN
         /\ t \in Socket
         /\ t.hilo = "fin" /\ t.cerrado = TRUE /\ t.cliente = s.cliente
         /\ t.puerto = s.puerto /\ t.cola = s.cola /\ t.atiende = s.atiende /\ t.de = s.de
BY DEF Socket

LEMMA QuitPaso ==
  ASSUME Tipos, Ordenes, Sockets, NEW c \in Clientes, Quit(c)
  PROVE  Estable /\ SinLlegadas
<1>1. /\ escucha' = [e \in Escuchas |-> IF escucha[e].cliente = c
           THEN [escucha[e] EXCEPT !.hilo = "fin", !.cerrado = TRUE] ELSE escucha[e]]
      /\ listen_sock' = [listen_sock EXCEPT ![c] = 0]
  BY DEF Quit
<1>2. ASSUME NEW e \in Escuchas, escucha[e].cliente = c
      PROVE  /\ escucha'[e] \in Socket
             /\ escucha'[e].hilo = "fin" /\ escucha'[e].atiende = escucha[e].atiende
             /\ escucha'[e].cliente = escucha[e].cliente
             /\ escucha'[e].puerto = escucha[e].puerto
             /\ escucha'[e].cerrado = TRUE
             /\ escucha'[e].cola = escucha[e].cola /\ escucha'[e].de = escucha[e].de
  <2>1. escucha[e] \in Socket
    BY Campos
  <2>2. escucha'[e] = [escucha[e] EXCEPT !.hilo = "fin", !.cerrado = TRUE]
    BY <1>1, <1>2
  <2> QED
    BY <2>1, <2>2, CambiarQuit
<1>3. \A e \in Escuchas : escucha[e].cliente # c => escucha'[e] = escucha[e]
  BY <1>1
<1>4. escucha' \in [Escuchas -> Socket]
  <2>1. escucha' = [e \in Escuchas |-> escucha'[e]]
    BY <1>1
  <2>2. \A e \in Escuchas : escucha[e] \in Socket
    BY Campos
  <2> QED
    BY <1>2, <1>3, <2>1, <2>2
<1>5. \A e \in Escuchas : escucha[e].cliente = c => escucha[e].hilo # "no"
  <2>1. SinCrear.cliente = Nadie
    BY DEF SinCrear
  <2> QED
    BY <2>1, Supuestos DEF Sockets, Usadas
<1>6. ASSUME NEW e \in Escuchas, Abierta(e)'
      PROVE  Abierta(e)
  <2>1. escucha[e].cliente # c /\ escucha'[e] = escucha[e]
    BY <1>2, <1>3, <1>6 DEF Abierta
  <2>2. CASE escucha[e].hilo \in {"accept", "lee"}
    BY <1>6, <2>1, <2>2 DEF Abierta
  <2>3. CASE escucha[e].hilo \notin {"accept", "lee"}
    <3>1. /\ escucha[e].hilo = "fin" /\ ~escucha[e].cerrado
          /\ listen_sock'[escucha[e].cliente] = e
      BY <1>6, <2>1, <2>3 DEF Abierta
    <3>2. escucha[e].cliente \in Clientes
      BY <3>1 DEF Sockets, Usadas
    <3>3. listen_sock[escucha[e].cliente] = e
      BY <1>1, <2>1, <3>1, <3>2 DEF Tipos
    <3> QED
      BY <3>1, <3>3 DEF Abierta
  <2> QED
    BY <2>2, <2>3
<1>7. Estable
  <2>1. \A e \in Escuchas :
          /\ escucha[e].hilo = "accept" => escucha[e].atiende = SinConexion
          /\ Len(escucha[e].cola) <= Backlog
    BY DEF Sockets
  <2>2. ASSUME NEW e \in Escuchas
        PROVE  /\ escucha'[e].cliente = escucha[e].cliente
               /\ escucha'[e].puerto = escucha[e].puerto
               /\ escucha'[e].de = escucha[e].de
               /\ escucha'[e].hilo = "no" <=> escucha[e].hilo = "no"
               /\ escucha[e].hilo = "no" => escucha'[e] = escucha[e]
               /\ escucha'[e].hilo = "accept" => escucha'[e].atiende = SinConexion
               /\ Len(escucha'[e].cola) <= Backlog
    <3>1. CASE escucha[e].cliente = c
      BY <1>2, <1>5, <2>1, <3>1
    <3>2. CASE escucha[e].cliente # c
      BY <1>3, <2>1, <3>2
    <3> QED
      BY <3>1, <3>2
  <2> QED
    BY <1>4, <1>6, <2>2 DEF Estable
<1>8. SinLlegadas
  <2>1. \A e \in Escuchas : /\ escucha'[e].cola = escucha[e].cola
                            /\ escucha'[e].atiende \in {escucha[e].atiende, SinConexion}
    BY <1>2, <1>3
  <2> QED
    BY <1>4, <2>1, MismasColas
<1> QED
  BY <1>7, <1>8

\* The server takes the CONNECT of c: its socket is u's from now on.
LEMMA PideSocket ==
  ASSUME Tipos, Ordenes, Sockets, NEW c \in Clientes, shell[c].en = "pide",
         NEW u \in Usuarios, escucha' = [escucha EXCEPT ![listen_sock[c]].de = u],
         listen_sock' = listen_sock
  PROVE  /\ Estable /\ SinLlegadas
         /\ listen_sock[c] \in Escuchas
         /\ escucha'[listen_sock[c]].de = u
         /\ escucha'[listen_sock[c]].puerto = escucha[listen_sock[c]].puerto
         /\ escucha[listen_sock[c]].puerto \in Puertos
         /\ \A f \in Escuchas \ {listen_sock[c]} : escucha'[f] = escucha[f]
         /\ escucha'[listen_sock[c]].cola = escucha[listen_sock[c]].cola
         /\ escucha'[listen_sock[c]].atiende = escucha[listen_sock[c]].atiende
<1>1. PICK e \in Escuchas :
        e = listen_sock[c] /\ escucha[e].hilo # "no" /\ escucha[e].de = Nadie
  BY DEF Ordenes, Usadas, Tipos
<1>2. escucha[e] \in Socket /\ \A f \in Escuchas : escucha[f] \in Socket
  BY Campos
<1>3. /\ escucha'[e] = ConDe(escucha[e], u)
      /\ \A f \in Escuchas \ {e} : escucha'[f] = escucha[f]
      /\ escucha' = [f \in Escuchas |-> escucha'[f]]
  BY <1>1 DEF Tipos, ConDe
<1>4. /\ escucha'[e] \in Socket
      /\ escucha'[e].hilo = escucha[e].hilo /\ escucha'[e].atiende = escucha[e].atiende
      /\ escucha'[e].cliente = escucha[e].cliente
      /\ escucha'[e].puerto = escucha[e].puerto
      /\ escucha'[e].cerrado = escucha[e].cerrado
      /\ escucha'[e].cola = escucha[e].cola /\ escucha'[e].de = u
  BY <1>2, <1>3, CambiarDe
<1>5. escucha' \in [Escuchas -> Socket]
  BY <1>2, <1>3, <1>4
<1>6. \A f \in Escuchas : Abierta(f)' => Abierta(f)
  BY <1>3, <1>4 DEF Abierta
<1>7. Estable
  <2>1. \A f \in Escuchas :
          /\ escucha[f].hilo = "accept" => escucha[f].atiende = SinConexion
          /\ Len(escucha[f].cola) <= Backlog
    BY DEF Sockets
  <2> QED
    BY <1>1, <1>3, <1>4, <1>5, <1>6, <2>1 DEF Estable
<1>8. SinLlegadas
  <2>1. \A f \in Escuchas : /\ escucha'[f].cola = escucha[f].cola
                            /\ escucha'[f].atiende \in {escucha[f].atiende, SinConexion}
    BY <1>3, <1>4
  <2> QED
    BY <1>5, <2>1, MismasColas
<1>9. escucha[e].puerto \in Puertos
  BY <1>1 DEF Sockets, Usadas
<1> QED
  BY <1>1, <1>3, <1>4, <1>7, <1>8, <1>9
-----------------------------------------------------------------------------
\* What a socket holds, and that it holds message n once.
Dentro(s) == {s.cola[i] : i \in DOMAIN s.cola} \cup {s.atiende}

EsMensaje(x, n) == x.tipo = "mensaje" /\ x.n = n

Una(s, n) ==
  \A i \in DOMAIN s.cola : EsMensaje(s.cola[i], n) =>
    /\ ~EsMensaje(s.atiende, n)
    /\ \A j \in DOMAIN s.cola : EsMensaje(s.cola[j], n) => i = j

ConCola(s, x) == [s EXCEPT !.cola = Append(s.cola, x)]

LEMMA CambiarCola ==
  ASSUME NEW s \in Socket, NEW x \in Conexion
  PROVE  /\ ConCola(s, x) \in Socket
         /\ ConCola(s, x).hilo = s.hilo /\ ConCola(s, x).cliente = s.cliente
         /\ ConCola(s, x).puerto = s.puerto /\ ConCola(s, x).cerrado = s.cerrado
         /\ ConCola(s, x).cola = Append(s.cola, x) /\ ConCola(s, x).atiende = s.atiende
         /\ ConCola(s, x).de = s.de
         /\ Len(s.cola) \in Nat
         /\ Len(ConCola(s, x).cola) = Len(s.cola) + 1
         /\ Dentro(ConCola(s, x)) = Dentro(s) \cup {x}
         /\ \A n : Una(s, n) /\ (~EsMensaje(x, n) \/ \A y \in Dentro(s) : ~EsMensaje(y, n))
                     => Una(ConCola(s, x), n)
<1>1. s.cola \in Seq(Conexion)
  BY DEF Socket
<1>2. Append(s.cola, x) \in Seq(Conexion)
  BY <1>1
<1> DEFINE q == Append(s.cola, x)
<1>3. /\ ConCola(s, x) \in Socket
      /\ ConCola(s, x).hilo = s.hilo /\ ConCola(s, x).cliente = s.cliente
      /\ ConCola(s, x).puerto = s.puerto /\ ConCola(s, x).cerrado = s.cerrado
      /\ ConCola(s, x).cola = q /\ ConCola(s, x).atiende = s.atiende
      /\ ConCola(s, x).de = s.de
  <2> HIDE DEF q
  <2>1. q \in Seq(Conexion) /\ ConCola(s, x) = [s EXCEPT !.cola = q]
    BY <1>2 DEF q, ConCola
  <2> QED
    BY <2>1 DEF Socket
<1>4. /\ Len(s.cola) \in Nat
      /\ Len(q) = Len(s.cola) + 1
      /\ \A i \in 1..Len(s.cola) : q[i] = s.cola[i]
      /\ q[Len(s.cola) + 1] = x
      /\ DOMAIN q = 1..(Len(s.cola) + 1)
      /\ DOMAIN s.cola = 1..Len(s.cola)
  BY <1>1
<1> HIDE DEF q
<1>5. PICK k \in Nat : k = Len(s.cola)
  BY <1>4
<1>6. /\ DOMAIN s.cola = 1..k /\ DOMAIN q = 1..(k + 1)
      /\ \A i \in 1..k : q[i] = s.cola[i]
      /\ q[k + 1] = x
  BY <1>4, <1>5
<1>7. /\ 1..(k + 1) = (1..k) \cup {k + 1}
      /\ k + 1 \notin 1..k
  OBVIOUS
<1>8. Dentro(ConCola(s, x)) = Dentro(s) \cup {x}
  <2>1. Dentro(ConCola(s, x)) = {q[i] : i \in (1..k) \cup {k + 1}} \cup {s.atiende}
    BY <1>3, <1>6, <1>7 DEF Dentro
  <2>2. Dentro(s) = {s.cola[i] : i \in 1..k} \cup {s.atiende}
    BY <1>6 DEF Dentro
  <2>3. {q[i] : i \in (1..k) \cup {k + 1}} = {s.cola[i] : i \in 1..k} \cup {x}
    BY <1>6
  <2> QED
    BY <2>1, <2>2, <2>3
<1>9. ASSUME NEW n, Una(s, n), ~EsMensaje(x, n) \/ \A y \in Dentro(s) : ~EsMensaje(y, n)
      PROVE  Una(ConCola(s, x), n)
  <2>1. CASE ~EsMensaje(x, n)
    <3>1. ASSUME NEW i \in (1..k) \cup {k + 1}, EsMensaje(q[i], n)
          PROVE  i \in 1..k /\ EsMensaje(s.cola[i], n)
      BY <1>6, <2>1, <3>1
    <3> QED
      BY <1>3, <1>6, <1>7, <1>9, <3>1 DEF Una
  <2>2. CASE \A y \in Dentro(s) : ~EsMensaje(y, n)
    <3>1. \A i \in 1..k : ~EsMensaje(q[i], n)
      BY <1>6, <2>2 DEF Dentro
    <3>2. ~EsMensaje(s.atiende, n)
      BY <2>2 DEF Dentro
    <3> QED
      BY <1>3, <1>6, <1>7, <3>1, <3>2 DEF Una
  <2> QED
    BY <1>9, <2>1, <2>2
<1> QED
  BY <1>3, <1>4, <1>5, <1>8, <1>9 DEF q

\* Two states of the sockets that differ in their queues only.
MismaForma(esc, tras) ==
  /\ tras \in [Escuchas -> Socket]
  /\ \A e \in Escuchas :
       /\ tras[e].hilo = esc[e].hilo /\ tras[e].cliente = esc[e].cliente
       /\ tras[e].puerto = esc[e].puerto /\ tras[e].cerrado = esc[e].cerrado
       /\ tras[e].atiende = esc[e].atiende /\ tras[e].de = esc[e].de
       /\ esc[e].hilo = "no" => tras[e] = esc[e]
       /\ Len(tras[e].cola) <= Backlog

LEMMA FormaInicial ==
  ASSUME Tipos, Sockets
  PROVE  MismaForma(escucha, escucha)
BY DEF Tipos, Sockets, MismaForma

LEMMA FormaEstable ==
  ASSUME Sockets, MismaForma(escucha, escucha'), listen_sock' = listen_sock
  PROVE  Estable
<1>1. \A e \in Escuchas : Abierta(e)' => Abierta(e)
  BY DEF MismaForma, Abierta
<1> QED
  BY <1>1 DEF MismaForma, Sockets, Estable

\* A connection that opens reaches one socket: the open one on that port.
LEMMA EncolaUno ==
  ASSUME Tipos, Sockets, NEW esc, MismaForma(escucha, esc), NEW p, NEW x \in Conexion,
         Abre(esc, p)
  PROVE  \E g \in Escuchas :
           /\ Abierta(g) /\ escucha[g].puerto = p
           /\ Encola(esc, p, x) = [esc EXCEPT ![g] = ConCola(esc[g], x)]
           /\ Encola(esc, p, x)[g] = ConCola(esc[g], x)
           /\ \A e \in Escuchas \ {g} : Encola(esc, p, x)[e] = esc[e]
           /\ MismaForma(escucha, Encola(esc, p, x))
<1>1. PICK g \in Escuchas : Abierta(g) /\ esc[g].puerto = p /\ Len(esc[g].cola) < Backlog
  BY DEF Abre
<1>2. esc \in [Escuchas -> Socket] /\ \A e \in Escuchas : esc[e].puerto = escucha[e].puerto
  BY DEF MismaForma
<1>3. ASSUME NEW e \in Escuchas
      PROVE  (Abierta(e) /\ esc[e].puerto = p) <=> e = g
  BY <1>1, <1>2 DEF Sockets
<1>4. PICK tras : tras = Encola(esc, p, x)
  OBVIOUS
<1>5. tras = [e \in Escuchas |-> IF e = g THEN ConCola(esc[e], x) ELSE esc[e]]
  BY <1>3, <1>4 DEF Encola, ConCola
<1>6. /\ tras = [esc EXCEPT ![g] = ConCola(esc[g], x)]
      /\ tras[g] = ConCola(esc[g], x)
      /\ \A e \in Escuchas \ {g} : tras[e] = esc[e]
  BY <1>2, <1>5
<1>7. esc[g] \in Socket
  BY <1>2
<1>8. /\ tras[g] \in Socket
      /\ tras[g].hilo = esc[g].hilo /\ tras[g].cliente = esc[g].cliente
      /\ tras[g].puerto = esc[g].puerto /\ tras[g].cerrado = esc[g].cerrado
      /\ tras[g].atiende = esc[g].atiende /\ tras[g].de = esc[g].de
      /\ Len(esc[g].cola) \in Nat
      /\ Len(tras[g].cola) = Len(esc[g].cola) + 1
  BY <1>6, <1>7, CambiarCola
<1>9. tras \in [Escuchas -> Socket]
  BY <1>2, <1>5, <1>6, <1>8
<1>10. Len(tras[g].cola) <= Backlog
  BY <1>1, <1>8, Supuestos
<1>11. escucha[g].hilo # "no"
  BY <1>1 DEF Abierta
<1>12. MismaForma(escucha, tras)
  <2>1. ASSUME NEW e \in Escuchas
        PROVE  /\ tras[e].hilo = escucha[e].hilo /\ tras[e].cliente = escucha[e].cliente
               /\ tras[e].puerto = escucha[e].puerto /\ tras[e].cerrado = escucha[e].cerrado
               /\ tras[e].atiende = escucha[e].atiende /\ tras[e].de = escucha[e].de
               /\ escucha[e].hilo = "no" => tras[e] = escucha[e]
               /\ Len(tras[e].cola) <= Backlog
    <3>1. CASE e = g
      BY <1>8, <1>10, <1>11, <3>1 DEF MismaForma
    <3>2. CASE e # g
      BY <1>6, <3>2 DEF MismaForma
    <3> QED
      BY <3>1, <3>2
  <2> QED
    BY <1>9, <2>1 DEF MismaForma
<1> QED
  BY <1>1, <1>2, <1>4, <1>6, <1>12

LEMMA ConexionesDe ==
  ASSUME NEW m \in Mensaje, m.n <= MaxMensajes, NEW d \in Usuarios
  PROVE  /\ ConMensaje(m, d) \in Conexion /\ ConAck(m) \in Conexion
         /\ ConMensaje(m, d).para = d /\ ConAck(m).para = m.remitente
         /\ EsMensaje(ConMensaje(m, d), m.n)
         /\ \A n : EsMensaje(ConMensaje(m, d), n) => n = m.n
         /\ \A n : ~EsMensaje(ConAck(m), n)
         /\ m.remitente \in Usuarios
         /\ m.n \in 1..MaxMensajes
<1>1. m.n \in 1..MaxMensajes /\ m.remitente \in Usuarios
  BY Supuestos DEF Mensaje
<1>2. ConMensaje(m, d) \in Conexion /\ ConAck(m) \in Conexion
  BY <1>1 DEF ConMensaje, ConAck, Conexion
<1>3. /\ ConMensaje(m, d).para = d /\ ConAck(m).para = m.remitente
      /\ ConMensaje(m, d).tipo = "mensaje" /\ ConMensaje(m, d).n = m.n
      /\ ConAck(m).tipo = "ack"
  BY DEF ConMensaje, ConAck
<1> QED
  BY <1>1, <1>2, <1>3 DEF EsMensaje

\* What writing a message does to the sockets: the message reaches one of them, on
\* the port of its destination, and the confirmation, if it goes out, one on the
\* sender's.
EntregaEn(g, d, m, ack) ==
  /\ escucha[g].puerto = puerto[d]
  /\ ConMensaje(m, d) \in Dentro(escucha'[g])
  /\ \A e \in Escuchas :
       /\ Dentro(escucha[e]) \subseteq Dentro(escucha'[e])
       /\ \A x \in Dentro(escucha'[e]) :
            \/ x \in Dentro(escucha[e])
            \/ e = g /\ x = ConMensaje(m, d)
            \/ x = ConAck(m) /\ ack = "ok" /\ escucha[e].puerto = puerto[m.remitente]
       /\ \A n : Una(escucha[e], n) /\ (n # m.n \/ \A y \in Dentro(escucha[e]) : ~EsMensaje(y, n))
                   => Una(escucha'[e], n)

LEMMA EntregaSockets ==
  ASSUME Tipos, Sockets, NEW d \in Usuarios, NEW m \in Mensaje, m.n <= MaxMensajes,
         NEW ack, Entrega(d, m, ack)
  PROVE  /\ MismaForma(escucha, escucha')
         /\ \E g \in Escuchas : EntregaEn(g, d, m, ack)
<1> DEFINE x == ConMensaje(m, d)
           y == ConAck(m)
           r == m.remitente
<1>1. /\ x \in Conexion /\ y \in Conexion
      /\ \A n : EsMensaje(x, n) => n = m.n
      /\ \A n : ~EsMensaje(y, n)
  BY ConexionesDe
<1>2. PICK tras : tras = Encola(escucha, puerto[d], x)
  OBVIOUS
<1>3. /\ Abre(escucha, puerto[d])
      /\ ack = "ok" => Abre(tras, puerto[r])
      /\ escucha' = IF ack = "ok" THEN Encola(tras, puerto[r], y) ELSE tras
  BY <1>2 DEF Entrega
<1>4. MismaForma(escucha, escucha)
  BY FormaInicial
<1> HIDE DEF x, y, r
<1>5. PICK g \in Escuchas :
        /\ escucha[g].puerto = puerto[d]
        /\ tras[g] = ConCola(escucha[g], x)
        /\ \A e \in Escuchas \ {g} : tras[e] = escucha[e]
        /\ MismaForma(escucha, tras)
  BY <1>1, <1>2, <1>3, <1>4, EncolaUno
<1>6. ASSUME NEW e \in Escuchas
      PROVE  /\ Dentro(escucha[e]) \subseteq Dentro(tras[e])
             /\ \A z \in Dentro(tras[e]) : z \in Dentro(escucha[e]) \/ (e = g /\ z = x)
             /\ e = g => x \in Dentro(tras[e])
             /\ \A n : Una(escucha[e], n) /\ (n # m.n \/ \A z \in Dentro(escucha[e]) : ~EsMensaje(z, n))
                         => Una(tras[e], n)
  <2>1. CASE e = g
    <3>1. escucha[g] \in Socket
      BY Campos
    <3>2. /\ Dentro(tras[g]) = Dentro(escucha[g]) \cup {x}
          /\ \A n : Una(escucha[g], n) /\ (~EsMensaje(x, n) \/ \A z \in Dentro(escucha[g]) : ~EsMensaje(z, n))
                     => Una(tras[g], n)
      BY <1>1, <1>5, <3>1, CambiarCola
    <3> QED
      BY <1>1, <2>1, <3>2
  <2>2. CASE e # g
    <3>1. tras[e] = escucha[e]
      BY <1>5, <2>2
    <3> QED
      BY <2>2, <3>1, Zenon
  <2> QED
    BY <2>1, <2>2
<1>7. CASE ack # "ok"
  <2>1. escucha' = tras
    BY <1>3, <1>7
  <2> QED
    BY <1>5, <1>6, <2>1 DEF EntregaEn, x
<1>8. CASE ack = "ok"
  <2>1. PICK h \in Escuchas :
          /\ escucha[h].puerto = puerto[r]
          /\ escucha'[h] = ConCola(tras[h], y)
          /\ \A e \in Escuchas \ {h} : escucha'[e] = tras[e]
          /\ MismaForma(escucha, escucha')
    BY <1>1, <1>3, <1>5, <1>8, EncolaUno
  <2>2. ASSUME NEW e \in Escuchas
        PROVE  /\ Dentro(tras[e]) \subseteq Dentro(escucha'[e])
               /\ \A z \in Dentro(escucha'[e]) : z \in Dentro(tras[e]) \/ (e = h /\ z = y)
               /\ \A n : Una(tras[e], n) => Una(escucha'[e], n)
    <3>1. CASE e = h
      <4>1. tras[h] \in Socket
        BY <1>5 DEF MismaForma
      <4>2. /\ Dentro(escucha'[h]) = Dentro(tras[h]) \cup {y}
            /\ \A n : Una(tras[h], n) /\ (~EsMensaje(y, n) \/ \A z \in Dentro(tras[h]) : ~EsMensaje(z, n))
                       => Una(escucha'[h], n)
        BY <1>1, <2>1, <4>1, CambiarCola
      <4> QED
        BY <1>1, <3>1, <4>2
    <3>2. CASE e # h
      <4>1. escucha'[e] = tras[e]
        BY <2>1, <3>2
      <4> QED
        BY <3>2, <4>1, Zenon
    <3> QED
      BY <3>1, <3>2
  <2>3. x \in Dentro(escucha'[g])
    BY <1>6, <2>2
  <2>4. ASSUME NEW e \in Escuchas
        PROVE  /\ Dentro(escucha[e]) \subseteq Dentro(escucha'[e])
               /\ \A z \in Dentro(escucha'[e]) :
                    \/ z \in Dentro(escucha[e])
                    \/ e = g /\ z = x
                    \/ z = y /\ ack = "ok" /\ escucha[e].puerto = puerto[r]
               /\ \A n : Una(escucha[e], n) /\ (n # m.n \/ \A z \in Dentro(escucha[e]) : ~EsMensaje(z, n))
                           => Una(escucha'[e], n)
    BY <1>6, <1>8, <2>1, <2>2
  <2>5. EntregaEn(g, d, m, ack)
    BY <1>5, <2>3, <2>4 DEF EntregaEn, x, y, r
  <2> QED
    BY <2>1, <2>5
<1> QED
  BY <1>7, <1>8
-----------------------------------------------------------------------------
LEMMA NumeroSiguiente ==
  ASSUME Sockets, NEW e \in Escuchas,
         e = 1 + Cardinality({x \in Escuchas : escucha[x].hilo # "no"})
  PROVE  e \notin Usadas /\ Usadas \cup {e} = 1..Cardinality(Usadas \cup {e})
<1>1. Usadas \subseteq 1..MaxEscuchas /\ IsFiniteSet(1..MaxEscuchas)
  BY Supuestos, FS_Interval DEF Usadas, Escuchas
<1>2. Cardinality(Usadas) \in Nat
  BY <1>1, FS_Subset, FS_CardinalityType
<1>3. PICK k \in Nat : k = Cardinality(Usadas)
  BY <1>2
<1>4. e = 1 + k
  BY <1>3 DEF Usadas
<1>5. Usadas = 1..k
  BY <1>3 DEF Sockets
<1>6. Usadas \cup {e} = 1..(k + 1) /\ e \notin Usadas
  <2>1. 1..(k + 1) = (1..k) \cup {1 + k} /\ 1 + k \notin 1..k
    OBVIOUS
  <2> QED
    BY <1>4, <1>5, <2>1
<1>7. Cardinality(1..(k + 1)) = k + 1
  <2>1. Cardinality(1..(k + 1)) = IF 1 <= k + 1 THEN (k + 1) - 1 + 1 ELSE 0
    BY FS_Interval
  <2> QED
    BY <2>1
<1>8. Cardinality(Usadas \cup {e}) = k + 1
  BY <1>6, <1>7
<1> QED
  BY <1>6, <1>8

\* The socket of a CONNECT.
Nuevo(c, p) == [SinCrear EXCEPT !.hilo = "accept", !.cliente = c, !.puerto = p]

LEMMA ConnectSocket ==
  ASSUME Tipos, Sockets, NEW c \in Clientes, NEW u \in Usuarios, Connect(c, u)
  PROVE  \E e \in Escuchas, p \in Puertos :
           /\ e \notin Usadas
           /\ Usadas \cup {e} = 1..Cardinality(Usadas \cup {e})
           /\ \A x \in Escuchas : Abierta(x) => escucha[x].puerto # p
           /\ escucha'[e] = Nuevo(c, p)
           /\ \A f \in Escuchas \ {e} : escucha'[f] = escucha[f]
           /\ escucha' = [f \in Escuchas |-> escucha'[f]]
           /\ listen_sock' = [listen_sock EXCEPT ![c] = e]
<1>1. PICK e : e = 1 + Cardinality({x \in Escuchas : escucha[x].hilo # "no"})
  OBVIOUS
<1>2. e \in Escuchas /\ listen_sock' = [listen_sock EXCEPT ![c] = e]
  BY <1>1 DEF Connect
<1>3. PICK p \in Puertos :
        /\ \A x \in Escuchas : Abierta(x) => escucha[x].puerto # p
        /\ escucha' = [escucha EXCEPT ![e] = [SinCrear EXCEPT
            !.hilo = "accept", !.cliente = c, !.puerto = p]]
  BY <1>1 DEF Connect
<1>4. e \notin Usadas /\ Usadas \cup {e} = 1..Cardinality(Usadas \cup {e})
  BY <1>1, <1>2, NumeroSiguiente
<1>6. escucha' = [escucha EXCEPT ![e] = Nuevo(c, p)]
  BY <1>3 DEF Nuevo
<1>7. /\ escucha'[e] = Nuevo(c, p)
      /\ \A f \in Escuchas \ {e} : escucha'[f] = escucha[f]
      /\ escucha' = [f \in Escuchas |-> escucha'[f]]
  BY <1>2, <1>6 DEF Tipos
<1> QED
  BY <1>2, <1>3, <1>4, <1>7

LEMMA SocketNuevo ==
  ASSUME NEW c \in Clientes, NEW p \in Puertos
  PROVE  /\ Nuevo(c, p) \in Socket
         /\ Nuevo(c, p).hilo = "accept" /\ Nuevo(c, p).cliente = c
         /\ Nuevo(c, p).puerto = p /\ Nuevo(c, p).cola = <<>>
         /\ Nuevo(c, p).atiende = SinConexion /\ Nuevo(c, p).de = Nadie
BY EmptySeq DEF Socket, SinCrear, Nuevo

\* A new socket takes a port where nobody listens, and is nobody's yet.
LEMMA ConnectPaso ==
  ASSUME Tipos, Ordenes, Sockets, NEW c \in Clientes, NEW u \in Usuarios, Connect(c, u)
  PROVE  /\ Sockets' /\ SinLlegadas
         /\ escucha' \in [Escuchas -> Socket]
         /\ Usadas \subseteq Usadas'
         /\ \A f \in Usadas : escucha'[f] = escucha[f]
         /\ \A v \in Usuarios : \A q : Tuvo(v, q) => Tuvo(v, q)'
         /\ listen_sock'[c] \in Usadas'
         /\ escucha'[listen_sock'[c]].cliente = c
         /\ escucha'[listen_sock'[c]].de = Nadie
         /\ escucha'[listen_sock'[c]].cola = <<>>
         /\ escucha'[listen_sock'[c]].atiende = SinConexion
         /\ \A f \in Escuchas : f # listen_sock'[c] => escucha'[f] = escucha[f]
         /\ escucha[listen_sock'[c]] = SinCrear
         /\ listen_sock' \in [Clientes -> Escuchas \cup {0}]
         /\ \A b \in Clientes \ {c} : listen_sock'[b] = listen_sock[b]
<1>1. PICK e \in Escuchas, p \in Puertos :
           /\ e \notin Usadas
           /\ Usadas \cup {e} = 1..Cardinality(Usadas \cup {e})
           /\ \A x \in Escuchas : Abierta(x) => escucha[x].puerto # p
           /\ escucha'[e] = Nuevo(c, p)
           /\ \A f \in Escuchas \ {e} : escucha'[f] = escucha[f]
           /\ escucha' = [f \in Escuchas |-> escucha'[f]]
           /\ listen_sock' = [listen_sock EXCEPT ![c] = e]
  BY ConnectSocket
<1>2. /\ escucha'[e] \in Socket
      /\ escucha'[e].hilo = "accept" /\ escucha'[e].cliente = c /\ escucha'[e].puerto = p
      /\ escucha'[e].cola = <<>> /\ escucha'[e].atiende = SinConexion
      /\ escucha'[e].de = Nadie
  BY <1>1, SocketNuevo
<1>3. /\ escucha[e] = SinCrear
      /\ SinCrear.hilo = "no" /\ SinCrear.de = Nadie /\ SinCrear.atiende = SinConexion
  BY <1>1 DEF Sockets, SinCrear
<1>4. escucha' \in [Escuchas -> Socket]
  <2>1. \A f \in Escuchas : escucha[f] \in Socket
    BY Campos
  <2> QED
    BY <1>1, <1>2, <2>1
<1>5. Usadas' = Usadas \cup {e}
  <2>1. ASSUME NEW f \in Escuchas
        PROVE  escucha'[f].hilo # "no" <=> escucha[f].hilo # "no" \/ f = e
    <3>1. CASE f = e
      BY <1>2, <3>1
    <3>2. CASE f # e
      BY <1>1, <3>2
    <3> QED
      BY <3>1, <3>2
  <2> QED
    BY <2>1 DEF Usadas
<1>6. /\ listen_sock'[c] = e
      /\ listen_sock' \in [Clientes -> Escuchas \cup {0}]
      /\ \A b \in Clientes \ {c} : listen_sock'[b] = listen_sock[b]
  BY <1>1 DEF Tipos
<1>7. ASSUME NEW f \in Escuchas \ {e}, Abierta(f)'
      PROVE  Abierta(f)
  <2>1. escucha'[f] = escucha[f]
    BY <1>1
  <2>2. CASE escucha[f].hilo \in {"accept", "lee"}
    BY <1>7, <2>1, <2>2 DEF Abierta
  <2>3. CASE escucha[f].hilo \notin {"accept", "lee"}
    <3>1. /\ escucha[f].hilo = "fin" /\ ~escucha[f].cerrado
          /\ listen_sock'[escucha[f].cliente] = f
      BY <1>7, <2>1, <2>3 DEF Abierta
    <3>2. escucha[f].cliente \in Clientes
      BY <3>1 DEF Sockets, Usadas
    <3>3. listen_sock[escucha[f].cliente] = f
      BY <1>6, <3>1, <3>2
    <3> QED
      BY <3>1, <3>3 DEF Abierta
  <2> QED
    BY <2>2, <2>3
<1>8. Sockets'
  <2>1. Usadas' = 1..Cardinality(Usadas')
    BY <1>1, <1>5
  <2>2. ASSUME NEW f \in Escuchas
        PROVE  /\ f \notin Usadas' => escucha'[f] = SinCrear
               /\ f \in Usadas' => escucha'[f].cliente \in Clientes /\ escucha'[f].puerto \in Puertos
               /\ escucha'[f].hilo = "accept" => escucha'[f].atiende = SinConexion
               /\ Len(escucha'[f].cola) <= Backlog
    <3>1. CASE f = e
      BY <1>2, <1>5, <3>1, Supuestos
    <3>2. CASE f # e
      BY <1>1, <1>5, <3>2 DEF Sockets
    <3> QED
      BY <3>1, <3>2
  <2>3. ASSUME NEW f \in Escuchas, NEW g \in Escuchas, Abierta(f)', Abierta(g)',
               escucha'[g].puerto = escucha'[f].puerto
        PROVE  g = f
    <3>1. CASE f # e /\ g # e
      BY <1>1, <1>7, <2>3, <3>1 DEF Sockets
    <3>2. CASE f = e \/ g = e
      BY <1>1, <1>2, <1>7, <2>3, <3>2
    <3> QED
      BY <3>1, <3>2
  <2> QED
    BY <2>1, <2>2, <2>3 DEF Sockets
<1>9. SinLlegadas
  <2>1. En(e)' \subseteq {SinConexion}
    <3>1. DOMAIN escucha'[e].cola = {}
      BY <1>2
    <3> QED
      BY <1>2, <3>1 DEF En
  <2>2. \A f \in Escuchas \ {e} : En(f)' = En(f)
    BY <1>1 DEF En
  <2> QED
    BY <2>1, <2>2 DEF SinLlegadas
<1>10. ASSUME NEW v \in Usuarios, NEW q, Tuvo(v, q)
       PROVE  Tuvo(v, q)'
  <2>1. PICK f \in Escuchas : escucha[f].puerto = q /\ escucha[f].de = v
    BY <1>10 DEF Tuvo
  <2>2. f # e
    BY <1>3, <2>1, Supuestos
  <2>3. escucha'[f] = escucha[f]
    BY <1>1, <2>2
  <2> QED
    BY <2>1, <2>3 DEF Tuvo
<1>11. /\ Usadas \subseteq Usadas' /\ e \in Usadas'
       /\ \A f \in Usadas : escucha'[f] = escucha[f]
  <2>1. \A f \in Usadas : f \in Escuchas \ {e}
    BY <1>1 DEF Usadas
  <2> QED
    BY <1>1, <1>5, <2>1
<1>12. \A f \in Escuchas : f # e => escucha'[f] = escucha[f]
  BY <1>1
<1> QED
  BY <1>2, <1>3, <1>4, <1>6, <1>8, <1>9, <1>10, <1>11, <1>12
-----------------------------------------------------------------------------
\* A request finds the mutex free and nobody waiting.
LEMMA NadieEspera ==
  ASSUME Turno, mutex_lista = Libre
  PROVE  \A c \in Clientes : ~Espera(c)
<1>1. mutex_lista.op = "libre"
  BY DEF Libre
<1> QED
  BY <1>1 DEF Turno

\* Whoever still waits, waits for the same.
LEMMA TurnoPaso ==
  ASSUME Turno, mutex_lista'.op = mutex_lista.op, mutex_lista'.usuario = mutex_lista.usuario,
         \A b \in Clientes : shell'[b] = shell[b] \/ shell'[b].en \notin {"connect", "send"}
  PROVE  Turno'
<1>1. \A b \in Clientes : Espera(b)' => Espera(b) /\ shell'[b] = shell[b]
  BY DEF Espera
<1> QED
  BY <1>1 DEF Turno

LEMMA TurnoVacio ==
  ASSUME \A b \in Clientes : shell'[b].en \notin {"connect", "send"}
  PROVE  Turno'
<1>1. \A b \in Clientes : ~Espera(b)'
  BY DEF Espera
<1> QED
  BY <1>1 DEF Turno

\* A client that starts to wait, alone.
LEMMA TurnoSolo ==
  ASSUME NEW c \in Clientes,
         mutex_lista'.op = (IF shell'[c].en = "send" THEN "enviar" ELSE "conectar"),
         mutex_lista'.usuario = shell'[c].usuario,
         \A b \in Clientes \ {c} : shell'[b].en \notin {"connect", "send"}
  PROVE  Turno'
<1>1. \A b \in Clientes \ {c} : ~Espera(b)'
  BY DEF Espera
<1> QED
  BY <1>1 DEF Turno

LEMMA OrdenesPaso ==
  ASSUME Tipos, Ordenes, Usadas \subseteq Usadas',
         \A e \in Usadas : escucha'[e].cliente = escucha[e].cliente /\ escucha'[e].de = escucha[e].de,
         \A c \in Clientes : listen_sock'[c] \in {listen_sock[c], 0},
         \A c \in Clientes : shell'[c].en # "nada" => shell'[c].usuario \in Usuarios,
         \A c \in Clientes : shell'[c].en = "pide" =>
           shell'[c] = shell[c] /\ listen_sock'[c] = listen_sock[c]
  PROVE  Ordenes'
<1> SUFFICES ASSUME NEW c \in Clientes
             PROVE  /\ listen_sock'[c] # 0 => listen_sock'[c] \in Usadas'
                    /\ shell'[c].en = "pide" =>
                         /\ listen_sock'[c] # 0
                         /\ escucha'[listen_sock'[c]].cliente = c
                         /\ escucha'[listen_sock'[c]].de = Nadie
  BY DEF Ordenes
<1>1. listen_sock'[c] # 0 => listen_sock'[c] = listen_sock[c] /\ listen_sock[c] \in Usadas
  BY DEF Ordenes
<1>2. ASSUME shell'[c].en = "pide"
      PROVE  /\ listen_sock'[c] # 0
             /\ escucha'[listen_sock'[c]].cliente = c
             /\ escucha'[listen_sock'[c]].de = Nadie
  <2>1. shell[c].en = "pide" /\ listen_sock'[c] = listen_sock[c]
    BY <1>2
  <2> QED
    BY <1>1, <2>1 DEF Ordenes
<1> QED
  BY <1>1, <1>2

\* Nobody connects, and no port changes.
RedMengua == \A u \in Usuarios : conectado'[u] => conectado[u] /\ puerto'[u] = puerto[u]

\* What a client remembers was already remembered, or comes from the server.
DirFiel ==
  \A c \in Clientes, u \in Usuarios :
    dir'[c][u] \in {0, dir[c][u]} \/ (conectado[u] /\ dir'[c][u] = puerto[u])

\* Somebody with the name u connected with a socket on port p, in the next state.
TuvoDespues(u, p) == \E f \in Escuchas : escucha'[f].puerto = p /\ escucha'[f].de = u

LEMMA DireccionesPaso ==
  ASSUME Tipos, Direcciones,
         \A u \in Usuarios : \A p : Tuvo(u, p) => TuvoDespues(u, p),
         \A u \in Usuarios : conectado'[u] =>
           (conectado[u] /\ puerto'[u] = puerto[u]) \/ TuvoDespues(u, puerto'[u]),
         \A e \in Escuchas : \A x \in En(e)' :
           x \in En(e) \cup {SinConexion} \/ TuvoDespues(x.para, escucha'[e].puerto),
         \A e \in Escuchas : escucha'[e].puerto = escucha[e].puerto \/ En(e) \subseteq {SinConexion},
         DirFiel
  PROVE  Direcciones'
<1>1. ASSUME NEW u \in Usuarios, conectado'[u]
      PROVE  TuvoDespues(u, puerto'[u])
  <2>1. ASSUME conectado[u], puerto'[u] = puerto[u]
        PROVE  TuvoDespues(u, puerto'[u])
    <3>1. Tuvo(u, puerto[u])
      BY <2>1 DEF Direcciones
    <3>2. TuvoDespues(u, puerto[u])
      BY <3>1
    <3> QED
      BY <2>1, <3>2
  <2> QED
    BY <1>1, <2>1
<1>2. ASSUME NEW c \in Clientes, NEW u \in Usuarios, dir'[c][u] # 0
      PROVE  TuvoDespues(u, dir'[c][u])
  <2>1. PICK p : p = dir'[c][u]
    OBVIOUS
  <2>2. Tuvo(u, p)
    BY <1>2, <2>1 DEF Direcciones, DirFiel
  <2> QED
    BY <2>1, <2>2
<1>3. ASSUME NEW e \in Escuchas, NEW x \in En(e)', x # SinConexion
      PROVE  TuvoDespues(x.para, escucha'[e].puerto)
  <2>1. CASE x \in En(e)
    <3>1. PICK p : p = escucha[e].puerto /\ p = escucha'[e].puerto
      BY <1>3, <2>1
    <3>2. Tuvo(x.para, p)
      BY <1>3, <2>1, <3>1 DEF Direcciones
    <3>3. x.para \in Usuarios
      BY <1>3, <2>1, EnCampos, Conexiones
    <3> QED
      BY <3>1, <3>2, <3>3
  <2> QED
    BY <1>3, <2>1
<1> QED
  BY <1>1, <1>2, <1>3 DEF Direcciones, Tuvo, TuvoDespues

LEMMA TuvoQueda ==
  ASSUME Estable
  PROVE  \A u \in Usuarios : \A p : Tuvo(u, p) => TuvoDespues(u, p)
BY TuvoEstable DEF Tuvo, TuvoDespues

\* ... when the sockets neither appear nor change hands.
LEMMA DireccionesEstable ==
  ASSUME Tipos, Direcciones, Estable, SinLlegadas, RedMengua, DirFiel
  PROVE  Direcciones'
<1>1. \A u \in Usuarios : \A p : Tuvo(u, p) => TuvoDespues(u, p)
  BY TuvoQueda
<1>2. \A e \in Escuchas : escucha'[e].puerto = escucha[e].puerto
  BY DEF Estable
<1>3. \A e \in Escuchas : \A x \in En(e)' : x \in En(e) \cup {SinConexion}
  BY DEF SinLlegadas
<1>4. \A u \in Usuarios : conectado'[u] => conectado[u] /\ puerto'[u] = puerto[u]
  BY DEF RedMengua
<1> QED
  BY <1>1, <1>2, <1>3, <1>4, DireccionesPaso

\* A delivery, and the failure of its confirmation, connect nobody.
LEMMA RedEntrega ==
  ASSUME TypeOK, NEW d, NEW m \in Mensaje, NEW ack, EntregarMensaje(d, m, ack)
  PROVE  RedMengua
<1>1. m.remitente \in Usuarios
  BY DEF Mensaje
<1>2. CASE UNCHANGED red
  BY <1>2 DEF RedMengua, red
<1>3. CASE /\ conectado' = [conectado EXCEPT ![m.remitente] = FALSE]
           /\ puerto' = [puerto EXCEPT ![m.remitente] = 0]
  BY <1>1, <1>3 DEF RedMengua, TypeOK
<1> QED
  BY <1>2, <1>3 DEF EntregarMensaje

LEMMA RedIgual ==
  ASSUME UNCHANGED red
  PROVE  RedMengua
BY DEF RedMengua, red

LEMMA EmitidosPaso ==
  ASSUME Inv2, emitidos <= MaxMensajes, [Next]_vars
  PROVE  emitidos' <= MaxMensajes
<1>1. Efecto
  BY EfectoPaso
<1>2. emitidos \in Nat /\ MaxMensajes \in Nat
  BY Supuestos DEF Inv2, Inv1, TypeOK
<1>3. emitidos' = emitidos \/ (emitidos < MaxMensajes /\ emitidos' = emitidos + 1)
  BY <1>1 DEF Efecto, Quieto, Acepta, Escribe, Tira
<1> QED
  BY <1>2, <1>3

\* A shell that goes to wait, or comes back.
LEMMA ShellTipo ==
  ASSUME Tipos, NEW c \in Clientes
  PROVE  /\ Vuelve(c) =>
              /\ shell' \in [Clientes -> [en : {"nada", "pide", "connect", "send", "getfile"},
                                          usuario : Usuarios \cup {Nadie}]]
              /\ shell'[c].en = "nada"
              /\ \A b \in Clientes \ {c} : shell'[b] = shell[b]
         /\ \A en \in {"pide", "connect", "send", "getfile"}, u \in Usuarios :
              EsperaEn(c, en, u) =>
                /\ shell' \in [Clientes -> [en : {"nada", "pide", "connect", "send", "getfile"},
                                            usuario : Usuarios \cup {Nadie}]]
                /\ shell'[c].en = en /\ shell'[c].usuario = u
                /\ \A b \in Clientes \ {c} : shell'[b] = shell[b]
<1>1. ASSUME Vuelve(c)
      PROVE  /\ shell' \in [Clientes -> [en : {"nada", "pide", "connect", "send", "getfile"},
                                          usuario : Usuarios \cup {Nadie}]]
             /\ shell'[c].en = "nada"
             /\ \A b \in Clientes \ {c} : shell'[b] = shell[b]
  BY <1>1 DEF Vuelve, EnReposo, Tipos
<1>2. ASSUME NEW en \in {"pide", "connect", "send", "getfile"}, NEW u \in Usuarios,
             EsperaEn(c, en, u)
      PROVE  /\ shell' \in [Clientes -> [en : {"nada", "pide", "connect", "send", "getfile"},
                                            usuario : Usuarios \cup {Nadie}]]
             /\ shell'[c].en = en /\ shell'[c].usuario = u
             /\ \A b \in Clientes \ {c} : shell'[b] = shell[b]
  BY <1>2 DEF EsperaEn, Tipos
<1> QED
  BY <1>1, <1>2
-----------------------------------------------------------------------------
TiposClientes ==
  /\ nombre \in [Clientes -> Usuarios \cup {Nadie}]
  /\ listen_sock \in [Clientes -> Escuchas \cup {0}]
  /\ dir \in [Clientes -> [Usuarios -> Puertos \cup {0}]]
  /\ shell \in [Clientes -> [en : {"nada", "pide", "connect", "send", "getfile"},
                             usuario : Usuarios \cup {Nadie}]]
  /\ impresos \in [Clientes -> SUBSET (1..MaxMensajes)]

\* No client gets a socket, nor prepares to send a CONNECT.
SinPedir ==
  \A c \in Clientes :
    /\ listen_sock'[c] \in {listen_sock[c], 0}
    /\ shell'[c].en # "nada" => shell'[c].usuario \in Usuarios
    /\ shell'[c].en = "pide" => shell'[c] = shell[c] /\ listen_sock'[c] = listen_sock[c]

LEMMA InvGPaso ==
  ASSUME InvG, [Next]_vars
  PROVE  InvG'
BY Inv2Paso, RedPaso, EfectoPaso, RepetirPaso DEF InvG, Inv2

\* A step that creates no socket and in which nobody connects.
LEMMA JuntaConLlegadas ==
  ASSUME Inv, [Next]_vars, Turno', Estable, Direcciones',
         \A e \in Escuchas : escucha'[e].de = escucha[e].de,
         TiposClientes', SinPedir
  PROVE  Inv'
<1>1. InvG'
  BY InvGPaso DEF Inv
<1>2. Tipos'
  <2>1. emitidos' <= MaxMensajes
    BY EmitidosPaso DEF Inv, InvG, Tipos
  <2>2. escucha' \in [Escuchas -> Socket]
    BY DEF Estable
  <2> QED
    BY <2>1, <2>2 DEF Tipos, TiposClientes
<1>3. Sockets' /\ Usadas' = Usadas
  BY SocketsEstable DEF Inv
<1>4. Ordenes'
  <2>1. Tipos /\ Ordenes /\ Usadas \subseteq Usadas'
    BY <1>3 DEF Inv
  <2>2. \A e \in Usadas : escucha'[e].cliente = escucha[e].cliente /\ escucha'[e].de = escucha[e].de
    BY DEF Estable, Usadas
  <2> QED
    BY <2>1, <2>2, OrdenesPaso DEF SinPedir
<1> QED
  BY <1>1, <1>2, <1>3, <1>4 DEF Inv

\* ... and nothing is written.
LEMMA Junta ==
  ASSUME Inv, [Next]_vars, RedMengua, Turno', Estable, SinLlegadas,
         \A e \in Escuchas : escucha'[e].de = escucha[e].de,
         TiposClientes', SinPedir, DirFiel
  PROVE  Inv'
<1>1. Direcciones'
  BY DireccionesEstable DEF Inv
<1> QED
  BY <1>1, JuntaConLlegadas

\* The hypotheses of Junta when the clients do not change.
LEMMA ClientesIguales ==
  ASSUME Inv, UNCHANGED <<local, shell, impresos>>
  PROVE  TiposClientes' /\ SinPedir /\ DirFiel
BY DEF Inv, Tipos, TiposClientes, Ordenes, SinPedir, DirFiel, local

LEMMA NadaCambia ==
  ASSUME Inv, UNCHANGED <<escucha, listen_sock>>
  PROVE  /\ Estable /\ SinLlegadas
         /\ \A e \in Escuchas : escucha'[e].de = escucha[e].de
<1>1. MismaForma(escucha, escucha')
  BY FormaInicial DEF Inv
<1>2. SinLlegadas
  BY DEF SinLlegadas, En
<1> QED
  BY <1>1, <1>2, FormaEstable DEF Inv

LEMMA Parado ==
  ASSUME Inv, UNCHANGED todo
  PROVE  Inv'
<1>1. UNCHANGED <<local, shell, impresos, escucha, listen_sock, mutex_lista>> /\ UNCHANGED vars
  BY DEF todo, local, vars
<1>2. TiposClientes' /\ SinPedir /\ DirFiel
  BY <1>1, ClientesIguales
<1>3. Estable /\ SinLlegadas /\ \A e \in Escuchas : escucha'[e].de = escucha[e].de
  BY <1>1, NadaCambia
<1>4. RedMengua
  BY <1>1, RedIgual DEF vars
<1>5. Turno'
  BY <1>1, TurnoPaso DEF Inv
<1> QED
  BY <1>1, <1>2, <1>3, <1>4, <1>5, Junta

\* Clients of which one comes back to its prompt, if at all.
LEMMA ClientesVuelven ==
  ASSUME Inv, UNCHANGED <<local, mutex_lista>>, TiposClientes',
         \A b \in Clientes : shell'[b] = shell[b] \/ shell'[b].en = "nada"
  PROVE  SinPedir /\ DirFiel /\ Turno'
<1>1. SinPedir
  BY DEF Inv, Ordenes, SinPedir, local
<1>2. DirFiel
  BY DEF DirFiel, local
<1>3. Turno'
  BY TurnoPaso DEF Inv
<1> QED
  BY <1>1, <1>2, <1>3

LEMMA CierraClientes ==
  ASSUME Inv, NEW e \in Escuchas, Cierra(e)
  PROVE  /\ shell' \in [Clientes -> [en : {"nada", "pide", "connect", "send", "getfile"},
                                     usuario : Usuarios \cup {Nadie}]]
         /\ \A b \in Clientes : shell'[b] = shell[b] \/ shell'[b].en = "nada"
<1>1. CASE escucha[e].atiende.tipo = "fichero"
  <2>1. escucha[e].atiende.cliente \in Clientes
    BY <1>1, Campos, Conexiones DEF Inv
  <2>2. Vuelve(escucha[e].atiende.cliente)
    BY <1>1 DEF Cierra
  <2> QED
    BY <2>1, <2>2, ShellTipo DEF Inv
<1>2. CASE escucha[e].atiende.tipo # "fichero"
  BY <1>2 DEF Cierra, Inv, Tipos
<1> QED
  BY <1>1, <1>2

LEMMA PasoAccept == ASSUME Inv, NEW e \in Escuchas, Accept(e) PROVE [Next]_vars /\ Inv'
<1>1. Tipos /\ Sockets
  BY DEF Inv
<1>2. UNCHANGED <<local, shell, impresos>> /\ UNCHANGED vars /\ UNCHANGED mutex_lista
  BY DEF Accept, vars
<1>3. Estable /\ SinLlegadas
  BY <1>1, AcceptPaso
<1>4. \A f \in Escuchas : escucha'[f].de = escucha[f].de
  <2>1. /\ escucha'[e] = [escucha[e] EXCEPT !.hilo = "lee",
              !.atiende = escucha[e].cola[1], !.cola = Tail(escucha[e].cola)]
        /\ \A f \in Escuchas \ {e} : escucha'[f] = escucha[f]
    BY <1>1, AcceptSocket
  <2>2. escucha[e] \in Socket
    BY <1>1, Campos
  <2>3. escucha'[e].de = escucha[e].de
    BY <2>1, <2>2 DEF Socket
  <2> QED
    BY <2>1, <2>3
<1>5. TiposClientes' /\ SinPedir /\ DirFiel
  BY <1>2, ClientesIguales
<1>6. Turno'
  BY <1>2, TurnoPaso DEF Inv
<1>7. RedMengua
  BY <1>2, RedIgual DEF vars
<1> QED
  BY <1>2, <1>3, <1>4, <1>5, <1>6, <1>7, Junta

LEMMA PasoServir == ASSUME Inv, NEW e \in Escuchas, Servir(e) PROVE [Next]_vars /\ Inv'
<1>1. Tipos /\ Sockets
  BY DEF Inv
<1>2. UNCHANGED local /\ UNCHANGED vars /\ UNCHANGED mutex_lista /\ Imprime(e) /\ Cierra(e)
  BY DEF Servir, vars
<1>3. Estable /\ SinLlegadas
  BY <1>1, ServirPaso
<1>4. escucha[e].hilo = "lee" /\ \A f \in Escuchas : escucha'[f].de = escucha[f].de
  BY <1>1, ServirSocket
<1>5. impresos' \in [Clientes -> SUBSET (1..MaxMensajes)]
  <2>1. CASE escucha[e].atiende.tipo = "mensaje"
    <3>1. escucha[e].atiende.n \in 1..MaxMensajes
      BY <1>1, <2>1, Campos, Conexiones
    <3>2. escucha[e].cliente \in Clientes
      BY <1>1, <1>4 DEF Sockets, Usadas
    <3> QED
      BY <1>1, <1>2, <2>1, <3>1, <3>2 DEF Imprime, Tipos
  <2>2. CASE escucha[e].atiende.tipo # "mensaje"
    BY <1>1, <1>2, <2>2 DEF Imprime, Tipos
  <2> QED
    BY <2>1, <2>2
<1>6. TiposClientes' /\ \A b \in Clientes : shell'[b] = shell[b] \/ shell'[b].en = "nada"
  BY <1>1, <1>2, <1>5, CierraClientes DEF TiposClientes, Tipos, local
<1>7. SinPedir /\ DirFiel /\ Turno'
  BY <1>2, <1>6, ClientesVuelven
<1>8. RedMengua
  BY <1>2, RedIgual DEF vars
<1> QED
  BY <1>2, <1>3, <1>4, <1>6, <1>7, <1>8, Junta

LEMMA PasoExcepcion == ASSUME Inv, NEW e \in Escuchas, Excepcion(e) PROVE [Next]_vars /\ Inv'
<1>1. Tipos /\ Sockets
  BY DEF Inv
<1>2. /\ UNCHANGED <<local, impresos>> /\ UNCHANGED vars /\ UNCHANGED mutex_lista
      /\ Cierra(e)
  BY DEF Excepcion, vars
<1>3. Estable /\ SinLlegadas
  BY <1>1, ExcepcionPaso
<1>4. \A f \in Escuchas : escucha'[f].de = escucha[f].de
  BY <1>1, ExcepcionSocket
<1>6. TiposClientes' /\ \A b \in Clientes : shell'[b] = shell[b] \/ shell'[b].en = "nada"
  BY <1>1, <1>2, CierraClientes DEF TiposClientes, Tipos, local
<1>7. SinPedir /\ DirFiel /\ Turno'
  BY <1>2, <1>6, ClientesVuelven
<1>8. RedMengua
  BY <1>2, RedIgual DEF vars
<1> QED
  BY <1>2, <1>3, <1>4, <1>6, <1>7, <1>8, Junta

LEMMA PasoCortado == ASSUME Inv, NEW c \in Clientes, GetFileCortado(c) PROVE [Next]_vars /\ Inv'
<1>1. /\ UNCHANGED <<local, impresos, escucha, listen_sock>> /\ UNCHANGED vars
      /\ UNCHANGED mutex_lista /\ Vuelve(c)
  BY DEF GetFileCortado, vars, local
<1>2. Estable /\ SinLlegadas /\ \A e \in Escuchas : escucha'[e].de = escucha[e].de
  BY <1>1, NadaCambia
<1>3. TiposClientes' /\ \A b \in Clientes : shell'[b] = shell[b] \/ shell'[b].en = "nada"
  BY <1>1, ShellTipo DEF TiposClientes, Tipos, Inv, local
<1>4. SinPedir /\ DirFiel /\ Turno'
  BY <1>1, <1>3, ClientesVuelven
<1>5. RedMengua
  BY <1>1, RedIgual DEF vars
<1> QED
  BY <1>1, <1>2, <1>3, <1>4, <1>5, Junta

LEMMA PasoQuit == ASSUME Inv, NEW c \in Clientes, Quit(c) PROVE [Next]_vars /\ Inv'
<1>1. Tipos /\ Sockets /\ Ordenes
  BY DEF Inv
<1>2. /\ shell[c] = EnReposo
      /\ escucha' = [e \in Escuchas |-> IF escucha[e].cliente = c
           THEN [escucha[e] EXCEPT !.hilo = "fin", !.cerrado = TRUE] ELSE escucha[e]]
      /\ nombre' = [nombre EXCEPT ![c] = Nadie]
      /\ listen_sock' = [listen_sock EXCEPT ![c] = 0]
      /\ dir' = [dir EXCEPT ![c] = [u \in Usuarios |-> 0]]
      /\ UNCHANGED <<shell, impresos, mutex_lista>> /\ UNCHANGED vars
  BY DEF Quit, vars
<1>3. Estable /\ SinLlegadas
  BY <1>1, QuitPaso
<1>4. \A f \in Escuchas : escucha'[f].de = escucha[f].de
  <2> SUFFICES ASSUME NEW f \in Escuchas PROVE escucha'[f].de = escucha[f].de
    OBVIOUS
  <2>1. escucha[f] \in Socket
    BY <1>1, Campos
  <2>2. CASE escucha[f].cliente = c
    <3>1. escucha'[f] = [escucha[f] EXCEPT !.hilo = "fin", !.cerrado = TRUE]
      BY <1>2, <2>2
    <3> QED
      BY <2>1, <3>1, CambiarQuit
  <2>3. CASE escucha[f].cliente # c
    BY <1>2, <2>3
  <2> QED
    BY <2>2, <2>3
<1>5. TiposClientes'
  BY <1>1, <1>2, Supuestos DEF TiposClientes, Tipos
<1>6. SinPedir
  <2>1. shell[c].en = "nada"
    <3>1. shell[c] = EnReposo
      BY DEF Quit
    <3> QED
      BY <3>1 DEF EnReposo
  <2> QED
    BY <1>1, <1>2, <2>1 DEF SinPedir, Tipos, Ordenes
<1>7. DirFiel
  BY <1>1, <1>2 DEF DirFiel, Tipos
<1>8. Turno'
  BY <1>2, TurnoPaso DEF Inv
<1>9. RedMengua
  BY <1>2, RedIgual DEF vars
<1> QED
  BY <1>2, <1>3, <1>4, <1>5, <1>6, <1>7, <1>8, <1>9, Junta

\* The requests that the server answers at once.
LEMMA PasoRegister == ASSUME Inv, NEW c \in Clientes, NEW u \in Usuarios, PedirRegister(c, u)
                      PROVE  [Next]_vars /\ Inv'
<1>1. PICK res \in 0..2 : RegistrarUsuario(u, res)
  BY DEF PedirRegister
<1>2. UNCHANGED <<local, shell, impresos, escucha, listen_sock>>
  BY DEF PedirRegister, local
<1>3. [Next]_vars
  <2>1. res \in 0..3
    BY <1>1
  <2> QED
    BY <1>1, <2>1 DEF Next, Peticion
<1>4. RedMengua
  <2>1. CASE UNCHANGED vars
    BY <2>1, RedIgual DEF vars
  <2>2. CASE /\ conectado' = [conectado EXCEPT ![u] = FALSE]
             /\ puerto' = [puerto EXCEPT ![u] = 0]
    BY <2>2 DEF RedMengua, Inv, InvG, Inv2, Inv1, TypeOK
  <2> QED
    BY <1>1, <2>1, <2>2 DEF RegistrarUsuario
<1>5. Turno'
  <2>1. mutex_lista = Libre
    BY <1>1 DEF RegistrarUsuario
  <2>2. \A b \in Clientes : shell'[b].en \notin {"connect", "send"}
    BY <1>2, <2>1, NadieEspera DEF Inv, Espera
  <2> QED
    BY <2>2, TurnoVacio
<1>6. TiposClientes' /\ SinPedir /\ DirFiel
  BY <1>2, ClientesIguales
<1>7. Estable /\ SinLlegadas /\ \A e \in Escuchas : escucha'[e].de = escucha[e].de
  BY <1>2, NadaCambia
<1> QED
  BY <1>3, <1>4, <1>5, <1>6, <1>7, Junta

LEMMA PasoUsers == ASSUME Inv, NEW c \in Clientes, PedirUsers(c) PROVE [Next]_vars /\ Inv'
<1>1. /\ UNCHANGED vars
      /\ mutex_lista = Libre
      /\ dir' = [dir EXCEPT ![c] =
           [u \in Usuarios |-> IF conectado[u] THEN puerto[u] ELSE dir[c][u]]]
      /\ UNCHANGED <<nombre, listen_sock, shell, escucha, impresos>>
  BY DEF PedirUsers, Users, Inv, Tipos
<1>2. /\ Tipos /\ puerto \in [Usuarios -> Puertos \cup {0}]
  BY DEF Inv, InvG, Inv2, Inv1, TypeOK
<1>3. TiposClientes'
  BY <1>1, <1>2 DEF TiposClientes, Tipos
<1>4. SinPedir
  BY <1>1 DEF SinPedir, Inv, Ordenes
<1>5. DirFiel
  <2> SUFFICES ASSUME NEW b \in Clientes, NEW u \in Usuarios
               PROVE  dir'[b][u] \in {0, dir[b][u]} \/ (conectado[u] /\ dir'[b][u] = puerto[u])
    BY DEF DirFiel
  <2>1. CASE b = c
    BY <1>1, <1>2, <2>1 DEF Tipos
  <2>2. CASE b # c
    BY <1>1, <1>2, <2>2 DEF Tipos
  <2> QED
    BY <2>1, <2>2
<1>6. Turno'
  BY <1>1, TurnoPaso DEF Inv, vars
<1>7. RedMengua
  BY <1>1, RedIgual DEF vars
<1>8. Estable /\ SinLlegadas /\ \A e \in Escuchas : escucha'[e].de = escucha[e].de
  BY <1>1, NadaCambia
<1> QED
  BY <1>1, <1>3, <1>4, <1>5, <1>6, <1>7, <1>8, Junta

LEMMA PasoDisconnect == ASSUME Inv, NEW c \in Clientes, NEW u \in Usuarios, Disconnect(c, u)
                        PROVE  [Next]_vars /\ Inv'
<1>1. Tipos /\ Sockets /\ Ordenes
  BY DEF Inv
<1>2. /\ shell[c] = EnReposo
      /\ escucha' = [e \in Escuchas |->
           [escucha[e] EXCEPT !.cerrado = @ \/ listen_sock[c] = e]]
      /\ listen_sock' = [listen_sock EXCEPT ![c] = 0]
      /\ nombre' = [nombre EXCEPT ![c] = Nadie]
      /\ UNCHANGED <<dir, shell, impresos>>
  BY DEF Disconnect
<1>3. PICK res \in 0..3 : DesconectarUsuario(u, MiIp, res)
  BY DEF Disconnect
<1>4. [Next]_vars
  BY <1>3, Supuestos DEF Next, Peticion
<1>5. Estable /\ SinLlegadas
  BY <1>1, DisconnectPaso
<1>6. \A f \in Escuchas : escucha'[f].de = escucha[f].de
  <2> SUFFICES ASSUME NEW f \in Escuchas PROVE escucha'[f].de = escucha[f].de
    OBVIOUS
  <2>1. escucha[f] \in Socket
    BY <1>1, Campos
  <2>2. escucha'[f] = [escucha[f] EXCEPT !.cerrado = @ \/ listen_sock[c] = f]
    BY <1>2
  <2> QED
    BY <2>1, <2>2 DEF Socket
<1>7. TiposClientes'
  BY <1>1, <1>2, Supuestos DEF TiposClientes, Tipos
<1>8. SinPedir /\ DirFiel
  <2>1. shell[c].en = "nada"
    BY <1>2 DEF EnReposo
  <2> QED
    BY <1>1, <1>2, <2>1 DEF SinPedir, DirFiel, Tipos, Ordenes
<1>9. Turno'
  <2>1. mutex_lista = Libre
    BY <1>3 DEF DesconectarUsuario
  <2>2. \A b \in Clientes : shell'[b].en \notin {"connect", "send"}
    BY <1>2, <2>1, NadieEspera DEF Inv, Espera
  <2> QED
    BY <2>2, TurnoVacio
<1>10. RedMengua
  <2>1. CASE UNCHANGED vars
    BY <2>1, RedIgual DEF vars
  <2>2. CASE /\ conectado' = [conectado EXCEPT ![u] = FALSE]
             /\ puerto' = [puerto EXCEPT ![u] = 0]
    BY <2>2 DEF RedMengua, Inv, InvG, Inv2, Inv1, TypeOK
  <2> QED
    BY <1>3, <2>1, <2>2 DEF DesconectarUsuario
<1> QED
  BY <1>4, <1>5, <1>6, <1>7, <1>8, <1>9, <1>10, Junta

LEMMA PasoSend == ASSUME Inv, NEW c \in Clientes, NEW d \in Usuarios, Send(c, d) PROVE [Next]_vars /\ Inv'
<1>1. Tipos /\ Ordenes /\ Turno
  BY DEF Inv
<1>2. /\ nombre[c] # Nadie
      /\ \/ \E f \in Adjuntos : EnviarMensaje(nombre[c], d, f)
         \/ \E res \in 1..2 : EnviarRechazado(nombre[c], d, res)
      /\ IF mutex_lista' = Libre THEN UNCHANGED shell ELSE EsperaEn(c, "send", d)
      /\ UNCHANGED <<local, escucha, listen_sock, impresos>>
  BY DEF Send, local
<1>3. nombre[c] \in Usuarios
  BY <1>1, <1>2 DEF Tipos
<1>4. [Next]_vars
  <2>1. CASE \E f \in Adjuntos : EnviarMensaje(nombre[c], d, f)
    BY <1>3, <2>1 DEF Next, Peticion
  <2>2. CASE \E res \in 1..2 : EnviarRechazado(nombre[c], d, res)
    <3>1. PICK res \in 1..2 : EnviarRechazado(nombre[c], d, res)
      BY <2>2
    <3>2. res \in 0..3
      BY <3>1
    <3> QED
      BY <1>3, <3>1, <3>2 DEF Next, Peticion
  <2> QED
    BY <1>2, <2>1, <2>2
<1>5. /\ mutex_lista = Libre /\ UNCHANGED red
      /\ mutex_lista' \in {Libre, [op |-> "enviar", usuario |-> d]}
  BY <1>2 DEF EnviarMensaje, EnviarRechazado
<1>6. \A b \in Clientes : shell[b].en \notin {"connect", "send"}
  BY <1>1, <1>5, NadieEspera DEF Espera
<1>7. RedMengua
  BY <1>5, RedIgual
<1>8. Estable /\ SinLlegadas /\ \A e \in Escuchas : escucha'[e].de = escucha[e].de
  BY <1>2, NadaCambia
<1>9. CASE mutex_lista' = Libre
  <2>1. TiposClientes' /\ SinPedir /\ DirFiel
    BY <1>2, <1>9, ClientesIguales
  <2>2. Turno'
    BY <1>2, <1>6, <1>9, TurnoVacio
  <2> QED
    BY <1>4, <1>7, <1>8, <2>1, <2>2, Junta
<1>10. CASE mutex_lista' # Libre
  <2>1. mutex_lista' = [op |-> "enviar", usuario |-> d]
    BY <1>5, <1>10
  <2>2. /\ shell' \in [Clientes -> [en : {"nada", "pide", "connect", "send", "getfile"},
                                    usuario : Usuarios \cup {Nadie}]]
        /\ shell'[c].en = "send" /\ shell'[c].usuario = d
        /\ \A b \in Clientes \ {c} : shell'[b] = shell[b]
    BY <1>1, <1>2, <1>10, ShellTipo
  <2>3. Turno'
    BY <1>6, <2>1, <2>2, TurnoSolo
  <2>4. TiposClientes'
    BY <1>1, <1>2, <2>2 DEF TiposClientes, Tipos, local
  <2>5. SinPedir
    <3>1. ASSUME NEW b \in Clientes
          PROVE  /\ shell'[b].en # "nada" => shell'[b].usuario \in Usuarios
                 /\ shell'[b].en = "pide" => shell'[b] = shell[b]
      <4>1. CASE b = c
        BY <2>2, <4>1
      <4>2. CASE b # c
        BY <1>1, <2>2, <4>2 DEF Ordenes
      <4> QED
        BY <4>1, <4>2
    <3> QED
      BY <1>2, <3>1 DEF SinPedir
  <2>6. DirFiel
    BY <1>2 DEF DirFiel, local
  <2> QED
    BY <1>4, <1>7, <1>8, <2>3, <2>4, <2>5, <2>6, Junta
<1> QED
  BY <1>9, <1>10

\* Whoever the server answers waits no more, and nobody else did.
LEMMA Respondido ==
  ASSUME Inv, NEW c \in Clientes, Espera(c), Vuelve(c)
  PROVE  /\ Turno'
         /\ shell' \in [Clientes -> [en : {"nada", "pide", "connect", "send", "getfile"},
                                     usuario : Usuarios \cup {Nadie}]]
         /\ \A b \in Clientes : shell'[b] = shell[b] \/ shell'[b].en = "nada"
<1>1. /\ shell' \in [Clientes -> [en : {"nada", "pide", "connect", "send", "getfile"},
                                  usuario : Usuarios \cup {Nadie}]]
      /\ shell'[c].en = "nada"
      /\ \A b \in Clientes \ {c} : shell'[b] = shell[b]
  BY ShellTipo DEF Inv
<1>2. \A b \in Clientes : shell'[b].en \notin {"connect", "send"}
  BY <1>1 DEF Inv, Turno, Espera
<1> QED
  BY <1>1, <1>2, TurnoVacio

LEMMA PasoConnectOk == ASSUME Inv, NEW c \in Clientes, ConnectOk(c) PROVE [Next]_vars /\ Inv'
<1>1. /\ shell[c].en = "connect"
      /\ nombre' = [nombre EXCEPT ![c] = shell[c].usuario]
      /\ Vuelve(c)
      /\ UNCHANGED <<listen_sock, dir, escucha, impresos>>
  BY DEF ConnectOk
<1>2. PICK falla \in BOOLEAN : ConectarFin(falla)
  BY DEF ConnectOk
<1>3. [Next]_vars
  BY <1>2 DEF Next, Continuar
<1>4. RedMengua
  BY <1>2, RedIgual DEF ConectarFin
<1>5. /\ Turno'
      /\ shell' \in [Clientes -> [en : {"nada", "pide", "connect", "send", "getfile"},
                                     usuario : Usuarios \cup {Nadie}]]
      /\ \A b \in Clientes : shell'[b] = shell[b] \/ shell'[b].en = "nada"
  BY <1>1, Respondido DEF Espera
<1>6. TiposClientes'
  <2>1. shell[c].usuario \in Usuarios
    BY <1>1 DEF Inv, Ordenes
  <2> QED
    BY <1>1, <1>5, <2>1 DEF Inv, TiposClientes, Tipos
<1>7. SinPedir /\ DirFiel
  BY <1>1, <1>5 DEF Inv, Ordenes, SinPedir, DirFiel
<1>8. Estable /\ SinLlegadas /\ \A e \in Escuchas : escucha'[e].de = escucha[e].de
  BY <1>1, NadaCambia
<1> QED
  BY <1>3, <1>4, <1>5, <1>6, <1>7, <1>8, Junta
-----------------------------------------------------------------------------
LEMMA EnDentro ==
  /\ \A e \in Escuchas : En(e) = Dentro(escucha[e])
  /\ \A e \in Escuchas : En(e)' = Dentro(escucha'[e])
BY DEF En, Dentro

\* A message is written where its destination once connected, and so is its
\* confirmation.
LEMMA EntregaPaso ==
  ASSUME Inv, NEW d \in Usuarios, NEW m \in Mensaje, m.n <= MaxMensajes, NEW ack,
         EntregarMensaje(d, m, ack), Entrega(d, m, ack), UNCHANGED local
  PROVE  /\ Estable /\ Direcciones'
         /\ \A e \in Escuchas : escucha'[e].de = escucha[e].de
<1>1. Tipos /\ Sockets /\ Direcciones /\ TypeOK /\ RedCoherente
  BY DEF Inv, InvG, Inv2, Inv1
<1>2. MismaForma(escucha, escucha')
  BY <1>1, EntregaSockets
<1>3. PICK g \in Escuchas : EntregaEn(g, d, m, ack)
  BY <1>1, EntregaSockets
<1>4. Estable
  BY <1>1, <1>2, FormaEstable DEF local
<1>5. \A e \in Escuchas : escucha'[e].puerto = escucha[e].puerto /\ escucha'[e].de = escucha[e].de
  BY <1>2 DEF MismaForma
<1>6. RedMengua
  BY <1>1, RedEntrega
<1>7. \A u \in Usuarios : \A p : Tuvo(u, p) => TuvoDespues(u, p)
  BY <1>4, TuvoQueda
<1>8. TuvoDespues(d, puerto[d])
  <2>1. conectado[d]
    BY <1>1 DEF EntregarMensaje, RedCoherente, TypeOK
  <2>2. Tuvo(d, puerto[d])
    BY <1>1, <2>1 DEF Direcciones
  <2> QED
    BY <1>7, <2>2
<1>9. ack = "ok" => TuvoDespues(m.remitente, puerto[m.remitente])
  <2>1. ack = "ok" => conectado[m.remitente]
    BY DEF EntregarMensaje
  <2>2. m.remitente \in Usuarios
    BY DEF Mensaje
  <2> QED
    BY <1>1, <1>7, <2>1, <2>2 DEF Direcciones
<1>10. ASSUME NEW e \in Escuchas, NEW x \in En(e)'
       PROVE  x \in En(e) \cup {SinConexion} \/ TuvoDespues(x.para, escucha'[e].puerto)
  <2>1. /\ escucha[g].puerto = puerto[d]
        /\ \/ x \in Dentro(escucha[e])
           \/ e = g /\ x = ConMensaje(m, d)
           \/ x = ConAck(m) /\ ack = "ok" /\ escucha[e].puerto = puerto[m.remitente]
    BY <1>3, <1>10, EnDentro DEF EntregaEn
  <2>2. CASE x \in Dentro(escucha[e])
    BY <2>2, EnDentro
  <2>3. CASE e = g /\ x = ConMensaje(m, d)
    <3>1. x.para = d /\ escucha'[e].puerto = puerto[d]
      BY <1>5, <2>1, <2>3, ConexionesDe
    <3> QED
      BY <1>8, <3>1
  <2>4. CASE x = ConAck(m) /\ ack = "ok" /\ escucha[e].puerto = puerto[m.remitente]
    <3>1. x.para = m.remitente /\ escucha'[e].puerto = puerto[m.remitente]
      BY <1>5, <2>4, ConexionesDe
    <3> QED
      BY <1>9, <2>4, <3>1
  <2> QED
    BY <2>1, <2>2, <2>3, <2>4
<1>11. DirFiel
  BY DEF DirFiel, local
<1>12. Direcciones'
  <2>1. \A u \in Usuarios : conectado'[u] => conectado[u] /\ puerto'[u] = puerto[u]
    BY <1>6 DEF RedMengua
  <2> QED
    BY <1>1, <1>5, <1>7, <1>10, <1>11, <2>1, DireccionesPaso
<1> QED
  BY <1>4, <1>5, <1>12

\* What CONNECT flushes is a message of the queue it works on.
LEMMA VolcarEntrega ==
  ASSUME Inv, NEW ack, Volcar(ack)
  PROVE  \E d \in Usuarios, m \in Mensaje :
           /\ m.n <= MaxMensajes /\ m \in EnCola(d)
           /\ EntregarMensaje(d, m, ack) /\ Entrega(d, m, ack)
<1> DEFINE d == mutex_lista.usuario
           m == mensajes_pendientes[d][mutex_lista.k + 1]
<1>1. EntregarPendiente(ack) /\ Entrega(d, m, ack)
  BY DEF Volcar
<1>2. Inv1 /\ ColaOrdenada /\ NumerosUsados /\ emitidos \in Nat /\ emitidos <= MaxMensajes
  BY DEF Inv, InvG, Inv2, Inv1, TypeOK, Tipos
<1>3. mutex_lista.op = "conectar" /\ EntregarMensaje(d, m, ack)
  BY <1>1 DEF EntregarPendiente
<1>4. d \in Usuarios
  BY <1>2, <1>3, CasosEnCurso DEF Inv1, TypeOK
<1>5. m \in EnCola(d)
  BY <1>1, <1>2, <1>4, ColaEntregarPendiente
<1>6. m \in Mensaje /\ m.n \in Nat
  BY <1>2, <1>4, <1>5, EnColaMensajes
<1>7. m.n <= emitidos
  BY <1>2, <1>4, <1>5 DEF NumerosUsados
<1>8. m.n <= MaxMensajes
  BY <1>2, <1>6, <1>7, Supuestos
<1> QED
  BY <1>1, <1>3, <1>4, <1>5, <1>6, <1>8

\* What SEND delivers is the last message of the queue.
LEMMA SendEntrega ==
  ASSUME Inv, NEW c \in Clientes, NEW ack, shell[c].en = "send", EnviarEntrega(ack),
         NEW d, d = shell[c].usuario,
         NEW m, m = mensajes_pendientes[d][Len(mensajes_pendientes[d])]
  PROVE  /\ d \in Usuarios /\ m \in Mensaje
         /\ m.n <= MaxMensajes /\ m \in EnCola(d)
         /\ EntregarMensaje(d, m, ack)
<1>2. Inv1 /\ ColaOrdenada /\ NumerosUsados /\ emitidos \in Nat /\ emitidos <= MaxMensajes
  BY DEF Inv, InvG, Inv2, Inv1, TypeOK, Tipos
<1>3. d \in Usuarios /\ mutex_lista.usuario = d
  BY DEF Inv, Ordenes, Turno, Espera
<1>4. EntregarMensaje(d, m, ack)
  BY <1>3 DEF EnviarEntrega
<1>5. m \in EnCola(d)
  BY <1>2, <1>3, ColaEnviarEntrega
<1>6. m \in Mensaje /\ m.n \in Nat
  BY <1>2, <1>3, <1>5, EnColaMensajes
<1>7. m.n <= emitidos
  BY <1>2, <1>3, <1>5 DEF NumerosUsados
<1>8. m.n <= MaxMensajes
  BY <1>2, <1>6, <1>7, Supuestos
<1> QED
  BY <1>3, <1>4, <1>5, <1>6, <1>8

LEMMA PasoVolcar == ASSUME Inv, NEW ack \in {"sin", "ok", "falla"}, Volcar(ack) PROVE [Next]_vars /\ Inv'
<1>1. EntregarPendiente(ack) /\ UNCHANGED <<local, shell, impresos>>
  BY DEF Volcar
<1>2. [Next]_vars
  BY <1>1 DEF Next, Continuar
<1>3. PICK d \in Usuarios, m \in Mensaje :
        m.n <= MaxMensajes /\ EntregarMensaje(d, m, ack) /\ Entrega(d, m, ack)
  BY VolcarEntrega
<1>4. Estable /\ Direcciones' /\ \A e \in Escuchas : escucha'[e].de = escucha[e].de
  BY <1>1, <1>3, EntregaPaso
<1>5. TiposClientes' /\ SinPedir
  BY <1>1, ClientesIguales
<1>6. mutex_lista'.op = mutex_lista.op /\ mutex_lista'.usuario = mutex_lista.usuario
  <2>1. mutex_lista.op = "conectar" /\ mutex_lista' = [mutex_lista EXCEPT !.k = mutex_lista.k + 1]
    BY <1>1 DEF EntregarPendiente
  <2>2. mutex_lista = [op |-> "conectar", usuario |-> mutex_lista.usuario, k |-> mutex_lista.k]
    BY <2>1, CasosEnCurso DEF Inv, InvG, Inv2, Inv1, TypeOK
  <2> QED
    BY <2>1, <2>2
<1>7. Turno'
  BY <1>1, <1>6, TurnoPaso DEF Inv
<1> QED
  BY <1>2, <1>4, <1>5, <1>7, JuntaConLlegadas

LEMMA PasoSendFin == ASSUME Inv, NEW c \in Clientes, SendFin(c) PROVE [Next]_vars /\ Inv'
<1>1. shell[c].en = "send" /\ Vuelve(c) /\ UNCHANGED <<local, impresos>>
  BY DEF SendFin
<1>2. /\ Turno'
      /\ shell' \in [Clientes -> [en : {"nada", "pide", "connect", "send", "getfile"},
                                     usuario : Usuarios \cup {Nadie}]]
      /\ \A b \in Clientes : shell'[b] = shell[b] \/ shell'[b].en = "nada"
  BY <1>1, Respondido DEF Espera
<1>3. TiposClientes' /\ SinPedir /\ DirFiel
  BY <1>1, <1>2 DEF Inv, TiposClientes, Tipos, Ordenes, SinPedir, DirFiel, local
<1>4. ASSUME NEW ack \in {"sin", "ok", "falla"}, EnviarEntrega(ack), NEW d, d = shell[c].usuario,
             Entrega(d, mensajes_pendientes[d][Len(mensajes_pendientes[d])], ack)
      PROVE  [Next]_vars /\ Inv'
  <2>1. PICK m : m = mensajes_pendientes[d][Len(mensajes_pendientes[d])]
    OBVIOUS
  <2>2. /\ d \in Usuarios /\ m \in Mensaje /\ m.n <= MaxMensajes
        /\ EntregarMensaje(d, m, ack)
    BY <1>1, <1>4, <2>1, SendEntrega
  <2>3. Entrega(d, m, ack)
    BY <1>4, <2>1
  <2>4. Estable /\ Direcciones' /\ \A e \in Escuchas : escucha'[e].de = escucha[e].de
    BY <1>1, <2>2, <2>3, EntregaPaso
  <2>5. [Next]_vars
    BY <1>4 DEF Next, Continuar
  <2> QED
    BY <1>2, <1>3, <2>4, <2>5, JuntaConLlegadas
<1>5. CASE EnviarFalla /\ UNCHANGED escucha
  <2>1. [Next]_vars
    BY <1>5 DEF Next, Continuar
  <2>2. RedMengua
    BY <1>5, RedIgual DEF EnviarFalla
  <2>3. Estable /\ SinLlegadas /\ \A e \in Escuchas : escucha'[e].de = escucha[e].de
    BY <1>1, <1>5, NadaCambia DEF local
  <2> QED
    BY <1>2, <1>3, <2>1, <2>2, <2>3, Junta
<1> QED
  BY <1>4, <1>5 DEF SendFin

\* GETFILE asks where somebody with that name once connected.
LEMMA GetFileEn ==
  ASSUME Tipos, Sockets, NEW c \in Clientes, NEW u \in Usuarios, GetFile(c, u)
  PROVE  /\ MismaForma(escucha, escucha')
         /\ ConFichero(c, u) \in Conexion /\ ConFichero(c, u).para = u
         /\ ConFichero(c, u).tipo = "fichero"
         /\ \E g \in Escuchas :
              /\ escucha[g].puerto = dir[c][u]
              /\ escucha'[g] = ConCola(escucha[g], ConFichero(c, u))
              /\ \A e \in Escuchas \ {g} : escucha'[e] = escucha[e]
<1>1. ConFichero(c, u) \in Conexion
  BY DEF ConFichero, Conexion
<1>2. ConFichero(c, u).para = u /\ ConFichero(c, u).tipo = "fichero"
  BY DEF ConFichero
<1>3. /\ Abre(escucha, dir[c][u])
      /\ escucha' = Encola(escucha, dir[c][u], ConFichero(c, u))
  BY DEF GetFile
<1>4. MismaForma(escucha, escucha)
  BY FormaInicial
<1> QED
  BY <1>1, <1>2, <1>3, <1>4, EncolaUno

LEMMA PasoGetFile == ASSUME Inv, NEW c \in Clientes, NEW u \in Usuarios, GetFile(c, u) PROVE [Next]_vars /\ Inv'
<1>1. Tipos /\ Sockets /\ Direcciones /\ Turno /\ Ordenes
  BY DEF Inv
<1>2. /\ dir[c][u] # 0 /\ EsperaEn(c, "getfile", u)
      /\ UNCHANGED <<local, impresos>> /\ UNCHANGED vars
  BY DEF GetFile
<1>3. /\ MismaForma(escucha, escucha')
      /\ ConFichero(c, u) \in Conexion /\ ConFichero(c, u).para = u
  BY <1>1, GetFileEn
<1>4. PICK g \in Escuchas :
        /\ escucha[g].puerto = dir[c][u]
        /\ escucha'[g] = ConCola(escucha[g], ConFichero(c, u))
        /\ \A e \in Escuchas \ {g} : escucha'[e] = escucha[e]
  BY <1>1, GetFileEn
<1>5. Estable
  BY <1>1, <1>2, <1>3, FormaEstable DEF local
<1>6. \A e \in Escuchas : escucha'[e].puerto = escucha[e].puerto /\ escucha'[e].de = escucha[e].de
  BY <1>3 DEF MismaForma
<1>7. \A v \in Usuarios : \A p : Tuvo(v, p) => TuvoDespues(v, p)
  BY <1>5, TuvoQueda
<1>8. TuvoDespues(u, dir[c][u])
  BY <1>1, <1>2, <1>7 DEF Direcciones
<1>9. ASSUME NEW e \in Escuchas, NEW x \in En(e)'
      PROVE  x \in En(e) \cup {SinConexion} \/ TuvoDespues(x.para, escucha'[e].puerto)
  <2>1. CASE e = g
    <3>1. escucha[g] \in Socket
      BY <1>1, Campos
    <3>2. Dentro(escucha'[g]) = Dentro(escucha[g]) \cup {ConFichero(c, u)}
      BY <1>3, <1>4, <3>1, CambiarCola
    <3>3. x \in En(g) \/ x = ConFichero(c, u)
      BY <1>9, <2>1, <3>2, EnDentro
    <3>4. x = ConFichero(c, u) => TuvoDespues(x.para, escucha'[g].puerto)
      BY <1>3, <1>4, <1>6, <1>8
    <3> QED
      BY <2>1, <3>3, <3>4
  <2>2. CASE e # g
    <3>1. Dentro(escucha'[e]) = Dentro(escucha[e])
      BY <1>4, <2>2
    <3> QED
      BY <1>9, <3>1, EnDentro
  <2> QED
    BY <2>1, <2>2
<1>10. DirFiel
  BY <1>2 DEF DirFiel, local
<1>11. Direcciones'
  <2>1. \A v \in Usuarios : conectado'[v] => conectado[v] /\ puerto'[v] = puerto[v]
    BY <1>2 DEF vars, red
  <2> QED
    BY <1>1, <1>6, <1>7, <1>9, <1>10, <2>1, DireccionesPaso
<1>12. /\ shell' \in [Clientes -> [en : {"nada", "pide", "connect", "send", "getfile"},
                                    usuario : Usuarios \cup {Nadie}]]
       /\ shell'[c].en = "getfile" /\ shell'[c].usuario = u
       /\ \A b \in Clientes \ {c} : shell'[b] = shell[b]
  BY <1>1, <1>2, ShellTipo
<1>13. Turno'
  <2>1. \A b \in Clientes : shell'[b] = shell[b] \/ shell'[b].en \notin {"connect", "send"}
    BY <1>12
  <2>2. mutex_lista' = mutex_lista
    BY <1>2 DEF vars
  <2> QED
    BY <1>1, <2>1, <2>2, TurnoPaso
<1>14. TiposClientes'
  BY <1>1, <1>2, <1>12 DEF TiposClientes, Tipos, local
<1>15. SinPedir
  <2>1. ASSUME NEW b \in Clientes
        PROVE  /\ shell'[b].en # "nada" => shell'[b].usuario \in Usuarios
               /\ shell'[b].en = "pide" => shell'[b] = shell[b]
    <3>1. CASE b = c
      BY <1>12, <3>1
    <3>2. CASE b # c
      BY <1>1, <1>12, <3>2 DEF Ordenes
    <3> QED
      BY <3>1, <3>2
  <2> QED
    BY <1>2, <2>1 DEF SinPedir, local
<1> QED
  BY <1>2, <1>5, <1>6, <1>11, <1>13, <1>14, <1>15, JuntaConLlegadas

\* CONNECT before its request: a new socket, nobody's, on a port where nobody
\* listens.
LEMMA PasoConnect == ASSUME Inv, NEW c \in Clientes, NEW u \in Usuarios, Connect(c, u)
                     PROVE  [Next]_vars /\ Inv'
<1>1. Tipos /\ Sockets /\ Direcciones /\ Turno /\ Ordenes
  BY DEF Inv
<1>2. /\ EsperaEn(c, "pide", u) /\ UNCHANGED <<nombre, dir, impresos>>
      /\ UNCHANGED vars /\ mutex_lista' = mutex_lista
  BY DEF Connect, vars
<1>3. /\ shell' \in [Clientes -> [en : {"nada", "pide", "connect", "send", "getfile"},
                                   usuario : Usuarios \cup {Nadie}]]
      /\ shell'[c].en = "pide" /\ shell'[c].usuario = u
      /\ \A b \in Clientes \ {c} : shell'[b] = shell[b]
  BY <1>1, <1>2, ShellTipo
<1>4. PICK e \in Escuchas : e = listen_sock'[c]
  BY <1>1, ConnectPaso DEF Usadas
<1>5. /\ Sockets' /\ SinLlegadas
      /\ escucha' \in [Escuchas -> Socket]
      /\ Usadas \subseteq Usadas'
      /\ \A f \in Usadas : escucha'[f] = escucha[f]
      /\ e \in Usadas'
      /\ escucha'[e].cliente = c /\ escucha'[e].de = Nadie
      /\ \A f \in Escuchas : f # e => escucha'[f] = escucha[f]
      /\ escucha[e] = SinCrear
      /\ listen_sock' \in [Clientes -> Escuchas \cup {0}]
      /\ \A b \in Clientes \ {c} : listen_sock'[b] = listen_sock[b]
  BY <1>1, <1>4, ConnectPaso
<1>6. \A v \in Usuarios : \A q : Tuvo(v, q) => TuvoDespues(v, q)
  <2>1. \A v \in Usuarios : \A q : Tuvo(v, q) => Tuvo(v, q)'
    BY <1>1, ConnectPaso
  <2> QED
    BY <2>1 DEF Tuvo, TuvoDespues
<1>7. InvG' /\ emitidos' <= MaxMensajes
  BY <1>2, InvGPaso DEF Inv, Tipos, vars, historia
<1>8. Tipos'
  BY <1>1, <1>2, <1>3, <1>5, <1>7 DEF Tipos
<1>9. Turno'
  <2>1. \A b \in Clientes : shell'[b] = shell[b] \/ shell'[b].en \notin {"connect", "send"}
    BY <1>3
  <2> QED
    BY <1>1, <1>2, <2>1, TurnoPaso
<1>10. Direcciones'
  <2>1. En(e) \subseteq {SinConexion}
    BY <1>5 DEF En, SinCrear
  <2>2. \A f \in Escuchas : escucha'[f].puerto = escucha[f].puerto \/ En(f) \subseteq {SinConexion}
    BY <1>5, <2>1
  <2>3. \A f \in Escuchas : \A x \in En(f)' : x \in En(f) \cup {SinConexion}
    BY <1>5 DEF SinLlegadas
  <2>4. \A v \in Usuarios : conectado'[v] => conectado[v] /\ puerto'[v] = puerto[v]
    BY <1>2 DEF vars, red
  <2>5. DirFiel
    BY <1>2 DEF DirFiel
  <2> QED
    BY <1>1, <1>6, <2>2, <2>3, <2>4, <2>5, DireccionesPaso
<1>11. Ordenes'
  <2> SUFFICES ASSUME NEW b \in Clientes
               PROVE  /\ shell'[b].en # "nada" => shell'[b].usuario \in Usuarios
                      /\ listen_sock'[b] # 0 => listen_sock'[b] \in Usadas'
                      /\ shell'[b].en = "pide" =>
                           /\ listen_sock'[b] # 0
                           /\ escucha'[listen_sock'[b]].cliente = b
                           /\ escucha'[listen_sock'[b]].de = Nadie
    BY DEF Ordenes
  <2>1. CASE b = c
    BY <1>3, <1>4, <1>5, <2>1, Supuestos
  <2>2. CASE b # c
    <3>1. shell'[b] = shell[b] /\ listen_sock'[b] = listen_sock[b]
      BY <1>3, <1>5, <2>2
    <3>2. listen_sock[b] # 0 => /\ listen_sock[b] \in Usadas /\ listen_sock[b] \in Usadas'
                                /\ escucha'[listen_sock[b]] = escucha[listen_sock[b]]
      BY <1>1, <1>5 DEF Ordenes
    <3> QED
      BY <1>1, <3>1, <3>2 DEF Ordenes
  <2> QED
    BY <2>1, <2>2
<1> QED
  BY <1>2, <1>5, <1>7, <1>8, <1>9, <1>10, <1>11 DEF Inv

\* The server accepts the CONNECT of c: its socket is u's and its port goes to the
\* server.
LEMMA PideAceptado ==
  ASSUME Inv, NEW c \in Clientes, NEW u \in Usuarios, shell[c].en = "pide",
         ConectarUsuario(u, MiIp, escucha[listen_sock[c]].puerto),
         EsperaEn(c, "connect", u),
         escucha' = [escucha EXCEPT ![listen_sock[c]].de = u],
         UNCHANGED <<local, impresos>>
  PROVE  [Next]_vars /\ Inv'
<1>1. Tipos /\ Sockets /\ Direcciones /\ Turno /\ Ordenes
  BY DEF Inv
<1>2. listen_sock' = listen_sock /\ nombre' = nombre /\ dir' = dir /\ impresos' = impresos
  BY DEF local
<1>3. PICK e \in Escuchas : e = listen_sock[c]
  BY <1>1, <1>2, PideSocket
<1>4. /\ Estable /\ SinLlegadas
      /\ escucha'[e].de = u
      /\ escucha'[e].puerto = escucha[e].puerto
      /\ escucha[e].puerto \in Puertos
      /\ \A f \in Escuchas \ {e} : escucha'[f] = escucha[f]
  <2>1. /\ Estable /\ SinLlegadas
        /\ escucha'[listen_sock[c]].de = u
        /\ escucha'[listen_sock[c]].puerto = escucha[listen_sock[c]].puerto
        /\ escucha[listen_sock[c]].puerto \in Puertos
        /\ \A f \in Escuchas \ {listen_sock[c]} : escucha'[f] = escucha[f]
    BY <1>1, <1>2, PideSocket
  <2> QED
    BY <1>3, <2>1
<1>5. [Next]_vars
  BY <1>3, <1>4, Supuestos DEF Next, Peticion
<1>6. /\ mutex_lista = Libre /\ mutex_lista' = [op |-> "conectar", usuario |-> u, k |-> 0]
      /\ conectado' = [conectado EXCEPT ![u] = TRUE]
      /\ puerto' = [puerto EXCEPT ![u] = escucha[e].puerto]
  BY <1>3 DEF ConectarUsuario
<1>7. /\ shell' \in [Clientes -> [en : {"nada", "pide", "connect", "send", "getfile"},
                                   usuario : Usuarios \cup {Nadie}]]
      /\ shell'[c].en = "connect" /\ shell'[c].usuario = u
      /\ \A b \in Clientes \ {c} : shell'[b] = shell[b]
  BY <1>1, ShellTipo
<1>8. InvG' /\ emitidos' <= MaxMensajes
  BY <1>5, InvGPaso, EmitidosPaso DEF Inv, InvG, Tipos
<1>9. Tipos'
  <2>1. escucha' \in [Escuchas -> Socket]
    BY <1>4 DEF Estable
  <2> QED
    BY <1>1, <1>2, <1>7, <1>8, <2>1 DEF Tipos
<1>10. Turno'
  <2>1. \A b \in Clientes : shell[b].en \notin {"connect", "send"}
    BY <1>1, <1>6, NadieEspera DEF Espera
  <2> QED
    BY <1>6, <1>7, <2>1, TurnoSolo
<1>11. Sockets' /\ Usadas' = Usadas
  BY <1>1, <1>4, SocketsEstable
<1>12. Direcciones'
  <2>1. \A v \in Usuarios : \A p : Tuvo(v, p) => TuvoDespues(v, p)
    BY <1>4, TuvoQueda
  <2>2. TuvoDespues(u, escucha[e].puerto)
    BY <1>4 DEF TuvoDespues
  <2>3. \A v \in Usuarios : v # u => conectado'[v] = conectado[v] /\ puerto'[v] = puerto[v]
    BY <1>6 DEF Inv, InvG, Inv2, Inv1, TypeOK
  <2>4. puerto'[u] = escucha[e].puerto
    BY <1>6 DEF Inv, InvG, Inv2, Inv1, TypeOK
  <2>5. \A v \in Usuarios : conectado'[v] =>
          (conectado[v] /\ puerto'[v] = puerto[v]) \/ TuvoDespues(v, puerto'[v])
    BY <2>2, <2>3, <2>4
  <2>6. \A f \in Escuchas : escucha'[f].puerto = escucha[f].puerto
    BY <1>4 DEF Estable
  <2>7. \A f \in Escuchas : \A x \in En(f)' : x \in En(f) \cup {SinConexion}
    BY <1>4 DEF SinLlegadas
  <2>8. DirFiel
    BY <1>2 DEF DirFiel
  <2> QED
    BY <1>1, <2>1, <2>5, <2>6, <2>7, <2>8, DireccionesPaso
<1>13. Ordenes'
  <2> SUFFICES ASSUME NEW b \in Clientes
               PROVE  /\ shell'[b].en # "nada" => shell'[b].usuario \in Usuarios
                      /\ listen_sock'[b] # 0 => listen_sock'[b] \in Usadas'
                      /\ shell'[b].en = "pide" =>
                           /\ listen_sock'[b] # 0
                           /\ escucha'[listen_sock'[b]].cliente = b
                           /\ escucha'[listen_sock'[b]].de = Nadie
    BY DEF Ordenes
  <2>1. listen_sock'[b] # 0 => listen_sock'[b] \in Usadas'
    BY <1>1, <1>2, <1>11 DEF Ordenes
  <2>2. CASE b = c
    BY <1>7, <2>1, <2>2
  <2>3. CASE b # c
    <3>1. shell'[b] = shell[b]
      BY <1>7, <2>3
    <3>2. ASSUME shell[b].en = "pide"
          PROVE  /\ listen_sock[b] # 0
                 /\ escucha'[listen_sock[b]].cliente = b
                 /\ escucha'[listen_sock[b]].de = Nadie
      <4>1. PICK f \in Escuchas :
              f = listen_sock[b] /\ escucha[f].cliente = b /\ escucha[f].de = Nadie
        BY <1>1, <3>2 DEF Ordenes, Usadas
      <4>2. escucha[e].cliente = c
        BY <1>1, <1>3 DEF Ordenes
      <4>3. escucha'[f] = escucha[f]
        BY <1>4, <2>3, <4>1, <4>2
      <4> QED
        BY <4>1, <4>3, Supuestos
    <3> QED
      BY <1>1, <1>2, <2>1, <3>1, <3>2 DEF Ordenes
  <2> QED
    BY <2>2, <2>3
<1> QED
  BY <1>5, <1>8, <1>9, <1>10, <1>11, <1>12, <1>13 DEF Inv

LEMMA PasoConnectPide == ASSUME Inv, NEW c \in Clientes, ConnectPide(c)
                         PROVE  [Next]_vars /\ Inv'
<1>1. PICK u \in Usuarios : u = shell[c].usuario
  BY DEF ConnectPide, Inv, Ordenes
<1>2. shell[c].en = "pide" /\ UNCHANGED <<local, impresos>>
  BY DEF ConnectPide
<1>3. CASE /\ ConectarUsuario(u, MiIp, escucha[listen_sock[c]].puerto)
           /\ EsperaEn(c, "connect", u)
           /\ escucha' = [escucha EXCEPT ![listen_sock[c]].de = u]
  BY <1>2, <1>3, PideAceptado
<1>4. CASE /\ \E res \in 1..2 : ConectarRechazado(u, res)
           /\ Vuelve(c)
           /\ UNCHANGED escucha
  <2>1. UNCHANGED vars
    BY <1>4 DEF ConectarRechazado
  <2>2. RedMengua /\ mutex_lista' = mutex_lista
    BY <2>1, RedIgual DEF vars
  <2>3. Estable /\ SinLlegadas /\ \A f \in Escuchas : escucha'[f].de = escucha[f].de
    BY <1>2, <1>4, NadaCambia DEF local
  <2>4. TiposClientes' /\ \A b \in Clientes : shell'[b] = shell[b] \/ shell'[b].en = "nada"
    BY <1>2, <1>4, ShellTipo DEF TiposClientes, Tipos, Inv, local
  <2>5. SinPedir /\ DirFiel /\ Turno'
    BY <1>2, <2>2, <2>4, ClientesVuelven
  <2> QED
    BY <2>1, <2>2, <2>3, <2>4, <2>5, Junta
<1> QED
  BY <1>1, <1>3, <1>4 DEF ConnectPide
-----------------------------------------------------------------------------
LEMMA InvInicial == SistemaInit => Inv
<1> SUFFICES ASSUME SistemaInit PROVE Inv
  OBVIOUS
<1>1. Init
  BY DEF SistemaInit
<1>2. /\ escucha = [e \in Escuchas |-> SinCrear]
      /\ listen_sock = [c \in Clientes |-> 0]
      /\ dir = [c \in Clientes |-> [u \in Usuarios |-> 0]]
      /\ shell = [c \in Clientes |-> EnReposo]
  BY DEF SistemaInit
<1>3. InvG
  BY <1>1, Inv2Inicial, RedInicial, RepetirInicial DEF InvG
<1>4. /\ SinCrear \in Socket
      /\ SinCrear.hilo = "no" /\ SinCrear.cola = <<>> /\ SinCrear.atiende = SinConexion
  BY EmptySeq DEF SinCrear, Socket
<1>5. EnReposo.en = "nada" /\ EnReposo.usuario = Nadie
  BY DEF EnReposo
<1>6. EnReposo \in [en : {"nada", "pide", "connect", "send", "getfile"},
                    usuario : Usuarios \cup {Nadie}]
  BY DEF EnReposo
<1>7. Tipos
  <2>1. emitidos <= MaxMensajes
    BY <1>1, Supuestos DEF Init
  <2>2. impresos \in [Clientes -> SUBSET (1..MaxMensajes)]
    BY DEF SistemaInit
  <2>3. nombre \in [Clientes -> Usuarios \cup {Nadie}]
    BY DEF SistemaInit
  <2>4. listen_sock \in [Clientes -> Escuchas \cup {0}]
    BY <1>2
  <2>5. dir \in [Clientes -> [Usuarios -> Puertos \cup {0}]]
    BY <1>2
  <2> QED
    BY <1>2, <1>4, <1>6, <2>1, <2>2, <2>3, <2>4, <2>5 DEF Tipos
<1>8. Ordenes
  BY <1>2, <1>5 DEF Ordenes
<1>9. Turno
  BY <1>2, <1>5 DEF Turno, Espera
<1>10. Sockets
  <2>1. Usadas = {}
    BY <1>2, <1>4 DEF Usadas
  <2>2. Cardinality(Usadas) = 0
    BY <2>1, FS_EmptySet
  <2>3. Usadas = 1..Cardinality(Usadas)
    BY <2>1, <2>2
  <2>4. \A e \in Escuchas : ~Abierta(e)
    BY <1>2, <1>4 DEF Abierta
  <2>5. Len(<<>>) <= Backlog
    BY Supuestos
  <2> QED
    BY <1>2, <1>4, <2>1, <2>3, <2>4, <2>5 DEF Sockets
<1>11. Direcciones
  <2>1. \A u \in Usuarios : ~conectado[u]
    BY <1>1 DEF Init
  <2>2. \A e \in Escuchas : En(e) = {SinConexion}
    <3>1. DOMAIN <<>> = {}
      OBVIOUS
    <3> QED
      BY <1>2, <1>4, <3>1 DEF En
  <2> QED
    BY <1>2, <2>1, <2>2 DEF Direcciones
<1> QED
  BY <1>3, <1>7, <1>8, <1>9, <1>10, <1>11 DEF Inv

\* Every step of the system is one of the server, or leaves it alone, and keeps
\* the invariant.
LEMMA InvPaso == Inv /\ [SistemaNext]_todo => [Next]_vars /\ Inv'
<1> SUFFICES ASSUME Inv, [SistemaNext]_todo PROVE [Next]_vars /\ Inv'
  OBVIOUS
<1>1. CASE Servidor
  BY <1>1, PasoVolcar, PasoConnectPide, PasoConnectOk, PasoSendFin DEF Servidor
<1>2. ASSUME NEW c \in Clientes, Orden(c)
      PROVE  [Next]_vars /\ Inv'
  BY <1>2, PasoUsers, PasoQuit, PasoRegister, PasoConnect, PasoDisconnect, PasoSend,
     PasoGetFile DEF Orden
<1>3. ASSUME NEW c \in Clientes, GetFileCortado(c)
      PROVE  [Next]_vars /\ Inv'
  BY <1>3, PasoCortado
<1>4. ASSUME NEW e \in Escuchas, Hilo(e)
      PROVE  [Next]_vars /\ Inv'
  BY <1>4, PasoAccept, PasoServir, PasoExcepcion DEF Hilo
<1>5. CASE UNCHANGED todo
  BY <1>5, Parado DEF todo
<1> QED
  BY <1>1, <1>2, <1>3, <1>4, <1>5 DEF SistemaNext

LEMMA InvSiempre == SistemaSpec => []Inv
BY InvInicial, InvPaso, PTL DEF SistemaSpec

\* The system is a behaviour of the server: everything that holds whatever its
\* clients do, the order of the queues or the fate of a message, holds here.
THEOREM ElSistemaEsGestion == SistemaSpec => Init /\ [][Next]_vars
<1>1. SistemaInit => Init
  BY DEF SistemaInit
<1> QED
  BY <1>1, InvPaso, InvSiempre, PTL DEF SistemaSpec

\* Every variable of the clients keeps its type, and no listening socket holds
\* more connections than the kernel accepts: Abre looks at the room left by every
\* connection of a delivery, the confirmation included.
THEOREM SistemaTipo == SistemaSpec => []SistemaTypeOK
<1>1. Inv => SistemaTypeOK
  <2> SUFFICES ASSUME Inv PROVE SistemaTypeOK
    OBVIOUS
  <2>1. Tipos /\ Sockets
    BY DEF Inv
  <2>2. ASSUME NEW e \in Escuchas
        PROVE  /\ escucha[e].hilo \in {"no", "accept", "lee", "fin"}
               /\ escucha[e].atiende \in Conexion \cup {SinConexion}
               /\ \A i \in DOMAIN escucha[e].cola : escucha[e].cola[i] \in Conexion
               /\ Len(escucha[e].cola) <= Backlog
    <3>1. /\ escucha[e].hilo \in {"no", "accept", "lee", "fin"}
          /\ escucha[e].atiende \in Conexion \cup {SinConexion}
          /\ escucha[e].cola \in Seq(Conexion)
      BY <2>1, Campos
    <3> QED
      BY <2>1, <3>1, ElementOfSeq DEF Sockets
  <2> QED
    BY <2>1, <2>2 DEF SistemaTypeOK, Tipos
<1> QED
  BY <1>1, InvSiempre, PTL

\* Whatever waits in a listening socket, or is read from it, was meant for the
\* user that connected with it or for one that connected before with the same
\* port.  The address may be out of date in the server, after a QUIT, and in a
\* client, after USERS, and the port may have changed hands more than once.
THEOREM SoloPuertosReusados == SistemaSpec => []SoloPorPuertoReusado
<1>1. Inv => SoloPorPuertoReusado
  BY DEF Inv, Direcciones, Tuvo, SoloPorPuertoReusado
<1> QED
  BY <1>1, InvSiempre, PTL

\* What the server promises, it keeps among real clients: when the environment of
\* Gestion is replaced by sockets that open and close and threads that read, every
\* step still is one of the abstract message service, or of no consequence to it.
THEOREM ServicioDelSistema == SistemaSpec => ImplementaMensajeria
<1>1. SistemaInit => M!Init
  BY ServicioInicial DEF SistemaInit
<1>2. Inv /\ [SistemaNext]_todo => [M!Next]_(M!vars)
  BY InvPaso, EfectoPaso, ServicioPaso DEF Inv, InvG
<1> QED
  BY <1>1, <1>2, InvSiempre, PTL DEF SistemaSpec, ImplementaMensajeria, M!Spec
-----------------------------------------------------------------------------
\* Message n is in socket e; the server counts it as delivered.
Tiene(e, n)  == \E x \in Dentro(escucha[e]) : EsMensaje(x, n)
Entregado(n) == \E u \in Usuarios : n \in Numeros(entregados[u])

\* No socket has it twice, and it is in one place, if it has been delivered.
UnaVez == \A e \in Escuchas, n \in 1..MaxMensajes : Una(escucha[e], n)

UnSitio(n) ==
  /\ \A e, f \in Escuchas : Tiene(e, n) /\ Tiene(f, n) => e = f
  /\ \A c, b \in Clientes : n \in impresos[c] /\ n \in impresos[b] => c = b
  /\ \A e \in Escuchas, c \in Clientes : ~(Tiene(e, n) /\ n \in impresos[c])
  /\ Entregado(n) <=> \/ \E e \in Escuchas : Tiene(e, n)
                      \/ \E c \in Clientes : n \in impresos[c]

InvSitio == Inv /\ UnaVez /\ \A n \in 1..MaxMensajes : UnSitio(n)

\* The same, of the next state.
TieneDespues(e, n)  == \E x \in Dentro(escucha'[e]) : EsMensaje(x, n)
EntregadoDespues(n) == \E u \in Usuarios : n \in Numeros(entregados'[u])

\* A step that moves no message between sockets, screens and the server.
Quietos ==
  /\ \A e \in Escuchas, n \in 1..MaxMensajes :
       /\ TieneDespues(e, n) <=> Tiene(e, n)
       /\ Una(escucha[e], n) => Una(escucha'[e], n)
  /\ impresos' = impresos
  /\ entregados' = entregados

LEMMA SitioQuieto ==
  ASSUME UnaVez, \A n \in 1..MaxMensajes : UnSitio(n), Quietos
  PROVE  UnaVez' /\ \A n \in 1..MaxMensajes : UnSitio(n)'
<1>1. UnaVez'
  BY DEF UnaVez, Quietos
<1>2. ASSUME NEW n \in 1..MaxMensajes
      PROVE  UnSitio(n)'
  <2>1. UnSitio(n)
    OBVIOUS
  <2>2. \A e \in Escuchas : Tiene(e, n)' <=> Tiene(e, n)
    BY DEF Quietos, Tiene, TieneDespues
  <2>3. Entregado(n)' <=> Entregado(n)
    BY DEF Quietos, Entregado
  <2>4. impresos' = impresos
    BY DEF Quietos
  <2> QED
    BY <2>1, <2>2, <2>3, <2>4 DEF UnSitio
<1> QED
  BY <1>1, <1>2

\* Sockets with the same queues, and the same in the hands of their threads.
LEMMA MismosDentro ==
  ASSUME \A e \in Escuchas : /\ escucha'[e].cola = escucha[e].cola
                             /\ escucha'[e].atiende = escucha[e].atiende,
         impresos' = impresos, entregados' = entregados
  PROVE  Quietos
BY DEF Quietos, Tiene, TieneDespues, Dentro, Una

\* A message that is delivered reaches one socket.
LEMMA SitioLlega ==
  ASSUME NEW n \in 1..MaxMensajes, UnSitio(n), ~Entregado(n), EntregadoDespues(n),
         impresos' = impresos, NEW g \in Escuchas, TieneDespues(g, n),
         \A e \in Escuchas \ {g} : TieneDespues(e, n) => Tiene(e, n)
  PROVE  UnSitio(n)'
<1>1. /\ \A e \in Escuchas : ~Tiene(e, n)
      /\ \A c \in Clientes : n \notin impresos[c]
  BY DEF UnSitio
<1>2. \A e \in Escuchas : Tiene(e, n)' <=> e = g
  BY <1>1 DEF Tiene, TieneDespues
<1>3. \A c \in Clientes : n \notin impresos'[c]
  BY <1>1
<1>4. Entregado(n)'
  BY DEF Entregado, EntregadoDespues
<1> QED
  BY <1>2, <1>3, <1>4 DEF UnSitio

\* A message that is printed leaves the socket it was in.
LEMMA SitioMuestra ==
  ASSUME NEW n \in 1..MaxMensajes, UnSitio(n), entregados' = entregados,
         NEW g \in Escuchas, Tiene(g, n), ~TieneDespues(g, n),
         \A e \in Escuchas \ {g} : TieneDespues(e, n) <=> Tiene(e, n),
         NEW c \in Clientes,
         \A b \in Clientes : n \in impresos'[b] <=> n \in impresos[b] \/ b = c
  PROVE  UnSitio(n)'
<1>1. /\ \A e \in Escuchas : Tiene(e, n) => e = g
      /\ \A b \in Clientes : n \notin impresos[b]
      /\ Entregado(n)
  BY DEF UnSitio
<1>2. \A e \in Escuchas : ~Tiene(e, n)'
  BY <1>1 DEF Tiene, TieneDespues
<1>3. \A b \in Clientes : n \in impresos'[b] <=> b = c
  BY <1>1
<1>4. Entregado(n)'
  BY <1>1 DEF Entregado
<1> QED
  BY <1>2, <1>3, <1>4 DEF UnSitio
-----------------------------------------------------------------------------
LEMMA SitioAccept ==
  ASSUME Tipos, Sockets, NEW e \in Escuchas, Accept(e)
  PROVE  Quietos
<1>1. /\ escucha[e].atiende = SinConexion
      /\ Len(escucha[e].cola) \in Nat \ {0}
      /\ escucha'[e] = [escucha[e] EXCEPT !.hilo = "lee",
              !.atiende = escucha[e].cola[1], !.cola = Tail(escucha[e].cola)]
      /\ Len(Tail(escucha[e].cola)) = Len(escucha[e].cola) - 1
      /\ \A i \in 1..(Len(escucha[e].cola) - 1) :
              Tail(escucha[e].cola)[i] = escucha[e].cola[i + 1]
      /\ \A f \in Escuchas \ {e} : escucha'[f] = escucha[f]
  BY AcceptSocket
<1>2. /\ escucha'[e].atiende = escucha[e].cola[1]
      /\ escucha'[e].cola = Tail(escucha[e].cola)
      /\ escucha[e].cola \in Seq(Conexion) /\ escucha[e].cola # <<>>
  BY <1>1, Campos DEF Socket
<1>3. PICK k \in Nat : Len(escucha[e].cola) = k + 1
  <2>1. PICK j \in Nat \ {0} : Len(escucha[e].cola) = j
    BY <1>1
  <2>2. j - 1 \in Nat /\ j = (j - 1) + 1
    OBVIOUS
  <2> QED
    BY <2>1, <2>2
<1>4. PICK q, t : q = escucha[e].cola /\ t = Tail(escucha[e].cola)
  OBVIOUS
<1>5. /\ DOMAIN q = 1..(k + 1) /\ DOMAIN t = 1..k
      /\ \A i \in 1..k : t[i] = q[i + 1]
  <2>1. t \in Seq(Conexion)
    BY <1>2, <1>4, HeadTailProperties
  <2>2. Len(q) = k + 1 /\ Len(t) = k
    BY <1>1, <1>3, <1>4
  <2>3. q \in Seq(Conexion)
    BY <1>2, <1>4
  <2>4. DOMAIN q = 1..(k + 1) /\ DOMAIN t = 1..k
    BY <2>1, <2>2, <2>3
  <2>5. \A i \in 1..k : t[i] = q[i + 1]
    BY <1>1, <1>3, <1>4
  <2> QED
    BY <2>4, <2>5
<1>6. Dentro(escucha[e]) = {q[i] : i \in 1..(k + 1)} \cup {SinConexion}
  BY <1>1, <1>4, <1>5 DEF Dentro
<1>7. Dentro(escucha'[e]) = {t[i] : i \in 1..k} \cup {q[1]}
  <2>1. escucha'[e].cola = t /\ escucha'[e].atiende = q[1]
    BY <1>2, <1>4
  <2> QED
    BY <1>5, <2>1 DEF Dentro
<1>8. /\ 1 \in 1..(k + 1)
      /\ \A i \in 1..k : i + 1 \in 1..(k + 1) /\ i + 1 # 1
      /\ \A i \in 1..(k + 1) : i = 1 \/ (i - 1 \in 1..k /\ (i - 1) + 1 = i)
      /\ \A i, j \in 1..k : i + 1 = j + 1 => i = j
  OBVIOUS
<1>9. {q[i] : i \in 1..(k + 1)} = {t[i] : i \in 1..k} \cup {q[1]}
  <2>1. \A i \in 1..(k + 1) : i = 1 \/ \E j \in 1..k : q[i] = t[j]
    <3>1. ASSUME NEW i \in 1..(k + 1), i # 1
          PROVE  \E j \in 1..k : q[i] = t[j]
      <4>1. i - 1 \in 1..k /\ t[i - 1] = q[(i - 1) + 1] /\ (i - 1) + 1 = i
        BY <1>5, <1>8, <3>1
      <4> QED
        BY <4>1
    <3> QED
      BY <3>1
  <2>2. \A j \in 1..k : \E i \in 1..(k + 1) : t[j] = q[i]
    BY <1>5, <1>8
  <2> QED
    BY <1>8, <2>1, <2>2
<1>10. ~\E n : EsMensaje(SinConexion, n)
  BY Conexiones DEF EsMensaje
<1>11. ASSUME NEW n PROVE TieneDespues(e, n) <=> Tiene(e, n)
  BY <1>6, <1>7, <1>9, <1>10 DEF Tiene, TieneDespues
<1>12. ASSUME NEW n, Una(escucha[e], n) PROVE Una(escucha'[e], n)
  <2>1. \A i, j \in 1..(k + 1) : EsMensaje(q[i], n) /\ EsMensaje(q[j], n) => i = j
    BY <1>4, <1>5, <1>12 DEF Una
  <2>2. ASSUME NEW i \in 1..k, EsMensaje(t[i], n)
        PROVE  /\ ~EsMensaje(q[1], n)
               /\ \A j \in 1..k : EsMensaje(t[j], n) => i = j
    <3>1. EsMensaje(q[i + 1], n)
      BY <1>5, <2>2
    <3>2. ~EsMensaje(q[1], n)
      BY <1>8, <2>1, <3>1
    <3>3. ASSUME NEW j \in 1..k, EsMensaje(t[j], n) PROVE i = j
      <4>1. EsMensaje(q[j + 1], n)
        BY <1>5, <3>3
      <4>2. i + 1 = j + 1
        BY <1>8, <2>1, <3>1, <4>1
      <4> QED
        BY <1>8, <4>2
    <3> QED
      BY <3>2, <3>3
  <2> QED
    BY <1>2, <1>4, <1>5, <2>2 DEF Una
<1>13. entregados' = entregados /\ impresos' = impresos
  BY DEF Accept, vars, historia
<1> QED
  BY <1>1, <1>11, <1>12, <1>13 DEF Quietos, Tiene, TieneDespues

\* What a thread prints it held once, and nobody else has it.
LEMMA SitioServir ==
  ASSUME Tipos, Sockets, UnaVez, \A n \in 1..MaxMensajes : UnSitio(n),
         NEW e \in Escuchas, Servir(e)
  PROVE  UnaVez' /\ \A n \in 1..MaxMensajes : UnSitio(n)'
<1>1. /\ escucha[e].hilo = "lee"
      /\ escucha'[e].atiende = SinConexion /\ escucha'[e].cola = escucha[e].cola
      /\ \A f \in Escuchas \ {e} : escucha'[f] = escucha[f]
  BY ServirSocket
<1>2. entregados' = entregados /\ Imprime(e)
  BY DEF Servir, vars, historia
<1>3. PICK x : x = escucha[e].atiende
  OBVIOUS
<1>4. \A n : ~EsMensaje(SinConexion, n)
  BY Conexiones DEF EsMensaje
<1>5. /\ Dentro(escucha[e]) = {escucha[e].cola[i] : i \in DOMAIN escucha[e].cola} \cup {x}
      /\ Dentro(escucha'[e]) =
           {escucha[e].cola[i] : i \in DOMAIN escucha[e].cola} \cup {SinConexion}
  BY <1>1, <1>3 DEF Dentro
<1>6. \A f \in Escuchas \ {e} : \A n : TieneDespues(f, n) <=> Tiene(f, n)
  BY <1>1 DEF Tiene, TieneDespues
<1>7. ASSUME NEW f \in Escuchas, NEW n, Una(escucha[f], n)
      PROVE  Una(escucha'[f], n)
  BY <1>1, <1>4, <1>7 DEF Una
<1>8. UnaVez'
  BY <1>7 DEF UnaVez
<1>9. ASSUME NEW n, ~EsMensaje(x, n)
      PROVE  TieneDespues(e, n) <=> Tiene(e, n)
  BY <1>4, <1>5, <1>9 DEF Tiene, TieneDespues
<1>10. CASE x.tipo # "mensaje"
  <2>1. impresos' = impresos
    BY <1>2, <1>3, <1>10 DEF Imprime
  <2>2. \A n : ~EsMensaje(x, n)
    BY <1>10 DEF EsMensaje
  <2>3. \A f \in Escuchas, n \in 1..MaxMensajes : TieneDespues(f, n) <=> Tiene(f, n)
    BY <1>6, <1>9, <2>2
  <2>4. Quietos
    BY <1>2, <1>7, <2>1, <2>3 DEF Quietos
  <2> QED
    BY <2>4, SitioQuieto
<1>11. CASE x.tipo = "mensaje"
  <2>1. PICK c \in Clientes : c = escucha[e].cliente
    BY <1>1 DEF Sockets, Usadas
  <2>2. impresos' = [impresos EXCEPT ![c] = @ \cup {x.n}]
    BY <1>2, <1>3, <1>11, <2>1 DEF Imprime
  <2>3. \A b \in Clientes : \A n : n \in impresos'[b] <=> n \in impresos[b] \/ (b = c /\ n = x.n)
    BY <2>2 DEF Tipos
  <2>4. ASSUME NEW n \in 1..MaxMensajes
        PROVE  UnSitio(n)'
    <3>1. UnSitio(n)
      OBVIOUS
    <3>2. CASE n = x.n
      <4>1. EsMensaje(x, n)
        BY <1>11, <3>2 DEF EsMensaje
      <4>2. Tiene(e, n)
        BY <1>5, <4>1 DEF Tiene
      <4>3. \A i \in DOMAIN escucha[e].cola : ~EsMensaje(escucha[e].cola[i], n)
        BY <1>3, <4>1 DEF UnaVez, Una
      <4>4. ~TieneDespues(e, n)
        BY <1>4, <1>5, <4>3 DEF TieneDespues
      <4>5. \A b \in Clientes : n \in impresos'[b] <=> n \in impresos[b] \/ b = c
        BY <2>3, <3>2
      <4> QED
        BY <1>2, <1>6, <3>1, <4>2, <4>4, <4>5, SitioMuestra
    <3>3. CASE n # x.n
      <4>1. ~EsMensaje(x, n)
        BY <3>3 DEF EsMensaje
      <4>2. \A f \in Escuchas : Tiene(f, n)' <=> Tiene(f, n)
        BY <1>6, <1>9, <4>1 DEF Tiene, TieneDespues
      <4>3. \A b \in Clientes : n \in impresos'[b] <=> n \in impresos[b]
        BY <2>3, <3>3
      <4>4. Entregado(n)' <=> Entregado(n)
        BY <1>2 DEF Entregado
      <4> QED
        BY <3>1, <4>2, <4>3, <4>4 DEF UnSitio
    <3> QED
      BY <3>2, <3>3
  <2> QED
    BY <1>8, <2>4
<1> QED
  BY <1>10, <1>11

\* A delivery: the message was in no socket and on no screen.
LEMMA SitioEntrega ==
  ASSUME InvSitio, NEW d \in Usuarios, NEW m \in Mensaje, m.n <= MaxMensajes, m \in EnCola(d),
         NEW ack, EntregarMensaje(d, m, ack), Entrega(d, m, ack), impresos' = impresos
  PROVE  UnaVez' /\ \A n \in 1..MaxMensajes : UnSitio(n)'
<1>1. Inv /\ Tipos /\ Sockets /\ UnaVez /\ SinRepetir /\ TypeOK
  BY DEF InvSitio, Inv, InvG, Inv2, Inv1
<1>2. PICK g \in Escuchas : EntregaEn(g, d, m, ack)
  BY <1>1, EntregaSockets
<1>3. /\ EsMensaje(ConMensaje(m, d), m.n)
      /\ \A n : EsMensaje(ConMensaje(m, d), n) => n = m.n
      /\ \A n : ~EsMensaje(ConAck(m), n)
      /\ m.n \in 1..MaxMensajes
  BY ConexionesDe
<1>4. entregados' = [entregados EXCEPT ![d] = @ \cup {m}]
  BY DEF EntregarMensaje
<1>5. /\ entregados'[d] = entregados[d] \cup {m}
      /\ \A u \in Usuarios \ {d} : entregados'[u] = entregados[u]
  BY <1>1, <1>4 DEF TypeOK
<1>6. ~Entregado(m.n)
  <2>1. m.n \in Numeros(EnCola(d))
    BY DEF Numeros
  <2>2. \A u \in Usuarios : m.n \notin Numeros(entregados[u])
    BY <1>1, <2>1 DEF SinRepetir
  <2> QED
    BY <2>2 DEF Entregado
<1>7. EntregadoDespues(m.n)
  BY <1>5 DEF EntregadoDespues, Numeros
<1>8. \A n : n # m.n => (EntregadoDespues(n) <=> Entregado(n))
  <2>1. ASSUME NEW n, n # m.n, NEW u \in Usuarios
        PROVE  n \in Numeros(entregados'[u]) <=> n \in Numeros(entregados[u])
    BY <1>5, <2>1 DEF Numeros
  <2> QED
    BY <2>1 DEF Entregado, EntregadoDespues
<1>9. /\ ConMensaje(m, d) \in Dentro(escucha'[g])
      /\ \A e \in Escuchas :
           /\ Dentro(escucha[e]) \subseteq Dentro(escucha'[e])
           /\ \A x \in Dentro(escucha'[e]) :
                x \in Dentro(escucha[e]) \/ (e = g /\ x = ConMensaje(m, d)) \/ x = ConAck(m)
           /\ \A n : Una(escucha[e], n) /\ (n # m.n \/ \A y \in Dentro(escucha[e]) : ~EsMensaje(y, n))
                       => Una(escucha'[e], n)
  BY <1>2 DEF EntregaEn
<1>10. \A e \in Escuchas : ~Tiene(e, m.n)
  BY <1>3, <1>6 DEF InvSitio, UnSitio
<1>11. UnaVez'
  <2>1. ASSUME NEW e \in Escuchas, NEW n \in 1..MaxMensajes
        PROVE  Una(escucha'[e], n)
    <3>1. Una(escucha[e], n)
      BY <1>1 DEF UnaVez
    <3>2. n # m.n \/ \A y \in Dentro(escucha[e]) : ~EsMensaje(y, n)
      BY <1>10 DEF Tiene
    <3> QED
      BY <1>9, <3>1, <3>2
  <2> QED
    BY <2>1 DEF UnaVez
<1>12. ASSUME NEW n \in 1..MaxMensajes
       PROVE  UnSitio(n)'
  <2>1. UnSitio(n)
    BY DEF InvSitio
  <2>2. CASE n = m.n
    <3>1. TieneDespues(g, n)
      BY <1>3, <1>9, <2>2 DEF TieneDespues
    <3>2. \A e \in Escuchas \ {g} : TieneDespues(e, n) => Tiene(e, n)
      BY <1>3, <1>9 DEF Tiene, TieneDespues
    <3> QED
      BY <1>6, <1>7, <2>1, <2>2, <3>1, <3>2, SitioLlega
  <2>3. CASE n # m.n
    <3>1. \A e \in Escuchas : Tiene(e, n)' <=> Tiene(e, n)
      BY <1>3, <1>9, <2>3 DEF Tiene
    <3>2. Entregado(n)' <=> Entregado(n)
      BY <1>8, <2>3 DEF Entregado, EntregadoDespues
    <3> QED
      BY <2>1, <3>1, <3>2 DEF UnSitio
  <2> QED
    BY <2>2, <2>3
<1> QED
  BY <1>11, <1>12

LEMMA SitioGetFile ==
  ASSUME Tipos, Sockets, NEW c \in Clientes, NEW u \in Usuarios, GetFile(c, u)
  PROVE  Quietos
<1>1. ConFichero(c, u) \in Conexion /\ ConFichero(c, u).tipo = "fichero"
  BY GetFileEn
<1>2. PICK g \in Escuchas :
        /\ escucha'[g] = ConCola(escucha[g], ConFichero(c, u))
        /\ \A e \in Escuchas \ {g} : escucha'[e] = escucha[e]
  BY GetFileEn
<1>3. \A n : ~EsMensaje(ConFichero(c, u), n)
  BY <1>1 DEF EsMensaje
<1>4. escucha[g] \in Socket
  BY Campos
<1>5. /\ Dentro(escucha'[g]) = Dentro(escucha[g]) \cup {ConFichero(c, u)}
      /\ \A n : Una(escucha[g], n) => Una(escucha'[g], n)
  BY <1>1, <1>2, <1>3, <1>4, CambiarCola
<1>6. \A n : TieneDespues(g, n) <=> Tiene(g, n)
  BY <1>3, <1>5 DEF Tiene, TieneDespues
<1>7. \A e \in Escuchas : \A n : TieneDespues(e, n) <=> Tiene(e, n)
  BY <1>2, <1>6 DEF Tiene, TieneDespues
<1>8. \A e \in Escuchas : \A n : Una(escucha[e], n) => Una(escucha'[e], n)
  BY <1>2, <1>5
<1>9. entregados' = entregados /\ impresos' = impresos
  BY DEF GetFile, vars, historia
<1> QED
  BY <1>7, <1>8, <1>9 DEF Quietos

\* The other commands: no connection moves.
LEMMA SitioOrden ==
  ASSUME Inv, NEW c \in Clientes, Orden(c)
  PROVE  Quietos
<1>1. Tipos /\ Sockets /\ Ordenes
  BY DEF Inv
<1>2. \A e \in Escuchas : escucha[e] \in Socket
  BY <1>1, Campos
<1>3. ASSUME PedirUsers(c) PROVE Quietos
  BY <1>3, MismosDentro DEF PedirUsers, Users, vars, historia
<1>4. ASSUME Quit(c) PROVE Quietos
  <2>1. \A e \in Escuchas : /\ escucha'[e].cola = escucha[e].cola
                            /\ escucha'[e].atiende = escucha[e].atiende
    BY <1>2, <1>4, CambiarQuit DEF Quit
  <2> QED
    BY <1>4, <2>1, MismosDentro DEF Quit, vars, historia
<1>5. ASSUME NEW u \in Usuarios, PedirRegister(c, u) PROVE Quietos
  BY <1>5, MismosDentro DEF PedirRegister, RegistrarUsuario, vars, historia
<1>6. ASSUME NEW u \in Usuarios, Connect(c, u) PROVE Quietos
  <2>1. PICK f : /\ escucha'[f].cola = <<>> /\ escucha'[f].atiende = SinConexion
                 /\ escucha[f] = SinCrear
                 /\ \A e \in Escuchas : e # f => escucha'[e] = escucha[e]
    BY <1>1, <1>6, ConnectPaso
  <2>2. SinCrear.cola = <<>> /\ SinCrear.atiende = SinConexion
    BY DEF SinCrear
  <2>3. \A e \in Escuchas : /\ escucha'[e].cola = escucha[e].cola
                            /\ escucha'[e].atiende = escucha[e].atiende
    BY <2>1, <2>2
  <2> QED
    BY <1>6, <2>3, MismosDentro DEF Connect, vars, historia
<1>7. ASSUME NEW u \in Usuarios, Disconnect(c, u) PROVE Quietos
  <2>1. ASSUME NEW e \in Escuchas
        PROVE  /\ escucha'[e].cola = escucha[e].cola
               /\ escucha'[e].atiende = escucha[e].atiende
    <3>1. escucha'[e] = [escucha[e] EXCEPT !.cerrado = @ \/ listen_sock[c] = e]
      BY <1>7 DEF Disconnect
    <3> QED
      BY <1>2, <3>1 DEF Socket
  <2> QED
    BY <1>7, <2>1, MismosDentro DEF Disconnect, DesconectarUsuario, vars, historia
<1>8. ASSUME NEW u \in Usuarios, Send(c, u) PROVE Quietos
  BY <1>8, MismosDentro DEF Send, EnviarMensaje, EnviarRechazado, historia
<1>9. ASSUME NEW u \in Usuarios, GetFile(c, u) PROVE Quietos
  BY <1>1, <1>9, SitioGetFile
<1> QED
  BY <1>3, <1>4, <1>5, <1>6, <1>7, <1>8, <1>9 DEF Orden

LEMMA SitioServidor ==
  ASSUME InvSitio, Servidor
  PROVE  UnaVez' /\ \A n \in 1..MaxMensajes : UnSitio(n)'
<1>1. Inv /\ Tipos /\ Sockets /\ Ordenes /\ UnaVez /\ \A n \in 1..MaxMensajes : UnSitio(n)
  BY DEF InvSitio, Inv
<1>2. ASSUME NEW ack \in {"sin", "ok", "falla"}, Volcar(ack)
      PROVE  UnaVez' /\ \A n \in 1..MaxMensajes : UnSitio(n)'
  <2>1. PICK d \in Usuarios, m \in Mensaje :
          /\ m.n <= MaxMensajes /\ m \in EnCola(d)
          /\ EntregarMensaje(d, m, ack) /\ Entrega(d, m, ack)
    BY <1>1, <1>2, VolcarEntrega
  <2>2. impresos' = impresos
    BY <1>2 DEF Volcar
  <2> QED
    BY <2>1, <2>2, SitioEntrega
<1>3. ASSUME NEW c \in Clientes, ConnectPide(c) PROVE Quietos
  <2>1. PICK u \in Usuarios : u = shell[c].usuario
    BY <1>1, <1>3 DEF ConnectPide, Ordenes
  <2>2. /\ shell[c].en = "pide" /\ listen_sock' = listen_sock
        /\ entregados' = entregados /\ impresos' = impresos
    BY <1>3 DEF ConnectPide, ConectarUsuario, ConectarRechazado, local, vars, historia
  <2>3. CASE UNCHANGED escucha
    BY <2>2, <2>3, MismosDentro
  <2>4. CASE escucha' = [escucha EXCEPT ![listen_sock[c]].de = u]
    <3>1. /\ \A f \in Escuchas \ {listen_sock[c]} : escucha'[f] = escucha[f]
          /\ escucha'[listen_sock[c]].cola = escucha[listen_sock[c]].cola
          /\ escucha'[listen_sock[c]].atiende = escucha[listen_sock[c]].atiende
      BY <1>1, <2>2, <2>4, PideSocket
    <3>2. \A e \in Escuchas : /\ escucha'[e].cola = escucha[e].cola
                              /\ escucha'[e].atiende = escucha[e].atiende
      BY <3>1
    <3> QED
      BY <2>2, <3>2, MismosDentro
  <2> QED
    BY <1>3, <2>1, <2>3, <2>4 DEF ConnectPide
<1>4. ASSUME NEW c \in Clientes, ConnectOk(c) PROVE Quietos
  BY <1>4, MismosDentro DEF ConnectOk, ConectarFin, historia
<1>5. ASSUME NEW c \in Clientes, SendFin(c)
      PROVE  UnaVez' /\ \A n \in 1..MaxMensajes : UnSitio(n)'
  <2>1. shell[c].en = "send" /\ impresos' = impresos
    BY <1>5 DEF SendFin
  <2>2. ASSUME NEW ack \in {"sin", "ok", "falla"}, EnviarEntrega(ack),
               NEW d, d = shell[c].usuario,
               Entrega(d, mensajes_pendientes[d][Len(mensajes_pendientes[d])], ack)
        PROVE  UnaVez' /\ \A n \in 1..MaxMensajes : UnSitio(n)'
    <3>1. PICK m : m = mensajes_pendientes[d][Len(mensajes_pendientes[d])]
      OBVIOUS
    <3>2. /\ d \in Usuarios /\ m \in Mensaje /\ m.n <= MaxMensajes /\ m \in EnCola(d)
          /\ EntregarMensaje(d, m, ack)
      BY <1>1, <2>1, <2>2, <3>1, SendEntrega
    <3>3. Entrega(d, m, ack)
      BY <2>2, <3>1
    <3> QED
      BY <2>1, <3>2, <3>3, SitioEntrega
  <2>3. CASE EnviarFalla /\ UNCHANGED escucha
    <3>1. Quietos
      BY <2>1, <2>3, MismosDentro DEF EnviarFalla, historia
    <3> QED
      BY <1>1, <3>1, SitioQuieto
  <2> QED
    BY <1>5, <2>2, <2>3 DEF SendFin
<1> QED
  BY <1>1, <1>2, <1>3, <1>4, <1>5, SitioQuieto DEF Servidor

LEMMA SitioPaso == InvSitio /\ [SistemaNext]_todo => InvSitio'
<1> SUFFICES ASSUME InvSitio, [SistemaNext]_todo
             PROVE  UnaVez' /\ \A n \in 1..MaxMensajes : UnSitio(n)'
  BY InvPaso DEF InvSitio
<1>1. Inv /\ Tipos /\ Sockets /\ UnaVez /\ \A n \in 1..MaxMensajes : UnSitio(n)
  BY DEF InvSitio, Inv
<1>2. CASE Servidor
  BY <1>2, SitioServidor
<1>3. ASSUME NEW c \in Clientes, Orden(c) PROVE Quietos
  BY <1>1, <1>3, SitioOrden
<1>4. ASSUME NEW c \in Clientes, GetFileCortado(c) PROVE Quietos
  BY <1>4, MismosDentro DEF GetFileCortado, vars, historia
<1>5. ASSUME NEW e \in Escuchas, Accept(e) PROVE Quietos
  BY <1>1, <1>5, SitioAccept
<1>6. ASSUME NEW e \in Escuchas, Servir(e)
      PROVE  UnaVez' /\ \A n \in 1..MaxMensajes : UnSitio(n)'
  BY <1>1, <1>6, SitioServir
<1>7. ASSUME NEW e \in Escuchas, Excepcion(e) PROVE Quietos
  <2>1. \A f \in Escuchas : /\ escucha'[f].cola = escucha[f].cola
                            /\ escucha'[f].atiende = escucha[f].atiende
    BY <1>1, <1>7, ExcepcionSocket
  <2> QED
    BY <1>7, <2>1, MismosDentro DEF Excepcion, vars, historia
<1>8. CASE UNCHANGED todo
  BY <1>8, MismosDentro, SitioQuieto, <1>1 DEF todo, vars, historia
<1> QED
  BY <1>1, <1>2, <1>3, <1>4, <1>5, <1>6, <1>7, <1>8, SitioQuieto DEF SistemaNext, Hilo

LEMMA SitioInicial == SistemaInit => InvSitio
<1> SUFFICES ASSUME SistemaInit PROVE InvSitio
  OBVIOUS
<1>1. /\ escucha = [e \in Escuchas |-> SinCrear]
      /\ impresos = [c \in Clientes |-> {}]
      /\ entregados = [u \in Usuarios |-> {}]
  BY DEF SistemaInit, Init
<1>2. DOMAIN SinCrear.cola = {} /\ SinCrear.atiende = SinConexion
  <2>1. SinCrear.cola = <<>> /\ SinCrear.atiende = SinConexion
    BY DEF SinCrear
  <2>2. DOMAIN <<>> = {}
    OBVIOUS
  <2> QED
    BY <2>1, <2>2
<1>3. \A n : Una(SinCrear, n)
  BY <1>2 DEF Una
<1>4. \A e \in Escuchas : \A n : ~Tiene(e, n)
  <2>1. Dentro(SinCrear) = {SinConexion}
    BY <1>2 DEF Dentro
  <2>2. \A n : ~EsMensaje(SinConexion, n)
    BY Conexiones DEF EsMensaje
  <2> QED
    BY <1>1, <2>1, <2>2 DEF Tiene
<1>5. \A n : ~Entregado(n)
  BY <1>1 DEF Entregado, Numeros
<1>6. UnaVez
  BY <1>1, <1>3 DEF UnaVez
<1>7. \A n \in 1..MaxMensajes : UnSitio(n)
  BY <1>1, <1>4, <1>5 DEF UnSitio
<1> QED
  BY <1>6, <1>7, InvInicial DEF InvSitio

\* Every message the server counts as delivered is in one place, a listening
\* socket or a screen, and no other message is in any: whatever fails, ends or is
\* delivered again, no message is printed twice or by two clients.
THEOREM CadaMensajeEnUnSitio == SistemaSpec => []EntregadoEnUnSitio
<1>1. InvSitio => EntregadoEnUnSitio
  <2> SUFFICES ASSUME InvSitio, NEW n \in 1..MaxMensajes
               PROVE  Cardinality(Sitios(n)) = IF Entregado(n) THEN 1 ELSE 0
    BY DEF EntregadoEnUnSitio, Entregado
  <2>1. UnSitio(n)
    BY DEF InvSitio
  <2>2. Sitios(n) = {<<"socket", e>> : e \in {f \in Escuchas : Tiene(f, n)}}
                    \cup {<<"pantalla", c>> : c \in {x \in Clientes : n \in impresos[x]}}
    BY EnDentro DEF Sitios, Tiene, EsMensaje
  <2>3. CASE ~Entregado(n)
    <3>1. /\ \A e \in Escuchas : ~Tiene(e, n)
          /\ \A c \in Clientes : n \notin impresos[c]
      BY <2>1, <2>3 DEF UnSitio
    <3>2. Sitios(n) = {}
      BY <2>2, <3>1
    <3> QED
      BY <2>3, <3>2, FS_EmptySet
  <2>4. ASSUME Entregado(n), NEW e \in Escuchas, Tiene(e, n)
        PROVE  Sitios(n) = {<<"socket", e>>}
    <3>1. /\ \A f \in Escuchas : Tiene(f, n) <=> f = e
          /\ \A c \in Clientes : n \notin impresos[c]
      BY <2>1, <2>4 DEF UnSitio
    <3>2. {f \in Escuchas : Tiene(f, n)} = {e} /\ {x \in Clientes : n \in impresos[x]} = {}
      BY <3>1
    <3> QED
      BY <2>2, <3>2
  <2>5. ASSUME Entregado(n), NEW c \in Clientes, n \in impresos[c]
        PROVE  Sitios(n) = {<<"pantalla", c>>}
    <3>1. /\ \A e \in Escuchas : ~Tiene(e, n)
          /\ \A b \in Clientes : n \in impresos[b] <=> b = c
      BY <2>1, <2>5 DEF UnSitio
    <3>2. {f \in Escuchas : Tiene(f, n)} = {} /\ {x \in Clientes : n \in impresos[x]} = {c}
      BY <3>1
    <3> QED
      BY <2>2, <3>2
  <2>6. CASE Entregado(n)
    <3>1. \E x : Sitios(n) = {x}
      BY <2>1, <2>4, <2>5, <2>6 DEF UnSitio
    <3> QED
      BY <2>6, <3>1, FS_Singleton
  <2> QED
    BY <2>3, <2>6
<1> QED
  BY <1>1, SitioInicial, SitioPaso, PTL DEF SistemaSpec
=============================================================================
