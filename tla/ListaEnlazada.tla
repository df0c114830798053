---------------------------- MODULE ListaEnlazada ---------------------------
(***************************************************************************)
(* The lists of gestion.c at the level of nodes and pointers: the clients  *)
(* from `head', with `next' and `before', and the messages each client has *)
(* pending, from `mensajes_pendientes'; malloc and free.  All the nodes    *)
(* share one memory, so an address freed by one list serves the other.     *)
(*                                                                         *)
(* Every operation holds mutex_lista.  CONNECT and SEND call the network   *)
(* with a pointer in their hands: `curso' keeps it.  Whether a client is   *)
(* connected and a delivery succeeds is any choice; Gestion models it.     *)
(***************************************************************************)
EXTENDS Naturals, FiniteSets, Sequences, TLC

CONSTANTS
  Usuarios,     \* user names
  Mensajes,     \* contents of a message
  Direcciones,  \* addresses malloc can return: how many nodes fit in memory
  NULO          \* the null pointer

ASSUME ListaEnlazadaSupuestos ==
  IsFiniteSet(Direcciones) /\ NULO \notin Direcciones

VARIABLES
  head,         \* first node of the list of clients
  nodo,         \* contents of the memory: a node, or Libre
  curso         \* the operation that holds the mutex, if it waits for the network

vars == <<head, nodo, curso>>

Punteros    == Direcciones \cup {NULO}
NodoCliente == [nombre : Usuarios, mensajes_pendientes : Punteros,
                next : Punteros, before : Punteros]
NodoMensaje == [contenido : Mensajes, next : Punteros]
Libre       == [libre |-> TRUE]
Ninguno     == [op |-> "libre"]
Libres      == {a \in Direcciones : nodo[a] = Libre}

\* The nodes met from p on by following `next'; the memory freed leads nowhere.
Siguiente == [q \in Punteros |-> IF q = NULO \/ nodo[q] = Libre THEN NULO ELSE nodo[q].next]
Recorrido(p) ==
  LET paso[k \in 0..Cardinality(Direcciones)] == IF k = 0 THEN p ELSE Siguiente[paso[k - 1]]
      n == Cardinality({k \in DOMAIN paso : paso[k] # NULO})
  IN  [i \in 1..n |-> paso[i - 1]]

Nodos(p) == LET s == Recorrido(p) IN {s[i] : i \in DOMAIN s}

\* The first node of s among those at the places I, where a walk stops.
Primero(s, I) == IF I = {} THEN NULO ELSE s[CHOOSE i \in I : \A j \in I : i <= j]

existe_usuario(u) ==
  LET s == Recorrido(head) IN Primero(s, {i \in DOMAIN s : nodo[s[i]].nombre = u})

Init == head = NULO /\ nodo = [a \in Direcciones |-> Libre] /\ curso = Ninguno
-----------------------------------------------------------------------------
\* Mutant: before is not assigned and holds other data.
RegistrarUsuario_SinBefore(u) ==
  /\ curso = Ninguno /\ existe_usuario(u) = NULO
  /\ \E a \in Libres :
       /\ nodo' = [nodo EXCEPT ![a] = [nombre |-> u, mensajes_pendientes |-> NULO,
                                       next |-> head, before |-> u]]
       /\ head' = a
  /\ UNCHANGED curso

\* registrar_usuario.  A name that is taken or a malloc that fails change nothing.
RegistrarUsuario(u) ==
  /\ curso = Ninguno
  /\ \/ UNCHANGED vars
     \/ /\ existe_usuario(u) = NULO
        /\ \E a \in Libres :
             /\ nodo' = [nodo EXCEPT ![a] = [nombre |-> u, mensajes_pendientes |-> NULO,
                                             next |-> head, before |-> NULO]]
             /\ head' = a
        /\ UNCHANGED curso

\* dar_de_baja_usuario: unlink the node, free its messages, free it.
DarDeBaja(u) ==
  LET c   == existe_usuario(u)
      ant == nodo[c].before
      sig == nodo[c].next
      sinAnt == IF ant # NULO THEN [nodo EXCEPT ![ant].next = sig] ELSE nodo
      sinSig == IF sig # NULO THEN [sinAnt EXCEPT ![sig].before = ant] ELSE sinAnt
  IN  /\ curso = Ninguno /\ c # NULO
      /\ nodo' = [a \in Direcciones |->
           IF a = c \/ a \in Nodos(nodo[c].mensajes_pendientes) THEN Libre ELSE sinSig[a]]
      /\ head' = IF ant # NULO THEN head ELSE sig
      /\ UNCHANGED curso
-----------------------------------------------------------------------------
\* conectar_usuario: `mensaje' starts at the first message ...
Conectar(u) ==
  LET c == existe_usuario(u) IN
  /\ curso = Ninguno /\ c # NULO
  /\ curso' = [op |-> "conectar", cliente |-> c, mensaje |-> nodo[c].mensajes_pendientes]
  /\ UNCHANGED <<head, nodo>>

\* ... and moves on, freeing the ones delivered, ...
EntregarPendiente ==
  /\ curso.op = "conectar" /\ curso.mensaje # NULO
  /\ curso' = [curso EXCEPT !.mensaje = nodo[curso.mensaje].next]
  /\ nodo' = [nodo EXCEPT ![curso.mensaje] = Libre]
  /\ UNCHANGED head

\* Mutant: mensajes_pendientes is only updated when everything was delivered.
ConectarFin_SiFalla ==
  /\ curso.op = "conectar"
  /\ nodo' = IF curso.mensaje = NULO
             THEN [nodo EXCEPT ![curso.cliente].mensajes_pendientes = NULO] ELSE nodo
  /\ curso' = Ninguno
  /\ UNCHANGED head

\* ... until there is none or a delivery fails; until then mensajes_pendientes
\* points to freed memory.
ConectarFin ==
  /\ curso.op = "conectar"
  /\ nodo' = [nodo EXCEPT ![curso.cliente].mensajes_pendientes = curso.mensaje]
  /\ curso' = Ninguno
  /\ UNCHANGED head

\* Pointer q becomes what leads to the node a of the messages of c, or to its end if a
\* is NULO: the field of the client or the `next' of another message.
Enlazar(memoria, c, a, q) ==
  LET s == Recorrido(nodo[c].mensajes_pendientes)
      antes == Primero(s, {i \in DOMAIN s : nodo[s[i]].next = a}) IN
  IF nodo[c].mensajes_pendientes = a
  THEN [memoria EXCEPT ![c].mensajes_pendientes = q]
  ELSE [memoria EXCEPT ![antes].next = q]

\* enviar_mensaje up to the delivery: a node for the message, at the end of the list.
Enviar(d, m) ==
  LET c == existe_usuario(d) IN
  /\ curso = Ninguno /\ c # NULO
  /\ \A a \in Direcciones : nodo[a] \in NodoMensaje => nodo[a].contenido # m
  /\ \E a \in Libres :
       /\ nodo' = [Enlazar(nodo, c, NULO, a) EXCEPT ![a] = [contenido |-> m, next |-> NULO]]
       /\ curso' \in {Ninguno, [op |-> "enviar", cliente |-> c, mensaje |-> a]}
  /\ UNCHANGED head

\* Mutant: the list is left empty, whatever else it had.
EnviarEntrega_VaciaCola ==
  /\ curso.op = "enviar"
  /\ nodo' = [nodo EXCEPT ![curso.cliente].mensajes_pendientes = NULO,
                          ![curso.mensaje] = Libre]
  /\ curso' = Ninguno
  /\ UNCHANGED head

\* The message delivered is unlinked and freed; one that was not stays.
EnviarEntrega ==
  /\ curso.op = "enviar"
  /\ nodo' = [Enlazar(nodo, curso.cliente, curso.mensaje, NULO)
                EXCEPT ![curso.mensaje] = Libre]
  /\ curso' = Ninguno
  /\ UNCHANGED head

EnviarFalla == curso.op = "enviar" /\ curso' = Ninguno /\ UNCHANGED <<head, nodo>>

Next ==
  \/ \E u \in Usuarios : \/ RegistrarUsuario(u) \/ DarDeBaja(u) \/ Conectar(u)
                         \/ \E m \in Mensajes : Enviar(u, m)
  \/ EntregarPendiente \/ ConectarFin \/ EnviarEntrega \/ EnviarFalla

Spec == Init /\ [][Next]_vars
-----------------------------------------------------------------------------
TypeOK ==
  /\ head \in Punteros
  /\ nodo \in [Direcciones -> NodoCliente \cup NodoMensaje \cup {Libre}]
  /\ curso \in {Ninguno} \cup [op : {"conectar", "enviar"}, cliente : Direcciones,
                               mensaje : Punteros]

\* Where the messages pending of the client at c begin: while CONNECT delivers them,
\* at its own pointer.
Pendientes(c) ==
  IF curso.op = "conectar" /\ curso.cliente = c THEN curso.mensaje
  ELSE nodo[c].mensajes_pendientes

Clientes == Nodos(head)

\* No use after free, and no node taken for one of the other kind: what can be
\* reached from head (lines 76-84), from a list of messages (302-306, 510-513, 525-528)
\* or from the pointers of the operation in progress is memory still allocated, and
\* each message is in the list of one client, once.
SinPunterosColgantes ==
  /\ \A a \in Clientes : nodo[a] \in NodoCliente
  /\ \A a \in Clientes : \A b \in Nodos(Pendientes(a)) :
       /\ nodo[b] \in NodoMensaje
       /\ \A c \in Clientes \ {a} : b \notin Nodos(Pendientes(c))
  /\ curso # Ninguno => curso.cliente \in Clientes
  /\ curso.op = "enviar" => curso.mensaje \in Nodos(Pendientes(curso.cliente))

\* The pointers implement the sequences of Colas: walking from head never meets a
\* name twice, a registration adds one name in front, an unregistration leaves
\* exactly the names behind the removed node, and each queue loses its oldest
\* message, its newest or all of them, in order, whatever fails in the middle.
Nombres == LET s == Recorrido(head) IN [i \in DOMAIN s |-> nodo[s[i]].nombre]
Cola(u) ==
  LET c == existe_usuario(u)
      s == Recorrido(Pendientes(c)) IN
  IF c = NULO THEN <<>> ELSE [i \in DOMAIN s |-> nodo[s[i]].contenido]

L == INSTANCE Colas WITH lista <- Nombres, colas <- [u \in Usuarios |-> Cola(u)]
ImplementaColas == L!SpecColas

\* `before' is declared as the pointer to the previous client and
\* dar_de_baja_usuario relies on it to unlink one node: removing a user leaves
\* every other user registered.
BajaSoloDeUno ==
  [][\A u \in Usuarios :
       DarDeBaja(u) =>
         {Nombres'[i] : i \in DOMAIN Nombres'}
           = {Nombres[i] : i \in DOMAIN Nombres} \ {u}]_vars

\* Nothing tells users, messages or addresses apart.
Simetria == Permutations(Usuarios) \cup Permutations(Mensajes) \cup Permutations(Direcciones)
=============================================================================
