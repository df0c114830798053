---------------------------- MODULE GestionProofs ---------------------------
(***************************************************************************)
(* Proofs about Gestion for any sets of users, addresses and ports, any    *)
(* size of the identifiers and any number of messages and registrations.   *)
(***************************************************************************)
EXTENDS Gestion, SequenceTheorems, TLAPS

\* The operation in progress works on a registered user, has not run past the
\* end of its queue, and if it is a SEND, its message is still there.
EnCursoCoherente ==
  mutex_lista # Libre =>
    /\ Existe(mutex_lista.usuario)
    /\ mutex_lista.op = "conectar" =>
         mutex_lista.k <= Len(mensajes_pendientes[mutex_lista.usuario])
    /\ mutex_lista.op = "enviar" =>
         mensajes_pendientes[mutex_lista.usuario] # <<>>

\* TypeOK is not inductive alone: the message that EnviarEntrega delivers is one
\* only because the queue is not empty.
Inv1 == TypeOK /\ EnCursoCoherente

\* What the operation in progress holds, by kind.
LEMMA CasosEnCurso ==
  ASSUME mutex_lista \in EnCurso
  PROVE  /\ mutex_lista # Libre => mutex_lista.usuario \in Usuarios
         /\ mutex_lista.op = "conectar" =>
              /\ mutex_lista # Libre
              /\ mutex_lista.k \in Nat
              /\ mutex_lista = [op |-> "conectar", usuario |-> mutex_lista.usuario,
                                k |-> mutex_lista.k]
         /\ mutex_lista.op = "enviar" =>
              /\ mutex_lista # Libre
              /\ mutex_lista = [op |-> "enviar", usuario |-> mutex_lista.usuario]
         /\ mutex_lista # Libre => mutex_lista.op \in {"conectar", "enviar"}
  BY DEF EnCurso, Libre

\* Removing a name leaves a list of names, those behind it.
LEMMA BajaLista ==
  ASSUME lista \in Seq(Usuarios), NEW u \in Usuarios, Baja(u)
  PROVE  /\ lista' \in Seq(Usuarios)
         /\ Posicion(u) \in 1..Len(lista)
         /\ \A v \in Usuarios : Existe(v) /\ v \notin Fuera(u) => Existe(v)'
<1>1. Posicion(u) \in 1..Len(lista) /\ lista[Posicion(u)] = u
  BY DEF Baja, Existe, Posicion
<1>2. Len(lista) \in Nat
  BY LenProperties
<1>3. lista' \in Seq(Usuarios)
  BY <1>1, <1>2, SubSeqProperties, ElementOfSeq DEF Baja
<1>4. ASSUME NEW v \in Usuarios, Existe(v), v \notin Fuera(u)
      PROVE  Existe(v)'
  <2>1. PICK i \in 1..Len(lista) : lista[i] = v
    BY <1>4 DEF Existe
  <2>2. i > Posicion(u)
    BY <1>1, <1>2, <2>1, <1>4 DEF Fuera
  <2>3. /\ Len(lista') = IF Posicion(u) + 1 <= Len(lista) THEN Len(lista) - Posicion(u) ELSE 0
        /\ \A j \in 1..(Len(lista) - Posicion(u)) : lista'[j] = lista[Posicion(u) + j]
    <3>1. /\ Posicion(u) + 1 \in Int /\ Len(lista) \in Int
          /\ \A j \in (Posicion(u) + 1)..Len(lista) : lista[j] \in Usuarios
      BY <1>1, <1>2, ElementOfSeq
    <3> QED
      BY SMTT(20), <1>1, <1>2, <3>1, SubSeqProperties DEF Baja
  <2>4. i - Posicion(u) \in 1..(Len(lista) - Posicion(u))
    BY <1>1, <1>2, <2>1, <2>2
  <2>5. Len(lista') = Len(lista) - Posicion(u)
    BY <1>1, <1>2, <2>1, <2>2, <2>3
  <2>6. lista'[i - Posicion(u)] = lista[Posicion(u) + (i - Posicion(u))]
    BY <2>3, <2>4
  <2>7. Posicion(u) + (i - Posicion(u)) = i
    BY <1>1, <1>2, <2>1
  <2> QED
    BY <2>1, <2>4, <2>5, <2>6, <2>7 DEF Existe
<1> QED
  BY <1>1, <1>3, <1>4

\* The users a removal takes away are users.
LEMMA FueraUsuarios ==
  ASSUME lista \in Seq(Usuarios), NEW u \in Usuarios, Posicion(u) \in 1..Len(lista)
  PROVE  Fuera(u) \subseteq Usuarios
<1>1. Len(lista) \in Nat
  BY LenProperties
<1>2. ASSUME NEW j \in 1..Posicion(u) PROVE lista[j] \in Usuarios
  <2>1. j \in 1..Len(lista)
    BY <1>1
  <2> QED
    BY <2>1, ElementOfSeq
<1> QED
  BY <1>2 DEF Fuera

LEMMA AltaLista ==
  ASSUME lista \in Seq(Usuarios), NEW u \in Usuarios, Alta(u)
  PROVE  /\ lista' \in Seq(Usuarios)
         /\ Existe(u)'
         /\ \A v \in Usuarios : Existe(v) => Existe(v)'
<1>1. /\ <<u>> \in Seq(Usuarios)
      /\ Len(<<u>>) = 1
      /\ <<u>>[1] = u
  OBVIOUS
<1>2. /\ lista' \in Seq(Usuarios)
      /\ Len(lista') = 1 + Len(lista)
      /\ \A i \in 1..(1 + Len(lista)) :
           lista'[i] = IF i <= 1 THEN u ELSE lista[i - 1]
  BY <1>1, ConcatProperties DEF Alta
<1>3. Len(lista) \in Nat
  BY LenProperties
<1>4. Existe(u)'
  <2>1. 1 \in 1..Len(lista') /\ lista'[1] = u
    BY <1>2, <1>3
  <2> QED
    BY <2>1 DEF Existe
<1>5. ASSUME NEW v \in Usuarios, Existe(v)
      PROVE  Existe(v)'
  <2>1. PICK i \in 1..Len(lista) : lista[i] = v
    BY <1>5 DEF Existe
  <2>2. i + 1 \in 1..Len(lista') /\ lista'[i + 1] = v
    BY <1>2, <1>3, <2>1
  <2> QED
    BY <2>2 DEF Existe
<1> QED
  BY <1>2, <1>4, <1>5
-----------------------------------------------------------------------------
LEMMA SinCambios ==
  ASSUME Inv1, UNCHANGED vars
  PROVE  Inv1'
BY DEF Inv1, TypeOK, EnCursoCoherente, Existe, vars, red, historia

\* A delivery writes the destination's socket, the sender's connection data and
\* the confirmations, and nothing it writes is out of type.
LEMMA EntregarTipo ==
  ASSUME TypeOK, NEW d \in Usuarios, NEW m \in Mensaje, NEW ack,
         EntregarMensaje(d, m, ack)
  PROVE  /\ conectado' \in [Usuarios -> BOOLEAN]
         /\ ip' \in [Usuarios -> IPs \cup {SinIp}]
         /\ puerto' \in [Usuarios -> Puertos \cup {0}]
         /\ entregados' \in [Usuarios -> SUBSET Mensaje]
         /\ acks' \subseteq [mensaje : Mensaje, alta : Nat]
<1> USE DEF TypeOK
<1>1. m.remitente \in Usuarios
  BY DEF Mensaje
<1>2. entregados' \in [Usuarios -> SUBSET Mensaje]
  BY DEF EntregarMensaje
<1>3. CASE ack = "sin"
  BY <1>2, <1>3 DEF EntregarMensaje, red
<1>4. CASE ack = "ok"
  <2>1. [mensaje |-> m, alta |-> alta[m.remitente]] \in [mensaje : Mensaje, alta : Nat]
    BY <1>1
  <2>2. UNCHANGED red /\ acks' = acks \cup {[mensaje |-> m, alta |-> alta[m.remitente]]}
    BY <1>4 DEF EntregarMensaje
  <2> QED
    BY <1>2, <2>1, <2>2 DEF red
<1>5. CASE ack = "falla"
  BY <1>1, <1>2, <1>5 DEF EntregarMensaje
<1>6. ack \in {"sin", "ok", "falla"}
  BY DEF EntregarMensaje
<1> QED
  BY <1>3, <1>4, <1>5, <1>6

LEMMA SiguienteIdTipo ==
  ASSUME NEW id \in 0..MaxId
  PROVE  SiguienteId(id) \in 1..MaxId
<1>1. MaxId \in Nat /\ MaxId # 0
  BY GestionSupuestos
<1>2. CASE id = MaxId
  <2>1. (id + 1) % (MaxId + 1) = 0
    BY <1>1, <1>2
  <2> QED
    BY <1>1, <2>1 DEF SiguienteId
<1>3. CASE id < MaxId
  <2>1. (id + 1) % (MaxId + 1) = id + 1
    BY <1>1, <1>3
  <2> QED
    BY <1>1, <1>3, <2>1 DEF SiguienteId
<1> QED
  BY <1>1, <1>2, <1>3

\* The message delivered by CONNECT and by SEND is a message of the queue.
LEMMA MensajesDeCola ==
  ASSUME Inv1
  PROVE  \A u \in Usuarios :
           /\ Len(mensajes_pendientes[u]) \in Nat
           /\ \A i \in 1..Len(mensajes_pendientes[u]) :
                mensajes_pendientes[u][i] \in Mensaje
           /\ mensajes_pendientes[u] # <<>> => Len(mensajes_pendientes[u]) > 0
<1> TAKE u \in Usuarios
<1>1. mensajes_pendientes[u] \in Seq(Mensaje)
  BY DEF Inv1, TypeOK
<1> QED
  BY <1>1, LenProperties, ElementOfSeq, EmptySeq
-----------------------------------------------------------------------------
LEMMA Inv1Inicial == Init => Inv1
<1> SUFFICES ASSUME Init PROVE Inv1
  OBVIOUS
<1>1. TypeOK
  BY GestionSupuestos DEF Init, InitLista, TypeOK, EnCurso
<1>2. EnCursoCoherente
  BY DEF Init, EnCursoCoherente
<1> QED
  BY <1>1, <1>2 DEF Inv1

LEMMA Inv1Registrar ==
  ASSUME Inv1, NEW u \in Usuarios, NEW res, RegistrarUsuario(u, res)
  PROVE  Inv1'
<1>1. CASE UNCHANGED vars
  BY <1>1, SinCambios
<1>2. CASE /\ mutex_lista = Libre /\ Alta(u) /\ res = 0
  <2>1. lista' \in Seq(Usuarios)
    BY <1>2, AltaLista DEF Inv1, TypeOK
  <2>2. mutex_lista' = Libre
    BY <1>2 DEF RegistrarUsuario
  <2>3. mensajes_pendientes' \in [Usuarios -> Seq(Mensaje)]
    <3>1. /\ <<>> \in Seq(Mensaje)
          /\ mensajes_pendientes \in [Usuarios -> Seq(Mensaje)]
      BY EmptySeq DEF Inv1, TypeOK
    <3>2. mensajes_pendientes' = [mensajes_pendientes EXCEPT ![u] = <<>>]
      BY <1>2 DEF RegistrarUsuario, Alta
    <3> QED
      BY <3>1, <3>2
  <2>4. TypeOK'
    <3>1. /\ conectado' = [conectado EXCEPT ![u] = FALSE]
          /\ ip' = [ip EXCEPT ![u] = SinIp]
          /\ puerto' = [puerto EXCEPT ![u] = 0]
          /\ ultimo_id' = [ultimo_id EXCEPT ![u] = 0]
          /\ alta' = [alta EXCEPT ![u] = @ + 1]
      BY <1>2 DEF RegistrarUsuario, Alta
    <3>3. /\ conectado' \in [Usuarios -> BOOLEAN]
          /\ ip' \in [Usuarios -> IPs \cup {SinIp}]
          /\ puerto' \in [Usuarios -> Puertos \cup {0}]
          /\ ultimo_id' \in [Usuarios -> 0..MaxId]
          /\ alta' \in [Usuarios -> Nat]
      BY SMTT(20), <3>1, GestionSupuestos DEF Inv1, TypeOK
    <3>2. UNCHANGED <<emitidos, entregados, acks, descartados>>
      BY <1>2 DEF RegistrarUsuario, Alta
    <3> QED
      BY <2>1, <2>2, <2>3, <3>2, <3>3 DEF Inv1, TypeOK, EnCurso
  <2>5. EnCursoCoherente'
    BY <2>2 DEF EnCursoCoherente
  <2> QED
    BY <2>4, <2>5 DEF Inv1
<1> QED
  BY <1>1, <1>2 DEF RegistrarUsuario

LEMMA Inv1DarDeBaja ==
  ASSUME Inv1, NEW u \in Usuarios, NEW res, DarDeBajaUsuario(u, res)
  PROVE  Inv1'
<1>1. CASE UNCHANGED vars
  BY <1>1, SinCambios
<1>2. CASE /\ mutex_lista = Libre /\ Baja(u) /\ res = 0
  <2>1. lista' \in Seq(Usuarios)
    BY <1>2, BajaLista DEF Inv1, TypeOK
  <2>2. mutex_lista' = Libre
    BY <1>2 DEF DarDeBajaUsuario
  <2>3. mensajes_pendientes' \in [Usuarios -> Seq(Mensaje)]
    <3>1. /\ <<>> \in Seq(Mensaje)
          /\ mensajes_pendientes \in [Usuarios -> Seq(Mensaje)]
      BY EmptySeq DEF Inv1, TypeOK
    <3>2. mensajes_pendientes' =
            [v \in Usuarios |-> IF v \in Fuera(u) THEN <<>> ELSE mensajes_pendientes[v]]
      BY <1>2 DEF DarDeBajaUsuario, Baja
    <3> QED
      BY <3>1, <3>2
  <2>4. descartados' \subseteq Nat
    <3>1. \A v \in Usuarios : \A m \in EnCola(v) : m.n \in Nat
      <4> SUFFICES ASSUME NEW v \in Usuarios, NEW i \in 1..Len(mensajes_pendientes[v])
                   PROVE  mensajes_pendientes[v][i].n \in Nat
        BY <1>2, MensajesDeCola DEF EnCola, Entregadas, Libre
      <4> QED
        BY MensajesDeCola DEF Mensaje
    <3>2. Fuera(u) \subseteq Usuarios
      BY <1>2, BajaLista, FueraUsuarios DEF Inv1, TypeOK
    <3>3. descartados' =
            descartados \cup {m.n : m \in UNION {EnCola(v) : v \in Fuera(u)}}
      BY <1>2 DEF DarDeBajaUsuario, Baja
    <3>4. descartados \subseteq Nat
      BY DEF Inv1, TypeOK
    <3> QED
      BY <3>1, <3>2, <3>3, <3>4
  <2>5. TypeOK'
    <3>1. /\ conectado' = [v \in Usuarios |-> v \notin Fuera(u) /\ conectado[v]]
          /\ ip' = [v \in Usuarios |-> IF v \in Fuera(u) THEN SinIp ELSE ip[v]]
          /\ puerto' = [v \in Usuarios |-> IF v \in Fuera(u) THEN 0 ELSE puerto[v]]
          /\ ultimo_id' = [v \in Usuarios |-> IF v \in Fuera(u) THEN 0 ELSE ultimo_id[v]]
      BY <1>2 DEF DarDeBajaUsuario, Baja
    <3>3. conectado' \in [Usuarios -> BOOLEAN]
      BY <3>1
    <3>4. /\ ip' \in [Usuarios -> IPs \cup {SinIp}]
          /\ puerto' \in [Usuarios -> Puertos \cup {0}]
          /\ ultimo_id' \in [Usuarios -> 0..MaxId]
      BY <3>1, GestionSupuestos DEF Inv1, TypeOK
    <3>2. UNCHANGED <<alta, emitidos, entregados, acks>>
      BY <1>2 DEF DarDeBajaUsuario, Baja
    <3> QED
      BY <2>1, <2>2, <2>3, <2>4, <3>2, <3>3, <3>4 DEF Inv1, TypeOK, EnCurso
  <2>6. EnCursoCoherente'
    BY <2>2 DEF EnCursoCoherente
  <2> QED
    BY <2>5, <2>6 DEF Inv1
<1> QED
  BY <1>1, <1>2 DEF DarDeBajaUsuario

LEMMA Inv1Desconectar ==
  ASSUME Inv1, NEW u \in Usuarios, NEW i, NEW res, DesconectarUsuario(u, i, res)
  PROVE  Inv1'
<1>1. CASE UNCHANGED vars
  BY <1>1, SinCambios
<1>2. CASE res = 0 /\ ~UNCHANGED vars
  BY ZenonT(40), <1>2 DEF DesconectarUsuario, Inv1, TypeOK, EnCursoCoherente, Existe, historia
<1> QED
  BY <1>1, <1>2 DEF DesconectarUsuario

LEMMA Inv1Conectar ==
  ASSUME Inv1, NEW u \in Usuarios, NEW i \in IPs, NEW p \in Puertos,
         ConectarUsuario(u, i, p)
  PROVE  Inv1'
<1>1. /\ conectado' = [conectado EXCEPT ![u] = TRUE]
      /\ ip' = [ip EXCEPT ![u] = i]
      /\ puerto' = [puerto EXCEPT ![u] = p]
      /\ mutex_lista' = [op |-> "conectar", usuario |-> u, k |-> 0]
      /\ UNCHANGED <<lista, ultimo_id, mensajes_pendientes, alta, emitidos,
                     entregados, acks, descartados>>
      /\ Existe(u)
  BY DEF ConectarUsuario, historia
<1>2. mutex_lista' \in EnCurso
  BY <1>1 DEF EnCurso
<1>3. TypeOK'
  BY <1>1, <1>2 DEF Inv1, TypeOK
<1>4. EnCursoCoherente'
  <2>1. Existe(u)' /\ 0 <= Len(mensajes_pendientes[u])
    BY <1>1, MensajesDeCola DEF Existe
  <2> QED
    BY <1>1, <2>1 DEF EnCursoCoherente
<1> QED
  BY <1>3, <1>4 DEF Inv1

LEMMA Inv1EntregarPendiente ==
  ASSUME Inv1, NEW ack, EntregarPendiente(ack)
  PROVE  Inv1'
<1> DEFINE u == mutex_lista.usuario
           k == mutex_lista.k
           m == mensajes_pendientes[u][k + 1]
<1>1. /\ mutex_lista.op = "conectar"
      /\ k < Len(mensajes_pendientes[u])
      /\ EntregarMensaje(u, m, ack)
      /\ mutex_lista' = [mutex_lista EXCEPT !.k = k + 1]
      /\ UNCHANGED <<lista, ultimo_id, mensajes_pendientes, alta, emitidos, descartados>>
  BY DEF EntregarPendiente
<1>2. /\ u \in Usuarios /\ k \in Nat /\ mutex_lista # Libre
      /\ mutex_lista = [op |-> "conectar", usuario |-> u, k |-> k]
  BY <1>1, CasosEnCurso DEF Inv1, TypeOK
<1>3. mutex_lista' = [op |-> "conectar", usuario |-> u, k |-> k + 1]
  BY <1>1, <1>2
<1>4. Len(mensajes_pendientes[u]) \in Nat /\ m \in Mensaje
  BY <1>1, <1>2, MensajesDeCola
<1>5. TypeOK'
  <2>1. mutex_lista' \in EnCurso
    BY <1>2, <1>3 DEF EnCurso
  <2>2. TypeOK
    BY DEF Inv1
  <2>3. /\ conectado' \in [Usuarios -> BOOLEAN]
        /\ ip' \in [Usuarios -> IPs \cup {SinIp}]
        /\ puerto' \in [Usuarios -> Puertos \cup {0}]
        /\ entregados' \in [Usuarios -> SUBSET Mensaje]
        /\ acks' \subseteq [mensaje : Mensaje, alta : Nat]
    BY <1>1, <1>2, <1>4, <2>2, EntregarTipo
  <2> QED
    BY <1>1, <2>1, <2>2, <2>3 DEF TypeOK
<1>6. EnCursoCoherente'
  <2>1. Existe(u)' /\ k + 1 <= Len(mensajes_pendientes'[u])
    BY <1>1, <1>2, <1>4 DEF Inv1, EnCursoCoherente, Existe
  <2> QED
    BY <1>3, <2>1 DEF EnCursoCoherente
<1> QED
  BY <1>5, <1>6 DEF Inv1

LEMMA Inv1ConectarFin ==
  ASSUME Inv1, NEW falla, ConectarFin(falla)
  PROVE  Inv1'
<1> DEFINE u == mutex_lista.usuario
           k == mutex_lista.k
           q == mensajes_pendientes[u]
<1>1. /\ mutex_lista.op = "conectar"
      /\ mensajes_pendientes' =
           [mensajes_pendientes EXCEPT ![u] = SubSeq(q, k + 1, Len(q))]
      /\ mutex_lista' = Libre
      /\ UNCHANGED <<lista, conectado, ip, puerto, ultimo_id, alta, emitidos,
                     entregados, acks, descartados>>
  BY DEF ConectarFin, red, historia
<1>2. u \in Usuarios /\ k \in Nat
  BY <1>1, CasosEnCurso DEF Inv1, TypeOK
<1>3. SubSeq(q, k + 1, Len(q)) \in Seq(Mensaje)
  <2>1. /\ k + 1 \in Int /\ Len(q) \in Int
        /\ \A i \in (k + 1)..Len(q) : q[i] \in Mensaje
    BY <1>2, MensajesDeCola
  <2> QED
    BY <2>1, SubSeqProperties
<1>4. mensajes_pendientes' \in [Usuarios -> Seq(Mensaje)]
  BY <1>1, <1>3 DEF Inv1, TypeOK
<1>5. TypeOK'
  BY <1>1, <1>4 DEF Inv1, TypeOK, EnCurso
<1>6. EnCursoCoherente'
  BY <1>1 DEF EnCursoCoherente
<1> QED
  BY <1>5, <1>6 DEF Inv1

LEMMA Inv1EnviarRechazado ==
  ASSUME Inv1, NEW r \in Usuarios, NEW d \in Usuarios, NEW res,
         EnviarRechazado(r, d, res)
  PROVE  Inv1'
<1>1. /\ mutex_lista = Libre /\ mutex_lista' = Libre
      /\ ultimo_id' = ultimo_id \/ ultimo_id' = [ultimo_id EXCEPT ![r] = SiguienteId(@)]
      /\ UNCHANGED <<lista, conectado, ip, puerto, mensajes_pendientes, alta, emitidos,
                     entregados, acks, descartados>>
  BY DEF EnviarRechazado, red, historia
<1>2. ultimo_id' \in [Usuarios -> 0..MaxId]
  <2>1. ultimo_id \in [Usuarios -> 0..MaxId]
    BY DEF Inv1, TypeOK
  <2>2. SiguienteId(ultimo_id[r]) \in 0..MaxId
    BY <2>1, SiguienteIdTipo, GestionSupuestos
  <2> QED
    BY <1>1, <2>1, <2>2
<1>3. TypeOK'
  BY <1>1, <1>2 DEF Inv1, TypeOK
<1>4. EnCursoCoherente'
  BY <1>1 DEF EnCursoCoherente
<1> QED
  BY <1>3, <1>4 DEF Inv1

LEMMA Inv1EnviarMensaje ==
  ASSUME Inv1, NEW r \in Usuarios, NEW d \in Usuarios, NEW f \in Adjuntos,
         EnviarMensaje(r, d, f)
  PROVE  Inv1'
<1> DEFINE m == [n |-> emitidos + 1, id |-> SiguienteId(ultimo_id[r]),
                 remitente |-> r, alta |-> alta[r], fichero |-> f]
           q == mensajes_pendientes[d]
<1>1. /\ Existe(d)
      /\ ultimo_id' = [ultimo_id EXCEPT ![r] = SiguienteId(ultimo_id[r])]
      /\ mensajes_pendientes' = [mensajes_pendientes EXCEPT ![d] = Append(q, m)]
      /\ emitidos' = emitidos + 1
      /\ mutex_lista' = IF conectado[d] THEN [op |-> "enviar", usuario |-> d] ELSE Libre
      /\ UNCHANGED <<lista, conectado, ip, puerto, alta, entregados, acks, descartados>>
  BY DEF EnviarMensaje, red
<1>2. SiguienteId(ultimo_id[r]) \in 1..MaxId
  BY SiguienteIdTipo DEF Inv1, TypeOK
<1>3. m \in Mensaje
  BY <1>2, GestionSupuestos DEF Inv1, TypeOK, Mensaje
<1>4. q \in Seq(Mensaje)
  BY DEF Inv1, TypeOK
<1> HIDE DEF m
<1>5. Append(q, m) \in Seq(Mensaje) /\ Len(Append(q, m)) = Len(q) + 1 /\ Len(q) \in Nat
  BY <1>3, <1>4, LenProperties, AppendProperties
<1>6. mensajes_pendientes' \in [Usuarios -> Seq(Mensaje)]
  BY <1>1, <1>5 DEF Inv1, TypeOK
<1>7. ultimo_id' \in [Usuarios -> 0..MaxId]
  BY <1>1, <1>2, GestionSupuestos DEF Inv1, TypeOK
<1>8. mutex_lista' \in EnCurso
  BY <1>1 DEF EnCurso
<1>9. TypeOK'
  BY <1>1, <1>6, <1>7, <1>8 DEF Inv1, TypeOK
<1>10. EnCursoCoherente'
  <2>1. mensajes_pendientes'[d] # <<>>
    <3>1. mensajes_pendientes'[d] = Append(q, m)
      BY <1>1 DEF Inv1, TypeOK
    <3>2. Len(<<>>) = 0
      OBVIOUS
    <3> QED
      BY <1>5, <3>1, <3>2
  <2>2. Existe(d)'
    BY <1>1 DEF Existe
  <2> QED
    BY <1>1, <2>1, <2>2 DEF EnCursoCoherente
<1> QED
  BY <1>9, <1>10 DEF Inv1

LEMMA Inv1EnviarEntrega ==
  ASSUME Inv1, NEW ack, EnviarEntrega(ack)
  PROVE  Inv1'
<1> DEFINE d == mutex_lista.usuario
           q == mensajes_pendientes[d]
           m == q[Len(q)]
<1>1. /\ mutex_lista.op = "enviar"
      /\ EntregarMensaje(d, m, ack)
      /\ mensajes_pendientes' =
           [mensajes_pendientes EXCEPT ![d] = SubSeq(q, 1, Len(q) - 1)]
      /\ mutex_lista' = Libre
      /\ UNCHANGED <<lista, ultimo_id, alta, emitidos, descartados>>
  BY DEF EnviarEntrega
<1>2. d \in Usuarios /\ q # <<>>
  BY <1>1, CasosEnCurso DEF Inv1, TypeOK, EnCursoCoherente
<1>3. Len(q) \in Nat \ {0} /\ m \in Mensaje
  BY <1>2, MensajesDeCola
<1>4. SubSeq(q, 1, Len(q) - 1) \in Seq(Mensaje)
  <2>1. Len(q) - 1 \in Int /\ \A i \in 1..(Len(q) - 1) : q[i] \in Mensaje
    BY <1>2, <1>3, MensajesDeCola
  <2> QED
    BY <2>1, SubSeqProperties
<1>5. mensajes_pendientes' \in [Usuarios -> Seq(Mensaje)]
  BY <1>1, <1>4 DEF Inv1, TypeOK
<1>6. TypeOK'
  <2>1. TypeOK
    BY DEF Inv1
  <2>2. /\ conectado' \in [Usuarios -> BOOLEAN]
        /\ ip' \in [Usuarios -> IPs \cup {SinIp}]
        /\ puerto' \in [Usuarios -> Puertos \cup {0}]
        /\ entregados' \in [Usuarios -> SUBSET Mensaje]
        /\ acks' \subseteq [mensaje : Mensaje, alta : Nat]
    BY <1>1, <1>2, <1>3, <2>1, EntregarTipo
  <2> QED
    BY <1>1, <1>5, <2>1, <2>2 DEF TypeOK, EnCurso
<1>7. EnCursoCoherente'
  BY <1>1 DEF EnCursoCoherente
<1> QED
  BY <1>6, <1>7 DEF Inv1

LEMMA Inv1EnviarFalla ==
  ASSUME Inv1, EnviarFalla
  PROVE  Inv1'
<1>1. /\ mutex_lista' = Libre
      /\ UNCHANGED <<lista, conectado, ip, puerto, ultimo_id, mensajes_pendientes,
                     alta, emitidos, entregados, acks, descartados>>
  BY DEF EnviarFalla, red, historia
<1>2. TypeOK'
  BY <1>1 DEF Inv1, TypeOK, EnCurso
<1> QED
  BY <1>1, <1>2 DEF Inv1, EnCursoCoherente

LEMMA Inv1Paso == Inv1 /\ [Next]_vars => Inv1'
<1> SUFFICES ASSUME Inv1, [Next]_vars PROVE Inv1'
  OBVIOUS
<1>1. CASE UNCHANGED vars
  BY <1>1, SinCambios
<1>2. CASE Peticion
  <2>1. ASSUME NEW u \in Usuarios, NEW res \in 0..3, Users(u, res) \/ ConectarRechazado(u, res)
        PROVE  Inv1'
    BY <2>1, SinCambios DEF Users, ConectarRechazado
  <2> QED
    BY <1>2, <2>1, Inv1Registrar, Inv1DarDeBaja, Inv1Desconectar, Inv1Conectar,
       Inv1EnviarRechazado, Inv1EnviarMensaje
    DEF Peticion
<1>3. CASE Continuar
  BY <1>3, Inv1EntregarPendiente, Inv1ConectarFin, Inv1EnviarEntrega, Inv1EnviarFalla
  DEF Continuar
<1> QED
  BY <1>1, <1>2, <1>3 DEF Next

LEMMA Inv1Siempre == Spec => []Inv1
  BY Inv1Inicial, Inv1Paso, PTL DEF Spec

\* Every variable of gestion.c keeps its type in every reachable state: whatever
\* is delivered is a message, and identifiers stay between 1 and UINT_MAX when
\* the counter wraps.
THEOREM TipoCorrecto == Spec => []TypeOK
<1>1. Inv1 => TypeOK
  BY DEF Inv1
<1> QED
  BY <1>1, Inv1Siempre, PTL
-----------------------------------------------------------------------------
LEMMA RedEntregar ==
  ASSUME TypeOK, RedCoherente, NEW d \in Usuarios, NEW m \in Mensaje, NEW ack,
         EntregarMensaje(d, m, ack), UNCHANGED lista
  PROVE  RedCoherente'
<1>1. m.remitente \in Usuarios
  BY DEF Mensaje
<1>2. CASE UNCHANGED red
  BY <1>2 DEF RedCoherente, red, Existe
<1>3. CASE /\ conectado' = [conectado EXCEPT ![m.remitente] = FALSE]
           /\ puerto' = [puerto EXCEPT ![m.remitente] = 0]
           /\ ip' = [ip EXCEPT ![m.remitente] = SinIp]
  BY <1>1, <1>3 DEF RedCoherente, TypeOK, Existe
<1> QED
  BY <1>2, <1>3 DEF EntregarMensaje

LEMMA RedPaso == Inv1 /\ RedCoherente /\ [Next]_vars => RedCoherente'
<1> SUFFICES ASSUME Inv1, RedCoherente, [Next]_vars
             PROVE  RedCoherente'
  OBVIOUS
<1> USE DEF Inv1
<1>1. CASE UNCHANGED <<lista, red>>
  BY <1>1 DEF RedCoherente, red, Existe
<1>2. ASSUME NEW u \in Usuarios, NEW res, RegistrarUsuario(u, res)
      PROVE  RedCoherente'
  <2>1. CASE UNCHANGED vars
    BY <1>1, <2>1 DEF vars
  <2>2. CASE Alta(u) /\ ~UNCHANGED vars
    <3>1. /\ conectado' = [conectado EXCEPT ![u] = FALSE]
          /\ ip' = [ip EXCEPT ![u] = SinIp]
          /\ puerto' = [puerto EXCEPT ![u] = 0]
      BY <1>2, <2>2 DEF RegistrarUsuario
    <3>2. \A v \in Usuarios : Existe(v) => Existe(v)'
      BY <2>2, AltaLista DEF TypeOK
    <3> QED
      BY <3>1, <3>2 DEF RedCoherente, TypeOK
  <2> QED
    BY <1>2, <2>1, <2>2 DEF RegistrarUsuario
<1>3. ASSUME NEW u \in Usuarios, NEW res, DarDeBajaUsuario(u, res)
      PROVE  RedCoherente'
  <2>1. CASE UNCHANGED vars
    BY <1>1, <2>1 DEF vars
  <2>2. CASE Baja(u) /\ ~UNCHANGED vars
    <3>1. /\ conectado' = [v \in Usuarios |-> v \notin Fuera(u) /\ conectado[v]]
          /\ ip' = [v \in Usuarios |-> IF v \in Fuera(u) THEN SinIp ELSE ip[v]]
          /\ puerto' = [v \in Usuarios |-> IF v \in Fuera(u) THEN 0 ELSE puerto[v]]
      BY <1>3, <2>2 DEF DarDeBajaUsuario
    <3>2. \A v \in Usuarios : Existe(v) /\ v \notin Fuera(u) => Existe(v)'
      BY <2>2, BajaLista DEF TypeOK
    <3> SUFFICES ASSUME NEW v \in Usuarios
                 PROVE  /\ conectado'[v] => Existe(v)' /\ ip'[v] \in IPs /\ puerto'[v] \in Puertos
                        /\ ~conectado'[v] => ip'[v] = SinIp /\ puerto'[v] = 0
      BY DEF RedCoherente
    <3>3. CASE v \in Fuera(u)
      BY <3>1, <3>3
    <3>4. CASE v \notin Fuera(u)
      <4>1. /\ conectado'[v] <=> conectado[v]
            /\ ip'[v] = ip[v]
            /\ puerto'[v] = puerto[v]
        BY <3>1, <3>4
      <4> QED
        BY <3>2, <3>4, <4>1 DEF RedCoherente
    <3> QED
      BY <3>3, <3>4
  <2> QED
    BY <1>3, <2>1, <2>2 DEF DarDeBajaUsuario
<1>4. ASSUME NEW u \in Usuarios, NEW i \in IPs, NEW res, DesconectarUsuario(u, i, res)
      PROVE  RedCoherente'
  <2>1. CASE UNCHANGED vars
    BY <1>1, <2>1 DEF vars
  <2>2. CASE ~UNCHANGED vars
    <3>1. /\ conectado' = [conectado EXCEPT ![u] = FALSE]
          /\ puerto' = [puerto EXCEPT ![u] = 0]
          /\ ip' = [ip EXCEPT ![u] = SinIp]
          /\ UNCHANGED lista
      BY <1>4, <2>2 DEF DesconectarUsuario
    <3> QED
      BY <3>1 DEF RedCoherente, TypeOK, Existe
  <2> QED
    BY <2>1, <2>2
<1>5. ASSUME NEW u \in Usuarios, NEW i \in IPs, NEW p \in Puertos, ConectarUsuario(u, i, p)
      PROVE  RedCoherente'
  BY <1>5 DEF ConectarUsuario, RedCoherente, TypeOK, Existe
<1>6. ASSUME NEW ack, EntregarPendiente(ack)
      PROVE  RedCoherente'
  <2>1. mutex_lista.usuario \in Usuarios /\ mutex_lista.k \in Nat
    BY <1>6, CasosEnCurso DEF EntregarPendiente, TypeOK
  <2>2. mensajes_pendientes[mutex_lista.usuario][mutex_lista.k + 1] \in Mensaje
    BY <1>6, <2>1, MensajesDeCola DEF EntregarPendiente
  <2> QED
    BY <1>6, <2>1, <2>2, RedEntregar DEF EntregarPendiente
<1>7. ASSUME NEW ack, EnviarEntrega(ack)
      PROVE  RedCoherente'
  <2>1. /\ mutex_lista.usuario \in Usuarios
        /\ mensajes_pendientes[mutex_lista.usuario] # <<>>
    BY <1>7, CasosEnCurso DEF EnviarEntrega, TypeOK, EnCursoCoherente
  <2>2. mensajes_pendientes[mutex_lista.usuario][Len(mensajes_pendientes[mutex_lista.usuario])]
          \in Mensaje
    BY <2>1, MensajesDeCola
  <2> QED
    BY <1>7, <2>1, <2>2, RedEntregar DEF EnviarEntrega
<1>8. CASE Peticion
  <2>1. ASSUME NEW u \in Usuarios, NEW res \in 0..3, Users(u, res) \/ ConectarRechazado(u, res)
        PROVE  RedCoherente'
    BY <1>1, <2>1 DEF Users, ConectarRechazado, vars
  <2>2. ASSUME NEW r \in Usuarios, NEW d \in Usuarios, NEW res \in 0..3, EnviarRechazado(r, d, res)
        PROVE  RedCoherente'
    BY <1>1, <2>2 DEF EnviarRechazado
  <2>3. ASSUME NEW r \in Usuarios, NEW d \in Usuarios, NEW f \in Adjuntos, EnviarMensaje(r, d, f)
        PROVE  RedCoherente'
    BY <1>1, <2>3 DEF EnviarMensaje
  <2> QED
    BY <1>8, <1>2, <1>3, <1>4, <1>5, <2>1, <2>2, <2>3 DEF Peticion
<1>9. CASE Continuar
  <2>1. ASSUME NEW falla, ConectarFin(falla)
        PROVE  RedCoherente'
    BY <1>1, <2>1 DEF ConectarFin
  <2>2. CASE EnviarFalla
    BY <1>1, <2>2 DEF EnviarFalla
  <2> QED
    BY <1>6, <1>7, <1>9, <2>1, <2>2 DEF Continuar
<1> QED
  BY <1>1, <1>8, <1>9 DEF Next, vars

LEMMA RedInicial == Init => RedCoherente
BY DEF Init, RedCoherente

\* The connection data of a user are there exactly while it is connected, and
\* only registered users are: no delivery is ever tried at an address that a
\* DISCONNECT or a failed confirmation should have erased.
THEOREM RedSiempreCoherente == Spec => []RedCoherente
BY RedInicial, RedPaso, Inv1Siempre, PTL DEF Spec

\* Only an operation that starts, goes on or ends can break it.
LEMMA SoloPaso ==
  Inv1 /\ RedCoherente /\ SoloSuConfirmacion /\ [Next]_vars => SoloSuConfirmacion'
<1> SUFFICES ASSUME Inv1, RedCoherente, SoloSuConfirmacion, [Next]_vars
             PROVE  SoloSuConfirmacion'
  OBVIOUS
<1> USE DEF Inv1
<1>1. CASE UNCHANGED vars
  BY <1>1 DEF SoloSuConfirmacion, Existe, vars, red
<1>2. CASE mutex_lista' = Libre
  BY <1>2 DEF SoloSuConfirmacion, Libre
<1>3. CASE Peticion
  <2>1. ASSUME NEW u \in Usuarios, NEW i \in IPs, NEW p \in Puertos, ConectarUsuario(u, i, p)
        PROVE  SoloSuConfirmacion'
    BY <2>1 DEF ConectarUsuario, SoloSuConfirmacion, TypeOK
  <2>2. ASSUME NEW r \in Usuarios, NEW d \in Usuarios, NEW f \in Adjuntos, EnviarMensaje(r, d, f)
        PROVE  SoloSuConfirmacion'
    <3>1. mutex_lista' = Libre \/ mutex_lista' = [op |-> "enviar", usuario |-> d]
      BY <2>2 DEF EnviarMensaje
    <3> QED
      BY <3>1 DEF SoloSuConfirmacion, Libre
  <2>3. ASSUME NEW u \in Usuarios, NEW res, RegistrarUsuario(u, res) \/ DarDeBajaUsuario(u, res)
        PROVE  mutex_lista' = Libre
    BY <2>3 DEF RegistrarUsuario, DarDeBajaUsuario, vars
  <2>4. ASSUME NEW u \in Usuarios, NEW res, Users(u, res) \/ ConectarRechazado(u, res)
        PROVE  mutex_lista' = Libre
    BY <2>4 DEF Users, ConectarRechazado, vars
  <2>5. ASSUME NEW u \in Usuarios, NEW i \in IPs, NEW res, DesconectarUsuario(u, i, res)
        PROVE  mutex_lista' = Libre
    BY <2>5 DEF DesconectarUsuario, vars
  <2>6. ASSUME NEW u \in Usuarios, NEW d \in Usuarios, NEW res, EnviarRechazado(u, d, res)
        PROVE  mutex_lista' = Libre
    BY <2>6 DEF EnviarRechazado
  <2> QED
    BY <1>2, <1>3, <2>1, <2>2, <2>3, <2>4, <2>5, <2>6 DEF Peticion
<1>4. ASSUME NEW ack, EntregarPendiente(ack)
      PROVE  SoloSuConfirmacion'
  <2> DEFINE u == mutex_lista.usuario
             k == mutex_lista.k
             m == mensajes_pendientes[u][k + 1]
  <2>1. /\ u \in Usuarios /\ k \in Nat /\ mutex_lista # Libre
        /\ mutex_lista = [op |-> "conectar", usuario |-> u, k |-> k]
    BY <1>4, CasosEnCurso DEF EntregarPendiente, TypeOK
  <2>2. /\ EntregarMensaje(u, m, ack)
        /\ mutex_lista' = [op |-> "conectar", usuario |-> u, k |-> k + 1]
        /\ UNCHANGED <<lista, mensajes_pendientes>>
    BY <1>4, <2>1 DEF EntregarPendiente
  <2>3. \E i \in 1..Len(lista') : lista'[i] = u
    BY <2>1, <2>2 DEF EnCursoCoherente, Existe
  <2>4. puerto[u] # 0 /\ conectado[u]
    BY <2>1, <2>2 DEF EntregarMensaje, RedCoherente
  <2>5. ~conectado'[u] => m.remitente = u
    BY <2>1, <2>2, <2>4 DEF EntregarMensaje, red, TypeOK
  <2>6. /\ mutex_lista'.usuario = u /\ mutex_lista'.k = k + 1 /\ k + 1 > 0
        /\ mensajes_pendientes'[u] = mensajes_pendientes[u]
    BY <2>1, <2>2
  <2> QED
    BY <2>3, <2>5, <2>6 DEF SoloSuConfirmacion, Existe
<1>5. CASE Continuar
  <2>1. ASSUME NEW ack, EnviarEntrega(ack)
        PROVE  mutex_lista' = Libre
    BY <2>1 DEF EnviarEntrega
  <2>2. ASSUME NEW falla, ConectarFin(falla)
        PROVE  mutex_lista' = Libre
    BY <2>2 DEF ConectarFin
  <2>3. EnviarFalla => mutex_lista' = Libre
    BY DEF EnviarFalla
  <2> QED
    BY <1>2, <1>4, <1>5, <2>1, <2>2, <2>3 DEF Continuar
<1> QED
  BY <1>1, <1>3, <1>5 DEF Next

\* A CONNECT that answers 0 and leaves its user disconnected does it because of the
\* user's own message, whatever the others do and however long the queue.
THEOREM SoloLaPropiaDesconecta == Spec => []SoloSuConfirmacion
<1>1. Init => SoloSuConfirmacion
  BY DEF Init, SoloSuConfirmacion, Libre
<1> QED
  BY <1>1, SoloPaso, Inv1Siempre, RedSiempreCoherente, PTL DEF Spec
-----------------------------------------------------------------------------
\* What each step does to the messages that wait for a user, EnCola, seen as a
\* set.  The steps that take a message out need the queue in order, for then no
\* message is in it twice.
NumerosUsados ==
  /\ \A u \in Usuarios : \A m \in EnCola(u) \cup entregados[u] : m.n <= emitidos
  /\ descartados \subseteq 1..emitidos

Inv2 == Inv1 /\ ColaOrdenada /\ NumerosUsados

LEMMA ColaIgual ==
  ASSUME mensajes_pendientes' = mensajes_pendientes, NEW u,
         Entregadas(u)' = Entregadas(u)
  PROVE  EnCola(u)' = EnCola(u)
BY DEF EnCola

LEMMA ColaEntera ==
  ASSUME NEW u, Entregadas(u)' = 0
  PROVE  EnCola(u)' =
           {mensajes_pendientes'[u][i] : i \in 1..Len(mensajes_pendientes'[u])}
<1>1. Entregadas(u)' + 1 = 1
  OBVIOUS
<1> QED
  BY <1>1 DEF EnCola

LEMMA ColaEnviarMensaje ==
  ASSUME Inv1, NEW r \in Usuarios, NEW d \in Usuarios, NEW f \in Adjuntos,
         EnviarMensaje(r, d, f)
  PROVE  \E m \in Mensaje :
           /\ m.n = emitidos + 1
           /\ EnCola(d)' = EnCola(d) \cup {m}
           /\ \A v \in Usuarios \ {d} : EnCola(v)' = EnCola(v)
           /\ mensajes_pendientes' =
                [mensajes_pendientes EXCEPT ![d] = Append(mensajes_pendientes[d], m)]
<1> DEFINE m == [n |-> emitidos + 1, id |-> SiguienteId(ultimo_id[r]),
                 remitente |-> r, alta |-> alta[r], fichero |-> f]
           q == mensajes_pendientes[d]
<1>1. /\ mutex_lista = Libre
      /\ mensajes_pendientes' = [mensajes_pendientes EXCEPT ![d] = Append(q, m)]
      /\ mutex_lista' = IF conectado[d] THEN [op |-> "enviar", usuario |-> d] ELSE Libre
  BY DEF EnviarMensaje
<1>2. m \in Mensaje
  <2>1. SiguienteId(ultimo_id[r]) \in 1..MaxId
    BY SiguienteIdTipo DEF Inv1, TypeOK
  <2> QED
    BY <2>1, GestionSupuestos DEF Inv1, TypeOK, Mensaje
<1>3. m.n = emitidos + 1
  OBVIOUS
<1> HIDE DEF m
<1>4. \A v \in Usuarios : Entregadas(v) = 0 /\ Entregadas(v)' = 0
  BY <1>1 DEF Entregadas, Libre
<1>5. /\ q \in Seq(Mensaje) /\ Len(q) \in Nat
      /\ mensajes_pendientes'[d] = Append(q, m)
      /\ \A v \in Usuarios \ {d} : mensajes_pendientes'[v] = mensajes_pendientes[v]
  BY <1>1, LenProperties DEF Inv1, TypeOK
<1>6. /\ Len(Append(q, m)) = Len(q) + 1
      /\ \A i \in 1..Len(q) : Append(q, m)[i] = q[i]
      /\ Append(q, m)[Len(q) + 1] = m
  BY <1>2, <1>5, AppendProperties
<1>7. EnCola(d)' = EnCola(d) \cup {m}
  <2>1. EnCola(d) = {q[i] : i \in 1..Len(q)}
    BY <1>4 DEF EnCola
  <2>2. EnCola(d)' = {Append(q, m)[i] : i \in 1..(Len(q) + 1)}
    BY <1>4, <1>5, <1>6 DEF EnCola
  <2>3. ASSUME NEW i \in 1..(Len(q) + 1)
        PROVE  Append(q, m)[i] \in {q[j] : j \in 1..Len(q)} \cup {m}
    BY <1>5, <1>6
  <2>4. ASSUME NEW i \in 1..Len(q)
        PROVE  q[i] \in {Append(q, m)[j] : j \in 1..(Len(q) + 1)}
    BY <1>5, <1>6
  <2>5. m \in {Append(q, m)[j] : j \in 1..(Len(q) + 1)}
    BY <1>5, <1>6
  <2> QED
    BY <2>1, <2>2, <2>3, <2>4, <2>5
<1>8. \A v \in Usuarios \ {d} : EnCola(v)' = EnCola(v)
  BY <1>4, <1>5 DEF EnCola
<1> QED
  BY <1>1, <1>2, <1>3, <1>7, <1>8

LEMMA ColaEntregarPendiente ==
  ASSUME Inv1, ColaOrdenada, NEW ack, EntregarPendiente(ack),
         NEW u \in Usuarios, mutex_lista.usuario = u
  PROVE  LET m == mensajes_pendientes[u][mutex_lista.k + 1] IN
         /\ m \in EnCola(u)
         /\ EnCola(u)' = EnCola(u) \ {m}
         /\ \A v \in Usuarios \ {u} : EnCola(v)' = EnCola(v)
<1> DEFINE k == mutex_lista.k
           q == mensajes_pendientes[u]
           m == q[k + 1]
<1>1. /\ mutex_lista.op = "conectar"
      /\ k < Len(q)
      /\ mutex_lista' = [mutex_lista EXCEPT !.k = k + 1]
      /\ UNCHANGED mensajes_pendientes
  BY DEF EntregarPendiente
<1>2. /\ k \in Nat
      /\ mutex_lista = [op |-> "conectar", usuario |-> u, k |-> k]
  BY <1>1, CasosEnCurso DEF Inv1, TypeOK
<1>3. mutex_lista' = [op |-> "conectar", usuario |-> u, k |-> k + 1]
  BY <1>1, <1>2
<1>4. /\ Len(q) \in Nat
      /\ \A i \in 1..Len(q) : q[i].n \in Nat
  BY <1>2, MensajesDeCola DEF Mensaje
<1>5. EnCola(u) = {q[i] : i \in (k + 1)..Len(q)}
  BY <1>2 DEF EnCola, Entregadas
<1>6. EnCola(u)' = {q[i] : i \in (k + 2)..Len(q)}
  <2>1. Entregadas(u)' = k + 1
    BY <1>3 DEF Entregadas
  <2>2. (k + 1) + 1 = k + 2
    BY <1>2
  <2> QED
    BY <1>1, <2>1, <2>2 DEF EnCola
<1>7. \A i \in (k + 2)..Len(q) : q[i] # m
  BY SMTT(20), <1>1, <1>2, <1>4 DEF ColaOrdenada
<1>8. m \in EnCola(u)
  BY <1>1, <1>2, <1>4, <1>5
<1>9. EnCola(u)' = EnCola(u) \ {m}
  <2>1. ASSUME NEW i \in (k + 1)..Len(q), q[i] # m
        PROVE  i \in (k + 2)..Len(q)
    BY <1>2, <1>4, <2>1
  <2>2. \A i \in (k + 2)..Len(q) : i \in (k + 1)..Len(q)
    BY <1>2, <1>4
  <2> QED
    BY <1>5, <1>6, <1>7, <2>1, <2>2
<1>10. \A v \in Usuarios \ {u} : EnCola(v)' = EnCola(v)
  <2> TAKE v \in Usuarios \ {u}
  <2>1. Entregadas(v) = 0 /\ Entregadas(v)' = 0
    BY <1>2, <1>3 DEF Entregadas
  <2> QED
    BY <1>1, <2>1, ColaIgual
<1> QED
  BY <1>8, <1>9, <1>10

LEMMA ColaEnviarEntrega ==
  ASSUME Inv1, ColaOrdenada, NEW ack, EnviarEntrega(ack),
         NEW d \in Usuarios, mutex_lista.usuario = d
  PROVE  /\ LET m == mensajes_pendientes[d][Len(mensajes_pendientes[d])] IN
            m \in EnCola(d) /\ EnCola(d)' = EnCola(d) \ {m}
         /\ \A v \in Usuarios \ {d} :
              EnCola(v)' = EnCola(v) /\ mensajes_pendientes'[v] = mensajes_pendientes[v]
         /\ Len(mensajes_pendientes'[d]) = Len(mensajes_pendientes[d]) - 1
         /\ \A i \in 1..Len(mensajes_pendientes'[d]) :
              mensajes_pendientes'[d][i] = mensajes_pendientes[d][i]
         /\ mensajes_pendientes[d] # <<>>
<1> DEFINE q == mensajes_pendientes[d]
           m == q[Len(q)]
           resto == SubSeq(q, 1, Len(q) - 1)
<1>1. /\ mutex_lista.op = "enviar"
      /\ mensajes_pendientes' = [mensajes_pendientes EXCEPT ![d] = resto]
      /\ mutex_lista' = Libre
  BY DEF EnviarEntrega
<1>2. q # <<>>
  BY <1>1, CasosEnCurso DEF Inv1, TypeOK, EnCursoCoherente
<1>3. /\ Len(q) \in Nat \ {0}
      /\ \A i \in 1..Len(q) : q[i].n \in Nat /\ q[i] \in Mensaje
  BY <1>2, MensajesDeCola DEF Mensaje
<1>4. /\ Len(resto) = Len(q) - 1
      /\ \A i \in 1..(Len(q) - 1) : resto[i] = q[i]
  <2>1. Len(q) - 1 \in Int /\ \A i \in 1..(Len(q) - 1) : q[i] \in Mensaje
    BY <1>3
  <2>2. /\ Len(resto) = IF 1 <= Len(q) - 1 THEN (Len(q) - 1) - 1 + 1 ELSE 0
        /\ \A i \in 1..((Len(q) - 1) - 1 + 1) : resto[i] = q[1 + i - 1]
    BY <2>1, SubSeqProperties
  <2>3. \A i \in 1..(Len(q) - 1) : 1 + i - 1 = i
    BY <1>3
  <2>4. (Len(q) - 1) - 1 + 1 = Len(q) - 1
    BY <1>3
  <2> QED
    BY <1>3, <2>2, <2>3, <2>4
<1>5. \A v \in Usuarios : Entregadas(v) = 0 /\ Entregadas(v)' = 0
  BY <1>1 DEF Entregadas, Libre
<1>6. /\ mensajes_pendientes'[d] = resto
      /\ \A v \in Usuarios \ {d} : mensajes_pendientes'[v] = mensajes_pendientes[v]
  BY <1>1, <1>2 DEF Inv1, TypeOK
<1>7. EnCola(d) = {q[i] : i \in 1..Len(q)}
  BY <1>2, <1>5 DEF EnCola
<1>8. EnCola(d)' = {q[i] : i \in 1..(Len(q) - 1)}
  <2> HIDE DEF resto
  <2>1. EnCola(d)' = {resto[i] : i \in 1..Len(resto)}
    BY <1>2, <1>5, <1>6, ColaEntera
  <2> QED
    BY <1>4, <2>1
<1>9. m \in EnCola(d)
  BY <1>3, <1>7
<1>10. EnCola(d)' = EnCola(d) \ {m}
  <2>1. \A i \in 1..(Len(q) - 1) : q[i] # m
    BY SMTT(20), <1>2, <1>3 DEF ColaOrdenada
  <2>2. \A i \in 1..Len(q) : i # Len(q) => i \in 1..(Len(q) - 1)
    BY <1>3
  <2>3. \A i \in 1..(Len(q) - 1) : i \in 1..Len(q)
    BY <1>3
  <2> QED
    BY <1>7, <1>8, <2>1, <2>2, <2>3
<1>11. \A v \in Usuarios \ {d} : EnCola(v)' = EnCola(v)
  BY <1>5, <1>6 DEF EnCola
<1> HIDE DEF resto
<1> QED
  BY <1>2, <1>4, <1>6, <1>9, <1>10, <1>11

LEMMA ColaConectarFin ==
  ASSUME Inv1, NEW falla, ConectarFin(falla),
         NEW u \in Usuarios, mutex_lista.usuario = u
  PROVE  /\ \A v \in Usuarios : EnCola(v)' = EnCola(v)
         /\ \A v \in Usuarios \ {u} : mensajes_pendientes'[v] = mensajes_pendientes[v]
         /\ mutex_lista.k \in Nat
         /\ Len(mensajes_pendientes'[u]) = Len(mensajes_pendientes[u]) - mutex_lista.k
         /\ \A i \in 1..Len(mensajes_pendientes'[u]) :
              mensajes_pendientes'[u][i] = mensajes_pendientes[u][mutex_lista.k + i]
<1> DEFINE k == mutex_lista.k
           q == mensajes_pendientes[u]
           resto == SubSeq(q, k + 1, Len(q))
<1>1. /\ mutex_lista.op = "conectar"
      /\ mensajes_pendientes' = [mensajes_pendientes EXCEPT ![u] = resto]
      /\ mutex_lista' = Libre
  BY DEF ConectarFin
<1>2. k \in Nat /\ mutex_lista # Libre
  BY <1>1, CasosEnCurso DEF Inv1, TypeOK
<1>3. /\ Len(q) \in Nat /\ k <= Len(q)
      /\ \A i \in 1..Len(q) : q[i] \in Mensaje
  BY <1>1, <1>2, MensajesDeCola DEF Inv1, EnCursoCoherente
<1>4. /\ Len(resto) = Len(q) - k
      /\ \A i \in 1..(Len(q) - k) : resto[i] = q[k + i]
  <2>1. /\ k + 1 \in Int /\ Len(q) \in Int
        /\ \A i \in (k + 1)..Len(q) : q[i] \in Mensaje
    BY <1>2, <1>3
  <2>2. /\ Len(resto) = IF k + 1 <= Len(q) THEN Len(q) - (k + 1) + 1 ELSE 0
        /\ \A i \in 1..(Len(q) - (k + 1) + 1) : resto[i] = q[(k + 1) + i - 1]
    BY <2>1, SubSeqProperties
  <2>3. Len(resto) = Len(q) - k
    BY <1>2, <1>3, <2>2
  <2>4. ASSUME NEW i \in 1..(Len(q) - k)
        PROVE  resto[i] = q[k + i]
    <3>1. i \in 1..(Len(q) - (k + 1) + 1) /\ (k + 1) + i - 1 = k + i
      BY <1>2, <1>3
    <3> HIDE DEF resto
    <3> QED
      BY <2>2, <3>1
  <2> QED
    BY <2>3, <2>4
<1>5. /\ mensajes_pendientes'[u] = resto
      /\ \A v \in Usuarios \ {u} : mensajes_pendientes'[v] = mensajes_pendientes[v]
  BY <1>1, <1>2 DEF Inv1, TypeOK
<1>6. /\ Entregadas(u) = k
      /\ \A v \in Usuarios \ {u} : Entregadas(v) = 0
      /\ \A v \in Usuarios : Entregadas(v)' = 0
  BY <1>1 DEF Entregadas, Libre
<1>7. EnCola(u)' = EnCola(u)
  <2>1. EnCola(u) = {q[i] : i \in (k + 1)..Len(q)}
    BY <1>6 DEF EnCola
  <2>2. EnCola(u)' = {q[k + i] : i \in 1..(Len(q) - k)}
    <3> HIDE DEF resto
    <3>1. EnCola(u)' = {resto[i] : i \in 1..Len(resto)}
      BY <1>2, <1>5, <1>6, ColaEntera
    <3> QED
      BY <1>4, <3>1
  <2>3. ASSUME NEW i \in (k + 1)..Len(q)
        PROVE  i - k \in 1..(Len(q) - k) /\ k + (i - k) = i
    BY <1>2, <1>3
  <2>4. ASSUME NEW i \in 1..(Len(q) - k)
        PROVE  k + i \in (k + 1)..Len(q)
    BY <1>2, <1>3
  <2> QED
    BY <2>1, <2>2, <2>3, <2>4
<1>8. \A v \in Usuarios \ {u} : EnCola(v)' = EnCola(v)
  BY <1>5, <1>6 DEF EnCola
<1> HIDE DEF resto
<1> QED
  BY <1>2, <1>4, <1>5, <1>7, <1>8

\* The name that is registered again starts with no messages; nobody waited.
LEMMA ColaRegistrar ==
  ASSUME Inv1, ColaOrdenada, NEW u \in Usuarios, NEW res, RegistrarUsuario(u, res)
  PROVE  /\ \A v \in Usuarios : EnCola(v)' = EnCola(v)
         /\ mensajes_pendientes' = mensajes_pendientes
<1>1. mensajes_pendientes' = mensajes_pendientes
  <2>1. CASE UNCHANGED vars
    BY <2>1 DEF vars
  <2>2. CASE Alta(u) /\ mensajes_pendientes' = [mensajes_pendientes EXCEPT ![u] = <<>>]
    <3>1. mensajes_pendientes[u] = <<>>
      BY <2>2 DEF Alta, ColaOrdenada
    <3> QED
      BY <2>2, <3>1 DEF Inv1, TypeOK
  <2> QED
    BY <2>1, <2>2 DEF RegistrarUsuario
<1>2. mutex_lista = Libre /\ mutex_lista' = Libre
  BY DEF RegistrarUsuario, vars
<1>3. \A v \in Usuarios : Entregadas(v)' = Entregadas(v)
  BY <1>2 DEF Entregadas, Libre
<1> QED
  BY <1>1, <1>3, ColaIgual

LEMMA ColaDarDeBaja ==
  ASSUME Inv1, NEW u \in Usuarios, DarDeBajaUsuario(u, 0)
  PROVE  /\ Fuera(u) \subseteq Usuarios
         /\ \A v \in Fuera(u) : EnCola(v)' = {} /\ mensajes_pendientes'[v] = <<>>
         /\ \A v \in Usuarios \ Fuera(u) :
              /\ EnCola(v)' = EnCola(v)
              /\ mensajes_pendientes'[v] = mensajes_pendientes[v]
              /\ Existe(v) => Existe(v)'
<1>1. /\ mutex_lista = Libre /\ mutex_lista' = Libre
      /\ Baja(u)
      /\ mensajes_pendientes' =
           [v \in Usuarios |-> IF v \in Fuera(u) THEN <<>> ELSE mensajes_pendientes[v]]
  BY DEF DarDeBajaUsuario
<1>2. Fuera(u) \subseteq Usuarios
  BY <1>1, BajaLista, FueraUsuarios DEF Inv1, TypeOK
<1>3. \A v \in Usuarios : Entregadas(v) = 0 /\ Entregadas(v)' = 0
  BY <1>1 DEF Entregadas, Libre
<1>4. \A v \in Fuera(u) : EnCola(v)' = {} /\ mensajes_pendientes'[v] = <<>>
  <2> TAKE v \in Fuera(u)
  <2>1. mensajes_pendientes'[v] = <<>>
    BY <1>1, <1>2
  <2>2. EnCola(v)' = {mensajes_pendientes'[v][i] : i \in (0 + 1)..Len(mensajes_pendientes'[v])}
    BY <1>2, <1>3 DEF EnCola
  <2>3. (0 + 1)..Len(<<>>) = {}
    OBVIOUS
  <2> QED
    BY <2>1, <2>2, <2>3
<1>5. \A v \in Usuarios \ Fuera(u) :
        /\ EnCola(v)' = EnCola(v)
        /\ mensajes_pendientes'[v] = mensajes_pendientes[v]
  BY <1>1, <1>3 DEF EnCola
<1> QED
  BY <1>1, <1>2, <1>4, <1>5, BajaLista DEF Inv1, TypeOK

\* Every other step leaves the queues as they are.
LEMMA ColaQuieta ==
  ASSUME Inv1, UNCHANGED mensajes_pendientes,
         \/ UNCHANGED mutex_lista
         \/ EnviarFalla
         \/ \E u \in Usuarios, i \in IPs, p \in Puertos : ConectarUsuario(u, i, p)
  PROVE  \A v \in Usuarios : EnCola(v)' = EnCola(v)
<1> SUFFICES ASSUME NEW v \in Usuarios PROVE Entregadas(v)' = Entregadas(v)
  BY ColaIgual
<1>1. CASE UNCHANGED mutex_lista
  BY <1>1 DEF Entregadas
<1>2. CASE EnviarFalla
  BY <1>2 DEF EnviarFalla, Entregadas, Libre
<1>3. ASSUME NEW u \in Usuarios, NEW i \in IPs, NEW p \in Puertos, ConectarUsuario(u, i, p)
      PROVE  Entregadas(v)' = Entregadas(v)
  <2>1. /\ mutex_lista = Libre
        /\ mutex_lista' = [op |-> "conectar", usuario |-> u, k |-> 0]
    BY <1>3 DEF ConectarUsuario
  <2> QED
    BY <2>1 DEF Entregadas, Libre
<1> QED
  BY <1>1, <1>2, <1>3

LEMMA EnColaMensajes ==
  ASSUME Inv1, NEW u \in Usuarios, NEW m \in EnCola(u)
  PROVE  m \in Mensaje /\ m.n \in Nat \ {0}
<1>1. Entregadas(u) \in Nat
  BY CasosEnCurso DEF Entregadas, Inv1, TypeOK
<1>2. PICK i \in (Entregadas(u) + 1)..Len(mensajes_pendientes[u]) :
        m = mensajes_pendientes[u][i]
  BY DEF EnCola
<1>3. i \in 1..Len(mensajes_pendientes[u])
  BY <1>1, <1>2, MensajesDeCola
<1>4. m \in Mensaje
  BY <1>2, <1>3, MensajesDeCola
<1> QED
  BY <1>4 DEF Mensaje
-----------------------------------------------------------------------------
LEMMA OrdenSinCambios ==
  ASSUME ColaOrdenada, UNCHANGED mensajes_pendientes,
         \A v \in Usuarios : Existe(v) => Existe(v)'
  PROVE  ColaOrdenada'
BY DEF ColaOrdenada

LEMMA OrdenPaso == Inv2 /\ [Next]_vars => ColaOrdenada'
<1> SUFFICES ASSUME Inv2, [Next]_vars
             PROVE  ColaOrdenada'
  OBVIOUS
<1> USE DEF Inv2
<1>1. CASE UNCHANGED <<lista, mensajes_pendientes>>
  BY <1>1, OrdenSinCambios DEF Existe
<1>2. ASSUME NEW u \in Usuarios, NEW res, RegistrarUsuario(u, res)
      PROVE  ColaOrdenada'
  <2>1. UNCHANGED lista \/ Alta(u)
    BY <1>2 DEF RegistrarUsuario, vars
  <2>2. \A v \in Usuarios : Existe(v) => Existe(v)'
    BY <2>1, AltaLista DEF Existe, Inv1, TypeOK
  <2> QED
    BY <1>2, <2>2, ColaRegistrar, OrdenSinCambios
<1>3. ASSUME NEW u \in Usuarios, NEW res, DarDeBajaUsuario(u, res)
      PROVE  ColaOrdenada'
  <2>1. CASE UNCHANGED vars
    BY <1>1, <2>1 DEF vars
  <2>2. CASE res = 0
    <3>1. /\ \A v \in Fuera(u) : mensajes_pendientes'[v] = <<>>
          /\ \A v \in Usuarios \ Fuera(u) :
               /\ mensajes_pendientes'[v] = mensajes_pendientes[v]
               /\ Existe(v) => Existe(v)'
      BY <1>3, <2>2, ColaDarDeBaja
    <3>2. Len(<<>>) = 0
      OBVIOUS
    <3> QED
      BY <3>1, <3>2 DEF ColaOrdenada
  <2> QED
    BY <1>3, <2>1, <2>2 DEF DarDeBajaUsuario
<1>4. ASSUME NEW r \in Usuarios, NEW d \in Usuarios, NEW f \in Adjuntos, EnviarMensaje(r, d, f)
      PROVE  ColaOrdenada'
  <2>1. PICK m \in Mensaje :
          /\ m.n = emitidos + 1
          /\ mensajes_pendientes' =
               [mensajes_pendientes EXCEPT ![d] = Append(mensajes_pendientes[d], m)]
    BY <1>4, ColaEnviarMensaje
  <2>2. /\ Existe(d) /\ UNCHANGED lista
        /\ mutex_lista = Libre
    BY <1>4 DEF EnviarMensaje
  <2> DEFINE q == mensajes_pendientes[d]
  <2>3. /\ q \in Seq(Mensaje)
        /\ mensajes_pendientes'[d] = Append(q, m)
        /\ \A v \in Usuarios \ {d} : mensajes_pendientes'[v] = mensajes_pendientes[v]
    BY <2>1 DEF Inv1, TypeOK
  <2>4. /\ Len(q) \in Nat
        /\ Len(Append(q, m)) = Len(q) + 1
        /\ \A i \in 1..Len(q) : Append(q, m)[i] = q[i]
        /\ Append(q, m)[Len(q) + 1] = m
    BY <2>3, LenProperties, AppendProperties
  <2>5. \A i \in 1..Len(q) : q[i].n \in Nat /\ q[i].n < m.n
    <3> TAKE i \in 1..Len(q)
    <3>1. q[i] \in EnCola(d)
      BY <2>2, <2>4 DEF EnCola, Entregadas, Libre
    <3>2. q[i].n \in Nat /\ q[i].n <= emitidos
      BY <3>1, EnColaMensajes DEF NumerosUsados
    <3> QED
      BY <2>1, <3>2 DEF Inv1, TypeOK
  <2>6. \A i, j \in 1..Len(Append(q, m)) :
          i < j => Append(q, m)[i].n < Append(q, m)[j].n
    <3> SUFFICES ASSUME NEW i \in 1..(Len(q) + 1), NEW j \in 1..(Len(q) + 1), i < j
                 PROVE  Append(q, m)[i].n < Append(q, m)[j].n
      BY <2>4
    <3>1. i \in 1..Len(q) /\ Append(q, m)[i] = q[i]
      BY <2>4
    <3>2. CASE j = Len(q) + 1
      BY <2>4, <2>5, <3>1, <3>2
    <3>3. CASE j \in 1..Len(q)
      BY <2>4, <3>1, <3>3 DEF ColaOrdenada
    <3> QED
      BY <2>4, <3>2, <3>3
  <2>7. \A v \in Usuarios : Existe(v)' <=> Existe(v)
    BY <2>2 DEF Existe
  <2> QED
    BY <2>2, <2>3, <2>6, <2>7 DEF ColaOrdenada
<1>5. ASSUME NEW falla, ConectarFin(falla)
      PROVE  ColaOrdenada'
  <2>1. PICK u \in Usuarios : mutex_lista.usuario = u
    BY <1>5, CasosEnCurso DEF ConectarFin, Inv1, TypeOK
  <2> DEFINE q == mensajes_pendientes[u]
             k == mutex_lista.k
  <2>2. /\ \A v \in Usuarios \ {u} : mensajes_pendientes'[v] = mensajes_pendientes[v]
        /\ k \in Nat /\ Len(mensajes_pendientes'[u]) = Len(q) - k
        /\ \A i \in 1..Len(mensajes_pendientes'[u]) : mensajes_pendientes'[u][i] = q[k + i]
    BY <1>5, <2>1, ColaConectarFin
  <2>3. Len(q) \in Nat
    BY MensajesDeCola
  <2>4. ASSUME NEW i \in 1..(Len(q) - k), NEW j \in 1..(Len(q) - k), i < j
        PROVE  q[k + i].n < q[k + j].n
    <3>1. /\ k + i \in 1..Len(q) /\ k + j \in 1..Len(q) /\ k + i < k + j
      BY <2>2, <2>3, <2>4
    <3> QED
      BY <3>1 DEF ColaOrdenada
  <2>5. /\ \A v \in Usuarios : Existe(v)' <=> Existe(v)
        /\ Existe(u)
    BY <1>5, <2>1, CasosEnCurso DEF ConectarFin, Existe, Inv1, TypeOK, EnCursoCoherente
  <2>6. \A i, j \in 1..Len(mensajes_pendientes'[u]) :
          i < j => mensajes_pendientes'[u][i].n < mensajes_pendientes'[u][j].n
    <3> TAKE i, j \in 1..Len(mensajes_pendientes'[u])
    <3> HAVE i < j
    <3>1. i \in 1..(Len(q) - k) /\ j \in 1..(Len(q) - k)
      BY <2>2
    <3>2. q[k + i].n < q[k + j].n
      BY <2>4, <3>1
    <3> QED
      BY <2>2, <3>2
  <2>7. /\ Existe(u)
        /\ \A v \in Usuarios \ {u} :
             /\ mensajes_pendientes[v] # <<>> => Existe(v)
             /\ \A i, j \in 1..Len(mensajes_pendientes[v]) :
                  i < j => mensajes_pendientes[v][i].n < mensajes_pendientes[v][j].n
    BY <2>2, <2>5 DEF ColaOrdenada
  <2> QED
    BY <2>2, <2>5, <2>6, <2>7 DEF ColaOrdenada
<1>6. ASSUME NEW ack, EnviarEntrega(ack)
      PROVE  ColaOrdenada'
  <2>1. PICK d \in Usuarios : mutex_lista.usuario = d
    BY <1>6, CasosEnCurso DEF EnviarEntrega, Inv1, TypeOK
  <2> DEFINE q == mensajes_pendientes[d]
  <2>2. /\ \A v \in Usuarios \ {d} : mensajes_pendientes'[v] = mensajes_pendientes[v]
        /\ Len(mensajes_pendientes'[d]) = Len(q) - 1
        /\ \A i \in 1..Len(mensajes_pendientes'[d]) : mensajes_pendientes'[d][i] = q[i]
        /\ q # <<>>
    BY <1>6, <2>1, ColaEnviarEntrega
  <2>3. Len(q) \in Nat
    BY MensajesDeCola
  <2>4. \A i \in 1..(Len(q) - 1) : i \in 1..Len(q)
    BY <2>3
  <2>5. \A v \in Usuarios : Existe(v)' <=> Existe(v)
    BY <1>6 DEF EnviarEntrega, Existe
  <2>6. \A i, j \in 1..Len(mensajes_pendientes'[d]) :
          i < j => mensajes_pendientes'[d][i].n < mensajes_pendientes'[d][j].n
    BY <2>2, <2>4 DEF ColaOrdenada
  <2>7. /\ Existe(d)
        /\ \A v \in Usuarios \ {d} :
             /\ mensajes_pendientes[v] # <<>> => Existe(v)
             /\ \A i, j \in 1..Len(mensajes_pendientes[v]) :
                  i < j => mensajes_pendientes[v][i].n < mensajes_pendientes[v][j].n
    BY <2>2, <2>5 DEF ColaOrdenada
  <2> QED
    BY <2>2, <2>5, <2>6, <2>7 DEF ColaOrdenada
<1>7. CASE Peticion
  <2>1. ASSUME NEW u \in Usuarios, NEW res \in 0..3,
               \/ Users(u, res) \/ ConectarRechazado(u, res)
               \/ \E i \in IPs : DesconectarUsuario(u, i, res)
               \/ \E d \in Usuarios : EnviarRechazado(u, d, res)
        PROVE  ColaOrdenada'
    BY <1>1, <2>1 DEF Users, ConectarRechazado, DesconectarUsuario, EnviarRechazado, vars
  <2>2. ASSUME NEW u \in Usuarios, NEW i \in IPs, NEW p \in Puertos, ConectarUsuario(u, i, p)
        PROVE  ColaOrdenada'
    BY <1>1, <2>2 DEF ConectarUsuario
  <2> QED
    BY <1>7, <1>2, <1>3, <1>4, <2>1, <2>2 DEF Peticion
<1>8. CASE Continuar
  <2>1. ASSUME NEW ack, EntregarPendiente(ack)
        PROVE  ColaOrdenada'
    BY <1>1, <2>1 DEF EntregarPendiente
  <2>2. CASE EnviarFalla
    BY <1>1, <2>2 DEF EnviarFalla
  <2> QED
    BY <1>5, <1>6, <1>8, <2>1, <2>2 DEF Continuar
<1> QED
  BY <1>1, <1>7, <1>8 DEF Next, vars
-----------------------------------------------------------------------------
\* The four things a step can do to the messages, as the abstract service sees
\* them: nothing, accept one, deliver one, or throw away those of some users.
\* Everything below follows from these and not from the actions.
Quieto ==
  /\ \A v \in Usuarios : EnCola(v)' = EnCola(v)
  /\ UNCHANGED <<emitidos, entregados, acks, descartados>>

Acepta(d, m) ==
  /\ m \in Mensaje /\ m.n = emitidos + 1
  /\ emitidos < MaxMensajes /\ emitidos' = emitidos + 1
  /\ EnCola(d)' = EnCola(d) \cup {m}
  /\ \A v \in Usuarios \ {d} : EnCola(v)' = EnCola(v)
  /\ UNCHANGED <<entregados, acks, descartados>>

Escribe(d, m) ==
  /\ m \in EnCola(d)
  /\ EnCola(d)' = EnCola(d) \ {m}
  /\ \A v \in Usuarios \ {d} : EnCola(v)' = EnCola(v)
  /\ entregados' = [entregados EXCEPT ![d] = @ \cup {m}]
  /\ \/ acks' = acks
     \/ \E a \in Nat : acks' = acks \cup {[mensaje |-> m, alta |-> a]}
  /\ UNCHANGED <<emitidos, descartados>>

Tira(D) ==
  /\ \A v \in D : EnCola(v)' = {}
  /\ \A v \in Usuarios \ D : EnCola(v)' = EnCola(v)
  /\ descartados' = descartados \cup Numeros(UNION {EnCola(v) : v \in D})
  /\ UNCHANGED <<emitidos, entregados, acks>>

Efecto ==
  \/ Quieto
  \/ \E d \in Usuarios, m \in Mensaje : Acepta(d, m) \/ Escribe(d, m)
  \/ \E D \in SUBSET Usuarios : Tira(D)

LEMMA EfectoEntregar ==
  ASSUME Inv1, NEW d \in Usuarios, NEW m \in Mensaje, NEW ack,
         EntregarMensaje(d, m, ack)
  PROVE  /\ entregados' = [entregados EXCEPT ![d] = @ \cup {m}]
         /\ \/ acks' = acks
            \/ \E a \in Nat : acks' = acks \cup {[mensaje |-> m, alta |-> a]}
<1>1. alta[m.remitente] \in Nat
  BY DEF Inv1, TypeOK, Mensaje
<1> QED
  BY <1>1 DEF EntregarMensaje

LEMMA EfectoPaso == Inv2 /\ [Next]_vars => Efecto
<1> SUFFICES ASSUME Inv2, [Next]_vars
             PROVE  Efecto
  OBVIOUS
<1> USE DEF Inv2
<1>1. CASE UNCHANGED vars
  BY <1>1, ColaQuieta DEF vars, historia, Efecto, Quieto
<1>2. ASSUME NEW u \in Usuarios, NEW res, RegistrarUsuario(u, res)
      PROVE  Efecto
  <2>1. UNCHANGED <<emitidos, entregados, acks, descartados>>
    BY <1>2 DEF RegistrarUsuario, vars, historia
  <2> QED
    BY <1>2, <2>1, ColaRegistrar DEF Efecto, Quieto
<1>3. ASSUME NEW u \in Usuarios, NEW res, DarDeBajaUsuario(u, res)
      PROVE  Efecto
  <2>1. CASE UNCHANGED vars
    BY <1>1, <2>1
  <2>2. CASE res = 0 /\ ~UNCHANGED vars
    <3>1. /\ Fuera(u) \subseteq Usuarios
          /\ \A v \in Fuera(u) : EnCola(v)' = {}
          /\ \A v \in Usuarios \ Fuera(u) : EnCola(v)' = EnCola(v)
      BY <1>3, <2>2, ColaDarDeBaja
    <3>2. /\ descartados' = descartados \cup {m.n : m \in UNION {EnCola(v) : v \in Fuera(u)}}
          /\ UNCHANGED <<emitidos, entregados, acks>>
      BY <1>3, <2>2 DEF DarDeBajaUsuario
    <3>3. Tira(Fuera(u))
      BY <3>1, <3>2 DEF Tira, Numeros
    <3> QED
      BY <3>1, <3>3 DEF Efecto
  <2> QED
    BY <1>3, <2>1, <2>2 DEF DarDeBajaUsuario
<1>4. ASSUME NEW r \in Usuarios, NEW d \in Usuarios, NEW f \in Adjuntos, EnviarMensaje(r, d, f)
      PROVE  Efecto
  <2>1. PICK m \in Mensaje :
          /\ m.n = emitidos + 1
          /\ EnCola(d)' = EnCola(d) \cup {m}
          /\ \A v \in Usuarios \ {d} : EnCola(v)' = EnCola(v)
    BY <1>4, ColaEnviarMensaje
  <2>2. /\ emitidos < MaxMensajes /\ emitidos' = emitidos + 1
        /\ UNCHANGED <<entregados, acks, descartados>>
    BY <1>4 DEF EnviarMensaje
  <2>3. Acepta(d, m)
    BY <2>1, <2>2 DEF Acepta
  <2> QED
    BY <2>3 DEF Efecto
<1>5. ASSUME NEW ack, EntregarPendiente(ack)
      PROVE  Efecto
  <2>1. PICK u \in Usuarios : mutex_lista.usuario = u
    BY <1>5, CasosEnCurso DEF EntregarPendiente, Inv1, TypeOK
  <2> DEFINE m == mensajes_pendientes[u][mutex_lista.k + 1]
  <2>2. /\ m \in EnCola(u)
        /\ EnCola(u)' = EnCola(u) \ {m}
        /\ \A v \in Usuarios \ {u} : EnCola(v)' = EnCola(v)
    BY <1>5, <2>1, ColaEntregarPendiente
  <2>3. m \in Mensaje
    BY <2>2, EnColaMensajes
  <2>4. EntregarMensaje(u, m, ack) /\ UNCHANGED <<emitidos, descartados>>
    BY <1>5, <2>1 DEF EntregarPendiente
  <2> HIDE DEF m
  <2>5. Escribe(u, m)
    BY <2>2, <2>3, <2>4, EfectoEntregar DEF Escribe
  <2> QED
    BY <2>3, <2>5 DEF Efecto
<1>6. ASSUME NEW ack, EnviarEntrega(ack)
      PROVE  Efecto
  <2>1. PICK d \in Usuarios : mutex_lista.usuario = d
    BY <1>6, CasosEnCurso DEF EnviarEntrega, Inv1, TypeOK
  <2> DEFINE m == mensajes_pendientes[d][Len(mensajes_pendientes[d])]
  <2>2. /\ m \in EnCola(d)
        /\ EnCola(d)' = EnCola(d) \ {m}
        /\ \A v \in Usuarios \ {d} : EnCola(v)' = EnCola(v)
    BY <1>6, <2>1, ColaEnviarEntrega
  <2>3. m \in Mensaje
    BY <2>2, EnColaMensajes
  <2>4. EntregarMensaje(d, m, ack) /\ UNCHANGED <<emitidos, descartados>>
    BY <1>6, <2>1 DEF EnviarEntrega
  <2> HIDE DEF m
  <2>5. Escribe(d, m)
    BY <2>2, <2>3, <2>4, EfectoEntregar DEF Escribe
  <2> QED
    BY <2>3, <2>5 DEF Efecto
<1>7. CASE Peticion
  <2>1. ASSUME NEW u \in Usuarios, NEW res \in 0..3, Users(u, res) \/ ConectarRechazado(u, res)
        PROVE  Efecto
    BY <1>1, <2>1 DEF Users, ConectarRechazado
  <2>2. ASSUME NEW u \in Usuarios, NEW res \in 0..3,
               \/ \E i \in IPs : DesconectarUsuario(u, i, res)
               \/ \E d \in Usuarios : EnviarRechazado(u, d, res)
        PROVE  Efecto
    <3>1. /\ UNCHANGED <<mensajes_pendientes, mutex_lista>>
          /\ UNCHANGED <<emitidos, entregados, acks, descartados>>
      BY <2>2 DEF DesconectarUsuario, EnviarRechazado, vars, historia
    <3> QED
      BY <3>1, ColaQuieta DEF Efecto, Quieto
  <2>3. ASSUME NEW u \in Usuarios, NEW i \in IPs, NEW p \in Puertos, ConectarUsuario(u, i, p)
        PROVE  Efecto
    <3>1. /\ UNCHANGED mensajes_pendientes
          /\ UNCHANGED <<emitidos, entregados, acks, descartados>>
      BY <2>3 DEF ConectarUsuario, historia
    <3> QED
      BY <2>3, <3>1, ColaQuieta DEF Efecto, Quieto
  <2> QED
    BY <1>7, <1>2, <1>3, <1>4, <2>1, <2>2, <2>3 DEF Peticion
<1>8. CASE Continuar
  <2>1. ASSUME NEW falla, ConectarFin(falla)
        PROVE  Efecto
    <3>1. PICK u \in Usuarios : mutex_lista.usuario = u
      BY <2>1, CasosEnCurso DEF ConectarFin, Inv1, TypeOK
    <3>2. UNCHANGED <<emitidos, entregados, acks, descartados>>
      BY <2>1 DEF ConectarFin, historia
    <3> QED
      BY <2>1, <3>1, <3>2, ColaConectarFin DEF Efecto, Quieto
  <2>2. CASE EnviarFalla
    <3>1. /\ UNCHANGED mensajes_pendientes
          /\ UNCHANGED <<emitidos, entregados, acks, descartados>>
      BY <2>2 DEF EnviarFalla, historia
    <3> QED
      BY <2>2, <3>1, ColaQuieta DEF Efecto, Quieto
  <2> QED
    BY <1>5, <1>6, <1>8, <2>1, <2>2 DEF Continuar
<1> QED
  BY <1>1, <1>7, <1>8 DEF Next
-----------------------------------------------------------------------------
LEMMA NumerosPaso == Inv2 /\ Efecto => NumerosUsados'
<1> SUFFICES ASSUME Inv2, Efecto PROVE NumerosUsados'
  OBVIOUS
<1> USE DEF Inv2
<1>0. emitidos \in Nat /\ entregados \in [Usuarios -> SUBSET Mensaje]
  BY DEF Inv1, TypeOK
<1>1. CASE Quieto
  BY <1>1 DEF Quieto, NumerosUsados
<1>2. ASSUME NEW d \in Usuarios, NEW m \in Mensaje, Acepta(d, m)
      PROVE  NumerosUsados'
  <2>1. ASSUME NEW u \in Usuarios, NEW x \in EnCola(u)' \cup entregados'[u]
        PROVE  x.n <= emitidos'
    <3>1. CASE x \in EnCola(u) \cup entregados[u]
      <4>1. x \in Mensaje
        BY <1>0, <3>1, EnColaMensajes
      <4>2. x.n \in Nat /\ x.n <= emitidos
        BY <3>1, <4>1 DEF NumerosUsados, Mensaje
      <4> QED
        BY <1>0, <1>2, <4>2 DEF Acepta
    <3>2. CASE x = m
      BY <1>0, <1>2, <3>2 DEF Acepta
    <3> QED
      BY <1>2, <2>1, <3>1, <3>2 DEF Acepta
  <2>2. descartados' \subseteq 1..emitidos'
    BY <1>0, <1>2 DEF Acepta, NumerosUsados
  <2> QED
    BY <2>1, <2>2 DEF NumerosUsados
<1>3. ASSUME NEW d \in Usuarios, NEW m \in Mensaje, Escribe(d, m)
      PROVE  NumerosUsados'
  BY <1>0, <1>3 DEF Escribe, NumerosUsados
<1>4. ASSUME NEW D \in SUBSET Usuarios, Tira(D)
      PROVE  NumerosUsados'
  <2>1. \A v \in Usuarios : \A x \in EnCola(v) : x.n \in 1..emitidos
    BY <1>0, EnColaMensajes DEF NumerosUsados
  <2>2. descartados' \subseteq 1..emitidos
    BY ZenonT(40), <1>4, <2>1 DEF Tira, NumerosUsados, Numeros
  <2> QED
    BY <1>4, <2>2 DEF Tira, NumerosUsados
<1> QED
  BY <1>1, <1>2, <1>3, <1>4 DEF Efecto

LEMMA Inv2Inicial == Init => Inv2
<1> SUFFICES ASSUME Init PROVE Inv2
  OBVIOUS
<1>1. \A u \in Usuarios : EnCola(u) = {}
  <2> TAKE u \in Usuarios
  <2>1. Entregadas(u) = 0 /\ mensajes_pendientes[u] = <<>>
    BY DEF Init, Entregadas, Libre
  <2>2. (0 + 1)..Len(<<>>) = {}
    OBVIOUS
  <2> QED
    BY <2>1, <2>2 DEF EnCola
<1>2. Len(<<>>) = 0
  OBVIOUS
<1>3. ColaOrdenada /\ NumerosUsados
  BY <1>1, <1>2 DEF Init, ColaOrdenada, NumerosUsados
<1> QED
  BY <1>3, Inv1Inicial DEF Inv2

LEMMA Inv2Paso == Inv2 /\ [Next]_vars => Inv2'
BY Inv1Paso, OrdenPaso, EfectoPaso, NumerosPaso DEF Inv2

LEMMA Inv2Siempre == Spec => []Inv2
BY Inv2Inicial, Inv2Paso, PTL DEF Spec

\* Every queue stays in the order in which the server accepted the messages,
\* whatever flushes, failed deliveries and unregistrations happen in between, and
\* no queue outlives its user.
THEOREM ColasEnOrden == Spec => []ColaOrdenada
<1>1. Inv2 => ColaOrdenada
  BY DEF Inv2
<1> QED
  BY <1>1, Inv2Siempre, PTL
-----------------------------------------------------------------------------
LEMMA PerdidasPaso == Inv2 /\ SinPerdidas /\ Efecto => SinPerdidas'
<1> SUFFICES ASSUME Inv2, SinPerdidas, Efecto PROVE SinPerdidas'
  OBVIOUS
<1> USE DEF Inv2
<1>0. emitidos \in Nat /\ entregados \in [Usuarios -> SUBSET Mensaje]
  BY DEF Inv1, TypeOK
<1>1. CASE Quieto
  BY <1>1 DEF Quieto, SinPerdidas
<1>2. ASSUME NEW d \in Usuarios, NEW m \in Mensaje, Acepta(d, m)
      PROVE  SinPerdidas'
  <2>1. ASSUME NEW n \in 1..(emitidos + 1)
        PROVE  \/ n \in descartados'
               \/ \E u \in Usuarios : \E x \in EnCola(u)' \cup entregados'[u] : x.n = n
    <3>1. CASE n = emitidos + 1
      BY <1>2, <3>1 DEF Acepta
    <3>2. CASE n \in 1..emitidos
      BY <1>2, <3>2 DEF Acepta, SinPerdidas
    <3> QED
      BY <1>0, <3>1, <3>2
  <2> QED
    BY <1>2, <2>1 DEF Acepta, SinPerdidas
<1>3. ASSUME NEW d \in Usuarios, NEW m \in Mensaje, Escribe(d, m)
      PROVE  SinPerdidas'
  <2>1. \A u \in Usuarios :
          EnCola(u) \cup entregados[u] \subseteq EnCola(u)' \cup entregados'[u]
    BY <1>0, <1>3 DEF Escribe
  <2> QED
    BY <1>3, <2>1 DEF Escribe, SinPerdidas
<1>4. ASSUME NEW D \in SUBSET Usuarios, Tira(D)
      PROVE  SinPerdidas'
  <2>1. ASSUME NEW n \in 1..emitidos, n \notin descartados'
        PROVE  \E u \in Usuarios : \E x \in EnCola(u)' \cup entregados'[u] : x.n = n
    <3>1. n \notin descartados
      BY <1>4, <2>1 DEF Tira
    <3>2. PICK u \in Usuarios : \E x \in EnCola(u) \cup entregados[u] : x.n = n
      BY <3>1 DEF SinPerdidas
    <3>3. PICK x \in EnCola(u) \cup entregados[u] : x.n = n
      BY <3>2
    <3>4. CASE x \in entregados[u]
      BY <1>4, <3>3, <3>4 DEF Tira
    <3>5. CASE x \in EnCola(u)
      <4>1. u \notin D
        BY <1>4, <2>1, <3>3, <3>5 DEF Tira, Numeros
      <4> QED
        BY <1>4, <3>3, <3>5, <4>1 DEF Tira
    <3> QED
      BY <3>3, <3>4, <3>5
  <2> QED
    BY <1>4, <2>1 DEF Tira, SinPerdidas
<1> QED
  BY <1>1, <1>2, <1>3, <1>4 DEF Efecto

\* No message the server answered OK for disappears: it is queued, or was written
\* to the socket of a user, or went away with the user it was for, however flushes
\* stop and deliveries fail.
THEOREM NadaSePierde == Spec => []SinPerdidas
<1>1. Init => SinPerdidas
  BY DEF Init, SinPerdidas
<1>2. Inv2 /\ SinPerdidas /\ [Next]_vars => SinPerdidas'
  BY EfectoPaso, PerdidasPaso
<1> QED
  BY <1>1, <1>2, Inv2Siempre, PTL DEF Spec
-----------------------------------------------------------------------------
LEMMA NumerosDistintos ==
  ASSUME Inv1, ColaOrdenada, NEW u \in Usuarios,
         NEW m \in EnCola(u), NEW x \in EnCola(u), m.n = x.n
  PROVE  m = x
<1> DEFINE q == mensajes_pendientes[u]
<1>1. Entregadas(u) \in Nat
  BY CasosEnCurso DEF Entregadas, Inv1, TypeOK
<1>2. Len(q) \in Nat /\ \A i \in 1..Len(q) : q[i].n \in Nat
  BY MensajesDeCola DEF Mensaje
<1>3. PICK i \in (Entregadas(u) + 1)..Len(q) : m = q[i]
  BY DEF EnCola
<1>4. PICK j \in (Entregadas(u) + 1)..Len(q) : x = q[j]
  BY DEF EnCola
<1>5. i \in 1..Len(q) /\ j \in 1..Len(q)
  BY <1>1, <1>2
<1>6. ~(i < j) /\ ~(j < i)
  BY <1>2, <1>3, <1>4, <1>5 DEF ColaOrdenada
<1>7. i = j
  BY <1>5, <1>6
<1> QED
  BY <1>3, <1>4, <1>7

LEMMA RepetirPaso == Inv2 /\ SinRepetir /\ Efecto => SinRepetir'
<1> SUFFICES ASSUME Inv2, SinRepetir, Efecto PROVE SinRepetir'
  OBVIOUS
<1> USE DEF Inv2
<1>0. emitidos \in Nat /\ entregados \in [Usuarios -> SUBSET Mensaje]
  BY DEF Inv1, TypeOK
<1>1. CASE Quieto
  BY <1>1 DEF Quieto, SinRepetir, Numeros
<1>2. ASSUME NEW d \in Usuarios, NEW m \in Mensaje, Acepta(d, m)
      PROVE  SinRepetir'
  <2>1. /\ Numeros(EnCola(d))' = Numeros(EnCola(d)) \cup {m.n}
        /\ \A v \in Usuarios \ {d} : Numeros(EnCola(v))' = Numeros(EnCola(v))
        /\ \A v \in Usuarios : Numeros(entregados[v])' = Numeros(entregados[v])
        /\ descartados' = descartados
    BY <1>2 DEF Acepta, Numeros
  <2>2. /\ m.n \notin descartados
        /\ \A v \in Usuarios : m.n \notin Numeros(EnCola(v)) /\ m.n \notin Numeros(entregados[v])
    BY <1>0, <1>2 DEF Acepta, NumerosUsados, Numeros
  <2> QED
    BY <2>1, <2>2 DEF SinRepetir
<1>3. ASSUME NEW d \in Usuarios, NEW m \in Mensaje, Escribe(d, m)
      PROVE  SinRepetir'
  <2>1. m.n \notin Numeros(EnCola(d) \ {m})
    BY <1>3, NumerosDistintos DEF Escribe, Numeros
  <2>2. /\ m.n \in Numeros(EnCola(d))
        /\ Numeros(EnCola(d))' = Numeros(EnCola(d) \ {m})
        /\ Numeros(EnCola(d) \ {m}) \subseteq Numeros(EnCola(d))
        /\ \A v \in Usuarios \ {d} : Numeros(EnCola(v))' = Numeros(EnCola(v))
        /\ descartados' = descartados
    BY <1>3 DEF Escribe, Numeros
  <2>3. /\ Numeros(entregados[d])' = Numeros(entregados[d]) \cup {m.n}
        /\ \A v \in Usuarios \ {d} : Numeros(entregados[v])' = Numeros(entregados[v])
    BY <1>0, <1>3 DEF Escribe, Numeros
  <2>4. \A u \in Usuarios :
          /\ (Numeros(EnCola(u)) \cup Numeros(entregados[u]))'
               = Numeros(EnCola(u)) \cup Numeros(entregados[u])
          /\ Numeros(EnCola(u))' \cap Numeros(entregados[u])' = {}
    <3> TAKE u \in Usuarios
    <3>1. Numeros(EnCola(u)) \cap Numeros(entregados[u]) = {}
      BY DEF SinRepetir
    <3>2. CASE u = d
      <4>1. Numeros(EnCola(d)) \subseteq Numeros(EnCola(d) \ {m}) \cup {m.n}
        BY DEF Numeros
      <4> QED
        BY <2>1, <2>2, <2>3, <3>1, <3>2, <4>1
    <3>3. CASE u # d
      BY <2>2, <2>3, <3>1, <3>3
    <3> QED
      BY <3>2, <3>3
  <2> QED
    BY <2>2, <2>4 DEF SinRepetir
<1>4. ASSUME NEW D \in SUBSET Usuarios, Tira(D)
      PROVE  SinRepetir'
  <2>1. /\ \A v \in D : Numeros(EnCola(v))' = {}
        /\ \A v \in Usuarios \ D : Numeros(EnCola(v))' = Numeros(EnCola(v))
        /\ \A v \in Usuarios : Numeros(entregados[v])' = Numeros(entregados[v])
    BY <1>4 DEF Tira, Numeros
  <2>2. \A n \in descartados' :
          n \in descartados \/ \E v \in D : n \in Numeros(EnCola(v))
    BY <1>4 DEF Tira, Numeros
  <2>3. \A u \in Usuarios \ D : Numeros(EnCola(u)) \cap descartados' = {}
    BY <2>2 DEF SinRepetir
  <2>4. \A u \in Usuarios : Numeros(entregados[u]) \cap descartados' = {}
    BY <2>2 DEF SinRepetir
  <2> QED
    BY <2>1, <2>3, <2>4 DEF SinRepetir
<1> QED
  BY <1>1, <1>2, <1>3, <1>4 DEF Efecto

LEMMA RepetirInicial == Init => SinRepetir
<1> SUFFICES ASSUME Init, NEW u \in Usuarios PROVE Numeros(EnCola(u)) = {}
  BY DEF Init, SinRepetir, Numeros
<1>1. Entregadas(u) = 0 /\ mensajes_pendientes[u] = <<>>
  BY DEF Init, Entregadas, Libre
<1>2. (0 + 1)..Len(<<>>) = {}
  OBVIOUS
<1> QED
  BY <1>1, <1>2 DEF EnCola, Numeros

\* A message is in one place at most: one that a socket or an unregistration
\* already consumed is never queued again, nor delivered to a second user.
THEOREM NadaSeRepite == Spec => []SinRepetir
<1>1. Inv2 /\ SinRepetir /\ [Next]_vars => SinRepetir'
  BY EfectoPaso, RepetirPaso
<1> QED
  BY <1>1, RepetirInicial, Inv2Siempre, PTL DEF Spec
-----------------------------------------------------------------------------
LEMMA AckPaso == Inv2 /\ SinRepetir /\ AckFiel /\ Efecto => AckFiel'
<1> SUFFICES ASSUME Inv2, SinRepetir, AckFiel, Efecto PROVE AckFiel'
  OBVIOUS
<1> USE DEF Inv2
<1>0. entregados \in [Usuarios -> SUBSET Mensaje]
  BY DEF Inv1, TypeOK
<1>1. CASE UNCHANGED <<entregados, acks>>
  BY <1>1 DEF AckFiel
<1>2. ASSUME NEW d \in Usuarios, NEW m \in Mensaje, Escribe(d, m)
      PROVE  AckFiel'
  <2>1. /\ m \in entregados'[d]
        /\ \A u \in Usuarios : entregados[u] \subseteq entregados'[u]
    BY <1>0, <1>2 DEF Escribe
  <2>2. CASE acks' = acks
    BY <2>1, <2>2 DEF AckFiel
  <2>3. ASSUME NEW a \in Nat, acks' = acks \cup {[mensaje |-> m, alta |-> a]}
        PROVE  AckFiel'
    <3> DEFINE nuevo == [mensaje |-> m, alta |-> a]
    <3>1. \A b \in acks : b.mensaje.n # m.n
      <4> SUFFICES ASSUME NEW b \in acks, b.mensaje.n = m.n PROVE FALSE
        OBVIOUS
      <4>1. PICK u \in Usuarios : b.mensaje \in entregados[u]
        BY DEF AckFiel
      <4>2. m.n \in Numeros(EnCola(d)) /\ m.n \in Numeros(entregados[u])
        BY <1>2, <4>1 DEF Escribe, Numeros
      <4> QED
        BY <4>2 DEF SinRepetir
    <3>2. nuevo.mensaje = m
      OBVIOUS
    <3> HIDE DEF nuevo
    <3>3. acks' = acks \cup {nuevo}
      BY <2>3 DEF nuevo
    <3> QED
      BY <2>1, <3>1, <3>2, <3>3 DEF AckFiel
  <2> QED
    BY <1>2, <2>2, <2>3 DEF Escribe
<1> QED
  BY <1>1, <1>2 DEF Efecto, Quieto, Acepta, Tira

\* A confirmation is sent only for a message that was written to a socket, and
\* once: neither the flush of CONNECT nor a direct delivery confirms twice.
THEOREM ConfirmacionesFieles == Spec => []AckFiel
<1>1. Init => AckFiel
  BY DEF Init, AckFiel
<1>2. Inv2 /\ SinRepetir /\ AckFiel /\ [Next]_vars => AckFiel'
  BY EfectoPaso, AckPaso
<1> QED
  BY <1>1, <1>2, Inv2Siempre, NadaSeRepite, PTL DEF Spec
-----------------------------------------------------------------------------
\* Each effect is a step of the abstract service, or none.
esperan   == [u \in Usuarios |-> Numeros(EnCola(u))]
recibidos == [u \in Usuarios |-> Numeros(entregados[u])]

LEMMA ServicioPaso == Inv2 /\ Efecto => [M!Next]_(M!vars)
<1> SUFFICES ASSUME Inv2, Efecto PROVE [M!Next]_(M!vars)
  OBVIOUS
<1> USE DEF Inv2
<1>0. emitidos \in Nat /\ entregados \in [Usuarios -> SUBSET Mensaje]
  BY DEF Inv1, TypeOK
<1>1. CASE Quieto
  <2>1. esperan' = esperan /\ recibidos' = recibidos /\ descartados' = descartados
    BY <1>1 DEF Quieto, esperan, recibidos, Numeros
  <2> QED
    BY <2>1 DEF M!vars, esperan, recibidos
<1>2. ASSUME NEW d \in Usuarios, NEW m \in Mensaje, Acepta(d, m)
      PROVE  M!Next
  <2>1. /\ esperan' = [esperan EXCEPT ![d] = @ \cup {m.n}]
        /\ recibidos' = recibidos /\ descartados' = descartados
    <3>1. /\ Numeros(EnCola(d))' = Numeros(EnCola(d)) \cup {m.n}
          /\ \A v \in Usuarios \ {d} : Numeros(EnCola(v))' = Numeros(EnCola(v))
      BY <1>2 DEF Acepta, Numeros
    <3>2. esperan' = [esperan EXCEPT ![d] = @ \cup {m.n}]
      BY <3>1 DEF esperan
    <3> QED
      BY <1>2, <3>2 DEF Acepta, recibidos, Numeros
  <2>2. m.n \in 1..MaxMensajes
    BY <1>0, <1>2, GestionSupuestos DEF Acepta
  <2>3. m.n \notin M!Conocidos
    BY <1>0, <1>2 DEF Acepta, M!Conocidos, NumerosUsados, Numeros
  <2>4. M!Aceptar(d)
    BY <2>1, <2>2, <2>3 DEF M!Aceptar, esperan, recibidos
  <2> QED
    BY <2>4 DEF M!Next
<1>3. ASSUME NEW d \in Usuarios, NEW m \in Mensaje, Escribe(d, m)
      PROVE  M!Next
  <2>1. Numeros(EnCola(d) \ {m}) = Numeros(EnCola(d)) \ {m.n}
    BY <1>3, NumerosDistintos DEF Escribe, Numeros
  <2>2. /\ m.n \in esperan[d]
        /\ esperan' = [esperan EXCEPT ![d] = @ \ {m.n}]
    BY <1>3, <2>1 DEF Escribe, esperan, Numeros
  <2>3. recibidos' = [recibidos EXCEPT ![d] = @ \cup {m.n}]
    BY <1>0, <1>3 DEF Escribe, recibidos, Numeros
  <2>4. M!Entregar(d)
    BY <1>3, <2>2, <2>3 DEF M!Entregar, Escribe, esperan, recibidos
  <2> QED
    BY <2>4 DEF M!Next
<1>4. ASSUME NEW D \in SUBSET Usuarios, Tira(D)
      PROVE  M!Next
  <2>1. /\ esperan' = [u \in Usuarios |-> IF u \in D THEN {} ELSE esperan[u]]
        /\ recibidos' = recibidos
    BY <1>4 DEF Tira, esperan, recibidos, Numeros
  <2>2. descartados' = descartados \cup UNION {esperan[u] : u \in D}
    <3>1. \A u \in D : esperan[u] = Numeros(EnCola(u))
      BY DEF esperan
    <3>2. Numeros(UNION {EnCola(u) : u \in D}) = UNION {Numeros(EnCola(u)) : u \in D}
      BY DEF Numeros
    <3>3. UNION {esperan[u] : u \in D} = UNION {Numeros(EnCola(u)) : u \in D}
      BY <3>1
    <3> QED
      BY <1>4, <3>2, <3>3 DEF Tira
  <2>3. M!Tirar(D)
    BY <2>1, <2>2 DEF M!Tirar, esperan, recibidos
  <2> QED
    BY <2>3 DEF M!Next
<1> QED
  BY <1>1, <1>2, <1>3, <1>4 DEF Efecto

LEMMA ServicioInicial == Init => M!Init
<1> SUFFICES ASSUME Init PROVE M!Init
  OBVIOUS
<1>1. \A u \in Usuarios : EnCola(u) = {}
  <2> TAKE u \in Usuarios
  <2>1. Entregadas(u) = 0 /\ mensajes_pendientes[u] = <<>>
    BY DEF Init, Entregadas, Libre
  <2>2. (0 + 1)..Len(<<>>) = {}
    OBVIOUS
  <2> QED
    BY <2>1, <2>2 DEF EnCola
<1> QED
  BY <1>1 DEF Init, M!Init, Numeros

\* gestion.c implements the abstract service: a message is accepted once, waits
\* for its destination and no other user, and is handed over once or dropped with
\* that user's registration.
THEOREM ServicioCumplido == Spec => ImplementaMensajeria
<1>1. Inv2 /\ [Next]_vars => [M!Next]_(M!vars)
  BY EfectoPaso, ServicioPaso
<1> QED
  BY <1>1, ServicioInicial, Inv2Siempre, PTL DEF Spec, ImplementaMensajeria, M!Spec
-----------------------------------------------------------------------------
(***************************************************************************)
(* The list and the queues are what Colas says, whatever CONNECT has freed *)
(* of a queue it still points to, and what makes a connected user come to  *)
(* have a backlog.                                                         *)
(***************************************************************************)
\* The part of a queue that is still to be delivered, the one Colas sees.
Pendiente(u) ==
  SubSeq(mensajes_pendientes[u], Entregadas(u) + 1, Len(mensajes_pendientes[u]))

pendientes == [u \in Usuarios |-> Pendiente(u)]

\* What is left of a sequence after its first k elements, as a function.
LEMMA Sufijo ==
  ASSUME NEW S, NEW s \in Seq(S), NEW k \in Nat, k <= Len(s)
  PROVE  /\ SubSeq(s, k + 1, Len(s)) \in Seq(S)
         /\ Len(SubSeq(s, k + 1, Len(s))) = Len(s) - k
         /\ \A i \in 1..(Len(s) - k) : SubSeq(s, k + 1, Len(s))[i] = s[k + i]
<1> DEFINE t == SubSeq(s, k + 1, Len(s))
<1>1. /\ k + 1 \in Int /\ Len(s) \in Int /\ Len(s) \in Nat
      /\ \A i \in (k + 1)..Len(s) : s[i] \in S
  BY LenProperties, ElementOfSeq
<1>2. /\ t \in Seq(S)
      /\ Len(t) = IF k + 1 <= Len(s) THEN Len(s) - (k + 1) + 1 ELSE 0
      /\ \A i \in 1..(Len(s) - (k + 1) + 1) : t[i] = s[(k + 1) + i - 1]
  BY <1>1, SubSeqProperties
<1> HIDE DEF t
<1>3. ASSUME NEW i \in 1..(Len(s) - k)
      PROVE  t[i] = s[k + i]
  <2>1. i \in 1..(Len(s) - (k + 1) + 1) /\ (k + 1) + i - 1 = k + i
    BY <1>1
  <2> QED
    BY <1>2, <2>1
<1> QED
  BY <1>1, <1>2, <1>3 DEF t

LEMMA Entero ==
  ASSUME NEW S, NEW s \in Seq(S)
  PROVE  SubSeq(s, 1, Len(s)) = s
<1>1. Len(s) \in Nat
  BY LenProperties
<1>2. /\ SubSeq(s, 0 + 1, Len(s)) \in Seq(S)
      /\ Len(SubSeq(s, 0 + 1, Len(s))) = Len(s) - 0
      /\ \A i \in 1..(Len(s) - 0) : SubSeq(s, 0 + 1, Len(s))[i] = s[0 + i]
  BY <1>1, Sufijo
<1>3. 0 + 1 = 1
  OBVIOUS
<1>4. ASSUME NEW i \in 1..Len(s)
      PROVE  SubSeq(s, 1, Len(s))[i] = s[i]
  <2>1. i \in 1..(Len(s) - 0) /\ 0 + i = i
    BY <1>1
  <2> QED
    BY <1>2, <1>3, <2>1
<1>5. Len(SubSeq(s, 1, Len(s))) = Len(s)
  BY <1>1, <1>2, <1>3
<1> QED
  BY <1>2, <1>3, <1>4, <1>5, SeqEqual

LEMMA ColaSigue ==
  ASSUME NEW S, NEW s \in Seq(S), NEW k \in Nat, k < Len(s)
  PROVE  /\ SubSeq(s, k + 1, Len(s)) # <<>>
         /\ Tail(SubSeq(s, k + 1, Len(s))) = SubSeq(s, (k + 1) + 1, Len(s))
<1> DEFINE t == SubSeq(s, k + 1, Len(s))
           r == SubSeq(s, (k + 1) + 1, Len(s))
<1>0. Len(s) \in Nat /\ k + 1 \in Nat /\ k + 1 <= Len(s) /\ k <= Len(s)
  BY LenProperties
<1>1. /\ t \in Seq(S) /\ Len(t) = Len(s) - k
      /\ \A i \in 1..(Len(s) - k) : t[i] = s[k + i]
  BY <1>0, Sufijo
<1>2. /\ r \in Seq(S) /\ Len(r) = Len(s) - (k + 1)
      /\ \A i \in 1..(Len(s) - (k + 1)) : r[i] = s[(k + 1) + i]
  BY <1>0, Sufijo
<1> HIDE DEF t, r
<1>3. t # <<>>
  BY <1>0, <1>1, EmptySeq
<1>4. /\ Tail(t) \in Seq(S) /\ Len(Tail(t)) = Len(t) - 1
      /\ \A i \in 1..Len(Tail(t)) : Tail(t)[i] = t[i + 1]
  BY <1>1, <1>3, HeadTailProperties
<1>5. Len(Tail(t)) = Len(r)
  BY <1>0, <1>1, <1>2, <1>4
<1>6. ASSUME NEW i \in 1..Len(Tail(t))
      PROVE  Tail(t)[i] = r[i]
  <2>1. i + 1 \in 1..(Len(s) - k) /\ i \in 1..(Len(s) - (k + 1)) /\ k + (i + 1) = (k + 1) + i
    BY <1>0, <1>1, <1>4
  <2> QED
    BY <1>1, <1>2, <1>4, <2>1
<1>7. Tail(t) = r
  BY <1>2, <1>4, <1>5, <1>6, SeqEqual
<1> QED
  BY <1>3, <1>7 DEF t, r

\* Out of a CONNECT the two are the same.
LEMMA PendienteEntera ==
  ASSUME NEW u \in Usuarios, mensajes_pendientes \in [Usuarios -> Seq(Mensaje)],
         Entregadas(u) = 0
  PROVE  Pendiente(u) = mensajes_pendientes[u]
<1>1. mensajes_pendientes[u] \in Seq(Mensaje) /\ Entregadas(u) + 1 = 1
  OBVIOUS
<1> QED
  BY <1>1, Entero DEF Pendiente

LEMMA PendienteEnteraDespues ==
  ASSUME NEW u \in Usuarios, mensajes_pendientes' \in [Usuarios -> Seq(Mensaje)],
         Entregadas(u)' = 0
  PROVE  Pendiente(u)' = mensajes_pendientes'[u]
<1>1. mensajes_pendientes'[u] \in Seq(Mensaje) /\ Entregadas(u)' + 1 = 1
  OBVIOUS
<1> QED
  BY <1>1, Entero DEF Pendiente

LEMMA EntregadasFuera ==
  /\ mutex_lista.op # "conectar" => \A u \in Usuarios : Entregadas(u) = 0
  /\ mutex_lista'.op # "conectar" => \A u \in Usuarios : Entregadas(u)' = 0
BY DEF Entregadas
-----------------------------------------------------------------------------
\* What each action does to the list and to the queues, as Colas sees them.
ColasQuietas == lista' = lista /\ \A u \in Usuarios : Pendiente(u)' = Pendiente(u)

LEMMA PendienteIgual ==
  ASSUME UNCHANGED mensajes_pendientes, NEW u \in Usuarios, Entregadas(u)' = Entregadas(u)
  PROVE  Pendiente(u)' = Pendiente(u)
BY DEF Pendiente

LEMMA QuietasSiLibre ==
  ASSUME UNCHANGED <<lista, mensajes_pendientes>>,
         \/ UNCHANGED mutex_lista
         \/ mutex_lista.op # "conectar" /\ mutex_lista'.op # "conectar"
  PROVE  ColasQuietas
<1> SUFFICES ASSUME NEW u \in Usuarios PROVE Entregadas(u)' = Entregadas(u)
  BY PendienteIgual DEF ColasQuietas
<1> QED
  BY EntregadasFuera DEF Entregadas

LEMMA ConectarQuieto ==
  ASSUME NEW u, NEW i, NEW p, ConectarUsuario(u, i, p)
  PROVE  ColasQuietas
<1>1. /\ mutex_lista = Libre /\ mutex_lista' = [op |-> "conectar", usuario |-> u, k |-> 0]
      /\ UNCHANGED <<lista, mensajes_pendientes>>
  BY DEF ConectarUsuario
<1>2. ASSUME NEW v \in Usuarios PROVE Entregadas(v)' = Entregadas(v)
  BY <1>1 DEF Entregadas, Libre
<1> QED
  BY <1>1, <1>2, PendienteIgual DEF ColasQuietas

\* Each delivery of CONNECT takes the oldest message, though the pointer stays ...
LEMMA ColasEntregar ==
  ASSUME Inv1, NEW ack, EntregarPendiente(ack)
  PROVE  \E u \in Usuarios :
           /\ Pendiente(u) # <<>>
           /\ Pendiente(u)' = Tail(Pendiente(u))
           /\ lista' = lista /\ \A v \in Usuarios \ {u} : Pendiente(v)' = Pendiente(v)
<1>1. PICK u \in Usuarios, k \in Nat :
        mutex_lista = [op |-> "conectar", usuario |-> u, k |-> k]
  BY CasosEnCurso DEF Inv1, TypeOK, EntregarPendiente
<1> DEFINE q == mensajes_pendientes[u]
<1>2. /\ k < Len(q)
      /\ mutex_lista' = [op |-> "conectar", usuario |-> u, k |-> k + 1]
      /\ UNCHANGED <<lista, mensajes_pendientes>>
  BY <1>1 DEF EntregarPendiente
<1>3. /\ Entregadas(u) = k /\ Entregadas(u)' = k + 1
      /\ \A v \in Usuarios \ {u} : Entregadas(v)' = Entregadas(v)
  BY <1>1, <1>2 DEF Entregadas
<1>4. q \in Seq(Mensaje)
  BY DEF Inv1, TypeOK
<1>5. /\ Pendiente(u) = SubSeq(q, k + 1, Len(q))
      /\ Pendiente(u)' = SubSeq(q, (k + 1) + 1, Len(q))
  BY <1>2, <1>3 DEF Pendiente
<1>6. Pendiente(u) # <<>> /\ Pendiente(u)' = Tail(Pendiente(u))
  BY <1>2, <1>4, <1>5, ColaSigue
<1> QED
  BY <1>2, <1>3, <1>6, PendienteIgual

\* ... until it ends, when the pointer catches up with the deliveries.
LEMMA ColasConectarFin ==
  ASSUME Inv1, NEW falla, ConectarFin(falla)
  PROVE  ColasQuietas
<1>1. PICK u \in Usuarios, k \in Nat :
        mutex_lista = [op |-> "conectar", usuario |-> u, k |-> k]
  BY CasosEnCurso DEF Inv1, TypeOK, ConectarFin
<1> DEFINE q == mensajes_pendientes[u]
           resto == SubSeq(q, k + 1, Len(q))
<1>2. /\ mutex_lista' = Libre /\ lista' = lista
      /\ mensajes_pendientes' = [mensajes_pendientes EXCEPT ![u] = resto]
  BY <1>1 DEF ConectarFin
<1>3. q \in Seq(Mensaje) /\ k <= Len(q)
  BY <1>1 DEF Inv1, TypeOK, EnCursoCoherente, Libre
<1>4. resto \in Seq(Mensaje)
  BY <1>3, Sufijo
<1>5. /\ mensajes_pendientes' \in [Usuarios -> Seq(Mensaje)]
      /\ mensajes_pendientes'[u] = resto
      /\ \A v \in Usuarios \ {u} : mensajes_pendientes'[v] = mensajes_pendientes[v]
  <2> HIDE DEF resto
  <2> QED
    BY <1>2, <1>4 DEF Inv1, TypeOK
<1>6. \A v \in Usuarios : Entregadas(v)' = 0 /\ Pendiente(v)' = mensajes_pendientes'[v]
  BY <1>2, <1>5, EntregadasFuera, PendienteEnteraDespues DEF Libre
<1>7. Pendiente(u) = resto
  <2>1. Entregadas(u) = k
    BY <1>1 DEF Entregadas
  <2> QED
    BY <2>1 DEF Pendiente
<1>8. ASSUME NEW v \in Usuarios \ {u} PROVE Pendiente(v)' = Pendiente(v)
  <2>1. Entregadas(v) = 0
    BY <1>1, <1>8 DEF Entregadas
  <2> QED
    BY <1>5, <1>6, <2>1, PendienteEntera DEF Inv1, TypeOK
<1>9. ASSUME NEW v \in Usuarios PROVE Pendiente(v)' = Pendiente(v)
  <2> HIDE DEF resto
  <2>1. CASE v = u
    BY <1>5, <1>6, <1>7, <2>1
  <2>2. CASE v # u
    BY <1>8, <2>2
  <2> QED
    BY <2>1, <2>2
<1> QED
  BY <1>2, <1>9 DEF ColasQuietas

\* SEND puts at the end of a queue a message that is in none ...
LEMMA ColasEnviar ==
  ASSUME Inv2, NEW r \in Usuarios, NEW d \in Usuarios, NEW f \in Adjuntos,
         EnviarMensaje(r, d, f)
  PROVE  \E m \in Mensaje :
           /\ Existe(d) /\ lista' = lista
           /\ \A u \in Usuarios : \A i \in 1..Len(Pendiente(u)) : Pendiente(u)[i] # m
           /\ Pendiente(d) \in Seq(Mensaje)
           /\ Pendiente(d)' = Append(Pendiente(d), m)
           /\ \A v \in Usuarios \ {d} : Pendiente(v)' = Pendiente(v)
<1> USE DEF Inv2
<1>1. PICK m \in Mensaje :
        /\ m.n = emitidos + 1
        /\ mensajes_pendientes' =
             [mensajes_pendientes EXCEPT ![d] = Append(mensajes_pendientes[d], m)]
  BY ColaEnviarMensaje
<1>2. /\ Existe(d) /\ lista' = lista /\ mutex_lista = Libre
      /\ mutex_lista'.op # "conectar"
  BY DEF EnviarMensaje, Libre
<1>3. mensajes_pendientes \in [Usuarios -> Seq(Mensaje)] /\ emitidos \in Nat
  BY DEF Inv1, TypeOK
<1>4. /\ mensajes_pendientes' \in [Usuarios -> Seq(Mensaje)]
      /\ mensajes_pendientes'[d] = Append(mensajes_pendientes[d], m)
      /\ \A v \in Usuarios \ {d} : mensajes_pendientes'[v] = mensajes_pendientes[v]
  <2>1. Append(mensajes_pendientes[d], m) \in Seq(Mensaje)
    BY <1>3, AppendProperties
  <2> QED
    BY <1>1, <1>3, <2>1
<1>5. \A u \in Usuarios : /\ Pendiente(u) = mensajes_pendientes[u]
                          /\ Pendiente(u)' = mensajes_pendientes'[u]
  BY <1>2, <1>3, <1>4, EntregadasFuera, PendienteEntera, PendienteEnteraDespues DEF Libre
<1>6. ASSUME NEW u \in Usuarios, NEW i \in 1..Len(mensajes_pendientes[u])
      PROVE  mensajes_pendientes[u][i] # m
  <2>1. Entregadas(u) = 0
    BY <1>2, EntregadasFuera DEF Libre
  <2>2. mensajes_pendientes[u][i] \in EnCola(u)
    BY <2>1 DEF EnCola
  <2>3. mensajes_pendientes[u][i].n <= emitidos
    BY <2>2 DEF NumerosUsados
  <2> QED
    BY <1>1, <1>3, <2>3
<1> QED
  BY <1>2, <1>3, <1>4, <1>5, <1>6

\* ... and takes it out of that end when it is delivered at once.
LEMMA ColasEntrega ==
  ASSUME Inv1, NEW ack, EnviarEntrega(ack)
  PROVE  \E d \in Usuarios :
           /\ Pendiente(d) # <<>>
           /\ Pendiente(d)' = SubSeq(Pendiente(d), 1, Len(Pendiente(d)) - 1)
           /\ lista' = lista /\ \A v \in Usuarios \ {d} : Pendiente(v)' = Pendiente(v)
<1>0. PICK d \in Usuarios : mutex_lista = [op |-> "enviar", usuario |-> d]
  BY CasosEnCurso DEF Inv1, TypeOK, EnviarEntrega
<1> DEFINE q == mensajes_pendientes[d]
           resto == SubSeq(q, 1, Len(q) - 1)
<1>1. /\ mutex_lista.op = "enviar" /\ mutex_lista' = Libre /\ lista' = lista
      /\ mensajes_pendientes' = [mensajes_pendientes EXCEPT ![d] = resto]
  BY <1>0 DEF EnviarEntrega
<1>2. q # <<>> /\ q \in Seq(Mensaje)
  BY <1>0 DEF Inv1, TypeOK, EnCursoCoherente, Libre
<1>3. resto \in Seq(Mensaje)
  <2>1. Len(q) \in Nat /\ \A i \in 1..Len(q) : q[i] \in Mensaje
    BY <1>2, LenProperties, ElementOfSeq
  <2>2. Len(q) - 1 \in Int /\ \A i \in 1..(Len(q) - 1) : q[i] \in Mensaje
    BY <2>1
  <2> QED
    BY <2>2, SubSeqProperties
<1> HIDE DEF resto
<1>4. /\ mensajes_pendientes' \in [Usuarios -> Seq(Mensaje)]
      /\ mensajes_pendientes'[d] = resto
      /\ \A v \in Usuarios \ {d} : mensajes_pendientes'[v] = mensajes_pendientes[v]
  BY <1>1, <1>2, <1>3 DEF Inv1, TypeOK
<1>5. \A u \in Usuarios : /\ Pendiente(u) = mensajes_pendientes[u]
                          /\ Pendiente(u)' = mensajes_pendientes'[u]
  BY <1>1, <1>4, EntregadasFuera, PendienteEntera, PendienteEnteraDespues
  DEF Libre, Inv1, TypeOK
<1> QED
  BY <1>1, <1>2, <1>4, <1>5 DEF resto

\* REGISTER finds no queue behind, and UNREGISTER takes the queues that it loses.
LEMMA ColasRegistrar ==
  ASSUME Inv2, NEW u \in Usuarios, NEW res, RegistrarUsuario(u, res)
  PROVE  \/ ColasQuietas
         \/ /\ Alta(u) /\ Pendiente(u)' = <<>>
            /\ \A v \in Usuarios : Pendiente(v)' = Pendiente(v)
<1> USE DEF Inv2
<1>1. mensajes_pendientes' = mensajes_pendientes
  BY ColaRegistrar
<1>2. mutex_lista = Libre /\ mutex_lista' = Libre
  BY DEF RegistrarUsuario, vars
<1>3. \A v \in Usuarios : Pendiente(v)' = Pendiente(v)
  BY <1>1, <1>2, EntregadasFuera, PendienteIgual DEF Libre
<1>4. CASE lista' = lista
  BY <1>3, <1>4 DEF ColasQuietas
<1>5. CASE Alta(u)
  <2>1. mensajes_pendientes'[u] = <<>> /\ mensajes_pendientes' \in [Usuarios -> Seq(Mensaje)]
    BY <1>1, <1>5 DEF Alta, ColaOrdenada, Inv1, TypeOK
  <2>2. Pendiente(u)' = <<>>
    BY <1>2, <2>1, EntregadasFuera, PendienteEnteraDespues DEF Libre
  <2> QED
    BY <1>3, <1>5, <2>2
<1> QED
  BY <1>4, <1>5 DEF RegistrarUsuario, vars

LEMMA ColasDarDeBaja ==
  ASSUME Inv1, NEW u \in Usuarios, NEW res, DarDeBajaUsuario(u, res)
  PROVE  \/ ColasQuietas
         \/ /\ Baja(u)
            /\ \A v \in Usuarios :
                 Pendiente(v)' = IF v \in Fuera(u) THEN <<>> ELSE Pendiente(v)
<1>0. mutex_lista = Libre /\ mutex_lista' = Libre
  BY DEF DarDeBajaUsuario, vars
<1>1. CASE UNCHANGED vars
  BY <1>0, <1>1, QuietasSiLibre DEF vars, Libre
<1>2. CASE Baja(u) /\ res = 0
  <2>1. /\ \A v \in Fuera(u) : mensajes_pendientes'[v] = <<>>
        /\ \A v \in Usuarios \ Fuera(u) : mensajes_pendientes'[v] = mensajes_pendientes[v]
    BY <1>2, ColaDarDeBaja
  <2>2. mensajes_pendientes' \in [Usuarios -> Seq(Mensaje)]
    <3>1. Inv1'
      BY Inv1DarDeBaja
    <3> QED
      BY <3>1 DEF Inv1, TypeOK
  <2>3. \A v \in Usuarios : /\ Pendiente(v) = mensajes_pendientes[v]
                            /\ Pendiente(v)' = mensajes_pendientes'[v]
    BY <1>0, <2>2, EntregadasFuera, PendienteEntera, PendienteEnteraDespues
    DEF Libre, Inv1, TypeOK
  <2> QED
    BY <1>2, <2>1, <2>3
<1> QED
  BY <1>1, <1>2 DEF DarDeBajaUsuario

\* Every step is a step of Colas, or changes nothing that Colas sees.
LEMMA ColasPaso == Inv2 /\ [Next]_vars => [C!NextColas]_<<lista, pendientes>>
<1> SUFFICES ASSUME Inv2, [Next]_vars PROVE [C!NextColas]_<<lista, pendientes>>
  OBVIOUS
<1>0. Inv1
  BY DEF Inv2
<1>a. ASSUME ColasQuietas PROVE UNCHANGED <<lista, pendientes>>
  BY <1>a DEF ColasQuietas, pendientes
<1> DEFINE Paso(u) == \/ C!Registrar(u) \/ C!Borrar(u)
                      \/ UNCHANGED lista /\ (C!QuitarUltimo(u) \/ C!QuitarPrimero(u))
                      \/ UNCHANGED lista /\ C!Encolar(u)
<1>b. ASSUME NEW u \in Usuarios, Paso(u) PROVE C!NextColas
  BY <1>b DEF C!NextColas
<1>1. CASE UNCHANGED vars
  BY <1>1, <1>a, QuietasSiLibre DEF vars
<1>2. ASSUME NEW u \in Usuarios, NEW res, RegistrarUsuario(u, res)
      PROVE  [C!NextColas]_<<lista, pendientes>>
  <2>1. CASE ColasQuietas
    BY <1>a, <2>1
  <2>2. CASE Alta(u) /\ Pendiente(u)' = <<>> /\ \A v \in Usuarios : Pendiente(v)' = Pendiente(v)
    <3>1. pendientes' = [v \in Usuarios |-> IF v \in {u} THEN <<>> ELSE pendientes[v]]
      BY <2>2 DEF pendientes
    <3>2. C!Registrar(u)
      BY <2>2, <3>1 DEF C!Registrar, C!Alta, C!Existe, C!Vacia, Alta, Existe, pendientes, Pendiente
    <3> QED
      BY <1>b, <3>2
  <2> QED
    BY <1>2, <2>1, <2>2, ColasRegistrar
<1>3. ASSUME NEW u \in Usuarios, NEW res, DarDeBajaUsuario(u, res)
      PROVE  [C!NextColas]_<<lista, pendientes>>
  <2>1. CASE ColasQuietas
    BY <1>a, <2>1
  <2>2. CASE Baja(u) /\ \A v \in Usuarios :
               Pendiente(v)' = IF v \in Fuera(u) THEN <<>> ELSE Pendiente(v)
    <3>1. pendientes' = [v \in Usuarios |-> IF v \in Fuera(u) THEN <<>> ELSE pendientes[v]]
      BY <2>2 DEF pendientes
    <3>2. C!Fuera(u) = Fuera(u) /\ C!Baja(u)
      BY <2>2 DEF C!Fuera, C!Posicion, C!Baja, C!Existe, Fuera, Posicion, Baja, Existe
    <3>3. C!Borrar(u) <=>
            /\ C!Baja(u)
            /\ pendientes' =
                 [v \in Usuarios |-> IF v \in C!Fuera(u) THEN <<>> ELSE pendientes[v]]
      BY DEF C!Borrar, C!Vacia, pendientes, Pendiente
    <3>4. C!Borrar(u)
      BY <3>1, <3>2, <3>3
    <3> QED
      BY <1>b, <3>4
  <2> QED
    BY <1>0, <1>3, <2>1, <2>2, ColasDarDeBaja
<1>4. ASSUME NEW u \in Usuarios, NEW i, NEW p, ConectarUsuario(u, i, p)
      PROVE  [C!NextColas]_<<lista, pendientes>>
  BY <1>4, <1>a, ConectarQuieto
<1>5. ASSUME NEW u \in Usuarios, NEW res,
             \/ ConectarRechazado(u, res) \/ Users(u, res)
             \/ \E i \in IPs : DesconectarUsuario(u, i, res)
             \/ \E d \in Usuarios : EnviarRechazado(u, d, res)
      PROVE  [C!NextColas]_<<lista, pendientes>>
  <2>1. UNCHANGED <<lista, mensajes_pendientes, mutex_lista>>
    BY <1>5 DEF ConectarRechazado, Users, DesconectarUsuario, EnviarRechazado, vars
  <2> QED
    BY <1>a, <2>1, QuietasSiLibre
<1>6. ASSUME NEW ack, EntregarPendiente(ack)
      PROVE  [C!NextColas]_<<lista, pendientes>>
  <2>1. PICK u \in Usuarios :
           /\ Pendiente(u) # <<>>
           /\ Pendiente(u)' = Tail(Pendiente(u))
           /\ lista' = lista /\ \A v \in Usuarios \ {u} : Pendiente(v)' = Pendiente(v)
    BY <1>0, <1>6, ColasEntregar
  <2>2. pendientes[u] # <<>> /\ pendientes' = [pendientes EXCEPT ![u] = Tail(@)]
    BY <2>1 DEF pendientes
  <2>3. C!QuitarPrimero(u)
    BY <2>2 DEF C!QuitarPrimero, pendientes, Pendiente
  <2> QED
    BY <1>b, <2>1, <2>3
<1>7. ASSUME NEW falla, ConectarFin(falla)
      PROVE  [C!NextColas]_<<lista, pendientes>>
  BY <1>0, <1>7, <1>a, ColasConectarFin
<1>8. ASSUME NEW r \in Usuarios, NEW d \in Usuarios, NEW f \in Adjuntos, EnviarMensaje(r, d, f)
      PROVE  [C!NextColas]_<<lista, pendientes>>
  <2>1. PICK m \in Mensaje :
           /\ Existe(d) /\ lista' = lista
           /\ \A u \in Usuarios : \A i \in 1..Len(Pendiente(u)) : Pendiente(u)[i] # m
           /\ Pendiente(d) \in Seq(Mensaje)
           /\ Pendiente(d)' = Append(Pendiente(d), m)
           /\ \A v \in Usuarios \ {d} : Pendiente(v)' = Pendiente(v)
    BY <1>8, ColasEnviar
  <2>2. pendientes' = [pendientes EXCEPT ![d] = Append(@, m)]
    BY <2>1 DEF pendientes
  <2>3. /\ Len(pendientes[d]) \in Nat
        /\ pendientes'[d] = Append(pendientes[d], m)
        /\ Len(pendientes'[d]) = Len(pendientes[d]) + 1
        /\ pendientes'[d][Len(pendientes'[d])] = m
    <3>1. pendientes[d] \in Seq(Mensaje) /\ pendientes'[d] = Append(pendientes[d], m)
      BY <2>1 DEF pendientes
    <3> QED
      BY <3>1, LenProperties, AppendProperties
  <2>4. \A u \in Usuarios : \A i \in 1..Len(pendientes[u]) : pendientes[u][i] # m
    BY <2>1 DEF pendientes
  <2>5. C!Existe(d)
    BY <2>1 DEF C!Existe, Existe
  <2>6. C!Encolar(d)
    <3> DEFINE x == pendientes'[d][Len(pendientes'[d])]
    <3>1. C!Encolar(d) <=>
            /\ C!Existe(d) /\ Len(pendientes'[d]) > Len(pendientes[d])
            /\ ~ \E u \in Usuarios : \E i \in 1..Len(pendientes[u]) : pendientes[u][i] = x
            /\ pendientes' = [pendientes EXCEPT ![d] = Append(@, x)]
      BY DEF C!Encolar, C!EnAlguna, pendientes, Pendiente
    <3>2. x = m /\ Len(pendientes'[d]) > Len(pendientes[d])
      BY <2>3
    <3> HIDE DEF x
    <3> QED
      BY <2>2, <2>4, <2>5, <3>1, <3>2
  <2> QED
    BY <1>b, <2>1, <2>6
<1>9. ASSUME NEW ack, EnviarEntrega(ack)
      PROVE  [C!NextColas]_<<lista, pendientes>>
  <2>1. PICK d \in Usuarios :
           /\ Pendiente(d) # <<>>
           /\ Pendiente(d)' = SubSeq(Pendiente(d), 1, Len(Pendiente(d)) - 1)
           /\ lista' = lista /\ \A v \in Usuarios \ {d} : Pendiente(v)' = Pendiente(v)
    BY <1>0, <1>9, ColasEntrega
  <2>2. /\ pendientes[d] # <<>>
        /\ pendientes' = [pendientes EXCEPT ![d] = SubSeq(@, 1, Len(@) - 1)]
    BY <2>1 DEF pendientes
  <2>3. C!QuitarUltimo(d)
    BY <2>2 DEF C!QuitarUltimo, pendientes, Pendiente
  <2> QED
    BY <1>b, <2>1, <2>3
<1>10. CASE EnviarFalla
  <2>1. /\ UNCHANGED <<lista, mensajes_pendientes>>
        /\ mutex_lista.op # "conectar" /\ mutex_lista'.op # "conectar"
    BY <1>10 DEF EnviarFalla, Libre
  <2> QED
    BY <1>a, <2>1, QuietasSiLibre
<1> HIDE DEF Paso
<1> QED
  BY <1>1, <1>2, <1>3, <1>4, <1>5, <1>6, <1>7, <1>8, <1>9, <1>10
  DEF Next, Peticion, Continuar

\* What any request finds in the list and in the queues, whatever was freed of them
\* in between, is what a sequence of names and a sequence for each would hold.
THEOREM ColasCumplidas == Spec => ImplementaColas
<1>1. Init => C!InitColas
  <2> SUFFICES ASSUME Init PROVE C!InitColas
    OBVIOUS
  <2>1. \A u \in Usuarios : Pendiente(u) = <<>>
    <3> TAKE u \in Usuarios
    <3>1. mensajes_pendientes[u] = <<>> /\ mutex_lista = Libre
      BY DEF Init
    <3>2. Entregadas(u) = 0
      BY <3>1 DEF Entregadas, Libre
    <3>3. mensajes_pendientes \in [Usuarios -> Seq(Mensaje)]
      BY EmptySeq DEF Init
    <3> QED
      BY <3>1, <3>2, <3>3, PendienteEntera
  <2>2. pendientes = [u \in Usuarios |-> <<>>]
    BY <2>1 DEF pendientes
  <2> QED
    BY <2>2 DEF Init, C!InitColas, C!InitLista, InitLista, pendientes, Pendiente
<1>2. Inv2 /\ [Next]_vars => [C!NextColas]_<<lista, pendientes>>
  BY ColasPaso
<1>3. <<lista, pendientes>> =
        <<lista, [u \in Usuarios |->
           SubSeq(mensajes_pendientes[u], Entregadas(u) + 1, Len(mensajes_pendientes[u]))]>>
  BY DEF pendientes, Pendiente
<1> QED
  BY <1>1, <1>2, <1>3, Inv2Siempre, PTL DEF Spec, ImplementaColas, C!SpecColas, pendientes, Pendiente
-----------------------------------------------------------------------------
\* Where a step that does not add to the queue of u, nor connects u, nor ends an
\* operation on u, leaves no backlog.
Ocupa(u) == mutex_lista.op \in {"conectar", "enviar"} /\ mutex_lista.usuario = u

LEMMA RezagoIgual ==
  ASSUME NEW u \in Usuarios, mensajes_pendientes'[u] = mensajes_pendientes[u],
         conectado'[u] => conectado[u],
         \/ ~Ocupa(u) /\ ~Ocupa(u)'
         \/ mutex_lista'.op = mutex_lista.op /\ mutex_lista'.usuario = mutex_lista.usuario
  PROVE  Rezago(u)' => Rezago(u)
BY DEF Rezago, Ocupa

LEMMA SoloUno ==
  ASSUME NEW S, NEW s \in Seq(S), s # <<>>, SubSeq(s, 1, Len(s) - 1) # <<>>
  PROVE  Len(s) > 1
<1>1. Len(s) \in Nat
  BY LenProperties
<1>2. SUFFICES ASSUME Len(s) = 1 PROVE FALSE
  <2>1. Len(s) # 0
    BY EmptySeq
  <2> QED
    BY <1>1, <1>2, <2>1
<1>3. SubSeq(s, 1, 0) = <<>>
  BY SubSeqProperties, EmptySeq
<1> QED
  BY <1>2, <1>3

\* A delivery may disconnect a user and never connects one.
LEMMA EntregarSoloBaja ==
  ASSUME TypeOK, NEW d, NEW m \in Mensaje, NEW ack, EntregarMensaje(d, m, ack)
  PROVE  \A u \in Usuarios : conectado'[u] => conectado[u]
<1>1. \/ conectado' = conectado
      \/ conectado' = [conectado EXCEPT ![m.remitente] = FALSE]
  BY DEF EntregarMensaje, red
<1>2. conectado \in [Usuarios -> BOOLEAN]
  BY DEF TypeOK
<1> QED
  BY <1>1, <1>2

LEMMA RezagoPaso ==
  Inv1 /\ [Next]_vars => \A u \in Usuarios : Rezago(u)' => Rezago(u) \/ FallaEntrega(u)
<1> SUFFICES ASSUME Inv1, [Next]_vars, NEW u \in Usuarios
             PROVE  Rezago(u)' => Rezago(u) \/ FallaEntrega(u)
  OBVIOUS
<1>0. TypeOK /\ conectado \in [Usuarios -> BOOLEAN]
      /\ mensajes_pendientes \in [Usuarios -> Seq(Mensaje)]
  BY DEF Inv1, TypeOK
<1>a. ASSUME UNCHANGED mutex_lista, UNCHANGED mensajes_pendientes,
             conectado'[u] => conectado[u]
      PROVE  Rezago(u)' => Rezago(u)
  BY <1>a, RezagoIgual
<1>1. CASE UNCHANGED vars
  BY <1>1, <1>a DEF vars, red
<1>2. ASSUME NEW v \in Usuarios, NEW res, RegistrarUsuario(v, res), ~UNCHANGED vars
      PROVE  Rezago(u)' => Rezago(u)
  <2>1. /\ conectado' = [conectado EXCEPT ![v] = FALSE]
        /\ mensajes_pendientes' = [mensajes_pendientes EXCEPT ![v] = <<>>]
        /\ UNCHANGED mutex_lista
    BY <1>2 DEF RegistrarUsuario
  <2>2. CASE u = v
    BY <1>0, <2>1, <2>2 DEF Rezago
  <2>3. CASE u # v
    BY <1>0, <2>1, <2>3, RezagoIgual
  <2> QED
    BY <2>2, <2>3
<1>3. ASSUME NEW v \in Usuarios, NEW res, DarDeBajaUsuario(v, res), ~UNCHANGED vars
      PROVE  Rezago(u)' => Rezago(u)
  <2>1. /\ conectado' = [w \in Usuarios |-> w \notin Fuera(v) /\ conectado[w]]
        /\ mensajes_pendientes' =
             [w \in Usuarios |-> IF w \in Fuera(v) THEN <<>> ELSE mensajes_pendientes[w]]
        /\ UNCHANGED mutex_lista
    BY <1>3 DEF DarDeBajaUsuario
  <2>2. CASE u \in Fuera(v)
    BY <1>0, <2>1, <2>2 DEF Rezago
  <2>3. CASE u \notin Fuera(v)
    BY <1>0, <2>1, <2>3, RezagoIgual
  <2> QED
    BY <2>2, <2>3
<1>4. ASSUME NEW v \in Usuarios, NEW i, NEW p, ConectarUsuario(v, i, p)
      PROVE  Rezago(u)' => Rezago(u)
  <2>1. /\ conectado' = [conectado EXCEPT ![v] = TRUE]
        /\ mutex_lista = Libre /\ mutex_lista' = [op |-> "conectar", usuario |-> v, k |-> 0]
        /\ UNCHANGED mensajes_pendientes
    BY <1>4 DEF ConectarUsuario
  <2>2. CASE u = v
    BY <2>1, <2>2 DEF Rezago
  <2>3. CASE u # v
    BY <1>0, <2>1, <2>3, RezagoIgual DEF Ocupa, Libre
  <2> QED
    BY <2>2, <2>3
<1>5. ASSUME NEW v \in Usuarios, NEW res,
             \/ ConectarRechazado(v, res) \/ Users(v, res)
             \/ \E i \in IPs : DesconectarUsuario(v, i, res)
             \/ \E d \in Usuarios : EnviarRechazado(v, d, res)
      PROVE  Rezago(u)' => Rezago(u)
  <2>1. /\ UNCHANGED <<mensajes_pendientes, mutex_lista>>
        /\ conectado' = conectado \/ conectado' = [conectado EXCEPT ![v] = FALSE]
    BY <1>5 DEF ConectarRechazado, Users, DesconectarUsuario, EnviarRechazado, vars, red
  <2>2. conectado'[u] => conectado[u]
    BY <1>0, <2>1
  <2> QED
    BY <1>a, <2>1, <2>2
<1>6. ASSUME NEW ack, EntregarPendiente(ack)
      PROVE  Rezago(u)' => Rezago(u)
  <2>1. PICK v \in Usuarios, k \in Nat :
          mutex_lista = [op |-> "conectar", usuario |-> v, k |-> k]
    BY <1>0, <1>6, CasosEnCurso DEF TypeOK, EntregarPendiente
  <2>2. /\ mutex_lista' = [op |-> "conectar", usuario |-> v, k |-> k + 1]
        /\ UNCHANGED mensajes_pendientes
        /\ k < Len(mensajes_pendientes[v])
        /\ EntregarMensaje(v, mensajes_pendientes[v][k + 1], ack)
    BY <1>6, <2>1 DEF EntregarPendiente
  <2>3. mensajes_pendientes[v][k + 1] \in Mensaje
    BY <2>2, MensajesDeCola
  <2>4. conectado'[u] => conectado[u]
    BY <1>0, <2>2, <2>3, EntregarSoloBaja
  <2> QED
    BY <2>1, <2>2, <2>4, RezagoIgual
<1>7. ASSUME NEW falla \in BOOLEAN, ConectarFin(falla)
      PROVE  Rezago(u)' => Rezago(u) \/ FallaEntrega(u)
  <2>1. PICK v \in Usuarios, k \in Nat :
          mutex_lista = [op |-> "conectar", usuario |-> v, k |-> k]
    BY <1>0, <1>7, CasosEnCurso DEF TypeOK, ConectarFin
  <2> DEFINE q == mensajes_pendientes[v]
             resto == SubSeq(q, k + 1, Len(q))
  <2>2. /\ mutex_lista' = Libre /\ UNCHANGED conectado
        /\ falla <=> k < Len(q)
        /\ mensajes_pendientes' = [mensajes_pendientes EXCEPT ![v] = resto]
    BY <1>7, <2>1 DEF ConectarFin, red
  <2>3. CASE u = v
    <3>1. q \in Seq(Mensaje) /\ k <= Len(q) /\ Len(q) \in Nat
      BY <1>0, <2>1, LenProperties DEF Inv1, EnCursoCoherente, Libre
    <3>2. resto \in Seq(Mensaje) /\ Len(resto) = Len(q) - k
      BY <3>1, Sufijo
    <3> HIDE DEF resto
    <3>3. resto # <<>> => falla = TRUE
      BY <2>2, <3>1, <3>2, EmptySeq
    <3>4. mensajes_pendientes'[u] = resto
      BY <1>0, <2>2, <2>3
    <3>5. Rezago(u)' => resto # <<>>
      BY <2>2, <3>4 DEF Rezago, Libre
    <3>6. falla = TRUE => FallaEntrega(u)
      BY <1>7, <2>1, <2>3 DEF FallaEntrega, Libre
    <3> QED
      BY <3>3, <3>5, <3>6
  <2>4. CASE u # v
    <3>1. mensajes_pendientes'[u] = mensajes_pendientes[u]
      BY <1>0, <2>2, <2>4
    <3> QED
      BY <2>1, <2>2, <2>4, <3>1, RezagoIgual DEF Ocupa, Libre
  <2> QED
    BY <2>3, <2>4
<1>8. ASSUME NEW r \in Usuarios, NEW d \in Usuarios, NEW f \in Adjuntos, EnviarMensaje(r, d, f)
      PROVE  Rezago(u)' => Rezago(u)
  <2>1. PICK m \in Mensaje :
          mensajes_pendientes' =
            [mensajes_pendientes EXCEPT ![d] = Append(mensajes_pendientes[d], m)]
    BY <1>8, ColaEnviarMensaje
  <2>2. /\ mutex_lista = Libre /\ UNCHANGED conectado
        /\ mutex_lista' = IF conectado[d] THEN [op |-> "enviar", usuario |-> d] ELSE Libre
    BY <1>8 DEF EnviarMensaje, red
  <2>3. CASE u = d
    <3>1. /\ mensajes_pendientes'[u] = Append(mensajes_pendientes[u], m)
          /\ Len(mensajes_pendientes'[u]) = Len(mensajes_pendientes[u]) + 1
          /\ mensajes_pendientes[u] = <<>> => Len(mensajes_pendientes[u]) = 0
      BY <1>0, <2>1, <2>3, AppendProperties
    <3>2. Rezago(u)' => conectado[u] /\ Len(mensajes_pendientes'[u]) > 1
      BY <2>2, <2>3 DEF Rezago, Libre
    <3> QED
      BY <2>2, <3>1, <3>2 DEF Rezago, Libre
  <2>4. CASE u # d
    <3>1. mensajes_pendientes'[u] = mensajes_pendientes[u]
      BY <1>0, <2>1, <2>4
    <3> QED
      BY <2>2, <2>4, <3>1, RezagoIgual DEF Ocupa, Libre
  <2> QED
    BY <2>3, <2>4
<1>9. ASSUME NEW ack, EnviarEntrega(ack)
      PROVE  Rezago(u)' => Rezago(u)
  <2>1. PICK d \in Usuarios : mutex_lista = [op |-> "enviar", usuario |-> d]
    BY <1>0, <1>9, CasosEnCurso DEF TypeOK, EnviarEntrega
  <2> DEFINE q == mensajes_pendientes[d]
             resto == SubSeq(q, 1, Len(q) - 1)
  <2>2. /\ mutex_lista' = Libre
        /\ EntregarMensaje(d, q[Len(q)], ack)
        /\ mensajes_pendientes' = [mensajes_pendientes EXCEPT ![d] = resto]
    BY <1>9, <2>1 DEF EnviarEntrega
  <2>3. q # <<>> /\ q \in Seq(Mensaje) /\ Len(q) \in Nat /\ Len(q) > 0
    BY <1>0, <2>1, MensajesDeCola DEF Inv1, EnCursoCoherente, Libre
  <2>4. q[Len(q)] \in Mensaje
    BY <2>3, ElementOfSeq
  <2>5. conectado'[u] => conectado[u]
    BY <1>0, <2>2, <2>4, EntregarSoloBaja
  <2>6. CASE u = d
    <3>1. resto # <<>> => Len(q) > 1
      BY <2>3, SoloUno
    <3> HIDE DEF resto
    <3>2. mensajes_pendientes'[u] = resto
      BY <1>0, <2>2, <2>6
    <3>3. Rezago(u)' => conectado[u] /\ resto # <<>>
      BY <2>2, <2>5, <3>2 DEF Rezago, Libre
    <3>4. conectado[u] /\ Len(q) > 1 => Rezago(u)
      BY <2>1, <2>6 DEF Rezago
    <3> QED
      BY <3>1, <3>3, <3>4
  <2>7. CASE u # d
    <3>1. mensajes_pendientes'[u] = mensajes_pendientes[u]
      BY <1>0, <2>2, <2>7
    <3> QED
      BY <2>1, <2>2, <2>5, <2>7, <3>1, RezagoIgual DEF Ocupa, Libre
  <2> QED
    BY <2>6, <2>7
<1>10. CASE EnviarFalla
  <2>1. PICK d \in Usuarios : mutex_lista = [op |-> "enviar", usuario |-> d]
    BY <1>0, <1>10, CasosEnCurso DEF TypeOK, EnviarFalla
  <2>2. mutex_lista' = Libre /\ UNCHANGED <<conectado, mensajes_pendientes>>
    BY <1>10 DEF EnviarFalla, red
  <2>3. CASE u = d
    BY <1>10, <2>1, <2>3 DEF FallaEntrega, Libre
  <2>4. CASE u # d
    BY <2>1, <2>2, <2>4, RezagoIgual DEF Ocupa, Libre
  <2> QED
    BY <2>3, <2>4
<1> QED
  BY <1>1, <1>2, <1>3, <1>4, <1>5, <1>6, <1>7, <1>8, <1>9, <1>10
  DEF Next, Peticion, Continuar

\* A connected user comes to have messages waiting only because a connection to it
\* failed: nothing that arrives during a flush, and no confirmation that fails,
\* leaves a message behind.
THEOREM RezagoSoloTrasFallo == Spec => RezagoSoloPorFallo
<1>1. Inv1 /\ [Next]_vars =>
        [\A u \in Usuarios : Rezago(u)' => Rezago(u) \/ FallaEntrega(u)]_vars
  BY RezagoPaso
<1> QED
  BY <1>1, Inv1Siempre, PTL DEF Spec, RezagoSoloPorFallo
-----------------------------------------------------------------------------
\* No name is met twice in the list, so existe_usuario finds the node that an
\* operation means, and a removal takes away all there was of its user.
SinRepetidos == \A i, j \in 1..Len(lista) : lista[i] = lista[j] => i = j

LEMMA RepetidosAlta ==
  ASSUME lista \in Seq(Usuarios), SinRepetidos, NEW u \in Usuarios, Alta(u)
  PROVE  SinRepetidos'
<1>1. /\ <<u>> \in Seq(Usuarios)
      /\ Len(<<u>>) = 1
      /\ <<u>>[1] = u
  OBVIOUS
<1>2. /\ Len(lista') = 1 + Len(lista)
      /\ \A i \in 1..(1 + Len(lista)) :
           lista'[i] = IF i <= 1 THEN u ELSE lista[i - 1]
  BY <1>1, ConcatProperties DEF Alta
<1>3. Len(lista) \in Nat
  BY LenProperties
<1>4. \A i \in 1..Len(lista) : lista[i] # u
  BY DEF Alta, Existe
<1> SUFFICES ASSUME NEW i \in 1..Len(lista'), NEW j \in 1..Len(lista'), lista'[i] = lista'[j]
             PROVE  i = j
  BY DEF SinRepetidos
<1>5. CASE i = 1
  BY <1>2, <1>3, <1>4, <1>5
<1>6. CASE j = 1
  BY <1>2, <1>3, <1>4, <1>6
<1>7. CASE i # 1 /\ j # 1
  <2>1. i - 1 \in 1..Len(lista) /\ j - 1 \in 1..Len(lista)
    BY <1>2, <1>3, <1>7
  <2>2. lista[i - 1] = lista[j - 1]
    BY <1>2, <1>3, <1>7
  <2>3. i - 1 = j - 1
    BY <2>1, <2>2 DEF SinRepetidos
  <2> QED
    BY <1>2, <1>3, <2>3
<1> QED
  BY <1>5, <1>6, <1>7

LEMMA RepetidosBaja ==
  ASSUME lista \in Seq(Usuarios), SinRepetidos, NEW u \in Usuarios, Baja(u)
  PROVE  SinRepetidos' /\ ~Existe(u)'
<1>1. Posicion(u) \in 1..Len(lista) /\ lista[Posicion(u)] = u
  BY DEF Baja, Existe, Posicion
<1>2. Len(lista) \in Nat
  BY LenProperties
<1> DEFINE k == Posicion(u)
<1> HIDE DEF k
<1>3. k \in Nat /\ k <= Len(lista) /\ lista' = SubSeq(lista, k + 1, Len(lista))
      /\ k \in 1..Len(lista) /\ lista[k] = u
  BY <1>1, <1>2 DEF Baja, k
<1>4. /\ Len(lista') = Len(lista) - k
      /\ \A i \in 1..(Len(lista) - k) : lista'[i] = lista[k + i]
  BY <1>3, Sufijo
<1>5. \A i \in 1..Len(lista') : k + i \in 1..Len(lista) /\ lista'[i] = lista[k + i]
  BY SMTT(20), <1>2, <1>3, <1>4
<1>6. ASSUME NEW i \in 1..Len(lista'), NEW j \in 1..Len(lista'), lista'[i] = lista'[j]
      PROVE  i = j
  <2>1. k + i = k + j
    BY <1>5, <1>6 DEF SinRepetidos
  <2> QED
    BY <1>2, <1>3, <1>4, <2>1
<1>7. ASSUME NEW i \in 1..Len(lista') PROVE lista'[i] # u
  <2>1. k + i # k
    BY <1>2, <1>3, <1>4
  <2> QED
    BY <1>3, <1>5, <2>1 DEF SinRepetidos
<1> QED
  BY <1>6, <1>7 DEF SinRepetidos, Existe

\* No name is ever registered twice, whatever UNREGISTER makes unreachable.
THEOREM NombresUnicos == Spec => []SinRepetidos
<1>1. Init => SinRepetidos
  <2>1. 1..Len(<<>>) = {}
    OBVIOUS
  <2> QED
    BY <2>1 DEF Init, InitLista, SinRepetidos
<1>2. Inv1 /\ SinRepetidos /\ [Next]_vars => SinRepetidos'
  <2> SUFFICES ASSUME Inv1, SinRepetidos, [Next]_vars PROVE SinRepetidos'
    OBVIOUS
  <2>1. lista \in Seq(Usuarios)
    BY DEF Inv1, TypeOK
  <2>2. CASE lista' = lista
    BY <2>2 DEF SinRepetidos
  <2>3. \/ lista' = lista
        \/ \E u \in Usuarios : Alta(u) \/ Baja(u)
    <3>1. ASSUME NEW u \in Usuarios, NEW res \in 0..3, RegistrarUsuario(u, res)
          PROVE  lista' = lista \/ Alta(u)
      BY <3>1 DEF RegistrarUsuario, vars
    <3>2. ASSUME NEW u \in Usuarios, NEW res \in 0..3, DarDeBajaUsuario(u, res)
          PROVE  lista' = lista \/ Baja(u)
      BY <3>2 DEF DarDeBajaUsuario, vars
    <3>3. ASSUME NEW u \in Usuarios, NEW d \in Usuarios, NEW i, NEW p, NEW f, NEW res,
                 \/ ConectarRechazado(u, res) \/ Users(u, res)
                 \/ DesconectarUsuario(u, i, res) \/ EnviarRechazado(u, d, res)
                 \/ ConectarUsuario(u, i, p) \/ EnviarMensaje(u, d, f)
          PROVE  lista' = lista
      BY <3>3 DEF ConectarRechazado, Users, DesconectarUsuario, EnviarRechazado,
                  ConectarUsuario, EnviarMensaje, vars
    <3>4. CASE Continuar
      BY <3>4 DEF Continuar, EntregarPendiente, EnviarEntrega, ConectarFin, EnviarFalla
    <3>5. CASE UNCHANGED vars
      BY <3>5 DEF vars
    <3>6. CASE Peticion
      BY <3>1, <3>2, <3>3, <3>6 DEF Peticion
    <3> QED
      BY <3>4, <3>5, <3>6 DEF Next
  <2> QED
    BY <2>1, <2>2, <2>3, RepetidosAlta, RepetidosBaja
<1> QED
  BY <1>1, <1>2, Inv1Siempre, PTL DEF Spec
=============================================================================
