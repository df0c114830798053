------------------------- MODULE ListaEnlazadaProofs ------------------------
(***************************************************************************)
(* Proofs about ListaEnlazada for any number of users and of nodes that    *)
(* fit in memory: behind every pointer there is a path of nodes that ends, *)
(* the paths do not meet, and what is read along them is what Colas says.  *)
(***************************************************************************)
EXTENDS ListaEnlazada, Induccion, SequenceTheorems, FiniteSetTheorems, TLAPS

Nodo == NodoCliente \cup NodoMensaje \cup {Libre}

\* What follows in s, or the end.
En(s, i) == IF i <= Len(s) THEN s[i] ELSE NULO

\* From p on, the memory has the nodes of s, one after the other and no other.
Camino(mem, p, s) ==
  /\ s \in Seq(Direcciones)
  /\ \A i, j \in 1..Len(s) : s[i] = s[j] => i = j
  /\ p = En(s, 1)
  /\ \A i \in 1..Len(s) : mem[s[i]] # Libre /\ mem[s[i]].next = En(s, i + 1)

Rango(s) == {s[i] : i \in 1..Len(s)}

\* Where the messages of client a begin, for the operation in progress cur.
Pend(mem, cur, a) ==
  IF cur.op = "conectar" /\ cur.cliente = a THEN cur.mensaje
  ELSE mem[a].mensajes_pendientes

\* The clients are the nodes of s, each has its own name and no predecessor, and the
\* messages of client a are the nodes of q[a], in no other queue; the operation in
\* progress has one of the clients, and SEND the last of its messages.
Clientela(mem, h, s) ==
  /\ Camino(mem, h, s)
  /\ \A i \in 1..Len(s) : mem[s[i]] \in NodoCliente /\ mem[s[i]].before = NULO
  /\ \A i, j \in 1..Len(s) : mem[s[i]].nombre = mem[s[j]].nombre => i = j

Buzones(mem, cur, s, q) ==
  /\ \A a \in Rango(s) :
       /\ Camino(mem, Pend(mem, cur, a), q[a])
       /\ \A j \in 1..Len(q[a]) : mem[q[a][j]] \in NodoMensaje
  /\ \A a, b \in Rango(s) : a # b => Rango(q[a]) \cap Rango(q[b]) = {}

EnMano(cur, s, q) ==
  \/ cur = Ninguno
  \/ /\ cur.op \in {"conectar", "enviar"} /\ cur.cliente \in Rango(s)
     /\ cur.op = "enviar" => /\ q[cur.cliente] # <<>>
                             /\ cur.mensaje = q[cur.cliente][Len(q[cur.cliente])]

Forma(mem, h, cur, s, q) ==
  /\ q \in [Direcciones -> Seq(Direcciones)]
  /\ Clientela(mem, h, s) /\ Buzones(mem, cur, s, q) /\ EnMano(cur, s, q)

Inv == TypeOK /\ \E s, q : Forma(nodo, head, curso, s, q)
-----------------------------------------------------------------------------
\* The kinds of nodes are told apart.
LEMMA Clases ==
  ASSUME NEW x
  PROVE  /\ x \in NodoCliente => x \notin NodoMensaje /\ x # Libre
         /\ x \in NodoMensaje => x \notin NodoCliente /\ x # Libre
<1>1. x \in NodoCliente => "nombre" \in DOMAIN x /\ "contenido" \notin DOMAIN x
                           /\ "libre" \notin DOMAIN x
  BY DEF NodoCliente
<1>2. x \in NodoMensaje => "nombre" \notin DOMAIN x /\ "contenido" \in DOMAIN x
                           /\ "libre" \notin DOMAIN x
  BY DEF NodoMensaje
<1>3. x = Libre => "libre" \in DOMAIN x
  BY DEF Libre
<1> QED
  BY <1>1, <1>2, <1>3

\* The walk of a pointer.
Pasos(f, p, sig) ==
  f = [k \in 0..Cardinality(Direcciones) |-> IF k = 0 THEN p ELSE sig[f[k - 1]]]

\* A path is no longer than the memory.
LEMMA CaminoCabe ==
  ASSUME NEW mem, NEW p, NEW s, Camino(mem, p, s)
  PROVE  Len(s) \in Nat /\ Cardinality(Direcciones) \in Nat
         /\ Len(s) <= Cardinality(Direcciones)
<1>1. Len(s) \in Nat /\ IsFiniteSet(Direcciones) /\ Cardinality(Direcciones) \in Nat
  BY ListaEnlazadaSupuestos, FS_CardinalityType DEF Camino
<1>2. s \in Injection(1..Len(s), Direcciones)
  BY DEF Camino, Injection, IsInjective
<1>3. IsFiniteSet(1..Len(s)) /\ Cardinality(1..Len(s)) = Len(s)
  <2>1. \A b \in Int : IsFiniteSet(1..b) /\ Cardinality(1..b) = IF 1 > b THEN 0 ELSE b - 1 + 1
    BY FS_Interval
  <2> QED
    BY <1>1, <2>1
<1>4. Cardinality(1..Len(s)) <= Cardinality(Direcciones)
  BY <1>1, <1>2, <1>3, FS_Injection
<1> QED
  BY <1>1, <1>3, <1>4

LEMMA PasosDeCamino ==
  ASSUME TypeOK, NEW p, NEW s, Camino(nodo, p, s)
  PROVE  LET g == [k \in 0..Cardinality(Direcciones) |-> En(s, k + 1)] IN
         Pasos(g, p, Siguiente) /\ \A f : Pasos(f, p, Siguiente) => f = g
<1> DEFINE N == Cardinality(Direcciones)
           g == [k \in 0..N |-> En(s, k + 1)]
<1>1. Len(s) \in Nat /\ N \in Nat /\ Len(s) <= N
  BY CaminoCabe
<1> HIDE DEF N
<1>2. ASSUME NEW k \in 1..N PROVE Siguiente[En(s, k)] = En(s, k + 1)
  <2>1. CASE k <= Len(s)
    <3>1. s[k] \in Direcciones /\ s[k] # NULO /\ k \in 1..Len(s)
      BY <1>1, <2>1, ListaEnlazadaSupuestos DEF Camino
    <3> QED
      BY <2>1, <3>1 DEF Siguiente, Punteros, En, Camino
  <2>2. CASE ~(k <= Len(s))
    BY <1>1, <2>2 DEF Siguiente, Punteros, En
  <2> QED
    BY <2>1, <2>2
<1>3. p = En(s, 1)
  BY DEF Camino
<1>4. Pasos(g, p, Siguiente)
  <2> DEFINE d == [k \in 0..N |-> IF k = 0 THEN p ELSE Siguiente[g[k - 1]]]
  <2>1. ASSUME NEW k \in 0..N PROVE g[k] = d[k]
    <3>1. CASE k = 0
      BY <1>1, <1>3, <3>1
    <3>2. CASE k # 0
      <4>1. k \in 1..N /\ k - 1 \in 0..N /\ (k - 1) + 1 = k
        BY <1>1, <3>2
      <4> QED
        BY <1>2, <3>2, <4>1
    <3> QED
      BY <3>1, <3>2
  <2>2. g = d
    BY <2>1
  <2> QED
    BY <2>2 DEF Pasos, N
<1>5. ASSUME NEW f, Pasos(f, p, Siguiente) PROVE f = g
  <2>1. f = [k \in 0..N |-> IF k = 0 THEN p ELSE Siguiente[f[k - 1]]]
    BY <1>5 DEF Pasos, N
  <2> DEFINE T == {k \in Nat : k \in 0..N => f[k] = g[k]}
  <2>2. 0 \in T
    BY <1>1, <1>3, <2>1
  <2>3. \A k \in T : k + 1 \in T
    <3> SUFFICES ASSUME NEW k \in Nat, k \in 0..N => f[k] = g[k], k + 1 \in 0..N
                 PROVE  f[k + 1] = g[k + 1]
      OBVIOUS
    <3>1. k \in 0..N /\ k + 1 \in 1..N /\ k + 1 # 0 /\ (k + 1) - 1 = k
      BY <1>1
    <3>2. f[k] = En(s, k + 1)
      BY <3>1
    <3>3. f[k + 1] = Siguiente[f[k]]
      BY <2>1, <3>1
    <3> QED
      BY <1>2, <3>1, <3>2, <3>3
  <2>4. T = Nat
    <3>1. T \in SUBSET Nat
      OBVIOUS
    <3> HIDE DEF T
    <3> QED
      BY <2>2, <2>3, <3>1, Induccion
  <2>5. \A k \in 0..N : f[k] = g[k]
    <3> SUFFICES ASSUME NEW k \in 0..N PROVE f[k] = g[k]
      OBVIOUS
    <3>1. k \in Nat
      BY <1>1
    <3>2. k \in T
      <4> HIDE DEF T
      <4> QED
        BY <2>4, <3>1
    <3> QED
      BY <3>2
  <2>6. f = [k \in 0..N |-> f[k]]
    BY <2>1
  <2> QED
    BY <2>5, <2>6
<1> QED
  BY <1>4, <1>5 DEF N

\* The walk of a pointer meets the nodes of the path behind it.
LEMMA RecorridoDeCamino ==
  ASSUME TypeOK, NEW p, NEW s, Camino(nodo, p, s)
  PROVE  Recorrido(p) = s
<1> DEFINE N == Cardinality(Direcciones)
           paso == CHOOSE f : Pasos(f, p, Siguiente)
           P == {k \in DOMAIN paso : paso[k] # NULO}
<1>1. Len(s) \in Nat /\ N \in Nat /\ Len(s) <= N
  BY CaminoCabe
<1>2. paso = [k \in 0..N |-> En(s, k + 1)]
  BY PasosDeCamino
<1> HIDE DEF N, paso
<1>3. P = 0..(Len(s) - 1)
  <2>1. DOMAIN paso = 0..N
    BY <1>2 DEF N
  <2>2. ASSUME NEW k \in 0..N PROVE paso[k] # NULO <=> k \in 0..(Len(s) - 1)
    <3>1. paso[k] = En(s, k + 1)
      BY <1>2 DEF N
    <3>2. k + 1 <= Len(s) => s[k + 1] \in Direcciones
      BY <1>1 DEF Camino
    <3>3. k + 1 <= Len(s) <=> k \in 0..(Len(s) - 1)
      BY <1>1
    <3> QED
      BY <3>1, <3>2, <3>3, ListaEnlazadaSupuestos DEF En
  <2>3. 0..(Len(s) - 1) \subseteq 0..N
    BY <1>1
  <2> QED
    BY <2>1, <2>2, <2>3
<1>4. Cardinality(P) = Len(s)
  <2>1. \A b \in Int : Cardinality(0..b) = IF 0 > b THEN 0 ELSE b - 0 + 1
    BY FS_Interval
  <2>2. PICK b \in Int : b = Len(s) - 1
    BY <1>1
  <2>3. P = 0..b
    BY <1>3, <2>2
  <2> HIDE DEF P
  <2>4. Cardinality(P) = IF 0 > b THEN 0 ELSE b - 0 + 1
    BY <2>1, <2>3
  <2> QED
    BY <1>1, <2>2, <2>4
<1>5. Recorrido(p) = [i \in 1..Cardinality(P) |-> paso[i - 1]]
  BY DEF Recorrido, Pasos, paso
<1> HIDE DEF P
<1>6. Recorrido(p) = [i \in 1..Len(s) |-> s[i]]
  <2>1. ASSUME NEW i \in 1..Len(s) PROVE paso[i - 1] = s[i]
    BY <1>1, <1>2 DEF En, N
  <2> QED
    BY <1>4, <1>5, <2>1
<1> QED
  BY <1>6 DEF Camino
-----------------------------------------------------------------------------
\* What the operators of the model say when memory has this form.
LEMMA PrimeroBien ==
  ASSUME NEW s, Len(s) \in Nat, NEW I \in SUBSET (1..Len(s))
  PROVE  IF I = {} THEN Primero(s, I) = NULO ELSE \E i \in I : Primero(s, I) = s[i]
<1> SUFFICES ASSUME I # {} PROVE \E i \in I : Primero(s, I) = s[i]
  BY DEF Primero
<1>1. I \in SUBSET Nat
  OBVIOUS
<1>2. \E i \in I : \A j \in I : i <= j
  BY <1>1, Minimo
<1>3. (CHOOSE i \in I : \A j \in I : i <= j) \in I
  BY <1>2
<1> QED
  BY <1>3 DEF Primero

\* The walks and the search by name.
LEMMA Recorridos ==
  ASSUME TypeOK, NEW s, NEW q, Forma(nodo, head, curso, s, q)
  PROVE  /\ s \in Seq(Direcciones) /\ Len(s) \in Nat
         /\ Recorrido(head) = s /\ Clientes = Rango(s)
         /\ \A a \in Rango(s) :
              /\ Pendientes(a) = Pend(nodo, curso, a)
              /\ Recorrido(Pendientes(a)) = q[a] /\ Nodos(Pendientes(a)) = Rango(q[a])
              /\ q[a] \in Seq(Direcciones) /\ Len(q[a]) \in Nat
<1>1. Camino(nodo, head, s) /\ q \in [Direcciones -> Seq(Direcciones)]
  BY DEF Forma, Clientela
<1>2. s \in Seq(Direcciones) /\ Len(s) \in Nat
  BY <1>1 DEF Camino
<1>3. Recorrido(head) = s
  BY <1>1, RecorridoDeCamino
<1>4. Clientes = Rango(s)
  BY <1>2, <1>3 DEF Clientes, Nodos, Rango
<1>5. ASSUME NEW a \in Rango(s)
      PROVE  /\ Pendientes(a) = Pend(nodo, curso, a)
             /\ Recorrido(Pendientes(a)) = q[a] /\ Nodos(Pendientes(a)) = Rango(q[a])
             /\ q[a] \in Seq(Direcciones) /\ Len(q[a]) \in Nat
  <2>1. Pendientes(a) = Pend(nodo, curso, a)
    BY DEF Pendientes, Pend
  <2>2. Camino(nodo, Pend(nodo, curso, a), q[a])
    BY DEF Forma, Buzones
  <2>3. q[a] \in Seq(Direcciones) /\ Len(q[a]) \in Nat
    BY <2>2 DEF Camino
  <2>4. Recorrido(Pendientes(a)) = q[a]
    BY <2>1, <2>2, RecorridoDeCamino
  <2> QED
    BY <2>1, <2>3, <2>4 DEF Nodos, Rango
<1> QED
  BY <1>2, <1>3, <1>4, <1>5

LEMMA Existencia ==
  ASSUME TypeOK, NEW s, NEW q, Forma(nodo, head, curso, s, q), NEW u
  PROVE  IF existe_usuario(u) = NULO
         THEN \A i \in 1..Len(s) : nodo[s[i]].nombre # u
         ELSE \E i \in 1..Len(s) : existe_usuario(u) = s[i] /\ nodo[s[i]].nombre = u
<1> DEFINE I == {i \in 1..Len(s) : nodo[s[i]].nombre = u}
<1>1. s \in Seq(Direcciones) /\ Len(s) \in Nat /\ Recorrido(head) = s /\ DOMAIN s = 1..Len(s)
  BY Recorridos
<1>2. existe_usuario(u) = Primero(s, I)
  BY <1>1 DEF existe_usuario
<1>3. IF I = {} THEN Primero(s, I) = NULO ELSE \E i \in I : Primero(s, I) = s[i]
  BY <1>1, PrimeroBien
<1>4. \A i \in 1..Len(s) : s[i] # NULO
  BY <1>1, ListaEnlazadaSupuestos
<1> QED
  BY <1>2, <1>3, <1>4

\* What Colas sees of a memory of this form.
Textos(mem, t) == [j \in 1..Len(t) |-> mem[t[j]].contenido]

Vista(mem, s, q, nombres, colas) ==
  /\ nombres = [i \in 1..Len(s) |-> mem[s[i]].nombre]
  /\ colas = [u \in Usuarios |-> colas[u]]
  /\ \A i \in 1..Len(s) : colas[mem[s[i]].nombre] = Textos(mem, q[s[i]])
  /\ \A u \in Usuarios : (\A i \in 1..Len(s) : mem[s[i]].nombre # u) => colas[u] = <<>>

ColasVistas == [u \in Usuarios |-> Cola(u)]

LEMMA VistaActual ==
  TypeOK => \A s, q : Forma(nodo, head, curso, s, q) => Vista(nodo, s, q, Nombres, ColasVistas)
<1> SUFFICES ASSUME TypeOK, NEW s, NEW q, Forma(nodo, head, curso, s, q)
             PROVE  Vista(nodo, s, q, Nombres, ColasVistas)
  OBVIOUS
<1>1. s \in Seq(Direcciones) /\ Len(s) \in Nat /\ Recorrido(head) = s /\ DOMAIN s = 1..Len(s)
  BY Recorridos
<1>2. Nombres = [i \in 1..Len(s) |-> nodo[s[i]].nombre]
  BY <1>1 DEF Nombres
<1>3. ASSUME NEW i \in 1..Len(s) PROVE ColasVistas[nodo[s[i]].nombre] = Textos(nodo, q[s[i]])
  <2> DEFINE u == nodo[s[i]].nombre
  <2>1. nodo[s[i]] \in NodoCliente /\ s[i] \in Rango(s) /\ s[i] # NULO
    BY <1>1, ListaEnlazadaSupuestos DEF Forma, Clientela, Rango
  <2>2. u \in Usuarios
    BY <2>1 DEF NodoCliente
  <2>3. existe_usuario(u) = s[i]
    <3>1. existe_usuario(u) # NULO
      BY Existencia
    <3>2. PICK k \in 1..Len(s) : existe_usuario(u) = s[k] /\ nodo[s[k]].nombre = u
      BY <3>1, Existencia
    <3>3. k = i
      BY <3>2 DEF Forma, Clientela
    <3> QED
      BY <3>2, <3>3
  <2>4. /\ Recorrido(Pendientes(s[i])) = q[s[i]]
        /\ q[s[i]] \in Seq(Direcciones) /\ DOMAIN q[s[i]] = 1..Len(q[s[i]])
    BY <2>1, Recorridos
  <2>5. Cola(u) = Textos(nodo, q[s[i]])
    BY <2>1, <2>3, <2>4 DEF Cola, Textos
  <2> QED
    BY <2>2, <2>5 DEF ColasVistas
<1>4. ASSUME NEW u \in Usuarios, \A i \in 1..Len(s) : nodo[s[i]].nombre # u
      PROVE  ColasVistas[u] = <<>>
  <2>1. existe_usuario(u) = NULO
    BY <1>4, Existencia
  <2> QED
    BY <2>1 DEF ColasVistas, Cola
<1> QED
  BY <1>2, <1>3, <1>4 DEF Vista, ColasVistas
-----------------------------------------------------------------------------
\* A step that only touches the messages of client c, which become those of t.
CambiaCola(mem, cur, s, q, c, mem2, cur2, t) ==
  /\ c \in Rango(s) /\ t \in Seq(Direcciones)
  /\ cur = Ninguno \/ cur.cliente = c
  /\ cur2 = Ninguno \/ cur2.cliente = c
  /\ mem2[c] \in NodoCliente /\ mem2[c].nombre = mem[c].nombre
  /\ mem2[c].next = mem[c].next /\ mem2[c].before = mem[c].before
  /\ \A a \in Rango(s) \ {c} :
       mem2[a] = mem[a] /\ \A b \in Rango(q[a]) : mem2[b] = mem[b] /\ b \notin Rango(t)
  /\ Camino(mem2, Pend(mem2, cur2, c), t)
  /\ \A j \in 1..Len(t) : mem2[t[j]] \in NodoMensaje

LEMMA CaminoIgual ==
  ASSUME NEW mem, NEW p, NEW s, Camino(mem, p, s), NEW mem2,
         \A i \in 1..Len(s) : mem2[s[i]] # Libre /\ mem2[s[i]].next = mem[s[i]].next
  PROVE  Camino(mem2, p, s)
BY DEF Camino

LEMMA ClientelaIgual ==
  ASSUME NEW mem, NEW h, NEW s, Clientela(mem, h, s), NEW mem2,
         \A a \in Rango(s) : /\ mem2[a] \in NodoCliente /\ mem2[a].nombre = mem[a].nombre
                             /\ mem2[a].next = mem[a].next /\ mem2[a].before = mem[a].before
  PROVE  Clientela(mem2, h, s)
<1>1. \A i \in 1..Len(s) : s[i] \in Rango(s)
  BY DEF Rango
<1>2. \A i \in 1..Len(s) : mem2[s[i]] # Libre /\ mem2[s[i]].next = mem[s[i]].next
  BY <1>1, Clases
<1>3. Camino(mem2, h, s)
  BY <1>2, CaminoIgual DEF Clientela
<1> QED
  BY <1>1, <1>3 DEF Clientela

LEMMA OtraCola ==
  ASSUME NEW mem, NEW h, NEW cur, NEW s, NEW q, Forma(mem, h, cur, s, q),
         NEW c, NEW mem2, NEW cur2, NEW t,
         CambiaCola(mem, cur, s, q, c, mem2, cur2, t),
         EnMano(cur2, s, [q EXCEPT ![c] = t])
  PROVE  Forma(mem2, h, cur2, s, [q EXCEPT ![c] = t])
<1> DEFINE r == [q EXCEPT ![c] = t]
<1>1. c \in Direcciones /\ Rango(s) \subseteq Direcciones
  BY DEF Forma, Clientela, Camino, CambiaCola, Rango
<1>2. /\ r \in [Direcciones -> Seq(Direcciones)] /\ r[c] = t
      /\ \A a \in Rango(s) \ {c} : r[a] = q[a]
  BY <1>1 DEF Forma, CambiaCola
<1> HIDE DEF r
<1>3. Clientela(mem2, h, s)
  <2>1. \A a \in Rango(s) : mem[a] \in NodoCliente
    BY DEF Forma, Clientela, Rango
  <2>2. \A a \in Rango(s) : /\ mem2[a] \in NodoCliente /\ mem2[a].nombre = mem[a].nombre
                            /\ mem2[a].next = mem[a].next /\ mem2[a].before = mem[a].before
    BY <2>1 DEF CambiaCola
  <2> QED
    BY <2>2, ClientelaIgual DEF Forma
<1>4. Buzones(mem2, cur2, s, r)
  <2>1. ASSUME NEW a \in Rango(s)
        PROVE  /\ Camino(mem2, Pend(mem2, cur2, a), r[a])
               /\ \A j \in 1..Len(r[a]) : mem2[r[a][j]] \in NodoMensaje
    <3>1. CASE a = c
      BY <1>2, <3>1 DEF CambiaCola
    <3>2. CASE a # c
      <4>1. mem2[a] = mem[a] /\ \A b \in Rango(q[a]) : mem2[b] = mem[b]
        BY <3>2 DEF CambiaCola
      <4>2. Pend(mem2, cur2, a) = Pend(mem, cur, a)
        BY <3>2, <4>1 DEF Pend, CambiaCola, Ninguno
      <4>3. Camino(mem, Pend(mem, cur, a), q[a])
            /\ \A j \in 1..Len(q[a]) : mem[q[a][j]] \in NodoMensaje
        BY DEF Forma, Buzones
      <4>4. \A j \in 1..Len(q[a]) : mem2[q[a][j]] = mem[q[a][j]]
        BY <4>1 DEF Rango
      <4>5. \A j \in 1..Len(q[a]) : mem2[q[a][j]] # Libre
        BY <4>3, <4>4, Clases
      <4>6. Camino(mem2, Pend(mem, cur, a), q[a])
        BY <4>3, <4>4, <4>5, CaminoIgual
      <4> QED
        BY <1>2, <3>2, <4>2, <4>3, <4>4, <4>6
    <3> QED
      BY <3>1, <3>2
  <2>2. ASSUME NEW a \in Rango(s), NEW b \in Rango(s), a # b
        PROVE  Rango(r[a]) \cap Rango(r[b]) = {}
    <3>1. Rango(q[a]) \cap Rango(q[b]) = {}
      BY <2>2 DEF Forma, Buzones
    <3>2. \A e \in Rango(s) \ {c} : Rango(q[e]) \cap Rango(t) = {}
      BY DEF CambiaCola
    <3> QED
      BY <1>2, <2>2, <3>1, <3>2
  <2> QED
    BY <2>1, <2>2 DEF Buzones
<1> QED
  BY <1>2, <1>3, <1>4 DEF Forma, r

\* What is seen before and after it.
DosVistas(mem, h, cur, s, q, c, mem2, cur2, t, n, v, n2, v2) ==
  /\ Forma(mem, h, cur, s, q)
  /\ CambiaCola(mem, cur, s, q, c, mem2, cur2, t)
  /\ Vista(mem, s, q, n, v)
  /\ Vista(mem2, s, [q EXCEPT ![c] = t], n2, v2)

LEMMA OtraVista ==
  ASSUME NEW mem, NEW h, NEW cur, NEW s, NEW q, NEW c, NEW mem2, NEW cur2, NEW t,
         NEW n, NEW v, NEW n2, NEW v2,
         DosVistas(mem, h, cur, s, q, c, mem2, cur2, t, n, v, n2, v2)
  PROVE  /\ n2 = n
         /\ mem[c].nombre \in Usuarios /\ \E i \in 1..Len(n) : n[i] = mem[c].nombre
         /\ v[mem[c].nombre] = Textos(mem, q[c])
         /\ v2 = [v EXCEPT ![mem[c].nombre] = Textos(mem2, t)]
<1> DEFINE r == [q EXCEPT ![c] = t]
           u == mem[c].nombre
<1>0. /\ Forma(mem, h, cur, s, q)
      /\ CambiaCola(mem, cur, s, q, c, mem2, cur2, t)
      /\ Vista(mem, s, q, n, v)
      /\ Vista(mem2, s, [q EXCEPT ![c] = t], n2, v2)
  BY DEF DosVistas
<1>1. c \in Direcciones /\ Rango(s) \subseteq Direcciones /\ Len(s) \in Nat
  BY <1>0 DEF Forma, Clientela, Camino, CambiaCola, Rango
<1>2. r[c] = t /\ \A a \in Rango(s) \ {c} : r[a] = q[a]
  BY <1>0, <1>1 DEF Forma, CambiaCola
<1> HIDE DEF r
<1>3. \A a \in Rango(s) : mem[a] \in NodoCliente /\ mem[a].nombre \in Usuarios
  <2>1. \A a \in Rango(s) : mem[a] \in NodoCliente
    BY <1>0 DEF Forma, Clientela, Rango
  <2> QED
    BY <2>1 DEF NodoCliente
<1>4. \A i \in 1..Len(s) : s[i] \in Rango(s) /\ mem2[s[i]].nombre = mem[s[i]].nombre
  BY <1>0 DEF CambiaCola, Rango
<1>5. n2 = n
  BY <1>0, <1>4 DEF Vista
<1>6. PICK k \in 1..Len(s) : s[k] = c
  BY <1>0 DEF CambiaCola, Rango
<1>7. n[k] = u /\ Len(n) = Len(s)
  BY <1>0, <1>1, <1>6 DEF Vista
<1>8. u \in Usuarios /\ v[u] = Textos(mem, q[c]) /\ v2[u] = Textos(mem2, t)
  <2>1. v[mem[s[k]].nombre] = Textos(mem, q[s[k]])
    BY <1>0 DEF Vista
  <2>2. v2[mem2[s[k]].nombre] = Textos(mem2, r[s[k]])
    BY <1>0 DEF Vista, r
  <2> QED
    BY <1>2, <1>3, <1>4, <1>6, <2>1, <2>2
<1>9. ASSUME NEW w \in Usuarios, w # u PROVE v2[w] = v[w]
  <2>1. CASE \A i \in 1..Len(s) : mem[s[i]].nombre # w
    BY <1>0, <1>4, <2>1 DEF Vista
  <2>2. CASE \E i \in 1..Len(s) : mem[s[i]].nombre = w
    <3>1. PICK i \in 1..Len(s) : mem[s[i]].nombre = w
      BY <2>2
    <3>2. s[i] \in Rango(s) \ {c}
      BY <1>4, <1>9, <3>1
    <3>3. v[w] = Textos(mem, q[s[i]]) /\ v2[w] = Textos(mem2, q[s[i]])
      BY <1>0, <1>2, <1>4, <3>1, <3>2 DEF Vista, r
    <3>4. \A b \in Rango(q[s[i]]) : mem2[b] = mem[b]
      BY <1>0, <3>2 DEF CambiaCola
    <3>5. \A j \in 1..Len(q[s[i]]) : mem2[q[s[i]][j]] = mem[q[s[i]][j]]
      BY <3>4 DEF Rango
    <3> QED
      BY <3>3, <3>5 DEF Textos
  <2> QED
    BY <2>1, <2>2
<1>10. v2 = [v EXCEPT ![u] = Textos(mem2, t)]
  <2>1. v = [w \in Usuarios |-> v[w]] /\ v2 = [w \in Usuarios |-> v2[w]]
    BY <1>0 DEF Vista
  <2> QED
    BY <1>8, <1>9, <2>1
<1> QED
  BY <1>1, <1>5, <1>7, <1>8, <1>10
-----------------------------------------------------------------------------
\* What every step does: the memory keeps its form, and Colas sees one of its steps.
Avance == Inv' /\ (L!NextColas \/ UNCHANGED <<Nombres, ColasVistas>>)

LEMMA VistaSiguiente ==
  TypeOK' => \A s, q : Forma(nodo', head', curso', s, q)
                         => Vista(nodo', s, q, Nombres', ColasVistas')
<1>1. (TypeOK => \A s, q : Forma(nodo, head, curso, s, q)
                             => Vista(nodo, s, q, Nombres, ColasVistas))'
  BY VistaActual, PTL
<1> QED
  BY <1>1

LEMMA TextosBien ==
  ASSUME NEW mem, NEW t, Len(t) \in Nat
  PROVE  /\ Len(Textos(mem, t)) = Len(t) /\ DOMAIN Textos(mem, t) = 1..Len(t)
         /\ \A k \in 1..Len(t) : Textos(mem, t)[k] = mem[t[k]].contenido
<1>1. PICK l \in Nat : l = Len(t)
  OBVIOUS
<1>2. Textos(mem, t) = [j \in 1..l |-> mem[t[j]].contenido]
  BY <1>1 DEF Textos
<1> QED
  BY <1>1, <1>2

LEMMA TextosTipo ==
  ASSUME NEW mem, NEW t, Len(t) \in Nat, \A k \in 1..Len(t) : mem[t[k]].contenido \in Mensajes
  PROVE  Textos(mem, t) \in Seq(Mensajes)
<1>1. PICK l \in Nat : l = Len(t)
  OBVIOUS
<1>2. Textos(mem, t) = [j \in 1..l |-> mem[t[j]].contenido]
  BY <1>1 DEF Textos
<1> QED
  BY <1>1, <1>2

\* Which of the two queues of a client a step leaves.
LEMMA AvanceCola ==
  ASSUME TypeOK, TypeOK', NEW s, NEW q, Forma(nodo, head, curso, s, q), head' = head,
         NEW c, NEW t, CambiaCola(nodo, curso, s, q, c, nodo', curso', t),
         EnMano(curso', s, [q EXCEPT ![c] = t]),
         \/ Textos(nodo', t) = Textos(nodo, q[c])
         \/ q[c] # <<>> /\ Textos(nodo', t) = Tail(Textos(nodo, q[c]))
         \/ q[c] # <<>> /\ Textos(nodo', t) = SubSeq(Textos(nodo, q[c]), 1, Len(q[c]) - 1)
         \/ \E m : /\ Textos(nodo', t) = Append(Textos(nodo, q[c]), m)
                   /\ \A a \in Rango(s) : \A j \in 1..Len(q[a]) : nodo[q[a][j]].contenido # m
  PROVE  Avance
<1> DEFINE u == nodo[c].nombre
           x == Textos(nodo, q[c])
           y == Textos(nodo', t)
<1>1. Forma(nodo', head', curso', s, [q EXCEPT ![c] = t])
  BY OtraCola
<1>2. Inv'
  BY <1>1 DEF Inv
<1>3. /\ Vista(nodo, s, q, Nombres, ColasVistas)
      /\ Vista(nodo', s, [q EXCEPT ![c] = t], Nombres', ColasVistas')
  BY <1>1, VistaActual, VistaSiguiente
<1>4. /\ Nombres' = Nombres
      /\ u \in Usuarios /\ \E i \in 1..Len(Nombres) : Nombres[i] = u
      /\ ColasVistas[u] = x
      /\ ColasVistas' = [ColasVistas EXCEPT ![u] = y]
  <2>1. DosVistas(nodo, head, curso, s, q, c, nodo', curso', t, Nombres, ColasVistas,
                  Nombres', ColasVistas')
    BY <1>3 DEF DosVistas
  <2> QED
    BY <2>1, OtraVista
<1>5. c \in Rango(s) /\ Len(q[c]) \in Nat
  BY Recorridos DEF CambiaCola
<1>6. Len(x) = Len(q[c]) /\ (q[c] # <<>> => x # <<>>)
  <2>1. Len(x) = Len(q[c]) /\ DOMAIN x = 1..Len(q[c])
    BY <1>5, TextosBien
  <2>2. q[c] \in Seq(Direcciones)
    BY <1>5, Recorridos
  <2>3. q[c] # <<>> => 1 \in DOMAIN x
    BY <2>1, <2>2
  <2> QED
    BY <2>1, <2>3
<1> HIDE DEF x, y, u
<1>7. ColasVistas = [w \in Usuarios |-> ColasVistas[w]]
  BY <1>3 DEF Vista
<1>8. CASE y = x
  BY <1>2, <1>4, <1>7, <1>8 DEF Avance
<1>9. CASE q[c] # <<>> /\ y = Tail(x)
  <2>1. L!QuitarPrimero(u)
    BY <1>4, <1>6, <1>9 DEF L!QuitarPrimero, ColasVistas
  <2> QED
    BY <1>2, <1>4, <2>1 DEF Avance, L!NextColas
<1>10. CASE q[c] # <<>> /\ y = SubSeq(x, 1, Len(q[c]) - 1)
  <2>1. L!QuitarUltimo(u)
    BY <1>4, <1>6, <1>10 DEF L!QuitarUltimo, ColasVistas
  <2> QED
    BY <1>2, <1>4, <2>1 DEF Avance, L!NextColas
<1>11. ASSUME NEW m, y = Append(x, m),
              \A a \in Rango(s) : \A j \in 1..Len(q[a]) : nodo[q[a][j]].contenido # m
       PROVE  Avance
  <2>1. ASSUME NEW w \in Usuarios, NEW j \in 1..Len(ColasVistas[w])
        PROVE  ColasVistas[w][j] # m
    <3>1. CASE \A i \in 1..Len(s) : nodo[s[i]].nombre # w
      <4>1. ColasVistas[w] = <<>>
        BY <1>3, <3>1 DEF Vista
      <4> QED
        BY <4>1, <2>1
    <3>2. CASE \E i \in 1..Len(s) : nodo[s[i]].nombre = w
      <4>1. PICK i \in 1..Len(s) : nodo[s[i]].nombre = w
        BY <3>2
      <4>2. ColasVistas[w] = Textos(nodo, q[s[i]]) /\ s[i] \in Rango(s)
        BY <1>3, <4>1 DEF Vista, Rango
      <4>3. Len(q[s[i]]) \in Nat
        BY <4>2, Recorridos
      <4>4. j \in 1..Len(q[s[i]]) /\ ColasVistas[w][j] = nodo[q[s[i]][j]].contenido
        BY <2>1, <4>2, <4>3, TextosBien
      <4> QED
        BY <1>11, <4>2, <4>4
    <3> QED
      BY <3>1, <3>2
  <2>2. y[Len(y)] = m /\ Len(y) > Len(x)
    <3>1. x \in Seq({x[i] : i \in 1..Len(q[c])})
      <4>1. PICK n, S : n = Len(q[c]) /\ S = {x[i] : i \in 1..n}
        OBVIOUS
      <4>2. x = [i \in 1..n |-> x[i]]
        BY <4>1 DEF Textos, x
      <4>3. \A i \in 1..n : x[i] \in S
        BY <4>1
      <4>4. x \in Seq(S)
        BY <1>5, <4>1, <4>2, <4>3
      <4> QED
        BY <4>1, <4>4
    <3> QED
      BY <1>5, <1>6, <1>11, <3>1
  <2>3. L!Existe(u)
    BY <1>4 DEF L!Existe
  <2>4. ~L!EnAlguna(m)
    BY <2>1 DEF L!EnAlguna, ColasVistas
  <2>5. ColasVistas'[u] = y
    BY <1>4, <1>7
  <2>6. L!Encolar(u)
    BY <1>4, <1>11, <2>2, <2>3, <2>4, <2>5 DEF L!Encolar, ColasVistas
  <2> QED
    BY <1>2, <1>4, <2>6 DEF Avance, L!NextColas
<1> QED
  BY <1>8, <1>9, <1>10, <1>11 DEF x, y
-----------------------------------------------------------------------------
\* Paths that are cut or grow.
LEMMA CaminoResto ==
  ASSUME NEW mem, NEW p, NEW z, Camino(mem, p, z), NEW k \in 1..Len(z),
         NEW r \in Seq(Direcciones), Len(r) = Len(z) - k,
         \A i \in 1..Len(r) : r[i] = z[i + k]
  PROVE  /\ Camino(mem, En(z, k + 1), r)
         /\ Rango(r) \subseteq Rango(z) /\ \A j \in 1..k : z[j] \notin Rango(r)
<1>1. PICK l \in Nat, m \in Nat : l = Len(z) /\ m = Len(r)
  BY DEF Camino
<1>2. k \in Nat /\ k <= l /\ m = l - k
  BY <1>1
<1>3. \A i \in 1..m : i + k \in 1..l /\ r[i] = z[i + k]
  BY <1>1, <1>2
<1>4. \A i \in 1..(m + 1) : En(r, i) = En(z, i + k)
  <2> SUFFICES ASSUME NEW i \in 1..(m + 1) PROVE En(r, i) = En(z, i + k)
    OBVIOUS
  <2>1. i <= m <=> i + k <= l
    BY <1>2
  <2> QED
    BY <1>1, <1>2, <1>3, <2>1 DEF En
<1>5. ASSUME NEW i \in 1..m, NEW j \in 1..m, r[i] = r[j] PROVE i = j
  <2>1. \A e, f \in 1..l : z[e] = z[f] => e = f
    BY <1>1 DEF Camino
  <2>2. PICK e \in 1..l, f \in 1..l : e = i + k /\ f = j + k
    BY <1>3
  <2>3. z[e] = r[i] /\ z[f] = r[j]
    BY <1>3, <2>2
  <2>4. i + k = j + k
    BY <1>5, <2>1, <2>2, <2>3
  <2> QED
    BY <1>2, <2>4
<1>6. ASSUME NEW i \in 1..m PROVE mem[r[i]] # Libre /\ mem[r[i]].next = En(r, i + 1)
  <2>1. i + 1 \in 1..(m + 1) /\ (i + 1) + k = (i + k) + 1
    BY <1>1, <1>2
  <2>2. mem[z[i + k]] # Libre /\ mem[z[i + k]].next = En(z, (i + k) + 1)
    BY <1>1, <1>3 DEF Camino
  <2> QED
    BY <1>3, <1>4, <2>1, <2>2
<1>7. En(z, k + 1) = En(r, 1)
  <2>1. 1 \in 1..(m + 1) /\ 1 + k = k + 1
    BY <1>1, <1>2
  <2> QED
    BY <1>4, <2>1
<1>8. Camino(mem, En(z, k + 1), r)
  BY <1>1, <1>5, <1>6, <1>7 DEF Camino
<1>9. Rango(r) \subseteq Rango(z)
  BY <1>1, <1>3 DEF Rango
<1>10. ASSUME NEW j \in 1..k PROVE z[j] \notin Rango(r)
  <2> SUFFICES ASSUME NEW i \in 1..m, z[j] = r[i] PROVE FALSE
    BY <1>1 DEF Rango
  <2>1. j \in 1..l /\ j # i + k
    BY <1>2
  <2> QED
    BY <1>1, <1>3, <2>1 DEF Camino
<1> QED
  BY <1>8, <1>9, <1>10

LEMMA ColaDe ==
  ASSUME NEW D, NEW z \in Seq(D), z # <<>>
  PROVE  /\ Len(z) \in Nat \ {0} /\ Tail(z) \in Seq(D) /\ Len(Tail(z)) = Len(z) - 1
         /\ \A i \in 1..Len(Tail(z)) : Tail(z)[i] = z[i + 1]
OBVIOUS

LEMMA InicioDe ==
  ASSUME NEW D, NEW z \in Seq(D), z # <<>>
  PROVE  /\ SubSeq(z, 1, Len(z) - 1) \in Seq(D)
         /\ Len(SubSeq(z, 1, Len(z) - 1)) = Len(z) - 1
         /\ \A i \in 1..(Len(z) - 1) : SubSeq(z, 1, Len(z) - 1)[i] = z[i]
<1>1. Len(z) \in Nat \ {0}
  OBVIOUS
<1>2. PICK k \in Nat : k = Len(z) - 1
  BY <1>1
<1>3. k <= Len(z) /\ \A i \in 1..k : z[i] \in D
  BY <1>1, <1>2
<1> QED
  BY <1>1, <1>2, <1>3

LEMMA UnoMasDe ==
  ASSUME NEW D, NEW z \in Seq(D), NEW d \in D
  PROVE  /\ Len(z) \in Nat /\ Append(z, d) \in Seq(D) /\ Len(Append(z, d)) = Len(z) + 1
         /\ Append(z, d)[Len(z) + 1] = d
         /\ \A i \in 1..Len(z) : Append(z, d)[i] = z[i]
OBVIOUS

\* The pointers of a path are different.
LEMMA EnUnico ==
  ASSUME NEW mem, NEW p, NEW z, Camino(mem, p, z),
         NEW i \in 1..(Len(z) + 1), NEW j \in 1..(Len(z) + 1), En(z, i) = En(z, j)
  PROVE  i = j
<1>1. PICK l \in Nat : l = Len(z)
  BY DEF Camino
<1>2. \A k \in 1..l : z[k] # NULO
  BY <1>1, ListaEnlazadaSupuestos DEF Camino
<1>3. i \in 1..l \/ i = l + 1
  BY <1>1
<1>4. j \in 1..l \/ j = l + 1
  BY <1>1
<1>5. \A k \in 1..l : En(z, k) = z[k]
  BY <1>1 DEF En
<1>6. En(z, l + 1) = NULO
  BY <1>1 DEF En
<1>7. \A e, f \in 1..l : z[e] = z[f] => e = f
  BY <1>1 DEF Camino
<1> QED
  BY <1>1, <1>2, <1>3, <1>4, <1>5, <1>6, <1>7

\* What a client has.
LEMMA Suya ==
  ASSUME TypeOK, NEW s, NEW q, Forma(nodo, head, curso, s, q), NEW c \in Rango(s)
  PROVE  /\ c \in Direcciones /\ nodo[c] \in NodoCliente
         /\ q[c] \in Seq(Direcciones) /\ Len(q[c]) \in Nat
         /\ Camino(nodo, Pend(nodo, curso, c), q[c])
         /\ \A j \in 1..Len(q[c]) : nodo[q[c][j]] \in NodoMensaje
         /\ \A b \in Rango(q[c]) : /\ b \in Direcciones /\ nodo[b] \in NodoMensaje
                                   /\ b \notin Rango(s)
         /\ \A a \in Rango(s) \ {c} : Rango(q[a]) \cap Rango(q[c]) = {}
<1>1. \A a \in Rango(s) : a \in Direcciones /\ nodo[a] \in NodoCliente
  BY DEF Forma, Clientela, Camino, Rango
<1>2. /\ Camino(nodo, Pend(nodo, curso, c), q[c])
      /\ \A j \in 1..Len(q[c]) : nodo[q[c][j]] \in NodoMensaje
      /\ \A a \in Rango(s) \ {c} : Rango(q[a]) \cap Rango(q[c]) = {}
  BY DEF Forma, Buzones
<1>3. q[c] \in Seq(Direcciones) /\ Len(q[c]) \in Nat
  BY <1>2 DEF Camino
<1>4. \A b \in Rango(q[c]) : b \in Direcciones /\ nodo[b] \in NodoMensaje
  BY <1>2, <1>3 DEF Rango
<1>5. \A b \in Rango(q[c]) : b \notin Rango(s)
  BY <1>1, <1>4, Clases
<1> QED
  BY <1>1, <1>2, <1>3, <1>4, <1>5

\* Nothing points to what malloc returns.
LEMMA LibreFuera ==
  ASSUME TypeOK, NEW s, NEW q, Forma(nodo, head, curso, s, q), NEW b \in Libres
  PROVE  b \in Direcciones /\ b \notin Rango(s) /\ \A a \in Rango(s) : b \notin Rango(q[a])
<1>1. b \in Direcciones /\ nodo[b] = Libre
  BY DEF Libres
<1>2. b \notin Rango(s)
  <2> SUFFICES ASSUME b \in Rango(s) PROVE FALSE
    OBVIOUS
  <2>1. nodo[b] \in NodoCliente
    BY Suya
  <2> QED
    BY <1>1, <2>1, Clases
<1>3. ASSUME NEW a \in Rango(s), b \in Rango(q[a]) PROVE FALSE
  <2>1. nodo[b] \in NodoMensaje
    BY <1>3, Suya
  <2> QED
    BY <1>1, <2>1, Clases
<1> QED
  BY <1>1, <1>2, <1>3
-----------------------------------------------------------------------------
\* The operations on the messages of a client.
Operacion == [op : {"conectar", "enviar"}, cliente : Direcciones, mensaje : Punteros]

LEMMA OperacionBien ==
  /\ Ninguno.op = "libre" /\ Ninguno \notin Operacion
  /\ TypeOK => curso = Ninguno \/ curso \in Operacion
BY DEF Ninguno, Operacion, TypeOK

LEMMA PunterosDe ==
  ASSUME NEW r
  PROVE  /\ r \in NodoCliente => /\ r.nombre \in Usuarios /\ r.mensajes_pendientes \in Punteros
                                 /\ r.next \in Punteros /\ r.before \in Punteros
         /\ r \in NodoMensaje => r.contenido \in Mensajes /\ r.next \in Punteros
BY DEF NodoCliente, NodoMensaje

\* A step that only changes who has the mutex.
LEMMA AvanceCurso ==
  ASSUME TypeOK, NEW s, NEW q, Forma(nodo, head, curso, s, q), NEW c \in Rango(s),
         UNCHANGED <<head, nodo>>,
         curso = Ninguno \/ curso.cliente = c, curso' = Ninguno \/ curso'.cliente = c,
         curso' \in {Ninguno} \cup Operacion,
         Pend(nodo, curso', c) = Pend(nodo, curso, c), EnMano(curso', s, q)
  PROVE  Avance
<1> DEFINE t == q[c]
<1>1. /\ c \in Direcciones /\ nodo[c] \in NodoCliente
      /\ q[c] \in Seq(Direcciones)
      /\ Camino(nodo, Pend(nodo, curso, c), q[c])
      /\ \A j \in 1..Len(q[c]) : nodo[q[c][j]] \in NodoMensaje
      /\ \A a \in Rango(s) \ {c} : Rango(q[a]) \cap Rango(q[c]) = {}
  BY Suya
<1>2. [q EXCEPT ![c] = t] = q
  BY <1>1 DEF Forma
<1>3. CambiaCola(nodo, curso, s, q, c, nodo', curso', t)
  BY <1>1 DEF CambiaCola
<1>4. TypeOK'
  BY DEF TypeOK, Operacion
<1>5. Textos(nodo', t) = Textos(nodo, q[c])
  OBVIOUS
<1>6. EnMano(curso', s, [q EXCEPT ![c] = t])
  BY <1>2
<1> QED
  BY <1>3, <1>4, <1>5, <1>6, AvanceCola

LEMMA AvanceConectar ==
  ASSUME TypeOK, NEW s, NEW q, Forma(nodo, head, curso, s, q), NEW u \in Usuarios, Conectar(u)
  PROVE  Avance
<1> DEFINE c == existe_usuario(u)
<1>1. curso = Ninguno /\ c # NULO /\ UNCHANGED <<head, nodo>>
      /\ curso' = [op |-> "conectar", cliente |-> c, mensaje |-> nodo[c].mensajes_pendientes]
  BY DEF Conectar
<1>2. c \in Rango(s)
  BY <1>1, Existencia DEF Rango
<1> HIDE DEF c
<1>3. c \in Direcciones /\ nodo[c] \in NodoCliente
  BY <1>2, Suya
<1>4. nodo[c].mensajes_pendientes \in Punteros
  BY <1>3, PunterosDe
<1>5. curso' \in Operacion /\ curso'.cliente = c
  BY <1>1, <1>3, <1>4 DEF Operacion
<1>6. Pend(nodo, curso', c) = Pend(nodo, curso, c)
  BY <1>1, OperacionBien DEF Pend
<1>7. EnMano(curso', s, q)
  BY <1>1, <1>2 DEF EnMano
<1> QED
  BY <1>1, <1>2, <1>5, <1>6, <1>7, AvanceCurso

LEMMA AvanceEnviarFalla ==
  ASSUME TypeOK, NEW s, NEW q, Forma(nodo, head, curso, s, q), EnviarFalla
  PROVE  Avance
<1>1. curso.op = "enviar" /\ curso' = Ninguno /\ UNCHANGED <<head, nodo>>
  BY DEF EnviarFalla
<1>2. PICK c \in Rango(s) : curso.cliente = c
  BY <1>1, OperacionBien DEF Forma, EnMano
<1>3. Pend(nodo, curso', c) = Pend(nodo, curso, c)
  BY <1>1, OperacionBien DEF Pend
<1>4. EnMano(curso', s, q)
  BY <1>1 DEF EnMano
<1> QED
  BY <1>1, <1>2, <1>3, <1>4, AvanceCurso

LEMMA AvanceEntregarPendiente ==
  ASSUME TypeOK, NEW s, NEW q, Forma(nodo, head, curso, s, q), EntregarPendiente
  PROVE  Avance
<1>1. /\ curso.op = "conectar" /\ curso.mensaje # NULO /\ head' = head
      /\ curso' = [curso EXCEPT !.mensaje = nodo[curso.mensaje].next]
      /\ nodo' = [nodo EXCEPT ![curso.mensaje] = Libre]
  BY DEF EntregarPendiente
<1>2. curso \in Operacion
  BY <1>1, OperacionBien
<1>3. PICK c \in Rango(s) : curso.cliente = c
  BY <1>1, OperacionBien DEF Forma, EnMano
<1>4. PICK z, b, p : z = q[c] /\ b = curso.mensaje /\ p = nodo[b].next
  OBVIOUS
<1>5. /\ c \in Direcciones /\ nodo[c] \in NodoCliente
      /\ z \in Seq(Direcciones) /\ Camino(nodo, Pend(nodo, curso, c), z)
      /\ \A j \in 1..Len(z) : nodo[z[j]] \in NodoMensaje
      /\ \A x \in Rango(z) : x \in Direcciones /\ nodo[x] \in NodoMensaje /\ x \notin Rango(s)
      /\ \A a \in Rango(s) \ {c} : Rango(q[a]) \cap Rango(z) = {}
  BY <1>4, Suya
<1>6. Pend(nodo, curso, c) = b
  BY <1>1, <1>3, <1>4 DEF Pend
<1>7. z # <<>> /\ z[1] = b /\ b \in Rango(z) /\ p = En(z, 2)
  <2>1. Len(z) \in Nat /\ b = En(z, 1)
    BY <1>5, <1>6 DEF Camino
  <2>2. 1 <= Len(z) /\ b = z[1]
    BY <1>1, <1>4, <2>1 DEF En
  <2>3. 1 \in 1..Len(z)
    BY <2>1, <2>2
  <2>4. nodo[z[1]].next = En(z, 1 + 1)
    BY <1>5, <2>3 DEF Camino
  <2> QED
    BY <1>4, <1>5, <2>2, <2>3, <2>4 DEF Rango
<1>8. b \in Direcciones /\ nodo[b] \in NodoMensaje /\ b \notin Rango(s) /\ p \in Punteros
  BY <1>4, <1>5, <1>7, PunterosDe
<1>9. nodo' = [nodo EXCEPT ![b] = Libre] /\ nodo'[b] = Libre
      /\ \A x \in Direcciones \ {b} : nodo'[x] = nodo[x]
  BY <1>1, <1>4, <1>8 DEF TypeOK
<1>10. curso' = [op |-> "conectar", cliente |-> c, mensaje |-> p] /\ curso' \in Operacion
  <2>1. curso' \in Operacion /\ curso'.op = "conectar" /\ curso'.cliente = c /\ curso'.mensaje = p
    BY <1>1, <1>2, <1>3, <1>4, <1>8 DEF Operacion
  <2> QED
    BY <2>1 DEF Operacion
<1>11. TypeOK'
  BY <1>1, <1>8, <1>9, <1>10 DEF TypeOK, Operacion
<1> DEFINE t == Tail(z)
<1>12. /\ t \in Seq(Direcciones) /\ Len(z) \in Nat \ {0} /\ Len(t) = Len(z) - 1
       /\ \A i \in 1..Len(t) : t[i] = z[i + 1]
  BY <1>5, <1>7, ColaDe
<1> HIDE DEF t
<1>13. Camino(nodo, p, t) /\ Rango(t) \subseteq Rango(z) /\ b \notin Rango(t)
  <2>1. 1 \in 1..Len(z) /\ 1 + 1 = 2 /\ 1 \in 1..1
    BY <1>12
  <2> QED
    BY <1>5, <1>7, <1>12, <2>1, CaminoResto
<1>14. \A i \in 1..Len(t) : /\ t[i] \in Rango(t) /\ nodo[t[i]] \in NodoMensaje
                            /\ nodo'[t[i]] = nodo[t[i]]
  <2>1. \A i \in 1..Len(t) : t[i] \in Rango(t)
    BY DEF Rango
  <2> QED
    BY <1>5, <1>9, <1>13, <2>1
<1>15. Camino(nodo', Pend(nodo', curso', c), t)
  <2>1. Pend(nodo', curso', c) = p
    BY <1>10 DEF Pend
  <2>2. \A i \in 1..Len(t) : nodo'[t[i]] # Libre /\ nodo'[t[i]].next = nodo[t[i]].next
    BY <1>14, Clases
  <2> QED
    BY <1>13, <2>1, <2>2, CaminoIgual
<1>16. CambiaCola(nodo, curso, s, q, c, nodo', curso', t)
  <2>1. nodo'[c] = nodo[c]
    BY <1>5, <1>8, <1>9
  <2>2. ASSUME NEW a \in Rango(s) \ {c}
        PROVE  nodo'[a] = nodo[a] /\ \A x \in Rango(q[a]) : nodo'[x] = nodo[x] /\ x \notin Rango(t)
    <3>1. a \in Direcciones /\ \A x \in Rango(q[a]) : x \in Direcciones
      BY Suya
    <3>2. Rango(q[a]) \cap Rango(z) = {}
      BY <1>5
    <3> QED
      BY <1>7, <1>8, <1>9, <1>13, <3>1, <3>2
  <2> QED
    BY <1>3, <1>5, <1>10, <1>12, <1>14, <1>15, <2>1, <2>2 DEF CambiaCola
<1>17. EnMano(curso', s, [q EXCEPT ![c] = t])
  BY <1>10 DEF EnMano
<1>18. Textos(nodo', t) = Tail(Textos(nodo, q[c]))
  <2>1. Len(t) \in Nat /\ Len(z) \in Nat
    BY <1>12
  <2>2. Textos(nodo', t) = [i \in 1..Len(t) |-> nodo[z[i + 1]].contenido]
    BY <1>12, <1>14 DEF Textos
  <2>3. Textos(nodo, z) = [i \in 1..Len(z) |-> nodo[z[i]].contenido]
    BY DEF Textos
  <2>4. PICK m \in Nat : m = Len(t) /\ Len(z) = m + 1
    BY <1>12
  <2>5. Textos(nodo, z) \in Seq(Mensajes) /\ Textos(nodo, z) # <<>> /\ Len(Textos(nodo, z)) = m + 1
    <3>1. \A i \in 1..Len(z) : nodo[z[i]].contenido \in Mensajes
      BY <1>5, PunterosDe
    <3> QED
      BY <2>3, <2>4, <3>1
  <2>6. /\ Tail(Textos(nodo, z)) \in Seq(Mensajes) /\ Len(Tail(Textos(nodo, z))) = m
        /\ \A i \in 1..m : Tail(Textos(nodo, z))[i] = Textos(nodo, z)[i + 1]
    BY <2>5, ColaDe
  <2>7. \A i \in 1..m : Textos(nodo, z)[i + 1] = nodo[z[i + 1]].contenido
    BY <2>3, <2>4
  <2>8. Tail(Textos(nodo, z)) = [i \in 1..m |-> nodo[z[i + 1]].contenido]
    <3>1. PICK w \in Seq(Mensajes) : w = Tail(Textos(nodo, z))
      BY <2>6
    <3>2. Len(w) = m /\ \A i \in 1..m : w[i] = nodo[z[i + 1]].contenido
      BY <2>6, <2>7, <3>1
    <3>3. w = [i \in 1..m |-> nodo[z[i + 1]].contenido]
      BY <3>2
    <3> QED
      BY <3>1, <3>3
  <2> QED
    BY <1>4, <2>2, <2>4, <2>8
<1> QED
  BY <1>1, <1>4, <1>7, <1>11, <1>16, <1>17, <1>18, AvanceCola

LEMMA AvanceConectarFin ==
  ASSUME TypeOK, NEW s, NEW q, Forma(nodo, head, curso, s, q), ConectarFin
  PROVE  Avance
<1>1. /\ curso.op = "conectar" /\ head' = head /\ curso' = Ninguno
      /\ nodo' = [nodo EXCEPT ![curso.cliente].mensajes_pendientes = curso.mensaje]
  BY DEF ConectarFin
<1>2. curso \in Operacion
  BY <1>1, OperacionBien
<1>3. PICK c \in Rango(s) : curso.cliente = c
  BY <1>1, OperacionBien DEF Forma, EnMano
<1>4. PICK b : b = curso.mensaje
  OBVIOUS
<1>5. /\ c \in Direcciones /\ nodo[c] \in NodoCliente
      /\ q[c] \in Seq(Direcciones) /\ Len(q[c]) \in Nat
      /\ Camino(nodo, Pend(nodo, curso, c), q[c])
      /\ \A j \in 1..Len(q[c]) : nodo[q[c][j]] \in NodoMensaje
      /\ \A x \in Rango(q[c]) : x \in Direcciones /\ nodo[x] \in NodoMensaje /\ x \notin Rango(s)
      /\ \A a \in Rango(s) \ {c} : Rango(q[a]) \cap Rango(q[c]) = {}
  BY Suya
<1>6. b \in Punteros
  BY <1>2, <1>4 DEF Operacion
<1>7. /\ nodo'[c] \in NodoCliente /\ nodo'[c].nombre = nodo[c].nombre
      /\ nodo'[c].next = nodo[c].next /\ nodo'[c].before = nodo[c].before
      /\ nodo'[c].mensajes_pendientes = b
      /\ nodo' = [nodo EXCEPT ![c] = nodo'[c]]
      /\ \A x \in Direcciones \ {c} : nodo'[x] = nodo[x]
  BY <1>1, <1>3, <1>4, <1>5, <1>6 DEF TypeOK, NodoCliente
<1>8. TypeOK'
  BY <1>1, <1>5, <1>7 DEF TypeOK
<1>9. \A i \in 1..Len(q[c]) : q[c][i] \in Rango(q[c]) /\ nodo'[q[c][i]] = nodo[q[c][i]]
  <2>1. \A i \in 1..Len(q[c]) : q[c][i] \in Rango(q[c])
    BY DEF Rango
  <2> QED
    BY <1>5, <1>7, <2>1
<1>10. Camino(nodo', Pend(nodo', curso', c), q[c])
  <2>1. Pend(nodo', curso', c) = Pend(nodo, curso, c)
    BY <1>1, <1>3, <1>4, <1>7, OperacionBien DEF Pend
  <2>2. \A i \in 1..Len(q[c]) : nodo'[q[c][i]] # Libre /\ nodo'[q[c][i]].next = nodo[q[c][i]].next
    BY <1>5, <1>9, Clases
  <2> QED
    BY <1>5, <2>1, <2>2, CaminoIgual
<1>11. CambiaCola(nodo, curso, s, q, c, nodo', curso', q[c])
  <2>1. ASSUME NEW a \in Rango(s) \ {c}
        PROVE  /\ nodo'[a] = nodo[a]
               /\ \A x \in Rango(q[a]) : nodo'[x] = nodo[x] /\ x \notin Rango(q[c])
    <3>1. a \in Direcciones /\ \A x \in Rango(q[a]) : x \in Direcciones /\ x \notin Rango(s)
      BY Suya
    <3> QED
      BY <1>5, <1>7, <3>1
  <2> QED
    BY <1>1, <1>3, <1>5, <1>7, <1>9, <1>10, <2>1 DEF CambiaCola
<1>12. EnMano(curso', s, [q EXCEPT ![c] = q[c]])
  BY <1>1 DEF EnMano
<1>13. Textos(nodo', q[c]) = Textos(nodo, q[c])
  BY <1>9 DEF Textos
<1> QED
  BY <1>1, <1>8, <1>11, <1>12, <1>13, AvanceCola
-----------------------------------------------------------------------------
\* Linking and unlinking the last message: the memory mem after the pointer to the
\* k-th of the messages z of c, or to their end, is changed for p.
Enlazada(mem, c, z, k, p) ==
  /\ mem \in [Direcciones -> Nodo]
  /\ mem[c] \in NodoCliente /\ mem[c].nombre = nodo[c].nombre
  /\ mem[c].next = nodo[c].next /\ mem[c].before = nodo[c].before
  /\ mem[c].mensajes_pendientes = IF k = 1 THEN p ELSE z[1]
  /\ \A i \in 1..(k - 1) : /\ mem[z[i]] \in NodoMensaje
                           /\ mem[z[i]].contenido = nodo[z[i]].contenido
                           /\ mem[z[i]].next = IF i = k - 1 THEN p ELSE z[i + 1]
  /\ \A x \in Direcciones \ {c} :
       (\A i \in 1..(k - 1) : x # z[i]) => mem[x] = nodo[x]

LEMMA Enlace ==
  ASSUME TypeOK, NEW s, NEW q, Forma(nodo, head, curso, s, q), NEW c \in Rango(s),
         curso.op # "conectar", NEW z, z = q[c], NEW k \in 1..(Len(z) + 1), NEW p \in Punteros,
         NEW mem, mem = Enlazar(nodo, c, En(z, k), p)
  PROVE  Enlazada(mem, c, z, k, p)
<1>1. /\ c \in Direcciones /\ nodo[c] \in NodoCliente
      /\ z \in Seq(Direcciones) /\ Camino(nodo, Pend(nodo, curso, c), z)
      /\ \A j \in 1..Len(z) : nodo[z[j]] \in NodoMensaje
      /\ \A b \in Rango(z) : b \in Direcciones /\ b \notin Rango(s)
  BY Suya
<1>2. PICK l \in Nat : l = Len(z)
  BY <1>1
<1>3. k \in 1..(l + 1) /\ k \in Nat /\ DOMAIN z = 1..l
  BY <1>1, <1>2
<1>4. PICK f : f = nodo[c].mensajes_pendientes /\ f = En(z, 1) /\ Recorrido(f) = z
  <2>1. Pend(nodo, curso, c) = nodo[c].mensajes_pendientes
    BY DEF Pend
  <2>2. Recorrido(Pend(nodo, curso, c)) = z
    BY <1>1, RecorridoDeCamino
  <2>3. Pend(nodo, curso, c) = En(z, 1)
    BY <1>1 DEF Camino
  <2> QED
    BY <2>1, <2>2, <2>3
<1>5. \A j \in 1..l : z[j] \in Direcciones /\ z[j] # c /\ z[j] # NULO
  <2>1. \A j \in 1..l : z[j] \in Rango(z)
    BY <1>2 DEF Rango
  <2> QED
    BY <1>1, <2>1, ListaEnlazadaSupuestos
<1>6. \A j \in 1..(l + 1) : En(z, j) = En(z, k) <=> j = k
  <2> SUFFICES ASSUME NEW j \in 1..(l + 1), En(z, j) = En(z, k) PROVE j = k
    OBVIOUS
  <2>1. j \in 1..(Len(z) + 1)
    BY <1>2
  <2> QED
    BY <1>1, <2>1, EnUnico
<1>7. f = En(z, k) <=> k = 1
  <2>1. 1 \in 1..(l + 1)
    BY <1>2
  <2> QED
    BY <1>4, <1>6, <2>1
<1> DEFINE I == {i \in DOMAIN z : nodo[z[i]].next = En(z, k)}
<1>8. mem = IF f = En(z, k) THEN [nodo EXCEPT ![c].mensajes_pendientes = p]
            ELSE [nodo EXCEPT ![Primero(z, I)].next = p]
  BY <1>4 DEF Enlazar
<1>9. CASE k = 1
  <2>1. mem = [nodo EXCEPT ![c].mensajes_pendientes = p]
    BY <1>7, <1>8, <1>9
  <2>2. /\ mem[c] = [nodo[c] EXCEPT !.mensajes_pendientes = p] /\ mem[c] \in NodoCliente
        /\ mem[c].nombre = nodo[c].nombre
        /\ mem[c].next = nodo[c].next /\ mem[c].before = nodo[c].before
        /\ mem[c].mensajes_pendientes = p
        /\ mem = [nodo EXCEPT ![c] = mem[c]]
    BY <1>1, <2>1 DEF TypeOK, NodoCliente
  <2>3. mem \in [Direcciones -> Nodo] /\ \A x \in Direcciones \ {c} : mem[x] = nodo[x]
    BY <1>1, <2>2 DEF TypeOK, Nodo
  <2>4. 1..(k - 1) = {}
    BY <1>9
  <2> QED
    BY <1>9, <2>2, <2>3, <2>4 DEF Enlazada
<1>10. CASE k # 1
  <2>1. PICK m \in 1..l : m = k - 1 /\ m + 1 = k
    BY <1>3, <1>10
  <2>2. \A i \in 1..l : nodo[z[i]].next = En(z, i + 1) /\ i + 1 \in 1..(l + 1)
    BY <1>1, <1>2 DEF Camino
  <2>3. I = {m}
    <3>1. \A i \in 1..l : nodo[z[i]].next = En(z, k) <=> i + 1 = k
      BY <1>6, <2>2
    <3>2. \A i \in 1..l : i + 1 = k <=> i = m
      BY <2>1
    <3> QED
      BY <1>3, <2>1, <3>1, <3>2
  <2> HIDE DEF I
  <2>4. Primero(z, I) = z[m]
    <3>1. I \in SUBSET (1..Len(z)) /\ I # {} /\ Len(z) \in Nat
      BY <1>2, <2>1, <2>3
    <3>2. \E i \in I : Primero(z, I) = z[i]
      BY <3>1, PrimeroBien
    <3> QED
      BY <2>3, <3>2
  <2>5. mem = [nodo EXCEPT ![z[m]].next = p]
    BY <1>7, <1>8, <1>10, <2>4
  <2>6. PICK b \in Direcciones : b = z[m] /\ b # c /\ nodo[b] \in NodoMensaje
    BY <1>1, <1>2, <1>5
  <2>7. /\ mem[b] = [nodo[b] EXCEPT !.next = p] /\ mem[b] \in NodoMensaje
        /\ mem[b].contenido = nodo[b].contenido /\ mem[b].next = p
        /\ mem = [nodo EXCEPT ![b] = mem[b]]
    <3>1. mem = [nodo EXCEPT ![b].next = p]
      BY <2>5, <2>6
    <3>2. mem[b] = [nodo[b] EXCEPT !.next = p] /\ mem = [nodo EXCEPT ![b] = mem[b]]
      BY <2>6, <3>1 DEF TypeOK
    <3>3. PICK r \in NodoMensaje : r = nodo[b]
      BY <2>6
    <3>4. /\ [r EXCEPT !.next = p] \in NodoMensaje
          /\ [r EXCEPT !.next = p].contenido = r.contenido /\ [r EXCEPT !.next = p].next = p
      BY DEF NodoMensaje
    <3> QED
      BY <3>2, <3>3, <3>4
  <2>8. mem \in [Direcciones -> Nodo] /\ \A x \in Direcciones \ {b} : mem[x] = nodo[x]
    BY <2>6, <2>7 DEF TypeOK, Nodo
  <2>9. mem[c] = nodo[c] /\ nodo[c].mensajes_pendientes = z[1]
    <3>1. 1 <= Len(z)
      BY <1>2, <2>1
    <3> QED
      BY <1>1, <1>4, <2>6, <2>8, <3>1 DEF En
  <2>10. ASSUME NEW i \in 1..(k - 1)
         PROVE  /\ mem[z[i]] \in NodoMensaje /\ mem[z[i]].contenido = nodo[z[i]].contenido
                /\ mem[z[i]].next = IF i = k - 1 THEN p ELSE z[i + 1]
    <3>1. CASE i = m
      BY <2>1, <2>6, <2>7, <3>1
    <3>2. CASE i # m
      <4>1. i \in 1..l /\ i + 1 <= Len(z) /\ m \in 1..l /\ i # k - 1
        BY <1>2, <2>1, <3>2
      <4>2. z[i] # z[m]
        BY <1>1, <1>2, <3>2, <4>1 DEF Camino
      <4>3. mem[z[i]] = nodo[z[i]]
        BY <1>5, <2>6, <2>8, <4>1, <4>2
      <4>4. nodo[z[i]].next = z[i + 1] /\ nodo[z[i]] \in NodoMensaje
        BY <1>1, <1>2, <2>2, <4>1 DEF En
      <4> QED
        BY <4>1, <4>3, <4>4
    <3> QED
      BY <3>1, <3>2
  <2>11. ASSUME NEW x \in Direcciones, \A i \in 1..(k - 1) : x # z[i] PROVE mem[x] = nodo[x]
    <3>1. m \in 1..(k - 1)
      BY <2>1
    <3> QED
      BY <2>6, <2>8, <2>11, <3>1
  <2> QED
    BY <1>1, <1>10, <2>8, <2>9, <2>10, <2>11 DEF Enlazada
<1> QED
  BY <1>9, <1>10

LEMMA AvanceEnviarEntrega ==
  ASSUME TypeOK, NEW s, NEW q, Forma(nodo, head, curso, s, q), EnviarEntrega
  PROVE  Avance
<1>1. /\ curso.op = "enviar" /\ head' = head /\ curso' = Ninguno
      /\ nodo' = [Enlazar(nodo, curso.cliente, curso.mensaje, NULO) EXCEPT ![curso.mensaje] = Libre]
  BY DEF EnviarEntrega
<1>2. PICK c \in Rango(s) : /\ curso.cliente = c /\ q[c] # <<>>
                            /\ curso.mensaje = q[c][Len(q[c])]
  BY <1>1, OperacionBien DEF Forma, EnMano
<1>3. PICK z : z = q[c]
  OBVIOUS
<1>4. /\ c \in Direcciones /\ nodo[c] \in NodoCliente
      /\ z \in Seq(Direcciones) /\ Camino(nodo, Pend(nodo, curso, c), z)
      /\ \A j \in 1..Len(z) : nodo[z[j]] \in NodoMensaje
      /\ \A x \in Rango(z) : x \in Direcciones /\ nodo[x] \in NodoMensaje /\ x \notin Rango(s)
      /\ \A a \in Rango(s) \ {c} : Rango(q[a]) \cap Rango(z) = {}
  BY <1>3, Suya
<1>5. PICK k \in Nat \ {0} : k = Len(z)
  BY <1>2, <1>3, <1>4
<1>6. PICK b : b = z[k] /\ b = curso.mensaje /\ b = En(z, k)
  BY <1>2, <1>3, <1>5 DEF En
<1>7. b \in Rango(z) /\ b \in Direcciones /\ b \notin Rango(s)
  <2>1. k \in 1..Len(z)
    BY <1>5
  <2>2. b \in Rango(z)
    BY <1>6, <2>1 DEF Rango
  <2> QED
    BY <1>4, <2>2
<1>8. PICK mem : mem = Enlazar(nodo, c, b, NULO)
  OBVIOUS
<1>9. /\ mem \in [Direcciones -> Nodo]
      /\ mem[c] \in NodoCliente /\ mem[c].nombre = nodo[c].nombre
      /\ mem[c].next = nodo[c].next /\ mem[c].before = nodo[c].before
      /\ mem[c].mensajes_pendientes = (IF k = 1 THEN NULO ELSE z[1])
      /\ \A i \in 1..(k - 1) : /\ mem[z[i]] \in NodoMensaje
                               /\ mem[z[i]].contenido = nodo[z[i]].contenido
                               /\ mem[z[i]].next = IF i = k - 1 THEN NULO ELSE z[i + 1]
      /\ \A x \in Direcciones \ {c} : (\A i \in 1..(k - 1) : x # z[i]) => mem[x] = nodo[x]
  <2>1. k \in 1..(Len(z) + 1) /\ NULO \in Punteros /\ curso.op # "conectar"
    BY <1>1, <1>5 DEF Punteros
  <2>2. mem = Enlazar(nodo, c, En(z, k), NULO)
    BY <1>6, <1>8
  <2>3. Enlazada(mem, c, z, k, NULO)
    BY <1>3, <2>1, <2>2, Enlace
  <2> QED
    BY <2>3 DEF Enlazada
<1>10. /\ nodo' = [mem EXCEPT ![b] = Libre] /\ nodo'[b] = Libre
       /\ \A x \in Direcciones \ {b} : nodo'[x] = mem[x]
  <2>1. nodo' = [mem EXCEPT ![b] = Libre]
    BY <1>1, <1>2, <1>6, <1>8
  <2> QED
    BY <1>7, <1>9, <2>1
<1>11. TypeOK'
  <2>1. nodo' \in [Direcciones -> Nodo]
    BY <1>7, <1>9, <1>10 DEF Nodo
  <2> QED
    BY <1>1, <2>1 DEF TypeOK, Nodo
<1> DEFINE t == SubSeq(z, 1, Len(z) - 1)
<1>12. /\ t \in Seq(Direcciones) /\ Len(t) = k - 1
       /\ \A i \in 1..(k - 1) : t[i] = z[i]
  BY <1>2, <1>3, <1>4, <1>5, InicioDe
<1> HIDE DEF t
<1>13. \A i \in 1..(k - 1) :
         i \in 1..Len(z) /\ z[i] \in Direcciones /\ z[i] # b /\ z[i] \in Rango(z)
  <2>1. \A i \in 1..(k - 1) : i \in 1..Len(z) /\ k \in 1..Len(z) /\ i # k
    BY <1>5
  <2> QED
    BY <1>4, <1>6, <2>1 DEF Camino, Rango
<1>14. \A i \in 1..(k - 1) :
         /\ nodo'[t[i]] \in NodoMensaje /\ nodo'[t[i]].contenido = nodo[z[i]].contenido
         /\ nodo'[t[i]].next = IF i = k - 1 THEN NULO ELSE z[i + 1]
  BY <1>9, <1>10, <1>12, <1>13
<1>15. nodo'[c] = mem[c] /\ c # b
  BY <1>4, <1>7, <1>10
<1>16. Camino(nodo', Pend(nodo', curso', c), t)
  <2>1. Pend(nodo', curso', c) = IF k = 1 THEN NULO ELSE z[1]
    BY <1>1, <1>9, <1>15, OperacionBien DEF Pend
  <2>2. En(t, 1) = IF k = 1 THEN NULO ELSE z[1]
    BY <1>5, <1>12 DEF En
  <2>3. ASSUME NEW i \in 1..(k - 1) PROVE En(t, i + 1) = IF i = k - 1 THEN NULO ELSE z[i + 1]
    <3>1. i + 1 <= k - 1 <=> i # k - 1
      BY <1>5
    <3>2. i + 1 <= k - 1 => i + 1 \in 1..(k - 1)
      BY <1>5
    <3> QED
      BY <1>12, <3>1, <3>2 DEF En
  <2>4. \A i \in 1..(k - 1) : nodo'[t[i]] # Libre /\ nodo'[t[i]].next = En(t, i + 1)
    BY <1>14, <2>3, Clases
  <2>5. \A i, j \in 1..(k - 1) : t[i] = t[j] => i = j
    BY <1>4, <1>12, <1>13 DEF Camino
  <2> QED
    BY <1>12, <2>1, <2>2, <2>4, <2>5 DEF Camino
<1>17. Rango(t) \subseteq Rango(z)
  BY <1>12, <1>13 DEF Rango
<1>18. CambiaCola(nodo, curso, s, q, c, nodo', curso', t)
  <2>1. ASSUME NEW a \in Rango(s) \ {c}
        PROVE  /\ nodo'[a] = nodo[a]
               /\ \A x \in Rango(q[a]) : nodo'[x] = nodo[x] /\ x \notin Rango(t)
    <3>1. a \in Direcciones /\ \A x \in Rango(q[a]) : x \in Direcciones /\ x \notin Rango(s)
      BY Suya
    <3>2. a \notin Rango(z) /\ Rango(q[a]) \cap Rango(z) = {}
      BY <1>4
    <3>3. \A x \in Direcciones \ {c} : x \notin Rango(z) => nodo'[x] = nodo[x]
      BY <1>7, <1>9, <1>10, <1>13
    <3> QED
      BY <1>17, <3>1, <3>2, <3>3
  <2>2. \A j \in 1..Len(t) : nodo'[t[j]] \in NodoMensaje
    BY <1>12, <1>14
  <2> QED
    BY <1>1, <1>2, <1>9, <1>12, <1>15, <1>16, <2>1, <2>2 DEF CambiaCola
<1>19. EnMano(curso', s, [q EXCEPT ![c] = t])
  BY <1>1 DEF EnMano
<1>20. Textos(nodo', t) = SubSeq(Textos(nodo, q[c]), 1, Len(q[c]) - 1)
  <2>1. PICK x \in Seq(Mensajes) : x = Textos(nodo, z)
    <3>1. \A i \in 1..Len(z) : nodo[z[i]].contenido \in Mensajes
      BY <1>4, PunterosDe
    <3> QED
      BY <1>5, <3>1, TextosTipo
  <2>2. Len(x) = k /\ \A i \in 1..k : x[i] = nodo[z[i]].contenido
    BY <1>5, <2>1, TextosBien
  <2>3. x # <<>>
    BY <1>5, <2>2
  <2>4. PICK w \in Seq(Mensajes) : w = SubSeq(x, 1, Len(x) - 1) /\ Len(w) = Len(x) - 1
                                   /\ \A i \in 1..(Len(x) - 1) : w[i] = x[i]
    BY <2>3, InicioDe
  <2>5. Len(w) = k - 1 /\ \A i \in 1..(k - 1) : w[i] = nodo[z[i]].contenido
    BY <1>5, <2>2, <2>4
  <2>6. w = [i \in 1..(k - 1) |-> nodo[z[i]].contenido]
    BY <2>5
  <2>7. Textos(nodo', t) = [i \in 1..(k - 1) |-> nodo[z[i]].contenido]
    BY <1>12, <1>14 DEF Textos
  <2> QED
    BY <1>3, <1>5, <2>1, <2>2, <2>4, <2>6, <2>7
<1> QED
  BY <1>1, <1>2, <1>11, <1>18, <1>19, <1>20, AvanceCola

LEMMA AvanceEnviar ==
  ASSUME TypeOK, NEW s, NEW q, Forma(nodo, head, curso, s, q),
         NEW u \in Usuarios, NEW m \in Mensajes, Enviar(u, m)
  PROVE  Avance
<1>c. PICK c \in Rango(s) : c = existe_usuario(u)
  <2>1. existe_usuario(u) # NULO
    BY DEF Enviar
  <2> QED
    BY <2>1, Existencia DEF Rango
<1>1. PICK b \in Libres :
        /\ curso = Ninguno /\ head' = head
        /\ \A a \in Direcciones : nodo[a] \in NodoMensaje => nodo[a].contenido # m
        /\ nodo' = [Enlazar(nodo, c, NULO, b) EXCEPT ![b] = [contenido |-> m, next |-> NULO]]
        /\ curso' \in {Ninguno, [op |-> "enviar", cliente |-> c, mensaje |-> b]}
  BY <1>c DEF Enviar
<1>2. c \in Rango(s)
  OBVIOUS
<1>3. PICK z : z = q[c]
  OBVIOUS
<1>4. /\ c \in Direcciones /\ nodo[c] \in NodoCliente
      /\ z \in Seq(Direcciones) /\ Camino(nodo, Pend(nodo, curso, c), z)
      /\ \A j \in 1..Len(z) : nodo[z[j]] \in NodoMensaje
      /\ \A x \in Rango(z) : x \in Direcciones /\ nodo[x] \in NodoMensaje /\ x \notin Rango(s)
      /\ \A a \in Rango(s) \ {c} : Rango(q[a]) \cap Rango(z) = {}
  BY <1>2, <1>3, Suya
<1>5. PICK l \in Nat : l = Len(z)
  BY <1>4
<1>6. b \in Direcciones /\ b \notin Rango(s) /\ \A a \in Rango(s) : b \notin Rango(q[a])
  BY LibreFuera
<1>7. b # c /\ b \notin Rango(z)
  BY <1>2, <1>3, <1>6
<1>8. PICK mem : mem = Enlazar(nodo, c, NULO, b)
  OBVIOUS
<1>k. PICK k \in Nat : k = l + 1
  BY <1>5
<1>9. /\ mem \in [Direcciones -> Nodo]
      /\ mem[c] \in NodoCliente /\ mem[c].nombre = nodo[c].nombre
      /\ mem[c].next = nodo[c].next /\ mem[c].before = nodo[c].before
      /\ mem[c].mensajes_pendientes = (IF k = 1 THEN b ELSE z[1])
      /\ \A i \in 1..(k - 1) :
           /\ mem[z[i]] \in NodoMensaje
           /\ mem[z[i]].contenido = nodo[z[i]].contenido
           /\ mem[z[i]].next = IF i = k - 1 THEN b ELSE z[i + 1]
      /\ \A x \in Direcciones \ {c} : (\A i \in 1..(k - 1) : x # z[i]) => mem[x] = nodo[x]
  <2>1. k \in 1..(Len(z) + 1) /\ b \in Punteros /\ curso.op # "conectar"
    BY <1>1, <1>5, <1>k, <1>6, OperacionBien DEF Punteros
  <2>2. mem = Enlazar(nodo, c, En(z, k), b)
    BY <1>5, <1>k, <1>8 DEF En
  <2>3. Enlazada(mem, c, z, k, b)
    BY <1>2, <1>3, <2>1, <2>2, Enlace
  <2> QED
    BY <2>3 DEF Enlazada
<1>x. k - 1 = l /\ (k = 1 <=> l = 0)
  BY <1>5, <1>k
<1>n. PICK r : r = [contenido |-> m, next |-> NULO]
  OBVIOUS
<1>r. r \in NodoMensaje /\ r.contenido = m /\ r.next = NULO
  BY <1>n DEF NodoMensaje, Punteros
<1>10. /\ nodo' = [mem EXCEPT ![b] = r] /\ nodo'[b] = r
       /\ \A x \in Direcciones \ {b} : nodo'[x] = mem[x]
  <2>1. nodo' = [mem EXCEPT ![b] = r]
    BY <1>1, <1>8, <1>n
  <2> QED
    BY <1>6, <1>9, <2>1
<1>11. TypeOK'
  <2>1. nodo' \in [Direcciones -> Nodo]
    BY <1>6, <1>9, <1>10, <1>r DEF Nodo
  <2>2. curso' \in {Ninguno} \cup Operacion
    BY <1>1, <1>4, <1>6 DEF Operacion, Punteros
  <2> QED
    BY <1>1, <2>1, <2>2 DEF TypeOK, Nodo, Operacion
<1> DEFINE t == Append(z, b)
<1>12. /\ t \in Seq(Direcciones) /\ Len(t) = l + 1 /\ t # <<>> /\ t[l + 1] = b
       /\ \A i \in 1..l : t[i] = z[i]
  BY <1>4, <1>5, <1>6, UnoMasDe
<1> HIDE DEF t
<1>13. \A i \in 1..l : z[i] \in Direcciones /\ z[i] # b /\ z[i] \in Rango(z)
  BY <1>4, <1>5, <1>7 DEF Rango
<1>14. \A i \in 1..l :
         /\ nodo'[t[i]] \in NodoMensaje /\ nodo'[t[i]].contenido = nodo[z[i]].contenido
         /\ nodo'[t[i]].next = IF i = l THEN b ELSE z[i + 1]
  BY <1>9, <1>x, <1>10, <1>12, <1>13
<1>15. nodo'[c] = mem[c] /\ nodo'[t[l + 1]] = r
  BY <1>4, <1>7, <1>10, <1>12
<1>16. Camino(nodo', Pend(nodo', curso', c), t)
  <2>1. Pend(nodo', curso', c) = IF l = 0 THEN b ELSE z[1]
    <3>1. curso'.op # "conectar"
      BY <1>1, OperacionBien
    <3> QED
      BY <1>9, <1>x, <1>15, <3>1 DEF Pend
  <2>2. En(t, 1) = IF l = 0 THEN b ELSE z[1]
    <3>1. 1 <= l + 1 /\ (l # 0 => 1 \in 1..l)
      BY <1>5
    <3> QED
      BY <1>12, <3>1 DEF En
  <2>3. ASSUME NEW i \in 1..l PROVE En(t, i + 1) = IF i = l THEN b ELSE z[i + 1]
    <3>1. i + 1 <= l + 1 /\ (i # l => i + 1 \in 1..l)
      BY <1>5
    <3> QED
      BY <1>12, <3>1 DEF En
  <2>4. \A i \in 1..l : nodo'[t[i]] # Libre /\ nodo'[t[i]].next = En(t, i + 1)
    BY <1>14, <2>3, Clases
  <2>5. nodo'[t[l + 1]] # Libre /\ nodo'[t[l + 1]].next = En(t, (l + 1) + 1)
    <3>1. ~((l + 1) + 1 <= l + 1)
      BY <1>5
    <3> QED
      BY <1>r, <1>12, <1>15, <3>1, Clases DEF En
  <2>6. \A i \in 1..(l + 1) : i \in 1..l \/ i = l + 1
    BY <1>5
  <2>7. \A i, j \in 1..(l + 1) : t[i] = t[j] => i = j
    BY <1>4, <1>5, <1>12, <1>13, <2>6 DEF Camino
  <2> QED
    BY <1>12, <2>1, <2>2, <2>4, <2>5, <2>6, <2>7 DEF Camino
<1>17. Rango(t) = Rango(z) \cup {b}
  <2>1. \A i \in 1..(l + 1) : i \in 1..l \/ i = l + 1
    BY <1>5
  <2>2. \A i \in 1..l : i \in 1..(l + 1)
    BY <1>5
  <2>3. l + 1 \in 1..(l + 1)
    BY <1>5
  <2> QED
    BY <1>5, <1>12, <2>1, <2>2, <2>3 DEF Rango
<1>18. CambiaCola(nodo, curso, s, q, c, nodo', curso', t)
  <2>1. ASSUME NEW a \in Rango(s) \ {c}
        PROVE  /\ nodo'[a] = nodo[a]
               /\ \A x \in Rango(q[a]) : nodo'[x] = nodo[x] /\ x \notin Rango(t)
    <3>1. a \in Direcciones /\ \A x \in Rango(q[a]) : x \in Direcciones /\ x \notin Rango(s)
      BY Suya
    <3>2. /\ a \notin Rango(z) /\ Rango(q[a]) \cap Rango(z) = {}
          /\ a # b /\ b \notin Rango(q[a])
      BY <1>4, <1>6
    <3>3. \A x \in Direcciones \ {b, c} : x \notin Rango(z) => nodo'[x] = nodo[x]
      BY <1>9, <1>x, <1>10, <1>13
    <3> QED
      BY <1>2, <1>17, <3>1, <3>2, <3>3
  <2>2. \A j \in 1..Len(t) : nodo'[t[j]] \in NodoMensaje
    <3>1. \A i \in 1..(l + 1) : i \in 1..l \/ i = l + 1
      BY <1>5
    <3> QED
      BY <1>12, <1>14, <1>15, <1>r, <3>1
  <2>3. curso' = Ninguno \/ curso'.cliente = c
    BY <1>1
  <2> QED
    BY <1>1, <1>2, <1>9, <1>12, <1>15, <1>16, <2>1, <2>2, <2>3 DEF CambiaCola
<1>19. EnMano(curso', s, [q EXCEPT ![c] = t])
  <2>1. [q EXCEPT ![c] = t][c] = t
    BY <1>4 DEF Forma
  <2> QED
    BY <1>1, <1>2, <1>12, <2>1 DEF EnMano
<1>20. Textos(nodo', t) = Append(Textos(nodo, q[c]), m)
  <2>1. PICK x \in Seq(Mensajes) : x = Textos(nodo, z)
    <3>1. \A i \in 1..Len(z) : nodo[z[i]].contenido \in Mensajes
      BY <1>4, PunterosDe
    <3> QED
      BY <1>5, <3>1, TextosTipo
  <2>2. Len(x) = l /\ \A i \in 1..l : x[i] = nodo[z[i]].contenido
    BY <1>5, <2>1, TextosBien
  <2>3. PICK w \in Seq(Mensajes) : w = Append(x, m) /\ Len(w) = l + 1 /\ w[l + 1] = m
                                   /\ \A i \in 1..l : w[i] = x[i]
    <3>1. /\ Append(x, m) \in Seq(Mensajes) /\ Len(Append(x, m)) = Len(x) + 1
          /\ Append(x, m)[Len(x) + 1] = m
          /\ \A i \in 1..Len(x) : Append(x, m)[i] = x[i]
      BY UnoMasDe
    <3>2. PICK v : v = Append(x, m)
      OBVIOUS
    <3> QED
      BY <2>2, <3>1, <3>2
  <2>4. \A i \in 1..(l + 1) : i \in 1..l \/ i = l + 1
    BY <1>5
  <2>5. \A i \in 1..(l + 1) : w[i] = nodo'[t[i]].contenido
    BY <1>r, <1>14, <1>15, <2>2, <2>3, <2>4
  <2>6. w = [i \in 1..(l + 1) |-> nodo'[t[i]].contenido]
    <3>1. w \in Seq(Mensajes) /\ Len(w) = k
      BY <1>k, <2>3
    <3>2. w = [i \in 1..k |-> w[i]]
      BY <3>1
    <3> QED
      BY <1>k, <2>5, <3>2
  <2>7. Textos(nodo', t) = [i \in 1..(l + 1) |-> nodo'[t[i]].contenido]
    BY <1>12 DEF Textos
  <2> QED
    BY <1>3, <2>1, <2>3, <2>6, <2>7
<1>21. \A a \in Rango(s) : \A j \in 1..Len(q[a]) : nodo[q[a][j]].contenido # m
  <2> SUFFICES ASSUME NEW a \in Rango(s), NEW j \in 1..Len(q[a])
               PROVE  nodo[q[a][j]].contenido # m
    OBVIOUS
  <2>1. q[a][j] \in Direcciones /\ nodo[q[a][j]] \in NodoMensaje
    BY Suya DEF Rango
  <2> QED
    BY <1>1, <2>1
<1> QED
  BY <1>1, <1>11, <1>18, <1>19, <1>20, <1>21, AvanceCola
-----------------------------------------------------------------------------
\* The operations on the list of clients.
LEMMA DelanteDe ==
  ASSUME NEW D, NEW z \in Seq(D), NEW d \in D
  PROVE  /\ Len(z) \in Nat /\ <<d>> \o z \in Seq(D) /\ Len(<<d>> \o z) = Len(z) + 1
         /\ (<<d>> \o z)[1] = d
         /\ \A i \in 1..Len(z) : (<<d>> \o z)[i + 1] = z[i]
OBVIOUS

LEMMA RestoDe ==
  ASSUME NEW D, NEW z \in Seq(D), NEW k \in 1..Len(z)
  PROVE  /\ Len(z) \in Nat /\ SubSeq(z, k + 1, Len(z)) \in Seq(D)
         /\ Len(SubSeq(z, k + 1, Len(z))) = Len(z) - k
         /\ \A i \in 1..(Len(z) - k) : SubSeq(z, k + 1, Len(z))[i] = z[i + k]
<1>1. PICK l \in Nat : l = Len(z)
  OBVIOUS
<1>2. k \in Nat /\ k >= 1 /\ k <= l
  BY <1>1
<1>3. PICK m \in Nat : m = l - k
  BY <1>2
<1>4. \A i \in 1..m : i + k \in 1..l /\ (k + 1) + i - 1 = i + k
  BY <1>2, <1>3
<1>5. SubSeq(z, k + 1, l) = [i \in 1..m |-> z[i + k]]
  <2>1. l - (k + 1) + 1 = m
    BY <1>2, <1>3
  <2>2. SubSeq(z, k + 1, l) = [i \in 1..(l - (k + 1) + 1) |-> z[(k + 1) + i - 1]]
    BY <1>2
  <2> QED
    BY <1>4, <2>1, <2>2
<1>6. \A i \in 1..m : z[i + k] \in D
  BY <1>1, <1>4
<1> QED
  BY <1>1, <1>3, <1>5, <1>6

LEMMA AvanceRegistrar ==
  ASSUME TypeOK, NEW s, NEW q, Forma(nodo, head, curso, s, q),
         NEW u \in Usuarios, existe_usuario(u) = NULO, curso = Ninguno, curso' = Ninguno,
         NEW a \in Libres,
         nodo' = [nodo EXCEPT ![a] = [nombre |-> u, mensajes_pendientes |-> NULO,
                                      next |-> head, before |-> NULO]],
         head' = a
  PROVE  Avance
<1>1. /\ s \in Seq(Direcciones) /\ Camino(nodo, head, s) /\ Clientela(nodo, head, s)
      /\ q \in [Direcciones -> Seq(Direcciones)]
  BY DEF Forma, Clientela, Camino
<1>2. PICK l \in Nat : l = Len(s)
  BY <1>1
<1>3. a \in Direcciones /\ a \notin Rango(s) /\ \A b \in Rango(s) : a \notin Rango(q[b])
  BY LibreFuera
<1>4. PICK r : r = [nombre |-> u, mensajes_pendientes |-> NULO, next |-> head, before |-> NULO]
  OBVIOUS
<1>5. /\ r \in NodoCliente /\ r.nombre = u /\ r.mensajes_pendientes = NULO
      /\ r.next = head /\ r.before = NULO
  BY <1>4 DEF NodoCliente, Punteros, TypeOK
<1>6. nodo' = [nodo EXCEPT ![a] = r] /\ nodo'[a] = r
      /\ \A x \in Direcciones \ {a} : nodo'[x] = nodo[x]
  BY <1>3, <1>4 DEF TypeOK
<1>7. TypeOK'
  BY <1>3, <1>5, <1>6 DEF TypeOK, Punteros
<1> DEFINE t == <<a>> \o s
           p == [q EXCEPT ![a] = <<>>]
<1>8. /\ t \in Seq(Direcciones) /\ Len(t) = l + 1 /\ t[1] = a
      /\ \A i \in 1..l : t[i + 1] = s[i]
  BY <1>1, <1>2, <1>3, DelanteDe
<1>9. p \in [Direcciones -> Seq(Direcciones)] /\ p[a] = <<>>
      /\ \A b \in Direcciones \ {a} : p[b] = q[b]
  <2>1. <<>> \in Seq(Direcciones)
    OBVIOUS
  <2> QED
    BY <1>1, <1>3, <2>1
<1> HIDE DEF t, p
<1>10. \A i \in 1..(l + 1) : i = 1 \/ \E j \in 1..l : i = j + 1
  <2> SUFFICES ASSUME NEW i \in 1..(l + 1), i # 1 PROVE \E j \in 1..l : i = j + 1
    OBVIOUS
  <2>1. i - 1 \in 1..l /\ i = (i - 1) + 1
    BY <1>2
  <2> QED
    BY <2>1
<1>11. \A j \in 1..l : /\ s[j] \in Rango(s) /\ s[j] \in Direcciones /\ s[j] # a
                       /\ nodo'[s[j]] = nodo[s[j]] /\ p[s[j]] = q[s[j]]
                       /\ nodo[s[j]] \in NodoCliente /\ nodo[s[j]].before = NULO
                       /\ nodo[s[j]].next = En(s, j + 1)
  <2>1. \A j \in 1..l : s[j] \in Rango(s) /\ s[j] \in Direcciones
    BY <1>1, <1>2 DEF Rango
  <2>2. \A j \in 1..l : /\ nodo[s[j]] \in NodoCliente /\ nodo[s[j]].before = NULO
                        /\ nodo[s[j]].next = En(s, j + 1)
    BY <1>1, <1>2 DEF Clientela, Camino
  <2> QED
    BY <1>3, <1>6, <1>9, <2>1, <2>2
<1>y. /\ nodo'[t[1]] = r
      /\ \A j \in 1..l : t[j + 1] = s[j] /\ nodo'[t[j + 1]] = nodo[s[j]]
  BY <1>6, <1>8, <1>11
<1>12. \A j \in 1..l : nodo[s[j]].nombre # u
  BY <1>2, Existencia
<1>13. \A j \in 0..l : En(t, j + 1 + 1) = En(s, j + 1)
  <2> SUFFICES ASSUME NEW j \in 0..l PROVE En(t, j + 1 + 1) = En(s, j + 1)
    OBVIOUS
  <2>1. j + 1 + 1 <= l + 1 <=> j + 1 <= l
    BY <1>2
  <2>2. j + 1 <= l => j + 1 \in 1..l
    BY <1>2
  <2> QED
    BY <1>2, <1>8, <2>1, <2>2 DEF En
<1>14. Camino(nodo', a, t)
  <2>1. \A i, j \in 1..(l + 1) : t[i] = t[j] => i = j
    <3> SUFFICES ASSUME NEW i \in 1..(l + 1), NEW j \in 1..(l + 1), t[i] = t[j]
                 PROVE  i = j
      OBVIOUS
    <3>1. i = 1 \/ \E e \in 1..l : i = e + 1
      BY <1>10
    <3>2. j = 1 \/ \E e \in 1..l : j = e + 1
      BY <1>10
    <3>3. \A e \in 1..l : t[e + 1] = s[e] /\ s[e] # a
      BY <1>8, <1>11
    <3>4. \A e, f \in 1..l : s[e] = s[f] => e = f
      BY <1>1, <1>2 DEF Camino
    <3> QED
      BY <1>8, <3>1, <3>2, <3>3, <3>4
  <2>2. a = En(t, 1)
    BY <1>2, <1>8 DEF En
  <2>3. nodo'[t[1]] # Libre /\ nodo'[t[1]].next = En(t, 1 + 1)
    <3>1. 0 \in 0..l /\ 0 + 1 = 1
      BY <1>2
    <3>2. En(t, 1 + 1) = En(s, 1)
      BY <1>13, <3>1
    <3> QED
      BY <1>1, <1>5, <1>6, <1>8, <3>2, Clases DEF Camino
  <2>4. \A j \in 1..l : nodo'[t[j + 1]] # Libre /\ nodo'[t[j + 1]].next = En(t, j + 1 + 1)
    <3>1. \A j \in 1..l : j \in 0..l
      BY <1>2
    <3> QED
      BY <1>8, <1>11, <1>13, <3>1, Clases
  <2>5. \A i \in 1..(l + 1) : nodo'[t[i]] # Libre /\ nodo'[t[i]].next = En(t, i + 1)
    BY <1>10, <2>3, <2>4
  <2> QED
    BY <1>8, <2>1, <2>2, <2>5 DEF Camino
<1>15. Clientela(nodo', head', t)
  <2>1. \A i \in 1..(l + 1) : nodo'[t[i]] \in NodoCliente /\ nodo'[t[i]].before = NULO
    <3>1. nodo'[t[1]] \in NodoCliente /\ nodo'[t[1]].before = NULO
      BY <1>y, <1>5
    <3>2. \A j \in 1..l : nodo'[t[j + 1]] \in NodoCliente /\ nodo'[t[j + 1]].before = NULO
      BY <1>y, <1>11
    <3> QED
      BY <1>10, <3>1, <3>2
  <2>2. \A i, j \in 1..(l + 1) : nodo'[t[i]].nombre = nodo'[t[j]].nombre => i = j
    <3>1. \A i, j \in 1..l : nodo[s[i]].nombre = nodo[s[j]].nombre => i = j
      BY <1>1, <1>2 DEF Clientela
    <3> SUFFICES ASSUME NEW i \in 1..(l + 1), NEW j \in 1..(l + 1),
                        nodo'[t[i]].nombre = nodo'[t[j]].nombre
                 PROVE  i = j
      OBVIOUS
    <3>2. i = 1 \/ \E e \in 1..l : i = e + 1
      BY <1>10
    <3>3. j = 1 \/ \E e \in 1..l : j = e + 1
      BY <1>10
    <3>4. nodo'[t[1]].nombre = u
      BY <1>y, <1>5
    <3>5. \A e \in 1..l : nodo'[t[e + 1]].nombre = nodo[s[e]].nombre
      BY <1>y
    <3> QED
      BY <1>12, <3>1, <3>2, <3>3, <3>4, <3>5
  <2> QED
    BY <1>8, <1>14, <2>1, <2>2 DEF Clientela
<1>16. Rango(t) = Rango(s) \cup {a}
  <2>1. \A i \in 1..(l + 1) : t[i] = a \/ \E j \in 1..l : t[i] = s[j]
    BY <1>8, <1>10
  <2>2. 1 \in 1..(l + 1) /\ \A j \in 1..l : j + 1 \in 1..(l + 1)
    BY <1>2
  <2>3. Rango(t) \subseteq Rango(s) \cup {a}
    BY <1>2, <1>8, <2>1 DEF Rango
  <2>4. a \in Rango(t)
    BY <1>8, <2>2 DEF Rango
  <2>5. ASSUME NEW x \in Rango(s) PROVE x \in Rango(t)
    <3>1. PICK j \in 1..l : x = s[j]
      BY <1>2 DEF Rango
    <3>2. j + 1 \in 1..Len(t) /\ t[j + 1] = x
      BY <1>8, <2>2, <3>1
    <3> QED
      BY <3>2 DEF Rango
  <2> QED
    BY <2>3, <2>4, <2>5
<1>17. \A b \in Rango(s) : /\ b \in Direcciones /\ b # a /\ nodo'[b] = nodo[b] /\ p[b] = q[b]
                           /\ \A x \in Rango(q[b]) : nodo'[x] = nodo[x]
                           /\ \A j \in 1..Len(q[b]) : nodo'[q[b][j]] = nodo[q[b][j]]
  <2> SUFFICES ASSUME NEW b \in Rango(s)
               PROVE  /\ b \in Direcciones /\ b # a /\ nodo'[b] = nodo[b] /\ p[b] = q[b]
                      /\ \A x \in Rango(q[b]) : nodo'[x] = nodo[x]
                      /\ \A j \in 1..Len(q[b]) : nodo'[q[b][j]] = nodo[q[b][j]]
    OBVIOUS
  <2>1. b \in Direcciones /\ \A x \in Rango(q[b]) : x \in Direcciones
    BY Suya
  <2>2. \A x \in Rango(q[b]) : nodo'[x] = nodo[x]
    BY <1>3, <1>6, <2>1
  <2>3. \A j \in 1..Len(q[b]) : q[b][j] \in Rango(q[b])
    BY DEF Rango
  <2> QED
    BY <1>3, <1>6, <1>9, <2>1, <2>2, <2>3
<1>18. Buzones(nodo', curso', t, p)
  <2>1. ASSUME NEW b \in Rango(s)
        PROVE  /\ Camino(nodo', Pend(nodo', curso', b), p[b])
               /\ \A j \in 1..Len(p[b]) : nodo'[p[b][j]] \in NodoMensaje
    <3>1. /\ Camino(nodo, Pend(nodo, curso, b), q[b])
          /\ \A j \in 1..Len(q[b]) : nodo[q[b][j]] \in NodoMensaje
      BY Suya
    <3>2. Pend(nodo', curso', b) = Pend(nodo, curso, b)
      BY <1>17 DEF Pend
    <3>3. \A j \in 1..Len(q[b]) :
            nodo'[q[b][j]] # Libre /\ nodo'[q[b][j]].next = nodo[q[b][j]].next
      BY <1>17, <3>1, Clases
    <3>4. Camino(nodo', Pend(nodo, curso, b), q[b])
      BY <3>1, <3>3, CaminoIgual
    <3> QED
      BY <1>17, <3>1, <3>2, <3>4
  <2>2. /\ Camino(nodo', Pend(nodo', curso', a), p[a])
        /\ \A j \in 1..Len(p[a]) : nodo'[p[a][j]] \in NodoMensaje
    <3>1. Pend(nodo', curso', a) = NULO
      BY <1>5, <1>6, OperacionBien DEF Pend
    <3>2. Len(p[a]) = 0 /\ p[a] \in Seq(Direcciones)
      BY <1>9
    <3> QED
      BY <3>1, <3>2 DEF Camino, En
  <2>3. \A b, e \in Rango(s) : b # e => Rango(p[b]) \cap Rango(p[e]) = {}
    <3>1. \A b, e \in Rango(s) : b # e => Rango(q[b]) \cap Rango(q[e]) = {}
      BY DEF Forma, Buzones
    <3> QED
      BY <1>17, <3>1
  <2>4. Rango(p[a]) = {}
    BY <1>9 DEF Rango
  <2> QED
    BY <1>16, <2>1, <2>2, <2>3, <2>4 DEF Buzones
<1>19. Forma(nodo', head', curso', t, p)
  BY <1>9, <1>15, <1>18 DEF Forma, EnMano
<1>20. Inv'
  BY <1>7, <1>19 DEF Inv
<1>21. Vista(nodo, s, q, Nombres, ColasVistas) /\ Vista(nodo', t, p, Nombres', ColasVistas')
  BY <1>7, <1>19, VistaActual, VistaSiguiente
<1>22. Nombres = [i \in 1..l |-> nodo[s[i]].nombre]
  BY <1>2, <1>21 DEF Vista
<1>23. L!Alta(u)
  <2>1. ~L!Existe(u)
    <3>1. Len(Nombres) = l
      BY <1>2, <1>22
    <3> QED
      BY <1>12, <1>22, <3>1 DEF L!Existe
  <2>2. PICK n \in Seq(Usuarios) : n = Nombres /\ Len(n) = l
    <3>1. \A i \in 1..l : nodo[s[i]].nombre \in Usuarios
      BY <1>11, PunterosDe
    <3> QED
      BY <1>2, <1>22, <3>1
  <2>3. PICK w \in Seq(Usuarios) : w = <<u>> \o n /\ Len(w) = l + 1 /\ w[1] = u
                                   /\ \A i \in 1..l : w[i + 1] = n[i]
    <3>1. /\ <<u>> \o n \in Seq(Usuarios) /\ Len(<<u>> \o n) = Len(n) + 1 /\ (<<u>> \o n)[1] = u
          /\ \A i \in 1..Len(n) : (<<u>> \o n)[i + 1] = n[i]
      BY DelanteDe
    <3>2. PICK v : v = <<u>> \o n
      OBVIOUS
    <3> QED
      BY <2>2, <3>1, <3>2
  <2>4. \A i \in 1..(l + 1) : w[i] = nodo'[t[i]].nombre
    BY <1>5, <1>6, <1>8, <1>10, <1>11, <1>22, <2>2, <2>3
  <2>5. PICK k \in Nat : k = l + 1
    BY <1>2
  <2>6. w = [i \in 1..k |-> w[i]]
    BY <2>3, <2>5
  <2>7. Nombres' = [i \in 1..k |-> nodo'[t[i]].nombre]
    BY <1>8, <1>21, <2>5 DEF Vista
  <2>8. Nombres' = w
    BY <2>4, <2>5, <2>6, <2>7
  <2> QED
    BY <2>1, <2>2, <2>3, <2>8 DEF L!Alta
<1>24. L!Vacia({u})
  <2>1. ASSUME NEW w \in Usuarios
        PROVE  ColasVistas'[w] = IF w \in {u} THEN <<>> ELSE ColasVistas[w]
    <3>1. CASE w = u
      <4>1. ColasVistas'[nodo'[t[1]].nombre] = Textos(nodo', p[t[1]])
        <5>1. 1 \in 1..Len(t)
          BY <1>2, <1>8
        <5> QED
          BY <1>21, <5>1 DEF Vista
      <4>2. Textos(nodo', p[a]) = <<>>
        BY <1>9 DEF Textos
      <4> QED
        BY <1>5, <1>6, <1>8, <3>1, <4>1, <4>2
    <3>2. CASE w # u /\ \A j \in 1..l : nodo[s[j]].nombre # w
      <4>1. ColasVistas[w] = <<>>
        BY <1>2, <1>21, <3>2 DEF Vista
      <4>2. \A i \in 1..Len(t) : nodo'[t[i]].nombre # w
        <5>1. nodo'[t[1]].nombre # w
          BY <1>y, <1>5, <3>2
        <5>2. \A j \in 1..l : nodo'[t[j + 1]].nombre # w
          BY <1>y, <3>2
        <5> QED
          BY <1>8, <1>10, <5>1, <5>2
      <4>3. ColasVistas'[w] = <<>>
        BY <1>21, <4>2 DEF Vista
      <4> QED
        BY <3>2, <4>1, <4>3
    <3>3. ASSUME NEW j \in 1..l, nodo[s[j]].nombre = w
          PROVE  ColasVistas'[w] = ColasVistas[w] /\ w # u
      <4>1. ColasVistas[w] = Textos(nodo, q[s[j]])
        BY <1>2, <1>21, <3>3 DEF Vista
      <4>2. j + 1 \in 1..Len(t) /\ t[j + 1] = s[j]
        BY <1>2, <1>8
      <4>3. ColasVistas'[nodo'[t[j + 1]].nombre] = Textos(nodo', p[t[j + 1]])
        BY <1>21, <4>2 DEF Vista
      <4>4. ColasVistas'[w] = Textos(nodo', q[s[j]])
        BY <1>11, <3>3, <4>2, <4>3
      <4>5. Textos(nodo', q[s[j]]) = Textos(nodo, q[s[j]])
        <5>1. \A i \in 1..Len(q[s[j]]) : nodo'[q[s[j]][i]] = nodo[q[s[j]][i]]
          BY <1>11, <1>17
        <5> QED
          BY <5>1 DEF Textos
      <4> QED
        BY <1>12, <3>3, <4>1, <4>4, <4>5
    <3> QED
      BY <3>1, <3>2, <3>3
  <2>2. ColasVistas' = [w \in Usuarios |-> ColasVistas'[w]]
    BY <1>21 DEF Vista
  <2>3. ColasVistas' = [w \in Usuarios |-> IF w \in {u} THEN <<>> ELSE ColasVistas[w]]
    BY <2>1, <2>2
  <2> QED
    BY <2>3 DEF L!Vacia, ColasVistas
<1>25. L!NextColas
  BY <1>23, <1>24 DEF L!NextColas, L!Registrar
<1> QED
  BY <1>20, <1>25 DEF Avance

\* A step that changes nothing.
LEMMA AvanceQuieto ==
  ASSUME TypeOK, NEW s, NEW q, Forma(nodo, head, curso, s, q), UNCHANGED vars
  PROVE  Avance
<1>1. head' = head /\ nodo' = nodo /\ curso' = curso
  BY DEF vars
<1>2. TypeOK' /\ Forma(nodo', head', curso', s, q)
  BY <1>1 DEF TypeOK
<1>3. Inv'
  BY <1>2 DEF Inv
<1>4. Vista(nodo, s, q, Nombres, ColasVistas) /\ Vista(nodo, s, q, Nombres', ColasVistas')
  BY <1>1, <1>2, VistaActual, VistaSiguiente
<1>5. Nombres' = Nombres
  BY <1>4 DEF Vista
<1>6. ASSUME NEW u \in Usuarios PROVE ColasVistas'[u] = ColasVistas[u]
  <2>1. CASE \A i \in 1..Len(s) : nodo[s[i]].nombre # u
    BY <1>4, <2>1 DEF Vista
  <2>2. CASE \E i \in 1..Len(s) : nodo[s[i]].nombre = u
    BY <1>4, <2>2 DEF Vista
  <2> QED
    BY <2>1, <2>2
<1>7. ColasVistas' = ColasVistas
  BY <1>4, <1>6 DEF Vista
<1> QED
  BY <1>3, <1>5, <1>7 DEF Avance

\* What dar_de_baja_usuario leaves in memory: since `before' is always null, the node
\* is taken for the first one and head moves to the one behind it.
LEMMA TrasLaBaja ==
  ASSUME TypeOK, NEW s, NEW q, Forma(nodo, head, curso, s, q),
         NEW u \in Usuarios, DarDeBaja(u)
  PROVE  \E k \in 1..Len(s) :
           /\ nodo[s[k]].nombre = u /\ head' = En(s, k + 1)
           /\ curso = Ninguno /\ curso' = Ninguno
           /\ nodo' = [a \in Direcciones |->
                         IF a = s[k] \/ a \in Rango(q[s[k]]) THEN Libre ELSE nodo[a]]
<1>1. PICK c : c = existe_usuario(u)
  OBVIOUS
<1>2. c # NULO /\ curso = Ninguno /\ curso' = Ninguno
  BY <1>1 DEF DarDeBaja
<1>3. PICK k \in 1..Len(s) : c = s[k] /\ nodo[s[k]].nombre = u
  BY <1>1, <1>2, Existencia
<1>4. c \in Rango(s) /\ nodo[c].before = NULO /\ nodo[c].next = En(s, k + 1)
  BY <1>3 DEF Forma, Clientela, Camino, Rango
<1>5. Nodos(nodo[c].mensajes_pendientes) = Rango(q[c])
  <2>1. Pendientes(c) = Pend(nodo, curso, c) /\ Nodos(Pendientes(c)) = Rango(q[c])
    BY <1>4, Recorridos
  <2> QED
    BY <1>2, <2>1, OperacionBien DEF Pend
<1>6. PICK sig : sig = En(s, k + 1)
  OBVIOUS
<1>7. sig # NULO => [nodo EXCEPT ![sig].before = NULO] = nodo
  <2> SUFFICES ASSUME sig # NULO PROVE [nodo EXCEPT ![sig].before = NULO] = nodo
    OBVIOUS
  <2>1. Len(s) \in Nat
    BY Recorridos
  <2>2. k + 1 \in 1..Len(s) /\ sig = s[k + 1]
    BY <1>6, <2>1 DEF En
  <2>3. nodo[sig] \in NodoCliente /\ nodo[sig].before = NULO
    BY <2>2 DEF Forma, Clientela
  <2>4. PICK r : r = nodo[sig]
    OBVIOUS
  <2>5. [r EXCEPT !.before = NULO] = r
    BY <2>3, <2>4 DEF NodoCliente
  <2> QED
    BY <2>4, <2>5 DEF TypeOK
<1>8. /\ head' = sig
      /\ nodo' = [a \in Direcciones |-> IF a = c \/ a \in Rango(q[c]) THEN Libre ELSE nodo[a]]
  BY <1>1, <1>4, <1>5, <1>6, <1>7 DEF DarDeBaja
<1> QED
  BY <1>2, <1>3, <1>6, <1>8

LEMMA AvanceBaja ==
  ASSUME TypeOK, NEW s, NEW q, Forma(nodo, head, curso, s, q),
         NEW u \in Usuarios, DarDeBaja(u)
  PROVE  Avance
<1>1. PICK k \in 1..Len(s) :
         /\ nodo[s[k]].nombre = u /\ head' = En(s, k + 1)
         /\ curso = Ninguno /\ curso' = Ninguno
         /\ nodo' = [a \in Direcciones |->
                       IF a = s[k] \/ a \in Rango(q[s[k]]) THEN Libre ELSE nodo[a]]
  BY TrasLaBaja
<1>2. /\ s \in Seq(Direcciones) /\ Camino(nodo, head, s) /\ Clientela(nodo, head, s)
      /\ q \in [Direcciones -> Seq(Direcciones)]
  BY DEF Forma, Clientela, Camino
<1>3. PICK l \in Nat : l = Len(s)
  BY <1>2
<1>4. PICK c \in Rango(s) : c = s[k]
  BY DEF Rango
<1> DEFINE t == SubSeq(s, k + 1, Len(s))
<1>5. PICK m \in Nat : m = l - k
  <2>1. k \in Nat /\ k <= l
    BY <1>3
  <2> QED
    BY <2>1
<1>6. /\ k \in 1..l /\ t \in Seq(Direcciones) /\ Len(t) = m
      /\ \A i \in 1..m : t[i] = s[i + k]
  BY <1>2, <1>3, <1>5, RestoDe
<1> HIDE DEF t
<1>7. /\ Camino(nodo, En(s, k + 1), t)
      /\ Rango(t) \subseteq Rango(s) /\ \A j \in 1..k : s[j] \notin Rango(t)
  BY <1>2, <1>3, <1>5, <1>6, CaminoResto
<1>8. c \notin Rango(t) /\ \A i \in 1..m : t[i] \in Rango(t)
  <2>1. k \in 1..k
    BY <1>6
  <2> QED
    BY <1>4, <1>6, <1>7, <2>1 DEF Rango
<1>9. \A b \in Rango(t) :
        /\ b \in Direcciones /\ nodo[b] \in NodoCliente /\ nodo'[b] = nodo[b]
        /\ \A x \in Rango(q[b]) : nodo'[x] = nodo[x]
        /\ \A j \in 1..Len(q[b]) : nodo'[q[b][j]] = nodo[q[b][j]]
  <2> SUFFICES ASSUME NEW b \in Rango(t)
               PROVE  /\ b \in Direcciones /\ nodo[b] \in NodoCliente /\ nodo'[b] = nodo[b]
                      /\ \A x \in Rango(q[b]) : nodo'[x] = nodo[x]
                      /\ \A j \in 1..Len(q[b]) : nodo'[q[b][j]] = nodo[q[b][j]]
    OBVIOUS
  <2>1. b \in Rango(s) \ {c}
    BY <1>7, <1>8
  <2>2. /\ b \in Direcciones /\ nodo[b] \in NodoCliente
        /\ \A x \in Rango(q[b]) : x \in Direcciones /\ x \notin Rango(s)
    BY <2>1, Suya
  <2>3. b \notin Rango(q[c]) /\ Rango(q[b]) \cap Rango(q[c]) = {}
    BY <1>4, <2>1, Suya
  <2>4. nodo'[b] = nodo[b]
    BY <1>1, <1>4, <2>1, <2>2, <2>3
  <2>5. \A x \in Rango(q[b]) : nodo'[x] = nodo[x]
    BY <1>1, <1>4, <2>2, <2>3
  <2>6. \A j \in 1..Len(q[b]) : q[b][j] \in Rango(q[b])
    BY DEF Rango
  <2> QED
    BY <2>2, <2>4, <2>5, <2>6
<1>10. TypeOK'
  <2>1. head' \in Punteros
    BY <1>1, <1>2 DEF En, Punteros
  <2> QED
    BY <1>1, <2>1 DEF TypeOK
<1>11. Clientela(nodo', head', t)
  <2>1. \A i \in 1..m : nodo'[t[i]] # Libre /\ nodo'[t[i]].next = nodo[t[i]].next
    BY <1>8, <1>9, Clases
  <2>2. Camino(nodo', head', t)
    BY <1>1, <1>6, <1>7, <2>1, CaminoIgual
  <2>3. \A i \in 1..m : i + k \in 1..l /\ nodo'[t[i]] = nodo[s[i + k]]
    <3>1. \A i \in 1..m : i + k \in 1..l
      BY <1>5, <1>6
    <3> QED
      BY <1>6, <1>8, <1>9, <3>1
  <2>4. \A i \in 1..m : nodo'[t[i]] \in NodoCliente /\ nodo'[t[i]].before = NULO
    <3>1. \A i \in 1..l : nodo[s[i]] \in NodoCliente /\ nodo[s[i]].before = NULO
      BY <1>2, <1>3 DEF Clientela
    <3> QED
      BY <2>3, <3>1
  <2>5. ASSUME NEW i \in 1..m, NEW j \in 1..m, nodo'[t[i]].nombre = nodo'[t[j]].nombre
        PROVE  i = j
    <3>1. i + k = j + k
      <4>1. \A e, f \in 1..l : nodo[s[e]].nombre = nodo[s[f]].nombre => e = f
        BY <1>2, <1>3 DEF Clientela
      <4>2. PICK e \in 1..l, f \in 1..l : e = i + k /\ f = j + k
        BY <2>3
      <4>3. nodo'[t[i]] = nodo[s[e]] /\ nodo'[t[j]] = nodo[s[f]]
        BY <2>3, <4>2
      <4> QED
        BY <2>5, <4>1, <4>2, <4>3
    <3> QED
      BY <1>6, <3>1
  <2> QED
    BY <1>6, <2>2, <2>4, <2>5 DEF Clientela
<1>12. Buzones(nodo', curso', t, q)
  <2>1. ASSUME NEW b \in Rango(t)
        PROVE  /\ Camino(nodo', Pend(nodo', curso', b), q[b])
               /\ \A j \in 1..Len(q[b]) : nodo'[q[b][j]] \in NodoMensaje
    <3>1. /\ Camino(nodo, Pend(nodo, curso, b), q[b])
          /\ \A j \in 1..Len(q[b]) : nodo[q[b][j]] \in NodoMensaje
      BY <1>7, Suya
    <3>2. Pend(nodo', curso', b) = Pend(nodo, curso, b)
      BY <1>1, <1>9 DEF Pend
    <3>3. \A j \in 1..Len(q[b]) :
            nodo'[q[b][j]] # Libre /\ nodo'[q[b][j]].next = nodo[q[b][j]].next
      BY <1>9, <3>1, Clases
    <3>4. Camino(nodo', Pend(nodo, curso, b), q[b])
      BY <3>1, <3>3, CaminoIgual
    <3> QED
      BY <1>9, <3>1, <3>2, <3>4
  <2>2. \A b, e \in Rango(t) : b # e => Rango(q[b]) \cap Rango(q[e]) = {}
    BY <1>7 DEF Forma, Buzones
  <2> QED
    BY <2>1, <2>2 DEF Buzones
<1>13. Forma(nodo', head', curso', t, q)
  BY <1>1, <1>2, <1>11, <1>12 DEF Forma, EnMano
<1>14. Inv'
  BY <1>10, <1>13 DEF Inv
<1>15. Vista(nodo, s, q, Nombres, ColasVistas) /\ Vista(nodo', t, q, Nombres', ColasVistas')
  BY <1>10, <1>13, VistaActual, VistaSiguiente
<1>16. /\ Nombres = [i \in 1..l |-> nodo[s[i]].nombre]
       /\ Len(Nombres) = l /\ \A i \in 1..l : Nombres[i] = nodo[s[i]].nombre
  <2>1. Nombres = [i \in 1..l |-> nodo[s[i]].nombre]
    BY <1>3, <1>15 DEF Vista
  <2> QED
    BY <2>1
<1>17. \A i, j \in 1..l : Nombres[i] = Nombres[j] => i = j
  BY <1>2, <1>3, <1>16 DEF Clientela
<1>18. L!Posicion(u) = k /\ L!Existe(u)
  BY <1>1, <1>6, <1>16, <1>17 DEF L!Posicion, L!Existe
<1>19. L!Baja(u)
  <2>1. PICK n \in Seq(Usuarios) : n = Nombres /\ Len(n) = l
    <3>1. \A i \in 1..l : s[i] \in Rango(s)
      BY <1>3 DEF Rango
    <3>2. \A i \in 1..l : nodo[s[i]] \in NodoCliente
      BY <3>1, Suya
    <3>3. \A i \in 1..l : nodo[s[i]].nombre \in Usuarios
      BY <3>2, PunterosDe
    <3> QED
      BY <1>16, <3>3
  <2>2. PICK w \in Seq(Usuarios) : w = SubSeq(n, k + 1, Len(n)) /\ Len(w) = m
                                   /\ \A i \in 1..m : w[i] = n[i + k]
    <3>1. /\ SubSeq(n, k + 1, Len(n)) \in Seq(Usuarios)
          /\ Len(SubSeq(n, k + 1, Len(n))) = Len(n) - k
          /\ \A i \in 1..(Len(n) - k) : SubSeq(n, k + 1, Len(n))[i] = n[i + k]
      BY <1>6, <2>1, RestoDe
    <3>2. PICK v : v = SubSeq(n, k + 1, Len(n))
      OBVIOUS
    <3> QED
      BY <1>5, <2>1, <3>1, <3>2
  <2>3. \A i \in 1..m : w[i] = nodo'[t[i]].nombre
    <3>1. \A i \in 1..m : i + k \in 1..l /\ t[i] = s[i + k] /\ nodo'[t[i]] = nodo[t[i]]
      BY <1>5, <1>6, <1>8, <1>9
    <3> QED
      BY <1>16, <2>1, <2>2, <3>1
  <2>4. w = [i \in 1..m |-> w[i]]
    <3>1. w \in Seq(Usuarios) /\ Len(w) = m
      BY <2>2
    <3> QED
      BY <3>1
  <2>5. Nombres' = [i \in 1..m |-> nodo'[t[i]].nombre]
    BY <1>6, <1>15 DEF Vista
  <2>6. Nombres' = w
    BY <2>3, <2>4, <2>5
  <2> QED
    BY <1>18, <2>1, <2>2, <2>6 DEF L!Baja
<1>20. L!Vacia(L!Fuera(u))
  <2>1. L!Fuera(u) = {Nombres[j] : j \in 1..k}
    BY <1>18 DEF L!Fuera
  <2>2. ASSUME NEW w \in Usuarios
        PROVE  ColasVistas'[w] = IF w \in L!Fuera(u) THEN <<>> ELSE ColasVistas[w]
    <3>1. CASE \A i \in 1..l : nodo[s[i]].nombre # w
      <4>1. ColasVistas[w] = <<>>
        BY <1>3, <1>15, <3>1 DEF Vista
      <4>2. \A i \in 1..Len(t) : nodo'[t[i]].nombre # w
        <5> SUFFICES ASSUME NEW i \in 1..m PROVE nodo'[t[i]].nombre # w
          BY <1>6
        <5>1. PICK e \in 1..l : e = i + k
          BY <1>5, <1>6
        <5>2. nodo'[t[i]] = nodo[s[e]]
          BY <1>6, <1>8, <1>9, <5>1
        <5> QED
          BY <3>1, <5>2
      <4>3. ColasVistas'[w] = <<>>
        BY <1>15, <4>2 DEF Vista
      <4> QED
        BY <4>1, <4>3
    <3>2. ASSUME NEW i \in 1..k, nodo[s[i]].nombre = w
          PROVE  w \in L!Fuera(u) /\ ColasVistas'[w] = <<>>
      <4>1. i \in 1..l /\ Nombres[i] = w
        BY <1>6, <1>16, <3>2
      <4>2. \A j \in 1..Len(t) : nodo'[t[j]].nombre # w
        <5> SUFFICES ASSUME NEW j \in 1..m, nodo'[t[j]].nombre = w PROVE FALSE
          BY <1>6
        <5>1. j + k \in 1..l /\ nodo'[t[j]] = nodo[s[j + k]] /\ j + k # i
          BY <1>5, <1>6, <1>8, <1>9
        <5> QED
          BY <1>16, <1>17, <4>1, <5>1
      <4>3. ColasVistas'[w] = <<>>
        BY <1>15, <4>2 DEF Vista
      <4> QED
        BY <2>1, <4>1, <4>3
    <3>3. ASSUME NEW i \in 1..m, nodo[s[i + k]].nombre = w
          PROVE  w \notin L!Fuera(u) /\ ColasVistas'[w] = ColasVistas[w]
      <4>1. i + k \in 1..l /\ Nombres[i + k] = w /\ t[i] = s[i + k] /\ t[i] \in Rango(t)
        BY <1>5, <1>6, <1>8, <1>16, <3>3
      <4>2. \A j \in 1..k : j \in 1..l /\ j # i + k
        BY <1>6
      <4>3. w \notin L!Fuera(u)
        BY <1>17, <2>1, <4>1, <4>2
      <4>4. ColasVistas[w] = Textos(nodo, q[t[i]])
        BY <1>3, <1>15, <3>3, <4>1 DEF Vista
      <4>5. ColasVistas'[w] = Textos(nodo', q[t[i]])
        <5>1. i \in 1..Len(t) /\ nodo'[t[i]].nombre = w
          BY <1>6, <1>9, <3>3, <4>1
        <5> QED
          BY <1>15, <5>1 DEF Vista
      <4>6. Textos(nodo', q[t[i]]) = Textos(nodo, q[t[i]])
        <5>1. \A j \in 1..Len(q[t[i]]) : nodo'[q[t[i]][j]] = nodo[q[t[i]][j]]
          BY <1>9, <4>1
        <5> QED
          BY <5>1 DEF Textos
      <4> QED
        BY <4>3, <4>4, <4>5, <4>6
    <3>4. \A i \in 1..l : i \in 1..k \/ \E j \in 1..m : i = j + k
      <4> SUFFICES ASSUME NEW i \in 1..l, i \notin 1..k PROVE \E j \in 1..m : i = j + k
        OBVIOUS
      <4>1. i - k \in 1..m /\ i = (i - k) + k
        BY <1>5, <1>6
      <4> QED
        BY <4>1
    <3>5. CASE \E i \in 1..l : nodo[s[i]].nombre = w
      <4>1. PICK i \in 1..l : nodo[s[i]].nombre = w
        BY <3>5
      <4>2. CASE i \in 1..k
        BY <3>2, <4>1, <4>2
      <4>3. ASSUME NEW j \in 1..m, i = j + k
            PROVE  ColasVistas'[w] = IF w \in L!Fuera(u) THEN <<>> ELSE ColasVistas[w]
        <5>1. nodo[s[j + k]].nombre = w
          BY <4>1, <4>3
        <5> QED
          BY <3>3, <5>1
      <4> QED
        BY <3>4, <4>2, <4>3
    <3> QED
      BY <3>1, <3>5
  <2>3. ColasVistas' = [w \in Usuarios |-> ColasVistas'[w]]
    BY <1>15 DEF Vista
  <2>4. ColasVistas' = [w \in Usuarios |-> IF w \in L!Fuera(u) THEN <<>> ELSE ColasVistas[w]]
    BY <2>2, <2>3
  <2> QED
    BY <2>4 DEF L!Vacia, ColasVistas
<1>21. L!NextColas
  BY <1>19, <1>20 DEF L!NextColas, L!Borrar
<1> QED
  BY <1>14, <1>21 DEF Avance
-----------------------------------------------------------------------------
\* The invariant, and the steps of the model as steps of Colas.
LEMMA InvInicial == Init => Inv /\ L!InitColas
<1> SUFFICES ASSUME Init PROVE Inv /\ L!InitColas
  OBVIOUS
<1>1. head = NULO /\ nodo = [a \in Direcciones |-> Libre] /\ curso = Ninguno
  BY DEF Init
<1>2. TypeOK
  BY <1>1 DEF TypeOK, Punteros
<1>3. PICK s \in Seq(Direcciones), q \in [Direcciones -> Seq(Direcciones)] :
         s = <<>> /\ q = [a \in Direcciones |-> <<>>]
  <2>1. <<>> \in Seq(Direcciones)
    OBVIOUS
  <2> QED
    BY <2>1
<1>4. Len(s) = 0 /\ Rango(s) = {}
  BY <1>3 DEF Rango
<1>5. Forma(nodo, head, curso, s, q)
  BY <1>1, <1>4 DEF Forma, Clientela, Camino, En, Buzones, EnMano
<1>6. Vista(nodo, s, q, Nombres, ColasVistas)
  BY <1>2, <1>5, VistaActual
<1>7. Nombres = <<>>
  BY <1>4, <1>6 DEF Vista
<1>8. ColasVistas = [u \in Usuarios |-> <<>>]
  <2>1. \A u \in Usuarios : ColasVistas[u] = <<>>
    BY <1>4, <1>6 DEF Vista
  <2> QED
    BY <1>6, <2>1 DEF Vista
<1> QED
  BY <1>2, <1>5, <1>7, <1>8 DEF Inv, L!InitColas, L!InitLista, ColasVistas

LEMMA PasoInv == Inv /\ [Next]_vars => Avance
<1> SUFFICES ASSUME Inv, [Next]_vars PROVE Avance
  OBVIOUS
<1>1. TypeOK
  BY DEF Inv
<1>2. PICK s, q : Forma(nodo, head, curso, s, q)
  BY DEF Inv
<1>3. ASSUME NEW u \in Usuarios, RegistrarUsuario(u) PROVE Avance
  <2>1. CASE UNCHANGED vars
    BY <1>1, <1>2, <2>1, AvanceQuieto
  <2>2. CASE ~UNCHANGED vars
    <3>1. /\ curso = Ninguno /\ curso' = curso /\ existe_usuario(u) = NULO
          /\ \E a \in Libres :
               /\ nodo' = [nodo EXCEPT ![a] = [nombre |-> u, mensajes_pendientes |-> NULO,
                                               next |-> head, before |-> NULO]]
               /\ head' = a
      BY <1>3, <2>2 DEF RegistrarUsuario
    <3>2. PICK a \in Libres :
            /\ nodo' = [nodo EXCEPT ![a] = [nombre |-> u, mensajes_pendientes |-> NULO,
                                            next |-> head, before |-> NULO]]
            /\ head' = a
      BY <3>1
    <3> QED
      BY <1>1, <1>2, <3>1, <3>2, AvanceRegistrar
  <2> QED
    BY <2>1, <2>2
<1>4. ASSUME NEW u \in Usuarios, DarDeBaja(u) PROVE Avance
  BY <1>1, <1>2, <1>4, AvanceBaja
<1>5. ASSUME NEW u \in Usuarios, Conectar(u) PROVE Avance
  BY <1>1, <1>2, <1>5, AvanceConectar
<1>6. ASSUME NEW u \in Usuarios, NEW m \in Mensajes, Enviar(u, m) PROVE Avance
  BY <1>1, <1>2, <1>6, AvanceEnviar
<1>7. CASE EntregarPendiente
  BY <1>1, <1>2, <1>7, AvanceEntregarPendiente
<1>8. CASE ConectarFin
  BY <1>1, <1>2, <1>8, AvanceConectarFin
<1>9. CASE EnviarEntrega
  BY <1>1, <1>2, <1>9, AvanceEnviarEntrega
<1>10. CASE EnviarFalla
  BY <1>1, <1>2, <1>10, AvanceEnviarFalla
<1>11. CASE UNCHANGED vars
  BY <1>1, <1>2, <1>11, AvanceQuieto
<1> QED
  BY <1>3, <1>4, <1>5, <1>6, <1>7, <1>8, <1>9, <1>10, <1>11 DEF Next

LEMMA InvBien == Spec => []Inv
<1>1. Init => Inv
  BY InvInicial
<1>2. Inv /\ [Next]_vars => Inv'
  BY PasoInv DEF Avance
<1> QED
  BY <1>1, <1>2, PTL DEF Spec

\* The memory of gestion.c is always nodes of clients, nodes of messages and free
\* memory, and the pointers hold addresses of it.
THEOREM ListaTipo == Spec => []TypeOK
<1>1. Inv => TypeOK
  BY DEF Inv
<1> QED
  BY <1>1, InvBien, PTL

LEMMA SinPunterosSueltos == Inv => SinPunterosColgantes
<1> SUFFICES ASSUME TypeOK, NEW s, NEW q, Forma(nodo, head, curso, s, q)
             PROVE  SinPunterosColgantes
  BY DEF Inv
<1>1. Clientes = Rango(s)
      /\ \A a \in Rango(s) : Nodos(Pendientes(a)) = Rango(q[a]) /\ Len(q[a]) \in Nat
  BY Recorridos
<1>2. \A a \in Clientes : nodo[a] \in NodoCliente
  BY <1>1, Suya
<1>3. \A a \in Clientes : \A b \in Nodos(Pendientes(a)) :
        /\ nodo[b] \in NodoMensaje
        /\ \A c \in Clientes \ {a} : b \notin Nodos(Pendientes(c))
  <2> SUFFICES ASSUME NEW a \in Rango(s), NEW b \in Rango(q[a])
               PROVE  /\ nodo[b] \in NodoMensaje
                      /\ \A c \in Rango(s) \ {a} : b \notin Rango(q[c])
    BY <1>1
  <2> QED
    BY Suya
<1>4. curso # Ninguno => curso.cliente \in Clientes
  BY <1>1 DEF Forma, EnMano
<1>5. curso.op = "enviar" => curso.mensaje \in Nodos(Pendientes(curso.cliente))
  <2> SUFFICES ASSUME curso.op = "enviar"
               PROVE  curso.mensaje \in Nodos(Pendientes(curso.cliente))
    OBVIOUS
  <2>1. PICK c \in Rango(s) : /\ c = curso.cliente /\ q[c] # <<>>
                              /\ curso.mensaje = q[c][Len(q[c])]
    BY OperacionBien DEF Forma, EnMano
  <2>2. q[c] \in Seq(Direcciones) /\ Len(q[c]) \in Nat
    BY Suya
  <2>3. Len(q[c]) \in 1..Len(q[c])
    BY <2>1, <2>2
  <2> QED
    BY <1>1, <2>1, <2>3 DEF Rango
<1> QED
  BY <1>2, <1>3, <1>4, <1>5 DEF SinPunterosColgantes

\* Whatever is registered, unregistered, kept, delivered or lost, and in whatever
\* order, no operation of gestion.c reaches a node that was freed or takes a node of
\* one list for one of the other, and no message is in two queues.
THEOREM SinColgantes == Spec => []SinPunterosColgantes
BY InvBien, SinPunterosSueltos, PTL

\* The nodes and pointers of gestion.c implement the sequences of Colas, on which
\* Gestion is built: the names met from head and the texts met from each user change
\* only as a registration, an unregistration, a SEND or a delivery of Colas changes
\* them, whatever the number of users and of nodes.
THEOREM ColasImplementadas == Spec => ImplementaColas
<1>1. Init => L!InitColas
  BY InvInicial
<1>2. Inv /\ [Next]_vars => [L!NextColas]_<<Nombres, ColasVistas>>
  BY PasoInv DEF Avance
<1> QED
  BY <1>1, <1>2, InvBien, PTL DEF Spec, ImplementaColas, L!SpecColas, ColasVistas
=============================================================================
